---------------------------- MODULE SessionStore ----------------------------
(***************************************************************************)
(* What the service worker keeps in Chrome's storage and in the browser,   *)
(* and the requests, listeners and panel commands at work on it            *)
(* (service-worker.ts).  Every storage call is asynchronous: a get or a    *)
(* set takes effect in a step of its own, the code up to the next await    *)
(* runs with it, and between two of them anything else may run.            *)
(***************************************************************************)
EXTENDS Naturals

CONSTANTS
    Sessions,    \* session_id's, one per MCP process
    Hosts,       \* Agent Hosts
    HostOf,      \* HostOf[s]: the host that session s runs in
    Tabs,        \* tab ids; Chrome uses each once
    UserTabs,    \* the tabs the user has open at the start
    Origins,
    MaxCalls,    \* bound: requests handled in all
    MaxTimeouts, \* bound: requests whose relay stops waiting (REQUEST_TIMEOUT)
    MaxClicks,   \* bound: panel commands and lease releases
    Commands,    \* bound: which of control_tab, revoke_lease and clear_log come
    Nil

Ids == 1..MaxCalls

ASSUME StoreAssumption ==
    /\ HostOf \in [Sessions -> Hosts]
    /\ UserTabs \subseteq Tabs
    /\ MaxCalls \in Nat /\ MaxTimeouts \in Nat /\ MaxClicks \in Nat
    /\ Nil \notin Tabs /\ Nil \notin Origins /\ Nil \notin Sessions

VARIABLES
    local,     \* chrome.storage.local
    store,     \* chrome.storage.session: store[s] is the record of key "s:" + s
    latest,    \* the session whose record was saved last
    open,      \* the tabs open in the browser
    used,      \* tab ids given out so far
    calls,     \* requests received so far
    handler,   \* handler[h]: the state of the h-th handleNativeRequest
    timeouts,  \* requests sent while an earlier one of the session still ran
    removed,   \* closed tabs whose onRemoved listener has not read the store
    writes,    \* saveSessionState calls under way in listeners and the panel
    revoking,  \* releaseAllSessions under way
    clearing,  \* the state clear_log is about to save, or NoLocal
    clicks,    \* panel commands so far
    given,     \* history: given[s] are the tabs s created or was handed
    revoked,   \* history: tabs taken from s by a release and not handed back
    cleanly,   \* history: those taken while nothing of s was under way
    cleared    \* history: audit events the user cleared

storageVars == <<local, store, latest>>
tabVars     == <<open, used, removed>>
handlerVars == <<calls, handler, timeouts>>
panelVars   == <<writes, revoking, clearing, clicks>>
historyVars == <<given, revoked, cleanly, cleared>>
vars == <<storageVars, tabVars, handlerVars, panelVars, historyVars>>

(* SessionState without its label, and PersistedState.  An audit event is  *)
(* the handler it reports, or the session whose lease ended; the caps of   *)
(* 500 events and 7 days are beyond the bounds here.                       *)
Records == [lease : BOOLEAN, tabs : SUBSET Tabs, sites : SUBSET Origins]
Events  == Ids \cup Sessions
Locals  == [paired : SUBSET Hosts, sites : SUBSET Origins, audit : SUBSET Events]
Writes  == [session : Sessions, record : Records]

NoRecord == [lease |-> FALSE, tabs |-> {}, sites |-> {}]
NoLocal  == [paired |-> {}, sites |-> {}, audit |-> {}]

Stored(s) == store[s] # Nil

\* sessionState: the record, or the one normalizeSession makes of nothing
SessionState(s) == IF Stored(s) THEN store[s] ELSE NoRecord

\* saveSessionState, which also stamps touchedAt
SaveSessionState(s, record) ==
    /\ store' = [store EXCEPT ![s] = record]
    /\ latest' = s

\* mostRecentSession: order is kept only for the last save, so when that
\* session's record has gone any other may be the most recent
MostRecent(s) == Stored(s) /\ (s = latest \/ latest = Nil \/ ~Stored(latest))

-----------------------------------------------------------------------------
(* handleNativeRequest between two awaits: where it is (stage), and the    *)
(* copies it holds of PersistedState (local), of its SessionState (session)*)
(* and of the controlled tabs (tabs).                                      *)
Methods == {"tabs_create", "tabs_context", "tabs_close", "tab_action", "label_session"}
Stages  == {"savePaired", "readSession", "saveLease", "readOrigin", "saveSite",
            "readTabs", "readLabel", "saveLabel", "dispatch", "readBack", "saveTabs",
            "readAudit", "saveAudit"}
Ended   == {"none", "done", "lost"}

HandlerRecords ==
    [session : Sessions \cup {Nil}, method : Methods \cup {Nil}, tab : Tabs \cup {Nil},
     stage : Stages \cup Ended, local : Locals, record : Records, tabs : SUBSET Tabs]

NoHandler == [session |-> Nil, method |-> Nil, tab |-> Nil, stage |-> "none",
              local |-> NoLocal, record |-> NoRecord, tabs |-> {}]

Active(h) == handler[h].stage \notin Ended

\* nothing that holds a copy of the record of s is under way
Quiet(s) ==
    /\ \A h \in Ids : ~(Active(h) /\ handler[h].session = s)
    /\ \A w \in writes : w.session # s
=============================================================================
