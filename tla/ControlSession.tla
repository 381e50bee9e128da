--------------------------- MODULE ControlSession ---------------------------
(***************************************************************************)
(* The session records of the service worker under concurrent requests,    *)
(* tab closures and panel commands.                                        *)
(***************************************************************************)
EXTENDS RequestHandler, SessionListeners

Init ==
    /\ local = NoLocal
    /\ store = [s \in Sessions |-> Nil]
    /\ latest = Nil
    /\ open = UserTabs
    /\ used = UserTabs
    /\ calls = 0
    /\ handler = [h \in Ids |-> NoHandler]
    /\ timeouts = 0
    /\ removed = {}
    /\ writes = {}
    /\ revoking = Idle
    /\ clearing = Nil
    /\ clicks = 0
    /\ given = [s \in Sessions |-> {}]
    /\ revoked = [s \in Sessions |-> {}]
    /\ cleanly = [s \in Sessions |-> {}]
    /\ cleared = {}

Next == HandlerNext \/ ListenerNext

Spec == Init /\ [][Next]_vars

-----------------------------------------------------------------------------
StorageTypeOK ==
    /\ local \in Locals
    /\ store \in [Sessions -> Records \cup {Nil}]
    /\ latest \in Sessions \cup {Nil}

TabTypeOK ==
    /\ open \subseteq used
    /\ used \subseteq Tabs
    /\ removed \subseteq Tabs

HandlerTypeOK ==
    /\ calls \in 0..MaxCalls
    /\ handler \in [Ids -> HandlerRecords]
    /\ \A h \in Ids : Active(h) => handler[h].session \in Sessions
    /\ timeouts \in 0..MaxTimeouts

PanelTypeOK ==
    /\ writes \subseteq Writes
    /\ revoking \in [stage : {"idle", "remove", "readAudit", "saveAudit"},
                     todo : SUBSET Sessions, leased : SUBSET Sessions,
                     local : Locals, session : Sessions \cup {Nil}]
    /\ revoking.stage \in {"readAudit", "saveAudit"} => revoking.session \in Sessions
    /\ clearing \in Locals \cup {Nil}
    /\ clicks \in 0..MaxClicks

HistoryTypeOK ==
    /\ given \in [Sessions -> SUBSET Tabs]
    /\ revoked \in [Sessions -> SUBSET Tabs]
    /\ cleanly \in [Sessions -> SUBSET Tabs]
    /\ cleared \subseteq Events

TypeOK == StorageTypeOK /\ TabTypeOK /\ HandlerTypeOK /\ PanelTypeOK /\ HistoryTypeOK

(* The Controlled Tab boundary (CONTEXT.md, ADR 0017): whatever copies of  *)
(* its record are read, held and saved in whatever order, a session never  *)
(* holds a tab that it neither created nor was handed by the user          *)
(* (service-worker.ts:88-91,131-136,288-292,334-339).                      *)
Boundary ==
    /\ \A s \in Sessions : SessionState(s).tabs \subseteq given[s]
    /\ \A h \in Ids : Active(h) =>
         /\ handler[h].record.tabs \subseteq given[handler[h].session]
         /\ handler[h].tabs \subseteq given[handler[h].session]
    /\ \A w \in writes : w.record.tabs \subseteq given[w.session]

(* A request past validation names a tab of its own session, although the  *)
(* records have moved on since it was checked (service-worker.ts:136,90).  *)
TargetInBoundary ==
    \A h \in Ids :
        handler[h].stage \in {"readOrigin", "saveSite", "readTabs", "dispatch"} =>
            handler[h].tab \in {Nil} \cup given[handler[h].session]

(* A release that finds nothing of a session under way is final: no later  *)
(* read, copy or save brings its tabs back (service-worker.ts:319-332).    *)
CleanReleaseIsFinal ==
    \A s \in Sessions : SessionState(s).tabs \cap cleanly[s] = {}

(* Why: the inductive strengthening of the three.  Every copy of a record  *)
(* names tabs that are the session's and were not taken in such a release. *)
Mine(s) == given[s] \ cleanly[s]

StoreMine == \A s \in Sessions : SessionState(s).tabs \subseteq Mine(s)
HandlersMine ==
    \A h \in Ids : Active(h) =>
        /\ handler[h].record.tabs \subseteq Mine(handler[h].session)
        /\ handler[h].tabs \subseteq Mine(handler[h].session)
WritesMine == \A w \in writes : w.record.tabs \subseteq Mine(w.session)

\* a tab that is created was nobody's before
GivenOut == \A s \in Sessions : given[s] \subseteq used /\ cleanly[s] \subseteq given[s]

SessionInv ==
    TypeOK /\ GivenOut /\ StoreMine /\ HandlersMine /\ WritesMine /\ TargetInBoundary

(* What ADR 0017 says of any release: it removes the authority over the    *)
(* session's tabs, until the user hands one back.                          *)
ReleaseIsFinal ==
    \A s \in Sessions : SessionState(s).tabs \cap revoked[s] = {}

(* What ADR 0022 says: the log records every call.  A call that was        *)
(* answered is in the log until the user clears it.                        *)
AuditComplete ==
    {h \in Ids : handler[h].stage = "done"} \subseteq local.audit \cup cleared
=============================================================================
