--------------------------- MODULE SessionProofs ----------------------------
(***************************************************************************)
(* Proofs about ControlSession: its types, and that no copy of a session   *)
(* record ever names a tab that is not the session's, for any number of    *)
(* sessions, tabs, requests and panel commands.  The argument is the       *)
(* inductive invariant SessionInv: every copy, whether stored, held by a   *)
(* request or about to be saved by a listener, names only tabs of Mine(s). *)
(* The last section is about the audit log and the copies of it (LogInv).  *)
(***************************************************************************)
EXTENDS ControlSession, TLAPS

(* The bounds and the nil value are apart from the data they stand beside. *)
LEMMA Bounds ==
    /\ HostOf \in [Sessions -> Hosts]
    /\ UserTabs \subseteq Tabs
    /\ MaxCalls \in Nat /\ MaxTimeouts \in Nat /\ MaxClicks \in Nat
    /\ Nil \notin Tabs /\ Nil \notin Origins /\ Nil \notin Sessions
  BY StoreAssumption

(* What a session record holds, and what a copy with one field changed is. *)
LEMMA RecordFields ==
    /\ NoRecord \in Records /\ NoRecord.tabs = {}
    /\ \A r \in Records :
         /\ r.tabs \subseteq Tabs /\ r.sites \subseteq Origins
         /\ [r EXCEPT !.lease = TRUE] \in Records
         /\ [r EXCEPT !.lease = TRUE].tabs = r.tabs
         /\ \A T \in SUBSET Tabs :
              [r EXCEPT !.tabs = T] \in Records /\ [r EXCEPT !.tabs = T].tabs = T
         /\ \A T \in SUBSET Tabs, O \in SUBSET Origins :
              /\ [r EXCEPT !.tabs = T, !.sites = O] \in Records
              /\ [r EXCEPT !.tabs = T, !.sites = O].tabs = T
  BY DEF Records, NoRecord

(* The same for PersistedState.                                            *)
LEMMA LocalFields ==
    /\ NoLocal \in Locals
    /\ \A l \in Locals :
         /\ l.paired \subseteq Hosts /\ l.sites \subseteq Origins /\ l.audit \subseteq Events
         /\ \A P \in SUBSET Hosts : [l EXCEPT !.paired = P] \in Locals
         /\ \A O \in SUBSET Origins : [l EXCEPT !.sites = O] \in Locals
         /\ \A A \in SUBSET Events : [l EXCEPT !.audit = A] \in Locals
  BY DEF Locals, NoLocal

(* A listener's save is made of a session and a record.                    *)
LEMMA WriteFields ==
    /\ \A s \in Sessions, r \in Records :
         /\ [session |-> s, record |-> r] \in Writes
         /\ [session |-> s, record |-> r].session = s
         /\ [session |-> s, record |-> r].record = r
    /\ \A w \in Writes : w.session \in Sessions /\ w.record \in Records
  BY DEF Writes

(* The fields of a handler's state.                                        *)
LEMMA HandlerFields ==
    /\ NoHandler \in HandlerRecords
    /\ \A n \in HandlerRecords :
         /\ n.session \in Sessions \cup {Nil} /\ n.method \in Methods \cup {Nil}
         /\ n.tab \in Tabs \cup {Nil} /\ n.stage \in Stages \cup Ended
         /\ n.local \in Locals /\ n.record \in Records /\ n.tabs \in SUBSET Tabs
  BY RecordFields, LocalFields DEF HandlerRecords, NoHandler, Ended

(* sessionState answers a record (service-worker.ts:82-86).                *)
LEMMA SessionStateTypes ==
    ASSUME StorageTypeOK, NEW s \in Sessions
    PROVE  SessionState(s) \in Records
  BY RecordFields DEF StorageTypeOK, SessionState, Stored

-----------------------------------------------------------------------------
(* A request's state, seen on its own: what Boundary asks of it.           *)
Held(n) ==
    n.stage \notin Ended =>
        /\ n.session \in Sessions
        /\ n.record.tabs \subseteq Mine(n.session)
        /\ n.tabs \subseteq Mine(n.session)

Aimed(n) ==
    n.stage \in {"readOrigin", "saveSite", "readTabs", "dispatch"} =>
        n.tab \in {Nil} \cup given[n.session]

(* Every request is so while SessionInv holds.                             *)
LEMMA HandlersHeld ==
    ASSUME SessionInv, NEW h \in Ids
    PROVE  handler[h] \in HandlerRecords /\ Held(handler[h]) /\ Aimed(handler[h])
  BY DEF SessionInv, TypeOK, HandlerTypeOK, HandlersMine, TargetInBoundary, Held, Aimed, Active

(* A step of one request that touches neither the history nor a listener's *)
(* save keeps SessionInv when the state it leaves the request in is held   *)
(* and aimed, and what it stores is the session's.                         *)
LEMMA HandlerKeeps ==
    ASSUME SessionInv, NEW h \in Ids, NEW n \in HandlerRecords,
           handler' = [handler EXCEPT ![h] = n], Held(n), Aimed(n),
           StorageTypeOK', StoreMine', TabTypeOK',
           calls' \in 0..MaxCalls, timeouts' \in 0..MaxTimeouts,
           UNCHANGED <<used, panelVars, historyVars>>
    PROVE  SessionInv'
<1>. USE DEF SessionInv, TypeOK
<1>1. handler \in [Ids -> HandlerRecords]
  BY DEF HandlerTypeOK
<1>2. handler'[h] = n /\ \A g \in Ids : g # h => handler'[g] = handler[g]
  BY <1>1
<1>3. handler' \in [Ids -> HandlerRecords]
  BY <1>1
<1>4. UNCHANGED <<given, cleanly, writes, revoking, clearing, clicks, revoked, cleared>>
  BY DEF panelVars, historyVars
<1>5. \A s : Mine(s)' = Mine(s)
  BY <1>4 DEF Mine
<1>6. \A g \in Ids : Active(g)' =>
        /\ handler'[g].session \in Sessions
        /\ handler'[g].record.tabs \subseteq Mine(handler'[g].session)
        /\ handler'[g].tabs \subseteq Mine(handler'[g].session)
  BY <1>2, HandlersHeld DEF Held, Active
<1>7. \A g \in Ids :
        handler'[g].stage \in {"readOrigin", "saveSite", "readTabs", "dispatch"} =>
            handler'[g].tab \in {Nil} \cup given[handler'[g].session]
  BY <1>2, HandlersHeld DEF Aimed
<1>8. HandlerTypeOK'
  BY <1>3, <1>6 DEF HandlerTypeOK
<1>9. PanelTypeOK' /\ HistoryTypeOK'
  BY <1>4 DEF PanelTypeOK, HistoryTypeOK
<1>10. HandlersMine'
  BY <1>4, <1>6 DEF HandlersMine, Mine
<1>11. WritesMine'
  BY <1>4 DEF WritesMine, Mine
<1>12. GivenOut'
  BY <1>4 DEF GivenOut
<1>13. TargetInBoundary'
  BY <1>4, <1>7 DEF TargetInBoundary
<1>14. QED BY <1>8, <1>9, <1>10, <1>11, <1>12, <1>13

(* The same for a step that leaves the storage alone.                      *)
LEMMA HandlerReads ==
    ASSUME SessionInv, NEW h \in Ids, NEW n \in HandlerRecords,
           handler' = [handler EXCEPT ![h] = n], Held(n), Aimed(n),
           UNCHANGED <<storageVars, tabVars, calls, timeouts, panelVars, historyVars>>
    PROVE  SessionInv'
<1>1. StorageTypeOK' /\ TabTypeOK' /\ calls' \in 0..MaxCalls /\ timeouts' \in 0..MaxTimeouts
  BY DEF SessionInv, TypeOK, StorageTypeOK, TabTypeOK, HandlerTypeOK, storageVars, tabVars
<1>2. StoreMine'
  BY DEF SessionInv, StoreMine, SessionState, Stored, Mine, storageVars, historyVars
<1>3. used' = used
  BY DEF tabVars
<1>4. QED BY <1>1, <1>2, <1>3, HandlerKeeps

(* saveSessionState of a record that names the session's tabs only.        *)
LEMMA SaveKeeps ==
    ASSUME SessionInv, NEW s \in Sessions, NEW r \in Records, SaveSessionState(s, r),
           r.tabs \subseteq Mine(s), local' \in Locals, UNCHANGED historyVars
    PROVE  StorageTypeOK' /\ StoreMine'
<1>. USE DEF SessionInv, TypeOK, SaveSessionState
<1>1. StorageTypeOK'
  BY DEF StorageTypeOK
<1>2. \A t \in Sessions : SessionState(t)' = IF t = s /\ r # Nil THEN r
                             ELSE IF t = s THEN NoRecord ELSE SessionState(t)
  BY DEF StorageTypeOK, SessionState, Stored
<1>3. \A t \in Sessions : Mine(t)' = Mine(t)
  BY DEF Mine, historyVars
<1>4. \A t \in Sessions : (SessionState(t)').tabs \subseteq Mine(t)
  BY <1>2, RecordFields DEF StoreMine
<1>5. QED BY <1>1, <1>3, <1>4 DEF StoreMine

-----------------------------------------------------------------------------
(* The steps of a request that only read (service-worker.ts:82-136).       *)
LEMMA ReadingSteps ==
    ASSUME SessionInv, NEW h \in Ids,
           \/ ReadSession(h) \/ ReadOrigin(h) \/ ReadTabs(h) \/ ReadLabel(h)
           \/ ReuseTab(h) \/ ActOnTab(h) \/ DispatchFails(h) \/ ReadBack(h) \/ ReadAudit(h)
    PROVE  SessionInv'
<1>. DEFINE hd == handler[h]
            s == hd.session
            concluded == [hd EXCEPT !.stage = "readAudit", !.record = NoRecord,
                                    !.tabs = {}, !.local = NoLocal]
<1>1. /\ hd \in HandlerRecords /\ Held(hd) /\ Aimed(hd)
      /\ handler \in [Ids -> HandlerRecords]
  BY HandlersHeld DEF SessionInv, TypeOK, HandlerTypeOK
<1>2. ASSUME NEW n \in HandlerRecords, Held(n), Aimed(n),
             handler' = [handler EXCEPT ![h] = n],
             UNCHANGED <<storageVars, tabVars, calls, timeouts, panelVars, historyVars>>
      PROVE  SessionInv'
  BY <1>2, HandlerReads
<1>3. ASSUME s \in Sessions PROVE SessionState(s) \in Records /\ SessionState(s).tabs \subseteq Mine(s)
  BY <1>3, SessionStateTypes DEF SessionInv, TypeOK, StoreMine
<1>4. ASSUME Conclude(h), hd.stage \notin Ended,
             UNCHANGED <<storageVars, tabVars, calls, timeouts, panelVars, historyVars>>
      PROVE  SessionInv'
  <2>1. handler' = [handler EXCEPT ![h] = concluded]
    BY <1>1, <1>4 DEF Conclude, HandlerRecords
  <2>2. concluded \in HandlerRecords
    BY <1>1, RecordFields, LocalFields DEF HandlerRecords, Stages
  <2>3. Held(concluded) /\ Aimed(concluded)
    BY <1>1, <1>4, RecordFields DEF Held, Aimed, HandlerRecords
  <2>4. QED BY <2>1, <2>2, <2>3, <1>4, <1>2
<1>5. ASSUME NEW stage \in Stages, Goto(h, stage), hd.stage \notin Ended,
             \/ hd.stage \in {"readOrigin", "saveSite", "readTabs", "dispatch"}
             \/ stage \notin {"readOrigin", "saveSite", "readTabs", "dispatch"},
             UNCHANGED <<storageVars, tabVars, calls, timeouts, panelVars, historyVars>>
      PROVE  SessionInv'
  <2>. DEFINE n == [hd EXCEPT !.stage = stage]
  <2>1. handler' = [handler EXCEPT ![h] = n]
    BY <1>1, <1>5 DEF Goto, HandlerRecords
  <2>2. n \in HandlerRecords
    BY <1>1 DEF HandlerRecords
  <2>3. Held(n) /\ Aimed(n)
    BY <1>1, <1>5 DEF Held, Aimed, HandlerRecords
  <2>4. QED BY <2>1, <2>2, <2>3, <1>5, <1>2
<1>6. CASE ReadSession(h)
  <2>. DEFINE r == [SessionState(s) EXCEPT !.lease = TRUE]
              n == [hd EXCEPT !.stage = "saveLease", !.record = r]
  <2>1. s \in Sessions
    BY <1>1, <1>6 DEF ReadSession, Held, Ended
  <2>2. r \in Records /\ r.tabs \subseteq Mine(s)
    BY <2>1, <1>3, RecordFields
  <2>3. handler' = [handler EXCEPT ![h] = n]
    BY <1>1, <1>6 DEF ReadSession, HandlerRecords
  <2>4. n \in HandlerRecords
    BY <1>1, <2>2 DEF HandlerRecords, Stages
  <2>5. Held(n) /\ Aimed(n)
    BY <1>1, <1>6, <2>1, <2>2 DEF ReadSession, Held, Aimed, HandlerRecords, Ended
  <2>6. QED BY <1>6, <2>3, <2>4, <2>5, <1>2 DEF ReadSession
<1>7. CASE ReadOrigin(h)
  <2>1. CASE Conclude(h)
    BY <1>7, <2>1, <1>4 DEF ReadOrigin, Ended
  <2>2. CASE Goto(h, "readTabs")
    BY <1>7, <2>2, <1>5 DEF ReadOrigin, Ended, Stages
  <2>3. ASSUME NEW origin \in Origins,
               handler' = [handler EXCEPT ![h].stage = "saveSite",
                                          ![h].local.sites = @ \cup {origin}]
        PROVE  SessionInv'
    <3>. DEFINE l == [hd.local EXCEPT !.sites = @ \cup {origin}]
                n == [hd EXCEPT !.stage = "saveSite", !.local = l]
    <3>1. hd.local \in Locals /\ hd.local.sites \subseteq Origins
      BY <1>1, HandlerFields, LocalFields
    <3>2. l \in Locals
      BY <3>1, LocalFields
    <3>3. handler' = [handler EXCEPT ![h] = n]
      BY <1>1, <2>3, <3>1 DEF HandlerRecords
    <3>4. n \in HandlerRecords
      BY <1>1, <3>2 DEF HandlerRecords, Stages
    <3>5. Held(n) /\ Aimed(n)
      BY <1>1, <1>7 DEF ReadOrigin, Held, Aimed, HandlerRecords, Ended
    <3>6. QED BY <1>7, <3>3, <3>4, <3>5, <1>2 DEF ReadOrigin
  <2>4. QED BY <1>7, <2>1, <2>2, <2>3 DEF ReadOrigin
<1>8. CASE ReadTabs(h)
  <2>. DEFINE stage == IF hd.method = "label_session" THEN "readLabel" ELSE "dispatch"
              n == [hd EXCEPT !.stage = stage, !.tabs = SessionState(s).tabs,
                              !.record = NoRecord, !.local = NoLocal]
  <2>1. s \in Sessions
    BY <1>1, <1>8 DEF ReadTabs, Held, Ended
  <2>2. SessionState(s).tabs \subseteq Tabs /\ SessionState(s).tabs \subseteq Mine(s)
    BY <2>1, <1>3, RecordFields
  <2>3. handler' = [handler EXCEPT ![h] = n]
    BY <1>1, <1>8 DEF ReadTabs, HandlerRecords
  <2>4. n \in HandlerRecords
    BY <1>1, <2>2, RecordFields, LocalFields DEF HandlerRecords, Stages
  <2>5. Held(n) /\ Aimed(n)
    BY <1>1, <1>8, <2>1, <2>2, RecordFields DEF ReadTabs, Held, Aimed, HandlerRecords
  <2>6. QED BY <1>8, <2>3, <2>4, <2>5, <1>2 DEF ReadTabs
<1>9. CASE ReadLabel(h)
  <2>1. CASE Conclude(h)
    BY <1>9, <2>1, <1>4 DEF ReadLabel, Ended
  <2>2. CASE handler' = [handler EXCEPT ![h].stage = "saveLabel",
                                        ![h].record = SessionState(s)]
    <3>. DEFINE n == [hd EXCEPT !.stage = "saveLabel", !.record = SessionState(s)]
    <3>1. s \in Sessions
      BY <1>1, <1>9 DEF ReadLabel, Held, Ended
    <3>2. SessionState(s) \in Records /\ SessionState(s).tabs \subseteq Mine(s)
      BY <3>1, <1>3
    <3>3. handler' = [handler EXCEPT ![h] = n]
      BY <1>1, <2>2 DEF HandlerRecords
    <3>4. n \in HandlerRecords
      BY <1>1, <3>2 DEF HandlerRecords, Stages
    <3>5. Held(n) /\ Aimed(n)
      BY <1>1, <1>9, <3>1, <3>2 DEF ReadLabel, Held, Aimed, HandlerRecords, Ended
    <3>6. QED BY <1>9, <3>3, <3>4, <3>5, <1>2 DEF ReadLabel
  <2>3. QED BY <1>9, <2>1, <2>2 DEF ReadLabel
<1>10. CASE ReuseTab(h) \/ ActOnTab(h)
  BY <1>10, <1>5 DEF ReuseTab, ActOnTab, Ended, Stages
<1>11. CASE DispatchFails(h)
  BY <1>11, <1>4 DEF DispatchFails, Ended
<1>12. CASE ReadBack(h)
  <2>. DEFINE r == [SessionState(s) EXCEPT !.tabs = hd.tabs]
              n == [hd EXCEPT !.stage = "saveTabs", !.record = r]
  <2>1. s \in Sessions /\ hd.tabs \subseteq Mine(s) /\ hd.tabs \in SUBSET Tabs
    BY <1>1, <1>12, HandlerFields DEF ReadBack, Held, Ended
  <2>2. r \in Records /\ r.tabs = hd.tabs
    BY <2>1, <1>3, RecordFields
  <2>3. handler' = [handler EXCEPT ![h] = n]
    BY <1>1, <1>12 DEF ReadBack, HandlerRecords
  <2>4. n \in HandlerRecords
    BY <1>1, <2>2 DEF HandlerRecords, Stages
  <2>5. Held(n) /\ Aimed(n)
    BY <1>1, <1>12, <2>1, <2>2 DEF ReadBack, Held, Aimed, HandlerRecords
  <2>6. QED BY <1>12, <2>3, <2>4, <2>5, <1>2 DEF ReadBack
<1>13. CASE ReadAudit(h)
  <2>. DEFINE l == [local EXCEPT !.audit = @ \cup {h}]
              n == [hd EXCEPT !.stage = "saveAudit", !.local = l]
  <2>1. l \in Locals
    <3>1. local \in Locals
      BY DEF SessionInv, TypeOK, StorageTypeOK
    <3>2. local.audit \cup {h} \in SUBSET Events
      BY <3>1, LocalFields DEF Events
    <3>3. QED BY <3>1, <3>2, LocalFields
  <2>2. handler' = [handler EXCEPT ![h] = n]
    BY <1>1, <1>13 DEF ReadAudit, HandlerRecords
  <2>3. n \in HandlerRecords
    BY <1>1, <2>1 DEF HandlerRecords, Stages
  <2>4. Held(n) /\ Aimed(n)
    BY <1>1, <1>13 DEF ReadAudit, Held, Aimed, HandlerRecords, Ended
  <2>5. QED BY <1>13, <2>2, <2>3, <2>4, <1>2 DEF ReadAudit
<1>14. QED
  BY <1>6, <1>7, <1>8, <1>9, <1>10, <1>11, <1>12, <1>13

(* The steps of a request that save (service-worker.ts:88-133,345-357).    *)
LEMMA SavingSteps ==
    ASSUME SessionInv, NEW h \in Ids,
           \/ SavePaired(h) \/ SaveLease(h) \/ SaveSite(h) \/ SaveLabel(h)
           \/ SaveTabs(h) \/ SaveAudit(h)
    PROVE  SessionInv'
<1>. DEFINE hd == handler[h]
            s == hd.session
            concluded == [hd EXCEPT !.stage = "readAudit", !.record = NoRecord,
                                    !.tabs = {}, !.local = NoLocal]
<1>1. /\ hd \in HandlerRecords /\ Held(hd) /\ Aimed(hd)
      /\ handler \in [Ids -> HandlerRecords]
  BY HandlersHeld DEF SessionInv, TypeOK, HandlerTypeOK
<1>2. local \in Locals /\ hd.local \in Locals /\ hd.record \in Records
  BY <1>1, HandlerFields DEF SessionInv, TypeOK, StorageTypeOK
<1>3. ASSUME UNCHANGED <<tabVars, calls, timeouts, panelVars, historyVars>>
      PROVE  TabTypeOK' /\ calls' \in 0..MaxCalls /\ timeouts' \in 0..MaxTimeouts /\ used' = used
  BY <1>3 DEF SessionInv, TypeOK, TabTypeOK, HandlerTypeOK, tabVars
\* the save of the record of s, then the step to n
<1>4. ASSUME NEW n \in HandlerRecords, Held(n), Aimed(n), hd.stage \notin Ended,
             handler' = [handler EXCEPT ![h] = n],
             SaveSessionState(s, hd.record),
             UNCHANGED <<local, tabVars, calls, timeouts, panelVars, historyVars>>
      PROVE  SessionInv'
  <2>1. s \in Sessions /\ hd.record.tabs \subseteq Mine(s)
    BY <1>1, <1>4 DEF Held
  <2>2. StorageTypeOK' /\ StoreMine'
    BY <2>1, <1>2, <1>4, SaveKeeps
  <2>3. QED BY <1>3, <1>4, <2>2, HandlerKeeps
\* a save of PersistedState, then the step to n
<1>5. ASSUME NEW n \in HandlerRecords, Held(n), Aimed(n), local' \in Locals,
             handler' = [handler EXCEPT ![h] = n],
             UNCHANGED <<store, latest, tabVars, calls, timeouts, panelVars, historyVars>>
      PROVE  SessionInv'
  <2>1. StorageTypeOK'
    BY <1>5 DEF SessionInv, TypeOK, StorageTypeOK
  <2>2. StoreMine'
    BY <1>5 DEF SessionInv, StoreMine, SessionState, Stored, Mine, historyVars
  <2>3. QED BY <1>3, <1>5, <2>1, <2>2, HandlerKeeps
<1>6. concluded \in HandlerRecords
  BY <1>1, RecordFields, LocalFields DEF HandlerRecords, Stages
<1>7. hd.stage \notin Ended => Held(concluded) /\ Aimed(concluded)
  BY <1>1, RecordFields DEF Held, Aimed, HandlerRecords
<1>8. Conclude(h) => handler' = [handler EXCEPT ![h] = concluded]
  BY <1>1 DEF Conclude, HandlerRecords
<1>9. CASE SavePaired(h)
  <2>. DEFINE l == [hd.local EXCEPT !.paired = @ \cup {HostOf[s]}]
              n == [hd EXCEPT !.stage = "readSession", !.local = l]
  <2>1. s \in Sessions
    BY <1>1, <1>9 DEF SavePaired, Held, Ended
  <2>2. hd.local.paired \cup {HostOf[s]} \in SUBSET Hosts
    BY <2>1, <1>2, LocalFields, Bounds
  <2>3. l \in Locals
    BY <2>2, <1>2, LocalFields
  <2>4. handler' = [handler EXCEPT ![h] = n]
    BY <1>1, <1>9 DEF SavePaired, HandlerRecords
  <2>5. n \in HandlerRecords
    BY <1>1, <2>3 DEF HandlerRecords, Stages
  <2>6. Held(n) /\ Aimed(n)
    BY <1>1, <1>9 DEF SavePaired, Held, Aimed, HandlerRecords, Ended
  <2>7. QED BY <1>9, <2>3, <2>4, <2>5, <2>6, <1>5 DEF SavePaired
<1>10. CASE SaveLease(h)
  <2>1. CASE Conclude(h)
    BY <1>10, <2>1, <1>4, <1>6, <1>7, <1>8 DEF SaveLease, Ended
  <2>2. CASE (hd.tab = Nil \/ hd.tab \in hd.record.tabs) /\ Goto(h, "readOrigin")
    <3>. DEFINE n == [hd EXCEPT !.stage = "readOrigin"]
    <3>1. handler' = [handler EXCEPT ![h] = n]
      BY <1>1, <2>2 DEF Goto, HandlerRecords
    <3>2. n \in HandlerRecords
      BY <1>1 DEF HandlerRecords, Stages
    <3>3. hd.tab \in {Nil} \cup given[s]
      BY <1>1, <1>10, <2>2 DEF SaveLease, Held, Mine, Ended
    <3>4. Held(n) /\ Aimed(n)
      BY <1>1, <1>10, <3>3 DEF SaveLease, Held, Aimed, HandlerRecords, Ended
    <3>5. QED BY <1>10, <3>1, <3>2, <3>4, <1>4 DEF SaveLease, Ended
  <2>3. QED BY <1>10, <2>1, <2>2 DEF SaveLease
<1>11. CASE SaveSite(h)
  <2>. DEFINE n == [hd EXCEPT !.stage = "readTabs"]
  <2>1. handler' = [handler EXCEPT ![h] = n]
    BY <1>1, <1>11 DEF SaveSite, Goto, HandlerRecords
  <2>2. n \in HandlerRecords
    BY <1>1 DEF HandlerRecords, Stages
  <2>3. Held(n) /\ Aimed(n)
    BY <1>1, <1>11 DEF SaveSite, Held, Aimed, HandlerRecords, Ended
  <2>4. QED BY <1>11, <2>1, <2>2, <2>3, <1>2, <1>5 DEF SaveSite
<1>12. CASE SaveLabel(h)
  <2>. DEFINE n == [hd EXCEPT !.stage = "readBack"]
  <2>1. handler' = [handler EXCEPT ![h] = n]
    BY <1>1, <1>12 DEF SaveLabel, Goto, HandlerRecords
  <2>2. n \in HandlerRecords
    BY <1>1 DEF HandlerRecords, Stages
  <2>3. Held(n) /\ Aimed(n)
    BY <1>1, <1>12 DEF SaveLabel, Held, Aimed, HandlerRecords, Ended
  <2>4. QED BY <1>12, <2>1, <2>2, <2>3, <1>4 DEF SaveLabel, Ended
<1>13. CASE SaveTabs(h)
  BY <1>13, <1>4, <1>6, <1>7, <1>8 DEF SaveTabs, Ended
<1>14. CASE SaveAudit(h)
  <2>. DEFINE n == [NoHandler EXCEPT !.stage = "done"]
  <2>1. n \in HandlerRecords /\ n.stage = "done"
    BY RecordFields, LocalFields DEF HandlerRecords, NoHandler, Ended
  <2>2. Held(n) /\ Aimed(n)
    BY <2>1 DEF Held, Aimed, Ended
  <2>3. QED BY <1>14, <2>1, <2>2, <1>2, <1>5 DEF SaveAudit
<1>15. QED
  BY <1>9, <1>10, <1>11, <1>12, <1>13, <1>14

-----------------------------------------------------------------------------
(* A request comes in; nothing of the session is read yet.                 *)
LEMMA ReceiveStep ==
    ASSUME SessionInv, NEW s \in Sessions, NEW method \in Methods,
           NEW tab \in Tabs \cup {Nil}, Receive(s, method, tab)
    PROVE  SessionInv'
<1>. DEFINE h == calls + 1
            n == [NoHandler EXCEPT
                    !.session = s, !.method = method, !.tab = tab, !.local = local,
                    !.stage = IF HostOf[s] \in local.paired
                                THEN "readSession" ELSE "savePaired"]
<1>1. h \in Ids /\ handler' = [handler EXCEPT ![h] = n]
  BY DEF Receive
<1>2. n \in HandlerRecords
  BY RecordFields DEF HandlerRecords, NoHandler, Stages, SessionInv, TypeOK, StorageTypeOK
<1>3. Held(n) /\ Aimed(n)
  BY RecordFields DEF Held, Aimed, NoHandler
<1>4. calls' \in 0..MaxCalls /\ timeouts' \in 0..MaxTimeouts
  BY <1>1, Bounds DEF Receive, Ids, SessionInv, TypeOK, HandlerTypeOK
<1>5. StorageTypeOK' /\ TabTypeOK' /\ used' = used
  BY DEF Receive, SessionInv, TypeOK, StorageTypeOK, TabTypeOK, storageVars, tabVars
<1>6. StoreMine'
  BY DEF Receive, SessionInv, StoreMine, SessionState, Stored, Mine, storageVars, historyVars
<1>7. UNCHANGED <<panelVars, historyVars>>
  BY DEF Receive
<1>. HIDE DEF h, n
<1>8. QED BY <1>1, <1>2, <1>3, <1>4, <1>5, <1>6, <1>7, HandlerKeeps

(* tabs_close takes the tab out of the copy it holds.                      *)
LEMMA CloseTabStep ==
    ASSUME SessionInv, NEW h \in Ids, CloseTab(h)
    PROVE  SessionInv'
<1>. DEFINE hd == handler[h]
            n == [hd EXCEPT !.stage = "readBack", !.tabs = @ \ {hd.tab}]
<1>1. /\ hd \in HandlerRecords /\ Held(hd) /\ Aimed(hd)
      /\ handler \in [Ids -> HandlerRecords]
  BY HandlersHeld DEF SessionInv, TypeOK, HandlerTypeOK
<1>2. handler' = [handler EXCEPT ![h] = n]
  BY <1>1 DEF CloseTab, HandlerRecords
<1>3. n \in HandlerRecords
  BY <1>1 DEF HandlerRecords, Stages
<1>4. Held(n) /\ Aimed(n)
  BY <1>1 DEF CloseTab, Held, Aimed, HandlerRecords, Ended
<1>5. StorageTypeOK' /\ TabTypeOK' /\ used' = used
  BY DEF CloseTab, SessionInv, TypeOK, StorageTypeOK, TabTypeOK, storageVars
<1>6. StoreMine'
  BY DEF CloseTab, SessionInv, StoreMine, SessionState, Stored, Mine, storageVars, historyVars
<1>7. calls' \in 0..MaxCalls /\ timeouts' \in 0..MaxTimeouts
  BY DEF CloseTab, SessionInv, TypeOK, HandlerTypeOK
<1>8. UNCHANGED <<panelVars, historyVars>>
  BY DEF CloseTab
<1>. HIDE DEF n
<1>9. QED BY <1>2, <1>3, <1>4, <1>5, <1>6, <1>7, <1>8, HandlerKeeps

(* A tab that is created was nobody's, and becomes the session's before    *)
(* any copy names it.                                                      *)
LEMMA CreateTabStep ==
    ASSUME SessionInv, NEW h \in Ids, NEW tab \in Tabs, CreateTab(h, tab)
    PROVE  SessionInv'
<1>. DEFINE hd == handler[h]
            s == hd.session
            n == [hd EXCEPT !.stage = "readBack", !.tabs = @ \cup {tab}]
<1>. USE DEF SessionInv, TypeOK
<1>1. /\ hd \in HandlerRecords /\ Held(hd) /\ Aimed(hd)
      /\ handler \in [Ids -> HandlerRecords]
  BY HandlersHeld DEF HandlerTypeOK
<1>2. s \in Sessions /\ tab \notin used
  BY <1>1 DEF CreateTab, Held, Ended
<1>3. handler' = [handler EXCEPT ![h] = n]
  BY <1>1 DEF CreateTab, HandlerRecords
<1>4. n \in HandlerRecords /\ n.session = s /\ n.record = hd.record
      /\ n.tabs = hd.tabs \cup {tab} /\ n.stage = "readBack"
  BY <1>1 DEF HandlerRecords, Stages
<1>5. /\ given \in [Sessions -> SUBSET Tabs]
      /\ given' = [given EXCEPT ![s] = @ \cup {tab}]
      /\ UNCHANGED <<storageVars, removed, calls, timeouts, panelVars, revoked, cleanly, cleared>>
  BY DEF CreateTab, HistoryTypeOK
<1>6. \A t \in Sessions : given[t] \subseteq given'[t]
  BY <1>2, <1>5
<1>7. \A t \in Sessions : tab \notin cleanly[t]
  BY <1>2 DEF GivenOut
<1>8. /\ \A t \in Sessions : Mine(t) \subseteq given'[t] \ cleanly[t]
      /\ tab \in given'[s] \ cleanly[s]
  BY <1>2, <1>5, <1>6, <1>7 DEF Mine
<1>9. StorageTypeOK'
  BY <1>5 DEF StorageTypeOK, storageVars
<1>10. TabTypeOK'
  BY DEF CreateTab, TabTypeOK
<1>11. PanelTypeOK'
  BY <1>5 DEF PanelTypeOK, panelVars
<1>12. HistoryTypeOK'
  BY <1>2, <1>5 DEF HistoryTypeOK
<1>. HIDE DEF n
<1>13. /\ handler' \in [Ids -> HandlerRecords] /\ handler'[h] = n
       /\ \A g \in Ids : g # h => handler'[g] = handler[g]
  BY <1>1, <1>3, <1>4
<1>14. \A g \in Ids : handler'[g].stage \notin Ended =>
         /\ handler'[g].session \in Sessions
         /\ handler'[g].record.tabs \subseteq given'[handler'[g].session] \ cleanly[handler'[g].session]
         /\ handler'[g].tabs \subseteq given'[handler'[g].session] \ cleanly[handler'[g].session]
  <2>. SUFFICES ASSUME NEW g \in Ids, handler'[g].stage \notin Ended
                PROVE  /\ handler'[g].session \in Sessions
                       /\ handler'[g].record.tabs \subseteq
                            given'[handler'[g].session] \ cleanly[handler'[g].session]
                       /\ handler'[g].tabs \subseteq
                            given'[handler'[g].session] \ cleanly[handler'[g].session]
    OBVIOUS
  <2>1. CASE g = h
    <3>1. hd.record.tabs \subseteq Mine(s) /\ hd.tabs \subseteq Mine(s)
      BY <1>1 DEF CreateTab, Held, Ended
    <3>2. QED BY <2>1, <3>1, <1>2, <1>4, <1>8, <1>13
  <2>2. CASE g # h
    <3>1. Held(handler[g])
      BY HandlersHeld
    <3>2. QED BY <2>2, <3>1, <1>8, <1>13 DEF Held
  <2>3. QED BY <2>1, <2>2
<1>15. HandlerTypeOK'
  BY <1>5, <1>13, <1>14 DEF HandlerTypeOK, Active
<1>16. HandlersMine'
  BY <1>5, <1>14 DEF HandlersMine, Active, Mine
<1>17. StoreMine'
  BY <1>5, <1>8 DEF StoreMine, SessionState, Stored, Mine, storageVars
<1>18. WritesMine'
  BY <1>5, <1>8, WriteFields DEF WritesMine, Mine, panelVars, PanelTypeOK
<1>19. GivenOut'
  BY <1>2, <1>5 DEF GivenOut, CreateTab
<1>20. TargetInBoundary'
  <2>1. ASSUME NEW g \in Ids,
               handler'[g].stage \in {"readOrigin", "saveSite", "readTabs", "dispatch"}
        PROVE  handler'[g].tab \in {Nil} \cup given'[handler'[g].session]
    <3>1. g # h
      BY <2>1, <1>4, <1>13
    <3>2. Aimed(handler[g]) /\ Held(handler[g])
      BY HandlersHeld
    <3>3. handler[g].session \in Sessions
      BY <2>1, <3>1, <3>2, <1>13 DEF Held, Ended
    <3>4. QED BY <2>1, <3>1, <3>2, <3>3, <1>6, <1>13 DEF Aimed
  <2>2. QED BY <2>1 DEF TargetInBoundary
<1>21. QED BY <1>9, <1>10, <1>11, <1>12, <1>15, <1>16, <1>17, <1>18, <1>19, <1>20

-----------------------------------------------------------------------------
(* A step of a listener, which leaves the requests alone, keeps SessionInv *)
(* when it takes no tab from a session with a request under way.           *)
LEMMA ListenerKeeps ==
    ASSUME SessionInv, UNCHANGED handlerVars,
           StorageTypeOK', TabTypeOK', PanelTypeOK', HistoryTypeOK',
           StoreMine', WritesMine', GivenOut',
           \A s \in Sessions : given[s] \subseteq given'[s],
           \A h \in Ids : Active(h) => Mine(handler[h].session) \subseteq Mine(handler[h].session)'
    PROVE  SessionInv'
<1>. USE DEF SessionInv, TypeOK, handlerVars
<1>1. HandlerTypeOK'
  BY DEF HandlerTypeOK, Active
<1>2. HandlersMine'
  <2>1. ASSUME NEW h \in Ids, Active(h)
        PROVE  /\ handler[h].record.tabs \subseteq given'[handler[h].session] \ cleanly'[handler[h].session]
               /\ handler[h].tabs \subseteq given'[handler[h].session] \ cleanly'[handler[h].session]
    BY <2>1 DEF HandlersMine, Mine
  <2>2. QED BY <2>1 DEF HandlersMine, Active, Mine
<1>3. TargetInBoundary'
  <2>1. ASSUME NEW h \in Ids,
               handler[h].stage \in {"readOrigin", "saveSite", "readTabs", "dispatch"}
        PROVE  handler[h].tab \in {Nil} \cup given'[handler[h].session]
    <3>1. Aimed(handler[h]) /\ Held(handler[h])
      BY HandlersHeld
    <3>2. QED BY <2>1, <3>1 DEF Aimed, Held, Ended
  <2>2. QED BY <2>1 DEF TargetInBoundary
<1>4. QED BY <1>1, <1>2, <1>3

(* The listeners' steps that leave storage and history alone, or save only *)
(* PersistedState (service-worker.ts:269-341).                             *)
LEMMA QuietListeners ==
    ASSUME SessionInv,
           \/ \E tab \in Tabs : UserCloses(tab)
           \/ ReleaseAll \/ ReadLeaseAudit \/ SaveLeaseAudit \/ ClearLog \/ SaveClearedLog
    PROVE  SessionInv'
<1>. USE DEF SessionInv, TypeOK
<1>1. UNCHANGED <<store, latest, handlerVars, writes, given, revoked, cleanly>>
  <2>1. CASE \E tab \in Tabs : UserCloses(tab)
    BY <2>1 DEF UserCloses, storageVars, historyVars, panelVars
  <2>2. CASE ReleaseAll \/ ReadLeaseAudit
    BY <2>2 DEF ReleaseAll, ReadLeaseAudit, storageVars, historyVars
  <2>3. CASE SaveLeaseAudit
    BY <2>3 DEF SaveLeaseAudit, historyVars
  <2>4. CASE ClearLog
    BY <2>4 DEF ClearLog, storageVars, historyVars
  <2>5. CASE SaveClearedLog
    BY <2>5 DEF SaveClearedLog
  <2>6. QED BY <2>1, <2>2, <2>3, <2>4, <2>5
<1>2. used' = used
  BY DEF UserCloses, ReleaseAll, ReadLeaseAudit, SaveLeaseAudit, ClearLog, SaveClearedLog, tabVars
<1>3. TabTypeOK'
  BY DEF UserCloses, ReleaseAll, ReadLeaseAudit, SaveLeaseAudit, ClearLog, SaveClearedLog,
         tabVars, TabTypeOK
<1>4. StoreMine' /\ WritesMine' /\ GivenOut'
  BY <1>1, <1>2 DEF StoreMine, WritesMine, GivenOut, SessionState, Stored, Mine
<1>5. ASSUME StorageTypeOK', PanelTypeOK', HistoryTypeOK' PROVE SessionInv'
  <2>1. \A s : Mine(s)' = Mine(s)
    BY <1>1 DEF Mine
  <2>2. \A s \in Sessions : given[s] \subseteq given'[s]
    BY <1>1
  <2>3. \A h \in Ids : Active(h) => Mine(handler[h].session) \subseteq Mine(handler[h].session)'
    BY <1>1 DEF Mine, handlerVars
  <2>4. QED BY <1>1, <1>3, <1>4, <1>5, <2>2, <2>3, ListenerKeeps
<1>6. local \in Locals /\ local.audit \subseteq Events
  BY LocalFields DEF StorageTypeOK
<1>7. local' \in Locals => StorageTypeOK'
  BY <1>1 DEF StorageTypeOK
<1>8. cleared' \subseteq Events => HistoryTypeOK'
  BY <1>1 DEF HistoryTypeOK
<1>9. CASE \E tab \in Tabs : UserCloses(tab)
  BY <1>9, <1>5 DEF UserCloses, storageVars, panelVars, historyVars, StorageTypeOK,
     PanelTypeOK, HistoryTypeOK
<1>10. CASE ReleaseAll
  <2>1. UNCHANGED <<local, writes, clearing, cleared>> /\ clicks' = clicks + 1 /\ clicks < MaxClicks
    BY <1>10 DEF ReleaseAll, storageVars, historyVars
  <2>2. revoking' = [stage |-> "remove", todo |-> {s \in Sessions : Stored(s)},
                     leased |-> {s \in {s \in Sessions : Stored(s)} : store[s].lease},
                     local |-> NoLocal, session |-> Nil]
    BY <1>10 DEF ReleaseAll, Idle
  <2>3. PanelTypeOK'
    BY <2>1, <2>2, LocalFields, Bounds DEF PanelTypeOK
  <2>4. QED BY <1>5, <1>6, <1>7, <1>8, <2>1, <2>3 DEF HistoryTypeOK
<1>11. CASE ReadLeaseAudit
  <2>1. UNCHANGED <<local, writes, clearing, cleared, clicks>>
    BY <1>11 DEF ReadLeaseAudit, storageVars, historyVars
  <2>. DEFINE l == [local EXCEPT !.audit = @ \cup {revoking.session}]
  <2>2. revoking.session \in Sessions
    BY <1>11 DEF ReadLeaseAudit, PanelTypeOK
  <2>3. local.audit \cup {revoking.session} \in SUBSET Events
    BY <1>6, <2>2 DEF Events
  <2>4. l \in Locals
    BY <1>6, <2>3, LocalFields
  <2>5. revoking' = [revoking EXCEPT !.stage = "saveAudit", !.local = l]
    BY <1>11 DEF ReadLeaseAudit
  <2>. HIDE DEF l
  <2>6. PanelTypeOK'
    BY <2>1, <2>2, <2>4, <2>5 DEF PanelTypeOK
  <2>7. QED BY <1>5, <1>6, <1>7, <1>8, <2>1, <2>6 DEF HistoryTypeOK
<1>12. CASE SaveLeaseAudit
  <2>1. UNCHANGED <<writes, clearing, cleared, clicks>> /\ local' = revoking.local
    BY <1>12 DEF SaveLeaseAudit, historyVars
  <2>2. local' \in Locals
    BY <2>1 DEF PanelTypeOK
  <2>3. PanelTypeOK'
    BY <1>12, <2>1, LocalFields DEF SaveLeaseAudit, NextSession, Idle, PanelTypeOK
  <2>4. QED BY <1>5, <1>7, <1>8, <2>1, <2>2, <2>3 DEF HistoryTypeOK
<1>13. CASE ClearLog
  <2>1. UNCHANGED <<local, writes, revoking, cleared>> /\ clicks' = clicks + 1 /\ clicks < MaxClicks
        /\ clearing' = [local EXCEPT !.audit = {}]
    BY <1>13 DEF ClearLog, storageVars, historyVars
  <2>2. clearing' \in Locals
    BY <1>6, <2>1, LocalFields
  <2>3. PanelTypeOK'
    BY <2>1, <2>2, Bounds DEF PanelTypeOK
  <2>4. QED BY <1>5, <1>6, <1>7, <1>8, <2>1, <2>3 DEF HistoryTypeOK
<1>14. CASE SaveClearedLog
  <2>1. /\ UNCHANGED <<writes, revoking, clicks>> /\ clearing' = Nil
        /\ local' \in Locals /\ cleared' = cleared \cup local.audit
    BY <1>14 DEF SaveClearedLog, PanelTypeOK
  <2>2. PanelTypeOK'
    BY <2>1 DEF PanelTypeOK
  <2>3. QED BY <1>5, <1>6, <1>7, <1>8, <2>1, <2>2 DEF HistoryTypeOK
<1>15. QED BY <1>9, <1>10, <1>11, <1>12, <1>13, <1>14

(* removeControlledTab, the panel's control_tab, and what they save.       *)
LEMMA SavingListeners ==
    ASSUME SessionInv,
           \/ \E tab \in Tabs : TabRemoved(tab)
           \/ \E w \in writes : ListenerSaves(w)
    PROVE  SessionInv'
<1>. USE DEF SessionInv, TypeOK
<1>1. UNCHANGED <<local, handlerVars, used, open, revoking, clearing, clicks,
                  given, revoked, cleanly, cleared>>
  BY DEF TabRemoved, ListenerSaves, storageVars, tabVars, historyVars
<1>2. HistoryTypeOK' /\ GivenOut'
  BY <1>1 DEF HistoryTypeOK, GivenOut
<1>3. ASSUME StorageTypeOK', TabTypeOK', writes' \subseteq Writes, StoreMine', WritesMine'
      PROVE  SessionInv'
  <2>1. PanelTypeOK'
    BY <1>1, <1>3 DEF PanelTypeOK
  <2>2. \A s \in Sessions : given[s] \subseteq given'[s]
    BY <1>1
  <2>3. \A h \in Ids : Active(h) => Mine(handler[h].session) \subseteq Mine(handler[h].session)'
    BY <1>1 DEF Mine, handlerVars
  <2>4. QED BY <1>1, <1>2, <1>3, <2>1, <2>2, <2>3, ListenerKeeps
<1>4. ASSUME NEW tab \in Tabs, TabRemoved(tab) PROVE SessionInv'
  <2>1. UNCHANGED <<store, latest>> /\ removed' = removed \ {tab}
    BY <1>4 DEF TabRemoved, storageVars
  <2>2. \A w \in writes' : w \in writes \/
          \E s \in Sessions : /\ Stored(s)
                            /\ w = [session |-> s, record |-> [store[s] EXCEPT !.tabs = @ \ {tab}]]
    BY <1>4 DEF TabRemoved
  <2>3. ASSUME NEW w \in writes'
        PROVE  w \in Writes /\ w.record.tabs \subseteq Mine(w.session)
    <3>1. CASE w \in writes
      BY <3>1 DEF PanelTypeOK, WritesMine
    <3>2. CASE w \notin writes
      <4>1. PICK s \in Sessions : /\ Stored(s)
               /\ w = [session |-> s, record |-> [store[s] EXCEPT !.tabs = @ \ {tab}]]
        BY <2>2, <3>2
      <4>2. store[s] \in Records /\ store[s].tabs \subseteq Mine(s)
        BY <4>1 DEF StorageTypeOK, StoreMine, SessionState, Stored
      <4>. DEFINE T == store[s].tabs \ {tab}
                  r == [store[s] EXCEPT !.tabs = T]
      <4>3. T \in SUBSET Tabs
        BY <4>2, RecordFields
      <4>4. r \in Records /\ r.tabs = T
        BY <4>2, <4>3, RecordFields
      <4>5. w = [session |-> s, record |-> r]
        BY <4>1
      <4>. HIDE DEF r
      <4>6. w \in Writes /\ w.session = s /\ w.record = r
        BY <4>4, <4>5, WriteFields
      <4>7. QED BY <4>2, <4>4, <4>6
    <3>3. QED BY <3>1, <3>2
  <2>4. StorageTypeOK' /\ TabTypeOK'
    BY <1>1, <2>1 DEF StorageTypeOK, TabTypeOK
  <2>5. StoreMine'
    BY <1>1, <2>1 DEF StoreMine, SessionState, Stored, Mine
  <2>6. writes' \subseteq Writes /\ \A w \in writes' : w.record.tabs \subseteq given'[w.session] \ cleanly'[w.session]
    BY <1>1, <2>3 DEF Mine
  <2>7. WritesMine'
    BY <2>6 DEF WritesMine, Mine
  <2>8. QED BY <1>3, <2>4, <2>5, <2>6, <2>7
<1>5. ASSUME NEW w \in writes, ListenerSaves(w) PROVE SessionInv'
  <2>1. writes' = writes \ {w} /\ SaveSessionState(w.session, w.record) /\ UNCHANGED tabVars
    BY <1>5 DEF ListenerSaves
  <2>2. w.session \in Sessions /\ w.record \in Records /\ w.record.tabs \subseteq Mine(w.session)
    BY WriteFields DEF PanelTypeOK, WritesMine
  <2>3. UNCHANGED historyVars /\ local' \in Locals
    BY <1>1 DEF historyVars, StorageTypeOK
  <2>4. StorageTypeOK' /\ StoreMine'
    BY <2>1, <2>2, <2>3, SaveKeeps
  <2>5. writes' \subseteq Writes /\ TabTypeOK'
    BY <2>1 DEF PanelTypeOK, TabTypeOK, tabVars
  <2>6. WritesMine'
    BY <1>1, <2>1 DEF WritesMine, Mine
  <2>7. QED BY <1>3, <2>4, <2>5, <2>6
<1>6. QED BY <1>4, <1>5

(* The user hands a tab to a session: it becomes the session's first.      *)
LEMMA ControlTabStep ==
    ASSUME SessionInv, NEW s \in Sessions, NEW tab \in Tabs, NEW origin \in Origins \cup {Nil},
           ControlTab(s, tab, origin)
    PROVE  SessionInv'
<1>. USE DEF SessionInv, TypeOK
<1>. DEFINE T == store[s].tabs \cup {tab}
            O == store[s].sites \cup ({origin} \ {Nil})
            r == [store[s] EXCEPT !.tabs = T, !.sites = O]
            w == [session |-> s, record |-> r]
<1>1. /\ clicks < MaxClicks /\ clicks' = clicks + 1
      /\ tab \in open /\ Stored(s)
      /\ writes' = writes \cup {w}
      /\ given' = [given EXCEPT ![s] = @ \cup {tab}]
      /\ revoked' = [revoked EXCEPT ![s] = @ \ {tab}]
      /\ cleanly' = [cleanly EXCEPT ![s] = @ \ {tab}]
      /\ UNCHANGED <<storageVars, tabVars, handlerVars, revoking, clearing, cleared>>
  BY DEF ControlTab, MostRecent
<1>2. store[s] \in Records /\ store[s].tabs \subseteq Mine(s)
  BY <1>1 DEF StorageTypeOK, StoreMine, SessionState, Stored
<1>3. T \in SUBSET Tabs /\ O \in SUBSET Origins
  BY <1>2, RecordFields
<1>4. r \in Records /\ r.tabs = T
  <2>1. \A q \in Records : \A T1 \in SUBSET Tabs, O1 \in SUBSET Origins :
          /\ [q EXCEPT !.tabs = T1, !.sites = O1] \in Records
          /\ [q EXCEPT !.tabs = T1, !.sites = O1].tabs = T1
    BY RecordFields
  <2>. HIDE DEF T, O
  <2>2. QED BY <1>2, <1>3, <2>1 DEF Records
<1>. HIDE DEF r, O
<1>5. w \in Writes /\ w.session = s /\ w.record = r
  BY <1>4, WriteFields
<1>. HIDE DEF w
<1>6. /\ given \in [Sessions -> SUBSET Tabs] /\ cleanly \in [Sessions -> SUBSET Tabs]
      /\ revoked \in [Sessions -> SUBSET Tabs]
  BY DEF HistoryTypeOK
<1>7. /\ \A t \in Sessions : given[t] \subseteq given'[t]
      /\ \A t \in Sessions : Mine(t) \subseteq given'[t] \ cleanly'[t]
      /\ tab \in given'[s] \ cleanly'[s]
  BY <1>1, <1>6 DEF Mine
<1>8. StorageTypeOK' /\ TabTypeOK'
  BY <1>1 DEF StorageTypeOK, TabTypeOK, storageVars, tabVars
<1>9. PanelTypeOK'
  <2>1. writes' \subseteq Writes /\ clicks' \in 0..MaxClicks
    BY <1>1, <1>5, Bounds DEF PanelTypeOK
  <2>2. QED BY <1>1, <2>1 DEF PanelTypeOK
<1>10. HistoryTypeOK'
  BY <1>1, <1>6 DEF HistoryTypeOK
<1>11. StoreMine'
  BY <1>1, <1>7 DEF StoreMine, SessionState, Stored, Mine, storageVars
<1>12. \A v \in writes' : v.record.tabs \subseteq given'[v.session] \ cleanly'[v.session]
  <2>1. ASSUME NEW v \in writes PROVE v.record.tabs \subseteq given'[v.session] \ cleanly'[v.session]
    BY <1>7, WriteFields DEF WritesMine, PanelTypeOK
  <2>2. w.record.tabs \subseteq given'[w.session] \ cleanly'[w.session]
    BY <1>2, <1>4, <1>5, <1>7
  <2>3. QED BY <1>1, <2>1, <2>2
<1>13. WritesMine'
  BY <1>12 DEF WritesMine, Mine
<1>14. GivenOut'
  BY <1>1, <1>6 DEF GivenOut, TabTypeOK, tabVars
<1>15. \A h \in Ids : Active(h) => Mine(handler[h].session) \subseteq Mine(handler[h].session)'
  <2>1. ASSUME NEW h \in Ids, Active(h)
        PROVE  Mine(handler[h].session) \subseteq given'[handler[h].session] \ cleanly'[handler[h].session]
    BY <2>1, <1>7 DEF HandlerTypeOK
  <2>2. handler' = handler
    BY <1>1 DEF handlerVars
  <2>3. QED BY <2>1, <2>2 DEF Mine
<1>16. QED
  BY <1>1, <1>7, <1>8, <1>9, <1>10, <1>11, <1>13, <1>14, <1>15, ListenerKeeps

(* The record of a session is removed.  Its tabs are taken from it for     *)
(* good when nothing that holds a copy of the record is under way.         *)
LEMMA ReleaseSessionStep ==
    ASSUME SessionInv, NEW s \in Sessions, ReleaseSession(s)
    PROVE  SessionInv'
<1>. USE DEF SessionInv, TypeOK
<1>. DEFINE taken == IF Quiet(s) THEN SessionState(s).tabs ELSE {}
<1>1. /\ store' = [store EXCEPT ![s] = Nil]
      /\ revoked' = [revoked EXCEPT ![s] = @ \cup SessionState(s).tabs]
      /\ cleanly' = [cleanly EXCEPT ![s] = @ \cup taken]
      /\ UNCHANGED <<local, latest, tabVars, handlerVars, writes, clearing, clicks, given, cleared>>
  BY DEF ReleaseSession
<1>2. /\ store \in [Sessions -> Records \cup {Nil}]
      /\ given \in [Sessions -> SUBSET Tabs] /\ cleanly \in [Sessions -> SUBSET Tabs]
      /\ revoked \in [Sessions -> SUBSET Tabs]
  BY DEF StorageTypeOK, HistoryTypeOK
<1>3. SessionState(s).tabs \subseteq Tabs /\ SessionState(s).tabs \subseteq given[s]
  BY SessionStateTypes, RecordFields DEF StoreMine, Mine
<1>4. taken \subseteq SessionState(s).tabs
  OBVIOUS
<1>5. /\ \A t \in Sessions : t # s => cleanly'[t] = cleanly[t]
      /\ ~Quiet(s) => cleanly'[s] = cleanly[s]
  BY <1>1, <1>2
<1>. HIDE DEF taken
<1>6. /\ StorageTypeOK' /\ TabTypeOK' /\ HistoryTypeOK' /\ GivenOut'
  BY <1>1, <1>2, <1>3, <1>4 DEF StorageTypeOK, TabTypeOK, HistoryTypeOK, GivenOut, tabVars
<1>7. PanelTypeOK'
  BY <1>1, LocalFields DEF ReleaseSession, NextSession, Idle, PanelTypeOK
<1>8. StoreMine'
  <2>1. store'[s] = Nil /\ \A t \in Sessions : t # s => store'[t] = store[t]
    BY <1>1, <1>2
  <2>2. \A t \in Sessions : t # s => Mine(t) = given'[t] \ cleanly'[t]
    BY <1>1, <1>5 DEF Mine
  <2>3. \A t \in Sessions :
          (IF store'[t] # Nil THEN store'[t] ELSE NoRecord).tabs \subseteq given'[t] \ cleanly'[t]
    BY <2>1, <2>2, RecordFields DEF StoreMine, SessionState, Stored
  <2>4. QED BY <2>3 DEF StoreMine, SessionState, Stored, Mine
<1>9. \A w \in writes : Mine(w.session) = given'[w.session] \ cleanly'[w.session]
  <2>1. ASSUME NEW w \in writes PROVE cleanly'[w.session] = cleanly[w.session]
    BY <1>5, WriteFields DEF PanelTypeOK, Quiet
  <2>2. QED BY <1>1, <2>1 DEF Mine
<1>10. WritesMine'
  BY <1>1, <1>9 DEF WritesMine, Mine
<1>11. \A h \in Ids : Active(h) =>
         Mine(handler[h].session) = given'[handler[h].session] \ cleanly'[handler[h].session]
  <2>1. ASSUME NEW h \in Ids, Active(h)
        PROVE  cleanly'[handler[h].session] = cleanly[handler[h].session]
    BY <2>1, <1>5 DEF HandlerTypeOK, Quiet
  <2>2. QED BY <1>1, <2>1 DEF Mine
<1>12. \A h \in Ids : Active(h) => Mine(handler[h].session) \subseteq Mine(handler[h].session)'
  BY <1>1, <1>11 DEF Mine, handlerVars
<1>13. \A t \in Sessions : given[t] \subseteq given'[t]
  BY <1>1
<1>14. QED
  BY <1>1, <1>6, <1>7, <1>8, <1>10, <1>12, <1>13, ListenerKeeps

(* The worker stops: every copy goes, the storage stays.                   *)
LEMMA WorkerStopsStep ==
    ASSUME SessionInv, WorkerStops
    PROVE  SessionInv'
<1>. USE DEF SessionInv, TypeOK
<1>. DEFINE lost == [NoHandler EXCEPT !.stage = "lost"]
<1>1. /\ handler' = [h \in Ids |-> IF Active(h) THEN lost ELSE handler[h]]
      /\ writes' = {} /\ revoking' = Idle /\ clearing' = Nil
      /\ UNCHANGED <<storageVars, tabVars, calls, timeouts, clicks, historyVars>>
  BY DEF WorkerStops
<1>2. lost \in HandlerRecords /\ lost.stage = "lost"
  BY HandlerFields, RecordFields, LocalFields DEF HandlerRecords, NoHandler, Ended
<1>. HIDE DEF lost
<1>3. \A h \in Ids : handler'[h] \in HandlerRecords /\ handler'[h].stage \in Ended
  BY <1>1, <1>2 DEF HandlerTypeOK, Active, Ended
<1>4. handler' \in [Ids -> HandlerRecords]
  BY <1>1, <1>3
<1>5. HandlerTypeOK' /\ HandlersMine' /\ TargetInBoundary'
  BY <1>1, <1>3, <1>4 DEF HandlerTypeOK, HandlersMine, TargetInBoundary, Active, Ended
<1>6. StorageTypeOK' /\ TabTypeOK' /\ HistoryTypeOK' /\ GivenOut'
  BY <1>1 DEF StorageTypeOK, TabTypeOK, HistoryTypeOK, GivenOut, storageVars, tabVars, historyVars
<1>7. PanelTypeOK'
  BY <1>1, LocalFields DEF PanelTypeOK, Idle
<1>8. StoreMine' /\ WritesMine'
  BY <1>1 DEF StoreMine, WritesMine, SessionState, Stored, Mine, storageVars, historyVars
<1>9. QED BY <1>5, <1>6, <1>7, <1>8

-----------------------------------------------------------------------------
(* SessionInv is inductive, hence an invariant.                            *)
LEMMA Start == Init => SessionInv
<1>. SUFFICES ASSUME Init PROVE SessionInv
  OBVIOUS
<1>1. \A h \in Ids : handler[h] = NoHandler /\ NoHandler.stage = "none"
  BY DEF Init, NoHandler
<1>2. StorageTypeOK
  BY LocalFields DEF Init, StorageTypeOK
<1>3. TabTypeOK
  BY Bounds DEF Init, TabTypeOK
<1>4. HandlerTypeOK
  BY <1>1, Bounds, HandlerFields DEF Init, HandlerTypeOK, Active, Ended
<1>5. PanelTypeOK
  BY Bounds, LocalFields DEF Init, PanelTypeOK, Idle
<1>6. HistoryTypeOK /\ GivenOut
  BY DEF Init, HistoryTypeOK, GivenOut
<1>7. StoreMine
  BY RecordFields DEF Init, StoreMine, SessionState, Stored
<1>8. HandlersMine /\ WritesMine /\ TargetInBoundary
  BY <1>1 DEF Init, HandlersMine, WritesMine, TargetInBoundary, Active, Ended
<1>9. QED
  BY <1>2, <1>3, <1>4, <1>5, <1>6, <1>7, <1>8 DEF SessionInv, TypeOK

(* Every step, or none, keeps it.                                          *)
LEMMA Step == SessionInv /\ [Next]_vars => SessionInv'
<1>. SUFFICES ASSUME SessionInv, [Next]_vars PROVE SessionInv'
  OBVIOUS
<1>1. CASE UNCHANGED vars
  BY <1>1 DEF vars, storageVars, tabVars, handlerVars, panelVars, historyVars,
     SessionInv, TypeOK, StorageTypeOK, TabTypeOK, HandlerTypeOK, PanelTypeOK, HistoryTypeOK,
     GivenOut, StoreMine, HandlersMine, WritesMine, TargetInBoundary, SessionState, Stored,
     Active, Mine
<1>2. CASE HandlerNext
  <2>1. ASSUME NEW s \in Sessions, NEW method \in Methods, NEW tab \in Tabs \cup {Nil},
               Receive(s, method, tab)
        PROVE  SessionInv'
    BY <2>1, ReceiveStep
  <2>2. ASSUME NEW h \in Ids, HandlerStep(h) PROVE SessionInv'
    BY <2>2, ReadingSteps, SavingSteps, CreateTabStep, CloseTabStep DEF HandlerStep
  <2>3. QED BY <1>2, <2>1, <2>2 DEF HandlerNext
<1>3. CASE ListenerNext
  BY <1>3, QuietListeners, SavingListeners, ControlTabStep, ReleaseSessionStep, WorkerStopsStep
  DEF ListenerNext
<1>4. QED BY <1>1, <1>2, <1>3 DEF Next

(* SessionInv holds in every reachable state.                              *)
THEOREM SessionSafety == Spec => []SessionInv
  BY Start, Step, PTL DEF Spec

(* Types: the type invariant of the session part.                          *)
THEOREM SessionTypes == Spec => []TypeOK
<1>1. SessionInv => TypeOK
  BY DEF SessionInv
<1>2. QED BY <1>1, SessionSafety, PTL

(* The boundary: no copy of a session's record, stored, held or about to   *)
(* be saved, names a tab the session neither created nor was handed        *)
(* (service-worker.ts:88-91,131-136,288-292,334-339).                      *)
THEOREM BoundaryHolds == Spec => []Boundary
<1>1. SessionInv => Boundary
  BY DEF SessionInv, Boundary, StoreMine, HandlersMine, WritesMine, Mine
<1>2. QED BY <1>1, SessionSafety, PTL

(* Targets: a request past validation acts on a tab of its own session,    *)
(* although the record may have changed since (service-worker.ts:136,90).  *)
THEOREM TargetsHold == Spec => []TargetInBoundary
<1>1. SessionInv => TargetInBoundary
  BY DEF SessionInv
<1>2. QED BY <1>1, SessionSafety, PTL

(* A release that finds nothing of the session under way is final: what it *)
(* took stays taken until the user hands it back                           *)
(* (service-worker.ts:319-332).                                            *)
THEOREM CleanReleaseHolds == Spec => []CleanReleaseIsFinal
<1>1. SessionInv => CleanReleaseIsFinal
  BY DEF SessionInv, CleanReleaseIsFinal, StoreMine, Mine
<1>2. QED BY <1>1, SessionSafety, PTL

-----------------------------------------------------------------------------
(* The audit log.  What loses an event is a copy of PersistedState that    *)
(* was read before another one was saved.  A request holds one from        *)
(* authorize's read until it can no longer be saved, and one while its     *)
(* event is saved (service-worker.ts:104-120,197,350-356); so does the     *)
(* release of a lease.  SoleCopy: no two of these are held at once.        *)
Granting == {"savePaired", "readSession", "saveLease", "readOrigin", "saveSite"}
HoldsLocal(h) == handler[h].stage \in Granting \cup {"saveAudit"}

SoleCopy ==
    \A h \in Ids : HoldsLocal(h) =>
        /\ \A g \in Ids : HoldsLocal(g) => g = h
        /\ revoking.stage # "saveAudit"

(* Why: while copies are alone, each has every event that was answered.    *)
Answered == {h \in Ids : handler[h].stage = "done"}
Logged(l) == Answered \subseteq l.audit \cup cleared

LogInv ==
    /\ Logged(local)
    /\ \A h \in Ids : HoldsLocal(h) => Logged(handler[h].local)
    /\ \A h \in Ids : handler[h].stage = "saveAudit" => h \in handler[h].local.audit
    /\ revoking.stage = "saveAudit" => Logged(revoking.local)

(* What a step of request h does to the log and to its own copy: nothing,  *)
(* with no copy left; nothing, with the copy carried on; it saves the copy;*)
(* it reads a new one for its event; or it saves that and answers.         *)
LogStep(h, n) ==
    \/ local' = local /\ n.stage \notin Granting \cup {"saveAudit", "done"}
    \/ /\ local' = local /\ handler[h].stage \in Granting /\ n.stage \in Granting
       /\ n.local.audit = handler[h].local.audit
    \/ /\ local'.audit = handler[h].local.audit
       /\ handler[h].stage \in Granting /\ n.stage \in Granting \cup {"readTabs"}
       /\ n.local.audit = handler[h].local.audit
    \/ /\ local' = local /\ n.stage = "saveAudit"
       /\ n.local.audit = local.audit \cup {h}
    \/ handler[h].stage = "saveAudit" /\ local' = handler[h].local /\ n.stage = "done"

(* A request's step changes that request alone, while it is under way.     *)
LEMMA LogSteps ==
    ASSUME TypeOK, NEW h \in Ids, HandlerStep(h)
    PROVE  /\ Active(h) /\ UNCHANGED <<cleared, revoking>>
           /\ \E n :
                handler' = [handler EXCEPT ![h] = n] /\ LogStep(h, n)
<1> DEFINE hd == handler[h]
<1>1. /\ handler \in [Ids -> HandlerRecords] /\ hd \in HandlerRecords
      /\ hd.local \in Locals /\ local \in Locals
  BY HandlerFields DEF TypeOK, HandlerTypeOK, StorageTypeOK
<1>2. ASSUME NEW n, handler' = [handler EXCEPT ![h] = n], LogStep(h, n),
             Active(h), UNCHANGED <<cleared, revoking>>
      PROVE  /\ Active(h) /\ UNCHANGED <<cleared, revoking>>
             /\ \E m :
                  handler' = [handler EXCEPT ![h] = m] /\ LogStep(h, m)
  <2>1. handler'[h] = n
    BY <1>1, <1>2
  <2> QED
    BY <1>2, <2>1
<1> USE DEF panelVars, historyVars, storageVars, Active, Ended
<1>3. ASSUME handler' = [handler EXCEPT ![h].stage = "readAudit", ![h].record = NoRecord,
                                        ![h].tabs = {}, ![h].local = NoLocal],
             local' = local, Active(h), UNCHANGED <<cleared, revoking>>
      PROVE  /\ Active(h) /\ UNCHANGED <<cleared, revoking>>
             /\ \E m :
                  handler' = [handler EXCEPT ![h] = m] /\ LogStep(h, m)
  <2> DEFINE n == [hd EXCEPT !.stage = "readAudit", !.record = NoRecord,
                             !.tabs = {}, !.local = NoLocal]
  <2>1. handler' = [handler EXCEPT ![h] = n]
    BY <1>1, <1>3
  <2>2. n.stage = "readAudit"
    BY <1>1 DEF HandlerRecords
  <2> HIDE DEF n
  <2>3. LogStep(h, n)
    BY <1>3, <2>2 DEF LogStep, Granting
  <2> QED
    BY <1>2, <1>3, <2>1, <2>3
<1>4. ASSUME NEW s, handler' = [handler EXCEPT ![h].stage = s],
             local' = local, Active(h), UNCHANGED <<cleared, revoking>>,
             \/ s \notin Granting \cup {"saveAudit", "done"}
             \/ s \in Granting /\ hd.stage \in Granting
      PROVE  /\ Active(h) /\ UNCHANGED <<cleared, revoking>>
             /\ \E m :
                  handler' = [handler EXCEPT ![h] = m] /\ LogStep(h, m)
  <2> DEFINE n == [hd EXCEPT !.stage = s]
  <2>1. handler' = [handler EXCEPT ![h] = n]
    BY <1>1, <1>4
  <2>2. n.stage = s /\ n.local = hd.local
    BY <1>1 DEF HandlerRecords
  <2> HIDE DEF n
  <2>3. LogStep(h, n)
    BY <1>4, <2>2 DEF LogStep
  <2> QED
    BY <1>2, <1>4, <2>1, <2>3
<1> USE DEF Goto
<1>5. CASE SavePaired(h)
  <2> DEFINE l == [hd.local EXCEPT !.paired = @ \cup {HostOf[hd.session]}]
  <2> DEFINE n == [hd EXCEPT !.stage = "readSession", !.local = l]
  <2>1. handler' = [handler EXCEPT ![h] = n] /\ local' = l
    BY <1>1, <1>5 DEF SavePaired
  <2>2. n.stage = "readSession" /\ n.local = l
    BY <1>1 DEF HandlerRecords
  <2>3. l.audit = hd.local.audit
    BY <1>1 DEF Locals
  <2> HIDE DEF n, l
  <2>4. LogStep(h, n)
    BY <1>5, <2>1, <2>2, <2>3 DEF LogStep, SavePaired, Granting
  <2>5. Active(h) /\ UNCHANGED <<cleared, revoking>>
    BY <1>5 DEF SavePaired
  <2> QED
    BY <1>2, <2>1, <2>4, <2>5
<1>6. CASE ReadSession(h)
  <2> DEFINE n == [hd EXCEPT !.stage = "saveLease",
                             !.record = [SessionState(hd.session) EXCEPT !.lease = TRUE]]
  <2>1. handler' = [handler EXCEPT ![h] = n]
    BY <1>1, <1>6 DEF ReadSession
  <2>2. n.stage = "saveLease" /\ n.local = hd.local
    BY <1>1 DEF HandlerRecords
  <2> HIDE DEF n
  <2>3. LogStep(h, n)
    BY <1>6, <2>2 DEF LogStep, ReadSession, Granting
  <2>4. Active(h) /\ UNCHANGED <<cleared, revoking>>
    BY <1>6 DEF ReadSession
  <2> QED
    BY <1>2, <2>1, <2>3, <2>4
<1>7. CASE SaveLease(h)
  <2>1. Active(h) /\ UNCHANGED <<cleared, revoking>> /\ local' = local /\ hd.stage = "saveLease"
    BY <1>7 DEF SaveLease
  <2>2. CASE Goto(h, "readOrigin")
    BY <1>4, <2>1, <2>2 DEF Granting
  <2>3. CASE Conclude(h)
    BY <1>3, <2>1, <2>3 DEF Conclude
  <2> QED
    BY <1>7, <2>2, <2>3 DEF SaveLease
<1>8. CASE ReadOrigin(h)
  <2>1. Active(h) /\ UNCHANGED <<cleared, revoking>> /\ local' = local /\ hd.stage = "readOrigin"
    BY <1>8 DEF ReadOrigin
  <2>2. CASE Conclude(h)
    BY <1>3, <2>1, <2>2 DEF Conclude
  <2>3. CASE Goto(h, "readTabs")
    BY <1>4, <2>1, <2>3 DEF Granting
  <2>4. ASSUME NEW origin,
               handler' = [handler EXCEPT
                         ![h].stage = "saveSite", ![h].local.sites = @ \cup {origin}]
        PROVE  /\ Active(h) /\ UNCHANGED <<cleared, revoking>>
               /\ \E m :
                    handler' = [handler EXCEPT ![h] = m] /\ LogStep(h, m)
    <3> DEFINE l == [hd.local EXCEPT !.sites = @ \cup {origin}]
    <3> DEFINE n == [hd EXCEPT !.stage = "saveSite", !.local = l]
    <3>1. handler' = [handler EXCEPT ![h] = n]
      BY <1>1, <2>4 DEF HandlerRecords
    <3>2. n.stage = "saveSite" /\ n.local = l
      BY <1>1 DEF HandlerRecords
    <3>3. l.audit = hd.local.audit
      BY <1>1 DEF Locals
    <3> HIDE DEF n, l
    <3>4. LogStep(h, n)
      BY <2>1, <3>2, <3>3 DEF LogStep, Granting
    <3> QED
      BY <1>2, <2>1, <3>1, <3>4
  <2> QED
    BY <1>8, <2>2, <2>3, <2>4 DEF ReadOrigin
<1>9. CASE SaveSite(h)
  <2> DEFINE n == [hd EXCEPT !.stage = "readTabs"]
  <2>1. handler' = [handler EXCEPT ![h] = n] /\ local' = hd.local
    BY <1>1, <1>9 DEF SaveSite
  <2>2. n.stage = "readTabs" /\ n.local = hd.local
    BY <1>1 DEF HandlerRecords
  <2> HIDE DEF n
  <2>3. LogStep(h, n)
    BY <1>9, <2>1, <2>2 DEF LogStep, SaveSite, Granting
  <2>4. Active(h) /\ UNCHANGED <<cleared, revoking>>
    BY <1>9 DEF SaveSite
  <2> QED
    BY <1>2, <2>1, <2>3, <2>4
<1>10. CASE ReadTabs(h)
  <2> DEFINE n == [hd EXCEPT
         !.stage = IF hd.method = "label_session" THEN "readLabel" ELSE "dispatch",
         !.tabs = SessionState(hd.session).tabs, !.record = NoRecord, !.local = NoLocal]
  <2>1. handler' = [handler EXCEPT ![h] = n]
    BY <1>1, <1>10 DEF ReadTabs
  <2>2. n.stage \in {"readLabel", "dispatch"}
    BY <1>1 DEF HandlerRecords
  <2> HIDE DEF n
  <2>3. LogStep(h, n)
    BY <1>10, <2>2 DEF LogStep, ReadTabs, Granting
  <2>4. Active(h) /\ UNCHANGED <<cleared, revoking>>
    BY <1>10 DEF ReadTabs
  <2> QED
    BY <1>2, <2>1, <2>3, <2>4
<1>11. CASE ReadLabel(h)
  <2>1. Active(h) /\ UNCHANGED <<cleared, revoking>> /\ local' = local
    BY <1>11 DEF ReadLabel
  <2>2. CASE Conclude(h)
    BY <1>3, <2>1, <2>2 DEF Conclude
  <2>3. CASE handler' = [handler EXCEPT ![h].stage = "saveLabel",
                                        ![h].record = SessionState(handler[h].session)]
    <3> DEFINE n == [hd EXCEPT !.stage = "saveLabel", !.record = SessionState(hd.session)]
    <3>1. handler' = [handler EXCEPT ![h] = n]
      BY <1>1, <2>3
    <3>2. n.stage = "saveLabel"
      BY <1>1 DEF HandlerRecords
    <3> HIDE DEF n
    <3>3. LogStep(h, n)
      BY <2>1, <3>2 DEF LogStep, Granting
    <3> QED
      BY <1>2, <2>1, <3>1, <3>3
  <2> QED
    BY <1>11, <2>2, <2>3 DEF ReadLabel
<1>12. CASE SaveLabel(h) \/ ReuseTab(h) \/ ActOnTab(h)
  <2>1. Active(h) /\ UNCHANGED <<cleared, revoking>> /\ local' = local
        /\ handler' = [handler EXCEPT ![h].stage = "readBack"]
    BY <1>12 DEF SaveLabel, ReuseTab, ActOnTab
  <2> QED
    BY <1>4, <2>1 DEF Granting
<1>13. CASE (\E tab \in Tabs : CreateTab(h, tab)) \/ CloseTab(h)
  <2>1. PICK T : handler' = [handler EXCEPT ![h].stage = "readBack", ![h].tabs = T]
    BY <1>1, <1>13 DEF CreateTab, CloseTab
  <2>2. Active(h) /\ UNCHANGED <<cleared, revoking>> /\ local' = local
    BY <1>13 DEF CreateTab, CloseTab
  <2> DEFINE n == [hd EXCEPT !.stage = "readBack", !.tabs = T]
  <2>3. handler' = [handler EXCEPT ![h] = n]
    BY <1>1, <2>1
  <2>4. n.stage = "readBack"
    BY <1>1 DEF HandlerRecords
  <2> HIDE DEF n
  <2>5. LogStep(h, n)
    BY <2>2, <2>4 DEF LogStep, Granting
  <2> QED
    BY <1>2, <2>2, <2>3, <2>5
<1>14. CASE DispatchFails(h) \/ SaveTabs(h)
  <2>1. Active(h) /\ UNCHANGED <<cleared, revoking>> /\ local' = local /\ Conclude(h)
    BY <1>14 DEF DispatchFails, SaveTabs
  <2> QED
    BY <1>3, <2>1 DEF Conclude
<1>15. CASE ReadBack(h)
  <2> DEFINE n == [hd EXCEPT !.stage = "saveTabs",
                     !.record = [SessionState(hd.session) EXCEPT !.tabs = hd.tabs]]
  <2>1. handler' = [handler EXCEPT ![h] = n]
    BY <1>1, <1>15 DEF ReadBack
  <2>2. n.stage = "saveTabs"
    BY <1>1 DEF HandlerRecords
  <2> HIDE DEF n
  <2>3. LogStep(h, n)
    BY <1>15, <2>2 DEF LogStep, ReadBack, Granting
  <2>4. Active(h) /\ UNCHANGED <<cleared, revoking>>
    BY <1>15 DEF ReadBack
  <2> QED
    BY <1>2, <2>1, <2>3, <2>4
<1>16. CASE ReadAudit(h)
  <2> DEFINE l == [local EXCEPT !.audit = @ \cup {h}]
  <2> DEFINE n == [hd EXCEPT !.stage = "saveAudit", !.local = l]
  <2>1. handler' = [handler EXCEPT ![h] = n]
    BY <1>1, <1>16 DEF ReadAudit
  <2>2. n.stage = "saveAudit" /\ n.local = l
    BY <1>1 DEF HandlerRecords
  <2>3. l.audit = local.audit \cup {h}
    BY <1>1 DEF Locals
  <2> HIDE DEF n, l
  <2>4. LogStep(h, n)
    BY <1>16, <2>2, <2>3 DEF LogStep, ReadAudit
  <2>5. Active(h) /\ UNCHANGED <<cleared, revoking>>
    BY <1>16 DEF ReadAudit
  <2> QED
    BY <1>2, <2>1, <2>4, <2>5
<1>17. CASE SaveAudit(h)
  <2> DEFINE n == [NoHandler EXCEPT !.stage = "done"]
  <2>1. n.stage = "done"
    BY DEF NoHandler
  <2> HIDE DEF n
  <2>2. LogStep(h, n)
    BY <1>17, <2>1 DEF LogStep, SaveAudit
  <2>3. Active(h) /\ UNCHANGED <<cleared, revoking>> /\ handler' = [handler EXCEPT ![h] = n]
    BY <1>17 DEF SaveAudit, n
  <2> QED
    BY <1>2, <2>2, <2>3
<1> QED
  BY <1>5, <1>6, <1>7, <1>8, <1>9, <1>10, <1>11, <1>12, <1>13, <1>14, <1>15, <1>16, <1>17
  DEF HandlerStep

(* A request that reads, saves or carries its copy on keeps the log.       *)
LEMMA LogRequests ==
    ASSUME TypeOK, LogInv, SoleCopy, NEW h \in Ids, HandlerStep(h)
    PROVE  LogInv'
<1>1. UNCHANGED <<cleared, revoking>>
  BY LogSteps
<1>2. PICK n : handler' = [handler EXCEPT ![h] = n] /\ LogStep(h, n)
  BY LogSteps
<1>3. handler'[h] = n /\ \A g \in Ids : g # h => handler'[g] = handler[g]
  BY <1>2 DEF TypeOK, HandlerTypeOK
<1>4. CASE n.stage # "done" /\ (n.stage = "saveAudit" => n.local.audit = local.audit \cup {h})
  <2>1. \A g \in Ids : handler'[g].stage = "done" => handler[g].stage = "done"
    BY <1>3, <1>4
  <2>2. Logged(local)'
    BY <1>1, <1>2, <1>4, <2>1 DEF LogStep, LogInv, Logged, Answered, HoldsLocal
  <2>3. CASE n.stage = "saveAudit"
    <3>1. local' = local
      BY <1>2, <2>3 DEF LogStep, Granting
    <3>2. Answered' \subseteq n.local.audit \cup cleared' /\ h \in n.local.audit
      BY <1>1, <1>4, <2>2, <2>3, <3>1 DEF Logged
    <3>3. \A g \in Ids : HoldsLocal(g)' =>
                   Answered' \subseteq handler'[g].local.audit \cup cleared'
      BY <1>1, <1>3, <2>1, <3>2 DEF LogInv, Logged, Answered, HoldsLocal
    <3> QED
      BY <1>1, <1>3, <2>1, <2>2, <3>2, <3>3 DEF LogInv, Logged, Answered, HoldsLocal
  <2>4. CASE n.stage # "saveAudit"
    <3>1. n.stage \in Granting =>
            handler[h].stage \in Granting /\ n.local.audit = handler[h].local.audit
      BY <1>2, <2>4 DEF LogStep, Granting
    <3>2. \A g \in Ids : HoldsLocal(g)' =>
                   Answered' \subseteq handler'[g].local.audit \cup cleared'
      BY <1>1, <1>3, <2>1, <2>4, <3>1 DEF LogInv, Logged, Answered, HoldsLocal
    <3> QED
      BY <1>1, <1>3, <2>1, <2>2, <2>4, <3>2 DEF LogInv, Logged, Answered, HoldsLocal
  <2> QED
    BY <2>3, <2>4
<1>5. CASE n.stage = "done"
  <2>1. handler[h].stage = "saveAudit" /\ local' = handler[h].local
    BY <1>2, <1>5 DEF LogStep, Granting
  <2>2. Answered' \subseteq Answered \cup {h}
    BY <1>3 DEF Answered
  <2>3. Logged(local)'
    BY <1>1, <2>1, <2>2 DEF LogInv, Logged, HoldsLocal
  <2>4. HoldsLocal(h) /\ ~(n.stage \in Granting \cup {"saveAudit"})
    BY <1>5, <2>1 DEF HoldsLocal, Granting
  <2>5. \A g \in Ids : ~HoldsLocal(g)'
    BY <1>3, <2>4 DEF SoleCopy, HoldsLocal
  <2>6. revoking'.stage # "saveAudit"
    BY <1>1, <2>4 DEF SoleCopy
  <2> QED
    BY <2>3, <2>5, <2>6 DEF LogInv, HoldsLocal
<1>6. n.stage = "saveAudit" => n.local.audit = local.audit \cup {h}
  BY <1>2 DEF LogStep, Granting
<1> QED
  BY <1>4, <1>5, <1>6

(* A request that comes in reads PersistedState as it is.                  *)
LEMMA LogReceives ==
    ASSUME TypeOK, LogInv,
           NEW s \in Sessions, NEW method \in Methods, NEW tab \in Tabs \cup {Nil},
           Receive(s, method, tab)
    PROVE  LogInv'
<1> DEFINE h == calls + 1
<1> DEFINE n == [NoHandler EXCEPT
            !.session = s, !.method = method, !.tab = tab, !.local = local,
            !.stage = IF HostOf[s] \in local.paired THEN "readSession" ELSE "savePaired"]
<1>1. /\ h \in Ids /\ handler' = [handler EXCEPT ![h] = n]
      /\ UNCHANGED <<local, cleared, revoking>>
  BY DEF Receive, storageVars, panelVars, historyVars
<1>2. n.stage \in {"readSession", "savePaired"} /\ n.local = local
  BY DEF NoHandler
<1> HIDE DEF h, n
<1>3. handler'[h] = n /\ \A g \in Ids : g # h => handler'[g] = handler[g]
  BY <1>1 DEF TypeOK, HandlerTypeOK
<1>4. Answered' \subseteq Answered
  BY <1>2, <1>3 DEF Answered
<1>5. Logged(local)'
  BY <1>1, <1>4 DEF LogInv, Logged
<1>6. \A g \in Ids : HoldsLocal(g)' =>
                   Answered' \subseteq handler'[g].local.audit \cup cleared'
  BY <1>1, <1>2, <1>3, <1>4, <1>5 DEF LogInv, Logged, HoldsLocal
<1>7. \A g \in Ids : handler'[g].stage = "saveAudit" => g \in handler'[g].local.audit
  BY <1>2, <1>3 DEF LogInv
<1> QED
  BY <1>1, <1>4, <1>5, <1>6, <1>7 DEF LogInv, Logged

(* The panel, the listeners, the release and the end of the worker.        *)
LEMMA LogListeners ==
    ASSUME TypeOK, LogInv, SoleCopy, ListenerNext
    PROVE  LogInv'
<1> USE DEF storageVars, tabVars, handlerVars, panelVars, historyVars
<1>1. local \in Locals /\ handler \in [Ids -> HandlerRecords]
  BY DEF TypeOK, StorageTypeOK, HandlerTypeOK
<1>2. ASSUME UNCHANGED <<handler, cleared, local>>,
             revoking'.stage = "saveAudit" =>
               revoking' = revoking \/ local.audit \subseteq revoking'.local.audit
      PROVE  LogInv'
  <2>1. revoking'.stage = "saveAudit" => Logged(revoking'.local)
    BY <1>2 DEF LogInv, Logged
  <2> QED
    BY <1>2, <2>1 DEF LogInv, Logged, Answered, HoldsLocal
<1>3. \A todo : NextSession(todo).stage # "saveAudit"
  BY DEF NextSession, Idle, TypeOK, PanelTypeOK
<1>4. CASE \E tab \in Tabs : \/ UserCloses(tab)
                             \/ TabRemoved(tab)
                             \/ \E s \in Sessions, origin \in Origins \cup {Nil} :
                                  ControlTab(s, tab, origin)
  BY <1>2, <1>4 DEF UserCloses, TabRemoved, ControlTab
<1>5. CASE (\E w \in writes : ListenerSaves(w)) \/ ClearLog
  BY <1>2, <1>5 DEF ListenerSaves, SaveSessionState, ClearLog
<1>6. CASE ReleaseAll
  <2>1. revoking'.stage = "remove"
    BY <1>6 DEF ReleaseAll, Idle
  <2> QED
    BY <1>2, <1>6, <2>1 DEF ReleaseAll
<1>7. CASE \E s \in Sessions : ReleaseSession(s)
  <2>1. PICK s \in Sessions : ReleaseSession(s)
    BY <1>7
  <2>2. revoking'.stage # "saveAudit"
    BY <1>3, <2>1 DEF ReleaseSession, TypeOK, PanelTypeOK
  <2> QED
    BY <1>2, <2>1, <2>2 DEF ReleaseSession
<1>8. CASE ReadLeaseAudit
  <2>1. revoking'.local.audit = local.audit \cup {revoking.session}
    BY <1>1, <1>8 DEF ReadLeaseAudit, TypeOK, PanelTypeOK, Locals
  <2> QED
    BY <1>2, <1>8, <2>1 DEF ReadLeaseAudit
<1>9. CASE SaveLeaseAudit
  <2>1. local' = revoking.local /\ revoking.stage = "saveAudit"
        /\ UNCHANGED <<handler, cleared>>
    BY <1>9 DEF SaveLeaseAudit
  <2>2. revoking'.stage # "saveAudit"
    BY <1>3, <1>9 DEF SaveLeaseAudit
  <2>3. \A h \in Ids : ~HoldsLocal(h) /\ handler[h].stage # "saveAudit"
    BY <2>1 DEF SoleCopy, HoldsLocal
  <2> QED
    BY <2>1, <2>2, <2>3 DEF LogInv, Logged, Answered, HoldsLocal
<1>10. CASE SaveClearedLog
  <2>1. cleared' = cleared \cup local.audit /\ UNCHANGED <<handler, revoking>>
    BY <1>10 DEF SaveClearedLog
  <2>2. \A l : Logged(local) => Answered' \subseteq l \cup cleared'
    BY <2>1 DEF Logged, Answered
  <2> QED
    BY <2>1, <2>2 DEF LogInv, Logged, HoldsLocal
<1>11. CASE WorkerStops
  <2>1. /\ revoking'.stage = "idle" /\ UNCHANGED <<local, cleared>>
        /\ \A h \in Ids : handler'[h] = IF Active(h) THEN [NoHandler EXCEPT !.stage = "lost"]
                                                      ELSE handler[h]
    BY <1>11 DEF WorkerStops, Idle
  <2>2. \A h \in Ids : /\ handler'[h].stage = "done" => handler[h].stage = "done"
                       /\ handler'[h].stage \in Ended
    BY <2>1 DEF NoHandler, Active, Ended
  <2>3. \A h \in Ids : ~HoldsLocal(h)' /\ handler'[h].stage # "saveAudit"
    BY <2>2 DEF HoldsLocal, Ended, Granting
  <2> QED
    BY <2>1, <2>2, <2>3 DEF LogInv, Logged, Answered
<1> QED
  BY <1>4, <1>5, <1>6, <1>7, <1>8, <1>9, <1>10, <1>11 DEF ListenerNext

(* So no step loses an event while copies are alone; none is there first.  *)
LEMMA LogKept == TypeOK /\ LogInv /\ SoleCopy /\ [Next]_vars => LogInv'
<1> SUFFICES ASSUME TypeOK, LogInv, SoleCopy, [Next]_vars PROVE LogInv'
  OBVIOUS
<1>1. CASE UNCHANGED vars
  BY <1>1 DEF LogInv, Logged, Answered, HoldsLocal, vars, storageVars, handlerVars,
     panelVars, historyVars
<1>2. CASE HandlerNext
  BY <1>2, LogReceives, LogRequests DEF HandlerNext
<1>3. CASE ListenerNext
  BY <1>3, LogListeners
<1> QED
  BY <1>1, <1>2, <1>3 DEF Next

(* At the start there are no copies and no events.                         *)
LEMMA LogStart == Init => LogInv
<1> SUFFICES ASSUME Init PROVE LogInv
  OBVIOUS
<1>1. \A h \in Ids : handler[h].stage = "none"
  BY DEF Init, NoHandler
<1>2. revoking.stage = "idle"
  BY DEF Init, Idle
<1> QED
  BY <1>1, <1>2 DEF LogInv, Logged, Answered, HoldsLocal, Granting

(* The log loses an event only to a race of copies: as long as no two of   *)
(* them are held at once, every call that was answered is in it until the  *)
(* user clears it, however many sessions, restarts and clearings there are *)
(* (service-worker.ts:104-120,197,350-356).                                *)
THEOREM SoleCopiesKeepLog == Spec /\ []SoleCopy => []AuditComplete
<1>1. LogInv => AuditComplete
  BY DEF LogInv, Logged, Answered, AuditComplete
<1>2. QED BY <1>1, LogStart, LogKept, SessionTypes, PTL DEF Spec

=============================================================================
