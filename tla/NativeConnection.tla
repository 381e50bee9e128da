-------------------------- MODULE NativeConnection --------------------------
(***************************************************************************)
(* How the service worker keeps its native port and its two timers         *)
(* (service-worker.ts:20-71,126-133): it reconnects a while after the port *)
(* is lost, and ends every lease when no request has come back for longer. *)
(* Time runs in ticks of a second; a timer that is due fires before the    *)
(* next tick.                                                              *)
(***************************************************************************)
EXTENDS Naturals, Sequences, FiniteSets

CONSTANTS
    Sessions,
    Ports,           \* identities of port objects, used again once gone
    ReconnectDelay,  \* service-worker.ts:70, 2 seconds
    ReleaseDelay,    \* service-worker.ts:57, 15 seconds
    MaxFaults,       \* bound: broker deaths, exceptions, host changes, restarts
    MaxPanels,       \* bound: times the panel asks for the state
    MaxReleases,     \* bound: releases of every session under way at a time
    Nil

ASSUME ConnectionAssumption ==
    /\ ReconnectDelay \in Nat /\ ReleaseDelay \in Nat
    /\ MaxFaults \in Nat /\ MaxPanels \in Nat /\ MaxReleases \in Nat
    /\ Nil \notin Nat /\ Nil \notin Ports

VARIABLES
    host,          \* whether Chrome can start the native host
    nativePort,    \* the port in use, or Nil for undefined
    live,          \* ports with a broker process behind them
    closed,        \* ports that ended and whose onDisconnect has not run
    reconnect,     \* seconds to go of reconnectTimer, or Nil when none is set
    release,       \* seconds to go of each release timer, the oldest first
    tracked,       \* leaseReleaseTimer names the newest of them
    releasing,     \* the runs of releaseAllSessions: the sessions each has listed
                   \* and not removed yet
    arriving,      \* sessions with a request before its read of the session
    saving,        \* sessions with a request about to save its lease
    leased,        \* sessions whose record holds a lease
    resumed,       \* history: sessions with a request authorized since the last
                   \* disconnect
    faults, panels

timerVars == <<reconnect, release, tracked>>
leaseVars == <<arriving, saving, leased, resumed>>
boundVars == <<faults, panels>>
vars == <<host, nativePort, live, closed, timerVars, releasing, leaseVars, boundVars>>

Idle == [stage |-> "idle", todo |-> {}]

\* the worker has just started and called connectNative
Init ==
    /\ host \in {"present", "absent"}
    /\ nativePort \in Ports
    /\ live = IF host = "present" THEN {nativePort} ELSE {}
    /\ closed = {nativePort} \ live
    /\ reconnect = Nil
    /\ release = <<>>
    /\ tracked = FALSE
    /\ releasing = [k \in 1..MaxReleases |-> Idle]
    /\ arriving = {} /\ saving = {} /\ leased = {} /\ resumed = {}
    /\ faults = 0 /\ panels = 0

-----------------------------------------------------------------------------
\* chrome.runtime.connectNative gives a port; without a host it ends at once
Open(p) ==
    /\ p \notin live \cup closed
    /\ nativePort' = p
    /\ IF host = "present"
         THEN live' = live \cup {p} /\ UNCHANGED closed
         ELSE closed' = closed \cup {p} /\ UNCHANGED live

\* mutant: connectNative does not look whether a port is there
ConnectAgain(timer) ==
    /\ \E p \in Ports : Open(p)
    /\ reconnect' = timer
    /\ UNCHANGED faults

\* mutant: an exception sets no timer
ConnectGivesUp(timer) ==
    \/ /\ nativePort # Nil
       /\ reconnect' = timer
       /\ UNCHANGED <<nativePort, live, closed, faults>>
    \/ /\ nativePort = Nil
       /\ \E p \in Ports : Open(p)
       /\ reconnect' = timer
       /\ UNCHANGED faults
    \/ /\ nativePort = Nil
       /\ faults < MaxFaults
       /\ faults' = faults + 1
       /\ reconnect' = timer
       /\ UNCHANGED <<nativePort, live, closed>>

\* connectNative with reconnectTimer at timer: nothing when a port is there, a
\* new port, or an exception, after which it is tried again later
Connect(timer) ==
    \/ /\ nativePort # Nil
       /\ reconnect' = timer
       /\ UNCHANGED <<nativePort, live, closed, faults>>
    \/ /\ nativePort = Nil
       /\ \E p \in Ports : Open(p)
       /\ reconnect' = timer
       /\ UNCHANGED faults
    \/ /\ nativePort = Nil
       /\ faults < MaxFaults
       /\ faults' = faults + 1
       /\ reconnect' = ReconnectDelay
       /\ UNCHANGED <<nativePort, live, closed>>

ReconnectFires ==
    /\ reconnect = 0
    /\ Connect(Nil)
    /\ UNCHANGED <<host, release, tracked, releasing, leaseVars, panels>>

\* get_state connects before it answers
PanelAsks ==
    /\ panels < MaxPanels
    /\ panels' = panels + 1
    /\ Connect(reconnect)
    /\ UNCHANGED <<host, release, tracked, releasing, leaseVars>>

\* the broker process behind the port ends
PortEnds(p) ==
    /\ p \in live
    /\ faults < MaxFaults
    /\ faults' = faults + 1
    /\ live' = live \ {p}
    /\ closed' = closed \cup {p}
    /\ UNCHANGED <<host, nativePort, timerVars, releasing, leaseVars, panels>>

\* mutant: the port that ended stays in nativePort
DisconnectedKeepsPort(p) ==
    /\ p \in closed
    /\ closed' = closed \ {p}
    /\ reconnect' = ReconnectDelay
    /\ release' = Append(release, ReleaseDelay)
    /\ tracked' = TRUE
    /\ resumed' = {}
    /\ UNCHANGED <<host, nativePort, live, releasing, arriving, saving, leased, boundVars>>

\* mutant: no release timer is set
DisconnectedNoRelease(p) ==
    /\ p \in closed
    /\ closed' = closed \ {p}
    /\ nativePort' = Nil
    /\ reconnect' = ReconnectDelay
    /\ resumed' = {}
    /\ UNCHANGED <<host, live, release, tracked, releasing, arriving, saving, leased,
                   boundVars>>

\* port.onDisconnect: reconnectTimer is set anew, and one more release timer;
\* the handle of the one before is overwritten while that one runs on
Disconnected(p) ==
    /\ p \in closed
    /\ closed' = closed \ {p}
    /\ nativePort' = Nil
    /\ reconnect' = ReconnectDelay
    /\ release' = Append(release, ReleaseDelay)
    /\ tracked' = TRUE
    /\ resumed' = {}
    /\ UNCHANGED <<host, live, releasing, arriving, saving, leased, boundVars>>

\* the oldest timer fires and calls releaseAllSessions
ReleaseFires ==
    /\ release # <<>>
    /\ Head(release) = 0
    /\ release' = Tail(release)
    /\ tracked' = (tracked /\ Len(release) > 1)
    /\ \E k \in 1..MaxReleases :
         /\ releasing[k] = Idle
         /\ releasing' = [releasing EXCEPT ![k] = [stage |-> "list", todo |-> {}]]
    /\ UNCHANGED <<host, nativePort, live, closed, reconnect, leaseVars, boundVars>>

\* a release that has these sessions left, or is over
Remaining(todo) == IF todo = {} THEN Idle ELSE [stage |-> "remove", todo |-> todo]

\* allSessions: the records are read once
ListSessions(k) ==
    /\ releasing[k].stage = "list"
    /\ releasing' = [releasing EXCEPT ![k] = Remaining(leased)]
    /\ UNCHANGED <<host, nativePort, live, closed, timerVars, leaseVars, boundVars>>

\* releaseSession removes a listed record, whatever was saved in it meanwhile
ReleaseSession(k, s) ==
    /\ s \in releasing[k].todo
    /\ releasing' = [releasing EXCEPT ![k] = Remaining(releasing[k].todo \ {s})]
    /\ leased' = leased \ {s}
    /\ UNCHANGED <<host, nativePort, live, closed, timerVars, arriving, saving, resumed,
                   boundVars>>

-----------------------------------------------------------------------------
\* a request of s comes in on the port
Request(s) ==
    /\ live # {}
    /\ s \notin arriving \cup saving
    /\ arriving' = arriving \cup {s}
    /\ UNCHANGED <<host, nativePort, live, closed, timerVars, releasing, saving, leased,
                   resumed, boundVars>>

\* mutant: the handle of the cleared timer is kept
AuthorizeKeepsHandle(s) ==
    /\ s \in arriving
    /\ arriving' = arriving \ {s}
    /\ saving' = saving \cup {s}
    /\ resumed' = resumed \cup {s}
    /\ release' = IF tracked THEN SubSeq(release, 1, Len(release) - 1) ELSE release
    /\ UNCHANGED <<host, nativePort, live, closed, reconnect, tracked, releasing, leased,
                   boundVars>>

\* authorize has read the session: the timer that leaseReleaseTimer names is
\* cleared, for every session
Authorize(s) ==
    /\ s \in arriving
    /\ arriving' = arriving \ {s}
    /\ saving' = saving \cup {s}
    /\ resumed' = resumed \cup {s}
    /\ release' = IF tracked THEN SubSeq(release, 1, Len(release) - 1) ELSE release
    /\ tracked' = FALSE
    /\ UNCHANGED <<host, nativePort, live, closed, reconnect, releasing, leased, boundVars>>

SaveLease(s) ==
    /\ s \in saving
    /\ saving' = saving \ {s}
    /\ leased' = leased \cup {s}
    /\ UNCHANGED <<host, nativePort, live, closed, timerVars, releasing, arriving, resumed,
                   boundVars>>

-----------------------------------------------------------------------------
\* the native host is installed, allowed or repaired, or the reverse
HostChanges ==
    /\ faults < MaxFaults
    /\ faults' = faults + 1
    /\ host' = IF host = "present" THEN "absent" ELSE "present"
    /\ UNCHANGED <<nativePort, live, closed, timerVars, releasing, leaseVars, panels>>

\* the worker ends, and with it the port, the timers, the releases and the
\* requests; the event that starts it again runs connectNative with no port and
\* no timer.  The end and the start are one step: when no event comes, nothing
\* runs in between
WorkerRestarts ==
    /\ faults < MaxFaults
    /\ faults' = faults + 1
    /\ nativePort' \in Ports
    /\ live' = IF host = "present" THEN {nativePort'} ELSE {}
    /\ closed' = {nativePort'} \ live'
    /\ reconnect' = Nil
    /\ release' = <<>>
    /\ tracked' = FALSE
    /\ releasing' = [k \in 1..MaxReleases |-> Idle]
    /\ arriving' = {} /\ saving' = {} /\ resumed' = {}
    /\ UNCHANGED <<host, leased, panels>>

Tick ==
    /\ reconnect \notin {0}
    /\ release # <<>> => Head(release) > 0
    /\ reconnect # Nil \/ release # <<>>
    /\ reconnect' = IF reconnect = Nil THEN Nil ELSE reconnect - 1
    /\ release' = [k \in 1..Len(release) |-> release[k] - 1]
    /\ UNCHANGED <<host, nativePort, live, closed, tracked, releasing, leaseVars, boundVars>>

Next ==
    \/ ReconnectFires
    \/ PanelAsks
    \/ \E p \in Ports : PortEnds(p) \/ Disconnected(p)
    \/ ReleaseFires
    \/ \E k \in 1..MaxReleases :
         ListSessions(k) \/ \E s \in Sessions : ReleaseSession(k, s)
    \/ \E s \in Sessions : Request(s) \/ Authorize(s) \/ SaveLease(s)
    \/ HostChanges
    \/ WorkerRestarts
    \/ Tick

Spec == Init /\ [][Next]_vars

(* Time passes, timers fire, the event loop takes its events and storage   *)
(* answers.  No request need ever come.                                    *)
Fairness ==
    /\ WF_vars(Tick)
    /\ WF_vars(ReconnectFires)
    /\ WF_vars(ReleaseFires)
    /\ \A p \in Ports : WF_vars(Disconnected(p))
    /\ \A k \in 1..MaxReleases :
         WF_vars(ListSessions(k) \/ \E s \in Sessions : ReleaseSession(k, s))

FairSpec == Spec /\ Fairness

-----------------------------------------------------------------------------
TypeOK ==
    /\ host \in {"present", "absent"}
    /\ nativePort \in Ports \cup {Nil}
    /\ live \subseteq Ports /\ closed \subseteq Ports
    /\ reconnect \in 0..ReconnectDelay \cup {Nil}
    /\ release \in Seq(0..ReleaseDelay)
    /\ tracked \in BOOLEAN
    /\ tracked => release # <<>>
    /\ releasing \in [1..MaxReleases ->
                       [stage : {"idle", "list", "remove"}, todo : SUBSET Sessions]]
    /\ arriving \subseteq Sessions /\ saving \subseteq Sessions
    /\ leased \subseteq Sessions /\ resumed \subseteq Sessions
    /\ faults \in 0..MaxFaults /\ panels \in 0..MaxPanels

(* There is one broker process at most, and nativePort names its port:     *)
(* connections by timer, panel and restart never pass one another          *)
(* (service-worker.ts:41-44,51); ADR 0021 rests on it.                     *)
OnePort ==
    /\ Cardinality(live \cup closed) <= 1
    /\ \A p \in live \cup closed : nativePort = p

(* Without a port a reconnection is always due (service-worker.ts:54,64).  *)
NeverStranded == nativePort = Nil => reconnect # Nil

(* ADR 0009: the connection comes back by itself, whenever the host can be *)
(* started.                                                                *)
Reconnects == []<>(live # {} \/ host = "absent")

(* ADR 0004: leases do not outlive a connection that stays away.           *)
AbandonedExpires == []<>(live # {} \/ leased = {})

(* The other half of it: a release of every lease does not begin while a   *)
(* session that holds one has sent a request since the last disconnect     *)
(* (service-worker.ts:53-57,126-130).  A request that comes while a        *)
(* release that has begun is under way still loses its lease: the listing  *)
(* is older than the request (service-worker.ts:326-328).                  *)
LeaseInUseKept == [][ReleaseFires => leased \cap resumed = {}]_vars
=============================================================================
