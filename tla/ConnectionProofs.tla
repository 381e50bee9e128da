-------------------------- MODULE ConnectionProofs --------------------------
(***************************************************************************)
(* Proofs about NativeConnection: one native port at most, and a           *)
(* reconnection always due without one, for any delays, any number of      *)
(* faults and any identities of ports.  ConnectionInv adds what the two    *)
(* rest on: a port that ended is not live, nativePort names the one there  *)
(* is, and the release timers are due in the order they were set.          *)
(***************************************************************************)
EXTENDS NativeConnection, FiniteSetTheorems, SequenceTheorems, TLAPS

NamedPort ==
    /\ live \cap closed = {}
    /\ \A p \in live \cup closed : nativePort = p

Ascending(q) == \A k, l \in 1..Len(q) : k <= l => q[k] <= q[l]

InOrder == Ascending(release)

ConnectionInv == TypeOK /\ NamedPort /\ NeverStranded /\ InOrder

(* The delays and bounds are numbers, and Nil is none of them.             *)
LEMMA Delays ==
    /\ ReconnectDelay \in Nat /\ ReleaseDelay \in Nat
    /\ MaxFaults \in Nat /\ MaxPanels \in Nat /\ MaxReleases \in Nat
    /\ Nil \notin Nat /\ Nil \notin Ports
  BY ConnectionAssumption

(* What becomes of timers in ascending order: a new last one, the first    *)
(* one fired, the last one cleared, and a second gone by.                  *)
LEMMA AscendingAppend ==
    ASSUME NEW N \in Nat, NEW q \in Seq(0..N), Ascending(q)
    PROVE  LET t == Append(q, N) IN Ascending(t) /\ t \in Seq(0..N) /\ t # <<>>
<1>. DEFINE t == Append(q, N)
<1>1. Len(q) \in Nat /\ \A k \in 1..Len(q) : q[k] \in 0..N
  BY LenProperties
<1>2. /\ t \in Seq(0..N) /\ t # <<>> /\ Len(t) = Len(q) + 1
      /\ t[Len(q) + 1] = N /\ \A k \in 1..Len(q) : t[k] = q[k]
  BY AppendProperties
<1>. HIDE DEF t
<1>3. Ascending(t)
  <2>. SUFFICES ASSUME NEW k \in 1..Len(t), NEW l \in 1..Len(t), k <= l PROVE t[k] <= t[l]
    BY DEF Ascending
  <2>1. CASE l \in 1..Len(q)
    <3>1. k \in 1..Len(q)
      BY <1>1, <2>1
    <3>2. QED BY <1>2, <2>1, <3>1 DEF Ascending
  <2>2. CASE l = Len(q) + 1
    <3>1. k \in 1..Len(q) \/ k = l
      BY <1>1, <1>2, <2>2
    <3>2. QED BY <1>1, <1>2, <2>2, <3>1
  <2>3. QED BY <1>1, <1>2, <2>1, <2>2
<1>4. QED BY <1>2, <1>3 DEF t

\* without the first of them
LEMMA AscendingTail ==
    ASSUME NEW N \in Nat, NEW q \in Seq(0..N), Ascending(q), q # <<>>
    PROVE  LET t == Tail(q) IN
           Ascending(t) /\ t \in Seq(0..N) /\ (Len(q) > 1 => t # <<>>)
<1>. DEFINE t == Tail(q)
<1>1. Len(q) \in Nat
  BY LenProperties
<1>2. t \in Seq(0..N) /\ Len(t) = Len(q) - 1 /\ \A k \in 1..Len(t) : t[k] = q[k + 1]
  BY HeadTailProperties
<1>. HIDE DEF t
<1>3. Ascending(t)
  <2>. SUFFICES ASSUME NEW k \in 1..Len(t), NEW l \in 1..Len(t), k <= l PROVE t[k] <= t[l]
    BY DEF Ascending
  <2>1. k + 1 \in 1..Len(q) /\ l + 1 \in 1..Len(q) /\ k + 1 <= l + 1
    BY <1>1, <1>2
  <2>2. q[k + 1] <= q[l + 1]
    BY <2>1 DEF Ascending
  <2>3. QED BY <1>2, <2>2
<1>4. Len(q) > 1 => t # <<>>
  BY <1>1, <1>2
<1>5. QED BY <1>2, <1>3, <1>4 DEF t

\* without the last of them
LEMMA AscendingFront ==
    ASSUME NEW N \in Nat, NEW q \in Seq(0..N), Ascending(q), q # <<>>
    PROVE  LET t == SubSeq(q, 1, Len(q) - 1) IN Ascending(t) /\ t \in Seq(0..N)
<1>. DEFINE n == Len(q) - 1
            t == SubSeq(q, 1, n)
<1>1. Len(q) \in Nat /\ n \in Nat /\ \A k \in 1..Len(q) : q[k] \in 0..N
  BY LenProperties, EmptySeq
<1>2. \A k \in 1..n : k \in 1..Len(q) /\ q[k] \in 0..N
  BY <1>1
<1>. HIDE DEF n
<1>3. t \in Seq(0..N) /\ Len(t) = n /\ \A k \in 1..n : t[k] = q[k]
  <2>1. /\ t \in Seq(0..N) /\ Len(t) = IF 1 <= n THEN n - 1 + 1 ELSE 0
        /\ \A k \in 1..(n - 1 + 1) : t[k] = q[1 + k - 1]
    BY <1>1, <1>2, SubSeqProperties
  <2>. HIDE DEF t
  <2>2. Len(t) = n
    BY <1>1, <2>1
  <2>3. ASSUME NEW k \in 1..n PROVE t[k] = q[k]
    <3>1. k \in 1..(n - 1 + 1) /\ 1 + k - 1 = k
      BY <1>1
    <3>2. QED BY <2>1, <3>1
  <2>4. QED BY <2>1, <2>2, <2>3
<1>. HIDE DEF t
<1>4. Ascending(t)
  BY <1>2, <1>3 DEF Ascending
<1>5. QED BY <1>3, <1>4 DEF t, n

\* all of them a second less
LEMMA AscendingTick ==
    ASSUME NEW N \in Nat, NEW q \in Seq(0..N), Ascending(q), q # <<>> => Head(q) > 0
    PROVE  LET t == [k \in 1..Len(q) |-> q[k] - 1] IN
           Ascending(t) /\ t \in Seq(0..N) /\ (q # <<>> => t # <<>>)
<1>. DEFINE t == [k \in 1..Len(q) |-> q[k] - 1]
<1>1. Len(q) \in Nat /\ \A k \in 1..Len(q) : q[k] \in 0..N
  BY LenProperties
<1>2. ASSUME NEW k \in 1..Len(q) PROVE q[k] \in 1..N
  <2>1. q # <<>> /\ 1 \in 1..Len(q) /\ 1 <= k
    BY <1>1, EmptySeq
  <2>2. Head(q) = q[1] /\ q[1] <= q[k]
    BY <2>1 DEF Ascending
  <2>3. QED BY <1>1, <2>1, <2>2
<1>3. t \in [1..Len(q) -> 0..N]
  BY <1>2
<1>4. t \in Seq(0..N) /\ Len(t) = Len(q)
  BY <1>1, <1>3
<1>5. Ascending(t)
  <2>. SUFFICES ASSUME NEW k \in 1..Len(q), NEW l \in 1..Len(q), k <= l PROVE t[k] <= t[l]
    BY <1>4 DEF Ascending
  <2>1. q[k] <= q[l] /\ q[k] \in 0..N /\ q[l] \in 0..N
    BY <1>1 DEF Ascending
  <2>2. QED BY <2>1
<1>6. q # <<>> => t # <<>>
  BY <1>4, EmptySeq
<1>7. QED BY <1>4, <1>5, <1>6

(* A port opened while there is none is the only one.                      *)
LEMMA OpenNamed ==
    ASSUME ConnectionInv, nativePort = Nil, NEW p \in Ports, Open(p)
    PROVE  NamedPort' /\ nativePort' \in Ports /\ live' \subseteq Ports /\ closed' \subseteq Ports
<1>1. live = {} /\ closed = {}
  BY Delays DEF ConnectionInv, NamedPort, TypeOK
<1>2. QED BY <1>1 DEF Open, NamedPort, ConnectionInv, TypeOK

(* connectNative, whatever it finds, keeps what it is concerned with.      *)
LEMMA ConnectKeeps ==
    ASSUME ConnectionInv, NEW timer \in (0..ReconnectDelay) \cup {Nil}, Connect(timer),
           nativePort = Nil => timer # Nil \/ reconnect = 0,
           UNCHANGED <<host, release, tracked, releasing, leaseVars>>, panels' \in 0..MaxPanels
    PROVE  ConnectionInv'
<1>1. CASE nativePort # Nil /\ reconnect' = timer /\ UNCHANGED <<nativePort, live, closed, faults>>
  BY <1>1 DEF ConnectionInv, TypeOK, NamedPort, NeverStranded, InOrder, leaseVars
<1>2. ASSUME NEW p \in Ports, nativePort = Nil, Open(p), reconnect' = timer, faults' = faults
      PROVE  ConnectionInv'
  <2>1. NamedPort' /\ nativePort' \in Ports /\ live' \subseteq Ports /\ closed' \subseteq Ports
    BY <1>2, OpenNamed
  <2>2. TypeOK'
    BY <1>2, <2>1 DEF ConnectionInv, TypeOK, leaseVars
  <2>3. NeverStranded'
    BY <2>1, Delays DEF NeverStranded
  <2>4. InOrder'
    BY DEF ConnectionInv, InOrder
  <2>5. QED BY <2>1, <2>2, <2>3, <2>4 DEF ConnectionInv
<1>3. CASE /\ nativePort = Nil /\ faults < MaxFaults /\ faults' = faults + 1
           /\ reconnect' = ReconnectDelay /\ UNCHANGED <<nativePort, live, closed>>
  BY <1>3, Delays DEF ConnectionInv, TypeOK, NamedPort, NeverStranded, InOrder, leaseVars
<1>4. QED BY <1>1, <1>2, <1>3 DEF Connect

(* Every step keeps the release timers in the order they are due.          *)
LEMMA TimersInOrder ==
    ASSUME ConnectionInv, [Next]_vars
    PROVE  InOrder' /\ release' \in Seq(0..ReleaseDelay) /\ (tracked' => release' # <<>>)
<1>1. release \in Seq(0..ReleaseDelay) /\ Ascending(release) /\ (tracked => release # <<>>)
  BY DEF ConnectionInv, TypeOK, InOrder
<1>2. /\ release' \in Seq(0..ReleaseDelay)
      /\ Ascending(release')
      /\ tracked' => release' # <<>>
  <2>1. CASE UNCHANGED <<release, tracked>>
    BY <1>1, <2>1
  <2>2. ASSUME NEW p \in Ports, Disconnected(p) PROVE Ascending(release') /\ release' \in Seq(0..ReleaseDelay) /\ (tracked' => release' # <<>>)
    <3>1. release' = Append(release, ReleaseDelay)
      BY <2>2 DEF Disconnected
    <3>2. QED BY <1>1, <3>1, Delays, AscendingAppend
  <2>3. CASE ReleaseFires
    <3>1. release # <<>> /\ release' = Tail(release) /\ (tracked' => Len(release) > 1)
      BY <2>3 DEF ReleaseFires
    <3>2. QED BY <1>1, <3>1, Delays, AscendingTail
  <2>4. ASSUME NEW s \in Sessions, Authorize(s) PROVE Ascending(release') /\ release' \in Seq(0..ReleaseDelay) /\ (tracked' => release' # <<>>)
    <3>1. ~tracked' /\ release' = IF tracked THEN SubSeq(release, 1, Len(release) - 1) ELSE release
      BY <2>4 DEF Authorize
    <3>2. QED BY <1>1, <3>1, Delays, AscendingFront
  <2>5. CASE WorkerRestarts
    BY <2>5 DEF WorkerRestarts, Ascending
  <2>6. CASE Tick
    <3>1. /\ tracked' = tracked
          /\ release' = [k \in 1..Len(release) |-> release[k] - 1]
          /\ release # <<>> => Head(release) > 0
      BY <2>6 DEF Tick
    <3>2. QED BY <1>1, <3>1, Delays, AscendingTick
  <2>7. QED
    BY <2>1, <2>2, <2>3, <2>4, <2>5, <2>6
    DEF Next, vars, timerVars, ReconnectFires, PanelAsks, PortEnds, Request, SaveLease, HostChanges,
        ListSessions, ReleaseSession
<1>3. QED BY <1>2 DEF InOrder

(* Every step keeps ConnectionInv.                                         *)
LEMMA Step ==
    ASSUME ConnectionInv, [Next]_vars
    PROVE  ConnectionInv'
<1>. USE Delays
<1>1. InOrder' /\ release' \in Seq(0..ReleaseDelay) /\ (tracked' => release' # <<>>)
  BY TimersInOrder
<1>2. CASE ReconnectFires
  <2>1. Connect(Nil) /\ reconnect = 0 /\ panels' \in 0..MaxPanels
        /\ UNCHANGED <<host, release, tracked, releasing, leaseVars>>
    BY <1>2 DEF ReconnectFires, ConnectionInv, TypeOK
  <2>2. QED BY <2>1, ConnectKeeps
<1>3. CASE PanelAsks
  <2>1. /\ Connect(reconnect) /\ panels' \in 0..MaxPanels
        /\ reconnect \in (0..ReconnectDelay) \cup {Nil}
        /\ nativePort = Nil => reconnect # Nil
        /\ UNCHANGED <<host, release, tracked, releasing, leaseVars>>
    BY <1>3 DEF PanelAsks, ConnectionInv, TypeOK, NeverStranded
  <2>2. QED BY <2>1, ConnectKeeps
<1>. USE DEF ConnectionInv
<1>4. ASSUME NEW p \in Ports, PortEnds(p) PROVE ConnectionInv'
  BY <1>1, <1>4 DEF PortEnds, TypeOK, NamedPort, NeverStranded, timerVars, leaseVars
<1>5. ASSUME NEW p \in Ports, Disconnected(p) PROVE ConnectionInv'
  <2>1. TypeOK' /\ NeverStranded'
    BY <1>1, <1>5 DEF Disconnected, TypeOK, NeverStranded, boundVars
  <2>2. live' = {} /\ closed' = {}
    <3>1. nativePort = p /\ live \cap closed = {} /\ \A q \in live \cup closed : q = p
      BY <1>5 DEF Disconnected, NamedPort
    <3>2. QED BY <1>5, <3>1 DEF Disconnected
  <2>3. QED BY <1>1, <2>1, <2>2 DEF NamedPort
<1>6. CASE ReleaseFires
  <2>1. releasing' \in [1..MaxReleases ->
                         [stage : {"idle", "list", "remove"}, todo : SUBSET Sessions]]
    BY <1>6 DEF ReleaseFires, TypeOK
  <2> QED
    BY <1>1, <1>6, <2>1 DEF ReleaseFires, TypeOK, NamedPort, NeverStranded, leaseVars, boundVars
<1>12. ASSUME NEW k \in 1..MaxReleases, ListSessions(k)
       PROVE  ConnectionInv'
  <2>1. releasing' \in [1..MaxReleases ->
                         [stage : {"idle", "list", "remove"}, todo : SUBSET Sessions]]
    BY <1>12 DEF ListSessions, Remaining, TypeOK, Idle, leaseVars
  <2> QED
    BY <1>1, <1>12, <2>1 DEF ListSessions, TypeOK, NamedPort,
       NeverStranded, timerVars, leaseVars, boundVars
<1>7. ASSUME NEW s \in Sessions, Request(s) \/ Authorize(s) \/ SaveLease(s)
      PROVE  ConnectionInv'
  BY <1>1, <1>7 DEF Request, Authorize, SaveLease, TypeOK, NamedPort, NeverStranded,
     timerVars, boundVars
<1>8. CASE HostChanges
  BY <1>1, <1>8 DEF HostChanges, TypeOK, NamedPort, NeverStranded, timerVars, leaseVars
<1>9. CASE WorkerRestarts
  <2>1. /\ nativePort' \in Ports
        /\ live' = (IF host = "present" THEN {nativePort'} ELSE {})
        /\ closed' = {nativePort'} \ live'
        /\ reconnect' = Nil /\ faults' \in 0..MaxFaults /\ panels' = panels
        /\ UNCHANGED <<host, leased>> /\ arriving' = {} /\ saving' = {} /\ resumed' = {}
    BY <1>9 DEF WorkerRestarts, TypeOK
  <2>2. NamedPort' /\ NeverStranded'
    BY <2>1 DEF NamedPort, NeverStranded
  <2>3. live' \subseteq Ports /\ closed' \subseteq Ports
    BY <2>1
  <2>a. release' = <<>> /\ tracked' = FALSE
        /\ releasing' \in [1..MaxReleases ->
                             [stage : {"idle", "list", "remove"}, todo : SUBSET Sessions]]
    BY <1>9 DEF WorkerRestarts, Idle
  <2>b. TypeOK'
    BY <1>1, <2>1, <2>3, <2>a DEF TypeOK
  <2>4. QED BY <1>1, <2>2, <2>b
<1>10. CASE Tick
  BY <1>1, <1>10 DEF Tick, TypeOK, NamedPort, NeverStranded, leaseVars, boundVars
<1>11. CASE UNCHANGED vars
  BY <1>1, <1>11 DEF vars, timerVars, leaseVars, boundVars, TypeOK, NamedPort, NeverStranded
<1>13. ASSUME NEW k \in 1..MaxReleases, NEW s \in Sessions, ReleaseSession(k, s)
       PROVE  ConnectionInv'
  <2>1. releasing' \in [1..MaxReleases ->
                         [stage : {"idle", "list", "remove"}, todo : SUBSET Sessions]]
    BY <1>13 DEF ReleaseSession, Remaining, TypeOK, Idle
  <2> QED
    BY <1>1, <1>13, <2>1 DEF ReleaseSession, TypeOK, NamedPort, NeverStranded,
       timerVars, boundVars
<1>14. QED
  BY <1>2, <1>3, <1>4, <1>5, <1>6, <1>7, <1>8, <1>9, <1>10, <1>11, <1>12, <1>13 DEF Next

(* A worker that has just started is as ConnectionInv says.                *)
LEMMA Start == Init => ConnectionInv
<1>. SUFFICES ASSUME Init PROVE ConnectionInv
  OBVIOUS
<1>1. TypeOK
  <2>1. live \subseteq Ports /\ closed \subseteq Ports
    BY DEF Init
  <2>2. /\ release \in Seq(0..ReleaseDelay) /\ tracked = FALSE
        /\ releasing \in [1..MaxReleases ->
                            [stage : {"idle", "list", "remove"}, todo : SUBSET Sessions]]
        /\ reconnect = Nil
        /\ faults \in 0..MaxFaults /\ panels \in 0..MaxPanels
    BY EmptySeq, Delays DEF Init, Idle
  <2>3. /\ host \in {"present", "absent"}
        /\ nativePort \in Ports
        /\ arriving = {} /\ saving = {} /\ leased = {} /\ resumed = {}
    BY DEF Init
  <2>4. QED BY <2>1, <2>2, <2>3 DEF TypeOK
<1>2. NamedPort /\ NeverStranded
  BY Delays DEF Init, NamedPort, NeverStranded
<1>3. InOrder
  BY DEF Init, InOrder, Ascending
<1>4. QED BY <1>1, <1>2, <1>3 DEF ConnectionInv

(* ConnectionInv holds in every reachable state.                           *)
THEOREM ConnectionSafety == Spec => []ConnectionInv
  BY Start, Step, PTL DEF Spec

(* Types: the timers never run below zero and a handle that is kept names  *)
(* a timer that is set (service-worker.ts:20-71,126-130).                  *)
THEOREM ConnectionTypes == Spec => []TypeOK
<1>1. ConnectionInv => TypeOK
  BY DEF ConnectionInv
<1>2. QED BY <1>1, ConnectionSafety, PTL

(* One broker at most is behind the service worker, and nativePort names   *)
(* its port, however timers, panel and faults interleave                   *)
(* (service-worker.ts:41-44,51).                                           *)
THEOREM OneNativePort == Spec => []OnePort
<1>1. ASSUME ConnectionInv PROVE OnePort
  <2>1. \A p \in live \cup closed : nativePort = p
    BY <1>1 DEF ConnectionInv, NamedPort
  <2>2. CASE live \cup closed = {}
    <3>1. Cardinality(live \cup closed) = 0
      BY <2>2, FS_EmptySet
    <3>2. QED BY <2>1, <3>1 DEF OnePort
  <2>3. CASE live \cup closed # {}
    <3>1. live \cup closed = {nativePort}
      BY <2>1, <2>3
    <3>2. Cardinality(live \cup closed) = 1
      BY <3>1, FS_Singleton
    <3>3. QED BY <2>1, <3>2 DEF OnePort
  <2>4. QED BY <2>2, <2>3
<1>2. QED BY <1>1, ConnectionSafety, PTL

(* Without a port a reconnection is always due, after every disconnect and *)
(* every exception (service-worker.ts:54,64).                              *)
THEOREM ReconnectionDue == Spec => []NeverStranded
<1>1. ConnectionInv => NeverStranded
  BY DEF ConnectionInv
<1>2. QED BY <1>1, ConnectionSafety, PTL

-----------------------------------------------------------------------------
(* What begins a release while a lease is in use is a release timer that   *)
(* was overwritten: while no second one is set beside the one there is,    *)
(* the handle names it, and the first request after a disconnect clears it.*)
OneTimer == Len(release) <= 1

TimerKnown ==
    /\ release # <<>> => tracked
    /\ resumed # {} => release = <<>>

(* Every step leaves no timer without its handle.                          *)
LEMMA TimerStep ==
    ASSUME TypeOK, TypeOK', OneTimer, OneTimer', TimerKnown, [Next]_vars
    PROVE  TimerKnown'
<1>1. /\ release \in Seq(0..ReleaseDelay) /\ release' \in Seq(0..ReleaseDelay)
      /\ Len(release) \in Nat /\ (Len(release) = 0 <=> release = <<>>)
  BY EmptySeq, LenProperties DEF TypeOK
<1>0. ASSUME release # <<>> PROVE Len(release) = 1
  <2>1. PICK n \in Nat : n = Len(release)
    BY <1>1
  <2>2. n # 0 /\ n <= 1
    BY <1>0, <1>1, <2>1 DEF OneTimer
  <2>3. n = 1
    BY <2>2
  <2> QED
    BY <2>1, <2>3
<1>2. CASE UNCHANGED <<release, tracked, resumed>>
  BY <1>2 DEF TimerKnown
<1>3. ASSUME NEW p \in Ports, Disconnected(p) PROVE TimerKnown'
  BY <1>3 DEF Disconnected, TimerKnown
<1>4. ASSUME NEW s \in Sessions, Authorize(s) PROVE TimerKnown'
  <2>1. release' = <<>>
    <3>1. CASE release = <<>>
      BY <1>4, <3>1 DEF Authorize, TypeOK
    <3>2. CASE release # <<>>
      <4>1. release' = SubSeq(release, 1, Len(release) - 1)
        BY <1>4, <3>2 DEF Authorize, TimerKnown
      <4>2. Len(release) = 1
        BY <1>0, <3>2
      <4>3. release' = SubSeq(release, 1, 0)
        BY <4>1, <4>2
      <4> QED
        BY <1>1, <4>3, SubSeqProperties, EmptySeq
    <3> QED
      BY <3>1, <3>2
  <2> QED
    BY <2>1 DEF TimerKnown
<1>5. CASE ReleaseFires
  <2>1. release # <<>> /\ release' = Tail(release) /\ resumed' = resumed
    BY <1>5 DEF ReleaseFires, leaseVars
  <2>2. Len(release) = 1
    BY <1>0, <2>1
  <2>3. Len(release') = 0
    BY <1>1, <2>1, <2>2, HeadTailProperties
  <2>4. release' = <<>>
    BY <1>1, <2>3, EmptySeq
  <2> QED
    BY <2>4 DEF TimerKnown
<1>6. CASE WorkerRestarts
  BY <1>6 DEF WorkerRestarts, TimerKnown
<1>7. CASE Tick
  <2>1. /\ release' = [k \in 1..Len(release) |-> release[k] - 1]
        /\ tracked' = tracked /\ resumed' = resumed
    BY <1>7 DEF Tick, leaseVars
  <2>2. release = <<>> => release' = <<>>
    <3>1. ASSUME release = <<>> PROVE Len(release') = 0
      BY <1>1, <2>1, <3>1, LenProperties
    <3> QED
      BY <1>1, <3>1, EmptySeq
  <2>3. CASE release = <<>>
    BY <2>1, <2>2, <2>3 DEF TimerKnown
  <2>4. CASE release # <<>>
    BY <2>1, <2>4 DEF TimerKnown
  <2> QED
    BY <2>3, <2>4
<1> QED
  BY <1>2, <1>3, <1>4, <1>5, <1>6, <1>7
  DEF Next, vars, timerVars, leaseVars, ReconnectFires, PanelAsks, PortEnds, Request, SaveLease,
      HostChanges, ListSessions, ReleaseSession

(* As long as release timers do not pile up, no release of the leases      *)
(* begins while a session that holds one has sent a request since the last *)
(* disconnect, however ports, restarts, releases and requests follow each  *)
(* other (service-worker.ts:53-57,126-130).  What a release does that      *)
(* began before the request came is not its subject.                       *)
THEOREM OneTimerKeepsLease == Spec /\ []OneTimer => LeaseInUseKept
<1>1. Init => TimerKnown
  BY DEF Init, TimerKnown
<1>2. TypeOK /\ TypeOK' /\ OneTimer /\ OneTimer' /\ TimerKnown /\ [Next]_vars => TimerKnown'
  BY TimerStep
<1>3. TimerKnown /\ [Next]_vars => [ReleaseFires => leased \cap resumed = {}]_vars
  <2>1. TimerKnown /\ ReleaseFires => resumed = {}
    BY DEF ReleaseFires, TimerKnown
  <2> QED
    BY <2>1
<1>4. QED
  BY <1>1, <1>2, <1>3, ConnectionTypes, PTL DEF Spec, LeaseInUseKept
=============================================================================
