--------------------------- MODULE TransportProofs --------------------------
(***************************************************************************)
(* Proofs about Transport for every number of sessions, calls, connections *)
(* and ports and every queue size.                                         *)
(***************************************************************************)
EXTENDS Transport, SequenceTheorems, TLAPS

-----------------------------------------------------------------------------
(* Facts about the records of Wire, so that later steps need not open them. *)

\* the bounds are numbers
LEMMA Bounds ==
    /\ MaxCalls \in Nat /\ MaxConns \in Nat /\ MaxPorts \in Nat
  BY WireAssumption

\* a call is a relay and an id, and any such pair is a call
LEMMA CallFields ==
    /\ \A call \in Calls : call.relay \in Relays /\ call.id \in Ids
    /\ \A r \in Relays, i \in Ids : [relay |-> r, id |-> i] \in Calls
  BY DEF Calls

\* the lines there are, and the call of a request line
LEMMA LineFields ==
    /\ Hello \in Lines /\ Garbage \in Lines
    /\ \A call \in Calls : RequestOf(call) \in Lines
    /\ \A line \in Lines : line.kind = "request" => line.call \in Calls
  BY DEF Lines, Hello, Garbage, RequestOf

\* a request is a broker id and a call, and never Nil
LEMMA RequestFields ==
    /\ \A b \in Nat, call \in Calls : [id |-> b, call |-> call] \in Requests
    /\ \A request \in Requests : request.id \in Nat /\ request.call \in Calls
    /\ Nil \notin Requests
  BY WireAssumption DEF Requests

(* What taking or adding a line does to a family of sequences.             *)
LEMMA FamilyTypes ==
    ASSUME NEW D, NEW S, NEW f \in [D -> Seq(S)], NEW d
    PROVE  /\ [f EXCEPT ![d] = <<>>] \in [D -> Seq(S)]
           /\ \A e \in S : [f EXCEPT ![d] = Append(@, e)] \in [D -> Seq(S)]
           /\ \A e \in S : [f EXCEPT ![d] = <<e>>] \in [D -> Seq(S)]
           /\ \A e \in S : [f EXCEPT ![d][1] = e] \in [D -> Seq(S)]
           /\ f[d] # <<>> => [f EXCEPT ![d] = Tail(@)] \in [D -> Seq(S)]
           /\ d \in D /\ f[d] # <<>> => Head(f[d]) \in S
<1>1. <<>> \in Seq(S) /\ \A e \in S : <<e>> \in Seq(S)
  OBVIOUS
<1>2. \A s \in Seq(S), e \in S : Append(s, e) \in Seq(S)
  OBVIOUS
<1>3. \A s \in Seq(S) : s # <<>> => Head(s) \in S /\ Tail(s) \in Seq(S)
  OBVIOUS
<1>4. \A s \in Seq(S), e \in S : [s EXCEPT ![1] = e] \in Seq(S)
  <2>. SUFFICES ASSUME NEW s \in Seq(S), NEW e \in S
                PROVE  [s EXCEPT ![1] = e] \in Seq(S)
    OBVIOUS
  <2>1. CASE Len(s) > 0
    BY <2>1, ExceptSeq
  <2>2. CASE Len(s) = 0
    <3>1. s \in [{} -> S]
      BY <2>2, LenProperties
    <3>2. [s EXCEPT ![1] = e] = s
      BY <3>1
    <3>3. QED BY <3>2
  <2>3. QED BY <2>1, <2>2, LenProperties
<1>5. QED BY <1>1, <1>2, <1>3, <1>4

(* Where the elements of a changed sequence come from.                     *)
LEMMA SeqElems ==
    ASSUME NEW S, NEW s \in Seq(S)
    PROVE  /\ s # <<>> => \A k \in 1..Len(Tail(s)) :
                k + 1 \in 1..Len(s) /\ Tail(s)[k] = s[k + 1]
           /\ \A e \in S : \A k \in 1..Len(Append(s, e)) :
                \/ k \in 1..Len(s) /\ Append(s, e)[k] = s[k]
                \/ Append(s, e)[k] = e
<1>1. ASSUME s # <<>>, NEW k \in 1..Len(Tail(s))
      PROVE  k + 1 \in 1..Len(s) /\ Tail(s)[k] = s[k + 1]
  BY <1>1, HeadTailProperties, LenProperties
<1>2. ASSUME NEW e \in S, NEW k \in 1..Len(Append(s, e))
      PROVE  \/ k \in 1..Len(s) /\ Append(s, e)[k] = s[k]
             \/ Append(s, e)[k] = e
  BY AppendProperties, LenProperties
<1>3. QED BY <1>1, <1>2

(* The same for a family of sequences, one of which changes.               *)
LEMMA FamilyElems ==
    ASSUME NEW D, NEW S, NEW f \in [D -> Seq(S)], NEW d, NEW g
    PROVE  /\ f[d] # <<>> /\ g = [f EXCEPT ![d] = Tail(@)] =>
                \A x \in D : \A k \in 1..Len(g[x]) :
                    \E l \in 1..Len(f[x]) : g[x][k] = f[x][l]
           /\ g = [f EXCEPT ![d] = <<>>] =>
                \A x \in D : \A k \in 1..Len(g[x]) :
                    \E l \in 1..Len(f[x]) : g[x][k] = f[x][l]
           /\ \A e \in S : g = [f EXCEPT ![d] = Append(@, e)] =>
                \A x \in D : \A k \in 1..Len(g[x]) :
                    \/ \E l \in 1..Len(f[x]) : g[x][k] = f[x][l]
                    \/ x = d /\ g[x][k] = e
<1>1. ASSUME f[d] # <<>>, g = [f EXCEPT ![d] = Tail(@)], NEW x \in D,
             NEW k \in 1..Len(g[x])
      PROVE  \E l \in 1..Len(f[x]) : g[x][k] = f[x][l]
  <2>1. CASE x # d
    BY <1>1, <2>1
  <2>2. CASE x = d
    <3>1. g[x] = Tail(f[x]) /\ f[x] \in Seq(S) /\ f[x] # <<>>
      BY <1>1, <2>2
    <3>2. QED BY <3>1, SeqElems
  <2>3. QED BY <2>1, <2>2
<1>2. ASSUME g = [f EXCEPT ![d] = <<>>], NEW x \in D, NEW k \in 1..Len(g[x])
      PROVE  \E l \in 1..Len(f[x]) : g[x][k] = f[x][l]
  <2>1. x # d
    BY <1>2
  <2>2. QED BY <1>2, <2>1
<1>3. ASSUME NEW e \in S, g = [f EXCEPT ![d] = Append(@, e)], NEW x \in D,
             NEW k \in 1..Len(g[x])
      PROVE  \/ \E l \in 1..Len(f[x]) : g[x][k] = f[x][l]
             \/ x = d /\ g[x][k] = e
  <2>1. CASE x # d
    BY <1>3, <2>1
  <2>2. CASE x = d
    <3>1. g[x] = Append(f[x], e) /\ f[x] \in Seq(S)
      BY <1>3, <2>2
    <3>2. QED BY <3>1, <2>2, SeqElems
  <2>3. QED BY <2>1, <2>2
<1>4. QED BY <1>1, <1>2, <1>3

-----------------------------------------------------------------------------
(* The variables an action leaves alone keep their types.                  *)
LEMMA Frame ==
    /\ RelayTypeOK /\ UNCHANGED relayVars => RelayTypeOK'
    /\ SocketTypeOK /\ UNCHANGED socketVars => SocketTypeOK'
    /\ TaskTypeOK /\ UNCHANGED taskVars => TaskTypeOK'
    /\ BrokerTypeOK /\ UNCHANGED brokerVars => BrokerTypeOK'
    /\ PortTypeOK /\ UNCHANGED portVars => PortTypeOK'
  BY DEF RelayTypeOK, SocketTypeOK, TaskTypeOK, BrokerTypeOK, PortTypeOK,
         relayVars, socketVars, taskVars, brokerVars, portVars

(* Dropping the stream keeps the types of the relay and of the sockets.    *)
LEMMA DropTypes ==
    ASSUME RelayTypeOK, SocketTypeOK, NEW r \in Relays, Drop(r)
    PROVE  /\ connection' \in [Relays -> 0..MaxConns]
           /\ relayOpen' \in [Conns -> BOOLEAN]
           /\ toRelay' \in [Conns -> Seq(Responses \cup {Connected})]
<1>1. connection' \in [Relays -> 0..MaxConns]
  BY Bounds DEF Drop, RelayTypeOK
<1>2. relayOpen' \in [Conns -> BOOLEAN]
  BY DEF Drop, SocketTypeOK
<1>3. toRelay' \in [Conns -> Seq(Responses \cup {Connected})]
  BY FamilyTypes DEF Drop, SocketTypeOK
<1>4. QED BY <1>1, <1>2, <1>3

(* Returning keeps the types of status and guard.                          *)
LEMMA ReturnTypes ==
    ASSUME RelayTypeOK, NEW call \in Calls, NEW s \in Outcomes, Return(call, s)
    PROVE  /\ status' \in [Calls -> Statuses]
           /\ guard' \in [Relays -> 0..MaxCalls]
<1>1. s \in Statuses
  BY DEF Statuses
<1>3. status' \in [Calls -> Statuses]
  BY <1>1 DEF Return, RelayTypeOK
<1>4. guard' \in [Relays -> 0..MaxCalls]
  BY Bounds, CallFields DEF Ids, Return, RelayTypeOK
<1>5. QED BY <1>3, <1>4

(* The relay's actions keep the types (relay.rs:78-193).                   *)
LEMMA RelayTypes == TypeOK /\ RelayNext => TypeOK'
<1>. SUFFICES ASSUME TypeOK, RelayNext PROVE TypeOK'
  OBVIOUS
<1>. USE Bounds, CallFields DEF TypeOK
<1>a. \A call \in Calls :
        ConnectTimeout(call) \/ AuthenticateFails(call) \/ WriteFails(call)
          \/ Disconnected(call) \/ RequestTimeout(call) => TypeOK'
  <2>. SUFFICES ASSUME NEW call \in Calls, NEW s \in Outcomes, Return(call, s),
                       Drop(call.relay), 
                       UNCHANGED <<alive, next_request_id, next_client_id, owner,
                                   toBroker, taskVars, brokerVars, portVars>>
                PROVE TypeOK'
    BY DEF ConnectTimeout, AuthenticateFails, WriteFails, Disconnected,
           RequestTimeout, Outcomes, Refused
  <2>1. RelayTypeOK'
    BY ReturnTypes, DropTypes DEF RelayTypeOK
  <2>2. SocketTypeOK'
    BY DropTypes DEF SocketTypeOK
  <2>3. QED BY <2>1, <2>2, Frame
<1>1. ASSUME NEW r \in Relays, Call(r) PROVE TypeOK'
  <2>1. RelayTypeOK'
    BY <1>1 DEF Call, RelayTypeOK, Statuses, Ids
  <2>2. QED BY <2>1, <1>1, Frame DEF Call
<1>b. ASSUME NEW r \in Relays, EndProcess(r), toBroker' \in [Conns -> Seq(Lines)]
      PROVE  TypeOK'
  <2>1. RelayTypeOK'
    BY <1>b, DropTypes DEF EndProcess, RelayTypeOK, Statuses
  <2>2. SocketTypeOK'
    BY <1>b, DropTypes DEF EndProcess, SocketTypeOK
  <2>3. QED BY <2>1, <2>2, <1>b, Frame DEF EndProcess
<1>2. ASSUME NEW r \in Relays, Exit(r) PROVE TypeOK'
  BY <1>2, <1>b DEF Exit, SocketTypeOK
<1>c. ASSUME NEW call \in Calls, KilledWriting(call) PROVE TypeOK'
  <2>1. toBroker \in [Conns -> Seq(Lines)]
    BY DEF SocketTypeOK
  <2>2. toBroker' \in [Conns -> Seq(Lines)]
    BY <1>c, <2>1, LineFields, FamilyTypes DEF KilledWriting
  <2>3. QED BY <1>c, <2>2, <1>b DEF KilledWriting
<1>3. ASSUME NEW call \in Calls, Lock(call) PROVE TypeOK'
  <2>1. RelayTypeOK'
    BY <1>3 DEF Lock, RelayTypeOK, Statuses, InLock, Ids
  <2>2. QED BY <2>1, <1>3, Frame DEF Lock
<1>4. ASSUME NEW call \in Calls, Connect(call) PROVE TypeOK'
  <2>1. RelayTypeOK'
    BY <1>4 DEF Connect, RelayTypeOK, SocketTypeOK, Statuses, InLock, Conns
  <2>2. SocketTypeOK'
    BY <1>4, LineFields DEF Connect, SocketTypeOK, Conns
  <2>3. TaskTypeOK'
    BY <1>4 DEF Connect, TaskTypeOK
  <2>4. QED BY <2>1, <2>2, <2>3, <1>4, Frame DEF Connect
<1>5. ASSUME NEW call \in Calls, Authenticated(call) PROVE TypeOK'
  <2>1. RelayTypeOK'
    BY <1>5 DEF Authenticated, RelayTypeOK, Statuses, InLock
  <2>a. toRelay' \in [Conns -> Seq(Responses \cup {Connected})]
    BY <1>5, FamilyTypes DEF Authenticated, SocketTypeOK
  <2>2. SocketTypeOK'
    BY <2>a, <1>5 DEF Authenticated, SocketTypeOK
  <2>3. QED BY <2>1, <2>2, <1>5, Frame DEF Authenticated
<1>6. ASSUME NEW call \in Calls, Write(call) PROVE TypeOK'
  <2>1. RelayTypeOK'
    BY <1>6 DEF Write, RelayTypeOK, Statuses, InLock
  <2>2. SocketTypeOK'
    BY <1>6, LineFields, FamilyTypes DEF Write, SocketTypeOK
  <2>3. QED BY <2>1, <2>2, <1>6, Frame DEF Write
<1>7. ASSUME NEW call \in Calls, Receive(call) PROVE TypeOK'
  <2>1. RelayTypeOK'
    BY <1>7, ReturnTypes DEF Receive, RelayTypeOK, Outcomes
  <2>2. SocketTypeOK'
    BY <1>7, FamilyTypes DEF Receive, SocketTypeOK
  <2>3. QED BY <2>1, <2>2, <1>7, Frame DEF Receive
<1>8. QED
  BY <1>a, <1>1, <1>2, <1>c, <1>3, <1>4, <1>5, <1>6, <1>7
  DEF RelayNext, CallStep, LimitedStep

(* A client task that leaves keeps the types.                              *)
LEMMA LeaveTypes == \A c \in Conns : TypeOK /\ Leave(c) => TypeOK'
<1>. SUFFICES ASSUME NEW c \in Conns, TypeOK, Leave(c) PROVE TypeOK'
  OBVIOUS
<1>. USE DEF TypeOK
<1>1. SocketTypeOK'
  BY FamilyTypes DEF Leave, SocketTypeOK
<1>2. TaskTypeOK'
  BY FamilyTypes DEF Leave, TaskTypeOK
<1>3. QED BY <1>1, <1>2, Frame DEF Leave

(* The tasks of the broker keep the types (native_host.rs:154-241).        *)
LEMMA TaskTypes == \A c \in Conns : TypeOK /\ TaskStep(c) => TypeOK'
<1>. SUFFICES ASSUME NEW c \in Conns, TypeOK, TaskStep(c) PROVE TypeOK'
  OBVIOUS
<1>. USE DEF TypeOK
<1>0. Leave(c) => TypeOK'
  BY LeaveTypes
<1>1. CASE Handshake(c)
  <2>1. SocketTypeOK'
    BY <1>1, FamilyTypes DEF Handshake, SocketTypeOK
  <2>2. TaskTypeOK'
    BY <1>1 DEF Handshake, TaskTypeOK
  <2>3. QED BY <2>1, <2>2, <1>1, Frame DEF Handshake
<1>2. CASE ReadPart(c)
  <2>1. TaskTypeOK'
    BY <1>2 DEF ReadPart, TaskTypeOK
  <2>2. QED BY <2>1, <1>2, Frame DEF ReadPart
<1>3. CASE ReadRequest(c)
  <2>. DEFINE call == Head(toBroker[c]).call
  <2>1. call \in Calls
    BY <1>3, LineFields, FamilyTypes DEF ReadRequest, SocketTypeOK
  <2>2. next_broker_id \in Nat /\ call.id \in Ids
    BY <2>1, CallFields DEF BrokerTypeOK
  <2>3. SocketTypeOK'
    BY <1>3, FamilyTypes DEF ReadRequest, SocketTypeOK
  <2>4. TaskTypeOK'
    BY <1>3, <2>1, <2>2, RequestFields DEF ReadRequest, TaskTypeOK
  <2>5. BrokerTypeOK'
    <3>1. pending' \subseteq Pendings
      BY <1>3, <2>2 DEF ReadRequest, BrokerTypeOK, Pendings
    <3>2. QED BY <3>1, <1>3 DEF ReadRequest, BrokerTypeOK
  <2>6. QED BY <2>3, <2>4, <2>5, <1>3, Frame DEF ReadRequest
<1>4. CASE Enqueue(c)
  <2>1. sending[c] \in Requests
    BY <1>4 DEF Enqueue, TaskTypeOK
  <2>2. TaskTypeOK'
    BY <1>4 DEF Enqueue, TaskTypeOK
  <2>3. BrokerTypeOK'
    BY <1>4, <2>1 DEF Enqueue, BrokerTypeOK
  <2>4. QED BY <2>2, <2>3, <1>4, Frame DEF Enqueue
<1>5. CASE WriteResponse(c)
  <2>1. Head(responses[c]) \in Responses
    BY <1>5, FamilyTypes DEF WriteResponse, TaskTypeOK
  <2>2. toRelay' \in [Conns -> Seq(Responses \cup {Connected})]
    BY <1>5, <2>1, FamilyTypes DEF WriteResponse, SocketTypeOK
  <2>3. toBroker' \in [Conns -> Seq(Lines)]
    BY <1>5, LineFields, FamilyTypes DEF WriteResponse, SocketTypeOK
  <2>4. SocketTypeOK'
    BY <1>5, <2>2, <2>3 DEF WriteResponse, SocketTypeOK
  <2>5. TaskTypeOK'
    BY <1>5, FamilyTypes DEF WriteResponse, TaskTypeOK
  <2>6. QED BY <2>4, <2>5, <1>5, Frame DEF WriteResponse
<1>6. CASE Cleanup(c)
  <2>1. TaskTypeOK'
    BY <1>6 DEF Cleanup, TaskTypeOK
  <2>2. BrokerTypeOK'
    BY <1>6 DEF Cleanup, BrokerTypeOK
  <2>3. QED BY <2>1, <2>2, <1>6, Frame DEF Cleanup
<1>7. QED
  BY <1>0, <1>1, <1>2, <1>3, <1>4, <1>5, <1>6
  DEF TaskStep, HandshakeFails, ReadInvalid, ReadEof, WriteResponseFails

(* The router and the end of the broker keep the types
   (native_host.rs:109-128,243-261).                                       *)
LEMMA BrokerTypes == TypeOK /\ BrokerNext => TypeOK'
<1>. SUFFICES ASSUME TypeOK, BrokerNext PROVE TypeOK'
  OBVIOUS
<1>. USE DEF TypeOK
<1>1. CASE Route
  <2>1. fromExtension' \in Seq(Responses) /\ Head(fromExtension) \in Responses
    BY <1>1 DEF Route, PortTypeOK
  <2>2. \A p \in pending : [client_id |-> p.client_id,
            response |-> [Head(fromExtension) EXCEPT !.id = p.original_id]] \in Routes
    BY <2>1 DEF BrokerTypeOK, Pendings, Routes, Responses, Ids
  <2>3. routed' \in Routes \cup {Nil}
    BY <1>1, <2>2 DEF Route
  <2>4. BrokerTypeOK'
    BY <1>1, <2>3 DEF Route, BrokerTypeOK
  <2>5. PortTypeOK'
    BY <1>1, <2>1 DEF Route, PortTypeOK
  <2>6. QED BY <2>4, <2>5, <1>1, Frame DEF Route
<1>2. CASE Deliver
  <2>1. routed.response \in Responses
    BY <1>2 DEF Deliver, BrokerTypeOK, Routes
  <2>2. TaskTypeOK'
    BY <1>2, <2>1, FamilyTypes DEF Deliver, TaskTypeOK
  <2>3. BrokerTypeOK'
    BY <1>2 DEF Deliver, BrokerTypeOK
  <2>4. QED BY <2>2, <2>3, <1>2, Frame DEF Deliver
<1>3. CASE BrokerExit
  <2>1. SocketTypeOK'
    BY <1>3 DEF BrokerExit, SocketTypeOK
  <2>2. TaskTypeOK'
    BY <1>3 DEF BrokerExit, TaskTypeOK
  <2>3. BrokerTypeOK'
    BY <1>3 DEF BrokerExit, BrokerTypeOK
  <2>4. QED BY <2>1, <2>2, <2>3, <1>3, Frame DEF BrokerExit
<1>4. CASE Discard
  <2>1. BrokerTypeOK'
    BY <1>4 DEF Discard, BrokerTypeOK
  <2>2. QED BY <2>1, <1>4, Frame DEF Discard
<1>5. QED BY <1>1, <1>2, <1>3, <1>4, TaskTypes DEF BrokerNext

(* The extension's port keeps the types (service-worker.ts:40-101).        *)
LEMMA PortTypes == TypeOK /\ PortNext => TypeOK'
<1>. SUFFICES ASSUME TypeOK, PortNext PROVE TypeOK'
  OBVIOUS
<1>. USE Bounds DEF TypeOK
<1>1. CASE ConnectNative
  <2>1. BrokerTypeOK'
    BY <1>1 DEF ConnectNative, BrokerTypeOK
  <2>2. PortTypeOK'
    BY <1>1 DEF ConnectNative, PortTypeOK
  <2>3. QED BY <2>1, <2>2, <1>1, Frame DEF ConnectNative
<1>2. CASE PortDisconnected
  <2>1. PortTypeOK'
    BY <1>2 DEF PortDisconnected, PortTypeOK
  <2>2. QED BY <2>1, <1>2, Frame DEF PortDisconnected
<1>3. CASE WorkerStops
  <2>1. PortTypeOK'
    BY <1>3 DEF WorkerStops, PortTypeOK
  <2>2. QED BY <2>1, <1>3, Frame DEF WorkerStops
<1>4. CASE StartHandler
  <2>1. Head(browser_rx) \in Requests /\ browser_rx' \in Seq(Requests)
    BY <1>4 DEF StartHandler, BrokerTypeOK
  <2>2. nativePort \in Ports
    BY <1>4 DEF StartHandler, PortTypeOK, Ports
  <2>3. handlers' \subseteq Handlers
    BY <1>4, <2>1, <2>2, RequestFields DEF StartHandler, PortTypeOK, Handlers
  <2>4. BrokerTypeOK'
    BY <1>4, <2>1 DEF StartHandler, BrokerTypeOK
  <2>5. PortTypeOK'
    BY <1>4, <2>3 DEF StartHandler, PortTypeOK
  <2>6. QED BY <2>4, <2>5, <1>4, Frame DEF StartHandler
<1>5. ASSUME NEW h \in handlers, Execute(h) PROVE TypeOK'
  <2>1. handlers' \subseteq Handlers
    BY <1>5 DEF Execute, PortTypeOK, Handlers
  <2>2. PortTypeOK'
    BY <1>5, <2>1 DEF Execute, PortTypeOK, Handlers
  <2>3. QED BY <2>2, <1>5, Frame DEF Execute
<1>6. ASSUME NEW h \in handlers, NEW result \in {"ok", "error"}, Reply(h, result)
      PROVE TypeOK'
  <2>1. [id |-> h.id, of |-> h.call, result |-> result] \in Responses
    BY DEF PortTypeOK, Handlers, Responses
  <2>2. PortTypeOK'
    BY <1>6, <2>1 DEF Reply, PortTypeOK
  <2>3. QED BY <2>2, <1>6, Frame DEF Reply
<1>7. QED BY <1>1, <1>2, <1>3, <1>4, <1>5, <1>6 DEF PortNext

(* Every state variable keeps its type, whatever fails on the way.         *)
THEOREM Types == Spec => []TypeOK
<1>1. Init => TypeOK
  BY Bounds DEF Init, TypeOK, RelayTypeOK, SocketTypeOK, TaskTypeOK, BrokerTypeOK,
     PortTypeOK, Statuses
<1>2. TypeOK /\ [Next]_vars => TypeOK'
  BY RelayTypes, BrokerTypes, PortTypes, Frame DEF Next, vars, TypeOK
<1>3. QED BY <1>1, <1>2, PTL DEF Spec

-----------------------------------------------------------------------------
(* The routing invariant.  What a step leaves alone, and what only shrinks *)
(* or stays, keeps each of its conjuncts.                                  *)
LEMMA RoutingFrame ==
    /\ Fresh /\ UNCHANGED <<connection, next_client_id, toBroker, toRelay, responses,
                            pending, routed>> => Fresh'
    /\ Owned /\ UNCHANGED <<connection, owner, toBroker>> => Owned'
    /\ DownIsEmpty /\ UNCHANGED <<broker, pending, browser_rx, routed, sending, task,
                                  nativePort, fromExtension, handlers, ports>>
          => DownIsEmpty'
    /\ RequestsCorrelated /\ UNCHANGED <<sending, browser_rx, handlers, nativePort,
                                  fromExtension, pending, owner, next_broker_id>>
          => RequestsCorrelated'
    /\ OwnResponse /\ UNCHANGED <<responses, toRelay, routed, owner>> => OwnResponse'
<1>1. Fresh /\ UNCHANGED <<connection, next_client_id, toBroker, toRelay, responses,
                          pending, routed>> => Fresh'
  BY DEF Fresh
<1>2. Owned /\ UNCHANGED <<connection, owner, toBroker>> => Owned'
  BY DEF Owned
<1>3. DownIsEmpty /\ UNCHANGED <<broker, pending, browser_rx, routed, sending, task,
                                nativePort, fromExtension, handlers, ports>>
        => DownIsEmpty'
  BY DEF DownIsEmpty, Serving
<1>4. RequestsCorrelated /\ UNCHANGED <<sending, browser_rx, handlers, nativePort,
                                fromExtension, pending, owner, next_broker_id>>
        => RequestsCorrelated'
  BY DEF RequestsCorrelated, SendingCorrelated, QueueCorrelated, HandlersCorrelated,
         RepliesCorrelated, Correlated, Matches
<1>5. OwnResponse /\ UNCHANGED <<responses, toRelay, routed, owner>> => OwnResponse'
  BY DEF OwnResponse, Answers
<1>6. QED BY <1>1, <1>2, <1>3, <1>4, <1>5

(* What keeps every correlation keeps those of the requests that stay.     *)
LEMMA CorrelationsKept ==
    ASSUME TypeOK, RequestsCorrelated,
           \A b \in Nat : \A call : Correlated(b, call) => Correlated(b, call)'
    PROVE  /\ \A c \in Conns : sending[c] # Nil /\ sending'[c] = sending[c]
                => Correlated(sending[c].id, sending[c].call)'
           /\ browser_rx' = browser_rx => QueueCorrelated'
           /\ handlers' \subseteq handlers /\ nativePort' = nativePort
                => HandlersCorrelated'
           /\ fromExtension' = fromExtension => RepliesCorrelated'
<1>. USE DEF RequestsCorrelated
<1>1. ASSUME NEW c \in Conns, sending[c] # Nil, sending'[c] = sending[c]
      PROVE  Correlated(sending[c].id, sending[c].call)'
  <2>. PICK b, call : b = sending[c].id /\ call = sending[c].call
    OBVIOUS
  <2>1. b \in Nat /\ Correlated(b, call)
    BY <1>1, RequestFields DEF SendingCorrelated, TypeOK, TaskTypeOK
  <2>2. Correlated(b, call)'
    BY <2>1
  <2>3. b = sending'[c].id /\ call = sending'[c].call
    BY <1>1
  <2>4. QED BY <2>2, <2>3 DEF Correlated, Matches
<1>2. ASSUME browser_rx' = browser_rx PROVE QueueCorrelated'
  <2>. SUFFICES ASSUME NEW k \in 1..Len(browser_rx)
                PROVE  Correlated(browser_rx[k].id, browser_rx[k].call)'
    BY <1>2 DEF QueueCorrelated
  <2>. PICK b, call : b = browser_rx[k].id /\ call = browser_rx[k].call
    OBVIOUS
  <2>1. browser_rx[k] \in Requests
    BY ElementOfSeq DEF TypeOK, BrokerTypeOK
  <2>2. b \in Nat /\ Correlated(b, call)
    BY <2>1, RequestFields DEF QueueCorrelated
  <2>3. QED BY <1>2, <2>2 DEF Correlated, Matches
<1>3. ASSUME handlers' \subseteq handlers, nativePort' = nativePort
      PROVE  HandlersCorrelated'
  <2>. SUFFICES ASSUME NEW h \in handlers, h.port = nativePort
                PROVE  Correlated(h.id, h.call)'
    BY <1>3 DEF HandlersCorrelated
  <2>1. h.id \in Nat /\ Correlated(h.id, h.call)
    BY DEF HandlersCorrelated, TypeOK, PortTypeOK, Handlers
  <2>2. QED BY <2>1
<1>4. ASSUME fromExtension' = fromExtension PROVE RepliesCorrelated'
  <2>. SUFFICES ASSUME NEW k \in 1..Len(fromExtension)
                PROVE  Correlated(fromExtension[k].id, fromExtension[k].of)'
    BY <1>4 DEF RepliesCorrelated
  <2>. PICK b, call : b = fromExtension[k].id /\ call = fromExtension[k].of
    OBVIOUS
  <2>1. fromExtension[k] \in Responses
    BY ElementOfSeq DEF TypeOK, PortTypeOK
  <2>2. b \in Nat /\ Correlated(b, call)
    BY <2>1 DEF RepliesCorrelated, Responses
  <2>3. QED BY <1>4, <2>2 DEF Correlated, Matches
<1>5. QED BY <1>1, <1>2, <1>3, <1>4

(* Taking entries from pending keeps every correlation.                    *)
LEMMA PendingShrinks ==
    ASSUME pending' \subseteq pending, UNCHANGED <<owner, next_broker_id>>
    PROVE  \A b \in Nat : \A call : Correlated(b, call) => Correlated(b, call)'
  BY DEF Correlated, Matches

(* Every step of a relay keeps the routing invariant: a relay only writes  *)
(* calls of its own, to the connection it made.                            *)
LEMMA RelayRouting == RoutingInv /\ RelayNext => RoutingInv'
<1>. SUFFICES ASSUME RoutingInv, RelayNext PROVE RoutingInv'
  OBVIOUS
<1>. USE DEF RoutingInv, relayVars, socketVars, taskVars, brokerVars, portVars
<1>0. TypeOK'
  BY RelayTypes
<1>a. ASSUME NEW r \in Relays, Drop(r),
             UNCHANGED <<next_client_id, owner, toBroker, taskVars, brokerVars, portVars>>
      PROVE  RoutingInv'
  <2>1. Fresh'
    BY <1>a, Bounds DEF Fresh, Drop, TypeOK, RelayTypeOK, SocketTypeOK, Conns
  <2>2. Owned'
    BY <1>a DEF Owned, Drop, TypeOK, RelayTypeOK
  <2>3. OwnResponse'
    BY <1>a DEF OwnResponse, Answers, Drop, TypeOK, SocketTypeOK
  <2>4. QED BY <1>0, <2>1, <2>2, <2>3, <1>a, RoutingFrame
<1>1. ASSUME NEW r \in Relays, Call(r) PROVE RoutingInv'
  BY <1>0, <1>1, RoutingFrame DEF Call
<1>2. ASSUME NEW r \in Relays, Exit(r) PROVE RoutingInv'
  BY <1>2, <1>a DEF Exit, EndProcess
<1>b. ASSUME NEW call \in Calls, KilledWriting(call) PROVE RoutingInv'
  <2>. DEFINE c == connection[call.relay]
  <2>1. call.relay \in Relays /\ Garbage \in Lines
    BY CallFields, LineFields
  <2>2. \A d \in Conns : d >= next_client_id => d # c
    BY <2>1 DEF Fresh, TypeOK, RelayTypeOK, SocketTypeOK, Conns
  <2>a. /\ connection' = [connection EXCEPT ![call.relay] = 0]
        /\ c # 0 => toRelay' = [toRelay EXCEPT ![c] = <<>>]
        /\ c = 0 => toRelay' = toRelay
        /\ toBroker' = [toBroker EXCEPT ![c] = Append(@, Garbage)]
        /\ UNCHANGED <<next_client_id, owner, taskVars, brokerVars, portVars>>
    BY <1>b DEF KilledWriting, EndProcess, Drop
  <2>b. /\ toBroker \in [Conns -> Seq(Lines)]
        /\ toRelay \in [Conns -> Seq(Responses \cup {Connected})]
        /\ connection \in [Relays -> 0..MaxConns]
        /\ next_client_id \in 1..(MaxConns + 1)
    BY DEF TypeOK, RelayTypeOK, SocketTypeOK
  <2>3. Fresh'
    <3>1. \A r \in Relays : connection'[r] < next_client_id'
      BY <2>a, <2>b, <2>1, Bounds DEF Fresh
    <3>2. \A d \in Conns : d >= next_client_id => toBroker'[d] = toBroker[d]
      BY <2>a, <2>b, <2>2
    <3>3. \A d \in Conns : toRelay[d] = <<>> => toRelay'[d] = <<>>
      BY <2>a, <2>b
    <3>4. QED BY <2>a, <3>1, <3>2, <3>3 DEF Fresh
  <2>4. Owned'
    <3>1. \A r \in Relays : connection'[r] # 0 => owner'[connection'[r]] = r
      BY <1>b, <2>1 DEF Owned, KilledWriting, EndProcess, Drop, TypeOK, RelayTypeOK
    <3>2. ASSUME NEW d \in Conns, NEW k \in 1..Len(toBroker'[d]),
                 toBroker'[d][k].kind = "request"
          PROVE  toBroker'[d][k].call.relay = owner'[d]
      <4>1. \/ \E l \in 1..Len(toBroker[d]) : toBroker'[d][k] = toBroker[d][l]
            \/ toBroker'[d][k] = Garbage
        <5>1. toBroker \in [Conns -> Seq(Lines)]
          BY DEF TypeOK, SocketTypeOK
        <5>2. toBroker' = [toBroker EXCEPT ![c] = Append(@, Garbage)]
          BY <1>b DEF KilledWriting
        <5>3. QED BY <2>1, <5>1, <5>2, FamilyElems
      <4>2. owner' = owner
        BY <1>b DEF KilledWriting, EndProcess
      <4>3. QED BY <3>2, <4>1, <4>2 DEF Owned, Garbage
    <3>3. QED BY <3>1, <3>2 DEF Owned
  <2>5. OwnResponse'
    <3>1. \A d \in Conns : toRelay'[d] = toRelay[d] \/ toRelay'[d] = <<>>
      BY <2>a, <2>b
    <3>2. \A d \in Conns : \A k \in 1..Len(toRelay'[d]) :
            toRelay'[d][k] # Connected => Answers(d, toRelay'[d][k])
      BY <3>1 DEF OwnResponse
    <3>3. QED BY <2>a, <3>2 DEF OwnResponse, Answers
  <2>6. QED BY <1>0, <1>b, <2>3, <2>4, <2>5, RoutingFrame DEF KilledWriting, EndProcess
<1>3. ASSUME NEW call \in Calls, Lock(call) PROVE RoutingInv'
  BY <1>0, <1>3, RoutingFrame DEF Lock
<1>4. ASSUME NEW call \in Calls, Connect(call) PROVE RoutingInv'
  <2>. DEFINE c == next_client_id
  <2>1. c \in Conns /\ call.relay \in Relays
    BY <1>4, CallFields DEF Connect
  <2>2. Fresh'
    <3>1. \A r \in Relays : connection'[r] < next_client_id'
      BY <1>4, <2>1 DEF Fresh, Connect, TypeOK, RelayTypeOK, SocketTypeOK, Conns
    <3>2. \A d \in Conns : d >= next_client_id' => d >= next_client_id /\ d # c
      BY <1>4, <2>1 DEF Connect, Conns
    <3>3. \A d \in Conns : d # c => toBroker'[d] = toBroker[d]
      BY <1>4 DEF Connect, TypeOK, SocketTypeOK
    <3>4. UNCHANGED <<toRelay, responses, pending, routed>>
      BY <1>4 DEF Connect
    <3>5. QED BY <3>1, <3>2, <3>3, <3>4 DEF Fresh
  <2>3. Owned'
    <3>1. ASSUME NEW r \in Relays PROVE connection[r] # c
      <4>1. connection[r] \in 0..MaxConns
        BY DEF TypeOK, RelayTypeOK
      <4>2. connection[r] < c
        BY DEF Fresh
      <4>3. QED BY <2>1, <4>1, <4>2, Bounds DEF Conns
    <3>2. \A r \in Relays : connection'[r] # 0 => owner'[connection'[r]] = r
      BY <1>4, <2>1, <3>1 DEF Owned, Connect, TypeOK, RelayTypeOK, SocketTypeOK
    <3>3. toBroker'[c] = <<Hello>>
      BY <1>4, <2>1 DEF Connect, TypeOK, SocketTypeOK
    <3>4. \A d \in Conns : d # c => toBroker'[d] = toBroker[d] /\ owner'[d] = owner[d]
      BY <1>4 DEF Connect, TypeOK, SocketTypeOK
    <3>5. \A k \in 1..Len(toBroker'[c]) : toBroker'[c][k].kind # "request"
      BY <3>3 DEF Hello
    <3>6. QED BY <3>2, <3>4, <3>5 DEF Owned
  <2>4. DownIsEmpty'
    BY <1>4 DEF DownIsEmpty, Connect
  <2>5. \A p \in pending : owner'[p.client_id] = owner[p.client_id]
    BY <1>4, <2>1 DEF Connect, Fresh, TypeOK, SocketTypeOK, BrokerTypeOK, Conns
  <2>6. RequestsCorrelated'
    BY <1>4, <2>5 DEF RequestsCorrelated, SendingCorrelated, QueueCorrelated,
       HandlersCorrelated, RepliesCorrelated, Correlated, Matches, Connect
  <2>7. OwnResponse'
    <3>1. UNCHANGED <<toRelay, responses, routed>>
      BY <1>4 DEF Connect
    <3>2. \A d \in Conns : d # c => owner'[d] = owner[d]
      BY <1>4 DEF Connect, TypeOK, SocketTypeOK
    <3>3. c >= next_client_id
      BY <2>1 DEF Conns
    <3>4. toRelay[c] = <<>> /\ responses[c] = <<>> /\ (routed # Nil => routed.client_id # c)
      BY <2>1, <3>3 DEF Fresh
    <3>5. routed # Nil => routed.client_id \in Conns
      BY DEF TypeOK, BrokerTypeOK, Routes
    <3>6. \A d \in Conns : \A k \in 1..Len(toRelay[d]) :
            toRelay[d][k] # Connected => d # c
      BY <3>4
    <3>7. \A d \in Conns : \A k \in 1..Len(responses[d]) : d # c
      BY <3>4
    <3>8. QED BY <3>1, <3>2, <3>4, <3>5, <3>6, <3>7 DEF OwnResponse, Answers
  <2>8. QED BY <1>0, <2>2, <2>3, <2>4, <2>6, <2>7
<1>5. ASSUME NEW call \in Calls, Authenticated(call) \/ Receive(call) PROVE RoutingInv'
  <2>. DEFINE c == connection[call.relay]
  <2>1. /\ toRelay[c] # <<>>
        /\ toRelay' = [toRelay EXCEPT ![c] = Tail(@)]
        /\ UNCHANGED <<connection, next_client_id, owner, relayOpen, toBroker, taskVars,
                       brokerVars, portVars>>
    BY <1>5 DEF Authenticated, Receive
  <2>2. \A d \in Conns : toRelay[d] = <<>> => toRelay'[d] = <<>>
    BY <2>1 DEF TypeOK, SocketTypeOK
  <2>3. Fresh'
    BY <2>1, <2>2 DEF Fresh
  <2>4. \A d \in Conns : \A k \in 1..Len(toRelay'[d]) :
          \E l \in 1..Len(toRelay[d]) : toRelay'[d][k] = toRelay[d][l]
    <3>1. toRelay \in [Conns -> Seq(Responses \cup {Connected})]
      BY DEF TypeOK, SocketTypeOK
    <3>2. QED BY <2>1, <3>1, FamilyElems
  <2>5. \A d \in Conns : \A k \in 1..Len(toRelay'[d]) :
          toRelay'[d][k] # Connected => Answers(d, toRelay'[d][k])
    BY <2>4 DEF OwnResponse
  <2>6. OwnResponse'
    BY <2>1, <2>5 DEF OwnResponse, Answers
  <2>7. QED BY <1>0, <2>1, <2>3, <2>6, RoutingFrame
<1>6. ASSUME NEW call \in Calls, Write(call) PROVE RoutingInv'
  <2>. DEFINE c == connection[call.relay]
  <2>1. call.relay \in Relays /\ RequestOf(call) \in Lines
    BY CallFields, LineFields
  <2>2. \A d \in Conns : d >= next_client_id => d # c
    BY <2>1 DEF Fresh, TypeOK, RelayTypeOK, SocketTypeOK, Conns
  <2>3. Fresh'
    BY <1>6, <2>2 DEF Fresh, Write, TypeOK, SocketTypeOK
  <2>4. Owned'
    <3>1. \A r \in Relays : connection'[r] # 0 => owner'[connection'[r]] = r
      BY <1>6 DEF Owned, Write
    <3>2. ASSUME NEW d \in Conns, NEW k \in 1..Len(toBroker'[d]),
                 toBroker'[d][k].kind = "request"
          PROVE  toBroker'[d][k].call.relay = owner'[d]
      <4>1. \/ \E l \in 1..Len(toBroker[d]) : toBroker'[d][k] = toBroker[d][l]
            \/ d = c /\ toBroker'[d][k] = RequestOf(call)
        <5>1. toBroker \in [Conns -> Seq(Lines)]
          BY DEF TypeOK, SocketTypeOK
        <5>2. toBroker' = [toBroker EXCEPT ![c] = Append(@, RequestOf(call))]
          BY <1>6 DEF Write
        <5>3. QED BY <2>1, <5>1, <5>2, FamilyElems
      <4>2. d = c => owner[d] = call.relay
        BY <2>1, Bounds DEF Owned, Conns
      <4>3. owner' = owner
        BY <1>6 DEF Write
      <4>4. QED BY <3>2, <4>1, <4>2, <4>3 DEF Owned, RequestOf
    <3>3. QED BY <3>1, <3>2 DEF Owned
  <2>5. QED BY <1>0, <1>6, <2>3, <2>4, RoutingFrame DEF Write
<1>7. ASSUME NEW call \in Calls,
             \/ ConnectTimeout(call) \/ AuthenticateFails(call) \/ WriteFails(call)
             \/ Disconnected(call) \/ RequestTimeout(call)
      PROVE RoutingInv'
  BY <1>7, <1>a, CallFields
  DEF ConnectTimeout, AuthenticateFails, WriteFails, Disconnected, RequestTimeout
<1>8. QED
  BY <1>1, <1>2, <1>b, <1>3, <1>4, <1>5, <1>6, <1>7
  DEF RelayNext, CallStep, LimitedStep

(* A client's task that leaves, or its entries that go, keep it.           *)
LEMMA LeaveRouting == \A c \in Conns : RoutingInv /\ Leave(c) => RoutingInv'
<1>. SUFFICES ASSUME NEW c \in Conns, RoutingInv, Leave(c) PROVE RoutingInv'
  OBVIOUS
<1>. USE DEF RoutingInv, Leave, relayVars, brokerVars, portVars
<1>0. TypeOK'
  BY LeaveTypes
<1>1. Fresh'
  BY DEF Fresh, TypeOK, SocketTypeOK, TaskTypeOK
<1>2. Owned'
  BY DEF Owned, TypeOK, SocketTypeOK
<1>3. DownIsEmpty'
  BY DEF DownIsEmpty, Serving, TypeOK, TaskTypeOK
<1>4. RequestsCorrelated'
  BY DEF RequestsCorrelated, SendingCorrelated, QueueCorrelated, HandlersCorrelated,
     RepliesCorrelated, Correlated, Matches, TypeOK, TaskTypeOK
<1>5. OwnResponse'
  <2>1. \A d \in Conns : \A k \in 1..Len(responses'[d]) :
          \E l \in 1..Len(responses[d]) : responses'[d][k] = responses[d][l]
    BY FamilyElems DEF TypeOK, TaskTypeOK
  <2>2. \A d \in Conns : \A k \in 1..Len(responses'[d]) : Answers(d, responses'[d][k])
    BY <2>1 DEF OwnResponse
  <2>3. QED BY <2>2 DEF OwnResponse, Answers
<1>6. QED BY <1>0, <1>1, <1>2, <1>3, <1>4, <1>5

(* Reading a request gives it a fresh broker id: no other request carries  *)
(* it, and its entry names the session that owns the connection.           *)
LEMMA ReadRequestRouting == \A c \in Conns : RoutingInv /\ ReadRequest(c) => RoutingInv'
<1>. SUFFICES ASSUME NEW c \in Conns, RoutingInv, ReadRequest(c) PROVE RoutingInv'
  OBVIOUS
<1>. USE DEF RoutingInv
<1>. PICK call : call = Head(toBroker[c]).call
  OBVIOUS
<1>. PICK b : b = next_broker_id
  OBVIOUS
<1>1. /\ toBroker[c] \in Seq(Lines) /\ toBroker[c] # <<>>
      /\ toBroker' = [toBroker EXCEPT ![c] = Tail(@)]
      /\ pending' = {p \in pending : p.broker_id # b}
                      \cup {[broker_id |-> b, client_id |-> c, original_id |-> call.id]}
      /\ sending' = [sending EXCEPT ![c] = [id |-> b, call |-> call]]
      /\ next_broker_id' = b + 1
      /\ task[c] = "select"
      /\ task' = [task EXCEPT ![c] = "enqueue"]
      /\ UNCHANGED <<connection, next_client_id, owner, toRelay, responses, broker,
                     browser_rx, routed, ports, nativePort, fromExtension, handlers>>
  BY DEF ReadRequest, TypeOK, SocketTypeOK, relayVars, portVars
<1>2. TypeOK'
  BY TaskTypes DEF TaskStep
<1>3. call \in Calls /\ call.relay = owner[c] /\ b \in Nat
  <2>1. Head(toBroker[c]) = toBroker[c][1] /\ 1 \in 1..Len(toBroker[c])
    BY <1>1, LenProperties
  <2>2. Head(toBroker[c]).kind = "request" /\ Head(toBroker[c]) \in Lines
    BY <1>1, HeadTailProperties DEF ReadRequest
  <2>3. QED BY <2>1, <2>2, LineFields DEF Owned, TypeOK, BrokerTypeOK
<1>4. c < next_client_id
  BY <1>1, Bounds DEF Fresh, TypeOK, SocketTypeOK, Conns
<1>5. Fresh'
  <2>1. \A d \in Conns : d >= next_client_id => d # c /\ toBroker'[d] = toBroker[d]
    BY <1>1, <1>4, Bounds DEF TypeOK, SocketTypeOK, Conns
  <2>2. \A d \in Conns : d >= next_client_id => \A p \in pending' : p.client_id # d
    BY <1>1, <2>1 DEF Fresh
  <2>3. QED BY <1>1, <2>1, <2>2 DEF Fresh
<1>6. Owned'
  <2>1. \A d \in Conns : \A k \in 1..Len(toBroker'[d]) :
          \E l \in 1..Len(toBroker[d]) : toBroker'[d][k] = toBroker[d][l]
    BY <1>1, FamilyElems DEF TypeOK, SocketTypeOK
  <2>4. \A d \in Conns : \A k \in 1..Len(toBroker'[d]) :
          toBroker'[d][k].kind = "request" => toBroker'[d][k].call.relay = owner[d]
    BY <2>1 DEF Owned
  <2>5. QED BY <1>1, <2>4 DEF Owned
<1>7. DownIsEmpty'
  BY <1>1 DEF DownIsEmpty, Serving
<1>8. RequestsCorrelated'
  <2>1. \A i \in Nat : \A k : Correlated(i, k) => Correlated(i, k)'
    <3>. SUFFICES ASSUME NEW i \in Nat, NEW k, Correlated(i, k) PROVE Correlated(i, k)'
      OBVIOUS
    <3>1. i < next_broker_id' /\ i # b
      BY <1>1, <1>3 DEF Correlated
    <3>2. Matches(i, k)'
      BY <1>1, <3>1 DEF Correlated, Matches
    <3>3. QED BY <3>1, <3>2 DEF Correlated
  <2>2. Correlated(b, call)'
    <3>1. b < next_broker_id'
      BY <1>1, <1>3
    <3>2. call = [relay |-> owner[c], id |-> call.id]
      BY <1>3 DEF Calls
    <3>3. Matches(b, call)'
      BY <1>1, <3>2 DEF Matches
    <3>4. QED BY <3>1, <3>3 DEF Correlated
  <2>3. (\A d \in Conns : sending[d] # Nil =>
            Correlated(sending[d].id, sending[d].call))'
    <3>. SUFFICES ASSUME NEW d \in Conns, sending'[d] # Nil
                  PROVE  Correlated(sending[d].id, sending[d].call)'
      OBVIOUS
    <3>1. CASE d = c
      <4>1. sending'[d].id = b /\ sending'[d].call = call
        BY <1>1, <3>1 DEF TypeOK, TaskTypeOK
      <4>2. QED BY <4>1, <2>2 DEF Correlated, Matches
    <3>2. CASE d # c
      <4>1. sending'[d] = sending[d]
        BY <1>1, <3>2 DEF TypeOK, TaskTypeOK
      <4>2. QED BY <4>1, <2>1, CorrelationsKept
    <3>3. QED BY <3>1, <3>2
  <2>4. QED
    BY <1>1, <2>1, <2>3, CorrelationsKept DEF RequestsCorrelated, SendingCorrelated
<1>9. OwnResponse'
  BY <1>1 DEF OwnResponse, Answers
<1>10. QED BY <1>2, <1>5, <1>6, <1>7, <1>8, <1>9

(* Every other step of a client's task keeps the routing invariant.        *)
LEMMA TaskRouting == \A c \in Conns : RoutingInv /\ TaskStep(c) => RoutingInv'
<1>. SUFFICES ASSUME NEW c \in Conns, RoutingInv, TaskStep(c) PROVE RoutingInv'
  OBVIOUS
<1>. USE DEF RoutingInv, relayVars, socketVars, taskVars, brokerVars, portVars
<1>0. TypeOK'
  BY TaskTypes
<1>1. CASE Handshake(c)
  <2>1. toBroker \in [Conns -> Seq(Lines)]
        /\ toRelay \in [Conns -> Seq(Responses \cup {Connected})]
    BY DEF TypeOK, SocketTypeOK
  <2>2. \A d \in Conns : d >= next_client_id => d # c
    BY <1>1 DEF Fresh, Handshake
  <2>3. Fresh'
    BY <1>1, <2>1, <2>2 DEF Fresh, Handshake
  <2>4. \A d \in Conns : \A k \in 1..Len(toBroker'[d]) :
          \E l \in 1..Len(toBroker[d]) : toBroker'[d][k] = toBroker[d][l]
    BY <1>1, <2>1, FamilyElems DEF Handshake
  <2>5. \A d \in Conns : \A k \in 1..Len(toBroker'[d]) :
          toBroker'[d][k].kind = "request" => toBroker'[d][k].call.relay = owner[d]
    BY <2>4 DEF Owned
  <2>6. Owned'
    BY <1>1, <2>5 DEF Owned, Handshake
  <2>7. \A d \in Conns : \A k \in 1..Len(toRelay'[d]) :
          \/ \E l \in 1..Len(toRelay[d]) : toRelay'[d][k] = toRelay[d][l]
          \/ toRelay'[d][k] = Connected
    BY <1>1, <2>1, FamilyElems DEF Handshake
  <2>8. \A d \in Conns : \A k \in 1..Len(toRelay'[d]) :
          toRelay'[d][k] # Connected => Answers(d, toRelay'[d][k])
    BY <2>7 DEF OwnResponse
  <2>9. OwnResponse'
    BY <1>1, <2>8 DEF OwnResponse, Answers, Handshake
  <2>10. DownIsEmpty'
    BY <1>1 DEF DownIsEmpty, Serving, Handshake, TypeOK, TaskTypeOK
  <2>11. QED BY <1>0, <1>1, <2>3, <2>6, <2>9, <2>10, RoutingFrame DEF Handshake
<1>2. CASE ReadPart(c)
  BY <1>0, <1>2, RoutingFrame DEF ReadPart
<1>3. CASE ReadRequest(c)
  BY <1>3, ReadRequestRouting
<1>4. CASE HandshakeFails(c) \/ ReadInvalid(c) \/ ReadEof(c) \/ WriteResponseFails(c)
  BY <1>4, LeaveRouting DEF HandshakeFails, ReadInvalid, ReadEof, WriteResponseFails
<1>5. CASE Enqueue(c)
  <2>1. /\ sending[c] \in Requests
        /\ browser_rx' = Append(browser_rx, sending[c]) /\ browser_rx \in Seq(Requests)
        /\ sending' = [sending EXCEPT ![c] = Nil]
        /\ UNCHANGED <<owner, pending, next_broker_id, handlers, nativePort,
                       fromExtension, broker>>
    BY <1>5 DEF Enqueue, TypeOK, TaskTypeOK, BrokerTypeOK
  <2>2. \A b \in Nat : \A call : Correlated(b, call) => Correlated(b, call)'
    BY <2>1, PendingShrinks
  <2>3. SendingCorrelated'
    <3>1. \A d \in Conns : sending'[d] # Nil => sending'[d] = sending[d]
      BY <2>1 DEF TypeOK, TaskTypeOK
    <3>2. QED BY <2>2, <3>1, CorrelationsKept DEF SendingCorrelated
  <2>4. QueueCorrelated'
    <3>1. sending[c] # Nil /\ Correlated(sending[c].id, sending[c].call)
      BY <2>1, RequestFields DEF RequestsCorrelated, SendingCorrelated
    <3>2. ASSUME NEW k \in 1..Len(browser_rx')
          PROVE  Correlated(browser_rx'[k].id, browser_rx'[k].call)
      <4>1. browser_rx'[k] = sending[c]
              \/ \E l \in 1..Len(browser_rx) : browser_rx'[k] = browser_rx[l]
        BY <2>1, SeqElems
      <4>2. QED BY <3>1, <4>1 DEF RequestsCorrelated, QueueCorrelated
    <3>3. QED BY <2>1, <3>2 DEF QueueCorrelated, Correlated, Matches
  <2>5. RequestsCorrelated'
    BY <2>1, <2>2, <2>3, <2>4, CorrelationsKept DEF RequestsCorrelated
  <2>6. DownIsEmpty'
    BY <1>5 DEF DownIsEmpty, Serving, Enqueue, TypeOK, TaskTypeOK
  <2>7. QED BY <1>0, <1>5, <2>5, <2>6, RoutingFrame DEF Enqueue
<1>6. CASE WriteResponse(c)
  <2>1. /\ responses[c] \in Seq(Responses) /\ responses[c] # <<>>
        /\ toBroker \in [Conns -> Seq(Lines)]
        /\ responses \in [Conns -> Seq(Responses)]
        /\ toRelay \in [Conns -> Seq(Responses \cup {Connected})]
        /\ toRelay' = [toRelay EXCEPT ![c] = Append(@, Head(responses[c]))]
        /\ responses' = [responses EXCEPT ![c] = Tail(@)]
        /\ toBroker' \in {toBroker, [toBroker EXCEPT ![c][1] = Garbage]}
        /\ UNCHANGED <<connection, next_client_id, owner, routed, pending>>
    BY <1>6 DEF WriteResponse, TypeOK, SocketTypeOK, TaskTypeOK
  <2>2. Head(responses[c]) = responses[c][1] /\ 1 \in 1..Len(responses[c])
        /\ Head(responses[c]) \in Responses
    BY <2>1, LenProperties, HeadTailProperties
  <2>3. \A d \in Conns : d >= next_client_id => d # c
    BY <2>1 DEF Fresh
  <2>4. Fresh'
    BY <2>1, <2>3 DEF Fresh
  <2>5. \A d \in Conns : \A k \in 1..Len(toBroker'[d]) :
          k \in 1..Len(toBroker[d])
            /\ (toBroker'[d][k] = toBroker[d][k] \/ toBroker'[d][k] = Garbage)
    <3>. SUFFICES ASSUME NEW d \in Conns, NEW k \in 1..Len(toBroker'[d]),
                         toBroker' = [toBroker EXCEPT ![c][1] = Garbage], d = c
                  PROVE  k \in 1..Len(toBroker[d])
                    /\ (toBroker'[d][k] = toBroker[d][k] \/ toBroker'[d][k] = Garbage)
      BY <2>1
    <3>1. toBroker'[d] = [toBroker[d] EXCEPT ![1] = Garbage]
      BY <2>1
    <3>2. toBroker[d] \in Seq(Lines)
      BY <2>1
    <3>3. QED BY <3>1, <3>2, LenProperties, ExceptSeq, LineFields
  <2>a. \A d \in Conns : \A k \in 1..Len(toBroker'[d]) :
          toBroker'[d][k].kind = "request" => toBroker'[d][k].call.relay = owner[d]
    BY <2>5 DEF Owned, Garbage
  <2>6. Owned'
    BY <2>1, <2>a DEF Owned
  <2>7. \A d \in Conns : \A k \in 1..Len(toRelay'[d]) :
          \/ \E l \in 1..Len(toRelay[d]) : toRelay'[d][k] = toRelay[d][l]
          \/ d = c /\ toRelay'[d][k] = responses[c][1]
    <3>. PICK e \in Responses \cup {Connected} : e = Head(responses[c])
      BY <2>2
    <3>1. toRelay' = [toRelay EXCEPT ![c] = Append(@, e)]
      BY <2>1
    <3>2. toRelay \in [Conns -> Seq(Responses \cup {Connected})]
      BY <2>1
    <3>3. \A d \in Conns : \A k \in 1..Len(toRelay'[d]) :
            \/ \E l \in 1..Len(toRelay[d]) : toRelay'[d][k] = toRelay[d][l]
            \/ d = c /\ toRelay'[d][k] = e
      BY <3>1, <3>2, FamilyElems
    <3>4. QED BY <2>2, <3>3
  <2>8. \A d \in Conns : \A k \in 1..Len(responses'[d]) :
          \E l \in 1..Len(responses[d]) : responses'[d][k] = responses[d][l]
    <3>1. /\ responses \in [Conns -> Seq(Responses)] /\ responses[c] # <<>>
          /\ responses' = [responses EXCEPT ![c] = Tail(@)]
      BY <2>1
    <3>2. QED BY <3>1, FamilyElems
  <2>9. /\ \A d \in Conns : \A k \in 1..Len(toRelay'[d]) :
             toRelay'[d][k] # Connected => Answers(d, toRelay'[d][k])
        /\ \A d \in Conns : \A k \in 1..Len(responses'[d]) : Answers(d, responses'[d][k])
    <3>1. \A d \in Conns : \A k \in 1..Len(toRelay'[d]) :
             toRelay'[d][k] # Connected => Answers(d, toRelay'[d][k])
      BY <2>2, <2>7 DEF OwnResponse
    <3>2. \A d \in Conns : \A k \in 1..Len(responses'[d]) : Answers(d, responses'[d][k])
      BY <2>8 DEF OwnResponse
    <3>3. QED BY <3>1, <3>2
  <2>10. OwnResponse'
    BY <2>1, <2>9 DEF OwnResponse, Answers
  <2>11. QED BY <1>0, <1>6, <2>4, <2>6, <2>10, RoutingFrame DEF WriteResponse
<1>7. CASE Cleanup(c)
  <2>1. /\ pending' \subseteq pending
        /\ task' = [task EXCEPT ![c] = "gone"]
        /\ UNCHANGED <<relayVars, socketVars, partial, sending, responses, broker,
                   next_broker_id, browser_rx, routed, portVars>>
    BY <1>7 DEF Cleanup
  <2>2. Fresh'
    BY <2>1 DEF Fresh
  <2>3. DownIsEmpty'
    BY <2>1 DEF DownIsEmpty, Serving, TypeOK, TaskTypeOK
  <2>4. \A b \in Nat : \A call : Correlated(b, call) => Correlated(b, call)'
    BY <2>1, PendingShrinks
  <2>5. RequestsCorrelated'
    BY <2>1, <2>4, CorrelationsKept DEF RequestsCorrelated, SendingCorrelated
  <2>6. QED BY <1>0, <2>1, <2>2, <2>3, <2>5, RoutingFrame
<1>8. QED
  BY <1>1, <1>2, <1>3, <1>4, <1>5, <1>6, <1>7 DEF TaskStep

(* The router gives a response to the client its entry names.              *)
LEMMA BrokerRouting == RoutingInv /\ BrokerNext => RoutingInv'
<1>. SUFFICES ASSUME RoutingInv, BrokerNext PROVE RoutingInv'
  OBVIOUS
<1>. USE DEF RoutingInv, relayVars, socketVars, taskVars, brokerVars, portVars
<1>0. TypeOK'
  BY BrokerTypes
<1>1. CASE Route
  <2>. DEFINE message == Head(fromExtension)
              entries == {p \in pending : p.broker_id = message.id}
  <2>1. /\ fromExtension \in Seq(Responses) /\ fromExtension # <<>>
        /\ fromExtension' = Tail(fromExtension)
        /\ pending' = pending \ entries
        /\ broker = "up"
        /\ UNCHANGED <<connection, next_client_id, owner, toBroker, toRelay, responses,
                       sending, task, broker, next_broker_id, browser_rx, ports,
                       nativePort, handlers>>
    BY <1>1 DEF Route, TypeOK, PortTypeOK
  <2>2. message \in Responses /\ Correlated(message.id, message.of)
    <3>1. message = fromExtension[1] /\ 1 \in 1..Len(fromExtension)
      BY <2>1, LenProperties
    <3>2. Correlated(fromExtension[1].id, fromExtension[1].of)
      BY <3>1 DEF RequestsCorrelated, RepliesCorrelated
    <3>3. QED BY <2>1, <3>1, <3>2, HeadTailProperties
  <2>3. ASSUME routed' # Nil
        PROVE  \E p \in pending : routed'.client_id = p.client_id
                 /\ Answers(routed'.client_id, routed'.response)
    <3>1. PICK p \in entries : routed' =
            [client_id |-> p.client_id,
             response |-> [message EXCEPT !.id = p.original_id]]
      BY <1>1, <2>3 DEF Route
    <3>2. message.of = [relay |-> owner[p.client_id], id |-> p.original_id]
      BY <2>2 DEF Correlated, Matches
    <3>3. routed'.client_id = p.client_id /\ routed'.response.of = message.of
            /\ routed'.response.id = p.original_id
      BY <3>1, <2>2 DEF Responses
    <3>4. QED BY <3>2, <3>3 DEF Answers
  <2>4. Fresh'
    BY <2>1, <2>3 DEF Fresh
  <2>5. DownIsEmpty'
    BY <2>1 DEF DownIsEmpty
  <2>6. \A b \in Nat : \A call : Correlated(b, call) => Correlated(b, call)'
    BY <2>1, PendingShrinks
  <2>7. RepliesCorrelated'
    <3>1. ASSUME NEW k \in 1..Len(fromExtension')
          PROVE  Correlated(fromExtension[k].id, fromExtension[k].of)'
      <4>1. k + 1 \in 1..Len(fromExtension) /\ fromExtension'[k] = fromExtension[k + 1]
        BY <2>1, SeqElems
      <4>. PICK b, call : b = fromExtension[k + 1].id /\ call = fromExtension[k + 1].of
        OBVIOUS
      <4>a. fromExtension[k + 1] \in Responses
        BY <2>1, <4>1, ElementOfSeq
      <4>2. b \in Nat /\ Correlated(b, call)
        BY <4>1, <4>a DEF RequestsCorrelated, RepliesCorrelated, Responses
      <4>3. Correlated(b, call)'
        BY <2>6, <4>2
      <4>4. b = fromExtension'[k].id /\ call = fromExtension'[k].of
        BY <4>1
      <4>5. QED BY <4>3, <4>4 DEF Correlated, Matches
    <3>2. QED BY <3>1 DEF RepliesCorrelated
  <2>8. RequestsCorrelated'
    BY <2>1, <2>6, <2>7, CorrelationsKept DEF RequestsCorrelated, SendingCorrelated
  <2>9. OwnResponse'
    BY <2>1, <2>3 DEF OwnResponse, Answers
  <2>10. QED BY <1>0, <2>1, <2>4, <2>5, <2>8, <2>9, RoutingFrame
<1>2. CASE Deliver
  <2>. DEFINE c == routed.client_id
  <2>1. /\ c \in Conns /\ routed # Nil /\ routed.response \in Responses
        /\ responses \in [Conns -> Seq(Responses)]
        /\ responses' = [responses EXCEPT ![c] = Append(@, routed.response)]
        /\ routed' = Nil
        /\ UNCHANGED <<relayVars, socketVars, task, partial, sending, broker,
                       next_broker_id, pending, browser_rx, portVars>>
    BY <1>2 DEF Deliver, TypeOK, TaskTypeOK, BrokerTypeOK, Routes
  <2>2. Fresh'
    BY <2>1 DEF Fresh
  <2>3. DownIsEmpty'
    BY <2>1 DEF DownIsEmpty, Serving
  <2>4. \A d \in Conns : \A k \in 1..Len(responses'[d]) :
          \/ \E l \in 1..Len(responses[d]) : responses'[d][k] = responses[d][l]
          \/ d = c /\ responses'[d][k] = routed.response
    BY <2>1, FamilyElems
  <2>5. \A d \in Conns : \A k \in 1..Len(responses'[d]) : Answers(d, responses'[d][k])
    BY <2>1, <2>4 DEF OwnResponse
  <2>6. OwnResponse'
    BY <2>1, <2>5 DEF OwnResponse, Answers
  <2>7. QED BY <1>0, <2>1, <2>2, <2>3, <2>6, RoutingFrame
<1>3. CASE Discard
  <2>1. Fresh'
    BY <1>3 DEF Discard, Fresh
  <2>2. DownIsEmpty'
    BY <1>3 DEF Discard, DownIsEmpty, Serving
  <2>3. OwnResponse'
    BY <1>3 DEF Discard, OwnResponse, Answers
  <2>4. QED BY <1>0, <1>3, <2>1, <2>2, <2>3, RoutingFrame DEF Discard
<1>4. CASE BrokerExit
  <2>1. /\ pending' = {} /\ browser_rx' = <<>> /\ routed' = Nil
        /\ \A c \in Conns : toBroker'[c] = <<>> /\ sending'[c] = Nil
              /\ responses'[c] = <<>> /\ task'[c] \in {"free", "gone"}
        /\ UNCHANGED <<relayVars, next_client_id, owner, relayOpen, toRelay,
                       next_broker_id, portVars>>
    BY <1>4 DEF BrokerExit
  <2>2. Fresh'
    BY <2>1 DEF Fresh
  <2>3. Owned'
    BY <2>1 DEF Owned
  <2>4. DownIsEmpty'
    BY <2>1 DEF DownIsEmpty, Serving
  <2>5. \A b \in Nat : \A call : Correlated(b, call) => Correlated(b, call)'
    BY <2>1, PendingShrinks
  <2>6. RequestsCorrelated'
    BY <2>1, <2>5, CorrelationsKept
    DEF RequestsCorrelated, SendingCorrelated, QueueCorrelated
  <2>7. OwnResponse'
    BY <2>1 DEF OwnResponse, Answers
  <2>8. QED BY <1>0, <2>2, <2>3, <2>4, <2>6, <2>7
<1>5. QED BY <1>1, <1>2, <1>3, <1>4, TaskRouting DEF BrokerNext

(* A handler answers on the port its request came from: a response of an   *)
(* older port never meets the ids of a newer broker.                       *)
LEMMA PortRouting == RoutingInv /\ PortNext => RoutingInv'
<1>. SUFFICES ASSUME RoutingInv, PortNext PROVE RoutingInv'
  OBVIOUS
<1>. USE DEF RoutingInv, relayVars, socketVars, taskVars, brokerVars, portVars
<1>0. TypeOK'
  BY PortTypes
<1>1. CASE ConnectNative
  <2>1. /\ pending = {} /\ pending' = {} /\ browser_rx' = <<>> /\ fromExtension' = <<>>
        /\ \A c \in Conns : sending'[c] = Nil
        /\ nativePort' = ports + 1 /\ ports' = ports + 1 /\ handlers' = handlers
        /\ ports \in Nat /\ broker' = "up" /\ nativePort' <= ports'
    BY <1>1, Bounds DEF ConnectNative, DownIsEmpty, TypeOK, PortTypeOK
  <2>2. \A h \in handlers : h.port \in Nat /\ h.port <= ports
    BY Bounds DEF DownIsEmpty, TypeOK, PortTypeOK, Handlers, Ports
  <2>3. DownIsEmpty'
    BY <2>1, <2>2 DEF DownIsEmpty
  <2>4. RequestsCorrelated'
    BY <2>1, <2>2 DEF RequestsCorrelated, SendingCorrelated, QueueCorrelated,
       HandlersCorrelated, RepliesCorrelated
  <2>5. QED BY <1>0, <1>1, <2>3, <2>4, RoutingFrame DEF ConnectNative
<1>2. CASE PortDisconnected \/ WorkerStops
  <2>1. /\ nativePort' = 0 /\ handlers' \subseteq handlers
        /\ ports \in Nat /\ 0 <= ports
        /\ UNCHANGED <<relayVars, socketVars, taskVars, brokerVars, ports, fromExtension>>
    BY <1>2, Bounds DEF PortDisconnected, WorkerStops, TypeOK, PortTypeOK
  <2>2. DownIsEmpty'
    BY <2>1 DEF DownIsEmpty, Serving
  <2>3. \A b \in Nat : \A call : Correlated(b, call) => Correlated(b, call)'
    BY <2>1, PendingShrinks
  <2>4. \A h \in handlers : h.port # 0
    BY Bounds DEF TypeOK, PortTypeOK, Handlers, Ports
  <2>5. HandlersCorrelated'
    BY <2>1, <2>4 DEF HandlersCorrelated
  <2>6. RequestsCorrelated'
    BY <2>1, <2>3, <2>5, CorrelationsKept DEF RequestsCorrelated, SendingCorrelated
  <2>7. QED BY <1>0, <2>1, <2>2, <2>6, RoutingFrame
<1>3. CASE StartHandler
  <2>. PICK request : request = Head(browser_rx)
    OBVIOUS
  <2>1. /\ browser_rx \in Seq(Requests) /\ browser_rx # <<>>
        /\ browser_rx' = Tail(browser_rx) /\ nativePort # 0 /\ broker = "up"
        /\ handlers' = handlers \cup
             {[port |-> nativePort, id |-> request.id, call |-> request.call,
               stage |-> "running"]}
        /\ nativePort \in Nat /\ nativePort <= ports
        /\ UNCHANGED <<relayVars, socketVars, taskVars, broker, next_broker_id, pending,
                       routed, ports, nativePort, fromExtension>>
    BY <1>3, Bounds DEF StartHandler, TypeOK, BrokerTypeOK, PortTypeOK, DownIsEmpty
  <2>2. \A b \in Nat : \A call : Correlated(b, call) => Correlated(b, call)'
    BY <2>1, PendingShrinks
  <2>3. request = browser_rx[1] /\ 1 \in 1..Len(browser_rx) /\ request \in Requests
    BY <2>1, LenProperties, HeadTailProperties
  <2>4. HandlersCorrelated'
    <3>. SUFFICES ASSUME NEW h \in handlers', h.port = nativePort
                  PROVE  Correlated(h.id, h.call)'
      BY <2>1 DEF HandlersCorrelated
    <3>1. Correlated(h.id, h.call) /\ h.id \in Nat
      <4>1. CASE h \in handlers
        BY <4>1 DEF RequestsCorrelated, HandlersCorrelated, TypeOK, PortTypeOK, Handlers
      <4>2. CASE h \notin handlers
        <5>1. h.id = request.id /\ h.call = request.call
          BY <2>1, <4>2
        <5>2. QED
          BY <2>3, <5>1, RequestFields DEF RequestsCorrelated, QueueCorrelated
      <4>3. QED BY <4>1, <4>2
    <3>2. QED BY <3>1, <2>2
  <2>5. QueueCorrelated'
    <3>1. ASSUME NEW k \in 1..Len(browser_rx')
          PROVE  Correlated(browser_rx[k].id, browser_rx[k].call)'
      <4>1. k + 1 \in 1..Len(browser_rx) /\ browser_rx'[k] = browser_rx[k + 1]
        BY <2>1, SeqElems
      <4>. PICK b, call : b = browser_rx[k + 1].id /\ call = browser_rx[k + 1].call
        OBVIOUS
      <4>2. b \in Nat /\ Correlated(b, call)
        BY <2>1, <4>1, ElementOfSeq, RequestFields DEF RequestsCorrelated, QueueCorrelated
      <4>3. Correlated(b, call)'
        BY <2>2, <4>2
      <4>4. b = browser_rx'[k].id /\ call = browser_rx'[k].call
        BY <4>1
      <4>5. QED BY <4>3, <4>4 DEF Correlated, Matches
    <3>2. QED BY <3>1 DEF QueueCorrelated
  <2>6. RequestsCorrelated'
    BY <2>1, <2>2, <2>4, <2>5, CorrelationsKept DEF RequestsCorrelated, SendingCorrelated
  <2>7. DownIsEmpty'
    BY <2>1 DEF DownIsEmpty
  <2>8. QED BY <1>0, <2>1, <2>6, <2>7, RoutingFrame
<1>4. ASSUME NEW h \in handlers, Execute(h) PROVE RoutingInv'
  <2>1. /\ handlers' = (handlers \ {h}) \cup {[h EXCEPT !.stage = "executed"]}
        /\ UNCHANGED <<relayVars, socketVars, taskVars, brokerVars, ports, nativePort,
                       fromExtension>>
    BY <1>4 DEF Execute
  <2>2. h \in Handlers
    BY DEF TypeOK, PortTypeOK
  <2>3. \A g \in handlers' : \E f \in handlers :
          g.port = f.port /\ g.id = f.id /\ g.call = f.call
    BY <2>1, <2>2 DEF Handlers
  <2>4. \A b \in Nat : \A call : Correlated(b, call) => Correlated(b, call)'
    BY <2>1, PendingShrinks
  <2>5. HandlersCorrelated'
    <3>. SUFFICES ASSUME NEW g \in handlers', g.port = nativePort
                  PROVE  Correlated(g.id, g.call)'
      BY <2>1 DEF HandlersCorrelated
    <3>1. Correlated(g.id, g.call) /\ g.id \in Nat
      BY <2>3 DEF RequestsCorrelated, HandlersCorrelated, TypeOK, PortTypeOK, Handlers
    <3>2. QED BY <3>1, <2>4
  <2>6. RequestsCorrelated'
    BY <2>1, <2>4, <2>5, CorrelationsKept DEF RequestsCorrelated, SendingCorrelated
  <2>7. DownIsEmpty'
    BY <2>1, <2>3 DEF DownIsEmpty, Serving
  <2>8. QED BY <1>0, <2>1, <2>6, <2>7, RoutingFrame
<1>5. ASSUME NEW h \in handlers, NEW result \in {"ok", "error"}, Reply(h, result)
      PROVE RoutingInv'
  <2>. DEFINE response == [id |-> h.id, of |-> h.call, result |-> result]
  <2>1. /\ handlers' = handlers \ {h}
        /\ \/ fromExtension' = fromExtension
           \/ h.port = nativePort /\ fromExtension' = Append(fromExtension, response)
        /\ UNCHANGED <<relayVars, socketVars, taskVars, brokerVars, ports, nativePort>>
    BY <1>5 DEF Reply
  <2>2. h \in Handlers /\ fromExtension \in Seq(Responses) /\ h.port # 0
    BY Bounds DEF TypeOK, PortTypeOK, Handlers, Ports
  <2>3. \A b \in Nat : \A call : Correlated(b, call) => Correlated(b, call)'
    BY <2>1, PendingShrinks
  <2>4. RepliesCorrelated'
    <3>1. CASE fromExtension' = fromExtension
      BY <3>1, <2>3, CorrelationsKept
    <3>2. CASE h.port = nativePort /\ fromExtension' = Append(fromExtension, response)
      <4>1. ASSUME NEW k \in 1..Len(fromExtension')
            PROVE  Correlated(fromExtension[k].id, fromExtension[k].of)'
        <5>1. response \in Responses /\ response.id = h.id /\ response.of = h.call
          BY <2>2 DEF Handlers, Responses
        <5>. PICK b, call : b = fromExtension'[k].id /\ call = fromExtension'[k].of
          OBVIOUS
        <5>2. CASE k \in 1..Len(fromExtension) /\ fromExtension'[k] = fromExtension[k]
          <6>1. fromExtension[k] \in Responses
            BY <2>2, <5>2, ElementOfSeq
          <6>2. b \in Nat /\ Correlated(b, call)
            BY <5>2, <6>1 DEF RequestsCorrelated, RepliesCorrelated, Responses
          <6>3. Correlated(b, call)'
            BY <2>3, <6>2
          <6>4. QED BY <6>3 DEF Correlated, Matches
        <5>3. CASE fromExtension'[k] = response
          <6>1. b = h.id /\ call = h.call
            BY <5>1, <5>3
          <6>2. b \in Nat /\ Correlated(b, call)
            BY <2>2, <3>2, <6>1 DEF RequestsCorrelated, HandlersCorrelated, Handlers
          <6>3. Correlated(b, call)'
            BY <2>3, <6>2
          <6>4. QED BY <6>3 DEF Correlated, Matches
        <5>4. QED BY <2>2, <3>2, <5>1, <5>2, <5>3, SeqElems
      <4>2. QED BY <4>1 DEF RepliesCorrelated
    <3>3. QED BY <2>1, <3>1, <3>2
  <2>5. RequestsCorrelated'
    BY <2>1, <2>3, <2>4, CorrelationsKept DEF RequestsCorrelated, SendingCorrelated
  <2>6. DownIsEmpty'
    BY <2>1, <2>2 DEF DownIsEmpty, Serving
  <2>7. QED BY <1>0, <2>1, <2>5, <2>6, RoutingFrame
<1>6. QED
  BY <1>1, <1>2, <1>3, <1>4, <1>5 DEF PortNext

(* OwnResponse strengthened until every step keeps it.                     *)
LEMMA RoutingInvariant == Spec => []RoutingInv
<1>1. Init => RoutingInv
  <2>. SUFFICES ASSUME Init PROVE RoutingInv
    OBVIOUS
  <2>1. TypeOK
    BY Bounds DEF Init, TypeOK, RelayTypeOK, SocketTypeOK, TaskTypeOK, BrokerTypeOK,
       PortTypeOK, Statuses
  <2>2. Fresh /\ Owned /\ DownIsEmpty /\ RequestsCorrelated /\ OwnResponse
    BY DEF Init, Fresh, Owned, DownIsEmpty, Serving, RequestsCorrelated,
       SendingCorrelated, QueueCorrelated, HandlersCorrelated, RepliesCorrelated,
       OwnResponse
  <2>3. QED BY <2>1, <2>2 DEF RoutingInv
<1>2. RoutingInv /\ [Next]_vars => RoutingInv'
  <2>1. RoutingInv /\ UNCHANGED vars => RoutingInv'
    BY Frame, RoutingFrame DEF RoutingInv, TypeOK, vars, relayVars, socketVars,
       taskVars, brokerVars, portVars
  <2>2. QED BY <2>1, RelayRouting, BrokerRouting, PortRouting DEF Next
<1>3. QED BY <1>1, <1>2, PTL DEF Spec

(* A response never reaches a call it does not answer, whatever sessions,  *)
(* connections, brokers and handlers come and go                           *)
(* (native_host.rs:218-261, service-worker.ts:99).                         *)
THEOREM Routing == Spec => []OwnResponse
<1>1. RoutingInv => OwnResponse
  BY DEF RoutingInv
<1>2. QED BY RoutingInvariant, <1>1, PTL
=============================================================================
