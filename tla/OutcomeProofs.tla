---------------------------- MODULE OutcomeProofs ---------------------------
(***************************************************************************)
(* Proofs about what becomes of a call: where its request is, what the     *)
(* agent is told, and that Transport implements AtMostOnceCall.            *)
(***************************************************************************)
EXTENDS TransportProofs

-----------------------------------------------------------------------------
(***************************************************************************)
(* One request or response at a time is under way on a connection, because *)
(* the relay's mutex is held for the whole call and a connection whose     *)
(* call ended without its response is dropped.                             *)
(***************************************************************************)

\* the calls under the mutex, one of a session at most, and the ids drawn
Mutex ==
    \A call \in Calls :
        /\ status[call] \in InLock <=> guard[call.relay] = call.id
        /\ call.id >= next_request_id[call.relay] => status[call] = "idle"
        /\ status[call] \in {"greeting", "writing", "waiting"} =>
             connection[call.relay] # 0

\* a request of connection c is at the browser, its response comes back
Claimed(c) == \E p \in pending : p.client_id = c
Returning(c) == routed # Nil /\ routed.client_id = c

Single(s) == s # <<>> => Tail(s) = <<>>

AtMostOne(c) ==
    /\ Single(toBroker[c]) /\ Single(responses[c]) /\ Single(toRelay[c])
    /\ \A p, q \in pending : p.client_id = c /\ q.client_id = c => p = q
    /\ toBroker[c] # <<>> => ~Claimed(c)
    /\ toBroker[c] # <<>> \/ Claimed(c) => ~Returning(c)
    /\ toBroker[c] # <<>> \/ Claimed(c) \/ Returning(c) => responses[c] = <<>>
    /\ toBroker[c] # <<>> \/ Claimed(c) \/ Returning(c) \/ responses[c] # <<>> =>
         toRelay[c] = <<>>

OneAtATime == \A c \in Conns : AtMostOne(c)

\* nothing is under way on connection c
Quiet(c) ==
    /\ toBroker[c] = <<>> /\ responses[c] = <<>> /\ toRelay[c] = <<>>
    /\ ~Claimed(c) /\ ~Returning(c)

\* ... when the next request is written to it, or a call may find it
QuietBetween ==
    /\ \A r \in Relays : guard[r] = 0 /\ connection[r] # 0 => Quiet(connection[r])
    /\ \A call \in Calls : status[call] = "writing" => Quiet(connection[call.relay])

\* what was read of a line is a part of one that is there
Begun == \A c \in Conns : partial[c] => toBroker[c] # <<>> /\ task[c] # "handshake"

ConnectionInv == Mutex /\ OneAtATime /\ QuietBetween /\ Begun


-----------------------------------------------------------------------------
\* a relay and an id determine the call
LEMMA SameCall ==
    \A a, b \in Calls : a.relay = b.relay /\ a.id = b.id => a = b
  BY DEF Calls

\* a sequence of one
LEMMA Singles ==
    ASSUME NEW S, NEW e \in S
    PROVE  /\ Append(<<>>, e) = <<e>>
           /\ <<e>> # <<>> /\ Head(<<e>>) = e /\ Tail(<<e>>) = <<>>
  OBVIOUS

\* the parts of the type invariant, by name
LEMMA TypeParts ==
    ASSUME TypeOK
    PROVE  RelayTypeOK /\ SocketTypeOK /\ TaskTypeOK /\ BrokerTypeOK /\ PortTypeOK
  BY DEF TypeOK

(* What a step of the broker or the worker does to the connections: it     *)
(* takes from them, ...                                                    *)
LEMMA ConnectionsShrink ==
    ASSUME TypeOK, ConnectionInv, UNCHANGED relayVars, Begun',
           \A c \in Conns : /\ toBroker'[c] \in {toBroker[c], <<>>}
                            /\ responses'[c] \in {responses[c], <<>>}
                            /\ toRelay'[c] = toRelay[c],
           pending' \subseteq pending, routed' \in {routed, Nil}
    PROVE  ConnectionInv'
<1>1. \A c \in Conns : /\ Claimed(c)' => Claimed(c)
                       /\ Returning(c)' => Returning(c)
                       /\ Quiet(c) => Quiet(c)'
  BY DEF Claimed, Returning, Quiet
<1>2. OneAtATime'
  BY <1>1 DEF ConnectionInv, OneAtATime, AtMostOne, Single
<1>3. Mutex'
  BY DEF ConnectionInv, Mutex, relayVars
<1>4. QuietBetween'
  <2>1. \A r \in Relays : connection[r] # 0 => connection[r] \in Conns
    BY TypeParts, Bounds DEF RelayTypeOK, Conns
  <2> QED
    BY <1>1, <2>1, CallFields DEF ConnectionInv, QuietBetween, Mutex, relayVars, InLock
<1> QED
  BY <1>2, <1>3, <1>4 DEF ConnectionInv

(* ... or moves what is under way on one of them.                          *)
LEMMA ConnectionMoves ==
    ASSUME TypeOK, ConnectionInv, UNCHANGED relayVars, NEW c \in Conns,
           ~Quiet(c), AtMostOne(c)', ~partial'[c],
           \A d \in Conns \ {c} :
              /\ toBroker'[d] = toBroker[d] /\ responses'[d] = responses[d]
              /\ toRelay'[d] = toRelay[d] /\ partial'[d] = partial[d] /\ task'[d] = task[d]
              /\ \A p \in pending' : p.client_id = d => p \in pending
              /\ Returning(d)' => Returning(d)
    PROVE  ConnectionInv'
<1>1. \A d \in Conns \ {c} : /\ Claimed(d)' => Claimed(d)
                             /\ Quiet(d) => Quiet(d)'
  BY DEF Claimed, Quiet
<1>2. OneAtATime'
  <2>1. ASSUME NEW d \in Conns, d # c PROVE AtMostOne(d)'
    BY <1>1, <2>1 DEF ConnectionInv, OneAtATime, AtMostOne, Single
  <2> QED
    BY <2>1 DEF OneAtATime
<1>3. Mutex'
  BY DEF ConnectionInv, Mutex, relayVars
<1>4. QuietBetween'
  <2>1. \A r \in Relays : connection[r] # 0 => connection[r] \in Conns
    BY TypeParts, Bounds DEF RelayTypeOK, Conns
  <2> QED
    BY <1>1, <2>1, CallFields DEF ConnectionInv, QuietBetween, Mutex, relayVars, InLock
<1>5. Begun'
  BY DEF ConnectionInv, Begun
<1> QED
  BY <1>2, <1>3, <1>4, <1>5 DEF ConnectionInv

\* a client task moves what is under way on its connection, and adds nothing
LEMMA TaskConnections ==
    ASSUME TypeOK, ConnectionInv, NEW c \in Conns, TaskStep(c)
    PROVE  ConnectionInv'
<1> USE TypeParts
<1>1. CASE Handshake(c)
  <2>1. toBroker[c] # <<>> /\ Tail(toBroker[c]) = <<>> /\ toRelay[c] = <<>>
    BY <1>1 DEF Handshake, ConnectionInv, OneAtATime, AtMostOne, Single
  <2>2. toBroker'[c] = <<>> /\ toRelay'[c] = <<Connected>>
    BY <1>1, <2>1 DEF Handshake, SocketTypeOK
  <2>3. AtMostOne(c)'
    BY <1>1, <2>1, <2>2, Singles DEF Handshake, ConnectionInv, OneAtATime, AtMostOne, Single,
       Claimed, Returning, brokerVars
  <2> QED
    <3>1. ~Quiet(c) /\ ~partial'[c]
      BY <1>1, <2>1 DEF Handshake, Quiet, ConnectionInv, Begun
    <3> QED
      BY <1>1, <2>3, <3>1, ConnectionMoves
      DEF Handshake, Returning, SocketTypeOK, TaskTypeOK, brokerVars
<1>2. CASE Leave(c)
  BY <1>2, ConnectionsShrink DEF Leave, SocketTypeOK, TaskTypeOK, brokerVars, ConnectionInv, Begun
<1>3. CASE ReadPart(c)
  BY <1>3, ConnectionsShrink DEF ReadPart, SocketTypeOK, TaskTypeOK, brokerVars, ConnectionInv,
     Begun, socketVars
<1>4. CASE ReadRequest(c)
  <2>1. /\ toBroker[c] # <<>> /\ Tail(toBroker[c]) = <<>>
        /\ ~Claimed(c) /\ ~Returning(c) /\ responses[c] = <<>> /\ toRelay[c] = <<>>
    BY <1>4 DEF ReadRequest, ConnectionInv, OneAtATime, AtMostOne, Single
  <2>2. toBroker'[c] = <<>> /\ partial'[c] = FALSE
    BY <1>4, <2>1 DEF ReadRequest, SocketTypeOK, TaskTypeOK
  <2>3. \A p, q \in pending' : p.client_id = c /\ q.client_id = c => p = q
    BY <1>4, <2>1 DEF ReadRequest, Claimed
  <2>4. AtMostOne(c)'
    BY <1>4, <2>1, <2>2, <2>3 DEF ReadRequest, AtMostOne, Single, Returning
  <2>5. \A d \in Conns \ {c} : \A p \in pending' : p.client_id = d => p \in pending
    BY <1>4 DEF ReadRequest
  <2> QED
    BY <1>4, <2>1, <2>2, <2>4, <2>5, ConnectionMoves
    DEF ReadRequest, Quiet, Returning, SocketTypeOK, TaskTypeOK
<1>5. CASE Enqueue(c)
  BY <1>5, ConnectionsShrink DEF Enqueue, ConnectionInv, Begun, socketVars
<1>6. CASE WriteResponse(c)
  <2>1. /\ responses[c] # <<>> /\ Tail(responses[c]) = <<>>
        /\ ~Claimed(c) /\ ~Returning(c) /\ toBroker[c] = <<>> /\ toRelay[c] = <<>>
    BY <1>6 DEF WriteResponse, ConnectionInv, OneAtATime, AtMostOne, Single
  <2>2. ~partial[c] /\ UNCHANGED toBroker
    BY <1>6, <2>1 DEF WriteResponse, ConnectionInv, Begun
  <2>3. Head(responses[c]) \in Responses
    BY <2>1, HeadTailProperties DEF TaskTypeOK
  <2>4. /\ responses'[c] = <<>> /\ toRelay'[c] = <<Head(responses[c])>>
        /\ partial' = [partial EXCEPT ![c] = FALSE]
    BY <1>6, <2>1, <2>3, Singles DEF WriteResponse, SocketTypeOK, TaskTypeOK
  <2>5. Tail(toRelay'[c]) = <<>>
    BY <2>3, <2>4, Singles
  <2>6. AtMostOne(c)'
    BY <1>6, <2>1, <2>2, <2>4, <2>5
    DEF WriteResponse, AtMostOne, Single, Returning, Claimed, brokerVars
  <2> QED
    BY <1>6, <2>1, <2>2, <2>4, <2>6, ConnectionMoves
    DEF WriteResponse, Quiet, Returning, SocketTypeOK, TaskTypeOK, brokerVars
<1>7. CASE Cleanup(c)
  BY <1>7, ConnectionsShrink DEF Cleanup, ConnectionInv, Begun, socketVars
<1> QED
  BY <1>1, <1>2, <1>3, <1>4, <1>5, <1>6, <1>7
  DEF TaskStep, HandshakeFails, ReadInvalid, ReadEof, WriteResponseFails

\* the broker moves what is under way, and its end ends all of it
LEMMA BrokerConnections ==
    ASSUME TypeOK, Fresh, ConnectionInv, BrokerNext
    PROVE  ConnectionInv'
<1> USE TypeParts
<1>1. CASE \E c \in Conns : TaskStep(c)
  BY <1>1, TaskConnections
<1>2. CASE Route
  <2> DEFINE entries == {p \in pending : p.broker_id = Head(fromExtension).id}
  <2>1. CASE entries = {}
    BY <1>2, <2>1, ConnectionsShrink
    DEF Route, ConnectionInv, Begun, socketVars, taskVars
  <2>2. CASE entries # {}
    <3>1. PICK p \in entries :
            routed' = [client_id |-> p.client_id,
                       response |-> [Head(fromExtension) EXCEPT !.id = p.original_id]]
      BY <1>2, <2>2 DEF Route
    <3> DEFINE c == p.client_id
    <3>2. p \in pending /\ c \in Conns /\ Claimed(c)
      BY DEF Claimed, BrokerTypeOK, Pendings
    <3>3. /\ toBroker[c] = <<>> /\ responses[c] = <<>> /\ toRelay[c] = <<>>
          /\ \A q \in pending : q.client_id = c => q = p
      BY <3>2 DEF ConnectionInv, OneAtATime, AtMostOne
    <3>4. pending' = pending \ entries /\ UNCHANGED <<relayVars, socketVars, taskVars>>
      BY <1>2 DEF Route
    <3>5. AtMostOne(c)'
      BY <3>1, <3>2, <3>3, <3>4
      DEF AtMostOne, Single, Claimed, ConnectionInv, OneAtATime, socketVars, taskVars
    <3>6. \A d \in Conns \ {c} : Returning(d)' => Returning(d)
      BY <3>1 DEF Returning
    <3>7. ~Quiet(c) /\ ~partial[c]
      BY <3>2, <3>3 DEF Quiet, ConnectionInv, Begun
    <3> HIDE DEF entries, c
    <3> QED
      BY <3>2, <3>4, <3>5, <3>6, <3>7, ConnectionMoves DEF socketVars, taskVars
  <2> QED
    BY <2>1, <2>2
<1>3. CASE Deliver
  <2> PICK c \in Conns : c = routed.client_id
    BY <1>3 DEF Deliver, BrokerTypeOK, Routes
  <2>1. routed.response \in Responses /\ Returning(c)
    BY <1>3 DEF Deliver, BrokerTypeOK, Routes, Returning
  <2>2. /\ ~Claimed(c) /\ toBroker[c] = <<>> /\ responses[c] = <<>> /\ toRelay[c] = <<>>
    BY <2>1 DEF ConnectionInv, OneAtATime, AtMostOne
  <2>3. /\ responses' = [responses EXCEPT ![c] = Append(@, routed.response)]
        /\ routed' = Nil /\ UNCHANGED <<relayVars, socketVars, task, partial, pending>>
    BY <1>3 DEF Deliver
  <2>4. responses'[c] = <<routed.response>> /\ Tail(responses'[c]) = <<>>
    BY <2>1, <2>2, <2>3, Singles DEF TaskTypeOK
  <2>5. AtMostOne(c)'
    BY <2>1, <2>2, <2>3, <2>4 DEF AtMostOne, Single, Claimed, Returning, socketVars
  <2>6. ~Quiet(c) /\ ~partial[c]
    BY <2>1, <2>2 DEF Quiet, ConnectionInv, Begun
  <2> QED
    BY <2>1, <2>3, <2>5, <2>6, ConnectionMoves DEF Returning, TaskTypeOK, socketVars
<1>4. CASE Discard
  BY <1>4, ConnectionsShrink DEF Discard, ConnectionInv, Begun, socketVars, taskVars
<1>5. CASE BrokerExit
  BY <1>5, ConnectionsShrink DEF BrokerExit, Begun
<1> QED
  BY <1>1, <1>2, <1>3, <1>4, <1>5 DEF BrokerNext

\* the port and the handlers leave the connections alone
LEMMA PortConnections ==
    ASSUME TypeOK, ConnectionInv, PortNext
    PROVE  ConnectionInv'
<1>1. UNCHANGED <<relayVars, socketVars, taskVars, pending, routed>>
  BY DEF PortNext, ConnectNative, PortDisconnected, WorkerStops, StartHandler, Execute, Reply,
         brokerVars
<1> QED
  BY <1>1, ConnectionsShrink DEF ConnectionInv, Begun, socketVars, taskVars

\* the connection a relay uses is one that was made
LEMMA Streams ==
    ASSUME TypeOK
    PROVE  \A r \in Relays : connection[r] # 0 => connection[r] \in Conns
  BY TypeParts, Bounds DEF RelayTypeOK, Conns

(* The call that holds the mutex is the only one of its session in it.     *)
LEMMA OneInLock ==
    ASSUME TypeOK, Mutex, NEW call \in Calls, status[call] \in InLock
    PROVE  /\ guard[call.relay] = call.id /\ guard[call.relay] # 0
           /\ \A other \in Calls : other.relay = call.relay /\ status[other] \in InLock
                 => other = call
<1>1. guard[call.relay] = call.id /\ call.id \in Ids
  BY CallFields DEF Mutex
<1>2. \A other \in Calls : other.relay = call.relay /\ status[other] \in InLock
        => other.id = call.id
  BY <1>1 DEF Mutex
<1>3. guard[call.relay] # 0
  BY <1>1, Bounds DEF Ids
<1> QED
  BY <1>1, <1>2, <1>3, SameCall

(* What a call returns leaves the mutex free.                              *)
LEMMA MutexReturn ==
    ASSUME TypeOK, Mutex, NEW call \in Calls, status[call] \in InLock,
           NEW s \in Statuses \ (InLock \cup {"idle"}), Return(call, s),
           connection' = connection \/ Drop(call.relay), UNCHANGED next_request_id
    PROVE  Mutex'
<1> USE TypeParts
<1>1. /\ status' = [status EXCEPT ![call] = s] /\ guard' = [guard EXCEPT ![call.relay] = 0]
      /\ call.relay \in Relays
  BY CallFields DEF Return
<1>2. \A other \in Calls : other.id \in Ids /\ other.relay \in Relays
  BY CallFields
<1>3. ASSUME NEW other \in Calls
      PROVE  status'[other] \in InLock <=> guard'[other.relay] = other.id
  <2>1. other.id # 0
    BY <1>2, Bounds DEF Ids
  <2>2. CASE other.relay = call.relay
    <3>1. status'[other] \notin InLock
      BY <1>1, <2>2, OneInLock DEF RelayTypeOK, InLock
    <3> QED
      BY <1>1, <1>2, <2>1, <2>2, <3>1 DEF RelayTypeOK
  <2>3. CASE other.relay # call.relay
    BY <1>1, <1>2, <2>3 DEF Mutex, RelayTypeOK
  <2> QED
    BY <2>2, <2>3
<1>4. ASSUME NEW other \in Calls, other.id >= next_request_id'[other.relay]
      PROVE  status'[other] = "idle"
  <2>1. status[other] = "idle" /\ other # call
    BY <1>4 DEF Mutex, InLock
  <2> QED
    BY <1>1, <2>1 DEF RelayTypeOK
<1>5. ASSUME NEW other \in Calls, status'[other] \in {"greeting", "writing", "waiting"}
      PROVE  connection'[other.relay] # 0
  <2>1. status[other] = status'[other] /\ other # call
    BY <1>1, <1>5 DEF RelayTypeOK, InLock
  <2>2. other.relay # call.relay
    BY <1>5, <2>1, OneInLock DEF InLock
  <2> QED
    BY <1>2, <1>5, <2>1, <2>2 DEF Mutex, Drop, RelayTypeOK
<1> QED
  BY <1>3, <1>4, <1>5 DEF Mutex

(* ... and a step inside it leaves it locked.                              *)
LEMMA MutexKept ==
    ASSUME TypeOK, Mutex, NEW call \in Calls, status[call] \in InLock,
           NEW s \in InLock, status' = [status EXCEPT ![call] = s],
           UNCHANGED <<guard, next_request_id>>,
           s = "connecting" \/ connection'[call.relay] # 0,
           \A r \in Relays : r # call.relay => connection'[r] = connection[r]
    PROVE  Mutex'
<1> USE TypeParts
<1>1. \A other \in Calls : other # call /\ status[other] \in InLock => other.relay # call.relay
  BY OneInLock
<1>2. \A other \in Calls : status'[other] = IF other = call THEN s ELSE status[other]
  BY DEF RelayTypeOK
<1> QED
  BY <1>1, <1>2, CallFields DEF Mutex, InLock

\* emptying the way back to relays keeps one thing at a time under way
LEMMA OneKept ==
    ASSUME ConnectionInv, UNCHANGED <<toBroker, responses, pending, routed>>,
           \A c \in Conns : toRelay'[c] \in {toRelay[c], <<>>}
    PROVE  OneAtATime' /\ \A c \in Conns : Quiet(c) => Quiet(c)'
  BY DEF ConnectionInv, OneAtATime, AtMostOne, Single, Claimed, Returning, Quiet

\* a relay that drops its connection loses what was on its way to it
LEMMA DropKeeps ==
    ASSUME TypeOK, NEW r \in Relays, Drop(r)
    PROVE  /\ \A c \in Conns : toRelay'[c] \in {toRelay[c], <<>>}
           /\ connection' = [connection EXCEPT ![r] = 0]
  BY TypeParts DEF Drop, SocketTypeOK

(* A call that returns without its response drops the connection.          *)
LEMMA DropConnections ==
    ASSUME TypeOK, ConnectionInv, NEW call \in Calls, status[call] \in InLock,
           NEW s \in Statuses \ (InLock \cup {"idle"}), Return(call, s), Drop(call.relay),
           UNCHANGED <<next_request_id, toBroker, taskVars, brokerVars>>
    PROVE  ConnectionInv'
<1> USE TypeParts
<1>1. Mutex'
  BY MutexReturn DEF ConnectionInv
<1>2. OneAtATime' /\ \A c \in Conns : Quiet(c) => Quiet(c)'
  BY OneKept, DropKeeps, CallFields DEF taskVars, brokerVars
<1>3. ASSUME NEW r \in Relays, connection'[r] # 0
      PROVE  r # call.relay /\ connection'[r] = connection[r] /\ connection[r] \in Conns
             /\ guard'[r] = guard[r]
  BY <1>3, DropKeeps, CallFields, Streams DEF RelayTypeOK, Return
<1>4. ASSUME NEW other \in Calls, status'[other] = "writing"
      PROVE  status[other] = "writing" /\ connection'[other.relay] # 0
  BY <1>1, <1>4 DEF Mutex, Return, RelayTypeOK, InLock
<1>5. QuietBetween'
  BY <1>2, <1>3, <1>4, CallFields DEF QuietBetween, ConnectionInv
<1> QED
  BY <1>1, <1>2, <1>5 DEF ConnectionInv, Begun, taskVars

\* the mutex is taken by one call, when the one before has returned
LEMMA LockConnections ==
    ASSUME TypeOK, ConnectionInv, NEW call \in Calls, Lock(call)
    PROVE  ConnectionInv'
<1> USE TypeParts
<1>1. /\ call.relay \in Relays /\ call.id \in Ids /\ call.id # 0
      /\ \A other \in Calls : other.id \in Ids /\ other.id # 0 /\ other.relay \in Relays
  BY CallFields, Bounds DEF Ids
<1>2. PICK s \in {"connecting", "writing"} :
        /\ status' = [status EXCEPT ![call] = s]
        /\ s = "writing" => connection[call.relay] # 0
  BY DEF Lock
<1>3. /\ guard[call.relay] = 0 /\ guard' = [guard EXCEPT ![call.relay] = call.id]
      /\ status[call] = "queued"
      /\ UNCHANGED <<next_request_id, connection, socketVars, taskVars, brokerVars>>
  BY DEF Lock
<1>4. \A other \in Calls : other.relay = call.relay => status[other] \notin InLock
  BY <1>1, <1>3 DEF ConnectionInv, Mutex
<1>5. Mutex'
  <2>1. ASSUME NEW other \in Calls
        PROVE  status'[other] \in InLock <=> guard'[other.relay] = other.id
    <3>1. CASE other = call
      BY <1>1, <1>2, <1>3, <3>1 DEF RelayTypeOK, InLock
    <3>2. CASE other # call /\ other.relay = call.relay
      BY <1>1, <1>2, <1>3, <1>4, <3>2, SameCall DEF RelayTypeOK
    <3>3. CASE other.relay # call.relay
      BY <1>1, <1>2, <1>3, <3>3 DEF RelayTypeOK, ConnectionInv, Mutex
    <3> QED
      BY <3>1, <3>2, <3>3
  <2>2. ASSUME NEW other \in Calls
        PROVE  /\ other.id >= next_request_id'[other.relay] => status'[other] = "idle"
               /\ status'[other] \in {"greeting", "writing", "waiting"} =>
                    connection'[other.relay] # 0
    BY <1>1, <1>2, <1>3 DEF RelayTypeOK, ConnectionInv, Mutex
  <2> QED
    BY <2>1, <2>2 DEF Mutex
<1>6. OneAtATime' /\ \A c \in Conns : Quiet(c) => Quiet(c)'
  BY <1>3, OneKept DEF socketVars, taskVars, brokerVars
<1>7. QuietBetween'
  <2>1. ASSUME NEW r \in Relays, guard'[r] = 0, connection'[r] # 0 PROVE Quiet(connection[r])'
    BY <1>1, <1>3, <1>6, <2>1, Streams DEF RelayTypeOK, QuietBetween, ConnectionInv
  <2>2. ASSUME NEW other \in Calls, status'[other] = "writing"
        PROVE  Quiet(connection[other.relay])'
    <3>1. connection[other.relay] # 0 /\ connection[other.relay] \in Conns
      BY <1>1, <1>3, <1>5, <2>2, Streams DEF Mutex
    <3>2. Quiet(connection[other.relay])
      <4>1. CASE other = call
        BY <1>1, <1>3, <3>1, <4>1 DEF QuietBetween, ConnectionInv
      <4>2. CASE other # call
        BY <1>2, <2>2, <4>2 DEF RelayTypeOK, QuietBetween, ConnectionInv
      <4> QED
        BY <4>1, <4>2
    <3> QED
      BY <1>3, <1>6, <3>1, <3>2 DEF Quiet, Claimed, Returning, socketVars, taskVars, brokerVars
  <2> QED
    BY <2>1, <2>2 DEF QuietBetween
<1> QED
  BY <1>3, <1>5, <1>6, <1>7 DEF ConnectionInv, Begun, taskVars, socketVars

\* a new call has the next id and waits for the mutex
LEMMA CallConnections ==
    ASSUME TypeOK, ConnectionInv, NEW r \in Relays, Call(r)
    PROVE  ConnectionInv'
<1> USE TypeParts
<1>1. PICK call \in Calls : call = [relay |-> r, id |-> next_request_id[r]]
  BY Bounds, CallFields DEF Call, RelayTypeOK, Ids
<1>2. /\ status' = [status EXCEPT ![call] = "queued"]
      /\ next_request_id' = [next_request_id EXCEPT ![r] = @ + 1]
      /\ UNCHANGED <<guard, connection, socketVars, taskVars, brokerVars>>
  BY <1>1 DEF Call
<1>3. call.relay = r /\ call.id = next_request_id[r] /\ status[call] = "idle"
  BY <1>1, Bounds DEF ConnectionInv, Mutex, RelayTypeOK
<1>4. \A other \in Calls : status'[other] = IF other = call THEN "queued" ELSE status[other]
  BY <1>2 DEF RelayTypeOK
<1>5. \A other \in Calls : other.id >= next_request_id'[other.relay] =>
        other # call /\ other.id >= next_request_id[other.relay]
  BY <1>2, <1>3, CallFields, Bounds DEF RelayTypeOK, Ids
<1>6. Mutex'
  BY <1>2, <1>3, <1>4, <1>5 DEF ConnectionInv, Mutex, InLock
<1>7. OneAtATime' /\ \A c \in Conns : Quiet(c) => Quiet(c)'
  BY <1>2, OneKept DEF socketVars, taskVars, brokerVars
<1>8. QuietBetween'
  BY <1>2, <1>4, <1>6, <1>7, Streams, CallFields DEF QuietBetween, ConnectionInv, Mutex
<1> QED
  BY <1>2, <1>6, <1>7, <1>8 DEF ConnectionInv, Begun, taskVars, socketVars

\* a new connection has nothing under way
LEMMA ConnectConnections ==
    ASSUME TypeOK, Fresh, ConnectionInv, NEW call \in Calls, Connect(call)
    PROVE  ConnectionInv'
<1> USE TypeParts
<1>1. PICK c \in Conns : c = next_client_id
  BY DEF Connect
<1>2. /\ status' = [status EXCEPT ![call] = "greeting"] /\ status[call] = "connecting"
      /\ connection' = [connection EXCEPT ![call.relay] = c]
      /\ toBroker' = [toBroker EXCEPT ![c] = <<Hello>>]
      /\ task' = [task EXCEPT ![c] = "handshake"]
      /\ UNCHANGED <<next_request_id, guard, toRelay, partial, responses, brokerVars>>
  BY <1>1 DEF Connect
<1>3. /\ toBroker[c] = <<>> /\ toRelay[c] = <<>> /\ responses[c] = <<>>
      /\ ~Claimed(c) /\ ~Returning(c)
      /\ \A r \in Relays : connection[r] # c
      /\ c # 0 /\ call.relay \in Relays
  BY <1>1, Bounds, CallFields DEF Fresh, Claimed, Returning, Conns, RelayTypeOK
<1>4. Mutex'
  <2>1. connection'[call.relay] # 0
    BY <1>2, <1>3 DEF RelayTypeOK
  <2> QED
    BY <1>2, <2>1, MutexKept DEF InLock, ConnectionInv, RelayTypeOK
<1>5. AtMostOne(c)'
  BY <1>2, <1>3, Singles, LineFields DEF AtMostOne, Single, Claimed, Returning, SocketTypeOK, brokerVars
<1>6. \A d \in Conns \ {c} : (AtMostOne(d) => AtMostOne(d)') /\ (Quiet(d) => Quiet(d)')
  BY <1>2 DEF AtMostOne, Single, Claimed, Returning, Quiet, SocketTypeOK, brokerVars
<1>7. OneAtATime'
  BY <1>5, <1>6 DEF OneAtATime, ConnectionInv
<1>8. QuietBetween'
  <2>1. \A r \in Relays \ {call.relay} : connection'[r] = connection[r]
    BY <1>2 DEF RelayTypeOK
  <2>2. guard[call.relay] # 0
    BY <1>2, OneInLock DEF InLock, ConnectionInv
  <2>3. ASSUME NEW other \in Calls, status'[other] = "writing"
        PROVE  status[other] = "writing" /\ other.relay # call.relay /\ other.relay \in Relays
    BY <1>2, <2>3, OneInLock, CallFields DEF InLock, ConnectionInv, RelayTypeOK
  <2>4. \A other \in Calls : status[other] = "writing" => connection[other.relay] # 0
    BY DEF ConnectionInv, Mutex
  <2> QED
    BY <1>2, <1>3, <1>6, <2>1, <2>2, <2>3, <2>4, Streams DEF QuietBetween, ConnectionInv
<1>9. Begun'
  BY <1>2, <1>3 DEF Begun, ConnectionInv, SocketTypeOK, TaskTypeOK
<1> QED
  BY <1>4, <1>7, <1>8, <1>9 DEF ConnectionInv

\* a line is written on a connection with nothing under way
LEMMA WriteConnections ==
    ASSUME TypeOK, Owned, ConnectionInv, NEW call \in Calls, status[call] = "writing",
           NEW line \in Lines,
           toBroker' = [toBroker EXCEPT ![connection[call.relay]] = Append(@, line)],
           \A c \in Conns : toRelay'[c] \in {toRelay[c], <<>>},
           \A r \in Relays : connection'[r] # 0 => connection'[r] = connection[r],
           \A r \in Relays : guard'[r] = 0 => guard[r] = 0 \/ connection'[r] = 0,
           \A other \in Calls : status'[other] = "writing" =>
                status[other] = "writing" /\ other # call,
           Mutex', UNCHANGED <<taskVars, brokerVars>>
    PROVE  ConnectionInv'
<1> USE TypeParts
<1>1. PICK c \in Conns : c = connection[call.relay] /\ c # 0
  BY Streams, CallFields DEF ConnectionInv, Mutex
<1>2. Quiet(c)
  BY <1>1 DEF ConnectionInv, QuietBetween
<1>3. toBroker'[c] = <<line>> /\ Tail(toBroker'[c]) = <<>>
  BY <1>1, <1>2, Singles DEF Quiet, SocketTypeOK
<1>4. AtMostOne(c)'
  BY <1>2, <1>3 DEF AtMostOne, Single, Quiet, Claimed, Returning, taskVars, brokerVars
<1>5. \A d \in Conns \ {c} : (AtMostOne(d) => AtMostOne(d)') /\ (Quiet(d) => Quiet(d)')
  BY <1>1 DEF AtMostOne, Single, Claimed, Returning, Quiet, SocketTypeOK, taskVars, brokerVars
<1>6. OneAtATime'
  BY <1>4, <1>5 DEF OneAtATime, ConnectionInv
<1>7. \A r \in Relays \ {call.relay} : connection[r] # c
  BY <1>1, CallFields DEF Owned
<1>8. guard[call.relay] # 0
  BY OneInLock DEF InLock, ConnectionInv
<1>9. \A other \in Calls : status'[other] = "writing" =>
        /\ status[other] = "writing" /\ other.relay # call.relay /\ other.relay \in Relays
        /\ connection'[other.relay] # 0
  BY OneInLock, CallFields DEF InLock, ConnectionInv, Mutex
<1>10. QuietBetween'
  BY <1>5, <1>7, <1>8, <1>9, Streams DEF QuietBetween, ConnectionInv
<1>11. Begun'
  BY <1>1, <1>3, Singles DEF Begun, ConnectionInv, SocketTypeOK, taskVars
<1> QED
  BY <1>6, <1>10, <1>11 DEF ConnectionInv

\* a line that is read was all that was under way
LEMMA ReadConnections ==
    ASSUME TypeOK, ConnectionInv, NEW call \in Calls, status[call] \in InLock,
           NEW c \in Conns, c = connection[call.relay], c # 0,
           toRelay[c] # <<>>, toRelay' = [toRelay EXCEPT ![c] = Tail(@)],
           UNCHANGED <<connection, toBroker, taskVars, brokerVars>>,
           \A other \in Calls : status'[other] = "writing" =>
                status[other] = "writing" \/ other = call,
           \A r \in Relays : guard'[r] = 0 => guard[r] = 0 \/ r = call.relay,
           Mutex'
    PROVE  ConnectionInv'
<1> USE TypeParts
<1>1. toRelay'[c] = <<>>
  BY DEF ConnectionInv, OneAtATime, AtMostOne, Single, SocketTypeOK
<1>2. OneAtATime' /\ \A d \in Conns : Quiet(d) => Quiet(d)'
  <2>1. \A d \in Conns : toRelay'[d] \in {toRelay[d], <<>>}
    BY <1>1 DEF SocketTypeOK
  <2> QED
    BY <2>1, OneKept DEF taskVars, brokerVars
<1>3. Quiet(c)'
  BY <1>1 DEF Quiet, ConnectionInv, OneAtATime, AtMostOne, Claimed, Returning, taskVars, brokerVars
<1>4. QuietBetween'
  <2>1. ASSUME NEW r \in Relays, guard'[r] = 0, connection'[r] # 0
        PROVE  Quiet(connection[r])'
    <3>1. CASE r = call.relay
      BY <1>3, <3>1 DEF Quiet, Claimed, Returning
    <3>2. CASE r # call.relay
      BY <1>2, <2>1, <3>2, Streams DEF QuietBetween, ConnectionInv
    <3> QED
      BY <3>1, <3>2
  <2>2. ASSUME NEW other \in Calls, status'[other] = "writing"
        PROVE  Quiet(connection[other.relay])'
    <3>1. CASE other = call
      BY <1>3, <3>1 DEF Quiet, Claimed, Returning
    <3>2. CASE other # call
      <4>1. status[other] = "writing" /\ connection[other.relay] # 0
        BY <2>2, <3>2 DEF ConnectionInv, Mutex
      <4> QED
        BY <1>2, <4>1, Streams, CallFields DEF QuietBetween, ConnectionInv
    <3> QED
      BY <3>1, <3>2
  <2> QED
    BY <2>1, <2>2 DEF QuietBetween
<1> QED
  BY <1>2, <1>4 DEF ConnectionInv, Begun, taskVars

\* the end of a process ends its calls and frees its mutex
LEMMA EndMutex ==
    ASSUME TypeOK, Mutex, NEW r \in Relays, EndProcess(r)
    PROVE  /\ Mutex'
           /\ \A call \in Calls : status'[call] \in InLock =>
                status'[call] = status[call] /\ call.relay # r
           /\ connection' = [connection EXCEPT ![r] = 0]
           /\ guard' = [guard EXCEPT ![r] = 0]
           /\ \A c \in Conns : toRelay'[c] \in {toRelay[c], <<>>}
<1> USE TypeParts
<1>1. /\ \A call \in Calls : status'[call] =
             IF call.relay = r /\ status[call] \in InLock \cup {"queued"}
               THEN "abandoned" ELSE status[call]
      /\ guard' = [guard EXCEPT ![r] = 0] /\ UNCHANGED next_request_id /\ Drop(r)
  BY DEF EndProcess
<1>2. connection' = [connection EXCEPT ![r] = 0]
      /\ \A c \in Conns : toRelay'[c] \in {toRelay[c], <<>>}
  BY <1>1, DropKeeps
<1>3. \A call \in Calls : call.relay \in Relays /\ call.id # 0
  BY CallFields, Bounds DEF Ids
<1>4. \A call \in Calls : status'[call] \in InLock =>
        status'[call] = status[call] /\ call.relay # r
  BY <1>1 DEF InLock
<1>5. ASSUME NEW call \in Calls
      PROVE  /\ status'[call] \in InLock <=> guard'[call.relay] = call.id
             /\ call.id >= next_request_id'[call.relay] => status'[call] = "idle"
             /\ status'[call] \in {"greeting", "writing", "waiting"} =>
                  connection'[call.relay] # 0
  BY <1>1, <1>2, <1>3, <1>4 DEF Mutex, RelayTypeOK, InLock
<1> QED
  BY <1>1, <1>2, <1>4, <1>5 DEF Mutex

\* every step of the relays keeps ConnectionInv
LEMMA RelayConnections ==
    ASSUME TypeOK, Fresh, Owned, ConnectionInv, RelayNext
    PROVE  ConnectionInv'
<1> USE TypeParts
<1>1. ASSUME NEW call \in Calls, CallStep(call) PROVE ConnectionInv'
  <2>1. CASE ConnectTimeout(call)
    BY <2>1, DropConnections DEF ConnectTimeout, InLock, Statuses, Outcomes, Refused
  <2>2. CASE AuthenticateFails(call)
    BY <2>2, DropConnections DEF AuthenticateFails, InLock, Statuses, Outcomes, Refused
  <2>3. CASE WriteFails(call)
    BY <2>3, DropConnections DEF WriteFails, InLock, Statuses, Outcomes
  <2>4. CASE Disconnected(call)
    BY <2>4, DropConnections DEF Disconnected, InLock, Statuses, Outcomes
  <2>5. CASE RequestTimeout(call)
    BY <2>5, DropConnections DEF RequestTimeout, InLock, Statuses, Outcomes
  <2>6. CASE Authenticated(call)
    <3>1. PICK c \in Conns : c = connection[call.relay] /\ c # 0
      BY <2>6, Streams, CallFields DEF Authenticated, ConnectionInv, Mutex
    <3>2. status[call] = "greeting" /\ status' = [status EXCEPT ![call] = "writing"]
      BY <2>6 DEF Authenticated
    <3>3. Mutex'
      BY <2>6, <3>1, <3>2, MutexKept DEF Authenticated, InLock, ConnectionInv
    <3> QED
      BY <2>6, <3>1, <3>2, <3>3, ReadConnections DEF Authenticated, InLock, RelayTypeOK
  <2>7. CASE Write(call)
    <3>1. status[call] = "writing" /\ status' = [status EXCEPT ![call] = "waiting"]
          /\ connection[call.relay] # 0
      BY <2>7 DEF Write, ConnectionInv, Mutex
    <3>2. Mutex'
      BY <2>7, <3>1, MutexKept DEF Write, InLock, ConnectionInv
    <3>3. \A other \in Calls : status'[other] = "writing" =>
            status[other] = "writing" /\ other # call
      BY <3>1 DEF RelayTypeOK
    <3> QED
      BY <2>7, <3>1, <3>2, <3>3, LineFields, WriteConnections DEF Write
  <2>8. CASE Receive(call)
    <3>1. PICK c \in Conns : c = connection[call.relay] /\ c # 0
      BY <2>8, Streams, CallFields DEF Receive, ConnectionInv, Mutex
    <3>2. \/ \E s \in {"ok", "browserError"} : Return(call, s)
          \/ UNCHANGED <<status, guard>>
      BY <2>8 DEF Receive
    <3>3. status[call] = "waiting" /\ status[call] \in InLock
          /\ UNCHANGED <<next_request_id, connection>>
      BY <2>8 DEF Receive, InLock
    <3>4. Mutex'
      <4>1. CASE UNCHANGED <<status, guard>>
        BY <3>3, <4>1 DEF ConnectionInv, Mutex
      <4>2. ASSUME NEW s \in {"ok", "browserError"}, Return(call, s) PROVE Mutex'
        BY <3>3, <4>2, MutexReturn DEF ConnectionInv, Statuses, Outcomes, InLock
      <4> QED
        BY <3>2, <4>1, <4>2
    <3>5. /\ \A other \in Calls : status'[other] = "writing" =>
               status[other] = "writing" \/ other = call
          /\ \A r \in Relays : guard'[r] = 0 => guard[r] = 0 \/ r = call.relay
      BY <3>2, CallFields DEF Return, RelayTypeOK
    <3> QED
      BY <2>8, <3>1, <3>3, <3>4, <3>5, ReadConnections DEF Receive
  <2> QED
    BY <1>1, <2>1, <2>2, <2>3, <2>4, <2>5, <2>6, <2>7, <2>8, LockConnections,
       ConnectConnections DEF CallStep, LimitedStep
<1>2. ASSUME NEW r \in Relays, Exit(r) PROVE ConnectionInv'
  <2>1. EndProcess(r) /\ UNCHANGED <<toBroker, taskVars, brokerVars>>
    BY <1>2 DEF Exit, EndProcess
  <2>2. OneAtATime' /\ \A c \in Conns : Quiet(c) => Quiet(c)'
    BY <2>1, EndMutex, OneKept DEF taskVars, brokerVars, ConnectionInv
  <2>3. QuietBetween'
    BY <2>1, <2>2, EndMutex, Streams, CallFields
    DEF QuietBetween, ConnectionInv, Mutex, RelayTypeOK, InLock
  <2> QED
    BY <2>1, <2>2, <2>3, EndMutex DEF ConnectionInv, Begun, taskVars
<1>3. ASSUME NEW call \in Calls, KilledWriting(call) PROVE ConnectionInv'
  <2>1. /\ EndProcess(call.relay) /\ call.relay \in Relays /\ status[call] = "writing"
        /\ toBroker' = [toBroker EXCEPT ![connection[call.relay]] = Append(@, Garbage)]
        /\ UNCHANGED <<taskVars, brokerVars>>
    BY <1>3, CallFields DEF KilledWriting, EndProcess
  <2>2. \A other \in Calls : status'[other] = "writing" =>
          status[other] = "writing" /\ other # call
    BY <2>1, EndMutex DEF ConnectionInv, InLock
  <2>3. /\ \A r \in Relays : connection'[r] # 0 => connection'[r] = connection[r]
        /\ \A r \in Relays : guard'[r] = 0 => guard[r] = 0 \/ connection'[r] = 0
        /\ \A c \in Conns : toRelay'[c] \in {toRelay[c], <<>>}
        /\ Mutex'
    BY <2>1, EndMutex DEF ConnectionInv, RelayTypeOK
  <2> QED
    BY <2>1, <2>2, <2>3, LineFields, WriteConnections
<1> QED
  BY <1>1, <1>2, <1>3, CallConnections DEF RelayNext

\* so does every step
LEMMA ConnectionStep ==
    ASSUME RoutingInv, ConnectionInv, [Next]_vars
    PROVE  ConnectionInv'
<1> USE DEF RoutingInv
<1>1. CASE UNCHANGED vars
  BY <1>1, ConnectionsShrink DEF ConnectionInv, Begun, vars, relayVars, socketVars, taskVars, brokerVars
<1> QED
  BY <1>1, RelayConnections, BrokerConnections, PortConnections DEF Next

\* ConnectionInv holds in every reachable state
LEMMA ConnectionInvariant == Spec => []ConnectionInv
<1>1. Init => ConnectionInv
  <2> SUFFICES ASSUME Init PROVE ConnectionInv
    OBVIOUS
  <2>1. Mutex
    BY CallFields, Bounds DEF Init, Mutex, InLock, Ids
  <2>2. OneAtATime /\ QuietBetween /\ Begun
    BY CallFields DEF Init, OneAtATime, AtMostOne, Single, Claimed, Returning, QuietBetween, Begun
  <2> QED
    BY <2>1, <2>2 DEF ConnectionInv
<1> QED
  BY <1>1, ConnectionStep, RoutingInvariant, PTL DEF Spec

(* When a response is ready for a client, its socket holds no part of a    *)
(* further request, so the select! of native_host.rs:204 never cancels a   *)
(* read_line in the middle of a line.                                      *)
THEOREM RequestsAreWhole == Spec => []NoRequestCut
<1>1. ConnectionInv => NoRequestCut
  BY DEF ConnectionInv, OneAtATime, AtMostOne, NoRequestCut
<1> QED
  BY <1>1, ConnectionInvariant, PTL

(* The router finds room in every client's queue, so no slow client keeps  *)
(* the responses of the others waiting (native_host.rs:259).               *)
THEOREM RouterHasRoom == Spec => []RouterNeverWaits
<1>1. RoutingInv /\ ConnectionInv => RouterNeverWaits
  <2> SUFFICES ASSUME RoutingInv, ConnectionInv, routed # Nil
               PROVE  Len(responses[routed.client_id]) < ClientQueueSize
    BY DEF RouterNeverWaits
  <2>1. PICK c \in Conns : c = routed.client_id
    BY TypeParts DEF RoutingInv, BrokerTypeOK, Routes
  <2>2. responses[c] = <<>>
    BY <2>1 DEF ConnectionInv, OneAtATime, AtMostOne, Returning
  <2> QED
    BY <2>1, <2>2, WireAssumption
<1> QED
  BY <1>1, ConnectionInvariant, RoutingInvariant, PTL

-----------------------------------------------------------------------------
(***************************************************************************)
(* The request of a call exists in one place only: in a socket, at a       *)
(* client's task, queued for the browser or at a handler.                  *)
(***************************************************************************)
Lined(c, call) == toBroker[c] # <<>> /\ Head(toBroker[c]) = RequestOf(call)
Taken(c, call) == sending[c] # Nil /\ sending[c].call = call
Queued(k, call) == k \in DOMAIN browser_rx /\ browser_rx[k].call = call
Handled(h, call) == h \in handlers /\ h.call = call

IsLined(call) == \E c \in Conns : Lined(c, call)
IsTaken(call) == \E c \in Conns : Taken(c, call)
IsQueued(call) == \E k \in Nat : Queued(k, call)
IsHandled(call) == \E h \in Handlers : Handled(h, call)

\* its action has not begun
Unstarted(call) == IsLined(call) \/ IsTaken(call) \/ IsQueued(call)

\* a response to the call is on its way, with this result
Tells(message, call, result) == message.of = call /\ message.result = result
Told(call, result) ==
    \/ \E k \in DOMAIN fromExtension : Tells(fromExtension[k], call, result)
    \/ routed # Nil /\ Tells(routed.response, call, result)
    \/ \E c \in Conns : responses[c] # <<>> /\ Tells(Head(responses[c]), call, result)
    \/ \E c \in Conns : /\ toRelay[c] # <<>> /\ Head(toRelay[c]) # Connected
                        /\ Tells(Head(toRelay[c]), call, result)
Results == {"ok", "error"}
Answered(call) == \E result \in Results : Told(call, result)

OnePlace(call) ==
    /\ \A c, d \in Conns : Lined(c, call) /\ Lined(d, call) => c = d
    /\ \A c, d \in Conns : Taken(c, call) /\ Taken(d, call) => c = d
    /\ \A k, l \in Nat : Queued(k, call) /\ Queued(l, call) => k = l
    /\ \A h, g \in Handlers : Handled(h, call) /\ Handled(g, call) => h = g
    /\ IsLined(call) => ~IsTaken(call) /\ ~IsQueued(call)
    /\ IsTaken(call) => ~IsQueued(call)
    /\ Unstarted(call) => ~IsHandled(call)
    /\ Unstarted(call) \/ IsHandled(call) => ~Answered(call)

\* what a call may have returned while its request is still to be answered
Unanswered == {"waiting", "outcome_unknown", "abandoned"}
\* before the request is written, or instead
Unsent == {"idle", "queued", "connecting", "greeting", "writing"} \cup Refused

Truthful(call) ==
    /\ executions[call] \in {0, 1}
    /\ Unstarted(call) => executions[call] = 0
    /\ \A h \in Handlers : Handled(h, call) /\ h.stage = "running" => executions[call] = 0
    /\ \A h \in Handlers : Handled(h, call) /\ h.stage = "executed" => executions[call] = 1
    /\ Told(call, "ok") => executions[call] = 1
    /\ Unstarted(call) \/ IsHandled(call) => status[call] \in Unanswered
    /\ status[call] \in Unsent => executions[call] = 0 /\ ~Answered(call)
    /\ status[call] = "ok" => executions[call] = 1

CallInv == \A call \in Calls : OnePlace(call) /\ Truthful(call)

\* a request is where it was while the queue it is in is not touched
LEMMA PlacesKept ==
    /\ \A call : UNCHANGED toBroker => (IsLined(call)' <=> IsLined(call))
         /\ \A c \in Conns : Lined(c, call)' <=> Lined(c, call)
    /\ \A call : UNCHANGED sending => (IsTaken(call)' <=> IsTaken(call))
         /\ \A c \in Conns : Taken(c, call)' <=> Taken(c, call)
    /\ \A call : UNCHANGED browser_rx => (IsQueued(call)' <=> IsQueued(call))
         /\ \A k \in Nat : Queued(k, call)' <=> Queued(k, call)
    /\ \A call : UNCHANGED handlers => (IsHandled(call)' <=> IsHandled(call))
         /\ \A h \in Handlers : Handled(h, call)' <=> Handled(h, call)
    /\ \A call, result : UNCHANGED <<fromExtension, routed, responses, toRelay>> =>
         (Told(call, result)' <=> Told(call, result))
  BY DEF IsLined, Lined, IsTaken, Taken, IsQueued, Queued, IsHandled, Handled, Told, Tells

(* A step that brings the request of a call to no new place: it may lose   *)
(* it, move responses, and tell the agent something.                       *)
LEMMA CallShrinks ==
    ASSUME NEW call \in Calls, OnePlace(call), Truthful(call),
           executions'[call] = executions[call],
           \A c \in Conns : Lined(c, call)' => Lined(c, call),
           \A c \in Conns : Taken(c, call)' => Taken(c, call),
           \A k \in Nat : Queued(k, call)' => Queued(k, call),
           \A h \in Handlers : Handled(h, call)' => Handled(h, call),
           \A result \in Results : Told(call, result)' => Told(call, result),
           status'[call] \in Unsent => status[call] \in Unsent,
           Unstarted(call) \/ IsHandled(call) =>
             status'[call] \in Unanswered \/ status[call] \notin Unanswered,
           status'[call] = "ok" => executions[call] = 1
    PROVE  OnePlace(call)' /\ Truthful(call)'
<1>1. /\ IsLined(call)' => IsLined(call)
      /\ IsTaken(call)' => IsTaken(call)
      /\ IsQueued(call)' => IsQueued(call)
      /\ IsHandled(call)' => IsHandled(call)
      /\ Answered(call)' => Answered(call)
      /\ Unstarted(call)' => Unstarted(call)
  BY DEF IsLined, IsTaken, IsQueued, IsHandled, Answered, Unstarted
<1>2. OnePlace(call)'
  BY <1>1 DEF OnePlace
<1>3. Truthful(call)'
  BY <1>1 DEF Truthful, Results
<1> QED
  BY <1>2, <1>3

(* A step that moves a request whose action has not begun.                 *)
LEMMA CallMoves ==
    ASSUME NEW call \in Calls, OnePlace(call), Truthful(call), Unstarted(call),
           UNCHANGED <<status, executions>>,
           \A result \in Results : Told(call, result)' => Told(call, result),
           ~IsLined(call)', ~(IsTaken(call)' /\ IsQueued(call)'),
           \A c, d \in Conns : Taken(c, call)' /\ Taken(d, call)' => c = d,
           \A k, l \in Nat : Queued(k, call)' /\ Queued(l, call)' => k = l,
           \A h, g \in Handlers : Handled(h, call)' /\ Handled(g, call)' => h = g,
           IsHandled(call)' => ~IsTaken(call)' /\ ~IsQueued(call)',
           \A h \in Handlers : Handled(h, call)' => h.stage = "running"
    PROVE  OnePlace(call)' /\ Truthful(call)'
<1>1. ~Answered(call) /\ ~Answered(call)' /\ executions[call] = 0 /\ status[call] \in Unanswered
      /\ ~Told(call, "ok")'
  BY DEF OnePlace, Truthful, Answered, Results
<1>2. \A c \in Conns : ~Lined(c, call)'
  BY DEF IsLined
<1>3. OnePlace(call)'
  BY <1>1, <1>2 DEF OnePlace, Unstarted
<1>4. Truthful(call)'
  BY <1>1 DEF Truthful, Unanswered, Unsent, Refused
<1> QED
  BY <1>3, <1>4

\* a request line determines its call and is no greeting
LEMMA RequestLines ==
    /\ \A a, b \in Calls : RequestOf(a) = RequestOf(b) => a = b
    /\ \A a \in Calls : RequestOf(a) # Hello /\ RequestOf(a) # Garbage
    /\ \A line \in Lines : line.kind = "request" => line = RequestOf(line.call)
  BY DEF RequestOf, Hello, Garbage, Lines

\* a request goes from its line to the client task
LEMMA ReadRequestCalls ==
    ASSUME TypeOK, ConnectionInv, CallInv, NEW c \in Conns, ReadRequest(c)
    PROVE  CallInv'
<1> USE TypeParts
<1>1. PICK own \in Calls : Head(toBroker[c]) = RequestOf(own) /\ own = Head(toBroker[c]).call
  <2>1. Head(toBroker[c]) \in Lines
    BY HeadTailProperties DEF ReadRequest, SocketTypeOK
  <2> QED
    BY <2>1, LineFields, RequestLines DEF ReadRequest
<1>2. /\ toBroker[c] # <<>> /\ Tail(toBroker[c]) = <<>>
      /\ toBroker' = [toBroker EXCEPT ![c] = <<>>]
  BY DEF ReadRequest, ConnectionInv, OneAtATime, AtMostOne, Single
<1>3. /\ sending' = [sending EXCEPT ![c] = [id |-> next_broker_id, call |-> own]]
      /\ UNCHANGED <<status, executions, browser_rx, handlers, fromExtension, routed,
                     responses, toRelay>>
  BY <1>1 DEF ReadRequest, relayVars, portVars
<1>4. \A call \in Calls, d \in Conns : Lined(d, call)' <=> d # c /\ Lined(d, call)
  BY <1>2 DEF Lined, SocketTypeOK
<1>5. sending'[c] # Nil /\ sending'[c].call = own
  <2>1. sending'[c] = [id |-> next_broker_id, call |-> own]
    BY <1>3 DEF TaskTypeOK
  <2> QED
    BY <2>1, RequestFields DEF BrokerTypeOK
<1>6. \A call \in Calls, d \in Conns :
        Taken(d, call)' <=> IF d = c THEN call = own ELSE Taken(d, call)
  BY <1>3, <1>5 DEF Taken, TaskTypeOK
<1>7. OnePlace(own) /\ Truthful(own) /\ Lined(c, own) /\ IsLined(own)
  BY <1>1, <1>2 DEF CallInv, Lined, IsLined
<1>8. OnePlace(own)' /\ Truthful(own)'
  <2>1. ~IsLined(own)'
    BY <1>4, <1>7 DEF IsLined, OnePlace
  <2>2. \A d \in Conns : ~Taken(d, own)
    BY <1>7 DEF OnePlace, IsTaken
  <2>3. \A d \in Conns : Taken(d, own)' <=> d = c
    BY <1>6, <2>2
  <2>4. Unstarted(own) /\ ~IsQueued(own) /\ ~IsHandled(own)
    BY <1>7 DEF OnePlace, Unstarted
  <2>5. ~IsQueued(own)' /\ ~IsHandled(own)'
    BY <1>3, <2>4, PlacesKept
  <2> QED
    BY <1>3, <1>7, <2>1, <2>3, <2>4, <2>5, PlacesKept, CallMoves DEF IsQueued, IsHandled
<1>9. ASSUME NEW call \in Calls, call # own PROVE OnePlace(call)' /\ Truthful(call)'
  BY <1>3, <1>4, <1>6, <1>9, PlacesKept, CallShrinks DEF CallInv, Truthful
<1> QED
  BY <1>8, <1>9 DEF CallInv

\* from there to the queue of the browser
LEMMA EnqueueCalls ==
    ASSUME TypeOK, CallInv, NEW c \in Conns, Enqueue(c)
    PROVE  CallInv'
<1> USE TypeParts
<1>1. PICK own \in Calls : own = sending[c].call /\ sending[c] \in Requests /\ sending[c] # Nil
  BY RequestFields DEF Enqueue, TaskTypeOK
<1>2. PICK n \in Nat : n = Len(browser_rx)
  BY LenProperties DEF BrokerTypeOK
<1>3. /\ browser_rx' = Append(browser_rx, sending[c]) /\ sending' = [sending EXCEPT ![c] = Nil]
      /\ UNCHANGED <<status, executions, toBroker, handlers, fromExtension, routed,
                     responses, toRelay>>
  BY DEF Enqueue, relayVars, socketVars, portVars
<1>4. /\ DOMAIN browser_rx = 1..n /\ DOMAIN browser_rx' = 1..(n + 1)
      /\ browser_rx'[n + 1] = sending[c]
      /\ \A k \in 1..n : browser_rx'[k] = browser_rx[k]
  BY <1>1, <1>2, <1>3, AppendProperties, LenProperties DEF BrokerTypeOK
<1>5. \A call \in Calls, k \in Nat :
        Queued(k, call)' <=> IF k = n + 1 THEN call = own ELSE Queued(k, call)
  BY <1>1, <1>4 DEF Queued
<1>6. \A call \in Calls, d \in Conns : Taken(d, call)' <=> d # c /\ Taken(d, call)
  BY <1>3 DEF Taken, TaskTypeOK
<1>7. OnePlace(own) /\ Truthful(own) /\ Taken(c, own) /\ IsTaken(own)
  BY <1>1 DEF CallInv, Taken, IsTaken
<1>8. OnePlace(own)' /\ Truthful(own)'
  <2>1. ~IsTaken(own)'
    BY <1>6, <1>7 DEF IsTaken, OnePlace
  <2>2. Unstarted(own) /\ ~IsLined(own) /\ ~IsQueued(own) /\ ~IsHandled(own)
    BY <1>7 DEF OnePlace, Unstarted
  <2>3. \A k \in Nat : Queued(k, own)' <=> k = n + 1
    BY <1>5, <2>2 DEF IsQueued
  <2>4. ~IsLined(own)' /\ ~IsHandled(own)'
    BY <1>3, <2>2, PlacesKept
  <2> QED
    BY <1>3, <1>7, <2>1, <2>2, <2>3, <2>4, PlacesKept, CallMoves DEF IsTaken, IsHandled
<1>9. ASSUME NEW call \in Calls, call # own PROVE OnePlace(call)' /\ Truthful(call)'
  <2>1. \A k \in Nat : Queued(k, call)' => Queued(k, call)
    BY <1>5, <1>9
  <2> QED
    BY <1>3, <1>6, <2>1, PlacesKept, CallShrinks DEF CallInv, Truthful
<1> QED
  BY <1>8, <1>9 DEF CallInv

\* from there to a handler that has not acted
LEMMA StartCalls ==
    ASSUME TypeOK, CallInv, StartHandler
    PROVE  CallInv'
<1> USE TypeParts
<1>1. /\ browser_rx # <<>> /\ browser_rx \in Seq(Requests) /\ browser_rx' = Tail(browser_rx)
      /\ UNCHANGED <<status, executions, toBroker, sending, fromExtension, routed,
                     responses, toRelay>>
  BY DEF StartHandler, relayVars, socketVars, taskVars, BrokerTypeOK
<1>2. PICK n \in Nat : n = Len(browser_rx) /\ n > 0
  BY <1>1, LenProperties, EmptySeq
<1>3. PICK own \in Calls, b \in Nat : own = Head(browser_rx).call /\ b = Head(browser_rx).id
  BY <1>1, HeadTailProperties, RequestFields
<1> DEFINE new == [port |-> nativePort, id |-> b, call |-> own, stage |-> "running"]
<1>4. /\ new \in Handlers /\ new.call = own /\ new.stage = "running"
      /\ handlers' = handlers \cup {new}
  BY <1>3, Bounds DEF StartHandler, PortTypeOK, Handlers, Ports
<1> HIDE DEF new
<1>5. /\ DOMAIN browser_rx = 1..n /\ DOMAIN browser_rx' = 1..(n - 1)
      /\ browser_rx[1].call = own
      /\ \A k \in 1..(n - 1) : browser_rx'[k] = browser_rx[k + 1]
  BY <1>1, <1>2, <1>3, HeadTailProperties, LenProperties
<1>6. \A call \in Calls, k \in Nat : Queued(k, call)' <=> k > 0 /\ Queued(k + 1, call)
  BY <1>2, <1>5 DEF Queued
<1>7. \A call \in Calls, h \in Handlers : Handled(h, call)' <=>
        Handled(h, call) \/ (h = new /\ call = own)
  BY <1>4 DEF Handled
<1>8. OnePlace(own) /\ Truthful(own) /\ Queued(1, own) /\ IsQueued(own)
  BY <1>2, <1>5 DEF CallInv, Queued, IsQueued
<1>9. OnePlace(own)' /\ Truthful(own)'
  <2>1. \A k \in Nat : ~Queued(k, own)'
    BY <1>6, <1>8 DEF OnePlace
  <2>2. Unstarted(own) /\ ~IsLined(own) /\ ~IsTaken(own) /\ ~IsHandled(own)
    BY <1>8 DEF OnePlace, Unstarted
  <2>3. \A h \in Handlers : Handled(h, own)' <=> h = new
    BY <1>4, <1>7, <2>2 DEF IsHandled
  <2>4. ~IsLined(own)' /\ ~IsTaken(own)' /\ ~IsQueued(own)'
    BY <1>1, <2>1, <2>2, PlacesKept DEF IsQueued
  <2> QED
    BY <1>1, <1>4, <1>8, <2>2, <2>3, <2>4, PlacesKept, CallMoves DEF IsTaken, IsQueued
<1>10. ASSUME NEW call \in Calls, call # own PROVE OnePlace(call)' /\ Truthful(call)'
  <2>1. OnePlace(call) /\ Truthful(call)
    BY DEF CallInv
  <2>2. /\ IsLined(call)' <=> IsLined(call)
        /\ IsTaken(call)' <=> IsTaken(call)
        /\ IsHandled(call)' <=> IsHandled(call)
        /\ IsQueued(call)' => IsQueued(call)
        /\ \A k, l \in Nat : Queued(k, call)' /\ Queued(l, call)' => k = l
        /\ \A result \in Results : Told(call, result)' <=> Told(call, result)
        /\ \A d \in Conns : (Lined(d, call)' <=> Lined(d, call))
                            /\ (Taken(d, call)' <=> Taken(d, call))
    <3>1. ASSUME NEW k \in Nat, NEW l \in Nat, Queued(k, call)', Queued(l, call)' PROVE k = l
      <4>1. Queued(k + 1, call) /\ Queued(l + 1, call)
        BY <1>6, <3>1
      <4>2. k + 1 = l + 1
        BY <2>1, <4>1 DEF OnePlace
      <4> QED
        BY <4>2
    <3>2. IsQueued(call)' => IsQueued(call)
      BY <1>6 DEF IsQueued
    <3>3. IsHandled(call)' <=> IsHandled(call)
      BY <1>7, <1>10 DEF IsHandled
    <3> QED
      BY <1>1, <3>1, <3>2, <3>3, PlacesKept
  <2>3. OnePlace(call)'
    BY <1>7, <1>10, <2>1, <2>2 DEF OnePlace, Unstarted, Answered
  <2>4. Truthful(call)'
    BY <1>1, <1>7, <1>10, <2>1, <2>2 DEF Truthful, Unstarted, Answered, Results
  <2> QED
    BY <2>3, <2>4
<1> QED
  BY <1>9, <1>10 DEF CallInv

\* the handler acts, once, and the request is started
LEMMA ExecuteCalls ==
    ASSUME TypeOK, CallInv, NEW h \in handlers, Execute(h)
    PROVE  CallInv'
<1> USE TypeParts
<1> DEFINE own == h.call
           new == [h EXCEPT !.stage = "executed"]
<1>1. /\ h \in Handlers /\ own \in Calls /\ h.stage = "running"
      /\ new \in Handlers /\ new.call = own /\ new.stage = "executed"
  BY DEF Execute, PortTypeOK, Handlers
<1>2. /\ handlers' = (handlers \ {h}) \cup {new}
      /\ executions' = [executions EXCEPT ![own] = @ + 1]
      /\ UNCHANGED <<status, toBroker, sending, browser_rx, fromExtension, routed,
                     responses, toRelay>>
  BY DEF Execute, relayVars, socketVars, taskVars, brokerVars
<1>3. Handled(h, own) /\ IsHandled(own)
  BY <1>1 DEF Handled, IsHandled
<1> HIDE DEF own, new
<1>4. OnePlace(own) /\ Truthful(own)
  BY <1>1 DEF CallInv
<1>5. /\ executions[own] = 0 /\ executions'[own] = 1 /\ status[own] \in Unanswered
      /\ ~Unstarted(own) /\ ~Answered(own)
  BY <1>1, <1>2, <1>3, <1>4 DEF OnePlace, Truthful, PortTypeOK
<1>6. \A g \in Handlers : Handled(g, own)' <=> g = new
  <2>1. \A g \in Handlers : Handled(g, own) => g = h
    BY <1>1, <1>3, <1>4 DEF OnePlace
  <2> QED
    BY <1>1, <1>2, <2>1 DEF Handled
<1>7. ~Unstarted(own)' /\ ~Answered(own)'
  BY <1>2, <1>5, PlacesKept DEF Unstarted, Answered
<1>8. OnePlace(own)' /\ Truthful(own)'
  <2>1. \A c, d \in Conns : ~Lined(c, own)' /\ ~Taken(c, own)'
    BY <1>7 DEF Unstarted, IsLined, IsTaken
  <2>2. \A k \in Nat : ~Queued(k, own)'
    BY <1>7 DEF Unstarted, IsQueued
  <2>3. OnePlace(own)'
    BY <1>6, <1>7, <2>1, <2>2 DEF OnePlace, Unstarted
  <2>4. ~Told(own, "ok")' /\ status'[own] = status[own]
    BY <1>2, <1>7 DEF Answered, Results
  <2>5. Truthful(own)'
    BY <1>1, <1>2, <1>5, <1>6, <1>7, <2>4 DEF Truthful, Unanswered, Unsent, Refused
  <2> QED
    BY <2>3, <2>5
<1>9. ASSUME NEW call \in Calls, call # own PROVE OnePlace(call)' /\ Truthful(call)'
  <2>1. \A g \in Handlers : Handled(g, call)' => Handled(g, call)
    BY <1>1, <1>2, <1>9 DEF Handled, own
  <2>2. executions'[call] = executions[call]
    BY <1>2, <1>9 DEF PortTypeOK
  <2> QED
    BY <1>2, <2>1, <2>2, PlacesKept, CallShrinks DEF CallInv, Truthful
<1> QED
  BY <1>8, <1>9 DEF CallInv

\* the handler tells what came of the action it took
LEMMA ReplyCalls ==
    ASSUME TypeOK, CallInv, NEW h \in handlers, NEW result \in {"ok", "error"}, Reply(h, result)
    PROVE  CallInv'
<1> USE TypeParts
<1> DEFINE own == h.call
           message == [id |-> h.id, of |-> own, result |-> result]
<1>1. /\ h \in Handlers /\ own \in Calls /\ result \in Results
      /\ result = "ok" => h.stage = "executed"
      /\ message \in Responses /\ message.of = own /\ message.result = result
  BY DEF Reply, PortTypeOK, Handlers, Responses, Results
<1>2. /\ handlers' = handlers \ {h}
      /\ fromExtension' \in {fromExtension, Append(fromExtension, message)}
      /\ UNCHANGED <<status, executions, toBroker, sending, browser_rx, routed,
                     responses, toRelay>>
  BY DEF Reply, relayVars, socketVars, taskVars, brokerVars
<1>3. Handled(h, own) /\ IsHandled(own)
  BY <1>1 DEF Handled, IsHandled
<1>4. \A call, r : Told(call, r)' => Told(call, r) \/ (call = own /\ r = result)
  <2>1. \A k \in DOMAIN fromExtension' :
          (k \in DOMAIN fromExtension /\ fromExtension'[k] = fromExtension[k])
            \/ fromExtension'[k] = message
    BY <1>1, <1>2, AppendProperties, LenProperties DEF PortTypeOK
  <2> HIDE DEF own, message
  <2> QED
    BY <1>1, <1>2, <2>1 DEF Told, Tells
<1> HIDE DEF own, message
<1>5. OnePlace(own) /\ Truthful(own)
  BY <1>1 DEF CallInv
<1>6. /\ result = "ok" => executions[own] = 1
      /\ status[own] \in Unanswered /\ executions[own] \in {0, 1}
      /\ ~Unstarted(own) /\ ~Answered(own)
  BY <1>1, <1>3, <1>5 DEF OnePlace, Truthful
<1>7. \A g \in Handlers : ~Handled(g, own)'
  BY <1>1, <1>2, <1>3, <1>5 DEF OnePlace, Handled
<1>8. OnePlace(own)' /\ Truthful(own)'
  <2>1. ~Unstarted(own)' /\ ~IsHandled(own)'
    BY <1>2, <1>6, <1>7, PlacesKept DEF Unstarted, IsHandled
  <2>2. /\ \A c \in Conns : ~Lined(c, own)' /\ ~Taken(c, own)'
        /\ \A k \in Nat : ~Queued(k, own)'
    BY <2>1 DEF Unstarted, IsLined, IsTaken, IsQueued
  <2>3. OnePlace(own)'
    BY <1>7, <2>1, <2>2 DEF OnePlace, Unstarted
  <2>4. Told(own, "ok")' => executions'[own] = 1
    BY <1>2, <1>4, <1>6 DEF Answered, Results
  <2>5. Truthful(own)'
    BY <1>2, <1>6, <1>7, <2>1, <2>4 DEF Truthful, Unanswered, Unsent, Refused
  <2> QED
    BY <2>3, <2>5
<1>9. ASSUME NEW call \in Calls, call # own PROVE OnePlace(call)' /\ Truthful(call)'
  BY <1>2, <1>4, <1>9, PlacesKept, CallShrinks DEF CallInv, Truthful, Handled
<1> QED
  BY <1>8, <1>9 DEF CallInv

(* What the agents are not told of leaves every call where it is.          *)
LEMMA CallsKept ==
    ASSUME CallInv, UNCHANGED <<status, executions>>, browser_rx' \in {browser_rx, <<>>},
           handlers' \subseteq handlers,
           \A call \in Calls :
              /\ \A c \in Conns : Lined(c, call)' => Lined(c, call)
              /\ \A c \in Conns : Taken(c, call)' => Taken(c, call)
              /\ \A result \in Results : Told(call, result)' => Told(call, result)
    PROVE  CallInv'
<1> SUFFICES ASSUME NEW call \in Calls PROVE OnePlace(call)' /\ Truthful(call)'
  BY DEF CallInv
<1>1. /\ \A k \in Nat : Queued(k, call)' => Queued(k, call)
      /\ \A h \in Handlers : Handled(h, call)' => Handled(h, call)
  BY DEF Queued, Handled
<1> QED
  BY <1>1, CallShrinks DEF CallInv, Truthful

\* every step of a client task keeps CallInv
LEMMA TaskCalls ==
    ASSUME TypeOK, ConnectionInv, CallInv, NEW c \in Conns, TaskStep(c)
    PROVE  CallInv'
<1> USE TypeParts
<1>1. CASE Handshake(c)
  <2>1. toBroker[c] # <<>> /\ Tail(toBroker[c]) = <<>> /\ toRelay[c] = <<>>
    BY <1>1 DEF Handshake, ConnectionInv, OneAtATime, AtMostOne, Single
  <2>2. /\ toBroker' = [toBroker EXCEPT ![c] = <<>>]
        /\ toRelay' = [toRelay EXCEPT ![c] = <<Connected>>]
        /\ UNCHANGED <<relayVars, sending, responses, brokerVars, portVars>>
    BY <1>1, <2>1, Singles DEF Handshake, SocketTypeOK
  <2>3. toRelay'[c] = <<Connected>> /\ Head(toRelay'[c]) = Connected
    BY <2>2 DEF SocketTypeOK
  <2>4. \A call, result : Told(call, result)' => Told(call, result)
    BY <2>2, <2>3 DEF Told, Tells, SocketTypeOK, brokerVars, portVars
  <2>5. \A call : \A d \in Conns : Lined(d, call)' => Lined(d, call)
    BY <2>2 DEF Lined, SocketTypeOK
  <2> QED
    BY <2>2, <2>4, <2>5, PlacesKept, CallsKept DEF relayVars, brokerVars, portVars
<1>2. CASE Leave(c)
  <2>1. /\ \A call : \A d \in Conns : Lined(d, call)' => Lined(d, call)
        /\ \A call : \A d \in Conns : Taken(d, call)' => Taken(d, call)
        /\ \A call, result : Told(call, result)' => Told(call, result)
    BY <1>2 DEF Leave, Lined, Taken, Told, Tells, SocketTypeOK, TaskTypeOK, brokerVars, portVars
  <2> QED
    BY <1>2, <2>1, CallsKept DEF Leave, relayVars, brokerVars, portVars
<1>3. CASE ReadPart(c)
  BY <1>3, PlacesKept, CallsKept DEF ReadPart, relayVars, socketVars, brokerVars, portVars
<1>4. CASE WriteResponse(c)
  <2>1. responses[c] # <<>> /\ Tail(responses[c]) = <<>> /\ toBroker[c] = <<>> /\ toRelay[c] = <<>>
    BY <1>4 DEF WriteResponse, ConnectionInv, OneAtATime, AtMostOne, Single
  <2>2. Head(responses[c]) \in Responses
    BY <2>1, HeadTailProperties DEF TaskTypeOK
  <2>3. /\ UNCHANGED <<toBroker, relayVars, sending, brokerVars, portVars>>
        /\ responses' = [responses EXCEPT ![c] = <<>>]
        /\ toRelay' = [toRelay EXCEPT ![c] = <<Head(responses[c])>>]
    BY <1>4, <2>1, <2>2, Singles
    DEF WriteResponse, ConnectionInv, Begun, SocketTypeOK, TaskTypeOK
  <2>4. toRelay'[c] = <<Head(responses[c])>> /\ Head(toRelay'[c]) = Head(responses[c])
    BY <2>2, <2>3, Singles DEF SocketTypeOK
  <2>5. \A call, result : Told(call, result)' => Told(call, result)
    BY <2>1, <2>3, <2>4 DEF Told, Tells, SocketTypeOK, TaskTypeOK, brokerVars, portVars
  <2> QED
    BY <2>3, <2>5, PlacesKept, CallsKept DEF relayVars, brokerVars, portVars
<1>5. CASE Cleanup(c)
  BY <1>5, PlacesKept, CallsKept DEF Cleanup, relayVars, socketVars, portVars
<1> QED
  BY <1>1, <1>2, <1>3, <1>4, <1>5, ReadRequestCalls, EnqueueCalls
  DEF TaskStep, HandshakeFails, ReadInvalid, ReadEof, WriteResponseFails

\* so does every step of the router and the end of the broker
LEMMA BrokerCalls ==
    ASSUME TypeOK, ConnectionInv, CallInv, BrokerNext
    PROVE  CallInv'
<1> USE TypeParts
<1>1. CASE Route
  <2>1. /\ fromExtension # <<>> /\ fromExtension' = Tail(fromExtension) /\ routed = Nil
        /\ UNCHANGED <<relayVars, socketVars, taskVars, browser_rx, handlers, executions>>
    BY <1>1 DEF Route
  <2>2. /\ 1 \in DOMAIN fromExtension /\ Head(fromExtension) = fromExtension[1]
        /\ fromExtension[1] \in Responses
        /\ \A k \in DOMAIN fromExtension' :
             k + 1 \in DOMAIN fromExtension /\ fromExtension'[k] = fromExtension[k + 1]
    BY <2>1, HeadTailProperties, LenProperties, EmptySeq, ElementOfSeq DEF PortTypeOK
  <2>3. routed' # Nil => /\ routed'.response.of = fromExtension[1].of
                         /\ routed'.response.result = fromExtension[1].result
    BY <1>1, <2>2 DEF Route, Responses
  <2>4. \A call, result : Told(call, result)' => Told(call, result)
    BY <2>1, <2>2, <2>3 DEF Told, Tells, socketVars, taskVars
  <2> QED
    BY <2>1, <2>4, PlacesKept, CallsKept DEF relayVars, socketVars, taskVars
<1>2. CASE Deliver
  <2>1. PICK c \in Conns : c = routed.client_id
    BY <1>2 DEF Deliver, BrokerTypeOK, Routes
  <2>2. /\ responses[c] = <<>> /\ routed # Nil /\ routed' = Nil
        /\ responses' = [responses EXCEPT ![c] = <<routed.response>>]
        /\ UNCHANGED <<relayVars, socketVars, sending, browser_rx, portVars>>
    BY <1>2, <2>1, Singles
    DEF Deliver, ConnectionInv, OneAtATime, AtMostOne, Returning, TaskTypeOK, BrokerTypeOK, Routes
  <2>3. responses'[c] = <<routed.response>> /\ Head(responses'[c]) = routed.response
    BY <2>2 DEF TaskTypeOK
  <2>4. \A call, result : Told(call, result)' => Told(call, result)
    BY <2>2, <2>3 DEF Told, Tells, TaskTypeOK, socketVars, portVars
  <2> QED
    BY <2>2, <2>4, PlacesKept, CallsKept DEF relayVars, socketVars, portVars
<1>3. CASE Discard
  <2>1. \A call, result : Told(call, result)' => Told(call, result)
    BY <1>3 DEF Discard, Told, Tells, socketVars, taskVars, portVars
  <2> QED
    BY <1>3, <2>1, PlacesKept, CallsKept DEF Discard, relayVars, socketVars, taskVars, portVars
<1>4. CASE BrokerExit
  <2>1. /\ \A call : \A d \in Conns : ~Lined(d, call)' /\ ~Taken(d, call)'
        /\ \A call, result : Told(call, result)' => Told(call, result)
    BY <1>4 DEF BrokerExit, Lined, Taken, Told, Tells, portVars
  <2> QED
    BY <1>4, <2>1, CallsKept DEF BrokerExit, relayVars, portVars
<1> QED
  BY <1>1, <1>2, <1>3, <1>4, TaskCalls DEF BrokerNext

\* so does every step of the port and its handlers
LEMMA PortCalls ==
    ASSUME TypeOK, CallInv, PortNext
    PROVE  CallInv'
<1>1. CASE ConnectNative
  <2>1. /\ UNCHANGED <<relayVars, socketVars, taskVars, browser_rx, routed, handlers,
                       executions>>
        /\ fromExtension' = <<>>
    BY <1>1 DEF ConnectNative
  <2>2. \A call, result : Told(call, result)' => Told(call, result)
    BY <2>1 DEF Told, Tells, socketVars, taskVars
  <2> QED
    BY <2>1, <2>2, PlacesKept, CallsKept DEF relayVars, socketVars, taskVars
<1>2. CASE PortDisconnected \/ WorkerStops
  <2>1. /\ UNCHANGED <<relayVars, socketVars, taskVars, brokerVars, executions>>
        /\ handlers' \subseteq handlers /\ fromExtension' = fromExtension
    BY <1>2 DEF PortDisconnected, WorkerStops
  <2>2. \A call, result : Told(call, result)' => Told(call, result)
    BY <2>1 DEF Told, Tells, socketVars, taskVars, brokerVars
  <2> QED
    BY <2>1, <2>2, PlacesKept, CallsKept DEF relayVars, socketVars, taskVars, brokerVars
<1> QED
  BY <1>1, <1>2, StartCalls, ExecuteCalls, ReplyCalls DEF PortNext

(* A relay loses lines and tells the agent something.                      *)
LEMMA AgentHears ==
    ASSUME CallInv, UNCHANGED <<taskVars, brokerVars, portVars>>,
           \A call \in Calls : \A c \in Conns : Lined(c, call)' => Lined(c, call),
           \A c \in Conns : toRelay'[c] \in {toRelay[c], <<>>},
           \A call \in Calls :
              \/ status'[call] = status[call]
              \/ status[call] \in Unsent /\ status'[call] \in Unsent \cup Unanswered
              \/ status[call] \in Unanswered /\ status'[call] \in Unanswered
              \/ /\ ~Unstarted(call) /\ ~IsHandled(call) /\ status'[call] \in {"ok", "browserError"}
                 /\ status'[call] = "ok" => executions[call] = 1
    PROVE  CallInv'
<1> SUFFICES ASSUME NEW call \in Calls PROVE OnePlace(call)' /\ Truthful(call)'
  BY DEF CallInv
<1>1. OnePlace(call) /\ Truthful(call)
  BY DEF CallInv
<1>2. \A result : Told(call, result)' => Told(call, result)
  BY DEF Told, Tells, taskVars, brokerVars, portVars
<1>3. /\ status'[call] \in Unsent => status[call] \in Unsent
      /\ Unstarted(call) \/ IsHandled(call) =>
           status'[call] \in Unanswered \/ status[call] \notin Unanswered
      /\ status'[call] = "ok" => executions[call] = 1
  BY <1>1 DEF Truthful, Unsent, Unanswered, Refused
<1> QED
  BY <1>1, <1>2, <1>3, PlacesKept, CallShrinks DEF taskVars, brokerVars, portVars

\* a call writes the one request it has, when none is anywhere
LEMMA WriteCalls ==
    ASSUME TypeOK, Owned, ConnectionInv, CallInv, NEW own \in Calls, Write(own)
    PROVE  CallInv'
<1> USE TypeParts
<1>1. PICK c \in Conns : c = connection[own.relay] /\ c # 0
  BY Streams, CallFields DEF Write, ConnectionInv, Mutex
<1>2. /\ status[own] = "writing" /\ status' = [status EXCEPT ![own] = "waiting"]
      /\ toBroker' = [toBroker EXCEPT ![c] = Append(@, RequestOf(own))]
      /\ UNCHANGED <<toRelay, taskVars, brokerVars, portVars>>
  BY <1>1 DEF Write
<1>3. toBroker[c] = <<>>
  BY <1>1, <1>2 DEF ConnectionInv, QuietBetween, Quiet
<1>4. toBroker'[c] = <<RequestOf(own)>>
  BY <1>2, <1>3, LineFields, Singles DEF SocketTypeOK
<1>5. \A call \in Calls : \A d \in Conns :
        Lined(d, call)' <=> IF d = c THEN call = own ELSE Lined(d, call)
  <2>1. toBroker'[c] # <<>> /\ Head(toBroker'[c]) = RequestOf(own)
    BY <1>4, LineFields, Singles
  <2>2. \A d \in Conns \ {c} : toBroker'[d] = toBroker[d]
    BY <1>2 DEF SocketTypeOK
  <2> QED
    BY <2>1, <2>2, RequestLines DEF Lined
<1>6. OnePlace(own) /\ Truthful(own) /\ status'[own] = "waiting"
  BY <1>2 DEF CallInv, RelayTypeOK
<1>7. /\ ~Unstarted(own) /\ ~IsHandled(own) /\ ~Answered(own)
      /\ executions[own] = 0 /\ executions'[own] = 0
  BY <1>2, <1>6 DEF Truthful, Unsent, Unanswered, portVars
<1>8. OnePlace(own)' /\ Truthful(own)'
  <2>1. \A d \in Conns : Lined(d, own)' <=> d = c
    BY <1>5, <1>7 DEF Unstarted, IsLined
  <2>2. ~IsTaken(own)' /\ ~IsQueued(own)' /\ ~IsHandled(own)' /\ ~Answered(own)'
    BY <1>2, <1>7, PlacesKept DEF Unstarted, Answered, taskVars, brokerVars, portVars
  <2>3. /\ \A d \in Conns : ~Taken(d, own)'
        /\ \A k \in Nat : ~Queued(k, own)'
        /\ \A h \in Handlers : ~Handled(h, own)'
        /\ ~Told(own, "ok")'
    BY <2>2 DEF IsTaken, IsQueued, IsHandled, Answered, Results
  <2>4. OnePlace(own)'
    BY <2>1, <2>2, <2>3 DEF OnePlace, Unstarted
  <2>5. Truthful(own)'
    BY <1>6, <1>7, <2>2, <2>3 DEF Truthful, Unanswered, Unsent, Refused
  <2> QED
    BY <2>4, <2>5
<1>9. ASSUME NEW call \in Calls, call # own PROVE OnePlace(call)' /\ Truthful(call)'
  <2>1. status'[call] = status[call]
    BY <1>2, <1>9 DEF RelayTypeOK
  <2>2. \A result : Told(call, result)' <=> Told(call, result)
    BY <1>2, PlacesKept DEF taskVars, brokerVars, portVars
  <2> QED
    BY <1>2, <1>5, <1>9, <2>1, <2>2, PlacesKept, CallShrinks
    DEF CallInv, Truthful, taskVars, brokerVars, portVars
<1> QED
  BY <1>8, <1>9 DEF CallInv

\* a call hears what came of its own request
LEMMA ReceiveCalls ==
    ASSUME TypeOK, Owned, OwnResponse, ConnectionInv, CallInv, NEW own \in Calls, Receive(own)
    PROVE  CallInv'
<1> USE TypeParts
<1>1. PICK c \in Conns : c = connection[own.relay] /\ c # 0
  BY Streams, CallFields DEF Receive, ConnectionInv, Mutex
<1> DEFINE line == Head(toRelay[c])
<1>2. /\ toRelay[c] # <<>> /\ Tail(toRelay[c]) = <<>>
      /\ toRelay' = [toRelay EXCEPT ![c] = <<>>]
      /\ status[own] = "waiting"
      /\ UNCHANGED <<toBroker, taskVars, brokerVars, portVars>>
  BY <1>1 DEF Receive, ConnectionInv, OneAtATime, AtMostOne, Single
<1>3. \/ UNCHANGED status
      \/ /\ line # Connected /\ line.id = own.id
         /\ status' = [status EXCEPT ![own] =
                         IF line.result = "ok" THEN "ok" ELSE "browserError"]
  BY <1>1 DEF Receive, Return
<1>4. ASSUME line # Connected, line.id = own.id
      PROVE  line.of = own /\ line.result \in Results /\ Told(own, line.result)
  <2>1. line = toRelay[c][1] /\ 1 \in 1..Len(toRelay[c]) /\ line \in Responses
    BY <1>2, <1>4, HeadTailProperties, LenProperties, EmptySeq DEF SocketTypeOK
  <2>2. line.of = [relay |-> owner[c], id |-> line.id]
    BY <1>4, <2>1 DEF OwnResponse, Answers
  <2>3. owner[c] = own.relay
    BY <1>1, CallFields DEF Owned
  <2>4. line.of = own
    BY <1>4, <2>1, <2>2, <2>3, SameCall, CallFields DEF Responses
  <2> QED
    BY <1>2, <1>4, <2>1, <2>4 DEF Told, Tells, Responses, Results
<1> HIDE DEF line
<1>5. ASSUME NEW call \in Calls
      PROVE  \/ status'[call] = status[call]
             \/ /\ ~Unstarted(call) /\ ~IsHandled(call)
                /\ status'[call] \in {"ok", "browserError"}
                /\ status'[call] = "ok" => executions[call] = 1
  <2>1. OnePlace(call) /\ Truthful(call)
    BY DEF CallInv
  <2>2. CASE status'[call] # status[call]
    <3>1. call = own /\ line # Connected /\ line.id = own.id
          /\ status'[own] = IF line.result = "ok" THEN "ok" ELSE "browserError"
      BY <1>3, <2>2 DEF RelayTypeOK
    <3>2. line.result \in Results /\ Told(own, line.result)
      BY <1>4, <3>1
    <3> QED
      BY <2>1, <3>1, <3>2 DEF OnePlace, Truthful, Answered
  <2> QED
    BY <2>2
<1>6. /\ \A call \in Calls : \A d \in Conns : Lined(d, call)' => Lined(d, call)
      /\ \A d \in Conns : toRelay'[d] \in {toRelay[d], <<>>}
  BY <1>2, PlacesKept DEF SocketTypeOK
<1> QED
  BY <1>2, <1>5, <1>6, AgentHears

\* every step of the relays keeps CallInv
LEMMA RelayCalls ==
    ASSUME TypeOK, Fresh, Owned, OwnResponse, ConnectionInv, CallInv, RelayNext
    PROVE  CallInv'
<1> USE TypeParts
<1>1. ASSUME NEW call \in Calls, NEW s \in Refused \cup {"outcome_unknown"},
             status[call] \in {"connecting", "greeting", "writing", "waiting"},
             s \in Refused => status[call] \in {"connecting", "greeting"},
             Return(call, s), Drop(call.relay),
             UNCHANGED <<toBroker, taskVars, brokerVars, portVars>>
      PROVE  CallInv'
  <2>1. \A other \in Calls : status'[other] = IF other = call THEN s ELSE status[other]
    BY <1>1 DEF Return, RelayTypeOK
  <2> QED
    BY <1>1, <2>1, PlacesKept, DropKeeps, CallFields, AgentHears DEF Unsent, Unanswered, Refused
<1>2. ASSUME NEW call \in Calls, NEW s \in Unsent, status[call] \in Unsent,
             status' = [status EXCEPT ![call] = s],
             \A other \in Calls : \A c \in Conns : Lined(c, other)' => Lined(c, other),
             \A c \in Conns : toRelay'[c] \in {toRelay[c], <<>>},
             UNCHANGED <<taskVars, brokerVars, portVars>>
      PROVE  CallInv'
  <2>1. \A other \in Calls : status'[other] = IF other = call THEN s ELSE status[other]
    BY <1>2 DEF RelayTypeOK
  <2> QED
    BY <1>2, <2>1, AgentHears
<1>3. ASSUME NEW call \in Calls, Lock(call) \/ Authenticated(call)
      PROVE  CallInv'
  <2>1. PICK s \in Unsent : status' = [status EXCEPT ![call] = s] /\ status[call] \in Unsent
    BY <1>3 DEF Lock, Authenticated, Unsent
  <2>2. \A c \in Conns : toRelay'[c] \in {toRelay[c], <<>>}
    <3>1. CASE Lock(call)
      BY <3>1 DEF Lock, socketVars
    <3>2. CASE Authenticated(call)
      <4>1. PICK c \in Conns : c = connection[call.relay]
        BY <3>2, Streams, CallFields DEF Authenticated, ConnectionInv, Mutex
      <4>2. toRelay' = [toRelay EXCEPT ![c] = <<>>]
        BY <3>2, <4>1 DEF Authenticated, ConnectionInv, OneAtATime, AtMostOne, Single
      <4> QED
        BY <4>2 DEF SocketTypeOK
    <3> QED
      BY <1>3, <3>1, <3>2
  <2>3. UNCHANGED <<toBroker, taskVars, brokerVars, portVars>>
    BY <1>3 DEF Lock, Authenticated, socketVars
  <2> QED
    BY <1>2, <2>1, <2>2, <2>3, PlacesKept
<1>4. ASSUME NEW call \in Calls, Connect(call) PROVE CallInv'
  <2>1. PICK c \in Conns : toBroker' = [toBroker EXCEPT ![c] = <<Hello>>]
    BY <1>4 DEF Connect
  <2>2. \A other \in Calls : \A d \in Conns : Lined(d, other)' => Lined(d, other)
    BY <2>1, LineFields, RequestLines, Singles DEF Lined, SocketTypeOK
  <2>3. /\ status[call] \in Unsent /\ "greeting" \in Unsent
        /\ status' = [status EXCEPT ![call] = "greeting"]
        /\ UNCHANGED <<toRelay, partial, sending, responses, brokerVars, portVars>>
    BY <1>4 DEF Connect, Unsent
  <2>4. \A other \in Calls : status'[other] = IF other = call THEN "greeting" ELSE status[other]
    BY <2>3 DEF RelayTypeOK
  <2>5. ASSUME NEW other \in Calls PROVE OnePlace(other)' /\ Truthful(other)'
    <3>1. OnePlace(other) /\ Truthful(other) /\ (status[other] = "ok" => executions[other] = 1)
      BY DEF CallInv, Truthful
    <3>2. \A result : Told(other, result)' <=> Told(other, result)
      BY <2>3, PlacesKept DEF brokerVars, portVars
    <3>3. /\ \A d \in Conns : Taken(d, other)' => Taken(d, other)
          /\ \A k \in Nat : Queued(k, other)' => Queued(k, other)
          /\ \A h \in Handlers : Handled(h, other)' => Handled(h, other)
          /\ executions'[other] = executions[other]
      BY <2>3, PlacesKept DEF brokerVars, portVars
    <3>4. /\ status'[other] \in Unsent => status[other] \in Unsent
          /\ status'[other] \in Unanswered \/ status[other] \notin Unanswered
          /\ status'[other] = "ok" => status[other] = "ok"
      BY <2>3, <2>4 DEF Unanswered, Unsent, Refused
    <3> QED
      BY <2>2, <3>1, <3>2, <3>3, <3>4, CallShrinks
  <2> QED
    BY <2>5 DEF CallInv
<1>5. ASSUME NEW call \in Calls, CallStep(call) PROVE CallInv'
  <2>1. CASE ConnectTimeout(call) \/ AuthenticateFails(call)
    BY <1>1, <2>1 DEF ConnectTimeout, AuthenticateFails, Refused
  <2>2. CASE WriteFails(call) \/ Disconnected(call) \/ RequestTimeout(call)
    BY <1>1, <2>2 DEF WriteFails, Disconnected, RequestTimeout, Refused
  <2> QED
    BY <1>3, <1>4, <1>5, <2>1, <2>2, WriteCalls, ReceiveCalls DEF CallStep, LimitedStep
<1>6. ASSUME NEW r \in Relays, Call(r) PROVE CallInv'
  <2>1. PICK call \in Calls : call = [relay |-> r, id |-> next_request_id[r]]
    BY <1>6, Bounds, CallFields DEF Call, RelayTypeOK, Ids
  <2>2. status[call] = "idle"
    BY <2>1, Bounds DEF ConnectionInv, Mutex, RelayTypeOK
  <2>3. /\ status' = [status EXCEPT ![call] = "queued"]
        /\ UNCHANGED <<toBroker, toRelay, taskVars, brokerVars, portVars>>
    BY <1>6, <2>1 DEF Call, socketVars
  <2> QED
    BY <1>2, <2>2, <2>3, PlacesKept DEF Unsent
<1>7. ASSUME NEW r \in Relays, EndProcess(r),
             \A other \in Calls : \A c \in Conns : Lined(c, other)' => Lined(c, other)
      PROVE  CallInv'
  <2>1. \A call \in Calls : \/ status'[call] = status[call]
                            \/ /\ status[call] \in InLock \cup {"queued"}
                               /\ status'[call] = "abandoned"
    BY <1>7 DEF EndProcess
  <2>2. \A c \in Conns : toRelay'[c] \in {toRelay[c], <<>>}
    BY <1>7, EndMutex DEF ConnectionInv
  <2> QED
    BY <1>7, <2>1, <2>2, AgentHears DEF EndProcess, InLock, Unsent, Unanswered
<1>8. ASSUME NEW call \in Calls, KilledWriting(call) PROVE CallInv'
  <2>1. PICK c \in Conns : c = connection[call.relay] /\ c # 0
    BY <1>8, Streams, CallFields DEF KilledWriting, ConnectionInv, Mutex
  <2>2. toBroker[c] = <<>>
    BY <1>8, <2>1 DEF KilledWriting, ConnectionInv, QuietBetween, Quiet
  <2>3. toBroker' = [toBroker EXCEPT ![c] = <<Garbage>>]
    BY <1>8, <2>1, <2>2, LineFields, Singles DEF KilledWriting, SocketTypeOK
  <2>4. \A other \in Calls : \A d \in Conns : Lined(d, other)' => Lined(d, other)
    BY <2>3, LineFields, RequestLines, Singles DEF Lined, SocketTypeOK
  <2> QED
    BY <1>7, <1>8, <2>4, CallFields DEF KilledWriting
<1> QED
  BY <1>5, <1>6, <1>7, <1>8, PlacesKept DEF RelayNext, Exit

\* CallInv holds in every reachable state
LEMMA CallsInvariant == Spec => []CallInv
<1>1. Init => CallInv
  <2> SUFFICES ASSUME Init, NEW call \in Calls PROVE OnePlace(call) /\ Truthful(call)
    BY DEF CallInv
  <2>1. /\ ~IsLined(call) /\ ~IsTaken(call) /\ ~IsQueued(call) /\ ~IsHandled(call)
        /\ \A result : ~Told(call, result)
    BY DEF Init, IsLined, Lined, IsTaken, Taken, IsQueued, Queued, IsHandled, Handled, Told
  <2>2. executions[call] = 0 /\ status[call] = "idle"
    BY DEF Init
  <2> QED
    BY <2>1, <2>2 DEF OnePlace, Truthful, Unstarted, Answered, IsLined, IsTaken, IsQueued, IsHandled
<1>2. RoutingInv /\ ConnectionInv /\ CallInv /\ [Next]_vars => CallInv'
  <2> SUFFICES ASSUME RoutingInv, ConnectionInv, CallInv, [Next]_vars PROVE CallInv'
    OBVIOUS
  <2>1. CASE UNCHANGED vars
    BY <2>1, PlacesKept, CallsKept
    DEF vars, relayVars, socketVars, taskVars, brokerVars, portVars
  <2> QED
    BY <2>1, RelayCalls, BrokerCalls, PortCalls DEF Next, RoutingInv
<1> QED
  BY <1>1, <1>2, RoutingInvariant, ConnectionInvariant, PTL DEF Spec

(* What the agent is told of a call is true of its action, whatever fails  *)
(* between them: it ran at most once, it ran if a result came back, it has *)
(* not run if the call was refused (relay.rs:91-146, tools.rs:94-101).     *)
THEOREM OutcomesAreTrue == Spec => []OutcomeSound
<1>1. CallInv => OutcomeSound
  BY DEF CallInv, Truthful, OutcomeSound, Unsent
<1> QED
  BY <1>1, CallsInvariant, PTL

(* Two handlers of one session run at a time only when the agent was told  *)
(* that it cannot know the outcome of the older call, or has left.         *)
THEOREM OverlapsAreKnown == Spec => []OverlapOnlyAfterUnknown
<1>1. RoutingInv /\ ConnectionInv /\ CallInv => OverlapOnlyAfterUnknown
  <2> SUFFICES ASSUME RoutingInv, ConnectionInv, CallInv,
                      NEW h1 \in handlers, NEW h2 \in handlers,
                      h1.call.relay = h2.call.relay, h1.call.id < h2.call.id
               PROVE  \/ status[h1.call] \in {"outcome_unknown", "abandoned"}
                      \/ status[h2.call] \in {"outcome_unknown", "abandoned"}
    BY DEF OverlapOnlyAfterUnknown
  <2>1. h1 \in Handlers /\ h2 \in Handlers /\ h1.call \in Calls /\ h2.call \in Calls
    BY TypeParts DEF RoutingInv, PortTypeOK, Handlers
  <2>2. status[h1.call] \in Unanswered /\ status[h2.call] \in Unanswered
    BY <2>1 DEF CallInv, Truthful, IsHandled, Handled
  <2>3. h1.call # h2.call
    BY <2>1, Bounds, CallFields DEF Ids
  <2> QED
    BY <2>1, <2>2, <2>3, OneInLock DEF RoutingInv, ConnectionInv, Unanswered, InLock
<1> QED
  BY <1>1, RoutingInvariant, ConnectionInvariant, CallsInvariant, PTL

-----------------------------------------------------------------------------
(***************************************************************************)
(* The write of a request is read: the client's task is past the handshake,*)
(* and a task that waits for room in the browser's queue has an entry in   *)
(* pending, of which a connection in QuietBetween has none.                *)
(***************************************************************************)
Entry(c, p) == p.client_id = c /\ p.broker_id = sending[c].id

Entered == \A c \in Conns : task[c] = "enqueue" => \E p \in pending : Entry(c, p)

Greeted ==
    /\ \A c \in Conns : task[c] = "handshake" => toRelay[c] = <<>>
    /\ \A call \in Calls : status[call] \in {"writing", "waiting"} =>
         connection[call.relay] \in Conns /\ task[connection[call.relay]] # "handshake"
    /\ \A r \in Relays : guard[r] = 0 /\ connection[r] # 0 =>
         task[connection[r]] # "handshake"

HeardInv == Entered /\ Greeted

\* a step that leaves the waiting tasks and their entries alone
LEMMA EntriesKept ==
    ASSUME Entered,
           \A c \in Conns : task'[c] = "enqueue" =>
             task[c] = "enqueue" /\ sending'[c] = sending[c],
           \A c \in Conns, p \in pending : task[c] = "enqueue" /\ Entry(c, p) => p \in pending'
    PROVE  Entered'
  BY DEF Entered, Entry

\* the router takes no entry of a task that waits: its request is in one place
LEMMA RouteEntries ==
    ASSUME RoutingInv, CallInv, Entered, Route
    PROVE  Entered'
<1> USE TypeParts DEF RoutingInv
<1>1. /\ fromExtension # <<>> /\ UNCHANGED taskVars
      /\ pending' = pending \ {p \in pending : p.broker_id = Head(fromExtension).id}
  BY DEF Route
<1>2. PICK message \in Responses :
        /\ message = Head(fromExtension) /\ 1 \in DOMAIN fromExtension
        /\ message = fromExtension[1]
  BY <1>1 DEF PortTypeOK
<1>3. Correlated(message.id, message.of) /\ message.of \in Calls /\ message.result \in Results
  <2>1. 1 \in 1..Len(fromExtension)
    BY <1>2 DEF PortTypeOK
  <2>2. Correlated(fromExtension[1].id, fromExtension[1].of)
    BY <2>1 DEF RequestsCorrelated, RepliesCorrelated
  <2> QED
    BY <1>2, <2>2 DEF Responses, Results
<1>4. Answered(message.of)
  BY <1>2, <1>3 DEF Answered, Told, Tells
<1>5. ASSUME NEW c \in Conns, NEW p \in pending, task[c] = "enqueue", Entry(c, p)
      PROVE  p.broker_id # message.id
  <2>1. sending[c] # Nil /\ Correlated(sending[c].id, sending[c].call)
    BY <1>5 DEF TaskTypeOK, RequestsCorrelated, SendingCorrelated
  <2>2. sending[c].call = [relay |-> owner[p.client_id], id |-> p.original_id]
    BY <1>5, <2>1 DEF Correlated, Matches, Entry
  <2>3. ASSUME p.broker_id = message.id PROVE FALSE
    <3>1. message.of = [relay |-> owner[p.client_id], id |-> p.original_id]
      BY <1>3, <1>5, <2>3 DEF Correlated, Matches
    <3>2. IsTaken(message.of)
      BY <2>1, <2>2, <3>1 DEF IsTaken, Taken
    <3> QED
      BY <1>3, <1>4, <3>2 DEF CallInv, OnePlace, Unstarted
  <2> QED
    BY <2>3
<1> QED
  BY <1>1, <1>2, <1>5, EntriesKept DEF taskVars

\* a client task enters its request before it waits, and takes the entries of
\* nobody else
LEMMA TaskEntries ==
    ASSUME RoutingInv, Entered, NEW c \in Conns, TaskStep(c)
    PROVE  Entered'
<1> USE TypeParts DEF RoutingInv
<1>1. CASE ReadRequest(c)
  <2>1. PICK entry : /\ entry.client_id = c /\ entry.broker_id = next_broker_id
                     /\ pending' = {p \in pending : p.broker_id # next_broker_id} \cup {entry}
    BY <1>1 DEF ReadRequest
  <2>2. /\ sending'[c].id = next_broker_id
        /\ \A d \in Conns \ {c} : task'[d] = task[d] /\ sending'[d] = sending[d]
    BY <1>1 DEF ReadRequest, TaskTypeOK
  <2>3. ASSUME NEW d \in Conns, task'[d] = "enqueue"
        PROVE  \E p \in pending' : Entry(d, p)'
    <3>1. CASE d = c
      BY <2>1, <2>2, <3>1 DEF Entry
    <3>2. CASE d # c
      <4>1. PICK p \in pending : Entry(d, p)
        BY <2>2, <2>3, <3>2 DEF Entered
      <4>2. sending[d].id < next_broker_id /\ sending[d].id \in Nat /\ next_broker_id \in Nat
        BY <2>2, <2>3, <3>2, RequestFields
        DEF TaskTypeOK, BrokerTypeOK, RequestsCorrelated, SendingCorrelated, Correlated
      <4>3. p \in pending'
        BY <2>1, <4>1, <4>2 DEF Entry
      <4> QED
        BY <2>2, <3>2, <4>1, <4>3 DEF Entry
    <3> QED
      BY <3>1, <3>2
  <2> QED
    BY <2>3 DEF Entered
<1>2. CASE Cleanup(c)
  BY <1>2, EntriesKept DEF Cleanup, TaskTypeOK, Entry
<1>3. CASE Handshake(c) \/ ReadPart(c) \/ Enqueue(c) \/ WriteResponse(c)
  BY <1>3, EntriesKept DEF Handshake, ReadPart, Enqueue, WriteResponse, TaskTypeOK,
     brokerVars
<1>4. CASE Leave(c)
  BY <1>4, EntriesKept DEF Leave, TaskTypeOK, brokerVars
<1> QED
  BY <1>1, <1>2, <1>3, <1>4 DEF TaskStep, HandshakeFails, ReadInvalid, ReadEof,
     WriteResponseFails

\* so does every step
LEMMA EntriesStep ==
    ASSUME RoutingInv, CallInv, Entered, [Next]_vars
    PROVE  Entered'
<1> USE TypeParts DEF RoutingInv
<1>1. CASE UNCHANGED vars
  BY <1>1, EntriesKept DEF vars, taskVars, brokerVars
<1>2. CASE PortNext
  <2>1. ConnectNative \/ PortDisconnected \/ WorkerStops \/ StartHandler =>
          UNCHANGED <<taskVars, pending>>
    BY DEF ConnectNative, PortDisconnected, WorkerStops, StartHandler, brokerVars
  <2>2. \A h \in handlers, result \in {"ok", "error"} :
          Execute(h) \/ Reply(h, result) => UNCHANGED <<taskVars, pending>>
    BY DEF Execute, Reply, brokerVars
  <2>3. UNCHANGED <<taskVars, pending>>
    BY <1>2, <2>1, <2>2 DEF PortNext
  <2> QED
    BY <2>3, EntriesKept DEF taskVars
<1>3. CASE RelayNext
  <2>1. ASSUME NEW call \in Calls, Connect(call) PROVE Entered'
    BY <2>1, EntriesKept DEF Connect, TaskTypeOK, brokerVars
  <2>2. CASE ~\E call \in Calls : Connect(call)
    <3>1. \A call \in Calls : CallStep(call) /\ ~Connect(call) => UNCHANGED <<taskVars, pending>>
      BY DEF CallStep, LimitedStep, Lock, ConnectTimeout, Authenticated, AuthenticateFails,
         Write, WriteFails, Receive, Disconnected, RequestTimeout, brokerVars
    <3>2. /\ \A r \in Relays : Call(r) \/ Exit(r) => UNCHANGED <<taskVars, pending>>
          /\ \A call \in Calls : KilledWriting(call) => UNCHANGED <<taskVars, pending>>
      BY DEF Call, Exit, EndProcess, KilledWriting, brokerVars
    <3>3. UNCHANGED <<taskVars, pending>>
      BY <1>3, <2>2, <3>1, <3>2 DEF RelayNext
    <3> QED
      BY <3>3, EntriesKept DEF taskVars
  <2> QED
    BY <2>1, <2>2
<1>4. CASE Deliver \/ Discard
  BY <1>4, EntriesKept DEF Deliver, Discard, taskVars, brokerVars
<1>5. CASE BrokerExit
  BY <1>5 DEF BrokerExit, Entered
<1> QED
  BY <1>1, <1>2, <1>3, <1>4, <1>5, RouteEntries, TaskEntries DEF Next, BrokerNext

\* the worker and the broker leave the relays alone, and a task greets once
LEMMA BrokerGreets ==
    ASSUME TypeOK, Greeted, BrokerNext \/ PortNext \/ UNCHANGED vars
    PROVE  Greeted'
<1> USE TypeParts
<1>1. CASE UNCHANGED <<relayVars, toRelay, task>>
  BY <1>1 DEF Greeted, relayVars
<1>2. ASSUME NEW c \in Conns, NEW stage \in {"select", "enqueue", "cleanup", "gone"},
             task' = [task EXCEPT ![c] = stage],
             \A d \in Conns \ {c} : toRelay'[d] = toRelay[d], UNCHANGED relayVars
      PROVE  Greeted'
  <2>1. \A d : d \in Conns /\ task'[d] = "handshake" => d # c /\ task[d] = "handshake"
    BY <1>2 DEF TaskTypeOK
  <2>2. \A call \in Calls : status[call] \in {"writing", "waiting"} =>
          /\ connection'[call.relay] \in Conns
          /\ task'[connection'[call.relay]] # "handshake"
    BY <1>2, Streams, CallFields DEF Greeted, TaskTypeOK, relayVars
  <2>3. \A r \in Relays : guard[r] = 0 /\ connection[r] # 0 =>
          task'[connection[r]] # "handshake"
    BY <1>2 DEF Greeted, TaskTypeOK
  <2> QED
    BY <1>2, <2>1, <2>2, <2>3 DEF Greeted, relayVars
<1>3. ASSUME NEW c \in Conns, TaskStep(c) PROVE Greeted'
  <2>1. CASE Handshake(c)
    BY <1>2, <2>1 DEF Handshake, SocketTypeOK
  <2>2. CASE ReadPart(c)
    BY <1>1, <2>2 DEF ReadPart, socketVars
  <2>3. CASE ReadRequest(c)
    BY <1>2, <2>3 DEF ReadRequest
  <2>4. CASE Enqueue(c)
    BY <1>2, <2>4 DEF Enqueue, socketVars
  <2>5. CASE WriteResponse(c)
    <3>1. /\ task[c] = "select"
          /\ \A d \in Conns \ {c} : toRelay'[d] = toRelay[d]
          /\ UNCHANGED <<task, relayVars>>
      BY <2>5 DEF WriteResponse, SocketTypeOK
    <3> QED
      BY <3>1 DEF Greeted, relayVars
  <2>6. CASE Leave(c)
    BY <1>2, <2>6 DEF Leave
  <2>7. CASE Cleanup(c)
    BY <1>2, <2>7 DEF Cleanup, socketVars
  <2> QED
    BY <1>3, <2>1, <2>2, <2>3, <2>4, <2>5, <2>6, <2>7 DEF TaskStep, HandshakeFails,
       ReadInvalid, ReadEof, WriteResponseFails
<1>4. CASE Route \/ Deliver \/ Discard
  BY <1>1, <1>4 DEF Route, Deliver, Discard, socketVars, taskVars
<1>5. CASE BrokerExit
  <2>1. \A c \in Conns : task'[c] # "handshake"
    BY <1>5 DEF BrokerExit
  <2>2. UNCHANGED relayVars
    BY <1>5 DEF BrokerExit
  <2>3. \A r \in Relays : connection[r] # 0 => connection[r] \in Conns
    BY Streams
  <2>4. \A call \in Calls : status[call] \in {"writing", "waiting"} =>
          connection[call.relay] \in Conns /\ task'[connection[call.relay]] # "handshake"
    BY <2>1, CallFields DEF Greeted
  <2> QED
    BY <2>1, <2>2, <2>3, <2>4 DEF Greeted, relayVars
<1>6. CASE PortNext
  <2>1. ConnectNative \/ PortDisconnected \/ WorkerStops \/ StartHandler =>
          UNCHANGED <<relayVars, toRelay, task>>
    BY DEF ConnectNative, PortDisconnected, WorkerStops, StartHandler, socketVars, taskVars
  <2>2. \A h \in handlers, result \in {"ok", "error"} :
          Execute(h) \/ Reply(h, result) => UNCHANGED <<relayVars, toRelay, task>>
    BY DEF Execute, Reply, socketVars, taskVars
  <2>3. UNCHANGED <<relayVars, toRelay, task>>
    BY <1>6, <2>1, <2>2 DEF PortNext
  <2> QED
    BY <1>1, <2>3
<1> QED
  BY <1>1, <1>3, <1>4, <1>5, <1>6 DEF BrokerNext, vars, socketVars, taskVars

\* a call finds a stream that was greeted, or waits for the greeting
LEMMA RelayGreets ==
    ASSUME TypeOK, Fresh, Mutex, Greeted, RelayNext
    PROVE  Greeted'
<1> USE TypeParts
<1>1. ASSUME NEW call \in Calls, Connect(call) PROVE Greeted'
  <2> DEFINE c == next_client_id
  <2>1. /\ c \in Conns /\ toRelay[c] = <<>> /\ UNCHANGED <<toRelay, guard>>
        /\ task' = [task EXCEPT ![c] = "handshake"]
        /\ connection' = [connection EXCEPT ![call.relay] = c]
        /\ status' = [status EXCEPT ![call] = "greeting"]
        /\ \A r \in Relays : connection[r] < c
    BY <1>1 DEF Connect, Fresh, SocketTypeOK
  <2>2. guard[call.relay] # 0
        /\ \A other \in Calls \ {call} : other.relay = call.relay => status[other] \notin InLock
    BY <1>1, OneInLock DEF Connect, InLock
  <2>3. \A d \in Conns : task'[d] = "handshake" => toRelay'[d] = <<>>
    BY <2>1 DEF Greeted, TaskTypeOK
  <2>4. ASSUME NEW other \in Calls, status'[other] \in {"writing", "waiting"}
        PROVE  /\ connection'[other.relay] \in Conns
               /\ task'[connection'[other.relay]] # "handshake"
    <3>1. other # call /\ status[other] = status'[other]
      BY <2>1, <2>4 DEF RelayTypeOK
    <3>2. other.relay # call.relay
      BY <2>2, <2>4, <3>1 DEF InLock
    <3>3. connection'[other.relay] = connection[other.relay] /\ connection[other.relay] < c
      BY <2>1, <3>2, CallFields DEF RelayTypeOK
    <3>4. connection[other.relay] \in Nat /\ c \in Nat
      BY <2>1, CallFields, Bounds DEF RelayTypeOK, Conns
    <3>5. connection[other.relay] # c
      BY <3>3, <3>4
    <3> QED
      BY <2>1, <2>4, <3>1, <3>3, <3>5 DEF Greeted, TaskTypeOK
  <2>5. ASSUME NEW r \in Relays, guard'[r] = 0, connection'[r] # 0
        PROVE  task'[connection'[r]] # "handshake"
    <3>1. r # call.relay
      BY <2>1, <2>2, <2>5
    <3>2. connection'[r] = connection[r] /\ connection[r] < c
      BY <2>1, <3>1 DEF RelayTypeOK
    <3>3. connection[r] \in Nat /\ c \in Nat
      BY <2>1, Bounds DEF RelayTypeOK, Conns
    <3>4. connection[r] # c
      BY <3>2, <3>3
    <3> QED
      BY <2>1, <2>5, <3>2, <3>4, Streams DEF Greeted, TaskTypeOK
  <2> QED
    BY <2>3, <2>4, <2>5 DEF Greeted
<1>2. ASSUME NEW r \in Relays, Drop(r), task' = task,
             \A call \in Calls : status'[call] \in {"writing", "waiting"} =>
               call.relay # r /\ status'[call] = status[call],
             \A q \in Relays \ {r} : guard'[q] = guard[q]
      PROVE  Greeted'
  <2>1. \A q \in Relays \ {r} : connection'[q] = connection[q]
    BY <1>2 DEF Drop, RelayTypeOK
  <2>2. connection'[r] = 0
    BY <1>2 DEF Drop, RelayTypeOK
  <2>3. \A c \in Conns : toRelay'[c] \in {toRelay[c], <<>>}
    BY <1>2 DEF Drop, SocketTypeOK
  <2> QED
    BY <1>2, <2>1, <2>2, <2>3, CallFields DEF Greeted
<1>3. ASSUME NEW call \in Calls, status[call] \in InLock, NEW s \in Outcomes,
             Return(call, s), Drop(call.relay), task' = task
      PROVE  Greeted'
  <2>1. \A other \in Calls : status'[other] \in {"writing", "waiting"} =>
          other.relay # call.relay /\ status'[other] = status[other]
    <3>1. ASSUME NEW other \in Calls, status'[other] \in {"writing", "waiting"}
          PROVE  other.relay # call.relay /\ status'[other] = status[other]
      <4>1. other # call /\ status'[other] = status[other]
        BY <1>3, <3>1 DEF Return, RelayTypeOK, Outcomes, Refused
      <4> QED
        BY <1>3, <3>1, <4>1, OneInLock DEF InLock
    <3> QED
      BY <3>1
  <2>2. \A q \in Relays \ {call.relay} : guard'[q] = guard[q]
    BY <1>3 DEF Return, RelayTypeOK
  <2> QED
    BY <1>2, <1>3, <2>1, <2>2, CallFields
<1>4. ASSUME NEW call \in Calls, CallStep(call) PROVE Greeted'
  <2>1. CASE Lock(call)
    <3>1. /\ UNCHANGED <<task, toRelay, connection>> /\ guard[call.relay] = 0
          /\ \A r \in Relays : guard'[r] = 0 => guard[r] = 0
          /\ \A other \in Calls \ {call} : status'[other] = status[other]
          /\ status'[call] = "writing" => connection[call.relay] # 0
          /\ status'[call] # "waiting"
      BY <2>1, CallFields, Bounds DEF Lock, RelayTypeOK, taskVars, socketVars, Ids
    <3> QED
      BY <3>1, CallFields, Streams DEF Greeted
  <2>2. CASE ConnectTimeout(call)
    BY <1>3, <2>2 DEF ConnectTimeout, InLock, Outcomes, Refused, taskVars
  <2>3. CASE Authenticated(call)
    <3> DEFINE c == connection[call.relay]
    <3>1. c \in Conns
      BY <2>3, CallFields, Streams DEF Authenticated, Mutex
    <3>2. /\ toRelay[c] # <<>> /\ UNCHANGED <<task, guard, connection>>
          /\ \A d \in Conns \ {c} : toRelay'[d] = toRelay[d]
          /\ \A other \in Calls \ {call} : status'[other] = status[other]
      BY <2>3, <3>1 DEF Authenticated, SocketTypeOK, RelayTypeOK, taskVars
    <3>3. task[c] # "handshake"
      BY <3>1, <3>2 DEF Greeted
    <3> QED
      BY <3>1, <3>2, <3>3, CallFields DEF Greeted
  <2>4. CASE AuthenticateFails(call)
    BY <1>3, <2>4 DEF AuthenticateFails, InLock, Outcomes, Refused, taskVars
  <2>5. CASE Write(call)
    <3>1. /\ UNCHANGED <<task, toRelay, guard, connection>> /\ status[call] = "writing"
          /\ \A other \in Calls \ {call} : status'[other] = status[other]
      BY <2>5 DEF Write, RelayTypeOK, taskVars
    <3> QED
      BY <3>1, CallFields DEF Greeted
  <2>6. CASE WriteFails(call)
    BY <1>3, <2>6 DEF WriteFails, InLock, Outcomes, taskVars
  <2>7. CASE Receive(call)
    <3> DEFINE c == connection[call.relay]
    <3>1. /\ c \in Conns /\ task[c] # "handshake" /\ UNCHANGED <<task, connection>>
          /\ \A d \in Conns \ {c} : toRelay'[d] = toRelay[d]
      BY <2>7 DEF Receive, Greeted, SocketTypeOK, taskVars
    <3>2. /\ \A other \in Calls : status'[other] \in {"writing", "waiting"} =>
                status'[other] = status[other]
          /\ \A r \in Relays : r # call.relay => guard'[r] = guard[r]
      BY <2>7 DEF Receive, Return, RelayTypeOK
    <3> QED
      BY <3>1, <3>2, CallFields DEF Greeted
  <2>8. CASE Disconnected(call)
    BY <1>3, <2>8 DEF Disconnected, InLock, Outcomes, taskVars
  <2>9. CASE RequestTimeout(call)
    BY <1>3, <2>9 DEF RequestTimeout, InLock, Outcomes, taskVars
  <2> QED
    BY <1>1, <1>4, <2>1, <2>2, <2>3, <2>4, <2>5, <2>6, <2>7, <2>8, <2>9
    DEF CallStep, LimitedStep
<1>5. ASSUME NEW r \in Relays, Call(r) PROVE Greeted'
  <2> DEFINE call == [relay |-> r, id |-> next_request_id[r]]
  <2>1. UNCHANGED <<task, toRelay, guard, connection>>
        /\ \A other \in Calls : status'[other] \in {"writing", "waiting"} =>
             status'[other] = status[other]
    BY <1>5 DEF Call, RelayTypeOK, taskVars, socketVars
  <2> QED
    BY <2>1, CallFields DEF Greeted
<1>6. ASSUME NEW r \in Relays, EndProcess(r) PROVE Greeted'
  <2>1. \A call \in Calls : status'[call] \in {"writing", "waiting"} =>
          call.relay # r /\ status'[call] = status[call]
    BY <1>6 DEF EndProcess, InLock
  <2>2. \A q \in Relays \ {r} : guard'[q] = guard[q]
    BY <1>6 DEF EndProcess, RelayTypeOK
  <2>3. Drop(r) /\ task' = task
    BY <1>6 DEF EndProcess, taskVars
  <2> QED
    BY <1>2, <2>1, <2>2, <2>3
<1>7. ASSUME NEW call \in Calls, KilledWriting(call) PROVE Greeted'
  BY <1>6, <1>7, CallFields DEF KilledWriting
<1> QED
  BY <1>4, <1>5, <1>6, <1>7 DEF RelayNext, Exit

\* HeardInv holds in every reachable state
LEMMA HeardInvariant == Spec => []HeardInv
<1>1. Init => HeardInv
  BY DEF Init, HeardInv, Entered, Greeted
<1>2. RoutingInv /\ ConnectionInv /\ CallInv /\ HeardInv /\ [Next]_vars => HeardInv'
  <2> SUFFICES ASSUME RoutingInv, ConnectionInv, CallInv, HeardInv, [Next]_vars
               PROVE  HeardInv'
    OBVIOUS
  <2>1. Entered'
    BY EntriesStep DEF HeardInv
  <2>2. Greeted'
    BY RelayGreets, BrokerGreets DEF HeardInv, RoutingInv, ConnectionInv, Next
  <2> QED
    BY <2>1, <2>2 DEF HeardInv
<1> QED
  BY <1>1, <1>2, RoutingInvariant, ConnectionInvariant, CallsInvariant, PTL DEF Spec

(* A request is written only to a task that is at select!, or to a stream  *)
(* whose end at the broker is closed: the write, the one wait of a call    *)
(* without a time limit (relay.rs:96-101), never waits for room in the     *)
(* browser's queue (native_host.rs:221-227).                               *)
THEOREM WritersAreHeard == Spec => []WriterIsHeard
<1>1. RoutingInv /\ ConnectionInv /\ HeardInv => WriterIsHeard
  <2> SUFFICES ASSUME RoutingInv, ConnectionInv, HeardInv, NEW call \in Calls,
                      status[call] = "writing", Serving(connection[call.relay])
               PROVE  task[connection[call.relay]] = "select"
    BY DEF WriterIsHeard
  <2> DEFINE c == connection[call.relay]
  <2>1. c \in Conns /\ task[c] # "handshake"
    BY DEF HeardInv, Greeted
  <2>2. ~Claimed(c)
    BY DEF ConnectionInv, QuietBetween, Quiet
  <2>3. task[c] # "enqueue"
    BY <2>1, <2>2 DEF HeardInv, Entered, Entry, Claimed
  <2> QED
    BY <2>1, <2>3 DEF Serving
<1> QED
  BY <1>1, RoutingInvariant, ConnectionInvariant, HeardInvariant, PTL

-----------------------------------------------------------------------------
(***************************************************************************)
(* Transport implements AtMostOnceCall.  An outcome is read off the status *)
(* of the call, the effect off the executions of its action; a step that   *)
(* changes neither is a stutter of the promise.                            *)
(***************************************************************************)
LEMMA OutcomesOf ==
    /\ OutcomeOf("idle") = "none"
    /\ \A s \in InLock \cup {"queued"} : OutcomeOf(s) = "pending"
    /\ OutcomeOf("ok") = "ok"
    /\ OutcomeOf("browserError") = "error"
    /\ OutcomeOf("outcome_unknown") = "unknown"
    /\ OutcomeOf("abandoned") = "unknown"
    /\ \A s \in Refused : OutcomeOf(s) = "refused"
  BY DEF OutcomeOf, InLock, Refused

\* a step that nobody outside sees is a stutter of the promise
LEMMA PromiseStutters ==
    ASSUME UNCHANGED executions,
           \A call \in Calls : OutcomeOf(status'[call]) = OutcomeOf(status[call])
    PROVE  UNCHANGED Promise!vars
  BY DEF Promise!vars

(* The one call of a step of a relay moves on, and while it does ...       *)
LEMMA PromisePending ==
    ASSUME RelayTypeOK, UNCHANGED executions,
           NEW call \in Calls, status[call] \in InLock \cup {"queued"},
           NEW s \in InLock, status' = [status EXCEPT ![call] = s]
    PROVE  UNCHANGED Promise!vars
<1>1. \A other \in Calls : OutcomeOf(status'[other]) = OutcomeOf(status[other])
  <2> SUFFICES ASSUME NEW other \in Calls
               PROVE  OutcomeOf(status'[other]) = OutcomeOf(status[other])
    OBVIOUS
  <2>1. CASE other = call
    BY <2>1, OutcomesOf DEF RelayTypeOK
  <2>2. CASE other # call
    BY <2>2 DEF RelayTypeOK
  <2> QED
    BY <2>1, <2>2
<1> QED
  BY <1>1, PromiseStutters

(* ... or returns, and then what it says is true of the action.            *)
LEMMA PromiseReturns ==
    ASSUME RelayTypeOK, PortTypeOK, CallInv', UNCHANGED executions,
           NEW call \in Calls, status[call] \in InLock \cup {"queued"},
           NEW s \in Outcomes, status' = [status EXCEPT ![call] = s]
    PROVE  Promise!Return(call, OutcomeOf(s))
<1>1. OutcomeOf(status[call]) = "pending" /\ status'[call] = s
  BY OutcomesOf DEF RelayTypeOK
<1>2. /\ OutcomeOf(s) = "ok" => s = "ok"
      /\ OutcomeOf(s) = "refused" => s \in Refused
  BY OutcomesOf DEF Outcomes, Refused
<1>3. /\ s = "ok" => executions[call] = 1
      /\ s \in Refused => executions[call] = 0
  BY <1>1 DEF CallInv, Truthful, Unsent
<1>4. \A other \in Calls :
        OutcomeOf(status'[other]) = IF other = call THEN OutcomeOf(s)
                                      ELSE OutcomeOf(status[other])
  BY DEF RelayTypeOK
<1>5. OutcomeOf(s) = "ok" => executions[call] > 0
  BY <1>2, <1>3
<1>6. OutcomeOf(s) = "refused" => ~(executions[call] > 0)
  BY <1>2, <1>3
<1> QED
  BY <1>1, <1>4, <1>5, <1>6 DEF Promise!Return

\* the end of a process abandons its calls
LEMMA PromiseAbandons ==
    ASSUME RelayTypeOK, NEW r \in Relays, EndProcess(r), UNCHANGED executions
    PROVE  \E S \in SUBSET Calls : Promise!Abandon(S)
<1> DEFINE S == {call \in Calls : call.relay = r}
<1>1. \A s \in Statuses : OutcomeOf(s) = "pending" <=> s \in InLock \cup {"queued"}
  BY OutcomesOf DEF Statuses, Outcomes, Refused, InLock
<1>2. \A call \in Calls :
        OutcomeOf(status'[call]) = IF call \in S /\ OutcomeOf(status[call]) = "pending"
                                     THEN "unknown" ELSE OutcomeOf(status[call])
  BY <1>1, OutcomesOf DEF EndProcess, RelayTypeOK
<1>3. Promise!Abandon(S)
  BY <1>2 DEF Promise!Abandon
<1> QED
  BY <1>3

\* every step of a relay is one of the promise, or a stutter
LEMMA RelayPromises ==
    ASSUME RoutingInv, ConnectionInv, CallInv', RelayNext
    PROVE  [Promise!Next]_(Promise!vars)
<1> USE TypeParts DEF RoutingInv
<1>1. ASSUME NEW r \in Relays, Call(r) PROVE Promise!Next
  <2>1. PICK call \in Calls : call = [relay |-> r, id |-> next_request_id[r]]
    BY <1>1, Bounds, CallFields DEF Call, RelayTypeOK, Ids
  <2>2. status[call] = "idle" /\ OutcomeOf(status[call]) = "none"
    BY <2>1, Bounds, OutcomesOf DEF ConnectionInv, Mutex, RelayTypeOK
  <2>3. /\ \A other \in Calls :
             OutcomeOf(status'[other]) = IF other = call THEN "pending"
                                           ELSE OutcomeOf(status[other])
        /\ UNCHANGED executions
    BY <1>1, <2>1, OutcomesOf DEF Call, RelayTypeOK, portVars
  <2>4. Promise!Issue(call)
    BY <2>2, <2>3 DEF Promise!Issue
  <2> QED
    BY <2>4 DEF Promise!Next
<1>2. ASSUME NEW call \in Calls, CallStep(call) PROVE [Promise!Next]_(Promise!vars)
  <2>1. /\ UNCHANGED executions
        /\ status[call] \in InLock \cup {"queued"}
        /\ \/ UNCHANGED status
           \/ \E s \in InLock \cup Outcomes : status' = [status EXCEPT ![call] = s]
    <3>1. CASE Lock(call) \/ Connect(call) \/ Authenticated(call) \/ Write(call)
      BY <3>1 DEF Lock, Connect, Authenticated, Write, InLock, portVars
    <3>2. CASE ConnectTimeout(call) \/ AuthenticateFails(call) \/ WriteFails(call)
      BY <3>2 DEF ConnectTimeout, AuthenticateFails, WriteFails, Return, InLock, Outcomes,
         Refused, portVars
    <3>3. CASE Receive(call) \/ Disconnected(call) \/ RequestTimeout(call)
      BY <3>3 DEF Receive, Disconnected, RequestTimeout, Return, InLock, Outcomes, portVars
    <3> QED
      BY <1>2, <3>1, <3>2, <3>3 DEF CallStep, LimitedStep
  <2>2. CASE UNCHANGED status
    BY <2>1, <2>2, PromiseStutters
  <2>3. ASSUME NEW s \in InLock, status' = [status EXCEPT ![call] = s]
        PROVE  UNCHANGED Promise!vars
    BY <2>1, <2>3, PromisePending
  <2>4. ASSUME NEW s \in Outcomes, status' = [status EXCEPT ![call] = s]
        PROVE  Promise!Next
    <3>1. Promise!Return(call, OutcomeOf(s))
      BY <2>1, <2>4, PromiseReturns
    <3>2. OutcomeOf(s) \in Promise!Final
      BY OutcomesOf DEF Outcomes, Promise!Final
    <3> QED
      BY <3>1, <3>2 DEF Promise!Next
  <2> QED
    BY <2>1, <2>2, <2>3, <2>4
<1>3. ASSUME NEW r \in Relays, EndProcess(r), UNCHANGED executions PROVE Promise!Next
  BY <1>3, PromiseAbandons DEF Promise!Next
<1> QED
  BY <1>1, <1>2, <1>3, CallFields
  DEF RelayNext, Exit, KilledWriting, EndProcess, portVars

\* the action of a handler is the one the promise allows
LEMMA ExecutePromises ==
    ASSUME RoutingInv, CallInv, NEW h \in handlers, Execute(h)
    PROVE  Promise!Next
<1>1. h \in Handlers /\ h.call \in Calls /\ h.stage = "running" /\ PortTypeOK
  BY TypeParts DEF Execute, RoutingInv, PortTypeOK, Handlers
<1>2. executions[h.call] = 0 /\ status[h.call] \in Unanswered
  BY <1>1 DEF CallInv, Truthful, IsHandled, Handled
<1>3. OutcomeOf(status[h.call]) \in {"pending", "unknown"}
  BY <1>2, OutcomesOf DEF Unanswered, InLock
<1>4. /\ UNCHANGED status
      /\ \A call \in Calls :
           (executions'[call] > 0) = IF call = h.call THEN TRUE ELSE executions[call] > 0
  <2>1. \A call \in Calls \ {h.call} : executions'[call] = executions[call]
    BY <1>1 DEF Execute, PortTypeOK
  <2>2. executions'[h.call] = 1 /\ UNCHANGED status
    BY <1>1, <1>2 DEF Execute, PortTypeOK, relayVars
  <2>3. (executions'[h.call] > 0) = TRUE
    BY <2>2
  <2> QED
    BY <2>1, <2>2, <2>3
<1>5. ~(executions[h.call] > 0)
  BY <1>2
<1>6. Promise!Execute(h.call)
  BY <1>1, <1>2, <1>3, <1>4, <1>5 DEF Promise!Execute
<1> QED
  BY <1>1, <1>6 DEF Promise!Next

(* Whatever fails on the way of a call, its browser action runs at most    *)
(* once; "ok" is said only after it ran, "refused" only when it never runs *)
(* and after "unknown" it may still run: Transport implements              *)
(* AtMostOnceCall, every step a step of it or a stutter.                   *)
THEOREM TransportKeepsPromise == Spec => AtMostOnce
<1>1. Init => Promise!Init
  <2> SUFFICES ASSUME Init PROVE Promise!Init
    OBVIOUS
  <2>1. \A call \in Calls : OutcomeOf(status[call]) = "none" /\ ~(executions[call] > 0)
    BY OutcomesOf DEF Init
  <2>2. \A call \in Calls : (executions[call] > 0) = FALSE
    BY <2>1
  <2>3. [call \in Calls |-> OutcomeOf(status[call])] = [call \in Calls |-> "none"]
    BY <2>1
  <2>4. [call \in Calls |-> executions[call] > 0] = [call \in Calls |-> FALSE]
    BY <2>2, Zenon
  <2> QED
    BY <2>3, <2>4 DEF Promise!Init
<1>2. RoutingInv /\ ConnectionInv /\ CallInv /\ CallInv' /\ [Next]_vars
        => [Promise!Next]_(Promise!vars)
  <2> SUFFICES ASSUME RoutingInv, ConnectionInv, CallInv, CallInv', [Next]_vars
               PROVE  [Promise!Next]_(Promise!vars)
    OBVIOUS
  <2>1. CASE UNCHANGED <<status, executions>>
    BY <2>1, PromiseStutters
  <2>2. BrokerNext => UNCHANGED <<status, executions>>
    BY DEF BrokerNext, TaskStep, Handshake, HandshakeFails, ReadPart, ReadRequest, ReadInvalid,
       ReadEof, Enqueue, WriteResponse, WriteResponseFails, Cleanup, Leave, Route, Deliver,
       Discard, BrokerExit, relayVars, portVars
  <2>3. PortNext => \/ UNCHANGED <<status, executions>>
                    \/ \E h \in handlers : Execute(h)
    BY DEF PortNext, ConnectNative, PortDisconnected, WorkerStops, StartHandler, Reply, relayVars
  <2> QED
    BY <2>1, <2>2, <2>3, RelayPromises, ExecutePromises
    DEF Next, vars, relayVars, portVars
<1> QED
  BY <1>1, <1>2, RoutingInvariant, ConnectionInvariant, CallsInvariant, PTL
  DEF Spec, AtMostOnce, Promise!Spec
=============================================================================
