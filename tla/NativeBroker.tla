---------------------------- MODULE NativeBroker ----------------------------
(***************************************************************************)
(* The native messaging host, native_host.rs: a task per client reads      *)
(* requests, gives each a broker id and queues it for the browser; a       *)
(* router sends each response of the browser to the client that waits for  *)
(* it, under the id that client used.                                      *)
(***************************************************************************)
EXTENDS Wire

\* serve_client_inner returns: its stream, line buffer and response channel
\* are dropped; the entries of pending go in a later step, Cleanup
Leave(c) ==
    /\ task' = [task EXCEPT ![c] = "cleanup"]
    /\ toBroker' = [toBroker EXCEPT ![c] = <<>>]
    /\ partial' = [partial EXCEPT ![c] = FALSE]
    /\ sending' = [sending EXCEPT ![c] = Nil]
    /\ responses' = [responses EXCEPT ![c] = <<>>]
    /\ UNCHANGED <<relayVars, next_client_id, owner, relayOpen, toRelay,
                   brokerVars, portVars>>

Handshake(c) ==
    /\ task[c] = "handshake"
    /\ toBroker[c] # <<>>
    /\ Head(toBroker[c]) = Hello
    /\ relayOpen[c]
    /\ task' = [task EXCEPT ![c] = "select"]
    /\ toBroker' = [toBroker EXCEPT ![c] = Tail(@)]
    /\ toRelay' = [toRelay EXCEPT ![c] = Append(@, Connected)]
    /\ UNCHANGED <<relayVars, next_client_id, owner, relayOpen, partial, sending,
                   responses, brokerVars, portVars>>

\* no handshake within 5 s, not the expected line, or the write of the
\* answer fails because the relay has left
HandshakeFails(c) ==
    /\ task[c] = "handshake"
    /\ Leave(c)

\* read_line has taken a prefix of the line and waits for the rest
ReadPart(c) ==
    /\ task[c] = "select"
    /\ toBroker[c] # <<>>
    /\ ~partial[c]
    /\ partial' = [partial EXCEPT ![c] = TRUE]
    /\ UNCHANGED <<relayVars, socketVars, task, sending, responses, brokerVars, portVars>>

\* a whole request line: it gets a broker id and an entry in pending
ReadRequest(c) ==
    LET line == Head(toBroker[c])
        call == line.call
        entry == [broker_id |-> next_broker_id, client_id |-> c,
                  original_id |-> call.id]
    IN
    /\ task[c] = "select"
    /\ toBroker[c] # <<>>
    /\ line.kind = "request"
    /\ next_broker_id' = next_broker_id + 1
    /\ pending' = {p \in pending : p.broker_id # next_broker_id} \cup {entry}
    /\ sending' = [sending EXCEPT ![c] = [id |-> next_broker_id, call |-> call]]
    /\ task' = [task EXCEPT ![c] = "enqueue"]
    /\ toBroker' = [toBroker EXCEPT ![c] = Tail(@)]
    /\ partial' = [partial EXCEPT ![c] = FALSE]
    /\ UNCHANGED <<relayVars, next_client_id, owner, relayOpen, toRelay, responses,
                   broker, browser_rx, routed, portVars>>

\* a line that is not a request ends the task, and so does the end of file
ReadInvalid(c) ==
    /\ task[c] = "select"
    /\ toBroker[c] # <<>>
    /\ Head(toBroker[c]).kind # "request"
    /\ Leave(c)

ReadEof(c) ==
    /\ task[c] = "select"
    /\ toBroker[c] = <<>>
    /\ ~relayOpen[c]
    /\ Leave(c)

\* browser_tx.send waits for room in the channel
Enqueue(c) ==
    /\ task[c] = "enqueue"
    /\ Len(browser_rx) < BrowserQueueSize
    /\ browser_rx' = Append(browser_rx, sending[c])
    /\ sending' = [sending EXCEPT ![c] = Nil]
    /\ task' = [task EXCEPT ![c] = "select"]
    /\ UNCHANGED <<relayVars, socketVars, partial, responses, broker,
                   next_broker_id, pending, routed, portVars>>

\* the response branch of select!: read_line is cancelled, and line.clear()
\* then forgets the prefix it had read, so what follows is no longer a line
WriteResponse(c) ==
    /\ task[c] = "select"
    /\ responses[c] # <<>>
    /\ relayOpen[c]
    /\ toRelay' = [toRelay EXCEPT ![c] = Append(@, Head(responses[c]))]
    /\ responses' = [responses EXCEPT ![c] = Tail(@)]
    /\ partial' = [partial EXCEPT ![c] = FALSE]
    /\ toBroker' = IF partial[c]
                     THEN [toBroker EXCEPT ![c][1] = Garbage]
                     ELSE toBroker
    /\ UNCHANGED <<relayVars, next_client_id, owner, relayOpen, task, sending,
                   brokerVars, portVars>>

WriteResponseFails(c) ==
    /\ task[c] = "select"
    /\ responses[c] # <<>>
    /\ ~relayOpen[c]
    /\ Leave(c)

\* mutant: the entries of a client that left stay in the map
CleanupForgotten(c) ==
    /\ task[c] = "cleanup"
    /\ task' = [task EXCEPT ![c] = "gone"]
    /\ UNCHANGED <<relayVars, socketVars, partial, sending, responses, brokerVars,
                   portVars>>

\* serve_client: the entries of a client that left are dropped
Cleanup(c) ==
    /\ task[c] = "cleanup"
    /\ pending' = {p \in pending : p.client_id # c}
    /\ task' = [task EXCEPT ![c] = "gone"]
    /\ UNCHANGED <<relayVars, socketVars, partial, sending, responses, broker,
                   next_broker_id, browser_rx, routed, portVars>>

\* mutant: a response nobody waits for is not thrown away
RouteUnclaimed ==
    LET message == Head(fromExtension)
        entries == {p \in pending : p.broker_id = message.id}
    IN
    /\ broker = "up"
    /\ routed = Nil
    /\ fromExtension # <<>>
    /\ fromExtension' = Tail(fromExtension)
    /\ pending' = pending \ entries
    /\ IF entries = {}
         THEN routed' = [client_id |-> 0, response |-> message]
         ELSE \E p \in entries :
                routed' = [client_id |-> p.client_id,
                           response |-> [message EXCEPT !.id = p.original_id]]
    /\ UNCHANGED <<relayVars, socketVars, taskVars, broker, next_broker_id,
                   browser_rx, ports, nativePort, handlers, executions>>

\* route_browser_response up to its last await
Route ==
    LET message == Head(fromExtension)
        entries == {p \in pending : p.broker_id = message.id}
    IN
    /\ broker = "up"
    /\ routed = Nil
    /\ fromExtension # <<>>
    /\ fromExtension' = Tail(fromExtension)
    /\ pending' = pending \ entries
    /\ IF entries = {}
         THEN routed' = Nil
         ELSE \E p \in entries :
                routed' = [client_id |-> p.client_id,
                           response |-> [message EXCEPT !.id = p.original_id]]
    /\ UNCHANGED <<relayVars, socketVars, taskVars, broker, next_broker_id,
                   browser_rx, ports, nativePort, handlers, executions>>

\* responses.send waits for room; until then no response of any client is
\* routed
Deliver ==
    LET c == routed.client_id IN
    /\ routed # Nil
    /\ Serving(c)
    /\ Len(responses[c]) < ClientQueueSize
    /\ responses' = [responses EXCEPT ![c] = Append(@, routed.response)]
    /\ routed' = Nil
    /\ UNCHANGED <<relayVars, socketVars, task, partial, sending, broker,
                   next_broker_id, pending, browser_rx, portVars>>

\* the client has left, so the send fails at once and the response is lost
Discard ==
    /\ routed # Nil
    /\ ~Serving(routed.client_id)
    /\ routed' = Nil
    /\ UNCHANGED <<relayVars, socketVars, taskVars, broker, next_broker_id, pending,
                   browser_rx, portVars>>

\* the process ends: its stdin ends when the port closes, a message in either
\* direction is longer than MAX_NATIVE_MESSAGE, or it is killed; every client
\* task ends with it
BrokerExit ==
    /\ broker = "up"
    /\ broker' = "down"
    /\ pending' = {}
    /\ browser_rx' = <<>>
    /\ routed' = Nil
    /\ task' = [c \in Conns |-> IF task[c] = "free" THEN "free" ELSE "gone"]
    /\ toBroker' = [c \in Conns |-> <<>>]
    /\ partial' = [c \in Conns |-> FALSE]
    /\ sending' = [c \in Conns |-> Nil]
    /\ responses' = [c \in Conns |-> <<>>]
    /\ UNCHANGED <<relayVars, next_client_id, owner, relayOpen, toRelay,
                   next_broker_id, portVars>>

TaskStep(c) ==
    \/ Handshake(c)
    \/ HandshakeFails(c)
    \/ ReadPart(c)
    \/ ReadRequest(c)
    \/ ReadInvalid(c)
    \/ ReadEof(c)
    \/ Enqueue(c)
    \/ WriteResponse(c)
    \/ WriteResponseFails(c)
    \/ Cleanup(c)

BrokerNext ==
    \/ \E c \in Conns : TaskStep(c)
    \/ Route
    \/ Deliver
    \/ Discard
    \/ BrokerExit
=============================================================================
