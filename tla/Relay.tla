------------------------------- MODULE Relay --------------------------------
(***************************************************************************)
(* The MCP process: BrowserRelay::call of relay.rs.  A call draws its id,  *)
(* waits for the mutex over the connection, connects when there is none,   *)
(* writes one request and reads lines until its own response, end of file  *)
(* or the time limit.  Time is abstracted: a time limit may expire at any  *)
(* step it covers.  The write is the one wait without a limit.             *)
(***************************************************************************)
EXTENDS Wire

\* relay.rs:103,135,141: the stream is dropped; what the relay had
\* not read is lost, what it wrote stays readable by the broker
Drop(r) ==
    LET c == connection[r] IN
    /\ connection' = [connection EXCEPT ![r] = 0]
    /\ relayOpen' = IF c = 0 THEN relayOpen ELSE [relayOpen EXCEPT ![c] = FALSE]
    /\ toRelay' = IF c = 0 THEN toRelay ELSE [toRelay EXCEPT ![c] = <<>>]

\* the call returns s and the mutex guard goes out of scope
Return(call, s) ==
    /\ status' = [status EXCEPT ![call] = s]
    /\ guard' = [guard EXCEPT ![call.relay] = 0]

\* the agent calls a tool: the id is drawn before the mutex is asked for
Call(r) ==
    LET call == [relay |-> r, id |-> next_request_id[r]] IN
    /\ alive[r]
    /\ next_request_id[r] <= MaxCalls
    /\ next_request_id' = [next_request_id EXCEPT ![r] = @ + 1]
    /\ status' = [status EXCEPT ![call] = "queued"]
    /\ UNCHANGED <<alive, guard, connection, socketVars, taskVars, brokerVars, portVars>>

\* tokio's mutex is fair; any waiter may be next here, since calls race to it
Lock(call) ==
    /\ status[call] = "queued"
    /\ guard[call.relay] = 0
    /\ guard' = [guard EXCEPT ![call.relay] = call.id]
    /\ status' = [status EXCEPT ![call] =
                    IF connection[call.relay] = 0 THEN "connecting" ELSE "writing"]
    /\ UNCHANGED <<alive, next_request_id, connection, socketVars, taskVars,
                   brokerVars, portVars>>

\* the socket accepts, the broker spawns the client's task and the relay
\* sends its handshake; connection[r] already names the stream although the
\* code stores it under the mutex only once authenticated
Connect(call) ==
    LET c == next_client_id IN
    /\ status[call] = "connecting"
    /\ broker = "up"
    /\ c \in Conns
    /\ next_client_id' = c + 1
    /\ owner' = [owner EXCEPT ![c] = call.relay]
    /\ relayOpen' = [relayOpen EXCEPT ![c] = TRUE]
    /\ toBroker' = [toBroker EXCEPT ![c] = <<Hello>>]
    /\ task' = [task EXCEPT ![c] = "handshake"]
    /\ connection' = [connection EXCEPT ![call.relay] = c]
    /\ status' = [status EXCEPT ![call] = "greeting"]
    /\ UNCHANGED <<alive, next_request_id, guard, toRelay, partial, sending,
                   responses, brokerVars, portVars>>

\* mutant: the limit is put around the handshake, and the retries have none
ConnectUnlimited(call) ==
    /\ status[call] = "greeting"
    /\ Return(call, "browser_disconnected")
    /\ Drop(call.relay)
    /\ UNCHANGED <<alive, next_request_id, next_client_id, owner, toBroker,
                   taskVars, brokerVars, portVars>>

\* CONNECT_TIMEOUT covers the retries and the handshake
ConnectTimeout(call) ==
    /\ status[call] \in {"connecting", "greeting"}
    /\ Return(call, "browser_disconnected")
    /\ Drop(call.relay)
    /\ UNCHANGED <<alive, next_request_id, next_client_id, owner, toBroker,
                   taskVars, brokerVars, portVars>>

Authenticated(call) ==
    LET c == connection[call.relay] IN
    /\ status[call] = "greeting"
    /\ toRelay[c] # <<>>
    /\ Head(toRelay[c]) = Connected
    /\ toRelay' = [toRelay EXCEPT ![c] = Tail(@)]
    /\ status' = [status EXCEPT ![call] = "writing"]
    /\ UNCHANGED <<alive, next_request_id, guard, connection, next_client_id, owner,
                   relayOpen, toBroker, taskVars, brokerVars, portVars>>

\* the handshake read times out after 5 s or meets the end of the stream
AuthenticateFails(call) ==
    /\ status[call] = "greeting"
    /\ Return(call, "browser_error")
    /\ Drop(call.relay)
    /\ UNCHANGED <<alive, next_request_id, next_client_id, owner, toBroker,
                   taskVars, brokerVars, portVars>>

\* write_all and flush, relay.rs:96-101: no limit covers them, so a broker
\* that is alive and reads no more can leave the call here, with the mutex
Write(call) ==
    LET c == connection[call.relay] IN
    /\ status[call] = "writing"
    /\ Serving(c)
    /\ toBroker' = [toBroker EXCEPT ![c] = Append(@, RequestOf(call))]
    /\ status' = [status EXCEPT ![call] = "waiting"]
    /\ UNCHANGED <<alive, next_request_id, guard, connection, next_client_id, owner,
                   relayOpen, toRelay, taskVars, brokerVars, portVars>>

WriteFails(call) ==
    /\ status[call] = "writing"
    /\ ~Serving(connection[call.relay])
    /\ Return(call, "outcome_unknown")
    /\ Drop(call.relay)
    /\ UNCHANGED <<alive, next_request_id, next_client_id, owner, toBroker,
                   taskVars, brokerVars, portVars>>

\* one line is read: the response to this call ends it, any other is skipped
Receive(call) ==
    LET c == connection[call.relay]
        line == Head(toRelay[c])
    IN
    /\ status[call] = "waiting"
    /\ toRelay[c] # <<>>
    /\ toRelay' = [toRelay EXCEPT ![c] = Tail(@)]
    /\ IF line # Connected /\ line.id = call.id
         THEN Return(call, IF line.result = "ok" THEN "ok" ELSE "browserError")
         ELSE UNCHANGED <<status, guard>>
    /\ UNCHANGED <<alive, next_request_id, connection, next_client_id, owner,
                   relayOpen, toBroker, taskVars, brokerVars, portVars>>

\* mutant: end of file is reported like a failed connection attempt
DisconnectedDefinite(call) ==
    LET c == connection[call.relay] IN
    /\ status[call] = "waiting"
    /\ toRelay[c] = <<>>
    /\ ~Serving(c)
    /\ Return(call, "browser_disconnected")
    /\ Drop(call.relay)
    /\ UNCHANGED <<alive, next_request_id, next_client_id, owner, toBroker,
                   taskVars, brokerVars, portVars>>

\* the stream ends before the response
Disconnected(call) ==
    LET c == connection[call.relay] IN
    /\ status[call] = "waiting"
    /\ toRelay[c] = <<>>
    /\ ~Serving(c)
    /\ Return(call, "outcome_unknown")
    /\ Drop(call.relay)
    /\ UNCHANGED <<alive, next_request_id, next_client_id, owner, toBroker,
                   taskVars, brokerVars, portVars>>

\* mutant: the timed out call leaves its stream to the next one
RequestTimeoutKeepsStream(call) ==
    /\ status[call] = "waiting"
    /\ Return(call, "outcome_unknown")
    /\ UNCHANGED <<alive, next_request_id, connection, socketVars,
                   taskVars, brokerVars, portVars>>

\* mutant: the call is sent again on a new connection
RequestTimeoutReplays(call) ==
    /\ status[call] = "waiting"
    /\ status' = [status EXCEPT ![call] = "connecting"]
    /\ Drop(call.relay)
    /\ UNCHANGED <<alive, next_request_id, guard, next_client_id, owner, toBroker,
                   taskVars, brokerVars, portVars>>

\* REQUEST_TIMEOUT
RequestTimeout(call) ==
    /\ status[call] = "waiting"
    /\ Return(call, "outcome_unknown")
    /\ Drop(call.relay)
    /\ UNCHANGED <<alive, next_request_id, next_client_id, owner, toBroker,
                   taskVars, brokerVars, portVars>>

\* the process of session r ends and its calls with it
EndProcess(r) ==
    /\ alive' = [alive EXCEPT ![r] = FALSE]
    /\ guard' = [guard EXCEPT ![r] = 0]
    /\ status' = [call \in Calls |->
                    IF call.relay = r /\ status[call] \in InLock \cup {"queued"}
                      THEN "abandoned" ELSE status[call]]
    /\ Drop(r)
    /\ UNCHANGED <<next_request_id, next_client_id, owner, taskVars, brokerVars, portVars>>

\* by relay.shutdown when stdin closes, or by being killed
Exit(r) ==
    /\ alive[r]
    /\ EndProcess(r)
    /\ UNCHANGED toBroker

\* it is killed in the middle of a write; the broker reads what was written as
\* a line of its own, up to the end of the file
KilledWriting(call) ==
    LET c == connection[call.relay] IN
    /\ status[call] = "writing"
    /\ Serving(c)
    /\ EndProcess(call.relay)
    /\ toBroker' = [toBroker EXCEPT ![c] = Append(@, Garbage)]

\* the steps of a call that wait for nothing, or for a limited time
LimitedStep(call) ==
    \/ Lock(call)
    \/ Connect(call)
    \/ ConnectTimeout(call)
    \/ Authenticated(call)
    \/ AuthenticateFails(call)
    \/ WriteFails(call)
    \/ Receive(call)
    \/ Disconnected(call)
    \/ RequestTimeout(call)

CallStep(call) == LimitedStep(call) \/ Write(call)

RelayNext ==
    \/ \E r \in Relays : Call(r) \/ Exit(r)
    \/ \E call \in Calls : CallStep(call) \/ KilledWriting(call)
=============================================================================
