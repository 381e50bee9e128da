-------------------------------- MODULE Wire --------------------------------
(***************************************************************************)
(* The state shared by the three processes a tool call crosses: the MCP    *)
(* process (relay.rs), the native broker (native_host.rs) and the service  *)
(* worker's native port (service-worker.ts).  Relay, NativeBroker and      *)
(* ExtensionPort hold the actions of one process each; Transport composes  *)
(* them.                                                                   *)
(***************************************************************************)
EXTENDS Naturals, Sequences

CONSTANTS
    Relays,           \* MCP processes; each is one session_id (relay.rs:71)
    MaxCalls,         \* bound: calls one MCP process makes
    MaxConns,         \* bound: socket connections made in all
    MaxPorts,         \* bound: native ports (hence broker processes) in all
    ClientQueueSize,  \* CLIENT_QUEUE_SIZE, 32 in the code
    BrowserQueueSize, \* BROWSER_QUEUE_SIZE, 128 in the code
    Nil

Ids   == 1..MaxCalls
Conns == 1..MaxConns
Ports == 1..MaxPorts
Calls == [relay : Relays, id : Ids]

ASSUME WireAssumption ==
    /\ MaxCalls \in Nat /\ MaxConns \in Nat /\ MaxPorts \in Nat
    /\ ClientQueueSize \in Nat \ {0} /\ BrowserQueueSize \in Nat \ {0}
    /\ Nil \notin Nat
    /\ Nil \notin Calls
    /\ Nil \notin [id : Nat, call : Calls]
    /\ Nil \notin [id : Nat, of : Calls, result : {"ok", "error"}]
    /\ Nil \notin [client_id : Conns,
                   response : [id : Nat, of : Calls, result : {"ok", "error"}]]

VARIABLES
    \* the MCP processes
    alive,            \* alive[r]: the process of session r runs
    next_request_id,  \* next_request_id[r]: the relay's id counter
    status,           \* status[call]: where relay.call is, or what it returned
    guard,            \* guard[r]: id of the call that holds the mutex, or 0
    connection,       \* connection[r]: the stream under the mutex, or 0
    \* the sockets; connection c is client_id c of the broker it was made to
    next_client_id,   \* the next connection
    owner,            \* owner[c]: the session that made connection c
    relayOpen,        \* relayOpen[c]: the relay still holds its end of c
    toBroker,         \* toBroker[c]: lines written by the relay, unread
    toRelay,          \* toRelay[c]: lines written by the broker, unread
    \* the broker process
    broker,           \* "up" or "down"
    task,             \* task[c]: where the task serving connection c is
    partial,          \* partial[c]: part of the next line is already read
    sending,          \* sending[c]: request waiting for room in browser_rx
    responses,        \* responses[c]: the task's response channel
    next_broker_id,
    pending,          \* the map from a broker id to who waits for its response
    browser_rx,       \* requests waiting to be written to the browser
    routed,           \* response taken from pending, not yet queued, or Nil
    \* the service worker
    ports,            \* number of native ports opened so far
    nativePort,       \* the port in use, or 0 for undefined
    fromExtension,    \* responses posted on nativePort, not read by the broker
    handlers,         \* running calls of handleNativeRequest
    executions        \* history: times the browser action of a call ran

relayVars  == <<alive, next_request_id, status, guard, connection>>
socketVars == <<next_client_id, owner, relayOpen, toBroker, toRelay>>
taskVars   == <<task, partial, sending, responses>>
brokerVars == <<broker, next_broker_id, pending, browser_rx, routed>>
portVars   == <<ports, nativePort, fromExtension, handlers, executions>>
vars == <<relayVars, socketVars, taskVars, brokerVars, portVars>>

(* What relay.call returns, as tools.rs:88-103 reports it to the agent.    *)
Refused  == {"browser_disconnected", "browser_error"}
Outcomes == {"ok", "browserError", "outcome_unknown"} \cup Refused
InLock   == {"connecting", "greeting", "writing", "waiting"}
Statuses == {"idle", "queued", "abandoned"} \cup InLock \cup Outcomes

Lines     == [kind : {"mcp_connect", "garbage"}, call : {Nil}]
             \cup [kind : {"request"}, call : Calls]
Requests  == [id : Nat, call : Calls]
Responses == [id : Nat, of : Calls, result : {"ok", "error"}]
Pendings  == [broker_id : Nat, client_id : Conns, original_id : Ids]
Routes    == [client_id : Conns, response : Responses]
Handlers  == [port : Ports, id : Nat, call : Calls, stage : {"running", "executed"}]

Hello          == [kind |-> "mcp_connect", call |-> Nil]
Garbage        == [kind |-> "garbage", call |-> Nil]
RequestOf(call) == [kind |-> "request", call |-> call]

(* The line {"kind":"mcp_connected"}; every other line to a relay is a     *)
(* response.                                                               *)
Connected == Nil

\* the broker's end of connection c is open
Serving(c) == task[c] \in {"handshake", "select", "enqueue"}
=============================================================================
