------------------------------ MODULE Transport -----------------------------
(***************************************************************************)
(* The path of a tool call: Relay, NativeBroker and ExtensionPort over the *)
(* state of Wire.                                                          *)
(***************************************************************************)
EXTENDS Relay, NativeBroker, ExtensionPort

Init ==
    /\ alive = [r \in Relays |-> TRUE]
    /\ next_request_id = [r \in Relays |-> 1]
    /\ status = [call \in Calls |-> "idle"]
    /\ guard = [r \in Relays |-> 0]
    /\ connection = [r \in Relays |-> 0]
    /\ next_client_id = 1
    /\ owner = [c \in Conns |-> Nil]
    /\ relayOpen = [c \in Conns |-> FALSE]
    /\ toBroker = [c \in Conns |-> <<>>]
    /\ toRelay = [c \in Conns |-> <<>>]
    /\ broker = "down"
    /\ task = [c \in Conns |-> "free"]
    /\ partial = [c \in Conns |-> FALSE]
    /\ sending = [c \in Conns |-> Nil]
    /\ responses = [c \in Conns |-> <<>>]
    /\ next_broker_id = 1
    /\ pending = {}
    /\ browser_rx = <<>>
    /\ routed = Nil
    /\ ports = 0
    /\ nativePort = 0
    /\ fromExtension = <<>>
    /\ handlers = {}
    /\ executions = [call \in Calls |-> 0]

Next == RelayNext \/ BrokerNext \/ PortNext

Spec == Init /\ [][Next]_vars

-----------------------------------------------------------------------------
(* Fairness.  A relay's call has a time limit on its attempts to connect,  *)
(* its handshake and its wait for the response, and the mutex comes free   *)
(* as calls end; the write has none (relay.rs:96-101) and goes on only     *)
(* while the client's task reads.  The broker's tasks and loops are run by *)
(* tokio, which leaves out a broker that is stopped and not ended; Chrome  *)
(* reads the broker's output while the port is open, and closes its input  *)
(* when the port goes.  Nothing is assumed of the handlers: a page may     *)
(* leave one waiting for ever.                                             *)
Fairness ==
    /\ \A call \in Calls :
         /\ WF_vars(LimitedStep(call))
         /\ WF_vars(Write(call) /\ task[connection[call.relay]] = "select")
    /\ \A c \in Conns : WF_vars(TaskStep(c))
    /\ WF_vars(Route)
    /\ WF_vars(Deliver \/ Discard)
    /\ WF_vars(StartHandler)
    /\ WF_vars(nativePort = 0 /\ BrokerExit)

FairSpec == Spec /\ Fairness

-----------------------------------------------------------------------------
(* The type invariant of the state of Wire, by the process that keeps it.  *)
RelayTypeOK ==
    /\ alive \in [Relays -> BOOLEAN]
    /\ next_request_id \in [Relays -> 1..(MaxCalls + 1)]
    /\ status \in [Calls -> Statuses]
    /\ guard \in [Relays -> 0..MaxCalls]
    /\ connection \in [Relays -> 0..MaxConns]

SocketTypeOK ==
    /\ next_client_id \in 1..(MaxConns + 1)
    /\ owner \in [Conns -> Relays \cup {Nil}]
    /\ relayOpen \in [Conns -> BOOLEAN]
    /\ toBroker \in [Conns -> Seq(Lines)]
    /\ toRelay \in [Conns -> Seq(Responses \cup {Connected})]

TaskTypeOK ==
    /\ task \in [Conns -> {"free", "handshake", "select", "enqueue", "cleanup", "gone"}]
    /\ partial \in [Conns -> BOOLEAN]
    /\ sending \in [Conns -> Requests \cup {Nil}]
    /\ \A c \in Conns : task[c] = "enqueue" => sending[c] # Nil
    /\ responses \in [Conns -> Seq(Responses)]

BrokerTypeOK ==
    /\ broker \in {"up", "down"}
    /\ next_broker_id \in Nat
    /\ pending \subseteq Pendings
    /\ browser_rx \in Seq(Requests)
    /\ routed \in Routes \cup {Nil}

PortTypeOK ==
    /\ ports \in 0..MaxPorts
    /\ nativePort \in 0..MaxPorts
    /\ fromExtension \in Seq(Responses)
    /\ handlers \subseteq Handlers
    /\ executions \in [Calls -> Nat]

TypeOK == RelayTypeOK /\ SocketTypeOK /\ TaskTypeOK /\ BrokerTypeOK /\ PortTypeOK

(* A response on its way to the client of connection c, under id i, is the *)
(* answer to call i of the session that made c: ids drawn by several       *)
(* sessions, broker ids that start again with each broker, late responses  *)
(* and dead clients never send an answer to another call                   *)
(* (native_host.rs:218-227,243-261, service-worker.ts:99).                 *)
Answers(c, response) ==
    response.of = [relay |-> owner[c], id |-> response.id]

OwnResponse ==
    /\ \A c \in Conns :
         /\ \A k \in 1..Len(responses[c]) : Answers(c, responses[c][k])
         /\ \A k \in 1..Len(toRelay[c]) :
              toRelay[c][k] # Connected => Answers(c, toRelay[c][k])
    /\ routed # Nil => Answers(routed.client_id, routed.response)

(* Why: the inductive strengthening of OwnResponse.  A request anywhere    *)
(* between a client's task and the port carries a broker id whose entry in *)
(* pending, if it is still there, names the call the request came from.    *)
Matches(b, call) ==
    \A p \in pending : p.broker_id = b =>
        call = [relay |-> owner[p.client_id], id |-> p.original_id]

Correlated(b, call) == b < next_broker_id /\ Matches(b, call)

\* connections not made yet are referred to by nothing
Fresh ==
    /\ \A r \in Relays : connection[r] < next_client_id
    /\ \A c \in Conns : c >= next_client_id =>
         /\ toBroker[c] = <<>> /\ toRelay[c] = <<>> /\ responses[c] = <<>>
         /\ \A p \in pending : p.client_id # c
         /\ routed # Nil => routed.client_id # c

\* a relay writes its own calls to its own connection
Owned ==
    /\ \A r \in Relays : connection[r] # 0 => owner[connection[r]] = r
    /\ \A c \in Conns : \A k \in 1..Len(toBroker[c]) :
         toBroker[c][k].kind = "request" => toBroker[c][k].call.relay = owner[c]

\* nothing of a broker process outlives it
DownIsEmpty ==
    /\ broker = "down" =>
         /\ pending = {} /\ browser_rx = <<>> /\ routed = Nil
         /\ \A c \in Conns : sending[c] = Nil /\ ~Serving(c)
    /\ nativePort <= ports
    /\ \A h \in handlers : h.port <= ports

SendingCorrelated ==
    \A c \in Conns : sending[c] # Nil => Correlated(sending[c].id, sending[c].call)
QueueCorrelated ==
    \A k \in 1..Len(browser_rx) : Correlated(browser_rx[k].id, browser_rx[k].call)
HandlersCorrelated ==
    \A h \in handlers : h.port = nativePort => Correlated(h.id, h.call)
RepliesCorrelated ==
    \A k \in 1..Len(fromExtension) : Correlated(fromExtension[k].id, fromExtension[k].of)

RequestsCorrelated ==
    SendingCorrelated /\ QueueCorrelated /\ HandlersCorrelated /\ RepliesCorrelated

RoutingInv ==
    TypeOK /\ Fresh /\ Owned /\ DownIsEmpty /\ RequestsCorrelated /\ OwnResponse

(* What the agent is told of a call is true of its browser action: it ran  *)
(* at most once, it ran if the call returned a result, and it has not run  *)
(* when the call was refused (relay.rs:91-146, tools.rs:94-101).           *)
OutcomeSound ==
    \A call \in Calls :
        /\ executions[call] <= 1
        /\ status[call] = "ok" => executions[call] = 1
        /\ status[call] \in Refused => executions[call] = 0

(* When a response is ready for a client, the socket holds no part of a    *)
(* further request: the select! of native_host.rs:204, whose read_line is  *)
(* not safe to cancel, never cancels one in the middle of a line.          *)
NoRequestCut ==
    \A c \in Conns : responses[c] # <<>> => toBroker[c] = <<>>

(* The router is never kept waiting by a slow client (native_host.rs:259   *)
(* awaits room in one client's queue with every other client behind it).   *)
RouterNeverWaits ==
    routed # Nil => Len(responses[routed.client_id]) < ClientQueueSize

(* Two handlers of one session run at the same time only when the agent    *)
(* was told that the outcome of the older call is unknown, or has left:    *)
(* relay.rs:91 holds the mutex for the whole call.                         *)
OverlapOnlyAfterUnknown ==
    \A h1, h2 \in handlers :
        /\ h1.call.relay = h2.call.relay
        /\ h1.call.id < h2.call.id
        => status[h1.call] \in {"outcome_unknown", "abandoned"}
              \/ status[h2.call] \in {"outcome_unknown", "abandoned"}

(* The write of a request, which no time limit covers (relay.rs:96-101),   *)
(* never waits for the browser: while the broker serves the connection its *)
(* task is at select!, where it reads, and not at browser_tx.send, which   *)
(* waits for room behind every other client (native_host.rs:221-227).      *)
WriterIsHeard ==
    \A call \in Calls :
        LET c == connection[call.relay] IN
        status[call] = "writing" /\ Serving(c) => task[c] = "select"

(* Every call returns, whatever the extension does and whenever the broker *)
(* ends: but for the write, each wait of relay.rs has a time limit         *)
(* (relay.rs:109,151,188), and each return releases the mutex.  A broker   *)
(* that is alive and stopped holds up a write for ever; Fairness leaves it *)
(* out.                                                                    *)
CallsReturn ==
    \A call \in Calls :
        status[call] = "queued" ~> status[call] \in Outcomes \cup {"abandoned"}

(* The broker never keeps the entry of a request for good, even when its   *)
(* handler never answers: the call's time limit ends the client's task     *)
(* (native_host.rs:169-172 with relay.rs:140-141).                         *)
Waits(c, i) == \E p \in pending : p.client_id = c /\ p.original_id = i

PendingDrains == \A c \in Conns, i \in Ids : Waits(c, i) ~> ~Waits(c, i)

(* The transport implements the promise of AtMostOnceCall.                 *)
OutcomeOf(s) ==
    CASE s = "idle" -> "none"
      [] s \in InLock \cup {"queued"} -> "pending"
      [] s = "ok" -> "ok"
      [] s = "browserError" -> "error"
      [] s \in {"outcome_unknown", "abandoned"} -> "unknown"
      [] s \in Refused -> "refused"

Promise == INSTANCE AtMostOnceCall WITH
    outcome <- [call \in Calls |-> OutcomeOf(status[call])],
    effect  <- [call \in Calls |-> executions[call] > 0]

AtMostOnce == Promise!Spec
=============================================================================
