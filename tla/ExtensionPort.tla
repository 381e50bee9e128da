--------------------------- MODULE ExtensionPort ----------------------------
(***************************************************************************)
(* The service worker's side of the native port, service-worker.ts:40-101: *)
(* every request message starts a handler of its own, which runs the       *)
(* browser action and posts the response on the port the request came from.*)
(* What a handler does to the session records is ControlSession's subject. *)
(***************************************************************************)
EXTENDS Wire

\* connectNative: Chrome starts a broker process for the new port
ConnectNative ==
    /\ nativePort = 0
    /\ broker = "down"
    /\ ports < MaxPorts
    /\ ports' = ports + 1
    /\ nativePort' = ports + 1
    /\ broker' = "up"
    /\ next_broker_id' = 1
    /\ fromExtension' = <<>>
    /\ UNCHANGED <<relayVars, socketVars, taskVars, pending, browser_rx, routed,
                   handlers, executions>>

\* port.onDisconnect after the broker ended; the handlers run on
PortDisconnected ==
    /\ nativePort # 0
    /\ broker = "down"
    /\ nativePort' = 0
    /\ UNCHANGED <<relayVars, socketVars, taskVars, brokerVars, ports, fromExtension,
                   handlers, executions>>

\* Chrome ends or restarts the service worker: handlers and port end with it;
\* the broker may still read what was posted before
WorkerStops ==
    /\ nativePort # 0 \/ handlers # {}
    /\ nativePort' = 0
    /\ handlers' = {}
    /\ UNCHANGED <<relayVars, socketVars, taskVars, brokerVars, ports, fromExtension,
                   executions>>

\* the oldest request the broker wrote to the port starts a handler
StartHandler ==
    LET request == Head(browser_rx) IN
    /\ broker = "up"
    /\ nativePort # 0
    /\ browser_rx # <<>>
    /\ browser_rx' = Tail(browser_rx)
    /\ handlers' = handlers \cup
         {[port |-> nativePort, id |-> request.id, call |-> request.call,
           stage |-> "running"]}
    /\ UNCHANGED <<relayVars, socketVars, taskVars, broker, next_broker_id, pending,
                   routed, ports, nativePort, fromExtension, executions>>

\* browser.dispatch acts on the page
Execute(h) ==
    /\ h.stage = "running"
    /\ handlers' = (handlers \ {h}) \cup {[h EXCEPT !.stage = "executed"]}
    /\ executions' = [executions EXCEPT ![h.call] = @ + 1]
    /\ UNCHANGED <<relayVars, socketVars, taskVars, brokerVars, ports, nativePort,
                   fromExtension>>

\* mutant: the response is posted on the port in use now (nativePort)
ReplyOnCurrentPort(h, result) ==
    /\ result = "ok" => h.stage = "executed"
    /\ handlers' = handlers \ {h}
    /\ fromExtension' =
         IF nativePort # 0
           THEN Append(fromExtension, [id |-> h.id, of |-> h.call, result |-> result])
           ELSE fromExtension
    /\ UNCHANGED <<relayVars, socketVars, taskVars, brokerVars, ports, nativePort,
                   executions>>

\* port.postMessage on the port the request came from; on a closed port the
\* response is lost.  A result follows the action; an error may come before
\* it (authorize, validation) or after it
Reply(h, result) ==
    /\ result = "ok" => h.stage = "executed"
    /\ handlers' = handlers \ {h}
    /\ fromExtension' =
         IF h.port = nativePort
           THEN Append(fromExtension, [id |-> h.id, of |-> h.call, result |-> result])
           ELSE fromExtension
    /\ UNCHANGED <<relayVars, socketVars, taskVars, brokerVars, ports, nativePort,
                   executions>>

PortNext ==
    \/ ConnectNative
    \/ PortDisconnected
    \/ WorkerStops
    \/ StartHandler
    \/ \E h \in handlers :
         \/ Execute(h)
         \/ \E result \in {"ok", "error"} : Reply(h, result)
=============================================================================
