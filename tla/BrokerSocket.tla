---------------------------- MODULE BrokerSocket ----------------------------
(***************************************************************************)
(* The path of the broker's socket, and the native hosts that Chrome       *)
(* starts and ends on one machine (native_host.rs:42-86).  A host looks at *)
(* the path, asks whether anybody answers there, removes what is stale and *)
(* binds, each in a system call of its own; on its way out it removes the  *)
(* path, whoever has bound it meanwhile.                                   *)
(***************************************************************************)
CONSTANTS Brokers, NoBroker

ASSUME SocketAssumption == NoBroker \notin Brokers

VARIABLES
    path,    \* the broker whose socket native.sock names, or NoBroker
    broker,  \* where each broker is in run and bind_broker_socket
    alone    \* history: began with no other in its way, and none came while it started

socketVars == <<path, broker, alone>>

Starting == {"inspect", "connect", "remove", "bind", "listen", "chmod"}
Ended == {"over", "alreadyRunning", "failed"}
BrokerStages == {"off", "serving", "cleanup"} \cup Starting \cup Ended

\* something of it may still change the path
Unsettled(b) == broker[b] \in Starting \cup {"cleanup"}

\* UnixListener::bind has returned, and the listener is not dropped
Answers(b) == broker[b] \in {"chmod", "serving"}

SocketInit ==
    /\ path = NoBroker
    /\ broker = [b \in Brokers |-> "off"]
    /\ alone = [b \in Brokers |-> FALSE]

Goes(b, from, to) ==
    /\ broker[b] = from
    /\ broker' = [broker EXCEPT ![b] = to]

\* a broker that begins or ends leaves alone only those that serve
Disturbed == [c \in Brokers |-> alone[c] /\ broker[c] = "serving"]

-----------------------------------------------------------------------------
StartBroker(b) ==
    /\ Goes(b, "off", "inspect")
    /\ alone' = [Disturbed EXCEPT ![b] =
         \A c \in Brokers \ {b} : ~Unsettled(c) /\ (broker[c] = "serving" => alone[c])]
    /\ UNCHANGED path

Inspect(b) ==
    /\ Goes(b, "inspect", IF path = NoBroker THEN "bind" ELSE "connect")
    /\ UNCHANGED <<path, alone>>

\* mutant: whatever is at the path is taken for stale
ConnectUnasked(b) ==
    /\ Goes(b, "connect", "remove")
    /\ UNCHANGED <<path, alone>>

Connect(b) ==
    /\ Goes(b, "connect",
            IF path # NoBroker /\ Answers(path) THEN "alreadyRunning" ELSE "remove")
    /\ UNCHANGED <<path, alone>>

\* mutant: a stale path is left where it is
RemoveSkipped(b) ==
    /\ Goes(b, "remove", "bind")
    /\ UNCHANGED <<path, alone>>

\* remove_file of whatever the path now names
Remove(b) ==
    /\ Goes(b, "remove", IF path = NoBroker THEN "failed" ELSE "bind")
    /\ path' = NoBroker
    /\ UNCHANGED alone

\* UnixListener::bind is two system calls, bind and listen
Bind(b) ==
    /\ Goes(b, "bind", IF path = NoBroker THEN "listen" ELSE "failed")
    /\ path' = IF path = NoBroker THEN b ELSE path
    /\ UNCHANGED alone

Listen(b) ==
    /\ Goes(b, "listen", "chmod")
    /\ UNCHANGED <<path, alone>>

\* set_permissions of whatever the path now names; SocketCleanup comes after it
SetPermissions(b) ==
    /\ Goes(b, "chmod", IF path = NoBroker THEN "failed" ELSE "serving")
    /\ UNCHANGED <<path, alone>>

\* serve_native_io returns and drops the listener
StopServing(b) ==
    /\ Goes(b, "serving", "cleanup")
    /\ alone' = Disturbed
    /\ UNCHANGED path

\* SocketCleanup::drop
Cleanup(b) ==
    /\ Goes(b, "cleanup", "over")
    /\ path' = NoBroker
    /\ UNCHANGED alone

\* the process is killed; its path stays
KillBroker(b) ==
    /\ broker[b] \notin Ended \cup {"off"}
    /\ broker' = [broker EXCEPT ![b] = "over"]
    /\ UNCHANGED <<path, alone>>

SocketStep(b) ==
    \/ Inspect(b) \/ Connect(b) \/ Remove(b) \/ Bind(b) \/ Listen(b)
    \/ SetPermissions(b) \/ StopServing(b) \/ Cleanup(b) \/ KillBroker(b)

-----------------------------------------------------------------------------
\* A broker that began while no other was starting, ending or left over from
\* such a race keeps the path for as long as it serves, however many start
\* after it (native_host.rs:72-74: "another Browser Connector native host is
\* already running").
LoneBrokerReachable ==
    \A b \in Brokers : alone[b] /\ broker[b] = "serving" => path = b

\* Such a broker never fails on what others left at the path, be they killed
\* at any point of their start (native_host.rs:75-77).
LoneStartSucceeds == \A b \in Brokers : alone[b] => broker[b] # "failed"
=============================================================================
