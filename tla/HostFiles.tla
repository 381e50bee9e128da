------------------------------ MODULE HostFiles -----------------------------
(***************************************************************************)
(* The files of one machine that several processes share: the agents' MCP  *)
(* servers and the installer on the configuration and the manifest, and    *)
(* the native hosts, which Chrome starts from the manifest, on the socket. *)
(***************************************************************************)
EXTENDS ConfigFiles, BrokerSocket

vars == <<configVars, socketVars>>

Init == ConfigInit /\ SocketInit

\* Chrome starts a native host from a whole manifest that allows its extension
ChromeStarts(b) ==
    /\ Whole(manifest) /\ manifest.content # {}
    /\ StartBroker(b)

Next ==
    \/ \E p \in Processes : ConfigStep(p) /\ UNCHANGED socketVars
    \/ \E b \in Brokers : (ChromeStarts(b) \/ SocketStep(b)) /\ UNCHANGED configVars

Spec == Init /\ [][Next]_vars

-----------------------------------------------------------------------------
\* Every variable has its type, and the path names a broker that has bound it:
\* one that has not come so far, or failed, is not there (native_host.rs:79).
TypeOK ==
    /\ config \in File(Config)
    /\ manifest \in File(Origins)
    /\ process \in [Processes -> Process]
    /\ apart \in [Processes -> BOOLEAN]
    /\ agreed \in Processes \cup {Nil}
    /\ torn \in BOOLEAN
    /\ crashes \in 0..MaxCrashes
    /\ path \in Brokers \cup {NoBroker}
    /\ path # NoBroker => broker[path] \in {"listen", "chmod", "serving", "cleanup", "over"}
    /\ broker \in [Brokers -> BrokerStages]
    /\ alone \in [Brokers -> BOOLEAN]
=============================================================================
