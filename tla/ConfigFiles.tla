----------------------------- MODULE ConfigFiles ----------------------------
(***************************************************************************)
(* The configuration of one Agent Host and Chrome's manifest of the native *)
(* host (config.rs), written by any number of processes at once: MCP       *)
(* servers and `status` load or create the configuration, `install` also   *)
(* saves it with an extension id and adds that id to the manifest.  No     *)
(* lock and no rename: a file is truncated in one system call and written  *)
(* from its start in another.                                              *)
(***************************************************************************)
EXTENDS Naturals, FiniteSets

CONSTANTS
    Processes,   \* also stand for the secrets they draw
    Extensions,  \* extension ids
    MaxCrashes,  \* bound: processes that die under way
    Nil,
    Cut          \* the content of a file that is not JSON

ASSUME ConfigAssumption ==
    /\ IsFiniteSet(Extensions) /\ MaxCrashes \in Nat
    /\ Nil \notin Processes \cup Extensions
    /\ \A origins \in SUBSET Extensions : origins # Cut

VARIABLES
    config,    \* hosts/<host_id>.json
    manifest,  \* NativeMessagingHosts/io.browser_connector.native.json
    process,   \* process[p]: its command, where it is in it, what it has read
    apart,     \* history: it began, and nobody else has been under way since
    agreed,    \* history: the secret settled on by a process apart, or Nil
    torn,      \* history: installs passed each other in the manifest, or died there
    crashes

configVars == <<config, manifest, process, apart, agreed, torn, crashes>>

\* ConnectorConfig, and the list of a NativeMessagingManifest
Config == [secret : Processes, extension : Extensions \cup {Nil}]
Origins == SUBSET Extensions

Stages == {"off", "load", "createOpen", "createWrite", "saveOpen", "saveWrite",
           "readManifest", "openManifest", "writeManifest", "done", "failed"}

Process == [stage : Stages, extension : Extensions \cup {Nil},
            secret : Processes \cup {Nil}, origins : Origins]

\* size tells lengths apart: that of a configuration with an extension id from
\* one without, that of a manifest by its origins
File(contents) == [exists : BOOLEAN, content : contents \cup {Cut}, size : Nat]
Whole(file) == file.content # Cut

Absent == [exists |-> FALSE, content |-> Cut, size |-> 0]
Emptied == [exists |-> TRUE, content |-> Cut, size |-> 0]

\* write_all from the start of the file: what is longer shows behind it
Written(file, content, size) ==
    [exists |-> TRUE,
     content |-> IF file.size > size THEN Cut ELSE content,
     size |-> IF file.size > size THEN file.size ELSE size]

UnderWay(p) == process[p].stage \notin {"off", "done", "failed"}
At(p, stage) == process[p].stage = stage

ConfigInit ==
    /\ config = Absent /\ manifest = Absent
    /\ process = [p \in Processes |->
                    [stage |-> "off", extension |-> Nil, secret |-> Nil, origins |-> {}]]
    /\ apart = [p \in Processes |-> FALSE]
    /\ agreed = Nil
    /\ torn = FALSE
    /\ crashes = 0

-----------------------------------------------------------------------------
\* `mcp` and `status` (x = Nil), or `install` of extension x
Begin(p, x) ==
    /\ At(p, "off")
    /\ process' = [process EXCEPT ![p].stage = "load", ![p].extension = x]
    /\ apart' = [q \in Processes |-> q = p /\ \A r \in Processes : ~UnderWay(r)]
    /\ UNCHANGED <<config, manifest, agreed, torn, crashes>>

\* what comes after load_or_create
Loaded(p) == IF process[p].extension = Nil THEN "done" ELSE "saveOpen"

\* the first process to settle on a secret by itself settles it for all
Settle(p, secret) == agreed' = IF agreed = Nil /\ apart[p] THEN secret ELSE agreed

\* mutant: the configuration is saved before its secret is drawn
MissingUndrawn(p) ==
    /\ At(p, "load") /\ ~config.exists
    /\ process' = [process EXCEPT ![p].stage = "createOpen"]
    /\ UNCHANGED <<config, manifest, apart, agreed, torn, crashes>>

Missing(p) ==
    /\ At(p, "load") /\ ~config.exists
    /\ process' = [process EXCEPT ![p].stage = "createOpen", ![p].secret = p]
    /\ UNCHANGED <<config, manifest, apart, agreed, torn, crashes>>

Load(p) ==
    /\ At(p, "load") /\ config.exists /\ Whole(config)
    /\ process' = [process EXCEPT ![p].stage = Loaded(p),
                                  ![p].secret = config.content.secret]
    /\ Settle(p, config.content.secret)
    /\ UNCHANGED <<config, manifest, apart, torn, crashes>>

\* mutant: a configuration that cannot be parsed is replaced
UnparsableReplaced(p) ==
    /\ At(p, "load") /\ config.exists /\ ~Whole(config)
    /\ process' = [process EXCEPT ![p].stage = "createOpen", ![p].secret = p]
    /\ UNCHANGED <<config, manifest, apart, agreed, torn, crashes>>

\* "parse connector config"
Unparsable(p) ==
    /\ At(p, "load") /\ config.exists /\ ~Whole(config)
    /\ process' = [process EXCEPT ![p].stage = "failed"]
    /\ UNCHANGED <<config, manifest, apart, agreed, torn, crashes>>

\* ConnectorConfig::save, write_private_json
OpenConfig(p) ==
    \E save \in {<<"createOpen", "createWrite">>, <<"saveOpen", "saveWrite">>} :
        /\ At(p, save[1])
        /\ process' = [process EXCEPT ![p].stage = save[2]]
        /\ config' = Emptied
        /\ UNCHANGED <<manifest, apart, agreed, torn, crashes>>

Create(p) ==
    /\ At(p, "createWrite")
    /\ process' = [process EXCEPT ![p].stage = Loaded(p)]
    /\ config' = Written(config, [secret |-> process[p].secret, extension |-> Nil], 1)
    /\ Settle(p, process[p].secret)
    /\ UNCHANGED <<manifest, apart, torn, crashes>>

Save(p) ==
    /\ At(p, "saveWrite")
    /\ process' = [process EXCEPT ![p].stage = "readManifest"]
    /\ config' = Written(config, [secret |-> process[p].secret,
                                  extension |-> process[p].extension], 2)
    /\ UNCHANGED <<manifest, apart, agreed, torn, crashes>>

Writing == {p \in Processes : process[p].stage \in {"openManifest", "writeManifest"}}

\* mutant: the list of origins is the one just registered
ReadManifestReplaces(p) ==
    /\ At(p, "readManifest")
    /\ process' = [process EXCEPT ![p].stage = "openManifest",
                                  ![p].origins = {process[p].extension}]
    /\ torn' = (torn \/ Writing # {})
    /\ UNCHANGED <<config, manifest, apart, agreed, crashes>>

\* existing_origins, merged_origins
ReadManifest(p) ==
    /\ At(p, "readManifest")
    /\ process' = [process EXCEPT ![p].stage = "openManifest",
         ![p].origins = (IF Whole(manifest) THEN manifest.content ELSE {})
                          \cup {process[p].extension}]
    /\ torn' = (torn \/ Writing # {})
    /\ UNCHANGED <<config, manifest, apart, agreed, crashes>>

OpenManifest(p) ==
    /\ At(p, "openManifest")
    /\ process' = [process EXCEPT ![p].stage = "writeManifest"]
    /\ manifest' = Emptied
    /\ UNCHANGED <<config, apart, agreed, torn, crashes>>

WriteManifest(p) ==
    /\ At(p, "writeManifest")
    /\ process' = [process EXCEPT ![p].stage = "done"]
    /\ manifest' = Written(manifest, process[p].origins, Cardinality(process[p].origins))
    /\ UNCHANGED <<config, apart, agreed, torn, crashes>>

Crash(p) ==
    /\ crashes < MaxCrashes /\ UnderWay(p)
    /\ crashes' = crashes + 1
    /\ process' = [process EXCEPT ![p].stage = "failed"]
    /\ torn' = (torn \/ At(p, "writeManifest"))
    /\ UNCHANGED <<config, manifest, apart, agreed>>

ConfigStep(p) ==
    \/ \E x \in Extensions \cup {Nil} : Begin(p, x)
    \/ Missing(p) \/ Load(p) \/ Unparsable(p)
    \/ OpenConfig(p) \/ Create(p) \/ Save(p)
    \/ ReadManifest(p) \/ OpenManifest(p) \/ WriteManifest(p)
    \/ Crash(p)

-----------------------------------------------------------------------------
\* Once a process has loaded or created the configuration with nobody else
\* under way, no other secret is ever saved or taken up, however processes
\* race, tear the file or die after it (config.rs:24-43).
SecretStands ==
    agreed # Nil =>
        /\ config.exists
        /\ Whole(config) => config.content.secret = agreed
        /\ \A p \in Processes : UnderWay(p) => process[p].secret \in {Nil, agreed}

\* config.rs:74-76, "Registration adds an id and never drops one": as long as no
\* two installs pass each other between reading and writing the manifest and
\* none dies while it is truncated, the manifest is whole whenever nobody is
\* writing it, and allows every extension whose install is done.
OriginsKept ==
    ~torn /\ (\A q \in Processes : ~At(q, "writeManifest")) =>
        \A p \in Processes : At(p, "done") /\ process[p].extension # Nil =>
            Whole(manifest) /\ process[p].extension \in manifest.content
=============================================================================
