----------------------------- MODULE HostProofs -----------------------------
(***************************************************************************)
(* Proofs about HostFiles, for any number of processes, extensions,        *)
(* brokers and crashes.  The two halves share no variable that a property  *)
(* speaks of: SocketInv is an invariant of the steps at the socket,        *)
(* ConfigInv of those at the configuration and the manifest.               *)
(***************************************************************************)
EXTENDS HostFiles, FiniteSetTheorems, TLAPS

Holding == {"listen", "chmod", "serving", "cleanup", "over"}

SocketTypes ==
    /\ path \in Brokers \cup {NoBroker}
    /\ path # NoBroker => broker[path] \in Holding
    /\ broker \in [Brokers -> BrokerStages]
    /\ alone \in [Brokers -> BOOLEAN]

\* what a broker that began alone may count on, stage by stage
Undisturbed(b) ==
    /\ broker[b] # "failed"
    /\ broker[b] \in Starting =>
         \A c \in Brokers \ {b} : ~Unsettled(c) /\ (broker[c] = "serving" => alone[c])
    /\ broker[b] \in {"connect", "remove"} => path # NoBroker
    /\ broker[b] = "bind" => path = NoBroker
    /\ broker[b] \in {"listen", "chmod", "serving"} => path = b
    /\ broker[b] = "serving" =>
         \A c \in Brokers \ {b} : broker[c] \in {"off", "inspect", "connect"} \cup Ended

SocketInv == SocketTypes /\ \A b \in Brokers : alone[b] => Undisturbed(b)

-----------------------------------------------------------------------------
(* One step of a broker moves that broker alone.                           *)
LEMMA Moves ==
    ASSUME SocketTypes, NEW b \in Brokers, NEW from, NEW to, Goes(b, from, to)
    PROVE  /\ broker[b] = from
           /\ broker' = [broker EXCEPT ![b] = to]
           /\ broker'[b] = to
           /\ \A c \in Brokers \ {b} : broker'[c] = broker[c]
  BY DEF Goes, SocketTypes

(* The first step of a broker leaves alone those that serve, and itself if *)
(* nobody is in its way.                                                   *)
LEMMA StartBrokerKeeps ==
    ASSUME SocketInv, NEW b \in Brokers, StartBroker(b)
    PROVE  SocketInv'
<1>1. SocketTypes /\ \A c \in Brokers : alone[c] => Undisturbed(c)
  BY DEF SocketInv
<1>2. /\ broker[b] = "off" /\ broker' = [broker EXCEPT ![b] = "inspect"] /\ path' = path
      /\ broker'[b] = "inspect" /\ \A c \in Brokers \ {b} : broker'[c] = broker[c]
  BY <1>1, Moves DEF StartBroker
<1>3. /\ alone' \in [Brokers -> BOOLEAN]
      /\ alone'[b] => \A c \in Brokers \ {b} :
                        ~Unsettled(c) /\ (broker[c] = "serving" => alone[c])
      /\ \A c \in Brokers \ {b} : alone'[c] <=> alone[c] /\ broker[c] = "serving"
  BY <1>1 DEF StartBroker, Disturbed, SocketTypes
<1>4. SocketTypes'
  BY <1>1, <1>2, <1>3 DEF SocketTypes, Holding, BrokerStages, Starting
<1>5. alone'[b] => Undisturbed(b)'
  BY <1>2, <1>3 DEF Undisturbed, Unsettled, Starting
<1>6. ASSUME NEW c \in Brokers \ {b}, alone'[c] PROVE Undisturbed(c)'
  <2>1. alone[c] /\ broker[c] = "serving" /\ Undisturbed(c)
    BY <1>1, <1>3, <1>6
  <2>2. QED BY <1>2, <2>1 DEF Undisturbed, Starting
<1>7. QED BY <1>4, <1>5, <1>6 DEF SocketInv

(* A step within a start touches the path only where nobody who is alone   *)
(* depends on it.                                                          *)
LEMMA WithinStart ==
    ASSUME SocketInv, NEW b \in Brokers,
           \/ Inspect(b) \/ Connect(b) \/ Remove(b) \/ Bind(b) \/ Listen(b)
           \/ SetPermissions(b)
    PROVE  SocketInv'
<1>1. SocketTypes /\ alone' = alone /\ \A c \in Brokers : alone[c] => Undisturbed(c)
  BY DEF SocketInv, Inspect, Connect, Remove, Bind, Listen, SetPermissions
<1>2. CASE Inspect(b)
  BY <1>1, <1>2, SocketAssumption DEF Inspect, Goes, SocketInv, SocketTypes, Undisturbed, Unsettled, Starting,
     Ended, BrokerStages, Holding
<1>3. CASE Connect(b)
  BY <1>1, <1>3, SocketAssumption DEF Connect, Goes, Answers, SocketInv, SocketTypes, Undisturbed, Unsettled,
     Starting, Ended, BrokerStages, Holding
<1>4. CASE Remove(b)
  BY <1>1, <1>4, SocketAssumption DEF Remove, Goes, SocketInv, SocketTypes, Undisturbed, Unsettled, Starting,
     Ended, BrokerStages, Holding
<1>5. CASE Bind(b)
  BY <1>1, <1>5, SocketAssumption DEF Bind, Goes, SocketInv, SocketTypes, Undisturbed, Unsettled, Starting,
     Ended, BrokerStages, Holding
<1>6. CASE Listen(b)
  BY <1>1, <1>6, SocketAssumption DEF Listen, Goes, SocketInv, SocketTypes, Undisturbed, Unsettled, Starting,
     Ended, BrokerStages, Holding
<1>7. CASE SetPermissions(b)
  BY <1>1, <1>7, SocketAssumption DEF SetPermissions, Goes, SocketInv, SocketTypes, Undisturbed, Unsettled,
     Starting, Ended, BrokerStages, Holding
<1>8. QED BY <1>2, <1>3, <1>4, <1>5, <1>6, <1>7

(* A broker that ends in order is in nobody's way who is alone.            *)
LEMMA EndKeeps ==
    ASSUME SocketInv, NEW b \in Brokers, StopServing(b) \/ Cleanup(b) \/ KillBroker(b)
    PROVE  SocketInv'
<1>1. SocketTypes /\ \A c \in Brokers : alone[c] => Undisturbed(c)
  BY DEF SocketInv
<1>2. CASE StopServing(b)
  BY <1>1, <1>2 DEF StopServing, Disturbed, Goes, SocketInv, SocketTypes, Undisturbed,
     Unsettled, Starting, Ended, BrokerStages, Holding
<1>3. CASE Cleanup(b)
  BY <1>1, <1>3 DEF Cleanup, Goes, SocketInv, SocketTypes, Undisturbed, Unsettled,
     Starting, Ended, BrokerStages, Holding
<1>4. CASE KillBroker(b)
  BY <1>1, <1>4 DEF KillBroker, SocketInv, SocketTypes, Undisturbed, Unsettled, Starting,
     Ended, BrokerStages, Holding
<1>5. QED BY <1>2, <1>3, <1>4

-----------------------------------------------------------------------------
ConfigTypes ==
    /\ config \in File(Config)
    /\ manifest \in File(Origins)
    /\ process \in [Processes -> Process]
    /\ apart \in [Processes -> BOOLEAN]
    /\ agreed \in Processes \cup {Nil}
    /\ torn \in BOOLEAN
    /\ crashes \in 0..MaxCrashes

Installing == {"saveOpen", "saveWrite", "readManifest", "openManifest", "writeManifest"}

\* what a process has read and drawn when it gets to a stage
Read(p) ==
    /\ process[p].stage \in {"off", "load"} => process[p].secret = Nil
    /\ process[p].stage \in {"createOpen", "createWrite"} \cup Installing =>
         process[p].secret \in Processes
    /\ process[p].stage \in Installing => process[p].extension \in Extensions
    /\ apart[p] /\ UnderWay(p) => \A q \in Processes \ {p} : ~UnderWay(q)

Registered(p) == At(p, "done") /\ process[p].extension # Nil

\* an install between reading and writing holds what all the others have done
OneWriter ==
    ~torn =>
        /\ \A p, q \in Writing : p = q
        /\ \A p \in Writing : process[p].extension \in process[p].origins
        /\ \A p \in Writing, q \in Processes : Registered(q) =>
             process[q].extension \in process[p].origins
        /\ \A p \in Processes : At(p, "writeManifest") => manifest = Emptied

ConfigInv ==
    /\ ConfigTypes
    /\ \A p \in Processes : Read(p)
    /\ SecretStands
    /\ OneWriter
    /\ OriginsKept

(* What a step of one process leaves of the others.                        *)
LEMMA OneProcess ==
    ASSUME ConfigTypes, NEW p \in Processes, NEW r \in Process,
           process' = [process EXCEPT ![p] = r]
    PROVE  /\ process' \in [Processes -> Process] /\ process'[p] = r
           /\ \A q \in Processes \ {p} : process'[q] = process[q]
  BY DEF ConfigTypes

(* A file that is emptied or written is a file.                            *)
LEMMA Files ==
    ASSUME NEW S, NEW file \in File(S), NEW content \in S, NEW size \in Nat
    PROVE  /\ Emptied \in File(S)
           /\ Written(file, content, size) \in File(S)
           /\ Written(file, content, size).exists
           /\ Whole(Written(file, content, size)) =>
                Written(file, content, size).content = content
  BY DEF File, Emptied, Written, Whole

(* The list that an install writes over an empty manifest is there whole.  *)
LEMMA ListWritten ==
    ASSUME NEW origins \in Origins
    PROVE  /\ Cardinality(origins) \in Nat
           /\ Whole(Written(Emptied, origins, Cardinality(origins)))
           /\ Written(Emptied, origins, Cardinality(origins)).content = origins
<1>1. Cardinality(origins) \in Nat /\ origins # Cut
  BY FS_Subset, FS_CardinalityType, ConfigAssumption DEF Origins
<1>2. ~(0 > Cardinality(origins))
  BY <1>1
<1>3. QED BY <1>1, <1>2 DEF Written, Emptied, Whole

(* A step that leaves the manifest, its writers and those done alone keeps *)
(* what is claimed of them.                                                *)
LEMMA ManifestApart ==
    ASSUME ConfigInv, NEW p \in Processes, UNCHANGED <<manifest, torn>>,
           process' \in [Processes -> Process],
           \A q \in Processes \ {p} : process'[q] = process[q],
           p \notin Writing, ~Registered(p), p \notin Writing', ~Registered(p)'
    PROVE  OneWriter' /\ OriginsKept'
<1>1. /\ \A q \in Processes : process[q] = process'[q] \/ q = p
      /\ \A q \in Processes : (Registered(q) <=> Registered(q)') /\ (q \in Writing <=> q \in Writing')
      /\ \A q \in Processes : At(q, "writeManifest") <=> At(q, "writeManifest")'
  BY DEF Registered, At, Writing
<1>2. OneWriter /\ OriginsKept
  BY DEF ConfigInv
<1>3. OneWriter'
  BY <1>1, <1>2 DEF OneWriter, Writing, Registered, At
<1>4. OriginsKept'
  BY <1>1, <1>2 DEF OriginsKept, Registered, At, Writing
<1>5. QED BY <1>3, <1>4

(* A process that begins has read nothing and drawn no secret.             *)
LEMMA BeginKeeps ==
    ASSUME ConfigInv, NEW p \in Processes, NEW x \in Extensions \cup {Nil}, Begin(p, x)
    PROVE  ConfigInv'
<1>1. ConfigTypes /\ (\A q \in Processes : Read(q)) /\ SecretStands
  BY DEF ConfigInv
<1>. DEFINE r == [process[p] EXCEPT !.stage = "load", !.extension = x]
<1>2. /\ process[p].stage = "off" /\ process[p].secret = Nil /\ r \in Process
      /\ process' = [process EXCEPT ![p] = r]
      /\ r.stage = "load" /\ r.secret = Nil
      /\ UNCHANGED <<config, manifest, agreed, torn, crashes>>
  BY <1>1 DEF Begin, At, Read, ConfigTypes, Process, Stages
<1>. HIDE DEF r
<1>3. /\ process' \in [Processes -> Process] /\ process'[p] = r
      /\ \A q \in Processes \ {p} : process'[q] = process[q]
  BY <1>1, <1>2, OneProcess
<1>4. ConfigTypes'
  BY <1>1, <1>2, <1>3 DEF ConfigTypes, Begin
<1>5. ASSUME NEW q \in Processes PROVE Read(q)'
  <2>1. apart'[q] = (q = p /\ \A o \in Processes : ~UnderWay(o))
    BY DEF Begin
  <2>2. QED BY <1>1, <1>2, <1>3, <2>1 DEF Read, UnderWay, Installing
<1>6. SecretStands'
  BY <1>1, <1>2, <1>3 DEF SecretStands, UnderWay
<1>7. OneWriter' /\ OriginsKept'
  <2>1. p \notin Writing /\ ~Registered(p) /\ p \notin Writing' /\ ~Registered(p)'
    BY <1>2, <1>3 DEF Writing, Registered, At
  <2>2. QED BY <1>2, <1>3, <2>1, ManifestApart
<1>8. QED BY <1>4, <1>5, <1>6, <1>7 DEF ConfigInv

(* A process that finds no configuration draws a secret; none is agreed.   *)
LEMMA MissingKeeps ==
    ASSUME ConfigInv, NEW p \in Processes, Missing(p)
    PROVE  ConfigInv'
<1>1. ConfigTypes /\ (\A q \in Processes : Read(q)) /\ SecretStands
  BY DEF ConfigInv
<1>. DEFINE r == [process[p] EXCEPT !.stage = "createOpen", !.secret = p]
<1>2. /\ process[p].stage = "load" /\ r \in Process
      /\ process' = [process EXCEPT ![p] = r]
      /\ r.stage = "createOpen" /\ r.secret = p
      /\ agreed = Nil
      /\ UNCHANGED <<config, manifest, apart, agreed, torn, crashes>>
  BY <1>1 DEF Missing, At, ConfigTypes, Process, Stages, SecretStands
<1>. HIDE DEF r
<1>3. /\ process' \in [Processes -> Process] /\ process'[p] = r
      /\ \A q \in Processes \ {p} : process'[q] = process[q]
  BY <1>1, <1>2, OneProcess
<1>4. ConfigTypes'
  BY <1>1, <1>2, <1>3 DEF ConfigTypes
<1>5. ASSUME NEW q \in Processes PROVE Read(q)'
  BY <1>1, <1>2, <1>3 DEF Read, UnderWay, Installing
<1>6. SecretStands'
  BY <1>2 DEF SecretStands
<1>7. OneWriter' /\ OriginsKept'
  <2>1. p \notin Writing /\ ~Registered(p) /\ p \notin Writing' /\ ~Registered(p)'
    BY <1>2, <1>3 DEF Writing, Registered, At
  <2>2. QED BY <1>2, <1>3, <2>1, ManifestApart
<1>8. QED BY <1>4, <1>5, <1>6, <1>7 DEF ConfigInv

(* Loading takes up the secret on disk, and settles it if nobody is there  *)
(* to save another.                                                        *)
LEMMA LoadKeeps ==
    ASSUME ConfigInv, NEW p \in Processes, Load(p)
    PROVE  ConfigInv'
<1>1. ConfigTypes /\ (\A q \in Processes : Read(q)) /\ SecretStands
  BY DEF ConfigInv
<1>. DEFINE s == config.content.secret
            r == [process[p] EXCEPT !.stage = Loaded(p), !.secret = s]
<1>2. s \in Processes /\ Loaded(p) \in {"done", "saveOpen"}
  BY <1>1 DEF Load, Whole, ConfigTypes, File, Config, Loaded
<1>3. /\ process[p].stage = "load" /\ r \in Process /\ Whole(config)
      /\ process' = [process EXCEPT ![p] = r]
      /\ r.stage = Loaded(p) /\ r.secret = s /\ r.extension = process[p].extension
      /\ Settle(p, s)
      /\ UNCHANGED <<config, manifest, apart, torn, crashes>>
  BY <1>1, <1>2 DEF Load, At, ConfigTypes, Process, Stages
<1>. HIDE DEF r
<1>4. /\ process' \in [Processes -> Process] /\ process'[p] = r
      /\ \A q \in Processes \ {p} : process'[q] = process[q]
  BY <1>1, <1>3, OneProcess
<1>5. ConfigTypes'
  BY <1>1, <1>2, <1>3, <1>4 DEF ConfigTypes, Settle
<1>6. UnderWay(p) /\ (process[p].extension # Nil => process[p].extension \in Extensions)
  BY <1>1, <1>3 DEF UnderWay, ConfigTypes, Process
<1>7. ASSUME NEW q \in Processes PROVE Read(q)'
  BY <1>1, <1>2, <1>3, <1>4, <1>6 DEF Read, UnderWay, Installing, Loaded
<1>8. SecretStands'
  <2>1. config.exists
    BY DEF Load
  <2>2. CASE agreed # Nil
    BY <1>1, <1>3, <1>4, <2>2 DEF SecretStands, Settle, UnderWay
  <2>3. CASE agreed = Nil /\ ~apart[p]
    BY <1>3, <2>3 DEF SecretStands, Settle
  <2>4. CASE agreed = Nil /\ apart[p]
    BY <1>1, <1>3, <1>4, <1>6, <2>1, <2>4 DEF SecretStands, Settle, UnderWay, Read
  <2>5. QED BY <2>2, <2>3, <2>4
<1>9. OneWriter' /\ OriginsKept'
  <2>1. p \notin Writing /\ ~Registered(p) /\ p \notin Writing' /\ ~Registered(p)'
    BY <1>2, <1>3, <1>4 DEF Writing, Registered, At, Loaded
  <2>2. QED BY <1>3, <1>4, <2>1, ManifestApart
<1>10. QED BY <1>5, <1>7, <1>8, <1>9 DEF ConfigInv

(* A process that gives up on a torn configuration leaves the rest.        *)
LEMMA UnparsableKeeps ==
    ASSUME ConfigInv, NEW p \in Processes, Unparsable(p)
    PROVE  ConfigInv'
<1>1. ConfigTypes /\ (\A q \in Processes : Read(q)) /\ SecretStands
  BY DEF ConfigInv
<1>. DEFINE r == [process[p] EXCEPT !.stage = "failed"]
<1>2. /\ process[p].stage = "load" /\ r \in Process
      /\ process' = [process EXCEPT ![p] = r]
      /\ r.stage = "failed"
      /\ UNCHANGED <<config, manifest, apart, agreed, torn, crashes>>
  BY <1>1 DEF Unparsable, At, ConfigTypes, Process, Stages
<1>. HIDE DEF r
<1>3. /\ process' \in [Processes -> Process] /\ process'[p] = r
      /\ \A q \in Processes \ {p} : process'[q] = process[q]
  BY <1>1, <1>2, OneProcess
<1>4. ConfigTypes'
  BY <1>1, <1>2, <1>3 DEF ConfigTypes
<1>5. ASSUME NEW q \in Processes PROVE Read(q)'
  BY <1>1, <1>2, <1>3 DEF Read, UnderWay, Installing
<1>6. SecretStands'
  BY <1>1, <1>2, <1>3 DEF SecretStands, UnderWay
<1>7. OneWriter' /\ OriginsKept'
  <2>1. p \notin Writing /\ ~Registered(p) /\ p \notin Writing' /\ ~Registered(p)'
    BY <1>2, <1>3 DEF Writing, Registered, At
  <2>2. QED BY <1>2, <1>3, <2>1, ManifestApart
<1>8. QED BY <1>4, <1>5, <1>6, <1>7 DEF ConfigInv

(* A truncated configuration holds no secret but is there.                 *)
LEMMA OpenConfigKeeps ==
    ASSUME ConfigInv, NEW p \in Processes, OpenConfig(p)
    PROVE  ConfigInv'
<1>1. ConfigTypes /\ (\A q \in Processes : Read(q)) /\ SecretStands
  BY DEF ConfigInv
<1>2. PICK save \in {<<"createOpen", "createWrite">>, <<"saveOpen", "saveWrite">>} :
        /\ process[p].stage = save[1]
        /\ process' = [process EXCEPT ![p].stage = save[2]]
        /\ config' = Emptied
        /\ UNCHANGED <<manifest, apart, agreed, torn, crashes>>
  BY DEF OpenConfig, At
<1>. DEFINE r == [process[p] EXCEPT !.stage = save[2]]
<1>3. /\ process' = [process EXCEPT ![p] = r] /\ r \in Process
      /\ r.stage = save[2] /\ r.secret = process[p].secret
      /\ r.extension = process[p].extension
      /\ \/ process[p].stage = "createOpen" /\ r.stage = "createWrite"
         \/ process[p].stage = "saveOpen" /\ r.stage = "saveWrite"
  BY <1>1, <1>2 DEF ConfigTypes, Process, Stages
<1>. HIDE DEF r
<1>4. /\ process' \in [Processes -> Process] /\ process'[p] = r
      /\ \A q \in Processes \ {p} : process'[q] = process[q]
  BY <1>1, <1>3, OneProcess
<1>5. ConfigTypes'
  BY <1>1, <1>2, <1>4 DEF ConfigTypes, File, Emptied
<1>6. ASSUME NEW q \in Processes PROVE Read(q)'
  BY <1>1, <1>2, <1>3, <1>4 DEF Read, UnderWay, Installing
<1>7. SecretStands'
  <2>1. ~Whole(config') /\ config'.exists
    BY <1>2 DEF Whole, Emptied
  <2>2. QED BY <1>1, <1>2, <1>3, <1>4, <2>1 DEF SecretStands, UnderWay, Whole
<1>8. OneWriter' /\ OriginsKept'
  <2>1. p \notin Writing /\ ~Registered(p) /\ p \notin Writing' /\ ~Registered(p)'
    BY <1>3, <1>4 DEF Writing, Registered, At
  <2>2. QED BY <1>2, <1>4, <2>1, ManifestApart
<1>9. QED BY <1>5, <1>6, <1>7, <1>8 DEF ConfigInv

(* What is created is the process's own secret: another's is agreed only   *)
(* if this process has taken it up.                                        *)
LEMMA CreateKeeps ==
    ASSUME ConfigInv, NEW p \in Processes, Create(p)
    PROVE  ConfigInv'
<1>1. ConfigTypes /\ (\A q \in Processes : Read(q)) /\ SecretStands
  BY DEF ConfigInv
<1>. DEFINE s == process[p].secret
            w == [secret |-> s, extension |-> Nil]
            r == [process[p] EXCEPT !.stage = Loaded(p)]
<1>2. /\ process[p].stage = "createWrite" /\ s \in Processes /\ w \in Config
      /\ w.secret = s /\ Loaded(p) \in {"done", "saveOpen"}
  BY <1>1 DEF Create, At, Read, Config, Loaded
<1>3. /\ r \in Process /\ r.stage = Loaded(p) /\ r.secret = s
      /\ r.extension = process[p].extension
      /\ process' = [process EXCEPT ![p] = r]
      /\ config' = Written(config, w, 1)
      /\ Settle(p, s)
      /\ UNCHANGED <<manifest, apart, torn, crashes>>
  BY <1>1, <1>2 DEF Create, ConfigTypes, Process, Stages
<1>. HIDE DEF r, w
<1>4. /\ process' \in [Processes -> Process] /\ process'[p] = r
      /\ \A q \in Processes \ {p} : process'[q] = process[q]
  BY <1>1, <1>3, OneProcess
<1>5. /\ config' \in File(Config) /\ config'.exists
      /\ Whole(config') => config'.content.secret = s
  BY <1>1, <1>2, <1>3, Files DEF ConfigTypes
<1>6. ConfigTypes'
  BY <1>1, <1>2, <1>3, <1>4, <1>5 DEF ConfigTypes, Settle
<1>7. UnderWay(p) /\ (process[p].extension # Nil => process[p].extension \in Extensions)
  BY <1>1, <1>2 DEF UnderWay, ConfigTypes, Process
<1>8. ASSUME NEW q \in Processes PROVE Read(q)'
  BY <1>1, <1>2, <1>3, <1>4, <1>7 DEF Read, UnderWay, Installing, Loaded
<1>9. SecretStands'
  <2>1. CASE agreed # Nil
    <3>1. s = agreed /\ agreed' = agreed
      BY <1>1, <1>2, <1>3, <1>7, <2>1, ConfigAssumption DEF SecretStands, Settle
    <3>2. QED BY <1>1, <1>3, <1>4, <1>5, <2>1, <3>1 DEF SecretStands, UnderWay, Whole
  <2>2. CASE agreed = Nil /\ ~apart[p]
    BY <1>3, <2>2 DEF SecretStands, Settle
  <2>3. CASE agreed = Nil /\ apart[p]
    <3>1. agreed' = s /\ \A q \in Processes \ {p} : ~UnderWay(q)
      BY <1>1, <1>3, <1>7, <2>3 DEF Settle, Read
    <3>2. \A q \in Processes : UnderWay(q)' => process'[q].secret = s
      BY <1>3, <1>4, <3>1 DEF UnderWay
    <3>3. QED BY <1>5, <3>1, <3>2 DEF SecretStands, Whole
  <2>4. QED BY <2>1, <2>2, <2>3
<1>10. OneWriter' /\ OriginsKept'
  <2>1. p \notin Writing /\ ~Registered(p) /\ p \notin Writing' /\ ~Registered(p)'
    BY <1>2, <1>3, <1>4 DEF Writing, Registered, At, Loaded
  <2>2. QED BY <1>3, <1>4, <2>1, ManifestApart
<1>11. QED BY <1>6, <1>8, <1>9, <1>10 DEF ConfigInv

(* An install saves the secret it has loaded or created.                   *)
LEMMA SaveKeeps ==
    ASSUME ConfigInv, NEW p \in Processes, Save(p)
    PROVE  ConfigInv'
<1>1. ConfigTypes /\ (\A q \in Processes : Read(q)) /\ SecretStands
  BY DEF ConfigInv
<1>. DEFINE s == process[p].secret
            w == [secret |-> s, extension |-> process[p].extension]
            r == [process[p] EXCEPT !.stage = "readManifest"]
<1>2. /\ process[p].stage = "saveWrite" /\ s \in Processes /\ w \in Config
      /\ w.secret = s /\ process[p].extension \in Extensions
  BY <1>1 DEF Save, At, Read, Config, Installing
<1>3. /\ r \in Process /\ r.stage = "readManifest" /\ r.secret = s
      /\ r.extension = process[p].extension
      /\ process' = [process EXCEPT ![p] = r]
      /\ config' = Written(config, w, 2)
      /\ UNCHANGED <<manifest, apart, agreed, torn, crashes>>
  BY <1>1, <1>2 DEF Save, ConfigTypes, Process, Stages
<1>. HIDE DEF r, w
<1>4. /\ process' \in [Processes -> Process] /\ process'[p] = r
      /\ \A q \in Processes \ {p} : process'[q] = process[q]
  BY <1>1, <1>3, OneProcess
<1>5. /\ config' \in File(Config) /\ config'.exists
      /\ Whole(config') => config'.content.secret = s
  BY <1>1, <1>2, <1>3, Files DEF ConfigTypes
<1>6. ConfigTypes'
  BY <1>1, <1>3, <1>4, <1>5 DEF ConfigTypes
<1>7. ASSUME NEW q \in Processes PROVE Read(q)'
  BY <1>1, <1>2, <1>3, <1>4 DEF Read, UnderWay, Installing
<1>8. SecretStands'
  <2>. SUFFICES ASSUME agreed # Nil PROVE SecretStands'
    BY <1>3 DEF SecretStands
  <2>1. s = agreed
    BY <1>1, <1>2, ConfigAssumption DEF SecretStands, UnderWay
  <2>2. QED BY <1>1, <1>2, <1>3, <1>4, <1>5, <2>1 DEF SecretStands, UnderWay, Whole
<1>9. OneWriter' /\ OriginsKept'
  <2>1. p \notin Writing /\ ~Registered(p) /\ p \notin Writing' /\ ~Registered(p)'
    BY <1>2, <1>3, <1>4 DEF Writing, Registered, At
  <2>2. QED BY <1>3, <1>4, <2>1, ManifestApart
<1>10. QED BY <1>6, <1>7, <1>8, <1>9 DEF ConfigInv

-----------------------------------------------------------------------------
(* Steps of an install on the manifest keep the configuration's half.      *)
LEMMA SecretsApart ==
    ASSUME ConfigInv, NEW p \in Processes, NEW r \in Process,
           process' = [process EXCEPT ![p] = r],
           process[p].stage \in Installing, r.secret = process[p].secret,
           r.extension = process[p].extension,
           r.stage \in Installing \cup {"done", "failed"},
           UNCHANGED <<config, apart, agreed>>
    PROVE  (\A q \in Processes : Read(q)') /\ SecretStands'
<1>1. ConfigTypes /\ (\A q \in Processes : Read(q)) /\ SecretStands
  BY DEF ConfigInv
<1>2. /\ process'[p] = r /\ \A q \in Processes \ {p} : process'[q] = process[q]
  BY <1>1, OneProcess
<1>3. ASSUME NEW q \in Processes PROVE Read(q)'
  BY <1>1, <1>2 DEF Read, UnderWay, Installing
<1>4. SecretStands'
  BY <1>1, <1>2 DEF SecretStands, UnderWay, Installing
<1>5. QED BY <1>3, <1>4

(* An install reads the manifest while nobody writes it, or torn records   *)
(* that it did not.                                                        *)
LEMMA ReadManifestKeeps ==
    ASSUME ConfigInv, NEW p \in Processes, ReadManifest(p)
    PROVE  ConfigInv'
<1>1. ConfigTypes /\ (\A q \in Processes : Read(q)) /\ OneWriter /\ OriginsKept
  BY DEF ConfigInv
<1>. DEFINE origins == (IF Whole(manifest) THEN manifest.content ELSE {})
                         \cup {process[p].extension}
            r == [process[p] EXCEPT !.stage = "openManifest", !.origins = origins]
<1>2. /\ process[p].stage = "readManifest" /\ process[p].extension \in Extensions
      /\ origins \in Origins
  BY <1>1 DEF ReadManifest, At, Read, Installing, ConfigTypes, File, Whole, Origins
<1>3. /\ r \in Process /\ r.stage = "openManifest" /\ r.secret = process[p].secret
      /\ r.extension = process[p].extension /\ r.origins = origins
      /\ process' = [process EXCEPT ![p] = r]
      /\ torn' = (torn \/ Writing # {})
      /\ UNCHANGED <<config, manifest, apart, agreed, crashes>>
  BY <1>1, <1>2 DEF ReadManifest, ConfigTypes, Process, Stages
<1>4. process[p].extension \in origins /\ (Whole(manifest) => manifest.content \subseteq origins)
  OBVIOUS
<1>. HIDE DEF r, origins
<1>5. /\ process' \in [Processes -> Process] /\ process'[p] = r
      /\ \A q \in Processes \ {p} : process'[q] = process[q]
  BY <1>1, <1>3, OneProcess
<1>6. ConfigTypes'
  BY <1>1, <1>3, <1>5 DEF ConfigTypes
<1>7. (\A q \in Processes : Read(q)') /\ SecretStands'
  BY <1>2, <1>3, SecretsApart DEF Installing
<1>8. ASSUME ~torn' PROVE OneWriter' /\ OriginsKept'
  <2>1. ~torn /\ Writing = {}
    BY <1>3, <1>8
  <2>2. Writing' = {p} /\ \A q \in Processes : ~At(q, "writeManifest") /\ ~At(q, "writeManifest")'
    BY <1>3, <1>5, <2>1 DEF Writing, At
  <2>3. \A q \in Processes : Registered(q)' => q # p /\ Registered(q) /\ process'[q] = process[q]
    BY <1>3, <1>5 DEF Registered, At
  <2>4. \A q \in Processes : Registered(q) =>
          Whole(manifest) /\ process[q].extension \in manifest.content
    BY <1>1, <2>1, <2>2 DEF OriginsKept, Registered
  <2>5. OneWriter'
    BY <1>3, <1>4, <1>5, <2>2, <2>3, <2>4 DEF OneWriter
  <2>6. OriginsKept'
    BY <1>3, <2>3, <2>4 DEF OriginsKept, Registered, Whole
  <2>7. QED BY <2>5, <2>6
<1>9. OneWriter' /\ OriginsKept'
  BY <1>8 DEF OneWriter, OriginsKept
<1>10. QED BY <1>6, <1>7, <1>9 DEF ConfigInv

(* The manifest is empty from here to the write.                           *)
LEMMA OpenManifestKeeps ==
    ASSUME ConfigInv, NEW p \in Processes, OpenManifest(p)
    PROVE  ConfigInv'
<1>1. ConfigTypes /\ (\A q \in Processes : Read(q)) /\ OneWriter /\ OriginsKept
  BY DEF ConfigInv
<1>. DEFINE r == [process[p] EXCEPT !.stage = "writeManifest"]
<1>2. /\ process[p].stage = "openManifest"
      /\ r \in Process /\ r.stage = "writeManifest" /\ r.secret = process[p].secret
      /\ r.extension = process[p].extension /\ r.origins = process[p].origins
      /\ process' = [process EXCEPT ![p] = r]
      /\ manifest' = Emptied
      /\ UNCHANGED <<config, apart, agreed, torn, crashes>>
  BY <1>1 DEF OpenManifest, At, ConfigTypes, Process, Stages
<1>. HIDE DEF r
<1>3. /\ process' \in [Processes -> Process] /\ process'[p] = r
      /\ \A q \in Processes \ {p} : process'[q] = process[q]
  BY <1>1, <1>2, OneProcess
<1>4. ConfigTypes'
  BY <1>1, <1>2, <1>3 DEF ConfigTypes, File, Emptied
<1>5. (\A q \in Processes : Read(q)') /\ SecretStands'
  BY <1>2, SecretsApart DEF Installing
<1>6. /\ Writing' = Writing
      /\ \A q \in Processes : process'[q].origins = process[q].origins
                              /\ process'[q].extension = process[q].extension
      /\ \A q \in Processes : Registered(q)' => Registered(q)
  BY <1>2, <1>3 DEF Writing, Registered, At
<1>7. OneWriter'
  BY <1>1, <1>2, <1>6 DEF OneWriter, Writing
<1>8. OriginsKept'
  BY <1>2, <1>3 DEF OriginsKept, At
<1>9. QED BY <1>4, <1>5, <1>7, <1>8 DEF ConfigInv

(* The list of the only writer has everybody's extension.                  *)
LEMMA WriteManifestKeeps ==
    ASSUME ConfigInv, NEW p \in Processes, WriteManifest(p)
    PROVE  ConfigInv'
<1>1. ConfigTypes /\ (\A q \in Processes : Read(q)) /\ OneWriter /\ OriginsKept
  BY DEF ConfigInv
<1>. DEFINE origins == process[p].origins
            r == [process[p] EXCEPT !.stage = "done"]
<1>2. /\ process[p].stage = "writeManifest" /\ p \in Writing /\ origins \in Origins
      /\ r \in Process /\ r.stage = "done" /\ r.secret = process[p].secret
      /\ r.extension = process[p].extension
      /\ process' = [process EXCEPT ![p] = r]
      /\ manifest' = Written(manifest, origins, Cardinality(origins))
      /\ UNCHANGED <<config, apart, agreed, torn, crashes>>
  BY <1>1 DEF WriteManifest, At, ConfigTypes, Process, Stages, Writing
<1>. HIDE DEF r, origins
<1>3. /\ process' \in [Processes -> Process] /\ process'[p] = r
      /\ \A q \in Processes \ {p} : process'[q] = process[q]
  BY <1>1, <1>2, OneProcess
<1>4. manifest' \in File(Origins)
  <2>1. Cardinality(origins) \in Nat /\ manifest \in File(Origins)
    BY <1>1, <1>2, ListWritten DEF ConfigTypes
  <2>2. QED BY <1>2, <2>1, Files
<1>5. ConfigTypes'
  BY <1>1, <1>2, <1>3, <1>4 DEF ConfigTypes
<1>6. (\A q \in Processes : Read(q)') /\ SecretStands'
  BY <1>2, SecretsApart DEF Installing
<1>7. ASSUME ~torn PROVE OneWriter' /\ OriginsKept'
  <2>1. /\ Writing = {p} /\ manifest = Emptied
        /\ process[p].extension \in origins
        /\ \A q \in Processes : Registered(q) => process[q].extension \in origins
    BY <1>1, <1>2, <1>7 DEF OneWriter, At, origins
  <2>2. Writing' = {}
    BY <1>2, <1>3, <2>1 DEF Writing
  <2>3. Whole(manifest') /\ manifest'.content = origins
    BY <1>2, <2>1, ListWritten
  <2>4. \A q \in Processes : Registered(q)' => process'[q].extension \in origins
    BY <1>2, <1>3, <2>1 DEF Registered, At
  <2>5. OneWriter'
    BY <2>2 DEF OneWriter, Writing, At
  <2>6. OriginsKept'
    BY <2>3, <2>4 DEF OriginsKept, Registered, Whole
  <2>7. QED BY <2>5, <2>6
<1>8. OneWriter' /\ OriginsKept'
  BY <1>2, <1>7 DEF OneWriter, OriginsKept
<1>9. QED BY <1>5, <1>6, <1>8 DEF ConfigInv

(* A crash that does not leave the manifest truncated leaves it as it was. *)
LEMMA CrashKeeps ==
    ASSUME ConfigInv, NEW p \in Processes, Crash(p)
    PROVE  ConfigInv'
<1>1. ConfigTypes /\ (\A q \in Processes : Read(q)) /\ SecretStands /\ OneWriter /\ OriginsKept
  BY DEF ConfigInv
<1>. DEFINE r == [process[p] EXCEPT !.stage = "failed"]
<1>2. /\ UnderWay(p) /\ r \in Process /\ r.stage = "failed"
      /\ r.extension = process[p].extension /\ r.origins = process[p].origins
      /\ process' = [process EXCEPT ![p] = r]
      /\ torn' = (torn \/ At(p, "writeManifest"))
      /\ crashes' = crashes + 1 /\ crashes < MaxCrashes
      /\ UNCHANGED <<config, manifest, apart, agreed>>
  BY <1>1 DEF Crash, ConfigTypes, Process, Stages
<1>. HIDE DEF r
<1>3. /\ process' \in [Processes -> Process] /\ process'[p] = r
      /\ \A q \in Processes \ {p} : process'[q] = process[q]
  BY <1>1, <1>2, OneProcess
<1>4. crashes' \in 0..MaxCrashes /\ torn' \in BOOLEAN
  BY <1>1, <1>2, ConfigAssumption DEF ConfigTypes
<1>5. ConfigTypes'
  BY <1>1, <1>2, <1>3, <1>4 DEF ConfigTypes
<1>6. ASSUME NEW q \in Processes PROVE Read(q)'
  BY <1>1, <1>2, <1>3 DEF Read, UnderWay, Installing
<1>7. SecretStands'
  BY <1>1, <1>2, <1>3 DEF SecretStands, UnderWay
<1>8. ASSUME ~torn' PROVE OneWriter' /\ OriginsKept'
  <2>1. ~torn /\ process[p].stage # "writeManifest"
    BY <1>2, <1>8 DEF At
  <2>2. /\ Writing' = Writing \ {p}
        /\ \A q \in Processes : (At(q, "writeManifest")' <=> At(q, "writeManifest"))
        /\ \A q \in Processes : process'[q].origins = process[q].origins
                                /\ process'[q].extension = process[q].extension
        /\ \A q \in Processes : Registered(q)' => Registered(q)
    BY <1>2, <1>3, <2>1 DEF Writing, Registered, At
  <2>3. OneWriter'
    BY <1>1, <1>2, <2>1, <2>2 DEF OneWriter
  <2>4. OriginsKept'
    BY <1>1, <1>2, <2>1, <2>2 DEF OriginsKept, Registered, Whole
  <2>5. QED BY <2>3, <2>4
<1>9. OneWriter' /\ OriginsKept'
  BY <1>8 DEF OneWriter, OriginsKept
<1>10. QED BY <1>5, <1>6, <1>7, <1>9 DEF ConfigInv

-----------------------------------------------------------------------------
HostInv == SocketInv /\ ConfigInv

(* Nothing has happened yet.                                               *)
LEMMA InitHolds == Init => HostInv
<1>. SUFFICES ASSUME Init PROVE HostInv
  OBVIOUS
<1>1. SocketInv
  BY DEF Init, SocketInit, SocketInv, SocketTypes, BrokerStages
<1>2. /\ config = Absent /\ manifest = Absent /\ agreed = Nil /\ torn = FALSE /\ crashes = 0
      /\ apart = [p \in Processes |-> FALSE]
      /\ process = [p \in Processes |->
           [stage |-> "off", extension |-> Nil, secret |-> Nil, origins |-> {}]]
  BY DEF Init, ConfigInit
<1>3. /\ process \in [Processes -> Process]
      /\ \A p \in Processes : process[p].stage = "off" /\ process[p].secret = Nil
  BY <1>2 DEF Process, Stages, Origins
<1>4. ConfigTypes
  <2>1. config \in File(Config) /\ manifest \in File(Origins)
    BY <1>2 DEF Absent, File
  <2>2. apart \in [Processes -> BOOLEAN] /\ torn \in BOOLEAN
    BY <1>2
  <2>3. crashes \in 0..MaxCrashes
    BY <1>2, ConfigAssumption
  <2>4. QED BY <1>2, <1>3, <2>1, <2>2, <2>3 DEF ConfigTypes
<1>5. \A p \in Processes : Read(p)
  BY <1>2, <1>3 DEF Read, Installing
<1>6. SecretStands /\ OneWriter /\ OriginsKept
  BY <1>2, <1>3 DEF SecretStands, OneWriter, OriginsKept, Writing, At
<1>7. QED BY <1>1, <1>4, <1>5, <1>6 DEF HostInv, ConfigInv

(* A step of one half leaves the other as it is.                           *)
LEMMA HostKeeps == HostInv /\ [Next]_vars => HostInv'
<1>. SUFFICES ASSUME HostInv, [Next]_vars PROVE HostInv'
  OBVIOUS
<1>1. SocketInv /\ ConfigInv
  BY DEF HostInv
<1>2. ASSUME UNCHANGED socketVars PROVE SocketInv'
  BY <1>1, <1>2 DEF socketVars, SocketInv, SocketTypes, Undisturbed, Unsettled
<1>3. ASSUME UNCHANGED configVars PROVE ConfigInv'
  BY <1>1, <1>3 DEF configVars, ConfigInv, ConfigTypes, Read, UnderWay, SecretStands,
     OneWriter, OriginsKept, Writing, Registered, At, Whole
<1>4. ASSUME NEW p \in Processes, ConfigStep(p), UNCHANGED socketVars PROVE HostInv'
  <2>1. ConfigInv'
    BY <1>1, <1>4, BeginKeeps, MissingKeeps, LoadKeeps, UnparsableKeeps, OpenConfigKeeps,
       CreateKeeps, SaveKeeps, ReadManifestKeeps, OpenManifestKeeps, WriteManifestKeeps,
       CrashKeeps DEF ConfigStep
  <2>2. QED BY <1>2, <1>4, <2>1 DEF HostInv
<1>5. ASSUME NEW b \in Brokers, ChromeStarts(b) \/ SocketStep(b), UNCHANGED configVars
      PROVE  HostInv'
  <2>1. SocketInv'
    BY <1>1, <1>5, StartBrokerKeeps, WithinStart, EndKeeps DEF ChromeStarts, SocketStep
  <2>2. QED BY <1>3, <1>5, <2>1 DEF HostInv
<1>6. CASE UNCHANGED vars
  BY <1>2, <1>3, <1>6 DEF vars, HostInv
<1>7. QED BY <1>4, <1>5, <1>6 DEF Next

(* The invariant holds in every state.                                     *)
LEMMA AlwaysHostInv == Spec => []HostInv
  BY InitHolds, HostKeeps, PTL DEF Spec

(* Every variable has its type; the path names only a broker that bound it *)
(* (native_host.rs:79, config.rs:209-229).                                 *)
THEOREM HostTypes == Spec => []TypeOK
<1>1. HostInv => TypeOK
  BY DEF HostInv, SocketInv, SocketTypes, ConfigInv, ConfigTypes, TypeOK, Holding
<1>2. QED BY <1>1, AlwaysHostInv, PTL

(* A broker that began alone keeps the path while it serves, however many  *)
(* others start (native_host.rs:57-86).                                    *)
THEOREM LoneBrokersReachable == Spec => []LoneBrokerReachable
<1>1. HostInv => LoneBrokerReachable
  BY DEF HostInv, SocketInv, Undisturbed, LoneBrokerReachable
<1>2. QED BY <1>1, AlwaysHostInv, PTL

(* A start that is alone never fails on what was left at the path, after   *)
(* any number of kills (native_host.rs:75-77).                             *)
THEOREM LoneStartsSucceed == Spec => []LoneStartSucceeds
<1>1. HostInv => LoneStartSucceeds
  BY DEF HostInv, SocketInv, Undisturbed, LoneStartSucceeds
<1>2. QED BY <1>1, AlwaysHostInv, PTL

(* A secret once settled on stands, whatever any number of processes do to *)
(* the file after it (config.rs:24-48).                                    *)
THEOREM SecretsStand == Spec => []SecretStands
<1>1. HostInv => SecretStands
  BY DEF HostInv, ConfigInv
<1>2. QED BY <1>1, AlwaysHostInv, PTL

(* Installs that do not pass each other, and do not die in the middle of   *)
(* the write, never lose an extension (config.rs:65-126).                  *)
THEOREM OriginsStay == Spec => []OriginsKept
<1>1. HostInv => OriginsKept
  BY DEF HostInv, ConfigInv
<1>2. QED BY <1>1, AlwaysHostInv, PTL
=============================================================================
