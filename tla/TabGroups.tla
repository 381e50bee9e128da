------------------------------ MODULE TabGroups ------------------------------
(***************************************************************************)
(* The tab groups the agents' tabs are put in (browser.ts).  A group is    *)
(* named here by the tab it was made with; Chrome ends it with its last    *)
(* tab.                                                                    *)
(***************************************************************************)
EXTENDS TabDebugger

CONSTANTS
    Sessions,
    Default,   \* the key of DEFAULT_GROUP
    Labels,    \* group titles
    HostLabel  \* the title of a session that has no label of its own

ASSUME GroupAssumption ==
    HostLabel \in Labels /\ Default \notin Sessions /\ Nil \notin Sessions \cup {Default}

VARIABLES
    groupIds,  \* worker: the Map from a key to its group
    group,     \* Chrome: the group of each tab, or Nil
    title,     \* Chrome: the title of each group
    label,     \* storage: the label of each session, or of its host
    owner      \* history: the session whose call made each tab, Default in a batch

groupVars == <<groupIds, group, title, label, owner>>

Keys == Sessions \cup {Default}

GroupInit ==
    /\ groupIds = [k \in Keys |-> Nil]
    /\ group = [t \in Tabs |-> Nil]
    /\ title = [t \in Tabs |-> Nil]
    /\ label = [s \in Sessions |-> HostLabel]
    /\ owner = [t \in Tabs |-> Nil]

Alive(g) == \E t \in Tabs : group[t] = g

-----------------------------------------------------------------------------
(* ensureTabGroup, a step for each reply it waits for                      *)

\* the key has a group, and Chrome lets the tab in
Join(key, t) ==
    /\ groupIds[key] # Nil /\ Alive(groupIds[key])
    /\ group' = [group EXCEPT ![t] = groupIds[key]]
    /\ UNCHANGED <<groupIds, title, label, owner>>

\* the key's group is gone: the tab stays alone
Refused(key) ==
    /\ groupIds[key] # Nil /\ ~Alive(groupIds[key])
    /\ groupIds' = [groupIds EXCEPT ![key] = Nil]
    /\ UNCHANGED <<group, title, label, owner>>

\* any other error
Forget(key) ==
    /\ groupIds' = [groupIds EXCEPT ![key] = Nil]
    /\ UNCHANGED <<group, title, label, owner>>

Found(key, t) ==
    /\ groupIds[key] = Nil
    /\ group' = [group EXCEPT ![t] = t]
    /\ UNCHANGED <<groupIds, title, label, owner>>

\* tabGroups.update of the new group, then the Map
Keep(key, g, name) ==
    /\ title' = [title EXCEPT ![g] = IF Alive(g) THEN name ELSE @]
    /\ groupIds' = [groupIds EXCEPT ![key] = IF Alive(g) THEN g ELSE Nil]
    /\ UNCHANGED <<group, label, owner>>

\* tabGroups.update of a group the key had; a failure is ignored
Retitle(g, name) ==
    /\ title' = [title EXCEPT ![g] = IF Alive(g) THEN name ELSE @]
    /\ UNCHANGED <<groupIds, group, label, owner>>

\* mutant: the Map is keyed by the title, so a rename loses the group
renameGroupKeyed(key, name) ==
    /\ groupIds' = [groupIds EXCEPT ![key] = Nil]
    /\ title' = [g \in Tabs |-> IF g = groupIds[key] /\ Alive(g) THEN name ELSE title[g]]
    /\ UNCHANGED <<group, label, owner>>

\* renameGroup
renameGroup(key, name) ==
    /\ title' = [g \in Tabs |-> IF g = groupIds[key] /\ Alive(g) THEN name ELSE title[g]]
    /\ UNCHANGED <<groupIds, group, label, owner>>
==============================================================================
