----------------------------- MODULE TabDebugger -----------------------------
(***************************************************************************)
(* chrome.debugger on the tabs, and the worker's Set of those it takes for *)
(* attached (browser.ts).  What the worker asks is done when it is sent;   *)
(* Chrome's replies and events reach the worker later, in order.           *)
(***************************************************************************)
EXTENDS Integers, Sequences, FiniteSets

CONSTANTS
    Tabs,        \* tab ids; Chrome uses each once
    Calls,       \* slots for the calls under way
    MaxOutside,  \* bound: events that no call brings about; a record counts half
    Nil

ASSUME DebuggerAssumption == MaxOutside \in Nat /\ Nil \notin Tabs \cup Calls

VARIABLES
    tab,           \* Chrome: each tab is "unused", "open" or "closed"
    debuggee,      \* Chrome: who debugs the tab
    domains,       \* Chrome: the domains enabled in the connector's session
    cut,           \* history: tabs whose session lost an enabling command
    wire,          \* Chrome to worker: what is on its way about each tab
    attachedTabs,  \* worker: the Set of that name
    outside        \* bound: half events so far

debuggerVars == <<tab, debuggee, domains, cut, wire, attachedTabs, outside>>

Domains == {"Runtime", "Network", "Page"}

\* "done" and "refused" answer a call; "detached" is the end of the session, as
\* an event or as the answer to detachTabs; "removed" is the end of the tab
Message == [kind : {"done", "refused", "detached", "removed"}, to : Calls \cup {Nil}]

DebuggerInit ==
    /\ debuggee = [t \in Tabs |-> "nobody"]
    /\ domains = [t \in Tabs |-> {}]
    /\ cut = {}
    /\ wire = [t \in Tabs |-> <<>>]
    /\ attachedTabs = {}
    /\ outside = 0

\* queue: what is on its way already
Send(t, queue, kind, c) ==
    wire' = [wire EXCEPT ![t] = Append(queue, [kind |-> kind, to |-> c])]

\* Outside(2): an event; Outside(1): a record
Outside(cost) == outside + cost =< 2 * MaxOutside + 1 /\ outside' = outside + cost

-----------------------------------------------------------------------------
\* chrome.debugger.attach
Attach(c, t) ==
    LET free == tab[t] = "open" /\ debuggee[t] = "nobody"
    IN /\ debuggee' = [debuggee EXCEPT ![t] = IF free THEN "connector" ELSE @]
       /\ Send(t, wire[t], IF free THEN "done" ELSE "refused", c)
       /\ UNCHANGED <<tab, domains, cut, attachedTabs, outside>>

\* sendCommand of <domain>.enable to the session there is
Enabled(c, t, domain, queue) ==
    /\ debuggee[t] = "connector"
    /\ domains' = [domains EXCEPT ![t] = @ \cup {domain}]
    /\ Send(t, queue, "done", c)
    /\ UNCHANGED <<cut, outside>>

\* ... that has ended
NoSession(c, t, queue) ==
    /\ debuggee[t] # "connector"
    /\ Send(t, queue, "refused", c)
    /\ UNCHANGED <<domains, cut, outside>>

\* ... while the page moves to another process: the command fails, the
\* session lives on
Cut(c, t, queue) ==
    /\ Outside(2)
    /\ debuggee[t] = "connector"
    /\ cut' = cut \cup {t}
    /\ Send(t, queue, "refused", c)
    /\ UNCHANGED domains

Enable(c, t, domain, queue) ==
    /\ Enabled(c, t, domain, queue) \/ NoSession(c, t, queue) \/ Cut(c, t, queue)
    /\ UNCHANGED <<tab, debuggee, attachedTabs>>

-----------------------------------------------------------------------------
(* Chrome, for its own reasons                                             *)

\* who ends up with the tabs whose session is over
End(tabs, who) ==
    /\ debuggee' = [t \in Tabs |-> IF t \in tabs THEN who ELSE debuggee[t]]
    /\ domains' = [t \in Tabs |-> IF t \in tabs THEN {} ELSE domains[t]]
    /\ cut' = cut \ tabs

\* the user cancels the debugging of a tab
Cancel(t) ==
    /\ Outside(2)
    /\ debuggee[t] = "connector"
    /\ End({t}, "nobody")
    /\ Send(t, wire[t], "detached", Nil)
    /\ UNCHANGED <<tab, attachedTabs>>

\* DevTools or another extension attaches, or leaves
Another(t) ==
    /\ Outside(2)
    /\ tab[t] = "open" /\ debuggee[t] # "connector"
    /\ debuggee' = [debuggee EXCEPT ![t] = IF @ = "nobody" THEN "another" ELSE "nobody"]
    /\ UNCHANGED <<tab, domains, cut, wire, attachedTabs>>

\* detachTabs: Chrome ends the sessions of these tabs and answers for each
\* tab, whether there was one or not
Detach(tabs) ==
    /\ End({t \in tabs : debuggee[t] = "connector"}, "nobody")
    /\ wire' = [t \in Tabs |-> IF t \in tabs
                  THEN Append(wire[t], [kind |-> "detached", to |-> Nil]) ELSE wire[t]]
    /\ UNCHANGED <<tab, attachedTabs>>
==============================================================================
