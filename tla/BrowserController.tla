--------------------------- MODULE BrowserController ---------------------------
(***************************************************************************)
(* BrowserController.dispatch (browser.ts) with what handleNativeRequest   *)
(* does around it: calls of several sessions under way at once, each an    *)
(* action or a batch of actions, on tabs that the user, the pages and      *)
(* other debuggers act on too.                                             *)
(***************************************************************************)
EXTENDS Policy, LogRecords, TabGroups

CONSTANTS
    Requests,     \* the requests agents send
    UserTab,      \* the tab the user has handed over
    MaxRequests,  \* bound: calls in all, a batch counts for two
    PageSizes,    \* bound: the limits agents read records with
    Targets       \* bound: the words that targets read with

\* The tools that ask for the debugger, that run a script, that do neither.  One
\* reading of the page stamps the elements with their references (PageRefs)
Logs == {"read_console_messages", "read_network_requests"}
Tools == {"computer", "javascript_tool", "download_file"} \cup Logs
Scripts == {"form_input", "upload_file"}
Reads == {"read_page", "find"}
Others == {"tabs_create", "tabs_close", "label_session"}

\* The fields of an action that the model tells apart: see Policy
Action == [tool : Tools \cup Scripts \cup Reads \cup Others,
           tab : Tabs \cup {Nil}, byRef : BOOLEAN, extra : BOOLEAN, path : Seq(Nat)]

ASSUME ControllerAssumption ==
    /\ Requests \subseteq [batch : BOOLEAN, actions : Seq(Action) \ {<<>>}]
    /\ \A r \in Requests :
         /\ ~r.batch => Len(r.actions) = 1
         /\ \A k \in DOMAIN r.actions :
              IF r.actions[k].tool \in Untargeted THEN ~r.actions[k].byRef
              ELSE r.actions[k].tab \in Tabs
    /\ UserTab \in Tabs /\ MaxRequests \in Nat /\ PageSizes \subseteq Nat \ {0}
    /\ Targets \subseteq Words

VARIABLES
    controlled,  \* storage: controlledTabIds of each session
    page,        \* the words of the element that a reference of the tab stands for
    stamped,     \* tabs where that element carries the reference
    calls,       \* the calls: Nil, under way, or over
    requests,    \* bound: calls so far
    release,     \* the releaseAllSessions under way, or Nil
    stray,       \* history: tabs that a session lost to a save of an older Set, or
                 \* to a release that had not listed them or met a call on them
    disturbed    \* history: sessions of which two calls overlapped, or that
                 \* were released, or whose group the worker forgot

callVars == <<controlled, calls, requests, stray, disturbed>>
pageVars == <<page, stamped>>
vars == <<debuggerVars, logVars, groupVars, callVars, pageVars, release>>

\* the await a call is at
Step == {"begin", "attach", "Runtime", "Network", "Page", "act",
         "created", "group", "title", "query", "label"}

\* the awaits of ensureDebugger
Waiting == {"attach", "Runtime", "Network", "Page"}

Call == [session : Sessions, request : Requests,
         at : Nat,                     \* the action under way
         step : Step,
         on : Tabs \cup {Nil},         \* the tab just created, or a group
         label : Labels,               \* of the GroupDescriptor
         controlled : SUBSET Tabs,     \* the Set that dispatch is given
         made : SUBSET Tabs,           \* history: tabs it has created
         graded : SUBSET Tabs,         \* history: tabs whose reference named an element
         changed : BOOLEAN]            \* history: a page changed since it was graded

\* A call that has been answered, or was lost with the worker
Answer == [step : {"answered", "lost"}, failed : BOOLEAN,
           lost : SUBSET Tabs,         \* history: tabs it had created, and failed
           query : BOOLEAN]            \* history: ... by a refusal of tabs.query

\* releaseAllSessions: the sessions still to remove, the one whose tabs are to be
\* detached now, and the tabs of each when they were listed
Release == [todo : SUBSET Sessions, now : Sessions \cup {Nil},
            listed : [Sessions -> SUBSET Tabs]]

ASSUME NilAssumption == Nil \notin Walk \cup Call \cup Answer \cup Release

\* the tabs that requests name
Named == UNION {{r.actions[k].tab : k \in DOMAIN r.actions} : r \in Requests}

Active == {c \in Calls : calls[c] # Nil /\ calls[c].step \in Step}
Of(s) == {c \in Active : calls[c].session = s}
At(c, step) == c \in Active /\ calls[c].step = step

Now(c) == calls[c].request.actions[calls[c].at]

\* mutant: dispatch is never given the group
KeyForgotten(c) == Default

\* the key of the GroupDescriptor: browserBatch dispatches without one
Key(c) == IF calls[c].request.batch THEN Default ELSE calls[c].session

Init ==
    /\ DebuggerInit /\ LogInit /\ GroupInit
    /\ tab = [t \in Tabs |-> IF t = UserTab THEN "open" ELSE "unused"]
    /\ controlled \in [Sessions -> SUBSET {UserTab}]
    /\ page = [t \in Tabs |-> "plain"] /\ stamped = {}
    /\ calls = [c \in Calls |-> Nil]
    /\ requests = 0 /\ release = Nil
    /\ stray = {} /\ disturbed = {}

-----------------------------------------------------------------------------
(* The course of a call                                                    *)

\* describePageRef: a reference that names nothing has no words
described == [t \in Tabs |-> IF t \in stamped THEN page[t] ELSE "plain"]

\* bound: what a request counts for
Weight(r) == IF r.batch THEN 2 ELSE 1

\* authorize, and the Set and the GroupDescriptor that dispatch is given
Begin(c, s, r) ==
    /\ c \notin Active /\ requests + Weight(r) =< MaxRequests
    /\ authorized(r, controlled[s], described)
    /\ requests' = requests + Weight(r)
    /\ calls' = [calls EXCEPT ![c] =
         [session |-> s, request |-> r, at |-> 1, step |-> "begin", on |-> Nil,
          label |-> label[s], controlled |-> controlled[s], made |-> {},
          graded |-> IF r.batch THEN stamped ELSE {}, changed |-> FALSE]]
    /\ disturbed' = IF Of(s) = {} THEN disturbed ELSE disturbed \cup {s}
    /\ UNCHANGED <<debuggerVars, logVars, groupVars, pageVars, release, controlled, stray>>

Goes(c, step, on) ==
    /\ calls' = [calls EXCEPT ![c].step = step, ![c].on = on]
    /\ UNCHANGED <<controlled, requests, stray>>

Goto(c, step, on) == Goes(c, step, on) /\ UNCHANGED disturbed

\* What is left to do.  A failing action ends the batch it is in, and that is a
\* result for the batch around it
Rest(c, ok) ==
    LET path == Now(c).path
        inBatch(k) == LET other == calls[c].request.actions[k].path IN
            Len(path) =< Len(other) /\ SubSeq(other, 1, Len(path)) = path
    IN {k \in DOMAIN calls[c].request.actions : k > calls[c].at /\ (ok \/ ~inBatch(k))}

\* The action under way is over: the next, or the answer.  An error leaves the
\* stored tabs as they are, a result replaces them by those dispatch has left in
\* its Set; only invalid_batch fails a batch
OverWith(c, ok, tabs) ==
    LET call == [calls[c] EXCEPT !.controlled = tabs]
        rest == Rest(c, ok)
        failed == ~ok /\ (call.request.batch => Now(c).tool = "javascript_tool")
    IN /\ \/ \E next \in rest :
               /\ ~failed /\ \A k \in rest : next =< k
               /\ calls' = [calls EXCEPT ![c] = [call EXCEPT
                      !.at = next, !.step = "begin", !.on = Nil]]
               /\ UNCHANGED <<controlled, stray>>
          \/ /\ failed \/ rest = {}
             /\ calls' = [calls EXCEPT ![c] =
                      [step |-> "answered", failed |-> failed,
                       lost |-> IF failed THEN call.made ELSE {},
                       query |-> failed /\ call.step = "query"]]
             /\ controlled' = IF failed THEN controlled
                              ELSE [controlled EXCEPT ![call.session] = call.controlled]
             /\ stray' = stray \cup (controlled[call.session] \ controlled'[call.session])
       /\ UNCHANGED requests

Over(c, ok) == OverWith(c, ok, calls[c].controlled) /\ UNCHANGED disturbed

\* Chrome closes a tab, its session with a debugger, and its group if it is the last
Gone(t) ==
    /\ tab' = [tab EXCEPT ![t] = "closed"]
    /\ End({t}, "nobody")
    /\ Send(t, wire[t], "removed", Nil)
    /\ group' = [group EXCEPT ![t] = Nil]

-----------------------------------------------------------------------------
(* dispatch                                                                *)

\* ensureDebugger
EnsureDebugger(c) ==
    /\ At(c, "begin") /\ Now(c).tool \in Tools
    /\ ~(calls[c].request.batch /\ Now(c).tool = "javascript_tool")
    /\ \/ /\ Now(c).tab \in attachedTabs
          /\ Goto(c, "act", Nil)
          /\ UNCHANGED debuggerVars
       \/ /\ Now(c).tab \notin attachedTabs
          /\ Attach(c, Now(c).tab)
          /\ Goto(c, "attach", Nil)
    /\ UNCHANGED <<logVars, groupVars, pageVars, release>>

\* formInput and uploadFile run a script of the extension in the page
Script(c) ==
    /\ At(c, "begin") /\ Now(c).tool \in Scripts
    /\ Goto(c, "act", Nil)
    /\ UNCHANGED <<debuggerVars, logVars, groupVars, pageVars, release>>

\* dispatch knows no label_session, browserBatch refuses javascript_tool
Unbatchable(c) ==
    /\ At(c, "begin")
    /\ calls[c].request.batch /\ Now(c).tool \in {"label_session", "javascript_tool"}
    /\ Over(c, FALSE)
    /\ UNCHANGED <<debuggerVars, logVars, groupVars, pageVars, release>>

\* the action itself.  It may fail for its own reasons (an error in the page),
\* and it does without a session or when its reference names nothing
Act(c) ==
    /\ At(c, "act") /\ Now(c).tool \notin Logs
    /\ \E ok \in BOOLEAN :
         /\ ok /\ Now(c).tool \in Tools => debuggee[Now(c).tab] = "connector"
         /\ ok /\ Now(c).byRef => Now(c).tab \in stamped
         /\ Over(c, ok)
    /\ UNCHANGED <<debuggerVars, logVars, groupVars, pageVars, release>>

\* readPage and find give the references out, and one may take that of the other
ReadPage(c) ==
    /\ At(c, "begin") /\ Now(c).tool \in Reads
    /\ \/ /\ tab[Now(c).tab] = "open"
          /\ stamped' \in {stamped \cup {Now(c).tab}, stamped \ {Now(c).tab}}
          /\ Over(c, TRUE)
       \/ Over(c, FALSE) /\ UNCHANGED stamped
    /\ UNCHANGED <<debuggerVars, logVars, groupVars, page, release>>

\* readConsole and readNetwork ask nothing more of Chrome
ReadLog(c) ==
    /\ At(c, "act") /\ Now(c).tool \in Logs
    /\ \E limit \in PageSizes :
         \/ ReadOn(Now(c).tab, limit)
         \/ \E matching \in SUBSET kept[Now(c).tab] : ReadFirst(Now(c).tab, matching, limit)
    /\ Over(c, TRUE)
    /\ UNCHANGED <<debuggerVars, groupVars, pageVars, release>>

\* mutant: Chrome's answer is not asked for the tab's id
CreateUndefined(c, t) ==
    /\ At(c, "begin") /\ Now(c).tool = "tabs_create"
    /\ tab[t] = "unused"
    /\ tab' = [tab EXCEPT ![t] = "open"]
    /\ owner' = [owner EXCEPT ![t] = IF calls[c].request.batch THEN Default
                                    ELSE calls[c].session]
    /\ calls' = [calls EXCEPT ![c].step = "created", ![c].on = t,
                             ![c].controlled = @ \cup {Nil}, ![c].made = @ \cup {t}]
    /\ UNCHANGED <<controlled, requests, stray, disturbed>>
    /\ UNCHANGED <<debuggee, domains, cut, wire, attachedTabs, outside>>
    /\ UNCHANGED <<logVars, groupIds, group, title, label, pageVars, release>>

\* tabsCreate: chrome.tabs.create, then the tab is the session's
Create(c, t) ==
    /\ At(c, "begin") /\ Now(c).tool = "tabs_create"
    /\ tab[t] = "unused"
    /\ tab' = [tab EXCEPT ![t] = "open"]
    /\ owner' = [owner EXCEPT ![t] = IF calls[c].request.batch THEN Default
                                    ELSE calls[c].session]
    /\ calls' = [calls EXCEPT ![c].step = "created", ![c].on = t,
                             ![c].controlled = @ \cup {t}, ![c].made = @ \cup {t}]
    /\ UNCHANGED <<controlled, requests, stray, disturbed>>
    /\ UNCHANGED <<debuggee, domains, cut, wire, attachedTabs, outside>>
    /\ UNCHANGED <<logVars, groupIds, group, title, label, pageVars, release>>

\* extra: with a URL.  A tab that has it is reused, it is restricted, or Chrome
\* refuses
CreateNone(c) ==
    /\ At(c, "begin") /\ Now(c).tool = "tabs_create"
    /\ \/ Over(c, FALSE)
       \/ Now(c).extra /\ (\E t \in calls[c].controlled : tab[t] = "open") /\ Over(c, TRUE)
    /\ UNCHANGED <<debuggerVars, logVars, groupVars, pageVars, release>>

\* ensureTabGroup reads the Map and asks Chrome.  A tab closed meanwhile, or a
\* group that is gone, is an error that ensureTabGroup swallows
Group(c) ==
    LET t == calls[c].on
        key == Key(c)
    IN /\ At(c, "created")
       /\ \/ tab[t] = "open" /\ Join(key, t) /\ Goto(c, "group", groupIds[key])
          \/ tab[t] = "open" /\ Found(key, t) /\ Goto(c, "title", t)
          \/ tab[t] = "open" /\ Refused(key) /\ Goto(c, "query", Nil)
          \/ /\ tab[t] # "open" /\ Forget(key)
             /\ Goes(c, "query", Nil)
             /\ disturbed' = disturbed \cup ({key} \cap Sessions)
       /\ UNCHANGED <<debuggerVars, logVars, pageVars, release>>

\* tabGroups.update with the label the call began with
Title(c) ==
    LET name == calls[c].label
    IN /\ \/ At(c, "group") /\ Retitle(calls[c].on, name)
          \/ At(c, "title") /\ Keep(Key(c), calls[c].on, name)
       /\ Goto(c, "query", Nil)
       /\ UNCHANGED <<debuggerVars, logVars, pageVars, release>>

\* the end of tabsCreate: with a URL, countTabsOutsideBoundary asks Chrome for
\* the other tabs, outside any try
Query(c) ==
    /\ At(c, "query")
    /\ \E ok \in BOOLEAN :
         /\ ok \/ Now(c).extra
         /\ Over(c, ok)
    /\ UNCHANGED <<debuggerVars, logVars, groupVars, pageVars, release>>

\* mutant: the group is named after the label the call began with
SaveLabelStale(c, name) ==
    /\ At(c, "begin") /\ Now(c).tool = "label_session" /\ ~calls[c].request.batch
    /\ label' = [label EXCEPT ![calls[c].session] = name]
    /\ Goto(c, "label", Nil)
    /\ UNCHANGED <<debuggerVars, logVars, pageVars, release, groupIds, group, title, owner>>

\* tabsClose: a tab that is closed already is no error
CloseTab(c) ==
    LET t == Now(c).tab
        left == calls[c].controlled \ {t}
    IN /\ At(c, "begin") /\ Now(c).tool = "tabs_close"
       /\ OverWith(c, TRUE, left) /\ UNCHANGED disturbed
       /\ \/ tab[t] = "open" /\ Gone(t)
          \/ tab[t] # "open" /\ UNCHANGED <<tab, debuggee, domains, cut, wire, group>>
       /\ UNCHANGED <<attachedTabs, outside, logVars, groupIds, title, label, owner, pageVars, release>>

\* labelSession saves the label, then renames the group
SaveLabel(c, name) ==
    /\ At(c, "begin") /\ Now(c).tool = "label_session" /\ ~calls[c].request.batch
    /\ label' = [label EXCEPT ![calls[c].session] = name]
    /\ calls' = [calls EXCEPT ![c].step = "label", ![c].label = name]
    /\ UNCHANGED <<controlled, requests, stray, disturbed>>
    /\ UNCHANGED <<debuggerVars, logVars, pageVars, release, groupIds, group, title, owner>>

Rename(c) ==
    /\ At(c, "label")
    /\ renameGroup(calls[c].session, calls[c].label)
    /\ Over(c, TRUE)
    /\ UNCHANGED <<debuggerVars, logVars, pageVars, release>>

-----------------------------------------------------------------------------
(* What reaches the worker from Chrome                                     *)

Received(t, kinds) == wire[t] # <<>> /\ Head(wire[t]).kind \in kinds
Taken(t) == wire' = [wire EXCEPT ![t] = Tail(@)]

NextDomain == [attach |-> "Runtime", Runtime |-> "Network", Network |-> "Page"]

\* the reply an ensureDebugger waits for
Reply(t) ==
    LET c == Head(wire[t]).to
        step == calls[c].step
    IN /\ Received(t, {"done"}) /\ c \in Active
       /\ \/ /\ step \in DOMAIN NextDomain
             /\ Enable(c, t, NextDomain[step], Tail(wire[t]))
             /\ Goto(c, NextDomain[step], Nil)
          \/ /\ step = "Page"
             /\ attachedTabs' = attachedTabs \cup {t}
             /\ Goto(c, "act", Nil)
             /\ Taken(t)
             /\ UNCHANGED <<tab, debuggee, domains, cut, outside>>
       /\ UNCHANGED <<logVars, groupVars, pageVars, release>>

\* debugger_conflict
Conflict(t) ==
    LET c == Head(wire[t]).to
    IN /\ Received(t, {"refused"}) /\ c \in Active /\ calls[c].step \in Waiting
       /\ Over(c, FALSE)
       /\ Taken(t)
       /\ UNCHANGED <<tab, debuggee, domains, cut, attachedTabs, outside>>
       /\ UNCHANGED <<logVars, groupVars, pageVars, release>>

\* mutant: nothing listens to onDetach
DetachedUnheard(t) ==
    /\ Received(t, {"detached"})
    /\ Taken(t)
    /\ UNCHANGED <<tab, debuggee, domains, cut, attachedTabs, outside>>
    /\ UNCHANGED <<logVars, groupVars, callVars, pageVars, release>>

\* onDetach, and the end of detachTabs
Detached(t) ==
    /\ Received(t, {"detached"})
    /\ attachedTabs' = attachedTabs \ {t}
    /\ Taken(t)
    /\ UNCHANGED <<tab, debuggee, domains, cut, outside, logVars, groupVars, callVars, pageVars, release>>

\* onRemoved: here and in the worker's own listener (SessionListeners)
Removed(t) ==
    /\ Received(t, {"removed"})
    /\ attachedTabs' = attachedTabs \ {t}
    /\ kept' = [kept EXCEPT ![t] = {}]
    /\ controlled' = [s \in Sessions |-> controlled[s] \ {t}]
    /\ Taken(t)
    /\ UNCHANGED <<tab, debuggee, domains, cut, outside, pushed, walk>>
    /\ UNCHANGED <<groupVars, pageVars, release, calls, requests, stray, disturbed>>

-----------------------------------------------------------------------------
(* The user, the pages, Chrome                                             *)

\* releaseAllSessions: the sessions that have a record.  Bound: one release at a
\* time, and it counts for a call, an event and a record
ReleaseAll ==
    /\ Outside(3) /\ release = Nil
    /\ requests < MaxRequests /\ requests' = requests + 1
    /\ \E todo \in SUBSET Sessions \ {{}} :
         /\ {s \in Sessions : controlled[s] # {}} \subseteq todo
         /\ release' = [todo |-> todo, now |-> Nil,
                         listed |-> [s \in Sessions |-> IF s \in todo THEN controlled[s] ELSE {}]]
    /\ UNCHANGED <<tab, debuggee, domains, cut, wire, attachedTabs>>
    /\ UNCHANGED <<logVars, groupVars, controlled, calls, stray, disturbed, pageVars>>

\* the tabs that a call under way names
Busy == {t \in Tabs : \E c \in Active : \E k \in DOMAIN calls[c].request.actions :
                         calls[c].request.actions[k].tab = t}

\* releaseSession: the record goes, with all that was saved in it since
ReleaseSession(s) ==
    /\ release # Nil /\ release.now = Nil /\ s \in release.todo
    /\ release' = [release EXCEPT !.todo = @ \ {s}, !.now = s]
    /\ controlled' = [controlled EXCEPT ![s] = {}]
    /\ label' = [label EXCEPT ![s] = HostLabel]
    /\ stray' = stray \cup (controlled[s] \ release.listed[s]) \cup (controlled[s] \cap Busy)
    /\ disturbed' = disturbed \cup {s}
    /\ UNCHANGED <<debuggerVars, logVars, groupIds, group, title, owner, calls, requests, pageVars>>

\* mutant: the tabs to detach are read from the record that has just gone
DetachRead ==
    /\ release # Nil /\ release.now # Nil
    /\ Detach(controlled[release.now])
    /\ release' = IF release.todo = {} THEN Nil ELSE [release EXCEPT !.now = Nil]
    /\ UNCHANGED <<outside, logVars, groupVars, callVars, pageVars>>

\* ... then the debugger, of the tabs as they were listed
DetachListed ==
    /\ release # Nil /\ release.now # Nil
    /\ Detach(release.listed[release.now])
    /\ release' = IF release.todo = {} THEN Nil ELSE [release EXCEPT !.now = Nil]
    /\ UNCHANGED <<outside, logVars, groupVars, callVars, pageVars>>

Close(t) ==
    /\ Outside(2)
    /\ tab[t] = "open"
    /\ Gone(t)
    /\ UNCHANGED <<attachedTabs, logVars, groupIds, title, label, owner, callVars, pageVars, release>>

\* another document, or a script: a reference names another target, or none
PageChanges(t, words) ==
    /\ Outside(2)
    /\ tab[t] = "open" /\ t \in Named /\ words # page[t]
    /\ page' = [page EXCEPT ![t] = words]
    /\ stamped' \in {stamped, stamped \ {t}}
    /\ calls' = [c \in Calls |-> IF c \in Active THEN [calls[c] EXCEPT !.changed = TRUE]
                                 ELSE calls[c]]
    /\ UNCHANGED <<tab, debuggee, domains, cut, wire, attachedTabs, logVars, groupVars>>
    /\ UNCHANGED <<controlled, requests, stray, disturbed, release>>

\* Chrome stops the worker and starts it again.  Not while it debugs a tab
\* (Chrome 118; manifest.json:42 asks for 130)
Restart ==
    /\ Outside(2)
    /\ \A t \in Tabs : debuggee[t] # "connector"
    /\ attachedTabs' = {}
    /\ wire' = [t \in Tabs |-> <<>>]
    /\ kept' = [t \in Tabs |-> {}]
    /\ groupIds' = [k \in Keys |-> Nil]
    /\ calls' = [c \in Calls |-> IF c \in Active
                   THEN [step |-> "lost", failed |-> TRUE, lost |-> {}, query |-> FALSE]
                   ELSE calls[c]]
    /\ disturbed' = Sessions
    /\ release' = Nil
    /\ UNCHANGED <<tab, debuggee, domains, cut, pushed, walk>>
    /\ UNCHANGED <<group, title, label, owner, controlled, requests, stray, pageVars>>

-----------------------------------------------------------------------------
CallStep(c) ==
    \/ \E s \in Sessions, r \in Requests : Begin(c, s, r)
    \/ EnsureDebugger(c) \/ Script(c) \/ Unbatchable(c) \/ Act(c) \/ ReadLog(c)
    \/ ReadPage(c)
    \/ \E t \in Tabs : Create(c, t)
    \/ CreateNone(c) \/ Group(c) \/ Title(c) \/ Query(c) \/ CloseTab(c)
    \/ \E name \in Labels : SaveLabel(c, name)
    \/ Rename(c)

WireStep(t) == Reply(t) \/ Conflict(t) \/ Detached(t) \/ Removed(t)

OutsideStep(t) ==
    \/ /\ t \in Named /\ (Cancel(t) \/ Another(t))
       /\ UNCHANGED <<logVars, groupVars, callVars, pageVars, release>>
    \/ Close(t)
    \/ \E words \in Targets : PageChanges(t, words)
    \/ /\ Push(t) \/ Retype(t)
       /\ UNCHANGED <<tab, debuggee, domains, cut, wire, attachedTabs>>
       /\ UNCHANGED <<groupVars, callVars, pageVars, release>>

ReleaseStep ==
    \/ ReleaseAll
    \/ \E s \in Sessions : ReleaseSession(s)
    \/ DetachListed

Next ==
    \/ \E c \in Calls : CallStep(c)
    \/ \E t \in Tabs : WireStep(t) \/ OutsideStep(t)
    \/ ReleaseStep
    \/ Restart

Spec == Init /\ [][Next]_vars

-----------------------------------------------------------------------------
\* Every variable has its type.
TypeOK ==
    /\ tab \in [Tabs -> {"unused", "open", "closed"}]
    /\ debuggee \in [Tabs -> {"nobody", "connector", "another"}]
    /\ domains \in [Tabs -> SUBSET Domains]
    /\ wire \in [Tabs -> Seq(Message)]
    /\ {attachedTabs, cut, stray} \subseteq SUBSET Tabs
    /\ outside \in 0..(2 * MaxOutside + 1) /\ requests \in 0..MaxRequests
    /\ pushed \in Nat
    /\ kept \in [Tabs -> SUBSET (1..pushed)]
    /\ walk \in Walk \cup {Nil}
    /\ groupIds \in [Keys -> Tabs \cup {Nil}]
    /\ group \in [Tabs -> Tabs \cup {Nil}]
    /\ title \in [Tabs -> Labels \cup {Nil}]
    /\ label \in [Sessions -> Labels]
    /\ owner \in [Tabs -> Keys \cup {Nil}]
    /\ controlled \in [Sessions -> SUBSET Tabs]
    /\ page \in [Tabs -> Words] /\ stamped \subseteq Tabs
    /\ release \in Release \cup {Nil}
    /\ calls \in [Calls -> Call \cup Answer \cup {Nil}]
    /\ \A c \in Active : calls[c].at \in DOMAIN calls[c].request.actions
    /\ disturbed \subseteq Sessions

Notice(t) == \E i \in DOMAIN wire[t] : wire[t][i].kind \in {"detached", "removed"}
Enabling(t) == {c \in Active : calls[c].step \in Waiting /\ Now(c).tab = t}

\* A tab the worker takes for attached is: its session is on with the three
\* domains, unless word of its end is on its way, the call that attached it is
\* still enabling, or a page broke a command off (browser.ts:124-126, 171-174,
\* 616-627).
AttachedIsEnabled ==
    \A t \in attachedTabs :
        \/ Notice(t)
        \/ debuggee[t] = "connector" /\ (domains[t] = Domains \/ Enabling(t) # {} \/ t \in cut)

\* The debugger is released with the Control Lease (ADR 0008:7): no tab stays
\* attached that no session controls, not even one the worker has lost track
\* of, once the release under way has come to it.  Excepted are the tabs of
\* `stray`: those a release met a call on, those a session gained after the
\* release had listed its tabs, and those that a request's save of an older Set
\* dropped (service-worker.ts:91,319-328).
AttachmentEndsWithLease ==
    \A t \in Tabs : debuggee[t] = "connector" =>
        \/ t \in stray
        \/ \E s \in Sessions : t \in controlled[s]
        \/ release # Nil /\ release.now # Nil /\ t \in release.listed[release.now]

\* A batch never comes to act on a target that reads as critical, however deep
\* in it the action stands (MVP.md:45; service-worker.ts:144-149), if its pageRef
\* named an element when the batch was graded and no page has changed since.
\* A reference that a reading in the batch gives out is graded as if it had no
\* words, and a drag's toPageRef is not graded at all: this says nothing of them.
CriticalAlone ==
    \A c \in Active :
        /\ calls[c].request.batch /\ calls[c].step = "act" /\ ~calls[c].changed
        /\ Now(c).tool \in {"computer", "form_input"} /\ Now(c).byRef
        /\ Now(c).tab \in calls[c].graded
        => page[Now(c).tab] # "critical"

\* A call that created a tab is answered with an error only if tabs.query, which
\* comes last and outside any try, is refused to it (browser.ts:217,234): a
\* closed tab, a lost group, another action of the batch never make it one.  The
\* worker saves the controlled tabs after a result alone, so the tab of such a
\* call is nobody's (service-worker.ts:89-96).
CreatedTabsKept ==
    \A c \in Calls : calls[c] # Nil /\ calls[c].step = "answered"
        => calls[c].lost = {} \/ calls[c].query

\* The tabs that two sessions make are never in one group, be their titles the
\* same, nor are those made in a batch with others (browser.ts:108-110).
GroupsApart ==
    \A t, u \in Tabs : group[t] # Nil /\ group[t] = group[u] => owner[t] = owner[u]

\* A session's tabs stay in one group through its renames (browser.ts:108-110),
\* if its calls came one after the other, the worker was not restarted, the
\* session was not released, and none of its tabs was closed while it was being
\* grouped, which makes the worker forget the group (browser.ts:251-253).
RenameKeepsGroup ==
    \A s \in Sessions \ disturbed : \A t, u \in Tabs :
        /\ owner[t] = s /\ owner[u] = s
        /\ group[t] # Nil /\ group[u] # Nil
        => group[t] = group[u]

\* Between such calls the group shows the label the session has.
TitleFollowsLabel ==
    \A s \in Sessions \ disturbed :
        Of(s) = {} /\ groupIds[s] # Nil /\ Alive(groupIds[s])
          => title[groupIds[s]] = label[s]
================================================================================
