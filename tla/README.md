# Formal model of Browser Connector

TLA+ modules, TLC runs and TLAPS proofs about the program in this repository:
an MCP server (Rust) that lets agents drive the user's Chrome through a native
messaging host (Rust) and an extension (TypeScript).  `src/` below is the root
of the repository; *SW* is `src/extension/src/service-worker.ts`, *BR* is
`src/extension/src/browser.ts`; *NH* is `native_host.rs` and *CF* is `config.rs` in
`src/crates/browser-connector/src/`.

## 1. The system

```
 agent ── MCP process (relay.rs, tools.rs) ──unix socket── native broker (native_host.rs)
          one per session                                   │ stdin / stdout frames
                                                  service worker (SW) ── BrowserController (BR) ── Chrome
                                                            │
                                             chrome.storage.local / .session,  panel
```

| Component | State it keeps | Operations | Talks to |
|---|---|---|---|
| MCP relay (`relay.rs`) | the request counter, one connection behind a mutex | `call`, `connect`, `authenticate`, `shutdown` | broker, over the socket |
| MCP tools (`tools.rs`) | the last eight artifacts | `forward`, `read_resource`, one function per tool | relay; the agent is told an outcome chosen from the relay's error text |
| Native broker (`native_host.rs`) | `pending`: broker id → client, original id, response channel; a queue to the browser, a queue per client | accept, handshake, read and renumber a request, route a response, clean up a client | relays; the worker's port |
| Native port of the worker (SW 20–101) | `nativePort`, `reconnectTimer`, `leaseReleaseTimer` | `connectNative`, `onDisconnect`, `onMessage`, timers | broker; starts a request handler per message |
| Session store and request handling (SW 73–570) | `PersistedState` in storage.local (paired hosts, sites, audit log); one `SessionState` per session in storage.session (lease, controlled tabs, sites, label) | `handleNativeRequest`, `authorize`, `saveControlledTabs`, `audit`, panel commands, `releaseAllSessions`, `tabs.onRemoved` | BrowserController; panel |
| BrowserController (BR) | maps by tab: document generation, attached debuggers, console and network records, groups | one method per tool | Chrome's tabs, scripting, debugger |
| Policy (`policy.ts`) | none | classifies a request, bounds texts and limits | request handling |
| Panel (`panel.ts`), names (`naming.ts`) | view only | rendering, panel messages | request handling |
| Configuration (`config.rs`), command line (`main.rs`) | a configuration file per host, one native manifest | `load_or_create`, `install`, `status`, `run_mcp` | file system |

What is hard here, and what each part must get right:

* **Transport** (relay, broker, port).  Three processes fail separately; a call
  has a time limit, and the handler it started does not.  Ids are drawn by each
  relay and again by each broker, so they collide and repeat.  It must return
  every call, never give a call another one's response, never run an action
  twice, and tell the agent the truth about a call whose response is missing.
* **Sessions**.  Storage is read and saved in asynchronous calls, whole records
  at a time, by concurrent handlers, the tab listener, the panel and a timer.
  A session must not gain a tab it neither created nor was handed, released
  tabs must stay released, the audit log must be whole.
* **Connection**.  Two timers, the panel and restarts all act on one port and on
  the leases.  One port at most, a reconnection always due, leases that expire
  when and only when they are abandoned.
* **Browser state** (page references, groups, debugger, records).  Await points
  between a check and its use; offsets into lists that are trimmed; batches that
  act long after they were graded; a debugger that outlives the lease, or a set
  of attached tabs that outlives the debugger.
* **Files** (socket path, configuration, manifest).  Several processes start at
  once, and any of them may die in the middle of a write.

`PROJECT.json` lists each hazard at its line with the properties that cover it,
or why none does yet.

## 2. Modules

| Module | Models | EXTENDS |
|---|---|---|
| `Wire` | the state the three transport processes share: calls, sockets, client tasks, broker, port, handlers | Naturals, Sequences |
| `Relay` | `BrowserRelay::call` and its helpers, the end of the process | `Wire` |
| `NativeBroker` | client tasks, router, queues, the end of the process | `Wire` |
| `ExtensionPort` | `connectNative`, `onDisconnect`, a handler per request, the end of the worker | `Wire` |
| `Transport` | the three together, fairness, properties | `Relay`, `NativeBroker`, `ExtensionPort` |
| `AtMostOnceCall` | abstract: what an agent is promised about a call | |
| `SessionStore` | both storages, tabs, handlers, history variables | Naturals |
| `RequestHandler` | `handleNativeRequest`, one action per await | `SessionStore` |
| `SessionListeners` | tab closures, panel commands, lease release, the end of the worker | `SessionStore` |
| `ControlSession` | the session part together, properties | `RequestHandler`, `SessionListeners` |
| `NativeConnection` | port, reconnection timer, release timers, in seconds | |
| `PageRefs` | a tab's page references: `readPage`, `find`, generations, and the page that changes under them | Integers, Sequences, FiniteSets |
| `Policy` | how a request is graded, a batch by its actions at every level; what `authorize` refuses | Integers, Sequences |
| `TabDebugger` | `chrome.debugger` on the tabs, what is on its way from it, `attachedTabs` | Integers, Sequences, FiniteSets |
| `LogRecords` | the lists of console and network records, and an agent that pages through one | `TabDebugger` |
| `TabGroups` | `tabGroupIds` and Chrome's groups, reply by reply; labels and titles | `TabDebugger` |
| `BrowserController` | `dispatch` and `browserBatch` for concurrent calls of several sessions, the listeners, the user, the pages, restarts | `Policy`, `LogRecords`, `TabGroups` |
| `BrokerSocket` | the path of the broker's socket, and native hosts that start, serve, end and are killed | |
| `ConfigFiles` | the configuration of a host and the native manifest, and the processes that read and write them | Naturals, FiniteSets |
| `HostFiles` | the two together: Chrome starts a native host from a whole manifest | `ConfigFiles`, `BrokerSocket` |
| `TransportProofs`, `OutcomeProofs` (extends it), `SessionProofs`, `ConnectionProofs`, `PageProofs`, `HostProofs`, `ControllerProofs` | theorems | the component, TLAPS |
| `MCTransport`, `MCControlSession`, `MCPageRefs`, `MCHostFiles`, `MCBrowserController` | symmetry and definitions for TLC | the component |

### Transport

A call is `[relay, id]`.  `status[call]` is where `call` (`relay.rs:78-147`) is,
or what it returned, in the words in which `tools.rs:88-104` reports it:
`ok`, `browserError` (the extension answered with an error), `outcome_unknown`,
`browser_disconnected` and `browser_error` (both definite refusals), `abandoned`
(the process ended first).  `guard[r]` is the tokio mutex, held from `Lock` to
`Return`.  Each time limit is an action that may come at any step it covers, so
every race of an answer with a limit is there.  The write of the request
(`relay.rs:96-101`) is under none of them: `Write` waits, with the mutex, until the
client's task reads.

A socket is two sequences of lines; a process that ends closes its side, what
it wrote stays readable.  A client task is in `handshake`, `select`, `enqueue`,
`cleanup` or `gone`.  The cancellation of `read_line` by the other branch of
`select!` is modelled by what it does: `ReadPart` takes a prefix, and
`WriteResponse` then leaves garbage.  A relay killed in the middle of a write
leaves garbage too (`KilledWriting`).  `Route` and `Deliver` are two steps,
because the router awaits room in the client's queue in between.
`BrokerExit` stands for stdin's end, an oversized message and a kill.

A handler is `[port, id, call, stage]`; `Execute` is the browser action and
counts in `executions`.  Nothing obliges a handler to end.  `WorkerStops` ends
the handlers with the worker.  The identity of sessions, pairing and what a
handler does to the records are left to the session part.

### Session part

Every `storage.get` and `storage.set` is a step; the code up to the next await
runs in it.  `handler[h]` holds the copies that `handleNativeRequest` carries
across awaits: `local` (PersistedState), `record` (SessionState), `tabs` (the set
that `browser.dispatch` changes).  Stages follow the code: `savePaired`,
`readSession`, `saveLease`, `readOrigin`, `saveSite`, `readTabs`, (`readLabel`,
`saveLabel`), `dispatch`, `readBack`, `saveTabs`, `readAudit`, `saveAudit`.
Approval always answers "always" in this build (ADR 0022), so it never refuses.
A session sends its next request when the last one was answered, or while it
still runs when the relay has stopped waiting (`Receive`, bounded by
`MaxTimeouts`).

`tab_action` stands for every tool that names a tab.  Closing a tab is
`removed`, then `TabRemoved`, which reads all records at once and leaves a save
for each in `writes`.  `ReleaseAll` lists the records, `ReleaseSession` removes
one, and its audit event takes two more steps.  The most recent session is known
only for the last save: when that record has gone, any other may be it.

`given`, `revoked`, `cleanly` and `cleared` are history: which tabs a session
created or was handed, which were taken by a release (`cleanly` when nothing of
the session was under way), and which events the user cleared.  No guard reads
them.

### Connection

`NativeConnection` counts seconds; a timer that is due fires before the next
tick.  `release` is the list of release timers that are running, and `tracked`
says whether `leaseReleaseTimer` names the newest of them, because `onDisconnect`
assigns the handle without clearing the timer it held.  `host` says whether
Chrome can start the native host; `connectNative` may also throw.  Requests are
reduced to what they do to timers and leases.

A timer that fires begins a release (`releasing`), which goes on across awaits:
`ListSessions` reads the records once, `ReleaseSession` removes one of those
listed, and requests, timers and other releases come in between (SW 319–328).  A
request that saves its lease after the listing loses it to the removal.  The end
of the worker and its start are one step, `WorkerRestarts`: while no event starts
it again nothing of it runs, and nothing is said of that time.

### Page references

A reference is `[gen, kind, index]`, for `p<gen>-<index>` and `p<gen>-f<index>`.
`stamp[e]` is the attribute an element bears, `held` what agents were given, both
with what the reference was given for (`element`, `document`, `certain`), which
no step of the connector reads.  A call is two steps: `BeginRead` takes the
generation from the Map, and `ReadPage`, `ReadStaleScope` or `Find` runs in
whatever document the tab then shows, at once, because an injected function has
the page to itself.  `Resolve` is the `querySelector` with which every later use
of a reference begins.

`fit` is the number of nodes that do not exceed `maxBytes`; it is chosen freely,
which stands for nodes of any size.  `Subtrees` takes any run of the page for
the subtree of an element, `matching` any set of elements for what a query
matches.  An agent follows cursors (`walk`) from the start until the page
changes; what it has seen is compared with what it wanted when it has no cursor
left.

The page is external: `Navigate` (a commit, counted later by `Committed`),
`Insert`, `Remove` and `Toggle` (an element folds away).  `Restart` empties the
Map.  `altered` separates the documents whose list of elements has changed:
there a reference follows whichever element bears it, because the code numbers
elements and promises no more.  Elements that a script takes out and puts back,
copies with their attributes, or that come back with a document from Chrome's
back/forward cache are not modelled.  `onRemoved` forgets a tab whose id Chrome
does not give out again.

### Browser controller

`calls[c]` is a request under way: its session, its request, the action `at` which
it is and the await (`step`) it is at.  A single request has one action.  A batch
is the list of its actions in the order in which they run, each with its `path`,
the batches around it; `Rest` says what is left after an action, because a failing action ends the innermost batch and that is a
result for the one around it (BR 598–606).  `Begin` is `authorize` and the Set and
the GroupDescriptor that `dispatch` is given, in one step: the awaits in it are the
business of `RequestHandler`.  `OverWith` is the end of an action, and with the last
one the save of the controlled tabs after a result and not after an error
(SW 89–96).

*References.*  A tab has one element of interest: `page[t]` are its words, and `t` is in
`stamped` while it bears the reference that requests name.  `described` is what
`describePageRef` gives `Begin`: nothing for a reference that no element bears, which
`Policy` then grades like a reference without words (SW 518).  `ReadPage` stamps the
element, in a batch too, or gives its reference to another; `PageChanges` gives it
other words, or takes the reference away.  `graded` says which references named an
element when a batch was graded.  The `toPageRef` of a drag (BR 421) is looked at by
no grading, and the model has no such field.

*Debugger.*  What the worker asks of Chrome is done when it is sent, and the reply
comes later on `wire[t]`, in order with the events about that tab.
`EnsureDebugger` looks at `attachedTabs` and asks, `Reply` goes on to the next of
`Runtime`, `Network` and `Page`, and the last reply adds the tab to the set;
`Conflict` is any failure on the way, after which a session that did come about
stays (BR 616–627).  `Cut` is a command that fails while its session lives on.
`Detached` and `Removed` are `onDetach` and `onRemoved`.  Other
debuggers and the user come and go (`Another`, `Cancel`).

*Release.*  `ReleaseAll` lists the records of all sessions, with their tabs;
`ReleaseSession` removes the record of one, with whatever was saved in it since, and
`DetachListed` then detaches the tabs as they were listed (SW 319–328).  Calls go on
between these steps.

*Records.*  A record is its number and a list is a set of numbers, because records
are pushed in order and trimmed at the old end.  `walk` is one agent that reads the
first page with a pattern of its own and follows the cursors, with a limit that
may change from page to page, while records come in.  `Retype` is
`responseReceived`, which changes the `resourceType` of a record already in the list
(BR 674) and so whether the filter lets it through; `left` says that a record has
fallen out of the filter that way.

*Groups.*  A group is named by the tab it was made with.  `Group` is
`ensureTabGroup` up to Chrome's reply to `tabs.group`, and its outcomes are
`Join`, `Found`, `Refused` and `Forget`; `Title` is the reply to
`tabGroups.update` (`Keep` for a new group, which enters the Map only then).  `Query`
is what comes after it in `tabsCreate`: with a URL `chrome.tabs.query` is asked, outside
any `try`, and when it refuses the call is answered with an error (BR 217, 234).
`SaveLabel` and `Rename` are the two steps of `label_session`.  A batch dispatches
without the GroupDescriptor, so its tabs are grouped under `Default`.

*Restart* happens only while the connector debugs no tab: since Chrome 118 a
debugger session keeps the worker alive, and `manifest.json` asks for 130.

`stray`, `disturbed`, `owner`, `cut` and `made`, `graded`, `changed`, `lost` and `query`
of a call are history.  `stray` holds the tabs that a session lost in one of three
ways: to a release that met a call naming them, to a release that had listed the
session before it gained them, or to a request that saved an older Set over the
record (SW 91).  `disturbed` holds the sessions of which two calls overlapped, that
were released, or whose group the worker forgot: when it was restarted, or when a
tab was closed while it was being grouped (BR 251–253).

### Files of the machine

Every system call on a file is a step.  In `BrokerSocket` a native host goes
through `inspect`, `connect`, `remove`, `bind`, `listen`, `chmod` (NH 57–86),
then `serving`, and `cleanup` when `serve_native_io` has dropped the listener and
`SocketCleanup` has not run yet.  `path` is the host whose socket the path
names; a host answers from `listen` on until its listener is dropped, and a
killed one leaves the path to itself.  `remove_file`, `set_permissions` and the
cleanup act on whatever the path then names.  A full connection backlog, in which
`connect` fails although the host lives, is not modelled, nor is the directory of
the path (created once, planned).

In `ConfigFiles` a process is an MCP server or `status` (it loads or creates the
configuration) or an `install` (which saves it with an extension id and registers
the id in the manifest).  `write_private_json` is two steps, the open that
truncates and the write, which begins at the start of the file even when another
process has written since: `Written` keeps what is longer, and the file is then
not JSON (`Cut`).  The newline after the text goes with the text.  A process is
the secret it draws, and a manifest's list of origins is a set: no reader looks
at their order.  Any process may die between two calls, `MaxCrashes` times; one
that never goes on is a behaviour as well.  The command `native-host`, by which a
user may start a broker by hand, is `StartBroker` without the guard of
`ChromeStarts`, on which no property or proof depends.

`alone`, `apart`, `agreed` and `torn` are history, and say which races have
happened.  They are needed because the plain promises do not hold, as the code
has no lock: two first starts draw two secrets and one of them works with one
that is not stored; two hosts that find one stale socket both end up serving,
one of them unreachable; two installs that pass each other lose an extension.
The properties say what is left: which starts are safe whatever happens around
them, and from when on the secret stands.

## 3. Runs

| Run | Bounds | Shows |
|---|---|---|
| `transport_one` | 1 session, 2 calls, 2 connections, 2 ports, queues of 1, with fairness | `OwnResponse`, `OutcomeSound`, `NoRequestCut`, `RouterNeverWaits`, `OverlapOnlyAfterUnknown`, `WriterIsHeard`, refinement of `AtMostOnceCall`, `CallsReturn`, `PendingDrains` |
| `session_boundary` | 2 sessions, 1 user tab and 1 more, 2 requests, 1 of them late, 1 handover or release | `Boundary`, `TargetInBoundary`, `CleanReleaseIsFinal` |
| `session_log` | 1 session, 3 requests, 3 tabs, 1 site, the log cleared once | `AuditComplete` where it does hold |
| `connection_timers` | delays of 2 s and 9 s, 2 faults, 1 panel request, 1 session, 2 releases at a time | `OnePort`, `NeverStranded`, `Reconnects`, `AbandonedExpires` |
| `session_log_race` | 2 sessions, no panel command | **violated**: `AuditComplete` |
| `release_race` | 1 session, 1 release | **violated**: `ReleaseIsFinal` |
| `release_timer_leak` | delays of the code (2 s, 15 s), 1 fault, 2 releases at a time | **violated**: `LeaseInUseKept` |
| `page_refs` | 3 elements, 2 of the selector, 2 documents, 2 reads, 1 change, 1 restart, at most 2 nodes | `RefKeepsElement`, `CountedRefGoesStale`, `FindCoversMatches`, `NodesOnce` |
| `page_stale_ref` | as `page_refs`, no change or restart | **violated**: `NavigationInvalidates` |
| `page_lost_node` | as `page_stale_ref` | **violated**: `ReadCoversPage` |
| `browser_controller` | 3 tabs (1 of the user's), 2 sessions, 2 calls at once, 3 in all with a batch for two, 5 single requests and 2 batches, lists of 2 records; from outside 1 event and a record, or 3 records, where a `Retype` counts as a record, or 1 release, which counts as a call, an event and a record | `AttachedIsEnabled`, `AttachmentEndsWithLease`, `RecordsCovered`, `CriticalAlone`, `CreatedTabsKept`, `GroupsApart`, `RenameKeepsGroup`, `TitleFollowsLabel` |
| `host_files` | 3 processes, 2 extensions, 2 native hosts, 1 crash | `SecretStands`, `OriginsKept`, `LoneBrokerReachable`, `LoneStartSucceeds` |

Why the bounds are enough for what they are for.  Two calls of a session are
needed for a stale response, a late handler and a waiter on the mutex; two
connections for a reconnection; two ports for broker ids that start again.  Ids of
two sessions collide as well; that `OwnResponse` holds then is proved.  Queues of
one reach every full-queue situation that queues of 32 and 64 reach with more clients.  In the session part two requests
are enough for a stale copy to be saved over a newer one, and one panel command
(`Commands` says which kinds come in a run) for a release or a handover between
them.  Two faults are enough for a broker's
death followed by a host that is away, or by a restart.  The delay of a release
is 9 s there, and not the 15 s of the code, so that with two releases under way the run
ends in its time: what counts is that four reconnections fit into it and timers
pile up; `release_timer_leak` has 15 s, and the theorems hold for any delays.  Two reads are enough for
one reference to be written over another and for a cursor to be followed, two
documents for a reference that outlives its own, and three elements for an
index that differs between the selector's list and `find`'s.  Three processes
are a settled secret and a race of two after it; two native hosts are a socket
that is stale or shared.  In `browser_controller` two calls at once are enough
for two callers of `ensureDebugger`, two creations, or a creation and a rename;
three calls for a rename between two creations; three records for a list
of two to be trimmed under a cursor.  One event from outside may come between any
two steps.  The requests are one of each kind with a course of its own: a reader of
records, a reading of the page, a creation, a closure, a label, a batch that must be
refused, and a batch with one in it: a reading, a form, an action that fails, a
creation that is never come to, and after them a target that may be critical.
A batch counts for two calls, so that one call comes before it, beside it or after it
(a reading that gives out its reference, or another session's).
A release counts for three because it lengthens every behaviour that it is in: with
it there are two calls, begun before or while it lists, removes and detaches.
The invariants of the passing runs do not depend on
these bounds, and neither does the refinement: they are proved for all values.  The
exception is `AuditComplete`.  The run has one session that waits for its answers;
the theorem (`SoleCopiesKeepLog`) has any number of sessions, as long as no two copies
that requests or a release will save overlap.  That the run's session is such a one
is not proved.  The liveness properties rest on the bounds.

Symmetry is used only in runs without temporal properties: over sessions
and unopened tabs in the session runs, over processes, extensions and native hosts
in `host_files`, over sessions, calls and the tabs not yet opened in
`browser_controller`.

`CHECK_DEADLOCK FALSE` is set for every run but those of `NativeConnection`, because
the number of calls, requests, clicks, reads and processes is bounded and the system
then stops.
`NativeConnection` never stops and is checked for deadlock.

### Fairness

* `Transport`: weak fairness of each call's steps but the write (`LimitedStep`: the
  attempts to connect, the handshake and the wait for the response have time
  limits, and the mutex comes free as calls end), and of the write while the
  client's task is at `select!`, where it reads.  The write has no limit of its own
  (`relay.rs:96-101`), so `CallsReturn` needs `WriterIsHeard`, that it never meets a
  task which is waiting for the browser.  Further of each client task and of the
  router (tokio runs what is ready), of the start of handlers (Chrome reads the
  broker's output while the port is open), and of the broker's exit once the port
  is gone (its stdin ends).  None for handlers, reconnection, the user or
  faults.  A broker that the system has stopped and not ended is outside of this:
  there a call that writes does wait with the mutex for as long.
* `NativeConnection`: weak fairness of time, of the timers, of `onDisconnect` and of
  the steps of a release (storage answers).
  None for requests: a lease expires although nothing is ever asked again.
* The session part, the page references, the browser controller and the files have
  safety properties only.

### Findings

1. `session_log_race`: PersistedState is saved whole from copies read earlier
   (`audit`, SW 350–356; `authorize`, SW 104–120; `ensureSiteGrant`, SW 197).
   Two sessions at work at once lose an audit event.  ADR 0022: "The Panel still
   records every call in its audit log.  Nothing is hidden".
2. `release_race`: a request under way when the leases are released saves its
   copy of the record afterwards (SW 133, SW 91), and the session controls the
   released tabs again.  ADR 0017: "Ending or losing the lease removes connector
   authority but does not close tabs".
3. `release_timer_leak`: `onDisconnect` (SW 55) overwrites `leaseReleaseTimer`.
   With the host away, each attempt leaves one more timer; after the host is back
   and a session works again, the older timers still fire, and each begins to
   release every lease, those in use too.
   ADR 0004: "abandoned leases expire after disconnection or timeout".

4. `page_stale_ref`: a tab without a counted commit reads as generation 1 (BR 299,
   317), and the first commit counted makes it 1 (BR 115).  A reference into the
   first document is given out again in the second and resolves there.
   ADR 0016: navigation "invalidates affected references and returns a
   stale-reference error; the connector must never guess a similar target".
5. `page_lost_node`: the loop of `injectedReadPage` moves its cursor (BR 716)
   before it finds that the node does not fit (BR 735), so no answer contains it.
   MVP.md: "All observations are bounded and pageable".

What does hold beside each is proved.  1: `SoleCopiesKeepLog`, an event is lost
only when two copies of PersistedState are held at once.  2:
`CleanReleaseIsFinal`.  3: `OneTimerKeepsLease`, without timers that pile up no
release begins while a lease is in use (one that began before still takes the lease
of a request that comes after its listing, SW 326–328).  4: `CountedRefGoesStale`.  5: `WholePagesCover`, pages that end by
their number of nodes lose none; `NodesOnce`, none comes twice however they are cut;
`FindCoversMatches`, the paging of `find` loses nothing.

The properties of the browser controller leave out what the code does otherwise
than its documents say; no run of its own shows it:

* A batch dispatches without the session's group, so tabs it creates join the
  default group (BR 601; ADR 0017:7: "Agent-created tabs
  automatically join the lease group").
  `GroupsApart` says that they are at least not mixed with a session's.
* A nested batch that stops at a failing action is a result for the one around
  it, which goes on (BR 602–605; ADR 0010:5 stops at the first failure).
* Two callers of `ensureDebugger` on one tab: the second is told
  `debugger_conflict`, although nobody else debugs the tab (BR 625).
* A tab created when the session's group has gone stays without one; a
  tab closed while it is put in its group makes the worker forget a living
  group, and the session's next tab founds a second (BR 251–253).  Hence
  `disturbed` in `RenameKeepsGroup`.
* A reference that an earlier action of the same batch gives out names no element
  when the batch is graded, and is graded without words (SW 518, BR 781); the
  `toPageRef` of a drag is not graded (BR 421, SW 517).  A batch may then act on a
  target that reads as critical (MVP.md:45).  Hence `graded` in `CriticalAlone`.
* When `tabs.query` is refused at the end of `tabsCreate` (BR 217), the call is
  answered with an error although its tab exists, and the tab is nobody's.
  Hence `query` in `CreatedTabsKept`.
* A response that changes the type of a request takes it out of the filter of an
  agent that is paging (BR 674, 553); the records after it move to lower offsets and
  the next page skips one (MVP.md:33: "bounded and pageable").  Hence `left` in
  `RecordsCovered`.
* A save of an older Set (SW 91) and a release that has listed its tabs before
  (SW 326–328) drop tabs from a record without detaching the debugger (ADR 0008:7).
  Hence `stray` in `AttachmentEndsWithLease`.

## 4. Proofs

All theorems hold for every value of the constants under the named assumptions
(`WireAssumption`, `StoreAssumption`, `ConnectionAssumption`, `PageAssumption`,
`ConfigAssumption`, `SocketAssumption`, `DebuggerAssumption`, `RecordsAssumption`,
`GroupAssumption`, `ControllerAssumption`, `NilAssumption`):
bounds are natural numbers, queues have room for one, `Nil` is apart from the
data, a document loads with finitely many elements and none of them twice, a
request is a batch or one action and names the tab it acts on, lists keep one
record at least.

* `TransportProofs`: `Types` (type invariant) and `Routing` (`OwnResponse`).
  `OwnResponse` is not inductive: it speaks of responses only.  `RoutingInv`
  follows a request on its way.  `Fresh`: nothing refers to a connection not yet
  made.  `Owned`: a relay writes its own calls to its own connection.
  `DownIsEmpty`: nothing of a broker outlives it.  `RequestsCorrelated`: wherever
  a request is (being sent, queued, at a handler of the port in use, answered),
  the entry of `pending` under its broker id, if still there, names its call.
* `OutcomeProofs` goes on from there with what the agent is told.
  `ConnectionInv`: a relay's mutex is held for the whole call (`Mutex`), so a
  connection carries one request or its response, in one place
  (`OneAtATime`), and nothing when the next call begins (`QuietBetween`); what was
  read of a line belongs to one that is still there (`Begun`).  Hence
  `RequestsAreWhole` and `RouterHasRoom`: no request is in the socket when a response
  is ready, and the queue of the client that is answered is empty.
  `CallInv`: a request is in one place only (`OnePlace`: not yet read, being
  handed on, queued, at a handler), each place is before its execution, and a status
  says no more than where it is (`Truthful`).  Hence `OutcomesAreTrue`; that a
  second handler needs an unknown outcome or a departed agent is
  `OverlapsAreKnown`.  `WritersAreHeard`, from `HeardInv`: a task that waits for room
  behind the browser has entered its request in `pending` (`Entered`), so the relay of
  that connection is waiting for the response and cannot be writing; nor is the
  task of a relay past the handshake still in it (`Greeted`).
  `TransportKeepsPromise` is the refinement, action by
  action: under `CallInv` every step is a step of `AtMostOnceCall` or a stutter.
* `SessionProofs`: `SessionTypes`, `BoundaryHolds`, `TargetsHold`,
  `CleanReleaseHolds`, all from `SessionInv`.  Let `Mine(s)` be the tabs given to
  `s` and not cleanly taken.  Every copy of a record (stored, held by a request,
  about to be saved by a listener) names tabs of `Mine` only; tabs created were
  nobody's (`GivenOut`).  A clean release shrinks `Mine(s)` only when no copy of
  that record exists outside the store, which is why it is final.
  `HandlerKeeps` and `ListenerKeeps` reduce each action to what it does to one
  request or to one record.
  `SoleCopiesKeepLog` is about `AuditComplete`, which fails
  for sessions that race (finding 1).  `SoleCopy` is what excludes that:
  no two of the copies of PersistedState that will be saved are held at once.
  Under it every such copy has the event of every call answered so far (`LogInv`).
* `ConnectionProofs`: `ConnectionTypes`, `OneNativePort`, `ReconnectionDue`, from
  `ConnectionInv`: a port that ended is not live, `nativePort` names the one there
  is, the release timers are due in the order they were set (without which a
  tick could take one below zero).
  `OneTimerKeepsLease`: while no second release timer is set beside the first
  (`OneTimer`, which finding 3 breaks), the handle names it and a request after
  the disconnect has cleared it (`TimerKnown`), so none fires; of a release that is
  under way already it says nothing.
* `PageProofs`: `PageTypes`, `RefsKept`, `CountedRefsGoStale`, from `PageInv`.
  The properties speak of what a reference resolves to, which is not inductive;
  the invariant says what a handle determines.  `Named`: its index is that of
  its element, and indices are injective (`IndexInjective`, by cardinalities of
  initial segments), so two handles with one reference are for one element.
  `Counted`: the generation of a certain handle plus the document now in the tab
  is its document plus the generation in the Map plus the commits under way, so
  two handles with one generation are for one document.  `Inserted` and
  `Removed` say what a change does to a page without repetitions.
  `FindCovers`, from `FindInv`: an agent that follows the cursors of `find` has the
  first matches of the page, as many as its cursor says.  `First(n, S)` is the n
  smallest positions of `S`; that the next page continues where they end
  (`FirstAgain`) is shown by smallest and largest elements, without induction.
  `ReadsApart`, from `ReadInv`: what an agent has found of the nodes of `readPage` is
  before its cursor, and a page takes nodes from there on only (`PageTurned`, with
  indices in the order of positions, `IndexOrder`).  `WholePagesCover`, from
  `CoverInv`, the converse: everything before the cursor was found, which only a page
  cut by its bytes can break (`PagesWhole` says that there is none).
* `HostProofs`: `HostTypes`, `SecretsStand`, `OriginsStay`, `LoneBrokersReachable`,
  `LoneStartsSucceed`, from `HostInv`, which is `SocketInv` and `ConfigInv`.
  `Undisturbed` says what a broker that is alone may count on, stage by stage:
  while it starts nobody else may still touch the path but it, and while it
  serves the path is its own and nobody is past `connect`.  `Read` says that a
  process that is apart is the only one under way, so when it settles the secret
  nobody else holds another one, and from then on the configuration exists and
  nobody draws one.  `OneWriter`: while nothing is torn, one install at a time is
  between reading and writing the manifest, and what it is about to write
  contains what every install before it registered.

* `ControllerProofs`: one invariant for each question, inductive with the types
  (`ControllerTypeCorrect`).
  `RecordsReached`: what an agent has yet to see is at its cursor or after it
  (`RecordsAhead`); a new record, or one that comes to match, moves it on, trimming
  drops it, a page that takes it passes it, by counting the newer ones.  A record
  that ceases to match would move it back, and is excepted (`left`).
  `CriticalActionsAlone`: a batch under way was graded as a whole, and the words of
  the targets that were graded with words are what they were until a page changes
  (`Graded`).
  `CreatedTabsSaved`: a batch has no JavaScript in it, so nothing fails it, and a
  single call that has made a tab has only steps left that cannot fail but for the
  last, `tabs.query` (`MakingSteps`, `Harmless`).
  `AttachmentsEnd`: what a call will act on is its session's, is closed, or was lost
  by it in one of the ways of `stray` (`Leased`), so an attach never escapes the
  lease unseen; and the tabs a release takes are those it will detach or are in `stray`.
  `AttachedAreEnabled`: every reply on its way has a call that awaits it, and that
  call no other reply (`ReplyAwaited`, `OneReply`); a call told "done" is in its
  session unless word of its end follows (`DoneInSession`); the domains a session
  lacks are ahead of a call in it, or one was cut off (`Missing`).
  `GroupsStayApart`: a tab and its group have one maker, and so have a key and the
  group it is mapped to (`GroupInv`).
  `RenamesKeepGroup`, `TitlesFollowLabels`: of a session that is not disturbed
  (`NameInv`) one call is under way at a time (`Alone`), with the label the session
  has (`Labelled`); a group that any of its tabs is in is the one in the Map, or the
  one this call is about to put there (`Known`), which it does only while the Map has
  none (`Unfounded`); the group's title is the label unless the call has yet to
  rename it (`Titled`).

Only model-checked: liveness (`CallsReturn`, `PendingDrains`, `Reconnects`,
`AbandonedExpires`), which needs ENABLED and is out of the prover's reach.
`SoleCopy`, `OneTimer` and `PagesWhole` are hypotheses of their theorems because the
code does not ensure them: findings 1, 3 and 5 are the runs in which they fail.

## 5. Not modelled, and why

* Text, URLs, JSON, framing bytes, rendering: data no property tells apart.
* Approvals and host permissions: always granted in this build.
* The caps of the audit log (500 events, 7 days): beyond the bounds of the runs.
* A storage call that fails: planned with the partial failures of a request.
* Touch times: the order of records counts only through `latest`.
* Names, roles and values of the nodes of a page: data, but for how many fit.
* Input events, screenshots, downloads, the cursor overlay: `Act` is the action as a
  whole, which may fail; the sequence of its commands is not split, nor is `wait`.
* What `responseReceived` fills in beside the type, and response bodies, which are
  read from Chrome when they are asked for.
* A worker that dies and is started by nothing: its end and its start are one step,
  so `NeverStranded` and `Reconnects` speak of a worker that events wake.
* The text of a page in pages (`get_page_text`): the text is read anew for each
  page, so its cursor means something only while the page stands still.
* Activation, navigation, resizing of tabs and windows: one call of Chrome each.
* The directories of the files, their permissions, the validation of names (CF 190–242).
* Names and colours, panel rendering, build and packaging scripts.

## 6. Plan

Done: transport, session part, connection, page references, browser controller
(policy, batches, debugger, records, groups), socket path and files, the proofs
of their safety properties and of the refinement.  Next, in order:

1. `TabRecords`: what `saveControlledTabs` and `removeControlledTab` lose (a
   closed tab that stays, a created or handed tab that falls out), leases per
   session, a failing storage call.
2. `get_page_text` as a third read of `PageRefs`, with its cursor in bytes.
3. `HostFiles` extended by the directory of the socket path, which two first
   processes create at once (CF 151–168), and by the start of an MCP server.
4. The events of one input action (a button held when a command fails), the
   artifact cap.

Runs of several small modules are joined where they ask one question.
