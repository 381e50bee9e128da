--------------------------- MODULE ControllerProofs ---------------------------
(***************************************************************************)
(* Theorems about BrowserController, for all constants that satisfy its    *)
(* assumptions.  One lemma per question says what every step does to the   *)
(* state the question is about (CallCourse, DebuggerSteps, WaiterStays,    *)
(* FoundingCourse, LogSteps); each theorem then has an invariant of its    *)
(* own, inductive with TypeOK:                                             *)
(*   RecordsAhead   what an agent has not seen is at or after its cursor   *)
(*   Graded         a batch keeps what its grading said of its targets     *)
(*   Harmless       what can still fail has made no tab, or has no script  *)
(*   LeaseInv       who debugs, on whose tab, and what is due about it     *)
(*   DebuggerInv    each reply on its way has the one call that awaits it, *)
(*                  and what a session lacks is ahead of such a call       *)
(*   GroupInv       a tab, its group and the key mapped to it agree        *)
(***************************************************************************)
EXTENDS BrowserController, FiniteSetTheorems, SequenceTheorems, TLAPS

\* The parts of TypeOK
DebuggerType ==
    /\ tab \in [Tabs -> {"unused", "open", "closed"}]
    /\ debuggee \in [Tabs -> {"nobody", "connector", "another"}]
    /\ domains \in [Tabs -> SUBSET Domains]
    /\ wire \in [Tabs -> Seq(Message)]
    /\ attachedTabs \in SUBSET Tabs /\ cut \in SUBSET Tabs
    /\ outside \in 0..(2 * MaxOutside + 1)

LogType ==
    /\ pushed \in Nat
    /\ kept \in [Tabs -> SUBSET (1..pushed)]
    /\ walk \in Walk \cup {Nil}

GroupType ==
    /\ groupIds \in [Keys -> Tabs \cup {Nil}]
    /\ group \in [Tabs -> Tabs \cup {Nil}]
    /\ title \in [Tabs -> Labels \cup {Nil}]
    /\ label \in [Sessions -> Labels]
    /\ owner \in [Tabs -> Keys \cup {Nil}]

CallType ==
    /\ controlled \in [Sessions -> SUBSET Tabs]
    /\ calls \in [Calls -> Call \cup Answer \cup {Nil}]
    /\ \A c \in Active : calls[c].at \in DOMAIN calls[c].request.actions
    /\ requests \in 0..MaxRequests
    /\ stray \in SUBSET Tabs /\ disturbed \in SUBSET Sessions

PageType ==
    /\ page \in [Tabs -> Words] /\ stamped \in SUBSET Tabs
    /\ release \in Release \cup {Nil}

\* the parts of the type invariant, in this state and the next
LEMMA TypeParts ==
    /\ TypeOK <=> DebuggerType /\ LogType /\ GroupType /\ CallType /\ PageType
    /\ TypeOK' <=> DebuggerType' /\ LogType' /\ GroupType' /\ CallType' /\ PageType'
  BY DEF TypeOK, DebuggerType, LogType, GroupType, CallType, PageType

(* What the constants are.                                                 *)
LEMMA Constants ==
    /\ \A r \in Requests : r.batch \in BOOLEAN /\ r.actions \in Seq(Action) /\ r.actions # <<>>
    /\ \A r \in Requests :
         /\ ~r.batch => Len(r.actions) = 1
         /\ \A k \in DOMAIN r.actions :
              IF r.actions[k].tool \in Untargeted THEN ~r.actions[k].byRef
              ELSE r.actions[k].tab \in Tabs
    /\ UserTab \in Tabs /\ MaxRequests \in Nat /\ PageSizes \subseteq Nat \ {0}
    /\ MaxLogRecords \in Nat \ {0} /\ Targets \subseteq Words
    /\ Default \notin Sessions /\ Nil \notin Keys /\ Nil \notin Calls /\ Nil \notin Tabs
    /\ HostLabel \in Labels /\ Default \in Keys /\ Sessions \subseteq Keys
    /\ MaxOutside \in Nat /\ Nil \notin Nat
  BY ControllerAssumption, GroupAssumption, RecordsAssumption, DebuggerAssumption DEF Keys

-----------------------------------------------------------------------------
(* Lemmas: how a call moves                                                *)

(* A call under way is a Call, and has an action.                          *)
LEMMA ActiveCall ==
    ASSUME CallType, NEW c \in Active
    PROVE  /\ c \in Calls /\ calls[c] \in Call /\ calls[c].step \in Step
           /\ calls[c].session \in Sessions /\ calls[c].request \in Requests
           /\ calls[c].label \in Labels /\ calls[c].controlled \in SUBSET Tabs
           /\ calls[c].made \in SUBSET Tabs /\ calls[c].changed \in BOOLEAN
           /\ calls[c].graded \in SUBSET Tabs
           /\ calls[c].on \in Tabs \cup {Nil}
           /\ calls[c].at \in DOMAIN calls[c].request.actions
           /\ Now(c) \in Action
<1>1. c \in Calls /\ calls[c] # Nil /\ calls[c].step \in Step
  BY DEF Active
<1>2. calls[c] \in Call \cup Answer
  BY <1>1 DEF CallType
<1>3. calls[c] \notin Answer
  BY <1>1 DEF Answer, Step
<1>4. calls[c] \in Call
  BY <1>2, <1>3
<1>5. /\ calls[c].session \in Sessions /\ calls[c].request \in Requests
      /\ calls[c].label \in Labels /\ calls[c].controlled \in SUBSET Tabs
      /\ calls[c].made \in SUBSET Tabs /\ calls[c].changed \in BOOLEAN
      /\ calls[c].graded \in SUBSET Tabs
      /\ calls[c].on \in Tabs \cup {Nil}
  BY <1>4 DEF Call
<1>6. calls[c].at \in DOMAIN calls[c].request.actions
  BY DEF CallType
<1>7. calls[c].request.actions \in Seq(Action)
  BY <1>5, Constants
<1>8. Now(c) \in Action
  BY <1>6, <1>7 DEF Now
<1> QED
  BY <1>1, <1>4, <1>5, <1>6, <1>8

(* An action on a tab names one.                                           *)
LEMMA ToolsTarget ==
    ASSUME CallType, NEW c \in Active, Now(c).tool \notin Untargeted
    PROVE  Now(c).tab \in Tabs
  BY ActiveCall, Constants DEF Now

\* the call goes on: what no step of it changes
Same(n, old) ==
    /\ n \in Call
    /\ n.session = old.session /\ n.request = old.request
    /\ n.made = old.made /\ n.changed = old.changed /\ n.label = old.label
    /\ n.graded = old.graded

\* only c moves
Moves(c) ==
    /\ calls' = [calls EXCEPT ![c] = calls'[c]]
    /\ UNCHANGED requests

(* A call that moves leaves the others where they are.                     *)
LEMMA OthersStay ==
    ASSUME CallType, NEW c \in Calls, Moves(c)
    PROVE  /\ \A d \in Calls \ {c} : calls'[d] = calls[d]
           /\ \A d \in Calls \ {c} : d \in Active' <=> d \in Active
           /\ c \in Active' <=> calls'[c] # Nil /\ calls'[c].step \in Step
           /\ Active' \subseteq Calls
  BY DEF CallType, Moves, Active

(* Goes, and Goto.                                                         *)
LEMMA GoesEffect ==
    ASSUME CallType, NEW c \in Active, NEW step \in Step, NEW on \in Tabs \cup {Nil},
           Goes(c, step, on)
    PROVE  /\ Moves(c) /\ Same(calls'[c], calls[c]) /\ c \in Active'
           /\ calls'[c].at = calls[c].at /\ calls'[c].controlled = calls[c].controlled
           /\ calls'[c].step = step /\ calls'[c].on = on
           /\ UNCHANGED <<controlled, stray>>
<1>1. c \in Calls /\ calls[c] \in Call
  BY ActiveCall
<1>2. calls'[c] = [calls[c] EXCEPT !.step = step, !.on = on]
  BY <1>1 DEF Goes, CallType
<1>3. calls' = [calls EXCEPT ![c] = calls'[c]]
  BY <1>1, <1>2 DEF Goes, CallType
<1>4. /\ calls'[c] \in Call /\ calls'[c].session = calls[c].session
      /\ calls'[c].request = calls[c].request /\ calls'[c].made = calls[c].made
      /\ calls'[c].changed = calls[c].changed /\ calls'[c].label = calls[c].label
      /\ calls'[c].graded = calls[c].graded
      /\ calls'[c].at = calls[c].at /\ calls'[c].controlled = calls[c].controlled
      /\ calls'[c].step = step /\ calls'[c].on = on
  BY <1>1, <1>2 DEF Call
<1>5. calls'[c] # Nil
  BY <1>4, NilAssumption
<1> QED
  BY <1>1, <1>3, <1>4, <1>5 DEF Same, Moves, Goes, Active

\* the two ends of an action: the call goes on with a later one, or is answered
GoesOn(c, tabs) ==
    /\ Same(calls'[c], calls[c]) /\ c \in Active'
    /\ calls'[c].at \in DOMAIN calls[c].request.actions /\ calls'[c].at > calls[c].at
    /\ calls'[c].step = "begin" /\ calls'[c].on = Nil /\ calls'[c].controlled = tabs
    /\ UNCHANGED <<controlled, stray>>

Answered(c, ok) ==
    /\ calls'[c] \in Answer /\ c \notin Active'
    /\ calls'[c].lost # {} => calls'[c].failed /\ calls'[c].lost = calls[c].made
    /\ calls'[c].failed /\ calls[c].step = "query" => calls'[c].query
    /\ calls'[c].failed => ~ok /\ (calls[c].request.batch => Now(c).tool = "javascript_tool")
    /\ controlled' \in [Sessions -> SUBSET Tabs]
    /\ \A s \in Sessions \ {calls[c].session} : controlled'[s] = controlled[s]
    /\ stray' = stray \cup (controlled[calls[c].session] \ controlled'[calls[c].session])

(* OverWith.                                                               *)
LEMMA OverEffect ==
    ASSUME CallType, NEW c \in Active, NEW ok \in BOOLEAN, NEW tabs \in SUBSET Tabs,
           OverWith(c, ok, tabs)
    PROVE  Moves(c) /\ (GoesOn(c, tabs) \/ Answered(c, ok))
<1>1. /\ c \in Calls /\ calls[c] \in Call /\ calls[c].session \in Sessions
      /\ calls[c].request \in Requests /\ calls[c].made \in SUBSET Tabs
      /\ calls[c].at \in DOMAIN calls[c].request.actions
      /\ DOMAIN calls[c].request.actions \subseteq Nat
  BY ActiveCall, Constants
<1> DEFINE call == [calls[c] EXCEPT !.controlled = tabs]
           failed == ~ok /\ (call.request.batch => Now(c).tool = "javascript_tool")
<1>2. /\ call \in Call /\ call.session = calls[c].session /\ call.request = calls[c].request
      /\ call.made = calls[c].made /\ call.changed = calls[c].changed
      /\ call.graded = calls[c].graded /\ call.step = calls[c].step
      /\ call.label = calls[c].label /\ call.controlled = tabs
  BY <1>1 DEF Call
<1>3. UNCHANGED requests
  BY DEF OverWith
<1>4. CASE \E next \in Rest(c, ok) :
             /\ calls' = [calls EXCEPT ![c] = [call EXCEPT !.at = next,
                                               !.step = "begin", !.on = Nil]]
             /\ UNCHANGED <<controlled, stray>>
  <2>1. PICK next \in Rest(c, ok) :
          /\ calls' = [calls EXCEPT ![c] = [call EXCEPT !.at = next, !.step = "begin", !.on = Nil]]
          /\ UNCHANGED <<controlled, stray>>
    BY <1>4
  <2>2. next \in DOMAIN calls[c].request.actions /\ next > calls[c].at
    BY DEF Rest
  <2> DEFINE n == [call EXCEPT !.at = next, !.step = "begin", !.on = Nil]
  <2>3. /\ n \in Call /\ n.session = call.session /\ n.request = call.request
        /\ n.made = call.made /\ n.changed = call.changed /\ n.label = call.label
        /\ n.graded = call.graded
        /\ n.controlled = call.controlled /\ n.at = next /\ n.step = "begin" /\ n.on = Nil
    BY <1>1, <1>2, <2>2 DEF Call, Step
  <2>4. calls'[c] = n /\ calls' = [calls EXCEPT ![c] = calls'[c]]
    BY <1>1, <2>1 DEF CallType
  <2> HIDE DEF n, call
  <2>5. Same(calls'[c], calls[c])
    BY <1>2, <2>3, <2>4 DEF Same
  <2>6. c \in Active'
    BY <1>1, <2>3, <2>4, NilAssumption DEF Active, Step
  <2> QED
    BY <1>2, <1>3, <2>1, <2>2, <2>3, <2>4, <2>5, <2>6 DEF Moves, GoesOn
<1>5. CASE /\ calls' = [calls EXCEPT ![c] =
                     [step |-> "answered", failed |-> failed,
                      lost |-> IF failed THEN call.made ELSE {},
                      query |-> failed /\ call.step = "query"]]
           /\ controlled' = IF failed THEN controlled
                            ELSE [controlled EXCEPT ![call.session] = call.controlled]
           /\ stray' = stray \cup (controlled[call.session] \ controlled'[call.session])
  <2> DEFINE n == [step |-> "answered", failed |-> failed,
                   lost |-> IF failed THEN call.made ELSE {},
                   query |-> failed /\ call.step = "query"]
  <2>1. failed \in BOOLEAN /\ n \in Answer
    BY <1>1, <1>2 DEF Answer
  <2>2. calls'[c] = n /\ calls' = [calls EXCEPT ![c] = calls'[c]]
    BY <1>1, <1>5 DEF CallType
  <2>3. /\ n.step = "answered" /\ n.failed = failed
        /\ n.lost # {} => failed /\ n.lost = calls[c].made
        /\ failed /\ calls[c].step = "query" => n.query
    BY <1>2
  <2>4. c \notin Active'
    BY <2>2, <2>3 DEF Active, Step
  <2>5. failed => ~ok /\ (calls[c].request.batch => Now(c).tool = "javascript_tool")
    BY <1>2
  <2> HIDE DEF n, call, failed
  <2>6. /\ controlled' \in [Sessions -> SUBSET Tabs]
        /\ \A s \in Sessions \ {calls[c].session} : controlled'[s] = controlled[s]
    BY <1>1, <1>2, <1>5 DEF CallType
  <2>7. stray' = stray \cup (controlled[calls[c].session] \ controlled'[calls[c].session])
    BY <1>2, <1>5
  <2> QED
    BY <1>3, <2>1, <2>2, <2>3, <2>4, <2>5, <2>6, <2>7 DEF Moves, Answered
<1> QED
  BY <1>4, <1>5 DEF OverWith

-----------------------------------------------------------------------------
(* Types                                                                   *)

\* a call that moves leaves the calls typed
LEMMA MovesTyped ==
    ASSUME CallType, NEW c \in Active, Moves(c),
           \/ calls'[c] \in Call /\ calls'[c].at \in DOMAIN calls'[c].request.actions
           \/ calls'[c] \in Answer,
           controlled' \in [Sessions -> SUBSET Tabs],
           stray' \in SUBSET Tabs, disturbed' \in SUBSET Sessions
    PROVE  CallType'
<1>1. c \in Calls /\ calls'[c] \in Call \cup Answer
  BY ActiveCall
<1>2. calls' \in [Calls -> Call \cup Answer \cup {Nil}] /\ requests' \in 0..MaxRequests
  BY <1>1 DEF CallType, Moves
<1>3. ASSUME NEW d \in Active' PROVE calls'[d].at \in DOMAIN calls'[d].request.actions
  <2>1. CASE d = c
    <3>1. calls'[c].step \in Step
      BY <1>3, <2>1 DEF Active
    <3>2. calls'[c] \notin Answer
      BY <3>1 DEF Answer, Step
    <3> QED
      BY <2>1, <3>2
  <2>2. CASE d # c
    BY <1>1, <1>3, <2>2, OthersStay DEF CallType
  <2> QED
    BY <2>1, <2>2
<1> QED
  BY <1>2, <1>3 DEF CallType

\* so does one that goes to another step
LEMMA GoesTyped ==
    ASSUME CallType, NEW c \in Active, NEW step \in Step, NEW on \in Tabs \cup {Nil},
           Goes(c, step, on), disturbed' \in SUBSET Sessions
    PROVE  CallType'
<1>1. /\ Moves(c) /\ Same(calls'[c], calls[c]) /\ calls'[c].at = calls[c].at
      /\ UNCHANGED <<controlled, stray>>
  BY GoesEffect
<1>2. calls[c].at \in DOMAIN calls[c].request.actions
  BY ActiveCall
<1> QED
  BY <1>1, <1>2, MovesTyped DEF Same, CallType

\* ... and leaves disturbed as it is
LEMMA GotoTyped ==
    ASSUME CallType, NEW c \in Active, NEW step \in Step, NEW on \in Tabs \cup {Nil},
           Goto(c, step, on)
    PROVE  CallType'
  BY GoesTyped DEF Goto, CallType

\* so does the end of an action, with the tabs it leaves
LEMMA OverTyped ==
    ASSUME CallType, NEW c \in Active, NEW ok \in BOOLEAN, NEW tabs \in SUBSET Tabs,
           OverWith(c, ok, tabs), disturbed' \in SUBSET Sessions
    PROVE  CallType'
<1>1. Moves(c) /\ (GoesOn(c, tabs) \/ Answered(c, ok))
  BY OverEffect
<1>2. calls[c].session \in Sessions /\ controlled \in [Sessions -> SUBSET Tabs] /\ stray \in SUBSET Tabs
  BY ActiveCall DEF CallType
<1>3. controlled' \in [Sessions -> SUBSET Tabs] /\ stray' \in SUBSET Tabs
  BY <1>1, <1>2 DEF GoesOn, Answered
<1>4. \/ calls'[c] \in Call /\ calls'[c].at \in DOMAIN calls'[c].request.actions
      \/ calls'[c] \in Answer
  BY <1>1 DEF GoesOn, Answered, Same
<1> QED
  BY <1>1, <1>3, <1>4, MovesTyped

\* so does the end of an action that changes no tabs
LEMMA OverTypedSame ==
    ASSUME CallType, NEW c \in Active, NEW ok \in BOOLEAN, Over(c, ok)
    PROVE  CallType'
<1>1. calls[c].controlled \in SUBSET Tabs
  BY ActiveCall
<1>2. OverWith(c, ok, calls[c].controlled) /\ disturbed' \in SUBSET Sessions
  BY DEF Over, CallType
<1> QED
  BY <1>1, <1>2, OverTyped

\* the calls keep their type when nothing touches them
LEMMA CallTypeFrame ==
    ASSUME CallType, UNCHANGED callVars
    PROVE  CallType'
  BY DEF CallType, callVars, Active

(* What a step of the wire leaves is typed.                                *)
LEMMA Sent ==
    ASSUME DebuggerType, NEW t \in Tabs, NEW queue \in Seq(Message),
           NEW kind \in {"done", "refused", "detached", "removed"},
           NEW to \in Calls \cup {Nil}, Send(t, queue, kind, to)
    PROVE  wire' \in [Tabs -> Seq(Message)]
<1>1. [kind |-> kind, to |-> to] \in Message
  BY DEF Message
<1>2. Append(queue, [kind |-> kind, to |-> to]) \in Seq(Message)
  BY <1>1
<1> QED
  BY <1>2 DEF Send, DebuggerType

\* what comes first on the wire is a message, and the rest are messages
LEMMA HeadTyped ==
    ASSUME DebuggerType, NEW t \in Tabs, wire[t] # <<>>
    PROVE  /\ Head(wire[t]) \in Message /\ Tail(wire[t]) \in Seq(Message)
           /\ Head(wire[t]).to \in Calls \cup {Nil}
<1>1. wire[t] \in Seq(Message)
  BY DEF DebuggerType
<1>2. Head(wire[t]) \in Message /\ Tail(wire[t]) \in Seq(Message)
  BY <1>1, HeadTailProperties
<1> QED
  BY <1>2 DEF Message

(* The steps of TabDebugger.                                               *)
LEMMA OutsideTyped ==
    ASSUME DebuggerType, NEW cost \in 1..3, Outside(cost)
    PROVE  outside' \in 0..(2 * MaxOutside + 1)
  BY Constants DEF DebuggerType, Outside

\* chrome.debugger.attach keeps the types of the debugger
LEMMA AttachTyped ==
    ASSUME DebuggerType, NEW c \in Calls, NEW t \in Tabs, Attach(c, t)
    PROVE  DebuggerType'
<1> DEFINE free == tab[t] = "open" /\ debuggee[t] = "nobody"
           kind == IF free THEN "done" ELSE "refused"
<1>1. wire[t] \in Seq(Message) /\ kind \in {"done", "refused", "detached", "removed"}
  BY DEF DebuggerType
<1>2. Send(t, wire[t], kind, c)
  BY DEF Attach
<1>3. debuggee' \in [Tabs -> {"nobody", "connector", "another"}]
  BY DEF Attach, DebuggerType
<1> HIDE DEF kind
<1>4. wire' \in [Tabs -> Seq(Message)]
  BY <1>1, <1>2, Sent
<1> QED
  BY <1>3, <1>4 DEF Attach, DebuggerType

\* so does the command that enables a domain
LEMMA EnableTyped ==
    ASSUME DebuggerType, NEW c \in Calls, NEW t \in Tabs, NEW domain \in Domains,
           NEW queue \in Seq(Message), Enable(c, t, domain, queue)
    PROVE  DebuggerType'
<1>1. wire' \in [Tabs -> Seq(Message)]
  BY Sent DEF Enable, Enabled, NoSession, Cut
<1>2. domains' \in [Tabs -> SUBSET Domains]
  BY DEF Enable, Enabled, NoSession, Cut, DebuggerType
<1>3. cut' \in SUBSET Tabs
  BY DEF Enable, Enabled, NoSession, Cut, DebuggerType
<1>4. outside' \in 0..(2 * MaxOutside + 1)
  BY OutsideTyped DEF Enable, Enabled, NoSession, Cut, DebuggerType
<1> QED
  BY <1>1, <1>2, <1>3, <1>4 DEF Enable, DebuggerType

\* so does the end of sessions
LEMMA EndTyped ==
    ASSUME DebuggerType, NEW tabs \in SUBSET Tabs, NEW who \in {"nobody", "another"},
           End(tabs, who)
    PROVE  /\ debuggee' \in [Tabs -> {"nobody", "connector", "another"}]
           /\ domains' \in [Tabs -> SUBSET Domains] /\ cut' \in SUBSET Tabs
  BY DEF End, DebuggerType

\* so does the user who cancels one
LEMMA CancelTyped ==
    ASSUME DebuggerType, NEW t \in Tabs, Cancel(t)
    PROVE  DebuggerType'
<1>1. wire[t] \in Seq(Message)
  BY DEF DebuggerType
<1>2. wire' \in [Tabs -> Seq(Message)]
  BY <1>1, Sent DEF Cancel
<1>3. outside' \in 0..(2 * MaxOutside + 1)
  BY OutsideTyped DEF Cancel
<1> QED
  BY <1>2, <1>3, EndTyped DEF Cancel, DebuggerType

\* so does another debugger that comes or goes
LEMMA AnotherTyped ==
    ASSUME DebuggerType, NEW t \in Tabs, Another(t)
    PROVE  DebuggerType'
<1>1. outside' \in 0..(2 * MaxOutside + 1)
  BY OutsideTyped DEF Another
<1> QED
  BY <1>1 DEF Another, DebuggerType

\* so does a detachment, with its notices
LEMMA DetachTyped ==
    ASSUME DebuggerType, NEW tabs \in SUBSET Tabs, Detach(tabs),
           outside' \in 0..(2 * MaxOutside + 1)
    PROVE  DebuggerType'
<1>1. [kind |-> "detached", to |-> Nil] \in Message
  BY DEF Message
<1>2. wire' \in [Tabs -> Seq(Message)]
  BY <1>1 DEF Detach, DebuggerType
<1>3. {t \in tabs : debuggee[t] = "connector"} \in SUBSET Tabs
  OBVIOUS
<1> QED
  BY <1>2, <1>3, EndTyped DEF Detach, DebuggerType

\* so does the closure of a tab, with its notice
LEMMA GoneTyped ==
    ASSUME DebuggerType, NEW t \in Tabs, Gone(t), UNCHANGED attachedTabs,
           outside' \in 0..(2 * MaxOutside + 1)
    PROVE  DebuggerType'
<1>1. wire[t] \in Seq(Message)
  BY DEF DebuggerType
<1>2. wire' \in [Tabs -> Seq(Message)]
  BY <1>1, Sent DEF Gone
<1>3. tab' \in [Tabs -> {"unused", "open", "closed"}]
  BY DEF Gone, DebuggerType
<1> QED
  BY <1>2, <1>3, EndTyped DEF Gone, DebuggerType

\* so does a message taken from the wire
LEMMA TakenTyped ==
    ASSUME DebuggerType, NEW t \in Tabs, wire[t] # <<>>, Taken(t)
    PROVE  wire' \in [Tabs -> Seq(Message)]
<1>1. Tail(wire[t]) \in Seq(Message)
  BY HeadTyped
<1> QED
  BY <1>1 DEF Taken, DebuggerType

\* the debugger keeps its types when nothing touches it
LEMMA DebuggerFrame ==
    ASSUME DebuggerType, UNCHANGED debuggerVars
    PROVE  DebuggerType'
  BY DEF DebuggerType, debuggerVars

\* so do the records
LEMMA LogFrame == ASSUME LogType, UNCHANGED logVars PROVE LogType'
  BY DEF LogType, logVars

\* so do the groups
LEMMA GroupFrame == ASSUME GroupType, UNCHANGED groupVars PROVE GroupType'
  BY DEF GroupType, groupVars

\* so do the pages
LEMMA PageFrame == ASSUME PageType, UNCHANGED <<pageVars, release>> PROVE PageType'
  BY DEF PageType, pageVars

(* The steps of LogRecords.                                                *)
LEMMA PushTyped ==
    ASSUME LogType, NEW t \in Tabs, Push(t)
    PROVE  LogType'
<1>1. pushed' \in Nat /\ pushed' = pushed + 1
  BY DEF Push, LogType
<1>2. kept' \in [Tabs -> SUBSET (1..pushed')]
  <2>1. ASSUME NEW u \in Tabs PROVE kept[u] \subseteq 1..pushed'
    BY <1>1 DEF LogType
  <2>2. Trimmed(kept[t] \cup {pushed'}) \subseteq 1..pushed'
    BY <1>1, <2>1 DEF Trimmed, LogType
  <2> QED
    BY <2>1, <2>2 DEF Push, LogType
<1>3. walk' \in Walk \cup {Nil}
  <2>1. CASE UNCHANGED walk
    BY <2>1 DEF LogType
  <2>2. CASE walk # Nil /\ walk' = [walk EXCEPT !.matching = @ \cup {pushed'}]
    <3>1. walk \in Walk
      BY <2>2 DEF LogType
    <3> QED
      BY <1>1, <2>2, <3>1 DEF Walk
  <2> QED
    BY <2>1, <2>2 DEF Push
<1> QED
  BY <1>1, <1>2, <1>3 DEF LogType

\* a record that enters or leaves the filter keeps the types
LEMMA RetypeTyped ==
    ASSUME LogType, NEW t \in Tabs, Retype(t)
    PROVE  LogType'
<1>1. walk \in Walk /\ UNCHANGED <<pushed, kept>>
  BY DEF Retype, LogType
<1>2. PICK n \in kept[t] :
        IF n \in walk.matching
          THEN walk' = [walk EXCEPT !.matching = @ \ {n}, !.left = TRUE]
          ELSE walk' = [walk EXCEPT !.matching = @ \cup {n}]
  BY DEF Retype
<1>3. n \in Nat
  BY DEF LogType
<1>4. walk' \in Walk
  <2>1. CASE walk' = [walk EXCEPT !.matching = @ \ {n}, !.left = TRUE]
    BY <1>1, <2>1 DEF Walk
  <2>2. CASE walk' = [walk EXCEPT !.matching = @ \cup {n}]
    BY <1>1, <1>3, <2>2 DEF Walk
  <2> QED
    BY <1>2, <2>1, <2>2
<1> QED
  BY <1>1, <1>4 DEF LogType

\* a page of records is made of the records that were filtered
LEMMA PageIn ==
    ASSUME NEW filtered, NEW offset, NEW limit
    PROVE  Page(filtered, offset, limit) \subseteq filtered
  BY DEF Page

\* a cursor is a number, or there is none
LEMMA CursorTyped ==
    ASSUME NEW filtered, NEW offset \in Nat, NEW limit \in Nat
    PROVE  NextCursor(filtered, offset, limit) \in Nat \cup {Nil}
  BY DEF NextCursor

\* a read keeps the types of the records
LEMMA ReadTyped ==
    ASSUME LogType, NEW t \in Tabs, NEW limit \in PageSizes,
           ReadOn(t, limit) \/ \E matching \in SUBSET kept[t] : ReadFirst(t, matching, limit)
    PROVE  LogType'
<1>1. limit \in Nat /\ kept[t] \subseteq Nat
  BY Constants DEF LogType
<1>2. CASE ReadOn(t, limit)
  <2>1. walk \in Walk /\ walk.cursor \in Nat /\ walk.matching \subseteq Nat /\ walk.seen \subseteq Nat
    BY <1>2 DEF ReadOn, LogType, Walk
  <2> DEFINE filtered == kept[t] \cap walk.matching
             seen == Page(filtered, walk.cursor, limit)
             cursor == NextCursor(filtered, walk.cursor, limit)
  <2>2. seen \subseteq Nat /\ cursor \in Nat \cup {Nil}
    BY <1>1, <2>1, PageIn, CursorTyped
  <2>3. walk' = [walk EXCEPT !.seen = @ \cup seen, !.cursor = cursor]
    BY <1>2 DEF ReadOn
  <2> HIDE DEF seen, cursor
  <2>4. walk' \in Walk
    BY <2>1, <2>2, <2>3 DEF Walk
  <2> QED
    BY <1>2, <2>4 DEF ReadOn, LogType
<1>3. ASSUME NEW matching \in SUBSET kept[t], ReadFirst(t, matching, limit)
      PROVE  LogType'
  <2> DEFINE filtered == kept[t] \cap matching
             seen == Page(filtered, 0, limit)
             cursor == NextCursor(filtered, 0, limit)
  <2>1. filtered \subseteq Nat /\ seen \subseteq Nat /\ cursor \in Nat \cup {Nil}
    BY <1>1, PageIn, CursorTyped
  <2>2. walk' = [tab |-> t, matching |-> matching, wanted |-> filtered, seen |-> seen,
                 cursor |-> cursor, left |-> FALSE]
    BY <1>3 DEF ReadFirst
  <2> HIDE DEF filtered, seen, cursor
  <2>3. walk' \in Walk
    BY <1>1, <2>1, <2>2 DEF Walk
  <2> QED
    BY <1>3, <2>3 DEF ReadFirst, LogType
<1> QED
  BY <1>2, <1>3

(* The steps of TabGroups.                                                 *)
LEMMA GroupStepTyped ==
    ASSUME GroupType, NEW key \in Keys, NEW t \in Tabs,
           NEW g \in Tabs \cup {Nil}, NEW name \in Labels,
           \/ Join(key, t) \/ Refused(key) \/ Forget(key) \/ Found(key, t)
           \/ Keep(key, g, name) \/ Retitle(g, name) \/ renameGroup(key, name)
    PROVE  GroupType'
<1>1. CASE Join(key, t)
  BY <1>1 DEF Join, GroupType
<1>2. CASE Refused(key)
  BY <1>2 DEF Refused, GroupType
<1>3. CASE Forget(key)
  BY <1>3 DEF Forget, GroupType
<1>4. CASE Found(key, t)
  BY <1>4 DEF Found, GroupType
<1>5. CASE Keep(key, g, name)
  BY <1>5 DEF Keep, GroupType
<1>6. CASE Retitle(g, name)
  BY <1>6 DEF Retitle, GroupType
<1>7. CASE renameGroup(key, name)
  BY <1>7 DEF renameGroup, GroupType
<1> QED
  BY <1>1, <1>2, <1>3, <1>4, <1>5, <1>6, <1>7

(* ... of a tab or of none.                                                *)
LEMMA GroupTypedLoose ==
    ASSUME GroupType, NEW key \in Keys, NEW t \in Tabs \cup {Nil},
           Join(key, t) \/ Refused(key) \/ Forget(key) \/ Found(key, t)
    PROVE  GroupType'
<1>1. CASE t \in Tabs
  BY <1>1, GroupStepTyped, Constants
<1>2. CASE t \notin Tabs
  BY <1>2, Constants DEF Join, Refused, Forget, Found, GroupType
<1> QED
  BY <1>1, <1>2

\* a batch groups its tabs under Default, another call under its session
LEMMA KeyTyped ==
    ASSUME CallType, NEW c \in Active
    PROVE  /\ Key(c) \in Keys
           /\ calls[c].request.batch => Key(c) = Default
           /\ ~calls[c].request.batch => Key(c) = calls[c].session
  BY ActiveCall, Constants DEF Key

\* every step of a call keeps the types
LEMMA CallStepTyped ==
    ASSUME TypeOK, NEW c \in Calls, CallStep(c)
    PROVE  TypeOK'
<1> USE TypeParts
<1>1. ASSUME NEW s \in Sessions, NEW r \in Requests, Begin(c, s, r)
      PROVE  TypeOK'
  <2> DEFINE n == [session |-> s, request |-> r, at |-> 1, step |-> "begin", on |-> Nil,
                   label |-> label[s], controlled |-> controlled[s], made |-> {},
                   graded |-> IF r.batch THEN stamped ELSE {}, changed |-> FALSE]
  <2>1. n \in Call /\ n.at = 1 /\ n.request = r
    BY DEF Call, Step, GroupType, CallType, PageType
  <2>2. 1 \in DOMAIN r.actions
    <3>1. r.actions \in Seq(Action) /\ r.actions # <<>>
      BY Constants
    <3> QED
      BY <3>1, EmptySeq
  <2>3. calls' = [calls EXCEPT ![c] = n]
    BY <1>1 DEF Begin
  <2> HIDE DEF n
  <2>4. calls' \in [Calls -> Call \cup Answer \cup {Nil}]
    BY <2>1, <2>3 DEF CallType
  <2>5. ASSUME NEW d \in Active' PROVE calls'[d].at \in DOMAIN calls'[d].request.actions
    BY <2>1, <2>2, <2>3, <2>5 DEF CallType, Active
  <2>6. requests' \in 0..MaxRequests
    BY <1>1, Constants DEF Begin, CallType, Weight
  <2>7. UNCHANGED <<controlled, stray>> /\ disturbed' \in SUBSET Sessions
    BY <1>1 DEF Begin, CallType
  <2>8. CallType'
    BY <2>4, <2>5, <2>6, <2>7 DEF CallType
  <2> QED
    BY <1>1, <2>8, DebuggerFrame, LogFrame, GroupFrame, PageFrame DEF Begin
<1>2. CASE EnsureDebugger(c)
  <2>1. c \in Active /\ Now(c) \in Action
    BY <1>2, ActiveCall DEF EnsureDebugger, At
  <2>2. \/ Goto(c, "act", Nil) /\ UNCHANGED debuggerVars
        \/ Goto(c, "attach", Nil) /\ Attach(c, Now(c).tab) /\ Now(c).tab \in Tabs
    BY <1>2, <2>1, ToolsTarget DEF EnsureDebugger, Tools, Logs, Untargeted
  <2>3. CallType'
    BY <2>1, <2>2, GotoTyped DEF Step
  <2>4. DebuggerType'
    BY <2>2, DebuggerFrame, AttachTyped
  <2> QED
    BY <1>2, <2>3, <2>4, LogFrame, GroupFrame, PageFrame DEF EnsureDebugger
<1>3. CASE Script(c)
  <2>1. CallType'
    BY <1>3, GotoTyped DEF Script, At, Step
  <2> QED
    BY <1>3, <2>1, DebuggerFrame, LogFrame, GroupFrame, PageFrame DEF Script
<1>4. CASE Unbatchable(c) \/ Act(c) \/ CreateNone(c) \/ Query(c)
  <2>1. c \in Active /\ \E ok \in BOOLEAN : Over(c, ok)
    BY <1>4 DEF Unbatchable, Act, CreateNone, Query, At
  <2>2. CallType'
    BY <2>1, OverTypedSame
  <2> QED
    BY <1>4, <2>2, DebuggerFrame, LogFrame, GroupFrame, PageFrame
    DEF Unbatchable, Act, CreateNone, Query
<1>5. CASE ReadLog(c)
  <2>1. c \in Active /\ Now(c).tool \notin Untargeted /\ Over(c, TRUE)
    BY <1>5 DEF ReadLog, At, Logs, Untargeted
  <2>2. CallType' /\ Now(c).tab \in Tabs
    BY <2>1, OverTypedSame, ToolsTarget
  <2>3. LogType'
    BY <1>5, <2>2, ReadTyped DEF ReadLog
  <2> QED
    BY <1>5, <2>2, <2>3, DebuggerFrame, GroupFrame, PageFrame DEF ReadLog
<1>6. ASSUME NEW t \in Tabs, Create(c, t)
      PROVE  TypeOK'
  <2> DEFINE n == [calls[c] EXCEPT !.step = "created", !.on = t, !.controlled = @ \cup {t},
                                  !.made = @ \cup {t}]
  <2>1. c \in Active /\ calls[c] \in Call /\ calls[c].at \in DOMAIN calls[c].request.actions
    BY <1>6, ActiveCall DEF Create, At
  <2>2. n \in Call /\ n.at = calls[c].at /\ n.request = calls[c].request
    BY <2>1 DEF Call, Step
  <2>3. calls' = [calls EXCEPT ![c] = n]
    BY <1>6 DEF Create
  <2> HIDE DEF n
  <2>4. calls'[c] = n /\ Moves(c)
    BY <1>6, <2>3 DEF CallType, Moves, Create
  <2>5. CallType'
    BY <1>6, <2>1, <2>2, <2>4, MovesTyped DEF CallType, Create
  <2>6. DebuggerType'
    BY <1>6 DEF Create, DebuggerType
  <2>7. GroupType'
    BY <1>6, <2>1, Constants DEF Create, GroupType, Call
  <2> QED
    BY <1>6, <2>5, <2>6, <2>7, LogFrame, PageFrame DEF Create
<1>7. CASE Group(c)
  <2> DEFINE t == calls[c].on  key == Key(c)
  <2>1. c \in Active
    BY <1>7 DEF Group, At
  <2>2. t \in Tabs \cup {Nil} /\ key \in Keys /\ calls[c].controlled \in SUBSET Tabs
    BY <2>1, ActiveCall, KeyTyped
  <2> HIDE DEF t, key
  <2>3. \/ Join(key, t) /\ Goto(c, "group", groupIds[key]) /\ groupIds[key] \in Tabs \cup {Nil}
        \/ Found(key, t) /\ Goto(c, "title", t)
        \/ Refused(key) /\ Goto(c, "query", Nil)
        \/ Forget(key) /\ Goes(c, "query", Nil) /\ disturbed' \in SUBSET Sessions
    BY <1>7, <2>2 DEF Group, GroupType, CallType, t, key
  <2>4. CallType'
    BY <2>1, <2>2, <2>3, GotoTyped, GoesTyped DEF Step
  <2>5. GroupType'
    BY <2>2, <2>3, GroupTypedLoose
  <2> QED
    BY <1>7, <2>4, <2>5, DebuggerFrame, LogFrame, PageFrame DEF Group
<1>8. CASE Title(c)
  <2>1. c \in Active /\ Goto(c, "query", Nil)
    BY <1>8 DEF Title, At
  <2>2. calls[c].on \in Tabs \cup {Nil} /\ Key(c) \in Keys /\ calls[c].label \in Labels
    BY <2>1, ActiveCall, KeyTyped
  <2>3. GroupType'
    BY <1>8, <2>2, GroupStepTyped, Constants DEF Title
  <2>4. CallType'
    BY <2>1, GotoTyped DEF Step
  <2> QED
    BY <1>8, <2>3, <2>4, DebuggerFrame, LogFrame, PageFrame DEF Title
<1>9. CASE CloseTab(c)
  <2> DEFINE t == Now(c).tab  left == calls[c].controlled \ {t}
  <2>1. c \in Active /\ Now(c).tool \notin Untargeted
    BY <1>9 DEF CloseTab, At, Untargeted
  <2>2. t \in Tabs /\ left \in SUBSET Tabs
    BY <2>1, ActiveCall, ToolsTarget
  <2>3. OverWith(c, TRUE, left) /\ disturbed' \in SUBSET Sessions
    BY <1>9 DEF CloseTab, CallType
  <2>4. CallType'
    BY <2>1, <2>2, <2>3, OverTyped
  <2>5. UNCHANGED <<attachedTabs, outside>> /\ outside' \in 0..(2 * MaxOutside + 1)
    BY <1>9 DEF CloseTab, DebuggerType
  <2>6. CASE Gone(t)
    <3>1. DebuggerType'
      BY <2>2, <2>5, <2>6, GoneTyped
    <3>2. GroupType'
      BY <1>9, <2>6 DEF CloseTab, Gone, GroupType
    <3> QED
      BY <1>9, <2>4, <3>1, <3>2, LogFrame, PageFrame DEF CloseTab
  <2>7. CASE UNCHANGED <<tab, debuggee, domains, cut, wire, group>>
    <3>1. DebuggerType' /\ GroupType'
      BY <1>9, <2>5, <2>7, DebuggerFrame, GroupFrame DEF CloseTab, debuggerVars, groupVars
    <3> QED
      BY <1>9, <2>4, <3>1, LogFrame, PageFrame DEF CloseTab
  <2> QED
    BY <1>9, <2>6, <2>7 DEF CloseTab
<1>10. ASSUME NEW name \in Labels, SaveLabel(c, name)
       PROVE  TypeOK'
  <2> DEFINE n == [calls[c] EXCEPT !.step = "label", !.label = name]
  <2>1. c \in Active /\ calls[c] \in Call /\ calls[c].at \in DOMAIN calls[c].request.actions
    BY <1>10, ActiveCall DEF SaveLabel, At
  <2>2. n \in Call /\ n.at = calls[c].at /\ n.request = calls[c].request
    BY <2>1 DEF Call, Step
  <2>3. calls' = [calls EXCEPT ![c] = n]
    BY <1>10 DEF SaveLabel
  <2> HIDE DEF n
  <2>4. calls'[c] = n /\ Moves(c)
    BY <1>10, <2>3 DEF CallType, Moves, SaveLabel
  <2>5. CallType'
    BY <1>10, <2>1, <2>2, <2>4, MovesTyped DEF CallType, SaveLabel
  <2>6. GroupType'
    BY <1>10 DEF SaveLabel, GroupType
  <2> QED
    BY <1>10, <2>5, <2>6, DebuggerFrame, LogFrame, PageFrame DEF SaveLabel
<1>11. CASE Rename(c)
  <2>1. c \in Active /\ Over(c, TRUE)
    BY <1>11 DEF Rename, At
  <2>2. calls[c].session \in Keys /\ calls[c].label \in Labels
    BY <2>1, ActiveCall, Constants
  <2>3. GroupType'
    BY <1>11, <2>2, GroupStepTyped, Constants DEF Rename
  <2>4. CallType'
    BY <2>1, OverTypedSame
  <2> QED
    BY <1>11, <2>3, <2>4, DebuggerFrame, LogFrame, PageFrame DEF Rename
<1>12. CASE ReadPage(c)
  <2>1. c \in Active /\ Now(c).tool \notin Untargeted /\ \E ok \in BOOLEAN : Over(c, ok)
    BY <1>12 DEF ReadPage, At, Reads, Untargeted
  <2>2. CallType' /\ Now(c).tab \in Tabs
    BY <2>1, OverTypedSame, ToolsTarget
  <2>3. PageType'
    BY <1>12, <2>2 DEF ReadPage, PageType
  <2> QED
    BY <1>12, <2>2, <2>3, DebuggerFrame, LogFrame, GroupFrame DEF ReadPage
<1> QED
  BY <1>1, <1>2, <1>3, <1>4, <1>5, <1>6, <1>7, <1>8, <1>9, <1>10, <1>11, <1>12 DEF CallStep

\* so does a message that reaches the worker
LEMMA WireStepTyped ==
    ASSUME TypeOK, NEW t \in Tabs, WireStep(t)
    PROVE  TypeOK'
<1> USE TypeParts
<1>1. CASE Reply(t)
  <2> DEFINE c == Head(wire[t]).to  step == calls[c].step
  <2>1. wire[t] # <<>> /\ c \in Active
    BY <1>1 DEF Reply, Received
  <2>2. c \in Calls /\ Tail(wire[t]) \in Seq(Message)
    BY <2>1, HeadTyped, ActiveCall
  <2> HIDE DEF c
  <2>3. \/ /\ step \in DOMAIN NextDomain
           /\ Enable(c, t, NextDomain[step], Tail(wire[t])) /\ Goto(c, NextDomain[step], Nil)
        \/ /\ attachedTabs' = attachedTabs \cup {t} /\ Goto(c, "act", Nil) /\ Taken(t)
           /\ UNCHANGED <<tab, debuggee, domains, cut, outside>>
    BY <1>1 DEF Reply, c
  <2>4. step \in DOMAIN NextDomain => NextDomain[step] \in Domains
    BY DEF NextDomain, Domains
  <2>5. Domains \subseteq Step /\ "act" \in Step
    BY DEF Domains, Step
  <2>6. CallType'
    BY <2>1, <2>3, <2>4, <2>5, GotoTyped
  <2>7. DebuggerType'
    <3>1. CASE step \in DOMAIN NextDomain /\ Enable(c, t, NextDomain[step], Tail(wire[t]))
      BY <2>2, <2>4, <3>1, EnableTyped
    <3>2. CASE /\ attachedTabs' = attachedTabs \cup {t} /\ Taken(t)
               /\ UNCHANGED <<tab, debuggee, domains, cut, outside>>
      <4>1. wire' \in [Tabs -> Seq(Message)]
        BY <2>1, <3>2, TakenTyped
      <4> QED
        BY <3>2, <4>1 DEF DebuggerType
    <3> QED
      BY <2>3, <3>1, <3>2
  <2> QED
    BY <1>1, <2>6, <2>7, LogFrame, GroupFrame, PageFrame DEF Reply
<1>2. CASE Conflict(t)
  <2> DEFINE c == Head(wire[t]).to
  <2>1. wire[t] # <<>> /\ c \in Active /\ Over(c, FALSE) /\ Taken(t)
    BY <1>2 DEF Conflict, Received
  <2> HIDE DEF c
  <2>2. CallType' /\ wire' \in [Tabs -> Seq(Message)]
    BY <2>1, OverTypedSame, TakenTyped
  <2>3. DebuggerType'
    BY <1>2, <2>2 DEF Conflict, DebuggerType
  <2> QED
    BY <1>2, <2>2, <2>3, LogFrame, GroupFrame, PageFrame DEF Conflict
<1>3. CASE Detached(t)
  <2>1. wire' \in [Tabs -> Seq(Message)]
    BY <1>3, TakenTyped DEF Detached, Received
  <2>2. DebuggerType'
    BY <1>3, <2>1 DEF Detached, DebuggerType
  <2> QED
    BY <1>3, <2>2, LogFrame, GroupFrame, PageFrame, CallTypeFrame DEF Detached
<1>4. CASE Removed(t)
  <2>1. wire' \in [Tabs -> Seq(Message)]
    BY <1>4, TakenTyped DEF Removed, Received
  <2>2. DebuggerType'
    BY <1>4, <2>1 DEF Removed, DebuggerType
  <2>3. LogType'
    BY <1>4 DEF Removed, LogType
  <2>4. CallType'
    BY <1>4 DEF Removed, CallType, Active
  <2> QED
    BY <1>4, <2>2, <2>3, <2>4, GroupFrame, PageFrame DEF Removed
<1> QED
  BY <1>1, <1>2, <1>3, <1>4 DEF WireStep

\* so does what comes from outside
LEMMA OutsideStepTyped ==
    ASSUME TypeOK, NEW t \in Tabs, OutsideStep(t)
    PROVE  TypeOK'
<1> USE TypeParts
<1>1. CASE (Cancel(t) \/ Another(t)) /\ UNCHANGED <<logVars, groupVars, callVars, pageVars, release>>
  <2>1. DebuggerType'
    BY <1>1, CancelTyped, AnotherTyped
  <2> QED
    BY <1>1, <2>1, LogFrame, GroupFrame, PageFrame, CallTypeFrame
<1>2. CASE Close(t)
  <2>1. outside' \in 0..(2 * MaxOutside + 1) /\ UNCHANGED attachedTabs /\ Gone(t)
    BY <1>2, OutsideTyped DEF Close
  <2>2. DebuggerType'
    BY <2>1, GoneTyped
  <2>3. GroupType'
    BY <1>2 DEF Close, Gone, GroupType
  <2> QED
    BY <1>2, <2>2, <2>3, LogFrame, PageFrame, CallTypeFrame DEF Close
<1>3. ASSUME NEW words \in Targets, PageChanges(t, words)
      PROVE  TypeOK'
  <2>1. ASSUME NEW c \in Active PROVE [calls[c] EXCEPT !.changed = TRUE] \in Call
    <3>1. calls[c] \in Call
      BY ActiveCall
    <3> QED
      BY <3>1 DEF Call
  <2>2. calls' \in [Calls -> Call \cup Answer \cup {Nil}]
    BY <1>3, <2>1 DEF PageChanges, CallType
  <2>3. ASSUME NEW c \in Active' PROVE calls'[c].at \in DOMAIN calls'[c].request.actions
    <3>1. c \in Calls /\ calls'[c] # Nil /\ calls'[c].step \in Step
      BY DEF Active
    <3>2. CASE c \in Active
      <4>1. calls'[c] = [calls[c] EXCEPT !.changed = TRUE] /\ calls[c] \in Call
        BY <1>3, <3>1, <3>2, ActiveCall DEF PageChanges
      <4>2. calls'[c].at = calls[c].at /\ calls'[c].request = calls[c].request
        BY <4>1 DEF Call
      <4> QED
        BY <3>2, <4>2 DEF CallType
    <3>3. CASE c \notin Active
      BY <1>3, <3>1, <3>3 DEF PageChanges, Active
    <3> QED
      BY <3>2, <3>3
  <2>4. CallType'
    BY <1>3, <2>2, <2>3 DEF PageChanges, CallType
  <2>5. PageType'
    BY <1>3, Constants DEF PageChanges, PageType
  <2>6. DebuggerType'
    BY <1>3, OutsideTyped DEF PageChanges, DebuggerType
  <2> QED
    BY <1>3, <2>4, <2>5, <2>6, LogFrame, GroupFrame DEF PageChanges
<1>4. CASE /\ Push(t) \/ Retype(t)
           /\ UNCHANGED <<tab, debuggee, domains, cut, wire, attachedTabs>>
           /\ UNCHANGED <<groupVars, callVars, pageVars, release>>
  <2>1. Outside(1)
    BY <1>4 DEF Push, Retype
  <2>2. DebuggerType'
    BY <1>4, <2>1, OutsideTyped DEF DebuggerType
  <2> QED
    BY <1>4, <2>2, PushTyped, RetypeTyped, GroupFrame, PageFrame, CallTypeFrame
<1> QED
  BY <1>1, <1>2, <1>3, <1>4 DEF OutsideStep

\* so does the release of the leases
LEMMA ReleaseTyped ==
    ASSUME TypeOK, ReleaseStep
    PROVE  TypeOK'
<1> USE TypeParts
<1>1. CASE ReleaseAll
  <2>1. PICK todo \in SUBSET Sessions :
          release' = [todo |-> todo, now |-> Nil,
                      listed |-> [s \in Sessions |-> IF s \in todo THEN controlled[s] ELSE {}]]
    BY <1>1 DEF ReleaseAll
  <2>2. [s \in Sessions |-> IF s \in todo THEN controlled[s] ELSE {}] \in [Sessions -> SUBSET Tabs]
    BY DEF CallType
  <2>3. release' \in Release
    BY <2>1, <2>2 DEF Release
  <2>4. PageType'
    BY <1>1, <2>3 DEF ReleaseAll, PageType, pageVars
  <2>5. DebuggerType'
    BY <1>1, OutsideTyped DEF ReleaseAll, DebuggerType
  <2>6. CallType'
    BY <1>1, Constants DEF ReleaseAll, CallType, Active
  <2> QED
    BY <1>1, <2>4, <2>5, <2>6, LogFrame, GroupFrame DEF ReleaseAll
<1>2. ASSUME NEW s \in Sessions, ReleaseSession(s)
      PROVE  TypeOK'
  <2>1. release \in Release /\ release' = [release EXCEPT !.todo = @ \ {s}, !.now = s]
    BY <1>2 DEF ReleaseSession, PageType
  <2>2. release' \in Release
    BY <2>1 DEF Release
  <2>3. PageType'
    BY <1>2, <2>2 DEF ReleaseSession, PageType, pageVars
  <2>4. controlled[s] \in SUBSET Tabs /\ UNCHANGED calls
    BY <1>2 DEF ReleaseSession, CallType
  <2>5. CallType'
    BY <1>2, <2>4 DEF ReleaseSession, CallType, Active
  <2>6. GroupType'
    BY <1>2, Constants DEF ReleaseSession, GroupType
  <2> QED
    BY <1>2, <2>3, <2>5, <2>6, DebuggerFrame, LogFrame DEF ReleaseSession
<1>3. CASE DetachListed
  <2>1. release \in Release /\ release.now \in Sessions
    BY <1>3 DEF DetachListed, PageType, Release
  <2>2. release.listed[release.now] \in SUBSET Tabs
    BY <2>1 DEF Release
  <2>3. DebuggerType'
    BY <1>3, <2>2, DetachTyped DEF DetachListed, DebuggerType
  <2>4. [release EXCEPT !.now = Nil] \in Release
    BY <2>1 DEF Release
  <2>5. PageType'
    BY <1>3, <2>4 DEF DetachListed, PageType, pageVars
  <2> QED
    BY <1>3, <2>3, <2>5, LogFrame, GroupFrame, CallTypeFrame DEF DetachListed
<1> QED
  BY <1>1, <1>2, <1>3 DEF ReleaseStep

\* so does a restart of the worker
LEMMA RestartTyped ==
    ASSUME TypeOK, Restart
    PROVE  TypeOK'
<1> USE TypeParts
<1>1. DebuggerType'
  <2>1. <<>> \in Seq(Message)
    OBVIOUS
  <2>2. wire' \in [Tabs -> Seq(Message)]
    BY <2>1 DEF Restart
  <2> QED
    BY <2>2, OutsideTyped DEF Restart, DebuggerType
<1>2. LogType' /\ GroupType'
  BY DEF Restart, LogType, GroupType
<1>3. CallType'
  <2>1. [step |-> "lost", failed |-> TRUE, lost |-> {}, query |-> FALSE] \in Answer
    BY DEF Answer
  <2>2. calls' \in [Calls -> Call \cup Answer \cup {Nil}]
    BY <2>1 DEF Restart, CallType
  <2>3. Active' = {}
    BY DEF Restart, Active, Step
  <2> QED
    BY <2>2, <2>3 DEF Restart, CallType
<1>4. PageType'
  BY DEF Restart, PageType, pageVars
<1> QED
  BY <1>1, <1>2, <1>3, <1>4

\* so does no step at all
LEMMA StutterTyped ==
    ASSUME TypeOK, UNCHANGED vars
    PROVE  TypeOK'
  BY TypeParts, DebuggerFrame, LogFrame, GroupFrame, CallTypeFrame, PageFrame DEF vars

\* the types hold at the start
LEMMA InitTyped == ASSUME Init PROVE TypeOK
<1> USE TypeParts
<1>1. DebuggerType
  BY Constants DEF Init, DebuggerInit, DebuggerType
<1>2. LogType /\ PageType
  BY DEF Init, LogInit, LogType, PageType, Words
<1>3. GroupType
  BY Constants DEF Init, GroupInit, GroupType
<1>4. CallType
  BY Constants DEF Init, CallType, Active
<1> QED
  BY <1>1, <1>2, <1>3, <1>4

(* Every variable keeps its type, for any tabs, calls, sessions and        *)
(* requests, any number of events and any length of the records' list.     *)
THEOREM ControllerTypeCorrect == Spec => []TypeOK
<1>1. Init => TypeOK
  BY InitTyped
<1>2. TypeOK /\ [Next]_vars => TypeOK'
  BY CallStepTyped, WireStepTyped, OutsideStepTyped, ReleaseTyped, RestartTyped, StutterTyped
  DEF Next
<1> QED
  BY <1>1, <1>2, PTL DEF Spec

-----------------------------------------------------------------------------
(* Records: what an agent wants, has not seen and can still see lies at or *)
(* past its cursor, because no step moves a record to a lower place, but   *)
(* one by which another ceases to match, which ends the walk.              *)

Filtered == kept[walk.tab] \cap walk.matching

RecordsAhead ==
    walk # Nil =>
      /\ walk.wanted \subseteq 1..pushed
      /\ ~walk.left => \A n \in walk.wanted \cap kept[walk.tab] :
           /\ n \in walk.matching
           /\ n \notin walk.seen => walk.cursor # Nil /\ walk.cursor =< Place(n, Filtered)

(* How the steps change the lists.                                         *)
LEMMA LogSteps ==
    ASSUME TypeOK, [Next]_vars
    PROVE  \/ UNCHANGED logVars
           \/ UNCHANGED <<pushed, walk>> /\ \A t \in Tabs : kept'[t] \in {kept[t], {}}
           \/ \E t \in Tabs : Push(t) \/ Retype(t)
           \/ \E t \in Tabs, limit \in PageSizes :
                ReadOn(t, limit) \/ \E matching \in SUBSET kept[t] : ReadFirst(t, matching, limit)
<1>1. ASSUME NEW c \in Calls, CallStep(c)
      PROVE  \/ UNCHANGED logVars
             \/ \E t \in Tabs, limit \in PageSizes :
                  ReadOn(t, limit) \/ \E matching \in SUBSET kept[t] : ReadFirst(t, matching, limit)
  <2>1. CASE ReadLog(c)
    <3>1. Now(c).tab \in Tabs
      BY <2>1, TypeParts, ToolsTarget DEF ReadLog, At, Logs, Untargeted
    <3> QED
      BY <2>1, <3>1 DEF ReadLog
  <2>2. CASE ~ReadLog(c)
    BY <1>1, <2>2 DEF CallStep, Begin, EnsureDebugger, Script, Unbatchable, Act, ReadPage, Create,
                      CreateNone, Group, Title, Query, CloseTab, SaveLabel, Rename
  <2> QED
    BY <2>1, <2>2
<1>2. ASSUME NEW t \in Tabs, WireStep(t)
      PROVE  \/ UNCHANGED logVars
             \/ UNCHANGED <<pushed, walk>> /\ \A u \in Tabs : kept'[u] \in {kept[u], {}}
  BY <1>2, TypeParts DEF WireStep, Reply, Conflict, Detached, Removed, LogType
<1>3. ASSUME NEW t \in Tabs, OutsideStep(t)
      PROVE  UNCHANGED logVars \/ Push(t) \/ Retype(t)
  BY <1>3 DEF OutsideStep, Close, PageChanges
<1>4. CASE ReleaseStep
  BY <1>4 DEF ReleaseStep, ReleaseAll, ReleaseSession, DetachListed
<1>5. CASE Restart
  BY <1>5 DEF Restart
<1>6. CASE UNCHANGED vars
  BY <1>6 DEF vars
<1> QED
  BY <1>1, <1>2, <1>3, <1>4, <1>5, <1>6 DEF Next

\* numbers below a bound are finitely many
LEMMA FiniteBelow ==
    ASSUME NEW n \in Nat, NEW S \in SUBSET (1..n)
    PROVE  IsFiniteSet(S) /\ S \subseteq Nat
<1>1. IsFiniteSet(1..n)
  BY FS_Interval
<1>2. IsFiniteSet(S)
  BY <1>1, FS_Subset
<1> QED
  BY <1>2

\* a list holds finitely many records
LEMMA KeptFinite ==
    ASSUME LogType, NEW t \in Tabs, NEW records \in SUBSET kept[t]
    PROVE  IsFiniteSet(records) /\ records \subseteq Nat
<1>1. records \subseteq 1..pushed /\ pushed \in Nat
  BY DEF LogType
<1> QED
  BY <1>1, FiniteBelow

(* The place of a record among others is a number below theirs.            *)
LEMMA PlaceBounds ==
    ASSUME NEW records, IsFiniteSet(records), records \subseteq Nat, NEW n \in records
    PROVE  /\ Place(n, records) \in Nat /\ Cardinality(records) \in Nat
           /\ Place(n, records) < Cardinality(records)
<1>1. Newer(n, records) \subseteq records /\ n \notin Newer(n, records)
  BY DEF Newer
<1>2. IsFiniteSet(Newer(n, records)) /\ Newer(n, records) # records
  BY <1>1, FS_Subset
<1>3. Cardinality(Newer(n, records)) =< Cardinality(records)
  BY <1>1, FS_Subset
<1>4. Cardinality(Newer(n, records)) # Cardinality(records)
  BY <1>1, <1>2, FS_Subset
<1>5. Cardinality(Newer(n, records)) \in Nat /\ Cardinality(records) \in Nat
  BY <1>2, FS_CardinalityType
<1> QED
  BY <1>3, <1>4, <1>5 DEF Place

(* A record that is not trimmed has no fewer newer ones than before.       *)
LEMMA TrimmedKeepsNewer ==
    ASSUME LogType, NEW t \in Tabs, NEW n \in kept[t], NEW m \in kept[t], m > n,
           n \in Trimmed(kept[t] \cup {pushed + 1})
    PROVE  m \in Trimmed(kept[t] \cup {pushed + 1})
<1> DEFINE all == kept[t] \cup {pushed + 1}
<1>1. IsFiniteSet(kept[t]) /\ kept[t] \subseteq Nat /\ pushed \in Nat
  BY KeptFinite DEF LogType
<1>2. IsFiniteSet(all) /\ all \subseteq Nat
  BY <1>1, FS_AddElement
<1>3. Newer(m, all) \subseteq Newer(n, all) /\ Newer(n, all) \subseteq all
  BY <1>1, <1>2 DEF Newer
<1>4. IsFiniteSet(Newer(n, all)) /\ IsFiniteSet(Newer(m, all))
  BY <1>2, <1>3, FS_Subset
<1>5. Cardinality(Newer(m, all)) =< Cardinality(Newer(n, all))
  BY <1>3, <1>4, FS_Subset
<1>6. Cardinality(Newer(m, all)) \in Nat /\ Cardinality(Newer(n, all)) \in Nat
  BY <1>4, FS_CardinalityType
<1>7. Cardinality(Newer(n, all)) < MaxLogRecords /\ MaxLogRecords \in Nat
  BY Constants DEF Trimmed
<1> HIDE DEF all
<1>8. Cardinality(Newer(m, all)) < MaxLogRecords
  BY <1>5, <1>6, <1>7
<1> QED
  BY <1>8 DEF Trimmed, all

(* More newer records raise the place of one.                              *)
LEMMA PlaceGrows ==
    ASSUME NEW filtered, NEW other, IsFiniteSet(other), NEW n,
           Newer(n, filtered) \subseteq Newer(n, other)
    PROVE  /\ Place(n, filtered) \in Nat /\ Place(n, other) \in Nat
           /\ Place(n, filtered) =< Place(n, other)
<1>1. Newer(n, other) \subseteq other
  BY DEF Newer
<1>2. IsFiniteSet(Newer(n, other))
  BY <1>1, FS_Subset
<1>3. /\ Cardinality(Newer(n, filtered)) =< Cardinality(Newer(n, other))
      /\ IsFiniteSet(Newer(n, filtered))
  BY <1>2, FS_Subset
<1> QED
  BY <1>2, <1>3, FS_CardinalityType DEF Place

\* a new record, and the trimming with it, leaves what is wanted ahead
LEMMA PushKeepsAhead ==
    ASSUME LogType, RecordsAhead, NEW t \in Tabs, Push(t)
    PROVE  RecordsAhead'
<1>0. walk' # Nil => walk'.wanted \subseteq 1..pushed'
  BY DEF Push, LogType, Walk, RecordsAhead
<1> SUFFICES ASSUME walk' # Nil, ~walk'.left, NEW n \in walk'.wanted \cap kept'[walk'.tab]
             PROVE  /\ n \in walk'.matching
                    /\ n \notin walk'.seen => walk'.cursor # Nil /\ walk'.cursor =< Place(n, Filtered')
  BY <1>0 DEF RecordsAhead, Place, Newer
<1>1. /\ walk # Nil /\ walk \in Walk
      /\ walk'.wanted = walk.wanted /\ walk'.tab = walk.tab /\ walk'.seen = walk.seen
      /\ walk'.cursor = walk.cursor /\ walk.matching \subseteq walk'.matching
      /\ walk.cursor \in Nat \cup {Nil} /\ walk.tab \in Tabs /\ ~walk.left
  BY DEF Push, LogType, Walk
<1>2. CASE walk.tab # t
  <2>1. kept'[walk.tab] = kept[walk.tab] /\ UNCHANGED walk
    BY <1>1, <1>2 DEF Push, LogType
  <2>2. Filtered' = Filtered
    BY <1>1, <2>1 DEF Filtered
  <2> QED
    BY <1>1, <2>1, <2>2 DEF RecordsAhead
<1>3. CASE walk.tab = t
  <2>1. kept'[t] = Trimmed(kept[t] \cup {pushed + 1}) /\ pushed \in Nat /\ kept[t] \subseteq 1..pushed
    BY DEF Push, LogType
  <2>2. n \in kept[t] \cup {pushed + 1} /\ n \in walk.wanted
    BY <1>1, <1>3, <2>1 DEF Trimmed
  <2>3. CASE n \in kept[t]
    <3>1. /\ n \in walk.matching
          /\ n \notin walk.seen => walk.cursor # Nil /\ walk.cursor =< Place(n, Filtered)
      BY <1>1, <1>3, <2>2, <2>3 DEF RecordsAhead
    <3>2. Newer(n, Filtered) \subseteq Newer(n, Filtered')
      BY <1>1, <1>3, <2>1, <2>3, TrimmedKeepsNewer DEF Newer, Filtered
    <3>3. IsFiniteSet(Filtered')
      <4>1. LogType'
        BY PushTyped
      <4>2. IsFiniteSet(kept'[t])
        <5>1. kept'[t] \subseteq 1..pushed' /\ pushed' \in Nat
          BY <4>1 DEF LogType
        <5> QED
          BY <5>1, FiniteBelow
      <4>3. Filtered' \subseteq kept'[t]
        BY <1>1, <1>3 DEF Filtered
      <4> QED
        BY <4>2, <4>3, FS_Subset
    <3>4. /\ Place(n, Filtered) \in Nat /\ Place(n, Filtered') \in Nat
          /\ Place(n, Filtered) =< Place(n, Filtered')
      BY <3>2, <3>3, PlaceGrows
    <3>5. n \notin walk.seen => walk.cursor =< Place(n, Filtered')
      BY <1>1, <3>1, <3>4
    <3> QED
      BY <1>1, <3>1, <3>5 DEF Place, Newer
  <2>4. n # pushed + 1
    BY <1>1, <2>1, <2>2 DEF RecordsAhead
  <2> QED
    BY <2>2, <2>3, <2>4
<1> QED
  BY <1>2, <1>3

\* a record that comes to match does too; one that ceases to ends the walk
LEMMA RetypeKeepsAhead ==
    ASSUME LogType, RecordsAhead, NEW t \in Tabs, Retype(t)
    PROVE  RecordsAhead'
<1>1. /\ walk # Nil /\ walk \in Walk /\ walk.tab = t /\ UNCHANGED <<pushed, kept>>
      /\ walk'.wanted = walk.wanted /\ walk'.tab = walk.tab /\ walk'.seen = walk.seen
      /\ walk'.cursor = walk.cursor /\ walk.cursor \in Nat \cup {Nil}
      /\ \/ walk'.left
         \/ ~walk'.left /\ ~walk.left /\ walk.matching \subseteq walk'.matching
  BY DEF Retype, LogType, Walk
<1>2. walk'.wanted \subseteq 1..pushed'
  BY <1>1 DEF RecordsAhead
<1>3. ASSUME ~walk'.left, NEW n \in walk'.wanted \cap kept'[walk'.tab]
      PROVE  /\ n \in walk'.matching
             /\ n \notin walk'.seen => walk'.cursor # Nil /\ walk'.cursor =< Place(n, Filtered')
  <2>1. /\ n \in walk.matching
        /\ n \notin walk.seen => walk.cursor # Nil /\ walk.cursor =< Place(n, Filtered)
    BY <1>1, <1>3 DEF RecordsAhead
  <2>2. Newer(n, Filtered) \subseteq Newer(n, Filtered')
    BY <1>1, <1>3 DEF Newer, Filtered
  <2>3. IsFiniteSet(Filtered')
    <3>1. Filtered' \subseteq kept[t]
      BY <1>1 DEF Filtered
    <3> QED
      BY <3>1, KeptFinite
  <2>4. /\ Place(n, Filtered) \in Nat /\ Place(n, Filtered') \in Nat
        /\ Place(n, Filtered) =< Place(n, Filtered')
    BY <2>2, <2>3, PlaceGrows
  <2>5. n \notin walk.seen => walk.cursor =< Place(n, Filtered')
    BY <1>1, <2>1, <2>4
  <2> QED
    BY <1>1, <1>3, <2>1, <2>5
<1> QED
  BY <1>2, <1>3 DEF RecordsAhead, Place, Newer

(* A page takes the places from its offset on, and the cursor follows it.  *)
LEMMA PageTakes ==
    ASSUME NEW filtered, IsFiniteSet(filtered), filtered \subseteq Nat,
           NEW offset \in Nat, NEW limit \in Nat \ {0},
           NEW n \in filtered, offset =< Place(n, filtered), n \notin Page(filtered, offset, limit)
    PROVE  /\ NextCursor(filtered, offset, limit) = offset + limit
           /\ offset + limit =< Place(n, filtered)
<1>1. /\ Place(n, filtered) \in Nat /\ Cardinality(filtered) \in Nat
      /\ Place(n, filtered) < Cardinality(filtered)
  BY PlaceBounds
<1>2. ~(Place(n, filtered) < offset + limit)
  BY DEF Page
<1>3. offset + limit =< Place(n, filtered) /\ offset + limit < Cardinality(filtered)
  BY <1>1, <1>2
<1> QED
  BY <1>3 DEF NextCursor

\* a page takes what is at the cursor, and the cursor passes only that
LEMMA ReadKeepsAhead ==
    ASSUME LogType, RecordsAhead, NEW t \in Tabs, NEW limit \in PageSizes,
           ReadOn(t, limit) \/ \E matching \in SUBSET kept[t] : ReadFirst(t, matching, limit)
    PROVE  RecordsAhead'
<1>1. limit \in Nat \ {0}
  BY Constants
<1>2. CASE ReadOn(t, limit)
  <2> DEFINE filtered == kept[t] \cap walk.matching
  <2>1. /\ walk # Nil /\ walk.tab = t /\ walk.cursor \in Nat /\ walk \in Walk
        /\ walk.wanted \subseteq 1..pushed
    BY <1>2 DEF ReadOn, LogType, Walk, RecordsAhead
  <2>2. /\ walk'.tab = t /\ walk'.wanted = walk.wanted /\ walk'.matching = walk.matching
        /\ walk'.seen = walk.seen \cup Page(filtered, walk.cursor, limit)
        /\ walk'.cursor = NextCursor(filtered, walk.cursor, limit) /\ walk'.left = walk.left
        /\ UNCHANGED <<pushed, kept>>
    BY <1>2, <2>1 DEF ReadOn, Walk
  <2>3. IsFiniteSet(filtered) /\ filtered \subseteq Nat
    BY KeptFinite
  <2>4. Filtered = filtered /\ Filtered' = filtered
    BY <2>1, <2>2 DEF Filtered
  <2> HIDE DEF filtered
  <2>5. ASSUME ~walk.left, NEW n \in walk.wanted \cap kept[t]
        PROVE  /\ n \in walk.matching
               /\ n \notin walk'.seen => walk'.cursor # Nil /\ walk'.cursor =< Place(n, filtered)
    <3>1. /\ n \in walk.matching
          /\ n \notin walk.seen => walk.cursor # Nil /\ walk.cursor =< Place(n, filtered)
      BY <2>1, <2>4, <2>5 DEF RecordsAhead
    <3>2. n \in filtered
      BY <3>1 DEF filtered
    <3>3. ASSUME n \notin walk'.seen
          PROVE  walk'.cursor = walk.cursor + limit /\ walk.cursor + limit =< Place(n, filtered)
      <4>1. n \notin walk.seen /\ n \notin Page(filtered, walk.cursor, limit)
        BY <2>2, <3>3
      <4>2. walk.cursor =< Place(n, filtered) /\ walk.cursor \in Nat
        BY <2>1, <3>1, <4>1
      <4>3. /\ NextCursor(filtered, walk.cursor, limit) = walk.cursor + limit
            /\ walk.cursor + limit =< Place(n, filtered)
        BY <1>1, <2>3, <3>2, <4>1, <4>2, PageTakes
      <4> QED
        BY <2>2, <4>3
    <3>4. walk.cursor + limit # Nil
      BY <1>1, <2>1, Constants
    <3> QED
      BY <3>1, <3>3, <3>4
  <2> QED
    BY <2>1, <2>2, <2>4, <2>5 DEF RecordsAhead, Place, Newer
<1>3. ASSUME NEW matching \in SUBSET kept[t], ReadFirst(t, matching, limit)
      PROVE  RecordsAhead'
  <2> DEFINE filtered == kept[t] \cap matching
  <2>1. /\ walk'.tab = t /\ walk'.wanted = filtered /\ walk'.matching = matching
        /\ walk'.seen = Page(filtered, 0, limit)
        /\ walk'.cursor = NextCursor(filtered, 0, limit)
        /\ UNCHANGED <<pushed, kept>>
    BY <1>3 DEF ReadFirst
  <2>2. IsFiniteSet(filtered) /\ filtered \subseteq Nat /\ filtered \subseteq 1..pushed
    BY KeptFinite DEF LogType
  <2>3. Filtered' = filtered
    BY <2>1 DEF Filtered
  <2>4. filtered \subseteq matching
    OBVIOUS
  <2> HIDE DEF filtered
  <2>5. ASSUME NEW n \in filtered, n \notin walk'.seen
        PROVE  walk'.cursor # Nil /\ walk'.cursor =< Place(n, filtered)
    <3>1. Place(n, filtered) \in Nat
      BY <2>2, PlaceBounds
    <3>2. 0 =< Place(n, filtered)
      BY <3>1
    <3>3. n \notin Page(filtered, 0, limit)
      BY <2>1, <2>5
    <3>4. NextCursor(filtered, 0, limit) = 0 + limit /\ 0 + limit =< Place(n, filtered)
      BY <1>1, <2>2, <3>2, <3>3, PageTakes
    <3> QED
      BY <1>1, <2>1, <3>4, Constants
  <2> QED
    BY <2>1, <2>2, <2>3, <2>4, <2>5 DEF RecordsAhead, Place, Newer
<1> QED
  BY <1>2, <1>3

\* every step leaves what an agent has yet to see ahead of its cursor
LEMMA AheadStep ==
    ASSUME TypeOK, RecordsAhead, [Next]_vars
    PROVE  RecordsAhead'
<1> USE TypeParts
<1>1. CASE UNCHANGED logVars
  <2>1. Filtered' = Filtered
    BY <1>1 DEF logVars, Filtered
  <2> QED
    BY <1>1, <2>1 DEF logVars, RecordsAhead, Place, Newer
<1>2. CASE UNCHANGED <<pushed, walk>> /\ \A t \in Tabs : kept'[t] \in {kept[t], {}}
  <2>1. ASSUME walk # Nil PROVE kept'[walk.tab] \in {kept[walk.tab], {}}
    BY <1>2, <2>1 DEF LogType, Walk
  <2>2. CASE walk # Nil /\ kept'[walk.tab] = kept[walk.tab]
    <3>1. Filtered' = Filtered
      BY <1>2, <2>2 DEF Filtered
    <3> QED
      BY <1>2, <2>2, <3>1 DEF RecordsAhead, Place, Newer
  <2>3. CASE walk = Nil \/ kept'[walk.tab] = {}
    BY <1>2, <2>3 DEF RecordsAhead
  <2> QED
    BY <2>1, <2>2, <2>3
<1> QED
  BY <1>1, <1>2, LogSteps, PushKeepsAhead, RetypeKeepsAhead, ReadKeepsAhead

(* An agent that follows the cursors of a tab's records to the end has     *)
(* seen each record that was there at the start and is still kept, however *)
(* many came in between and whatever the limits were.                      *)
THEOREM RecordsReached == Spec => []RecordsCovered
<1>1. Init => TypeOK /\ RecordsAhead
  BY InitTyped DEF Init, LogInit, RecordsAhead
<1>2. TypeOK /\ RecordsAhead /\ [Next]_vars => RecordsAhead'
  BY AheadStep
<1>3. RecordsAhead => RecordsCovered
  BY DEF RecordsAhead, RecordsCovered
<1> QED
  BY <1>1, <1>2, <1>3, ControllerTypeCorrect, PTL DEF Spec

-----------------------------------------------------------------------------
(* What a call keeps from its beginning to its end                         *)

Onward(n, old) ==
    /\ n \in Call
    /\ n.session = old.session /\ n.request = old.request /\ n.changed = old.changed
    /\ n.graded = old.graded

\* c is the call that makes this step, or that a reply reaches
Steps(c) ==
    /\ c \in Active /\ Moves(c) /\ UNCHANGED page
    /\ c \in Active' => Onward(calls'[c], calls[c])

\* going to another step is a step of that call alone
LEMMA GoesSteps ==
    ASSUME TypeOK, NEW c \in Active, NEW step \in Step, NEW on \in Tabs \cup {Nil},
           Goes(c, step, on), UNCHANGED page
    PROVE  Steps(c)
  BY TypeParts, GoesEffect DEF Steps, Onward, Same

\* so is the end of an action
LEMMA OverSteps ==
    ASSUME TypeOK, NEW c \in Active, NEW ok \in BOOLEAN, NEW tabs \in SUBSET Tabs,
           OverWith(c, ok, tabs), UNCHANGED page
    PROVE  Steps(c)
  BY TypeParts, OverEffect DEF Steps, Onward, Same, GoesOn, Answered

\* so is the end of an action that changes no tabs
LEMMA OverSameSteps ==
    ASSUME TypeOK, NEW c \in Active, NEW ok \in BOOLEAN, Over(c, ok), UNCHANGED page
    PROVE  Steps(c)
<1>1. calls[c].controlled \in SUBSET Tabs
  BY TypeParts, ActiveCall
<1> QED
  BY <1>1, OverSteps DEF Over

(* Tabs that Goes names.                                                   *)
LEMMA OnTyped ==
    ASSUME TypeOK, NEW c \in Active
    PROVE  calls[c].on \in Tabs \cup {Nil} /\ groupIds[Key(c)] \in Tabs \cup {Nil}
  BY TypeParts, ActiveCall, KeyTyped DEF GroupType

\* every step of a call is its own, or its beginning
LEMMA CallStepSteps ==
    ASSUME TypeOK, NEW c \in Calls, CallStep(c)
    PROVE  Steps(c) \/ \E s \in Sessions, r \in Requests : Begin(c, s, r)
<1> USE DEF pageVars
<1>1. CASE EnsureDebugger(c)
  <2>1. c \in Active /\ UNCHANGED page /\ (Goes(c, "act", Nil) \/ Goes(c, "attach", Nil))
    BY <1>1 DEF EnsureDebugger, At, Goto
  <2> QED
    BY <2>1, GoesSteps DEF Step
<1>2. CASE Script(c)
  BY <1>2, GoesSteps DEF Script, At, Step, Goto
<1>3. CASE \/ Unbatchable(c) \/ Act(c) \/ CreateNone(c) \/ ReadLog(c)
           \/ ReadPage(c) \/ Query(c) \/ Rename(c)
  <2>1. c \in Active /\ UNCHANGED page /\ \E ok \in BOOLEAN : Over(c, ok)
    BY <1>3 DEF Unbatchable, Act, CreateNone, ReadLog, ReadPage, Query, Rename, At
  <2> QED
    BY <2>1, OverSameSteps
<1>4. ASSUME NEW t \in Tabs, Create(c, t)
      PROVE  Steps(c)
  <2> DEFINE n == [calls[c] EXCEPT !.step = "created", !.on = t, !.controlled = @ \cup {t},
                                  !.made = @ \cup {t}]
  <2>1. c \in Active /\ calls[c] \in Call
    BY <1>4, TypeParts, ActiveCall DEF Create, At
  <2>2. Onward(n, calls[c])
    BY <2>1 DEF Call, Step, Onward
  <2>3. calls' = [calls EXCEPT ![c] = n]
    BY <1>4 DEF Create
  <2> HIDE DEF n
  <2> QED
    BY <1>4, <2>1, <2>2, <2>3, TypeParts DEF CallType, Moves, Create, Steps
<1>5. CASE Group(c)
  <2>1. /\ c \in Active /\ UNCHANGED page
        /\ \/ Goes(c, "group", groupIds[Key(c)]) \/ Goes(c, "title", calls[c].on)
           \/ Goes(c, "query", Nil)
    BY <1>5 DEF Group, At, Goto
  <2> QED
    BY <2>1, OnTyped, GoesSteps DEF Step
<1>6. CASE CloseTab(c)
  <2>1. /\ c \in Active /\ UNCHANGED page
        /\ OverWith(c, TRUE, calls[c].controlled \ {Now(c).tab})
    BY <1>6 DEF CloseTab, At
  <2>2. calls[c].controlled \ {Now(c).tab} \in SUBSET Tabs
    BY <2>1, TypeParts, ActiveCall
  <2> QED
    BY <2>1, <2>2, OverSteps
<1>7. ASSUME NEW name \in Labels, SaveLabel(c, name)
      PROVE  Steps(c)
  <2> DEFINE n == [calls[c] EXCEPT !.step = "label", !.label = name]
  <2>1. c \in Active /\ calls[c] \in Call
    BY <1>7, TypeParts, ActiveCall DEF SaveLabel, At
  <2>2. Onward(n, calls[c])
    BY <2>1 DEF Call, Step, Onward
  <2>3. calls' = [calls EXCEPT ![c] = n]
    BY <1>7 DEF SaveLabel
  <2> HIDE DEF n
  <2> QED
    BY <1>7, <2>1, <2>2, <2>3, TypeParts DEF CallType, Moves, SaveLabel, Steps
<1>8. CASE Title(c)
  BY <1>8, GoesSteps DEF Title, At, Step, Goto
<1> QED
  BY <1>1, <1>2, <1>3, <1>4, <1>5, <1>6, <1>7, <1>8 DEF CallStep

\* a reply moves the call that it is for
LEMMA ReplySteps ==
    ASSUME TypeOK, NEW t \in Tabs, Reply(t) \/ Conflict(t)
    PROVE  Steps(Head(wire[t]).to)
<1> DEFINE c == Head(wire[t]).to
<1>1. c \in Active /\ UNCHANGED page
  BY DEF Reply, Conflict, pageVars
<1>2. \A step \in DOMAIN NextDomain : NextDomain[step] \in Step
  BY DEF NextDomain, Step
<1>3. \/ \E step \in Step : Goes(c, step, Nil)
      \/ Over(c, FALSE)
  BY <1>2 DEF Reply, Conflict, Step, Goto
<1> HIDE DEF c
<1>4. Steps(c)
  BY <1>1, <1>3, GoesSteps, OverSameSteps
<1> QED
  BY <1>4 DEF c

(* A call under way after a step was under way before it, with the same    *)
(* session and request, or has just begun; and a page that has changed has *)
(* changed for all of them.                                                *)
LEMMA CallCourse ==
    ASSUME TypeOK, [Next]_vars, NEW d \in Active'
    PROVE  \/ /\ d \in Active
              /\ calls'[d].session = calls[d].session /\ calls'[d].request = calls[d].request
              /\ calls'[d].graded = calls[d].graded
              /\ ~calls'[d].changed => ~calls[d].changed /\ UNCHANGED page
           \/ d \notin Active /\ \E s \in Sessions, r \in Requests : Begin(d, s, r)
<1> DEFINE Goal ==
             \/ /\ d \in Active
                /\ calls'[d].session = calls[d].session /\ calls'[d].request = calls[d].request
                /\ calls'[d].graded = calls[d].graded
                /\ ~calls'[d].changed => ~calls[d].changed /\ UNCHANGED page
             \/ d \notin Active /\ \E s \in Sessions, r \in Requests : Begin(d, s, r)
<1> USE DEF pageVars
<1>0. d \in Calls
  BY DEF Active
<1>1. ASSUME NEW c, Steps(c)
      PROVE  Goal
  <2>1. c \in Calls /\ UNCHANGED page
    BY <1>1 DEF Steps, Active
  <2>2. CASE d = c
    BY <1>1, <2>2 DEF Steps, Onward
  <2>3. CASE d # c
    <3>1. calls'[d] = calls[d] /\ d \in Active
      BY <1>0, <1>1, <2>1, <2>3, TypeParts, OthersStay DEF Steps
    <3> QED
      BY <2>1, <3>1
  <2> QED
    BY <2>2, <2>3
<1>2. ASSUME NEW c \in Calls, NEW s \in Sessions, NEW r \in Requests, Begin(c, s, r)
      PROVE  Goal
  <2>1. CASE d = c
    BY <1>2, <2>1 DEF Begin
  <2>2. CASE d # c
    <3>1. calls'[d] = calls[d] /\ UNCHANGED page
      BY <1>0, <1>2, <2>2, TypeParts DEF Begin, CallType
    <3>2. d \in Active
      BY <1>0, <3>1 DEF Active
    <3> QED
      BY <3>1, <3>2
  <2> QED
    BY <2>1, <2>2
<1>3. CASE UNCHANGED <<calls, page>>
  BY <1>3 DEF Active
<1>4. ASSUME NEW t \in Tabs, NEW words \in Targets, PageChanges(t, words)
      PROVE  Goal
  <2>1. d \in Active
    BY <1>0, <1>4 DEF PageChanges, Active
  <2>2. calls'[d] = [calls[d] EXCEPT !.changed = TRUE] /\ calls[d] \in Call
    BY <1>0, <1>4, <2>1, TypeParts, ActiveCall DEF PageChanges
  <2> QED
    BY <2>1, <2>2 DEF Call
<1>5. ~Restart
  <2>1. Restart => Active' = {}
    BY DEF Restart, Active, Step
  <2> QED
    BY <2>1
<1>6. CASE \E c \in Calls : CallStep(c)
  BY <1>1, <1>2, <1>6, CallStepSteps
<1>7. CASE \E t \in Tabs : WireStep(t)
  <2>1. PICK t \in Tabs : WireStep(t)
    BY <1>7
  <2>2. CASE Reply(t) \/ Conflict(t)
    BY <1>1, <2>2, ReplySteps
  <2>3. CASE Detached(t) \/ Removed(t)
    BY <1>3, <2>3 DEF Detached, Removed, callVars
  <2> QED
    BY <2>1, <2>2, <2>3 DEF WireStep
<1>8. CASE \E t \in Tabs : OutsideStep(t)
  <2>1. CASE \E t \in Tabs, words \in Targets : PageChanges(t, words)
    BY <1>4, <2>1
  <2>2. CASE ~\E t \in Tabs, words \in Targets : PageChanges(t, words)
    <3>1. UNCHANGED <<calls, page>>
      BY <1>8, <2>2 DEF OutsideStep, Close, callVars
    <3> QED
      BY <1>3, <3>1
  <2> QED
    BY <2>1, <2>2
<1>9. CASE ReleaseStep
  <2>1. UNCHANGED <<calls, page>>
    BY <1>9 DEF ReleaseStep, ReleaseAll, ReleaseSession, DetachListed, callVars
  <2> QED
    BY <1>3, <2>1
<1>10. CASE UNCHANGED vars
  BY <1>3, <1>10 DEF vars, callVars
<1> QED
  BY <1>5, <1>6, <1>7, <1>8, <1>9, <1>10 DEF Next

-----------------------------------------------------------------------------
(* Critical actions: a batch that is under way was graded as a whole, and  *)
(* what its references named and was not critical is not until a page      *)
(* changes.                                                                *)

\* the tools graded by the words of their target
ByWords == {"computer", "form_input"}

Graded ==
    \A c \in Active :
      calls[c].request.batch /\ ~calls[c].changed
        => \A k \in DOMAIN calls[c].request.actions :
             LET action == calls[c].request.actions[k]
             IN action.tool \in ByWords /\ action.byRef /\ action.tab \in calls[c].graded
                  => page[action.tab] # "critical"

(* The highest of some risks is critical if one of them is.                *)
LEMMA HighestCritical ==
    ASSUME NEW risks \in SUBSET Risk, "critical" \in risks
    PROVE  Highest(risks) = "critical"
<1>1. /\ riskRank("read_only") = 0 /\ riskRank("routine") = 1
      /\ riskRank("protected") = 2 /\ riskRank("critical") = 3
  BY DEF riskRank
<1>2. \A other \in risks : riskRank(other) =< riskRank("critical")
  <2> SUFFICES ASSUME NEW other \in risks PROVE riskRank(other) =< riskRank("critical")
    OBVIOUS
  <2>1. other \in {"read_only", "routine", "protected", "critical"}
    BY DEF Risk
  <2> QED
    BY <1>1, <2>1
<1>3. Highest(risks) \in risks /\ riskRank("critical") =< riskRank(Highest(risks))
  BY <1>2 DEF Highest
<1>4. Highest(risks) \in {"read_only", "routine", "protected", "critical"}
  BY <1>3 DEF Risk
<1>5. /\ Highest(risks) # "read_only" /\ Highest(risks) # "routine"
      /\ Highest(risks) # "protected"
  <2>1. ASSUME NEW risk, riskRank(risk) \in 0..2 PROVE Highest(risks) # risk
    BY <1>1, <1>3, <2>1
  <2> QED
    BY <1>1, <2>1
<1> QED
  BY <1>4, <1>5

(* What describePageRef returns are words, those of the element if there   *)
(* is one.                                                                 *)
LEMMA DescribedWords ==
    ASSUME PageType, NEW t \in Tabs
    PROVE  described[t] \in Words /\ (t \in stamped => described[t] = page[t])
  BY DEF PageType, described, Words

\* an action is graded, and as critical when its target reads so
LEMMA ActionRisk ==
    ASSUME NEW describe, \A t \in Tabs : describe[t] \in Words, NEW action \in Action,
           IF action.tool \in Untargeted THEN ~action.byRef ELSE action.tab \in Tabs
    PROVE  /\ classifyAction(action, describe) \in Risk
           /\ action.tool \in ByWords /\ action.byRef /\ describe[action.tab] = "critical"
                => classifyAction(action, describe) = "critical"
<1>1. action.tool \notin Untargeted => describe[action.tab] \in Words
  OBVIOUS
<1>2. CASE action.tool \in Untargeted
  BY <1>2 DEF classifyAction, Untargeted, Risk, ByWords, ReadOnly, Protected, Action, Tools,
              Scripts, Reads, Others, Logs
<1>3. CASE action.tool \notin Untargeted
  BY <1>1, <1>3 DEF classifyAction, Untargeted, Risk, ByWords, ReadOnly, Protected, Words
<1> QED
  BY <1>2, <1>3

\* a batch that was let through names no critical element, at any depth
LEMMA AuthorizedGraded ==
    ASSUME PageType, NEW r \in Requests, NEW tabs, authorized(r, tabs, described), r.batch,
           NEW k \in DOMAIN r.actions, r.actions[k].tool \in ByWords, r.actions[k].byRef,
           r.actions[k].tab \in stamped
    PROVE  page[r.actions[k].tab] # "critical"
<1> DEFINE risks == {"read_only"} \cup
                    {classifyAction(r.actions[j], described) : j \in DOMAIN r.actions}
<1>1. r.actions \in Seq(Action)
  BY Constants
<1>2. \A t \in Tabs : described[t] \in Words
  BY DescribedWords
<1>3. ASSUME NEW j \in DOMAIN r.actions
      PROVE  classifyAction(r.actions[j], described) \in Risk
  BY <1>1, <1>2, Constants, ActionRisk
<1>4. risks \in SUBSET Risk
  BY <1>3 DEF Risk
<1>5. Highest(risks) # "critical"
  BY DEF authorized, classifyRequest
<1>6. "critical" \notin risks
  BY <1>4, <1>5, HighestCritical
<1>7. classifyAction(r.actions[k], described) # "critical"
  BY <1>6
<1>8. described[r.actions[k].tab] # "critical"
  BY <1>1, <1>2, <1>7, Constants, ActionRisk
<1>9. r.actions[k].tab \in Tabs
  BY DEF PageType
<1> QED
  BY <1>8, <1>9, DescribedWords

\* what was graded stays graded until a page changes
LEMMA GradedStep ==
    ASSUME TypeOK, Graded, [Next]_vars
    PROVE  Graded'
<1> SUFFICES ASSUME NEW c \in Active', calls'[c].request.batch, ~calls'[c].changed,
                    NEW k \in DOMAIN calls'[c].request.actions,
                    calls'[c].request.actions[k].tool \in ByWords,
                    calls'[c].request.actions[k].byRef,
                    calls'[c].request.actions[k].tab \in calls'[c].graded
             PROVE  page'[calls'[c].request.actions[k].tab] # "critical"
  BY DEF Graded
<1>1. CASE /\ c \in Active /\ calls'[c].request = calls[c].request
           /\ calls'[c].graded = calls[c].graded /\ ~calls[c].changed /\ UNCHANGED page
  BY <1>1 DEF Graded
<1>2. ASSUME NEW s \in Sessions, NEW r \in Requests, Begin(c, s, r)
      PROVE  page'[calls'[c].request.actions[k].tab] # "critical"
  <2>1. authorized(r, controlled[s], described) /\ UNCHANGED page
    BY <1>2 DEF Begin, pageVars
  <2>2. c \in Calls
    BY DEF Active
  <2>3. calls'[c].request = r /\ calls'[c].graded \subseteq stamped
    BY <1>2, <2>2, TypeParts DEF Begin, CallType
  <2> QED
    BY <2>1, <2>3, TypeParts, AuthorizedGraded
<1> QED
  BY <1>1, <1>2, CallCourse

(* A batch never acts on an element that reads as critical, at whatever    *)
(* depth, if its reference named one when the batch was graded and no page *)
(* has changed since.  A reference that a reading gives out later in the   *)
(* batch, and a drag's second one, are not graded, here as in the code.    *)
THEOREM CriticalActionsAlone == Spec => []CriticalAlone
<1>1. Init => TypeOK /\ Graded
  BY InitTyped DEF Init, Graded, Active
<1>2. TypeOK /\ Graded /\ [Next]_vars => Graded'
  BY GradedStep
<1>3. TypeOK /\ Graded => CriticalAlone
  BY TypeParts, ActiveCall DEF Graded, CriticalAlone, Now, ByWords
<1> QED
  BY <1>1, <1>2, <1>3, ControllerTypeCorrect, PTL DEF Spec

-----------------------------------------------------------------------------
(* Created tabs: a batch has no JavaScript in it, so nothing fails it, and *)
(* in a single call that has made a tab only tabs.query can.               *)

MakingSteps == {"created", "group", "title", "query"}

HarmlessCall(c) ==
    IF calls[c].request.batch
    THEN \A k \in DOMAIN calls[c].request.actions :
           calls[c].request.actions[k].tool # "javascript_tool"
    ELSE calls[c].made # {} => calls[c].step \in MakingSteps

Harmless == (\A c \in Active : HarmlessCall(c)) /\ CreatedTabsKept

(* What a step of one call must see to.                                    *)
LEMMA HarmlessMove ==
    ASSUME TypeOK, Harmless, NEW c \in Calls, Moves(c),
           c \in Active' => HarmlessCall(c)',
           calls'[c] # Nil /\ calls'[c].step = "answered"
             => calls'[c].lost = {} \/ calls'[c].query
    PROVE  Harmless'
<1>1. /\ \A d \in Calls \ {c} : calls'[d] = calls[d]
      /\ \A d \in Calls \ {c} : d \in Active' <=> d \in Active
      /\ Active' \subseteq Calls
  BY TypeParts, OthersStay
<1>2. ASSUME NEW d \in Active' PROVE HarmlessCall(d)'
  <2>1. CASE d = c
    BY <1>2, <2>1
  <2>2. CASE d # c
    <3>1. calls'[d] = calls[d] /\ d \in Active
      BY <1>1, <1>2, <2>2
    <3> QED
      BY <3>1 DEF Harmless, HarmlessCall
  <2> QED
    BY <2>1, <2>2
<1>3. CreatedTabsKept'
  BY <1>1 DEF Harmless, CreatedTabsKept
<1> QED
  BY <1>2, <1>3 DEF Harmless

\* a call that goes on stays harmless
LEMMA GoesHarmless ==
    ASSUME TypeOK, Harmless, NEW c \in Active, NEW step \in Step, NEW on \in Tabs \cup {Nil},
           Goes(c, step, on), step \in MakingSteps \/ calls[c].step \notin MakingSteps
    PROVE  Harmless'
<1>1. /\ c \in Calls /\ Moves(c) /\ Same(calls'[c], calls[c]) /\ calls'[c].step = step
  BY TypeParts, ActiveCall, GoesEffect
<1>2. HarmlessCall(c)'
  BY <1>1 DEF Harmless, HarmlessCall, Same
<1>3. calls'[c].step # "answered"
  BY <1>1 DEF Step
<1> QED
  BY <1>1, <1>2, <1>3, HarmlessMove

\* so does one whose action ends well, or at the query
LEMMA OverHarmless ==
    ASSUME TypeOK, Harmless, NEW c \in Active, NEW ok \in BOOLEAN, NEW tabs \in SUBSET Tabs,
           OverWith(c, ok, tabs),
           \/ ok \/ calls[c].request.batch
           \/ calls[c].step \notin MakingSteps \/ calls[c].step = "query"
    PROVE  Harmless'
<1>1. /\ c \in Calls /\ Moves(c) /\ calls[c].request \in Requests
      /\ calls[c].at \in DOMAIN calls[c].request.actions
      /\ calls[c].request.actions \in Seq(Action)
  BY TypeParts, ActiveCall, OverEffect, Constants
<1>2. CASE GoesOn(c, tabs)
  <2>1. calls[c].request.batch
    <3>1. Len(calls[c].request.actions) # 1
      BY <1>1, <1>2 DEF GoesOn
    <3> QED
      BY <1>1, <3>1, Constants
  <2>2. HarmlessCall(c)'
    BY <1>2, <2>1 DEF Harmless, HarmlessCall, GoesOn, Same
  <2>3. calls'[c].step # "answered"
    BY <1>2 DEF GoesOn
  <2> QED
    BY <1>1, <2>2, <2>3, HarmlessMove
<1>3. CASE Answered(c, ok)
  <2>1. calls'[c].lost = {} \/ calls'[c].query
    BY <1>1, <1>3 DEF Answered, Harmless, HarmlessCall, Now
  <2> QED
    BY <1>1, <1>3, <2>1, HarmlessMove DEF Answered
<1> QED
  BY <1>2, <1>3, TypeParts, OverEffect

\* so does one whose action ends without a change of tabs
LEMMA OverSameHarmless ==
    ASSUME TypeOK, Harmless, NEW c \in Active, NEW ok \in BOOLEAN, Over(c, ok),
           \/ ok \/ calls[c].request.batch
           \/ calls[c].step \notin MakingSteps \/ calls[c].step = "query"
    PROVE  Harmless'
<1>1. calls[c].controlled \in SUBSET Tabs
  BY TypeParts, ActiveCall
<1> QED
  BY <1>1, OverHarmless DEF Over

\* no step of a call but the query fails what has made a tab
LEMMA CallStepHarmless ==
    ASSUME TypeOK, Harmless, NEW c \in Calls, CallStep(c)
    PROVE  Harmless'
<1> USE DEF MakingSteps
<1>1. ASSUME NEW s \in Sessions, NEW r \in Requests, Begin(c, s, r)
      PROVE  Harmless'
  <2> DEFINE n == [session |-> s, request |-> r, at |-> 1, step |-> "begin", on |-> Nil,
                   label |-> label[s], controlled |-> controlled[s], made |-> {},
                   graded |-> IF r.batch THEN stamped ELSE {}, changed |-> FALSE]
  <2>1. n.request = r /\ n.made = {} /\ n.step = "begin"
    OBVIOUS
  <2>2. calls' = [calls EXCEPT ![c] = n] /\ validRequest(r, controlled[s])
    BY <1>1 DEF Begin, authorized
  <2> HIDE DEF n
  <2>3. calls'[c] = n
    BY <2>2, TypeParts DEF CallType
  <2>4. HarmlessCall(c)'
    BY <2>1, <2>2, <2>3 DEF HarmlessCall, validRequest
  <2>5. \A d \in Calls \ {c} : calls'[d] = calls[d]
    BY <2>2, TypeParts DEF CallType
  <2>6. ASSUME NEW d \in Active' PROVE HarmlessCall(d)'
    <3>1. CASE d = c
      BY <2>4, <3>1
    <3>2. CASE d # c
      <4>1. d \in Active /\ calls'[d] = calls[d]
        BY <2>5, <2>6, <3>2 DEF Active
      <4> QED
        BY <4>1 DEF Harmless, HarmlessCall
    <3> QED
      BY <3>1, <3>2
  <2>7. CreatedTabsKept'
    BY <2>1, <2>3, <2>5 DEF Harmless, CreatedTabsKept
  <2> QED
    BY <2>6, <2>7 DEF Harmless
<1>2. CASE EnsureDebugger(c)
  <2>1. c \in Active /\ calls[c].step = "begin" /\ (Goes(c, "act", Nil) \/ Goes(c, "attach", Nil))
    BY <1>2 DEF EnsureDebugger, At, Goto
  <2> QED
    BY <2>1, GoesHarmless DEF Step
<1>3. CASE Script(c)
  BY <1>3, GoesHarmless DEF Script, At, Step, Goto
<1>4. CASE Unbatchable(c) \/ Act(c) \/ CreateNone(c) \/ ReadPage(c)
  <2>1. c \in Active /\ calls[c].step \notin MakingSteps /\ \E ok \in BOOLEAN : Over(c, ok)
    BY <1>4 DEF Unbatchable, Act, CreateNone, ReadPage, At
  <2> QED
    BY <2>1, OverSameHarmless
<1>5. CASE ReadLog(c) \/ Query(c) \/ Rename(c)
  BY <1>5, OverSameHarmless DEF ReadLog, Query, Rename, At
<1>6. ASSUME NEW t \in Tabs, Create(c, t)
      PROVE  Harmless'
  <2> DEFINE n == [calls[c] EXCEPT !.step = "created", !.on = t, !.controlled = @ \cup {t},
                                  !.made = @ \cup {t}]
  <2>1. c \in Active /\ calls[c] \in Call
    BY <1>6, TypeParts, ActiveCall DEF Create, At
  <2>2. n.step = "created" /\ n.request = calls[c].request
    BY <2>1 DEF Call
  <2>3. calls' = [calls EXCEPT ![c] = n]
    BY <1>6 DEF Create
  <2> HIDE DEF n
  <2>4. calls'[c] = n /\ Moves(c)
    BY <1>6, <2>3, TypeParts DEF CallType, Moves, Create
  <2>5. HarmlessCall(c)'
    BY <2>1, <2>2, <2>4 DEF Harmless, HarmlessCall
  <2> QED
    BY <2>2, <2>4, <2>5, HarmlessMove
<1>7. CASE Group(c)
  <2>1. /\ c \in Active
        /\ \/ Goes(c, "group", groupIds[Key(c)]) \/ Goes(c, "title", calls[c].on)
           \/ Goes(c, "query", Nil)
    BY <1>7 DEF Group, At, Goto
  <2> QED
    BY <2>1, OnTyped, GoesHarmless DEF Step
<1>8. CASE CloseTab(c)
  <2>1. c \in Active /\ OverWith(c, TRUE, calls[c].controlled \ {Now(c).tab})
    BY <1>8 DEF CloseTab, At
  <2>2. calls[c].controlled \ {Now(c).tab} \in SUBSET Tabs
    BY <2>1, TypeParts, ActiveCall
  <2> QED
    BY <2>1, <2>2, OverHarmless
<1>9. ASSUME NEW name \in Labels, SaveLabel(c, name)
      PROVE  Harmless'
  <2> DEFINE n == [calls[c] EXCEPT !.step = "label", !.label = name]
  <2>1. c \in Active /\ calls[c] \in Call /\ calls[c].step = "begin" /\ ~calls[c].request.batch
    BY <1>9, TypeParts, ActiveCall DEF SaveLabel, At
  <2>2. n.step = "label" /\ n.request = calls[c].request /\ n.made = calls[c].made
    BY <2>1 DEF Call
  <2>3. calls' = [calls EXCEPT ![c] = n]
    BY <1>9 DEF SaveLabel
  <2> HIDE DEF n
  <2>4. calls'[c] = n /\ Moves(c)
    BY <1>9, <2>3, TypeParts DEF CallType, Moves, SaveLabel
  <2>5. HarmlessCall(c)'
    BY <2>1, <2>2, <2>4 DEF Harmless, HarmlessCall
  <2> QED
    BY <2>2, <2>4, <2>5, HarmlessMove
<1>10. CASE Title(c)
  BY <1>10, GoesHarmless DEF Title, At, Step, Goto
<1> QED
  BY <1>1, <1>2, <1>3, <1>4, <1>5, <1>6, <1>7, <1>8, <1>9, <1>10 DEF CallStep

\* no reply does either
LEMMA ReplyHarmless ==
    ASSUME TypeOK, Harmless, NEW t \in Tabs, Reply(t) \/ Conflict(t)
    PROVE  Harmless'
<1> DEFINE c == Head(wire[t]).to
<1>1. NextDomain \in [{"attach", "Runtime", "Network"} -> Step]
  BY DEF NextDomain, Step
<1>2. /\ c \in Active /\ calls[c].step \notin MakingSteps
      /\ (\E step \in Step : Goes(c, step, Nil)) \/ Over(c, FALSE)
  <2>1. CASE Reply(t)
    BY <1>1, <2>1 DEF Reply, Step, MakingSteps, Goto
  <2>2. CASE Conflict(t)
    BY <2>2 DEF Conflict, Waiting, MakingSteps
  <2> QED
    BY <2>1, <2>2
<1> HIDE DEF c
<1> QED
  BY <1>2, GoesHarmless, OverSameHarmless

(* What the steps do that no call makes.                                   *)
LEMMA NoCallSteps ==
    ASSUME TypeOK, [Next]_vars,
           ~\E c \in Calls : CallStep(c), ~\E t \in Tabs : Reply(t) \/ Conflict(t)
    PROVE  \/ UNCHANGED calls
           \/ \E t \in Tabs, words \in Targets : PageChanges(t, words)
           \/ Restart
<1>1. CASE \E t \in Tabs : Detached(t) \/ Removed(t)
  BY <1>1 DEF Detached, Removed, callVars
<1>2. CASE \E t \in Tabs : OutsideStep(t)
  BY <1>2 DEF OutsideStep, Close, callVars
<1>3. CASE ReleaseStep
  BY <1>3 DEF ReleaseStep, ReleaseAll, ReleaseSession, DetachListed, callVars
<1>4. CASE UNCHANGED vars
  BY <1>4 DEF vars, callVars
<1> QED
  BY <1>1, <1>2, <1>3, <1>4 DEF Next, WireStep

(* What moves a call.                                                      *)
LEMMA Course ==
    ASSUME TypeOK, [Next]_vars, NEW d \in Calls
    PROVE  \/ calls'[d] = calls[d]
           \/ CallStep(d)
           \/ \E t \in Tabs : (Reply(t) \/ Conflict(t)) /\ Head(wire[t]).to = d
           \/ \E t \in Tabs, words \in Targets : PageChanges(t, words)
           \/ Restart
<1> USE TypeParts
<1>1. ASSUME NEW c \in Calls, CallStep(c), c # d
      PROVE  calls'[d] = calls[d]
  <2>1. CASE Steps(c)
    BY <1>1, <2>1, OthersStay DEF Steps
  <2>2. CASE \E s \in Sessions, r \in Requests : Begin(c, s, r)
    BY <1>1, <2>2 DEF Begin, CallType
  <2> QED
    BY <1>1, <2>1, <2>2, CallStepSteps
<1>2. ASSUME NEW t \in Tabs, Reply(t) \/ Conflict(t), Head(wire[t]).to # d
      PROVE  calls'[d] = calls[d]
  <2>1. Steps(Head(wire[t]).to)
    BY <1>2, ReplySteps
  <2>2. Head(wire[t]).to \in Calls
    BY <2>1 DEF Steps, Active
  <2> QED
    BY <1>2, <2>1, <2>2, OthersStay DEF Steps
<1> QED
  BY <1>1, <1>2, NoCallSteps

\* every step leaves the calls that made a tab harmless
LEMMA HarmlessStep ==
    ASSUME TypeOK, Harmless, [Next]_vars
    PROVE  Harmless'
<1>1. CASE UNCHANGED calls
  BY <1>1 DEF Harmless, HarmlessCall, CreatedTabsKept, Active
<1>2. ASSUME NEW t \in Tabs, NEW words \in Targets, PageChanges(t, words)
      PROVE  Harmless'
  <2>1. ASSUME NEW c \in Calls
        PROVE  /\ c \in Active' => c \in Active
               /\ c \in Active => /\ calls'[c].request = calls[c].request
                                 /\ calls'[c].made = calls[c].made
                                 /\ calls'[c].step = calls[c].step
               /\ c \notin Active => calls'[c] = calls[c]
    <3>1. CASE c \in Active
      <4>1. calls'[c] = [calls[c] EXCEPT !.changed = TRUE] /\ calls[c] \in Call
        BY <1>2, <3>1, TypeParts, ActiveCall DEF PageChanges
      <4> QED
        BY <3>1, <4>1 DEF Call
    <3>2. CASE c \notin Active
      BY <1>2, <3>2 DEF PageChanges, Active
    <3> QED
      BY <3>1, <3>2
  <2>2. Active' \subseteq Calls
    BY DEF Active
  <2>3. \A c \in Active' : HarmlessCall(c)'
    BY <2>1, <2>2 DEF Harmless, HarmlessCall
  <2>4. \A c \in Active : calls[c].step # "answered"
    BY DEF Active, Step
  <2>5. CreatedTabsKept'
    BY <2>1, <2>4 DEF Harmless, CreatedTabsKept
  <2> QED
    BY <2>3, <2>5 DEF Harmless
<1>3. CASE Restart
  <2>1. Active' = {}
    BY <1>3 DEF Restart, Active, Step
  <2>2. CreatedTabsKept'
    BY <1>3 DEF Restart, Harmless, CreatedTabsKept
  <2> QED
    BY <2>1, <2>2 DEF Harmless
<1> QED
  BY <1>1, <1>2, <1>3, NoCallSteps, CallStepHarmless, ReplyHarmless

(* A call that made a tab is answered with an error only if tabs.query is  *)
(* refused to it, whatever its batch has in it.                            *)
THEOREM CreatedTabsSaved == Spec => []CreatedTabsKept
<1>1. Init => TypeOK /\ Harmless
  BY InitTyped DEF Init, Harmless, HarmlessCall, CreatedTabsKept, Active
<1>2. TypeOK /\ Harmless /\ [Next]_vars => Harmless'
  BY HarmlessStep
<1>3. Harmless => CreatedTabsKept
  BY DEF Harmless
<1> QED
  BY <1>1, <1>2, <1>3, ControllerTypeCorrect, PTL DEF Spec

-----------------------------------------------------------------------------
(* What is on its way                                                      *)

(* A message sent goes to the end; the first may be gone (k = 1).          *)
LEMMA WireSent ==
    ASSUME DebuggerType, NEW t \in Tabs, NEW k \in {0, 1}, NEW queue, NEW kind, NEW to,
           \/ k = 0 /\ queue = wire[t]
           \/ k = 1 /\ wire[t] # <<>> /\ queue = Tail(wire[t]),
           Send(t, queue, kind, to)
    PROVE  /\ \A u \in Tabs \ {t} : wire'[u] = wire[u]
           /\ Len(wire[t]) \in Nat /\ Len(wire[t]) >= k
           /\ DOMAIN wire[t] = 1..Len(wire[t])
           /\ DOMAIN wire'[t] = 1..(Len(wire[t]) - k + 1)
           /\ \A i \in 1..(Len(wire[t]) - k) : wire'[t][i] = wire[t][i + k]
           /\ wire'[t][Len(wire[t]) - k + 1] = [kind |-> kind, to |-> to]
<1>1. wire[t] \in Seq(Message) /\ wire'[t] = Append(queue, [kind |-> kind, to |-> to])
  BY DEF DebuggerType, Send
<1>2. \A u \in Tabs \ {t} : wire'[u] = wire[u]
  BY DEF DebuggerType, Send
<1>3. CASE k = 0
  BY <1>1, <1>2, <1>3
<1>4. CASE k = 1
  <2>1. /\ queue \in Seq(Message) /\ Len(queue) = Len(wire[t]) - 1
        /\ \A i \in 1..Len(queue) : queue[i] = wire[t][i + 1]
    <3>1. queue = Tail(wire[t]) /\ wire[t] # <<>>
      BY <1>4
    <3> QED
      BY <1>1, <3>1, HeadTailProperties
  <2>2. Len(wire[t]) \in Nat /\ Len(wire[t]) >= 1
    BY <1>1, <1>4
  <2> QED
    BY <1>1, <1>2, <1>4, <2>1, <2>2
<1> QED
  BY <1>3, <1>4

\* taking a message moves the others of that tab up by one
LEMMA WireTaken ==
    ASSUME DebuggerType, NEW t \in Tabs, wire[t] # <<>>, Taken(t)
    PROVE  /\ \A u \in Tabs \ {t} : wire'[u] = wire[u]
           /\ Len(wire[t]) \in Nat /\ Len(wire[t]) >= 1
           /\ DOMAIN wire[t] = 1..Len(wire[t])
           /\ DOMAIN wire'[t] = 1..(Len(wire[t]) - 1)
           /\ \A i \in 1..(Len(wire[t]) - 1) : wire'[t][i] = wire[t][i + 1]
<1>1. wire[t] \in Seq(Message) /\ wire'[t] = Tail(wire[t])
  BY DEF DebuggerType, Taken
<1>2. \A u \in Tabs \ {t} : wire'[u] = wire[u]
  BY DEF DebuggerType, Taken
<1> QED
  BY <1>1, <1>2, HeadTailProperties

\* a message on its way about t
Due(t, kind) == \E i \in DOMAIN wire[t] : wire[t][i].kind = kind

(* What is due after a message was sent, or taken.                         *)
LEMMA DueSent ==
    ASSUME DebuggerType, NEW t \in Tabs, NEW kind, NEW to, NEW queue,
           queue = wire[t] \/ (wire[t] # <<>> /\ queue = Tail(wire[t])),
           Send(t, queue, kind, to), NEW u \in Tabs, NEW what, Due(u, what)'
    PROVE  Due(u, what) \/ (u = t /\ what = kind)
<1>1. PICK k \in {0, 1} : \/ k = 0 /\ queue = wire[t]
                          \/ k = 1 /\ wire[t] # <<>> /\ queue = Tail(wire[t])
  OBVIOUS
<1>2. /\ \A v \in Tabs \ {t} : wire'[v] = wire[v]
      /\ Len(wire[t]) \in Nat /\ Len(wire[t]) >= k
      /\ DOMAIN wire[t] = 1..Len(wire[t])
      /\ DOMAIN wire'[t] = 1..(Len(wire[t]) - k + 1)
      /\ \A i \in 1..(Len(wire[t]) - k) : wire'[t][i] = wire[t][i + k]
      /\ wire'[t][Len(wire[t]) - k + 1] = [kind |-> kind, to |-> to]
  BY <1>1, WireSent
<1>3. PICK i \in DOMAIN wire'[u] : wire'[u][i].kind = what
  BY DEF Due
<1>4. CASE u # t
  BY <1>2, <1>3, <1>4 DEF Due
<1>5. CASE u = t /\ i = Len(wire[t]) - k + 1
  BY <1>2, <1>3, <1>5
<1>6. CASE u = t /\ i # Len(wire[t]) - k + 1
  <2>1. i \in 1..(Len(wire[t]) - k) /\ i + k \in DOMAIN wire[t]
    BY <1>2, <1>3, <1>6
  <2> QED
    BY <1>2, <1>3, <1>6, <2>1 DEF Due
<1> QED
  BY <1>4, <1>5, <1>6

\* what is due after a message was taken was due before
LEMMA DueTaken ==
    ASSUME DebuggerType, NEW t \in Tabs, wire[t] # <<>>, Taken(t),
           NEW u \in Tabs, NEW what, Due(u, what)'
    PROVE  Due(u, what)
<1>1. /\ \A v \in Tabs \ {t} : wire'[v] = wire[v]
      /\ Len(wire[t]) \in Nat /\ Len(wire[t]) >= 1
      /\ DOMAIN wire[t] = 1..Len(wire[t])
      /\ DOMAIN wire'[t] = 1..(Len(wire[t]) - 1)
      /\ \A i \in 1..(Len(wire[t]) - 1) : wire'[t][i] = wire[t][i + 1]
  BY WireTaken
<1>2. PICK i \in DOMAIN wire'[u] : wire'[u][i].kind = what
  BY DEF Due
<1>3. CASE u = t
  <2>1. i \in 1..(Len(wire[t]) - 1) /\ i + 1 \in DOMAIN wire[t]
    BY <1>1, <1>2, <1>3
  <2> QED
    BY <1>1, <1>2, <1>3, <2>1 DEF Due
<1>4. CASE u # t
  BY <1>1, <1>2, <1>4 DEF Due
<1> QED
  BY <1>3, <1>4

\* a detachment makes a notice due, and nothing else
LEMMA DueDetached ==
    ASSUME DebuggerType, NEW tabs \in SUBSET Tabs, Detach(tabs),
           NEW u \in Tabs, NEW what, Due(u, what)'
    PROVE  Due(u, what) \/ what = "detached"
<1>1. wire[u] \in Seq(Message)
  BY DEF DebuggerType
<1>2. wire'[u] = IF u \in tabs THEN Append(wire[u], [kind |-> "detached", to |-> Nil]) ELSE wire[u]
  BY DEF Detach
<1>3. PICK i \in DOMAIN wire'[u] : wire'[u][i].kind = what
  BY DEF Due
<1>4. CASE u \in tabs /\ i = Len(wire[u]) + 1
  BY <1>1, <1>2, <1>3, <1>4
<1>5. CASE u \in tabs /\ i # Len(wire[u]) + 1
  <2>1. i \in DOMAIN wire[u] /\ wire'[u][i] = wire[u][i]
    BY <1>1, <1>2, <1>3, <1>5
  <2> QED
    BY <1>3, <2>1 DEF Due
<1>6. CASE u \notin tabs
  BY <1>2, <1>3, <1>6 DEF Due
<1> QED
  BY <1>4, <1>5, <1>6

(* How the steps change the tabs and their debuggers.                      *)
LEMMA DebuggerSteps ==
    ASSUME TypeOK, [Next]_vars
    PROVE  \/ UNCHANGED <<tab, debuggee, domains, cut, wire, attachedTabs>>
           \/ \E c \in Calls : EnsureDebugger(c) /\ Attach(c, Now(c).tab)
           \/ \E c \in Calls, t \in Tabs : Create(c, t)
           \/ \E t \in Tabs : Reply(t) \/ Conflict(t) \/ Detached(t) \/ Removed(t)
           \/ \E t \in Tabs : tab[t] = "open" /\ Gone(t) /\ UNCHANGED attachedTabs
           \/ \E t \in Tabs : Cancel(t) \/ Another(t)
           \/ DetachListed
           \/ Restart
<1>1. ASSUME NEW c \in Calls, CallStep(c)
      PROVE  \/ UNCHANGED <<tab, debuggee, domains, cut, wire, attachedTabs>>
             \/ EnsureDebugger(c) /\ Attach(c, Now(c).tab)
             \/ \E t \in Tabs : Create(c, t)
             \/ \E t \in Tabs : tab[t] = "open" /\ Gone(t) /\ UNCHANGED attachedTabs
  <2>1. CASE CloseTab(c)
    <3>1. Now(c).tab \in Tabs
      BY <2>1, TypeParts, ToolsTarget DEF CloseTab, At, Untargeted
    <3> QED
      BY <2>1, <3>1 DEF CloseTab
  <2>2. CASE EnsureDebugger(c)
    BY <2>2 DEF EnsureDebugger, debuggerVars
  <2>3. CASE ~CloseTab(c) /\ ~EnsureDebugger(c) /\ ~\E t \in Tabs : Create(c, t)
    BY <1>1, <2>3 DEF CallStep, Begin, Script, Unbatchable, Act, ReadLog, ReadPage, CreateNone, Group,
                      Title, Query, SaveLabel, Rename, debuggerVars
  <2> QED
    BY <2>1, <2>2, <2>3
<1>2. ASSUME NEW t \in Tabs, OutsideStep(t)
      PROVE  \/ UNCHANGED <<tab, debuggee, domains, cut, wire, attachedTabs>>
             \/ tab[t] = "open" /\ Gone(t) /\ UNCHANGED attachedTabs
             \/ Cancel(t) \/ Another(t)
  BY <1>2 DEF OutsideStep, Close, PageChanges
<1>3. CASE UNCHANGED vars
  BY <1>3 DEF vars, debuggerVars
<1>4. CASE ReleaseStep
  BY <1>4 DEF ReleaseStep, ReleaseAll, ReleaseSession, debuggerVars
<1> QED
  BY <1>1, <1>2, <1>3, <1>4 DEF Next, WireStep

(* What a release detaches are tabs.                                       *)
LEMMA ListedTabs ==
    ASSUME PageType, DetachListed
    PROVE  /\ release.listed[release.now] \in SUBSET Tabs
           /\ Detach(release.listed[release.now])
<1>1. release \in Release /\ release.now # Nil
  BY DEF DetachListed, PageType
<1>2. release.now \in Sessions /\ release.listed \in [Sessions -> SUBSET Tabs]
  BY <1>1 DEF Release
<1> QED
  BY <1>2 DEF DetachListed

(* ... in their own terms.                                                 *)
LEMMA WireStepKinds ==
    ASSUME TypeOK, NEW t \in Tabs, Reply(t) \/ Conflict(t) \/ Detached(t) \/ Removed(t)
    PROVE  /\ wire[t] # <<>> /\ UNCHANGED <<tab, debuggee>>
           /\ \/ Taken(t)
              \/ \E c \in Calls, domain \in Domains, kind \in {"done", "refused"} :
                   Enable(c, t, domain, Tail(wire[t])) /\ Send(t, Tail(wire[t]), kind, c)
<1>1. CASE Conflict(t) \/ Detached(t) \/ Removed(t)
  BY <1>1 DEF Conflict, Detached, Removed, Received
<1>2. CASE Reply(t)
  <2>1. wire[t] # <<>> /\ Head(wire[t]).to \in Active
    BY <1>2 DEF Reply, Received
  <2>2. Head(wire[t]).to \in Calls
    BY <2>1 DEF Active
  <2>3. \A step \in DOMAIN NextDomain : NextDomain[step] \in Domains
    BY DEF NextDomain, Domains
  <2>4. \/ Taken(t) /\ UNCHANGED <<tab, debuggee>>
        \/ \E domain \in Domains : Enable(Head(wire[t]).to, t, domain, Tail(wire[t]))
    BY <1>2, <2>3 DEF Reply
  <2> QED
    BY <2>1, <2>2, <2>4 DEF Enable, Enabled, NoSession, Cut
<1> QED
  BY <1>1, <1>2

-----------------------------------------------------------------------------
(* The lease: a tab with a debugger is open, and a session controls it, or *)
(* it is stray, or a release is about to detach it.                        *)

DebuggedOpen ==
    \A t \in Tabs :
      /\ debuggee[t] = "connector" => tab[t] = "open"
      /\ Due(t, "removed") => tab[t] = "closed"

\* a tab with a debugger stays open, or its session ends with it
LEMMA OpenStep ==
    ASSUME TypeOK, DebuggedOpen, [Next]_vars
    PROVE  DebuggedOpen'
<1> USE TypeParts
<1>1. CASE UNCHANGED <<tab, debuggee, domains, cut, wire, attachedTabs>>
  BY <1>1 DEF DebuggedOpen, Due
<1>2. ASSUME NEW c \in Calls, EnsureDebugger(c), Attach(c, Now(c).tab)
      PROVE  DebuggedOpen'
  <2> DEFINE t == Now(c).tab
  <2>1. t \in Tabs
    BY <1>2, ToolsTarget DEF EnsureDebugger, At, Tools, Logs, Untargeted
  <2> HIDE DEF t
  <2>2. PICK kind \in {"done", "refused"} : Send(t, wire[t], kind, c)
    BY <1>2 DEF Attach, t
  <2>3. \A u \in Tabs : Due(u, "removed")' => Due(u, "removed")
    BY <2>1, <2>2, DueSent
  <2>4. /\ UNCHANGED tab
        /\ \A u \in Tabs : debuggee'[u] = "connector" => debuggee[u] = "connector" \/ tab[u] = "open"
    BY <1>2, <2>1 DEF Attach, DebuggerType, t
  <2> QED
    BY <2>3, <2>4 DEF DebuggedOpen
<1>3. ASSUME NEW c \in Calls, NEW t \in Tabs, Create(c, t)
      PROVE  DebuggedOpen'
  BY <1>3 DEF Create, DebuggedOpen, Due, DebuggerType
<1>4. ASSUME NEW t \in Tabs, Reply(t) \/ Conflict(t) \/ Detached(t) \/ Removed(t)
      PROVE  DebuggedOpen'
  <2>1. \A u \in Tabs : Due(u, "removed")' => Due(u, "removed")
    <3>1. CASE Taken(t)
      BY <1>4, <3>1, WireStepKinds, DueTaken
    <3>2. ASSUME NEW c \in Calls, NEW kind \in {"done", "refused"},
                 Send(t, Tail(wire[t]), kind, c)
          PROVE  \A u \in Tabs : Due(u, "removed")' => Due(u, "removed")
      BY <1>4, <3>2, WireStepKinds, DueSent
    <3> QED
      BY <1>4, <3>1, <3>2, WireStepKinds
  <2> QED
    BY <1>4, <2>1, WireStepKinds DEF DebuggedOpen
<1>5. ASSUME NEW t \in Tabs, tab[t] = "open", Gone(t)
      PROVE  DebuggedOpen'
  <2>1. \A u \in Tabs : Due(u, "removed")' => Due(u, "removed") \/ u = t
    BY <1>5, DueSent DEF Gone
  <2> QED
    BY <1>5, <2>1 DEF Gone, End, DebuggedOpen, DebuggerType
<1>6. ASSUME NEW t \in Tabs, Cancel(t)
      PROVE  DebuggedOpen'
  <2>1. \A u \in Tabs : Due(u, "removed")' => Due(u, "removed")
    BY <1>6, DueSent DEF Cancel
  <2> QED
    BY <1>6, <2>1 DEF Cancel, End, DebuggedOpen, DebuggerType
<1>7. ASSUME NEW t \in Tabs, Another(t)
      PROVE  DebuggedOpen'
  BY <1>7 DEF Another, DebuggedOpen, Due, DebuggerType
<1>8. CASE DetachListed
  <2> DEFINE tabs == release.listed[release.now]
  <2>1. tabs \in SUBSET Tabs /\ Detach(tabs)
    BY <1>8, ListedTabs
  <2> HIDE DEF tabs
  <2>2. \A u \in Tabs : Due(u, "removed")' => Due(u, "removed")
    BY <2>1, DueDetached
  <2> QED
    BY <2>1, <2>2 DEF Detach, End, DebuggedOpen, DebuggerType
<1>9. CASE Restart
  BY <1>9 DEF Restart, DebuggedOpen, Due
<1> QED
  BY <1>1, <1>2, <1>3, <1>4, <1>5, <1>6, <1>7, <1>8, <1>9, DebuggerSteps

\* what a call will act on is its session's, or stray, or closed
Leased ==
    \A c \in Active : \A k \in DOMAIN calls[c].request.actions :
      LET action == calls[c].request.actions[k]
      IN action.tool \notin Untargeted =>
           \/ action.tab \in stray \/ action.tab \in controlled[calls[c].session]
           \/ tab[action.tab] = "closed"

\* no session loses a tab unseen
NoneLost ==
    /\ stray \subseteq stray'
    /\ \A s \in Sessions, t \in Tabs :
         t \in controlled[s] => t \in controlled'[s] \/ t \in stray' \/ tab'[t] = "closed"
    /\ \A t \in Tabs : tab[t] = "closed" => tab'[t] = "closed"

\* what a call will act on stays its session's while none is lost
LEMMA LeasedKept ==
    ASSUME TypeOK, Leased, [Next]_vars, NoneLost
    PROVE  Leased'
<1> USE TypeParts
<1> SUFFICES ASSUME NEW c \in Active', NEW k \in DOMAIN calls'[c].request.actions,
                    calls'[c].request.actions[k].tool \notin Untargeted
             PROVE  LET t == calls'[c].request.actions[k].tab
                    IN t \in stray' \/ t \in controlled'[calls'[c].session] \/ tab'[t] = "closed"
  BY DEF Leased
<1>1. CASE /\ c \in Active /\ calls'[c].request = calls[c].request
           /\ calls'[c].session = calls[c].session
  <2> DEFINE t == calls[c].request.actions[k].tab
  <2>1. calls[c].session \in Sessions /\ calls[c].request \in Requests
    BY <1>1, ActiveCall
  <2>2. t \in Tabs
    BY <1>1, <2>1, Constants
  <2>3. t \in stray \/ t \in controlled[calls[c].session] \/ tab[t] = "closed"
    BY <1>1 DEF Leased
  <2> QED
    BY <1>1, <2>1, <2>2, <2>3 DEF NoneLost
<1>2. ASSUME NEW s \in Sessions, NEW r \in Requests, Begin(c, s, r)
      PROVE  LET t == calls'[c].request.actions[k].tab
             IN t \in stray' \/ t \in controlled'[calls'[c].session] \/ tab'[t] = "closed"
  <2>1. c \in Calls
    BY DEF Active
  <2>2. calls'[c].request = r /\ calls'[c].session = s /\ UNCHANGED controlled
    BY <1>2, <2>1 DEF Begin, CallType
  <2>3. validRequest(r, controlled[s])
    BY <1>2 DEF Begin, authorized
  <2> QED
    BY <2>2, <2>3 DEF validRequest
<1> QED
  BY <1>1, <1>2, CallCourse

(* Only the attach of a call puts a debugger on a tab.                     *)
LEMMA LeaseKept ==
    ASSUME TypeOK, AttachmentEndsWithLease, DebuggedOpen', NoneLost,
           UNCHANGED release \/ release = Nil,
           \A t \in Tabs : debuggee'[t] = "connector" => debuggee[t] = "connector"
    PROVE  AttachmentEndsWithLease'
<1> SUFFICES ASSUME NEW t \in Tabs, debuggee'[t] = "connector"
             PROVE  \/ t \in stray'
                    \/ \E s \in Sessions : t \in controlled'[s]
                    \/ release' # Nil /\ release'.now # Nil /\ t \in release'.listed[release'.now]
  BY DEF AttachmentEndsWithLease
<1>1. tab'[t] # "closed"
  BY DEF DebuggedOpen
<1>2. \/ t \in stray
      \/ \E s \in Sessions : t \in controlled[s]
      \/ release # Nil /\ release.now # Nil /\ t \in release.listed[release.now]
  BY DEF AttachmentEndsWithLease
<1> QED
  BY <1>1, <1>2 DEF NoneLost

(* The end of an action loses no tab unseen.                               *)
LEMMA OverNoneLost ==
    ASSUME TypeOK, NEW c \in Active, NEW ok \in BOOLEAN, NEW tabs \in SUBSET Tabs,
           OverWith(c, ok, tabs)
    PROVE  /\ stray \subseteq stray'
           /\ \A s \in Sessions, t \in Tabs :
                t \in controlled[s] => t \in controlled'[s] \/ t \in stray'
<1>1. GoesOn(c, tabs) \/ Answered(c, ok)
  BY TypeParts, OverEffect
<1>2. CASE GoesOn(c, tabs)
  BY <1>2 DEF GoesOn
<1>3. CASE Answered(c, ok)
  BY <1>3 DEF Answered
<1> QED
  BY <1>1, <1>2, <1>3

\* an action that ends loses its session no tab unseen
LEMMA OverSameNoneLost ==
    ASSUME TypeOK, NEW c \in Active, NEW ok \in BOOLEAN, Over(c, ok)
    PROVE  /\ stray \subseteq stray'
           /\ \A s \in Sessions, t \in Tabs :
                t \in controlled[s] => t \in controlled'[s] \/ t \in stray'
<1>1. calls[c].controlled \in SUBSET Tabs
  BY TypeParts, ActiveCall
<1> QED
  BY <1>1, OverNoneLost DEF Over

\* no step of a call does
LEMMA CallNoneLost ==
    ASSUME TypeOK, NEW c \in Calls, CallStep(c)
    PROVE  /\ stray \subseteq stray'
           /\ \A s \in Sessions, t \in Tabs :
                t \in controlled[s] => t \in controlled'[s] \/ t \in stray'
<1>1. CASE UNCHANGED <<controlled, stray>>
  BY <1>1
<1>2. CASE c \in Active /\ \E ok \in BOOLEAN : Over(c, ok)
  BY <1>2, OverSameNoneLost
<1>3. CASE c \in Active /\ \E tabs \in SUBSET Tabs : OverWith(c, TRUE, tabs)
  BY <1>3, OverNoneLost
<1>4. CASE \/ Unbatchable(c) \/ Act(c) \/ CreateNone(c) \/ ReadLog(c)
           \/ ReadPage(c) \/ Query(c) \/ Rename(c)
  <2>1. c \in Active /\ \E ok \in BOOLEAN : Over(c, ok)
    BY <1>4 DEF Unbatchable, Act, CreateNone, ReadLog, ReadPage, Query, Rename, At
  <2> QED
    BY <1>2, <2>1
<1>5. CASE Group(c) \/ Title(c)
  BY <1>1, <1>5 DEF Group, Title, Goto, Goes
<1>6. CASE CloseTab(c)
  <2>1. c \in Active /\ OverWith(c, TRUE, calls[c].controlled \ {Now(c).tab})
    BY <1>6 DEF CloseTab, At
  <2>2. calls[c].controlled \ {Now(c).tab} \in SUBSET Tabs
    BY <2>1, TypeParts, ActiveCall
  <2> QED
    BY <1>3, <2>1, <2>2
<1>7. CASE /\ ~(Unbatchable(c) \/ Act(c) \/ CreateNone(c) \/ ReadLog(c))
           /\ ~(ReadPage(c) \/ Query(c) \/ Rename(c))
           /\ ~Group(c) /\ ~Title(c) /\ ~CloseTab(c)
  <2>1. UNCHANGED <<controlled, stray>>
    BY <1>7 DEF CallStep, Begin, EnsureDebugger, Script, Create, SaveLabel, Goto, Goes
  <2> QED
    BY <1>1, <2>1
<1> QED
  BY <1>4, <1>5, <1>6, <1>7

\* a closed tab stays closed
LEMMA ClosedStays ==
    ASSUME TypeOK, [Next]_vars, NEW t \in Tabs, tab[t] = "closed"
    PROVE  tab'[t] = "closed"
<1> USE TypeParts
<1>1. \/ UNCHANGED tab
      \/ \E u \in Tabs : tab[u] = "unused" /\ tab' = [tab EXCEPT ![u] = "open"]
      \/ \E u \in Tabs : tab' = [tab EXCEPT ![u] = "closed"]
  BY DebuggerSteps, WireStepKinds
     DEF Attach, Create, Gone, Cancel, Another, DetachListed, Detach, Restart
<1> QED
  BY <1>1 DEF DebuggerType

\* no step but the removal of its record takes a tab from a session unseen
LEMMA NoneLostStep ==
    ASSUME TypeOK, DebuggedOpen, [Next]_vars, ~\E s \in Sessions : ReleaseSession(s)
    PROVE  NoneLost
<1> SUFFICES /\ stray \subseteq stray'
             /\ \A s \in Sessions, t \in Tabs :
                  t \in controlled[s] => t \in controlled'[s] \/ t \in stray' \/ tab'[t] = "closed"
  BY ClosedStays DEF NoneLost
<1>1. CASE UNCHANGED <<controlled, stray>>
  BY <1>1
<1>2. CASE \E c \in Calls : CallStep(c)
  BY <1>2, CallNoneLost
<1>3. ASSUME NEW u \in Tabs, Removed(u)
      PROVE  /\ stray \subseteq stray'
             /\ \A s \in Sessions, t \in Tabs :
                  t \in controlled[s] => t \in controlled'[s] \/ t \in stray' \/ tab'[t] = "closed"
  <2>1. wire[u] \in Seq(Message) /\ wire[u] # <<>> /\ Head(wire[u]).kind = "removed"
    BY <1>3, TypeParts DEF Removed, Received, DebuggerType
  <2>2. 1 \in DOMAIN wire[u] /\ wire[u][1].kind = "removed"
    BY <2>1
  <2>3. tab[u] = "closed"
    BY <2>2 DEF DebuggedOpen, Due
  <2> QED
    BY <1>3, <2>3 DEF Removed
<1>4. ASSUME NEW u \in Tabs, Reply(u) \/ Conflict(u) \/ Detached(u)
      PROVE  stray \subseteq stray' /\ \A s \in Sessions, t \in Tabs :
                  t \in controlled[s] => t \in controlled'[s] \/ t \in stray'
  <2>1. CASE Conflict(u)
    BY <2>1, OverSameNoneLost DEF Conflict
  <2>2. CASE Reply(u) \/ Detached(u)
    BY <2>2 DEF Reply, Detached, Goto, Goes, callVars
  <2> QED
    BY <1>4, <2>1, <2>2
<1>5. CASE \E t \in Tabs : OutsideStep(t)
  BY <1>1, <1>5 DEF OutsideStep, Close, PageChanges, callVars
<1>6. CASE Restart \/ UNCHANGED vars
  BY <1>1, <1>6 DEF Restart, vars, callVars
<1>7. CASE ReleaseAll \/ DetachListed
  BY <1>1, <1>7 DEF ReleaseAll, DetachListed, callVars
<1> QED
  BY <1>2, <1>3, <1>4, <1>5, <1>6, <1>7 DEF Next, ReleaseStep, WireStep

\* a session that is released leaves its tabs to the detachment that follows,
\* or stray
LEMMA ReleaseLease ==
    ASSUME TypeOK, Leased, AttachmentEndsWithLease, NEW s \in Sessions, ReleaseSession(s)
    PROVE  Leased' /\ AttachmentEndsWithLease'
<1> USE TypeParts
<1>1. /\ controlled[s] \in SUBSET Tabs /\ UNCHANGED <<calls, tab, debuggee>>
      /\ \A r \in Sessions : controlled'[r] = IF r = s THEN {} ELSE controlled[r]
      /\ stray \subseteq stray'
      /\ controlled[s] \ release.listed[s] \subseteq stray' /\ controlled[s] \cap Busy \subseteq stray'
  BY DEF ReleaseSession, CallType, debuggerVars
<1>2. release # Nil /\ release.now = Nil /\ release \in Release
  BY DEF ReleaseSession, PageType
<1>3. release' \in Release /\ release'.now = s /\ release'.listed = release.listed
  BY <1>2 DEF ReleaseSession, Release
<1>4. release' # Nil /\ s # Nil
  BY <1>3, NilAssumption, Constants
<1>5. AttachmentEndsWithLease'
  <2> SUFFICES ASSUME NEW t \in Tabs, debuggee'[t] = "connector"
               PROVE  \/ t \in stray'
                      \/ \E r \in Sessions : t \in controlled'[r]
                      \/ release' # Nil /\ release'.now # Nil /\ t \in release'.listed[release'.now]
    BY DEF AttachmentEndsWithLease
  <2>1. t \in stray \/ \E r \in Sessions : t \in controlled[r]
    BY <1>1, <1>2 DEF AttachmentEndsWithLease
  <2> QED
    BY <1>1, <1>3, <1>4, <2>1
<1>6. Leased'
  <2> SUFFICES ASSUME NEW c \in Active', NEW k \in DOMAIN calls[c].request.actions,
                      calls[c].request.actions[k].tool \notin Untargeted
               PROVE  LET t == calls[c].request.actions[k].tab
                      IN t \in stray' \/ t \in controlled'[calls[c].session] \/ tab[t] = "closed"
    BY <1>1 DEF Leased
  <2> DEFINE t == calls[c].request.actions[k].tab
  <2>1. c \in Active /\ calls[c].session \in Sessions
    BY <1>1, ActiveCall DEF Active
  <2>2. t \in stray \/ t \in controlled[calls[c].session] \/ tab[t] = "closed"
    BY <2>1 DEF Leased
  <2>3. t \in controlled[s] => t \in Busy
    BY <1>1, <2>1 DEF Busy
  <2> QED
    BY <1>1, <2>1, <2>2, <2>3
<1> QED
  BY <1>5, <1>6

\* the detachment that follows
LEMMA DetachLease ==
    ASSUME TypeOK, AttachmentEndsWithLease, DetachListed
    PROVE  AttachmentEndsWithLease'
<1>1. UNCHANGED <<controlled, stray>>
  BY DEF DetachListed, callVars
<1>2. \A t \in Tabs : debuggee'[t] = "connector"
        => debuggee[t] = "connector" /\ t \notin release.listed[release.now]
  BY TypeParts, ListedTabs DEF Detach, End, DebuggerType
<1> QED
  BY <1>1, <1>2 DEF AttachmentEndsWithLease

\* only a release and a restart change a release
LEMMA ReleaseStays ==
    ASSUME [Next]_vars, ~ReleaseStep, ~Restart
    PROVE  UNCHANGED release
<1>1. CASE \E c \in Calls : CallStep(c)
  <2>1. PICK c \in Calls : CallStep(c)
    BY <1>1
  <2>2. CASE \/ EnsureDebugger(c) \/ Script(c) \/ Unbatchable(c) \/ Act(c) \/ ReadPage(c)
             \/ ReadLog(c) \/ CreateNone(c)
    BY <2>2 DEF EnsureDebugger, Script, Unbatchable, Act, ReadPage, ReadLog, CreateNone
  <2>3. CASE Group(c) \/ Title(c) \/ Query(c) \/ CloseTab(c) \/ Rename(c)
    BY <2>3 DEF Group, Title, Query, CloseTab, Rename
  <2>4. CASE \/ \E s \in Sessions, r \in Requests : Begin(c, s, r)
             \/ \E t \in Tabs : Create(c, t)
             \/ \E name \in Labels : SaveLabel(c, name)
    BY <2>4 DEF Begin, Create, SaveLabel
  <2> QED
    BY <2>1, <2>2, <2>3, <2>4 DEF CallStep
<1>2. CASE \E t \in Tabs : WireStep(t)
  BY <1>2 DEF WireStep, Reply, Conflict, Detached, Removed
<1>3. CASE \E t \in Tabs : OutsideStep(t)
  BY <1>3 DEF OutsideStep, Close, PageChanges
<1>4. CASE UNCHANGED vars
  BY <1>4 DEF vars
<1> QED
  BY <1>1, <1>2, <1>3, <1>4 DEF Next

\* every step keeps the lease over what is attached
LEMMA LeaseStep ==
    ASSUME TypeOK, DebuggedOpen, Leased, AttachmentEndsWithLease, [Next]_vars
    PROVE  Leased' /\ AttachmentEndsWithLease'
<1> USE TypeParts
<1>1. CASE \E s \in Sessions : ReleaseSession(s)
  BY <1>1, ReleaseLease
<1>2. CASE ~\E s \in Sessions : ReleaseSession(s)
  <2>1. NoneLost /\ Leased' /\ DebuggedOpen'
    BY <1>2, NoneLostStep, LeasedKept, OpenStep
  <2>2. ASSUME NEW c \in Calls, EnsureDebugger(c), Attach(c, Now(c).tab)
        PROVE  AttachmentEndsWithLease'
    <3> DEFINE t == Now(c).tab
    <3>1. c \in Active /\ calls[c].session \in Sessions /\ Now(c).tool \notin Untargeted
      BY <2>2, ActiveCall DEF EnsureDebugger, At, Tools, Logs, Untargeted
    <3>2. t \in Tabs /\ calls[c].at \in DOMAIN calls[c].request.actions
      BY <3>1, ToolsTarget, ActiveCall
    <3>3. t \in stray \/ t \in controlled[calls[c].session] \/ tab[t] = "closed"
      BY <3>1, <3>2 DEF Leased, Now
    <3>4. UNCHANGED <<controlled, stray, release>>
      BY <2>2 DEF EnsureDebugger, Goto, Goes
    <3>5. \A u \in Tabs : debuggee'[u] = "connector" => debuggee[u] = "connector" \/ (u = t /\ tab[t] = "open")
      BY <2>2, <3>2 DEF Attach, DebuggerType
    <3> HIDE DEF t
    <3> QED
      BY <3>1, <3>3, <3>4, <3>5 DEF AttachmentEndsWithLease
  <2>3. CASE DetachListed
    BY <2>1, <2>3, DetachLease
  <2>4. CASE Restart
    <3>1. \A t \in Tabs : debuggee'[t] # "connector"
      BY <2>4 DEF Restart
    <3> QED
      BY <2>1, <3>1 DEF AttachmentEndsWithLease
  <2>5. CASE /\ ~\E c \in Calls : EnsureDebugger(c) /\ Attach(c, Now(c).tab)
             /\ ~DetachListed /\ ~Restart
    <3>1. \A t \in Tabs : debuggee'[t] = "connector" => debuggee[t] = "connector"
      <4>1. CASE UNCHANGED debuggee
        BY <4>1
      <4>2. ASSUME NEW t \in Tabs, End({t}, "nobody")
            PROVE  \A u \in Tabs : debuggee'[u] = "connector" => debuggee[u] = "connector"
        BY <4>2 DEF End, DebuggerType
      <4>3. ASSUME NEW t \in Tabs, Another(t)
            PROVE  \A u \in Tabs : debuggee'[u] = "connector" => debuggee[u] = "connector"
        BY <4>3 DEF Another, DebuggerType
      <4>4. CASE \E t \in Tabs : Reply(t) \/ Conflict(t) \/ Detached(t) \/ Removed(t)
        BY <4>1, <4>4, WireStepKinds
      <4>5. CASE \/ UNCHANGED <<tab, debuggee, domains, cut, wire, attachedTabs>>
                 \/ \E c \in Calls, t \in Tabs : Create(c, t)
        BY <4>1, <4>5 DEF Create
      <4>6. CASE \E t \in Tabs : (tab[t] = "open" /\ Gone(t) /\ UNCHANGED attachedTabs) \/ Cancel(t)
        BY <4>2, <4>6 DEF Gone, Cancel
      <4> QED
        BY <2>5, <4>3, <4>4, <4>5, <4>6, DebuggerSteps
    <3>2. UNCHANGED release \/ release = Nil
      BY <1>2, <2>5, ReleaseStays DEF ReleaseStep, ReleaseAll
    <3> QED
      BY <2>1, <3>1, <3>2, LeaseKept
  <2> QED
    BY <2>1, <2>2, <2>3, <2>4, <2>5
<1> QED
  BY <1>1, <1>2

LeaseInv == DebuggedOpen /\ Leased /\ AttachmentEndsWithLease

(* No tab stays attached that no session controls, once a release has come *)
(* to it, unless a call on it was under way when it did, its session had   *)
(* gained it since the release listed its tabs, or a stale save dropped it.*)
THEOREM AttachmentsEnd == Spec => []AttachmentEndsWithLease
<1>1. Init => TypeOK /\ LeaseInv
  BY InitTyped DEF Init, LeaseInv, DebuggerInit, DebuggedOpen, Due, Leased, AttachmentEndsWithLease, Active
<1>2. TypeOK /\ LeaseInv /\ [Next]_vars => LeaseInv'
  BY OpenStep, LeaseStep DEF LeaseInv
<1>3. LeaseInv => AttachmentEndsWithLease
  BY DEF LeaseInv
<1> QED
  BY <1>1, <1>2, <1>3, ControllerTypeCorrect, PTL DEF Spec

-----------------------------------------------------------------------------
(* The debugger: every reply on its way is awaited, by the call it answers *)
(* alone, and what a session still lacks is ahead of a call in it.         *)

Replies == {"done", "refused"}

Waiter(c) == c \in Active /\ calls[c].step \in Waiting
Stays(c) == c \in Active' /\ calls'[c].step = calls[c].step /\ Now(c)' = Now(c)

ReplyAwaited ==
    \A t \in Tabs : \A i \in DOMAIN wire[t] :
      wire[t][i].kind \in Replies => Waiter(wire[t][i].to) /\ Now(wire[t][i].to).tab = t

OneReply ==
    \A t, u \in Tabs : \A i \in DOMAIN wire[t], j \in DOMAIN wire[u] :
      /\ wire[t][i].kind \in Replies /\ wire[u][j].kind \in Replies
      /\ wire[t][i].to = wire[u][j].to
      => t = u /\ i = j

\* the queue of t lost k messages at its head and got n, which is m
Moved(t, k, n, m) ==
    /\ \A u \in Tabs \ {t} : wire'[u] = wire[u]
    /\ Len(wire[t]) \in Nat /\ Len(wire[t]) >= k
    /\ DOMAIN wire[t] = 1..Len(wire[t])
    /\ DOMAIN wire'[t] = 1..(Len(wire[t]) - k + n)
    /\ \A i \in 1..(Len(wire[t]) - k) : wire'[t][i] = wire[t][i + k]
    /\ n = 1 => wire'[t][Len(wire[t]) - k + 1] = m

\* some queues got a notice, each at its end
Noticed ==
    \A t \in Tabs :
      \/ wire'[t] = wire[t]
      \/ \E kind \in {"detached", "removed"} :
           wire'[t] = Append(wire[t], [kind |-> kind, to |-> Nil])

(* A call waits until its reply comes.                                     *)
LEMMA WaiterStays ==
    ASSUME TypeOK, [Next]_vars, NEW d, Waiter(d)
    PROVE  \/ Stays(d)
           \/ \E t \in Tabs : (Reply(t) \/ Conflict(t)) /\ Head(wire[t]).to = d
           \/ Restart
<1>1. d \in Calls /\ d \in Active /\ calls[d] \in Call
  BY TypeParts, ActiveCall DEF Waiter, Active
<1>2. calls'[d] = calls[d] => Stays(d)
  BY <1>1 DEF Stays, Active, Now
<1>3. ~CallStep(d)
  BY DEF CallStep, Begin, EnsureDebugger, Script, Unbatchable, Act, ReadPage, ReadLog,
         Create, CreateNone, Group, Title, Query, CloseTab, SaveLabel, Rename, At, Waiter, Waiting
<1>4. ASSUME NEW t \in Tabs, NEW words \in Targets, PageChanges(t, words)
      PROVE  Stays(d)
  <2>1. calls'[d] = [calls[d] EXCEPT !.changed = TRUE]
    BY <1>1, <1>4 DEF PageChanges
  <2>2. /\ calls'[d] \in Call /\ calls'[d].step = calls[d].step /\ calls'[d].at = calls[d].at
        /\ calls'[d].request = calls[d].request
    BY <1>1, <2>1 DEF Call
  <2>3. calls'[d] # Nil
    BY <2>2, NilAssumption
  <2> QED
    BY <1>1, <2>2, <2>3 DEF Stays, Active, Now
<1> QED
  BY <1>1, <1>2, <1>3, <1>4, Course

\* a reply is awaited when its call waits at that tab
LEMMA AwaitedNext ==
    ASSUME \A t \in Tabs : \A i \in DOMAIN wire'[t] : \A d :
             wire'[t][i].kind \in Replies /\ d = wire'[t][i].to => Waiter(d)' /\ Now(d)'.tab = t
    PROVE  ReplyAwaited'
  BY DEF ReplyAwaited, Waiter, Now, Active

(* Replies that stay, and one that is asked for anew.                      *)
LEMMA RepliesMoved ==
    ASSUME TypeOK, ReplyAwaited, OneReply, NEW t \in Tabs, NEW k \in {0, 1}, NEW n \in {0, 1},
           NEW m, Moved(t, k, n, m), NEW c,
           \A d : Waiter(d) /\ d # c => Stays(d),
           \/ ~Waiter(c)
           \/ k = 1 /\ wire[t][1].kind \in Replies /\ wire[t][1].to = c,
           n = 1 /\ m.kind \in Replies => m.to = c /\ Waiter(c)' /\ Now(c)'.tab = t
    PROVE  ReplyAwaited' /\ OneReply'
<1> DEFINE last == Len(wire[t]) - k + 1
<1> DEFINE New(u, i) == u = t /\ n = 1 /\ i = last
<1> DEFINE Old(u, i) == IF u = t THEN i + k ELSE i
<1>1. ASSUME NEW u \in Tabs, NEW i \in DOMAIN wire'[u]
      PROVE  \/ New(u, i) /\ wire'[u][i] = m
             \/ /\ ~New(u, i) /\ Old(u, i) \in DOMAIN wire[u] /\ wire'[u][i] = wire[u][Old(u, i)]
                /\ i \in Int
  <2>1. CASE u = t
    <3>1. /\ i \in 1..(Len(wire[t]) - k + n) /\ Len(wire[t]) \in Nat /\ Len(wire[t]) >= k
          /\ DOMAIN wire[t] = 1..Len(wire[t])
      BY <1>1, <2>1 DEF Moved
    <3>2. CASE n = 1 /\ i = last
      BY <2>1, <3>2 DEF Moved
    <3>3. CASE ~(n = 1 /\ i = last)
      <4>1. i \in 1..(Len(wire[t]) - k)
        BY <3>1, <3>3
      <4>2. i + k \in DOMAIN wire[t] /\ wire'[t][i] = wire[t][i + k] /\ i \in Int
        BY <3>1, <4>1 DEF Moved
      <4> QED
        BY <2>1, <3>3, <4>2
    <3> QED
      BY <3>2, <3>3
  <2>2. CASE u # t
    BY <1>1, <2>2, TypeParts DEF Moved, DebuggerType
  <2> QED
    BY <2>1, <2>2
<1>2. ASSUME NEW u \in Tabs, NEW i \in DOMAIN wire'[u], ~New(u, i), wire'[u][i].kind \in Replies
      PROVE  /\ wire'[u][i].to # c
             /\ Waiter(wire'[u][i].to) /\ Now(wire'[u][i].to).tab = u
  <2>1. /\ Old(u, i) \in DOMAIN wire[u] /\ wire'[u][i] = wire[u][Old(u, i)] /\ i \in Int
    BY <1>1, <1>2
  <2>2. Waiter(wire'[u][i].to) /\ Now(wire'[u][i].to).tab = u
    BY <1>2, <2>1 DEF ReplyAwaited
  <2>3. CASE ~Waiter(c)
    BY <2>2, <2>3
  <2>4. CASE k = 1 /\ wire[t][1].kind \in Replies /\ wire[t][1].to = c
    <3>1. 1 \in DOMAIN wire[t]
      BY <2>4 DEF Moved
    <3>2. Old(u, i) = 1 /\ u = t => i = 0
      BY <2>1, <2>4
    <3>3. i # 0
      BY <1>2, TypeParts DEF Moved, DebuggerType
    <3> HIDE DEF Old
    <3>4. wire'[u][i].to # c
      BY <1>2, <2>1, <2>4, <3>1, <3>2, <3>3 DEF OneReply
    <3> QED
      BY <2>2, <3>4
  <2> QED
    BY <2>3, <2>4
<1>3. ReplyAwaited'
  <2> SUFFICES ASSUME NEW u \in Tabs, NEW i \in DOMAIN wire'[u], wire'[u][i].kind \in Replies,
                      NEW d, d = wire'[u][i].to
               PROVE  Waiter(d)' /\ Now(d)'.tab = u
    BY AwaitedNext
  <2>1. CASE New(u, i)
    BY <1>1, <2>1
  <2>2. CASE ~New(u, i)
    <3>1. Waiter(d) /\ Now(d).tab = u /\ d # c
      BY <1>2, <2>2
    <3>2. Stays(d)
      BY <3>1
    <3> QED
      BY <3>1, <3>2 DEF Stays, Waiter
  <2> QED
    BY <2>1, <2>2
<1>4. OneReply'
  <2> SUFFICES ASSUME NEW u \in Tabs, NEW v \in Tabs,
                      NEW i \in DOMAIN wire'[u], NEW j \in DOMAIN wire'[v],
                      wire'[u][i].kind \in Replies, wire'[v][j].kind \in Replies,
                      wire'[u][i].to = wire'[v][j].to
               PROVE  u = v /\ i = j
    BY DEF OneReply
  <2>1. CASE New(u, i) /\ New(v, j)
    BY <2>1
  <2>2. CASE New(u, i) /\ ~New(v, j)
    <3>1. wire'[u][i] = m /\ m.to = c
      BY <1>1, <2>2
    <3> HIDE DEF New
    <3> QED
      BY <1>2, <2>2, <3>1
  <2>3. CASE ~New(u, i) /\ New(v, j)
    <3>1. wire'[v][j] = m /\ m.to = c
      BY <1>1, <2>3
    <3> HIDE DEF New
    <3> QED
      BY <1>2, <2>3, <3>1
  <2>4. CASE ~New(u, i) /\ ~New(v, j)
    <3>1. /\ Old(u, i) \in DOMAIN wire[u] /\ wire'[u][i] = wire[u][Old(u, i)] /\ i \in Int
          /\ Old(v, j) \in DOMAIN wire[v] /\ wire'[v][j] = wire[v][Old(v, j)] /\ j \in Int
      BY <1>1, <2>4
    <3>2. u = v /\ Old(u, i) = Old(v, j)
      <4> HIDE DEF Old
      <4> QED
        BY <3>1 DEF OneReply
    <3> QED
      BY <3>1, <3>2
  <2> QED
    BY <2>1, <2>2, <2>3, <2>4
<1> QED
  BY <1>3, <1>4

\* notices leave replies awaited, and one to a call
LEMMA RepliesNoticed ==
    ASSUME TypeOK, ReplyAwaited, OneReply, Noticed, \A d : Waiter(d) => Stays(d)
    PROVE  ReplyAwaited' /\ OneReply'
<1>1. ASSUME NEW t \in Tabs, NEW i \in DOMAIN wire'[t], wire'[t][i].kind \in Replies
      PROVE  i \in DOMAIN wire[t] /\ wire'[t][i] = wire[t][i]
  <2>1. wire[t] \in Seq(Message)
    BY TypeParts DEF DebuggerType
  <2>2. CASE wire'[t] = wire[t]
    BY <2>2
  <2>3. ASSUME NEW kind \in {"detached", "removed"},
               wire'[t] = Append(wire[t], [kind |-> kind, to |-> Nil])
        PROVE  i \in DOMAIN wire[t] /\ wire'[t][i] = wire[t][i]
    <3>1. i \in 1..(Len(wire[t]) + 1) /\ Len(wire[t]) \in Nat
      BY <2>1, <2>3
    <3>2. i # Len(wire[t]) + 1
      <4> SUFFICES ASSUME i = Len(wire[t]) + 1 PROVE FALSE
        OBVIOUS
      <4>1. wire'[t][i] = [kind |-> kind, to |-> Nil]
        BY <2>1, <2>3
      <4> QED
        BY <1>1, <2>3, <4>1 DEF Replies
    <3> QED
      BY <2>1, <2>3, <3>1, <3>2
  <2> QED
    BY <2>2, <2>3 DEF Noticed
<1>2. ReplyAwaited'
  <2> SUFFICES ASSUME NEW t \in Tabs, NEW i \in DOMAIN wire'[t], wire'[t][i].kind \in Replies,
                      NEW d, d = wire'[t][i].to
               PROVE  Waiter(d)' /\ Now(d)'.tab = t
    BY AwaitedNext
  <2>1. Waiter(d) /\ Now(d).tab = t
    BY <1>1 DEF ReplyAwaited
  <2>2. Stays(d)
    BY <2>1
  <2> QED
    BY <2>1, <2>2 DEF Stays, Waiter
<1>3. OneReply'
  BY <1>1 DEF OneReply
<1> QED
  BY <1>2, <1>3

\* a done call is in its session, unless word of its end comes after
DoneInSession ==
    \A t \in Tabs : \A i \in DOMAIN wire[t] :
      /\ wire[t][i].kind = "done"
      /\ \A j \in DOMAIN wire[t] : i < j => wire[t][j].kind \in Replies
      => debuggee[t] = "connector"

AttachedInSession == \A t \in attachedTabs : Notice(t) \/ debuggee[t] = "connector"

\* the domains a call has yet to enable
Ahead == [attach |-> Domains, Runtime |-> {"Network", "Page"}, Network |-> {"Page"}, Page |-> {}]

Missing ==
    \A t \in Tabs : debuggee[t] = "connector" =>
      \/ domains[t] = Domains \/ t \in cut
      \/ \E i \in DOMAIN wire[t] :
           /\ wire[t][i].kind = "done"
           /\ Domains \ domains[t] \subseteq Ahead[calls[wire[t][i].to].step]

\* a message taken or sent leaves a done call in its session
LEMMA DoneMoved ==
    ASSUME DoneInSession, NEW t \in Tabs, NEW k \in {0, 1}, NEW n \in {0, 1},
           NEW m, Moved(t, k, n, m),
           \A u \in Tabs : debuggee[u] = "connector" => debuggee'[u] = "connector",
           n = 1 => m.kind \in Replies,
           n = 1 /\ m.kind = "done" => debuggee'[t] = "connector"
    PROVE  DoneInSession'
<1> SUFFICES ASSUME NEW u \in Tabs, NEW i \in DOMAIN wire'[u], wire'[u][i].kind = "done",
                    \A j \in DOMAIN wire'[u] : i < j => wire'[u][j].kind \in Replies
             PROVE  debuggee'[u] = "connector"
  BY DEF DoneInSession
<1>1. CASE u # t
  BY <1>1 DEF Moved, DoneInSession
<1>2. CASE u = t
  <2>1. /\ i \in 1..(Len(wire[t]) - k + n) /\ Len(wire[t]) \in Nat /\ Len(wire[t]) >= k
        /\ DOMAIN wire[t] = 1..Len(wire[t]) /\ DOMAIN wire'[t] = 1..(Len(wire[t]) - k + n)
        /\ \A j \in 1..(Len(wire[t]) - k) : wire'[t][j] = wire[t][j + k]
    BY <1>2 DEF Moved
  <2>2. CASE n = 1 /\ i = Len(wire[t]) - k + 1
    BY <1>2, <2>2 DEF Moved
  <2>3. CASE ~(n = 1 /\ i = Len(wire[t]) - k + 1)
    <3>1. i \in 1..(Len(wire[t]) - k) /\ i + k \in DOMAIN wire[t] /\ i \in Int
      BY <2>1, <2>3
    <3>2. wire[t][i + k].kind = "done"
      BY <1>2, <2>1, <3>1
    <3>3. ASSUME NEW j \in DOMAIN wire[t], i + k < j
          PROVE  wire[t][j].kind \in Replies
      <4>1. j \in Int /\ j - k \in 1..(Len(wire[t]) - k) /\ i < j - k /\ (j - k) + k = j
        BY <2>1, <3>1, <3>3
      <4>2. j - k \in DOMAIN wire'[t] /\ wire'[t][j - k] = wire[t][j]
        BY <2>1, <4>1
      <4> QED
        BY <1>2, <4>1, <4>2
    <3> QED
      BY <1>2, <3>1, <3>2, <3>3 DEF DoneInSession
  <2> QED
    BY <2>2, <2>3
<1> QED
  BY <1>1, <1>2

\* a reply that stays on the wire is the one it was, for the same call
LEMMA OldReply ==
    ASSUME TypeOK, ReplyAwaited, OneReply, NEW t \in Tabs, NEW k \in {0, 1}, NEW n \in {0, 1},
           NEW m, Moved(t, k, n, m), NEW c,
           \A d : Waiter(d) /\ d # c => Stays(d),
           IF k = 1 /\ wire[t][1].kind \in Replies THEN wire[t][1].to = c ELSE ~Waiter(c),
           NEW u \in Tabs, NEW i \in DOMAIN wire[u], wire[u][i].kind \in Replies,
           ~(u = t /\ k = 1 /\ i = 1), NEW d, d = wire[u][i].to
    PROVE  /\ calls'[d].step = calls[d].step
           /\ \E j \in DOMAIN wire'[u] : wire'[u][j] = wire[u][i]
<1>1. Waiter(d)
  BY DEF ReplyAwaited
<1>2. d # c
  <2>1. CASE k = 1 /\ wire[t][1].kind \in Replies
    <3>1. 1 \in DOMAIN wire[t]
      BY <2>1 DEF Moved
    <3> QED
      BY <2>1, <3>1 DEF OneReply
  <2>2. CASE ~(k = 1 /\ wire[t][1].kind \in Replies)
    BY <1>1, <2>2
  <2> QED
    BY <2>1, <2>2
<1>3. calls'[d].step = calls[d].step
  BY <1>1, <1>2 DEF Stays
<1>4. \E j \in DOMAIN wire'[u] : wire'[u][j] = wire[u][i]
  <2>1. CASE u # t
    BY <2>1 DEF Moved
  <2>2. CASE u = t
    <3>1. /\ i \in 1..Len(wire[t]) /\ Len(wire[t]) \in Nat
          /\ DOMAIN wire'[t] = 1..(Len(wire[t]) - k + n)
          /\ \A j \in 1..(Len(wire[t]) - k) : wire'[t][j] = wire[t][j + k]
      BY <2>2 DEF Moved
    <3>2. i - k \in 1..(Len(wire[t]) - k) /\ (i - k) + k = i
      BY <2>2, <3>1
    <3>3. i - k \in DOMAIN wire'[t] /\ wire'[t][i - k] = wire[t][i]
      BY <3>1, <3>2
    <3> QED
      BY <2>2, <3>3
  <2> QED
    BY <2>1, <2>2
<1> QED
  BY <1>3, <1>4

\* what a session lacks stays ahead of the call that is told so
LEMMA MissingMoved ==
    ASSUME TypeOK, ReplyAwaited, OneReply, Missing,
           NEW t \in Tabs, NEW k \in {0, 1}, NEW n \in {0, 1},
           NEW m, Moved(t, k, n, m), NEW c,
           \A d : Waiter(d) /\ d # c => Stays(d),
           IF k = 1 /\ wire[t][1].kind \in Replies THEN wire[t][1].to = c ELSE ~Waiter(c),
           \A u \in Tabs \ {t} : debuggee'[u] = debuggee[u],
           \A u \in Tabs : domains[u] \subseteq domains'[u] /\ domains'[u] \subseteq Domains,
           cut \subseteq cut',
           debuggee'[t] = "connector" =>
             \/ /\ debuggee[t] = "connector"
                /\ k = 1 /\ wire[t][1].kind = "done"
                     /\ Domains \ domains[t] \subseteq Ahead[calls[c].step]
                   => \/ domains'[t] = Domains \/ t \in cut'
                      \/ /\ n = 1 /\ m.kind = "done" /\ m.to = c
                         /\ Domains \ domains'[t] \subseteq Ahead[calls'[c].step]
             \/ /\ n = 1 /\ m.kind = "done" /\ m.to = c
                /\ Domains \ domains'[t] \subseteq Ahead[calls'[c].step]
    PROVE  Missing'
<1> DEFINE Asked == /\ n = 1 /\ m.kind = "done" /\ m.to = c
                    /\ Domains \ domains'[t] \subseteq Ahead[calls'[c].step]
<1> DEFINE Fine(u) == \/ domains'[u] = Domains \/ u \in cut'
                      \/ \E j \in DOMAIN wire'[u] :
                           /\ wire'[u][j].kind = "done"
                           /\ Domains \ domains'[u] \subseteq Ahead[calls'[wire'[u][j].to].step]
<1>1. ASSUME Asked PROVE Fine(t)
  <2> DEFINE j == Len(wire[t]) - k + 1
  <2>1. j \in DOMAIN wire'[t] /\ wire'[t][j] = m
    BY <1>1 DEF Moved
  <2> HIDE DEF j
  <2> QED
    BY <1>1, <2>1
<1>2. ASSUME NEW u \in Tabs, domains[u] = Domains \/ u \in cut
      PROVE  Fine(u)
  <2>1. ASSUME domains[u] = Domains PROVE domains'[u] = Domains
    <3>1. domains[u] \subseteq domains'[u] /\ domains'[u] \subseteq Domains
      OBVIOUS
    <3> QED
      BY <2>1, <3>1
  <2>2. ASSUME u \in cut PROVE u \in cut'
    BY <2>2
  <2> QED
    BY <1>2, <2>1, <2>2
<1>3. ASSUME NEW u \in Tabs, NEW i \in DOMAIN wire[u], wire[u][i].kind = "done",
             ~(u = t /\ k = 1 /\ i = 1),
             Domains \ domains[u] \subseteq Ahead[calls[wire[u][i].to].step]
      PROVE  Fine(u)
  <2>1. PICK d : d = wire[u][i].to
    OBVIOUS
  <2>2. wire[u][i].kind \in Replies
    BY <1>3 DEF Replies
  <2>3. /\ calls'[d].step = calls[d].step
        /\ \E j \in DOMAIN wire'[u] : wire'[u][j] = wire[u][i]
    BY <1>3, <2>1, <2>2, OldReply
  <2>4. PICK j \in DOMAIN wire'[u] : wire'[u][j] = wire[u][i]
    BY <2>3
  <2>5. /\ wire'[u][j].kind = "done"
        /\ calls'[wire'[u][j].to].step = calls[wire[u][i].to].step
    BY <1>3, <2>1, <2>3, <2>4
  <2>6. Domains \ domains'[u] \subseteq Domains \ domains[u]
    OBVIOUS
  <2>7. Domains \ domains'[u] \subseteq Ahead[calls'[wire'[u][j].to].step]
    BY <1>3, <2>5, <2>6
  <2> QED
    BY <2>4, <2>5, <2>7
<1>4. ASSUME NEW u \in Tabs, debuggee'[u] = "connector", debuggee[u] = "connector",
             ~(u = t /\ Asked)
      PROVE  Fine(u)
  <2>1. CASE domains[u] = Domains \/ u \in cut
    BY <1>2, <2>1
  <2>2. ASSUME NEW i \in DOMAIN wire[u], wire[u][i].kind = "done",
               Domains \ domains[u] \subseteq Ahead[calls[wire[u][i].to].step]
        PROVE  Fine(u)
    <3>1. CASE ~(u = t /\ k = 1 /\ i = 1)
      BY <1>3, <2>2, <3>1
    <3>2. CASE u = t /\ k = 1 /\ i = 1
      BY <1>4, <2>2, <3>2 DEF Replies
    <3> QED
      BY <3>1, <3>2
  <2> QED
    BY <1>4, <2>1, <2>2 DEF Missing
<1>5. ASSUME NEW u \in Tabs, debuggee'[u] = "connector"
      PROVE  Fine(u)
  <2>1. CASE u = t /\ Asked
    BY <1>1, <2>1
  <2>2. CASE ~(u = t /\ Asked)
    <3>1. debuggee[u] = "connector"
      BY <1>5, <2>2
    <3> QED
      BY <1>4, <1>5, <2>2, <3>1
  <2> QED
    BY <2>1, <2>2
<1> QED
  BY <1>5 DEF Missing

\* notices leave sessions as they are, or end them
LEMMA SessionNoticed ==
    ASSUME TypeOK, ReplyAwaited, DoneInSession, AttachedInSession, Missing, Noticed,
           \A d : Waiter(d) => Stays(d), UNCHANGED attachedTabs,
           \A u \in Tabs :
             /\ debuggee'[u] = "connector" =>
                  /\ debuggee[u] = "connector" /\ domains'[u] = domains[u]
                  /\ u \in cut => u \in cut'
             /\ debuggee[u] = "connector" => debuggee'[u] = "connector" \/ wire'[u] # wire[u]
    PROVE  DoneInSession' /\ AttachedInSession' /\ Missing'
<1>1. ASSUME NEW u \in Tabs
      PROVE  \/ wire'[u] = wire[u]
             \/ /\ Len(wire[u]) \in Nat /\ DOMAIN wire[u] = 1..Len(wire[u])
                /\ DOMAIN wire'[u] = 1..(Len(wire[u]) + 1)
                /\ \A i \in DOMAIN wire[u] : wire'[u][i] = wire[u][i]
                /\ wire'[u][Len(wire[u]) + 1].kind \in {"detached", "removed"}
  <2>1. wire[u] \in Seq(Message)
    BY TypeParts DEF DebuggerType
  <2>2. ASSUME NEW kind \in {"detached", "removed"},
               wire'[u] = Append(wire[u], [kind |-> kind, to |-> Nil])
        PROVE  /\ Len(wire[u]) \in Nat /\ DOMAIN wire[u] = 1..Len(wire[u])
               /\ DOMAIN wire'[u] = 1..(Len(wire[u]) + 1)
               /\ \A i \in DOMAIN wire[u] : wire'[u][i] = wire[u][i]
               /\ wire'[u][Len(wire[u]) + 1].kind \in {"detached", "removed"}
    BY <2>1, <2>2
  <2> QED
    BY <2>2 DEF Noticed
<1>2. DoneInSession'
  <2> SUFFICES ASSUME NEW u \in Tabs, NEW i \in DOMAIN wire'[u], wire'[u][i].kind = "done",
                      \A j \in DOMAIN wire'[u] : i < j => wire'[u][j].kind \in Replies
               PROVE  debuggee'[u] = "connector"
    BY DEF DoneInSession
  <2>1. CASE wire'[u] = wire[u]
    BY <2>1 DEF DoneInSession
  <2>2. CASE wire'[u] # wire[u]
    <3>1. /\ Len(wire[u]) \in Nat /\ i \in 1..(Len(wire[u]) + 1)
          /\ Len(wire[u]) + 1 \in DOMAIN wire'[u]
          /\ wire'[u][Len(wire[u]) + 1].kind \in {"detached", "removed"}
      BY <1>1, <2>2
    <3>2. i < Len(wire[u]) + 1
      BY <3>1
    <3> QED
      BY <3>1, <3>2 DEF Replies
  <2> QED
    BY <2>1, <2>2
<1>3. \A u \in Tabs : /\ Notice(u) => Notice(u)'
                      /\ wire'[u] # wire[u] => Notice(u)'
  <2> SUFFICES ASSUME NEW u \in Tabs
               PROVE  /\ Notice(u) => Notice(u)'
                      /\ wire'[u] # wire[u] => Notice(u)'
    OBVIOUS
  <2>1. CASE wire'[u] = wire[u]
    BY <2>1 DEF Notice
  <2>2. CASE wire'[u] # wire[u]
    <3>1. Len(wire[u]) + 1 \in DOMAIN wire'[u]
      BY <1>1, <2>2
    <3> QED
      BY <1>1, <2>2, <3>1 DEF Notice
  <2> QED
    BY <2>1, <2>2
<1>4. AttachedInSession'
  BY <1>3, TypeParts DEF AttachedInSession, DebuggerType
<1>5. Missing'
  <2> SUFFICES ASSUME NEW u \in Tabs, debuggee'[u] = "connector",
                      domains'[u] # Domains, u \notin cut'
               PROVE  \E i \in DOMAIN wire'[u] :
                        /\ wire'[u][i].kind = "done"
                        /\ Domains \ domains'[u] \subseteq Ahead[calls'[wire'[u][i].to].step]
    BY DEF Missing
  <2>1. PICK i \in DOMAIN wire[u] :
                        /\ wire[u][i].kind = "done"
                        /\ Domains \ domains[u] \subseteq Ahead[calls[wire[u][i].to].step]
    BY DEF Missing
  <2>2. PICK d : d = wire[u][i].to
    OBVIOUS
  <2>3. calls'[d].step = calls[d].step
    BY <2>1, <2>2 DEF ReplyAwaited, Stays, Replies
  <2>4. i \in DOMAIN wire'[u] /\ wire'[u][i] = wire[u][i]
    BY <1>1
  <2> QED
    BY <2>1, <2>2, <2>3, <2>4
<1> QED
  BY <1>2, <1>4, <1>5

(* The conjuncts under one step.                                           *)
LEMMA MovedBySend ==
    ASSUME DebuggerType, NEW t \in Tabs, NEW k \in {0, 1}, NEW queue, NEW kind, NEW to,
           \/ k = 0 /\ queue = wire[t]
           \/ k = 1 /\ wire[t] # <<>> /\ queue = Tail(wire[t]),
           Send(t, queue, kind, to)
    PROVE  Moved(t, k, 1, [kind |-> kind, to |-> to])
<1>1. /\ \A u \in Tabs \ {t} : wire'[u] = wire[u]
      /\ Len(wire[t]) \in Nat /\ Len(wire[t]) >= k
      /\ DOMAIN wire[t] = 1..Len(wire[t])
      /\ DOMAIN wire'[t] = 1..(Len(wire[t]) - k + 1)
      /\ \A i \in 1..(Len(wire[t]) - k) : wire'[t][i] = wire[t][i + k]
      /\ wire'[t][Len(wire[t]) - k + 1] = [kind |-> kind, to |-> to]
  BY WireSent
<1> QED
  BY <1>1 DEF Moved

\* to take a message is a move of the wire
LEMMA MovedByTaking ==
    ASSUME DebuggerType, NEW t \in Tabs, wire[t] # <<>>, Taken(t)
    PROVE  Moved(t, 1, 0, Nil)
  BY WireTaken DEF Moved

\* the message that is taken is the first
LEMMA FirstOnWire ==
    ASSUME DebuggerType, NEW t \in Tabs, wire[t] # <<>>
    PROVE  Head(wire[t]) = wire[t][1] /\ 1 \in DOMAIN wire[t]
  BY DEF DebuggerType

\* a step of one call leaves the others waiting for what they waited for
LEMMA OthersWait ==
    ASSUME TypeOK, NEW c, Steps(c)
    PROVE  \A d : Waiter(d) /\ d # c => Stays(d)
<1> SUFFICES ASSUME NEW d, Waiter(d), d # c
             PROVE  Stays(d)
  OBVIOUS
<1>1. c \in Calls /\ d \in Calls /\ Moves(c)
  BY DEF Steps, Waiter, Active
<1>2. calls'[d] = calls[d] /\ (d \in Active' <=> d \in Active)
  BY <1>1, TypeParts, OthersStay
<1> QED
  BY <1>2 DEF Stays, Waiter, Now

\* attachedTabs grows by a tab in session, and shrinks by word of its end
LEMMA AttachedMoved ==
    ASSUME TypeOK, AttachedInSession, NEW t \in Tabs, NEW k \in {0, 1}, NEW n \in {0, 1},
           NEW m, Moved(t, k, n, m),
           k = 1 => wire[t][1].kind \in Replies \/ t \notin attachedTabs',
           attachedTabs' \subseteq attachedTabs \cup {t},
           \A u \in Tabs : debuggee[u] = "connector" => debuggee'[u] = "connector",
           t \in attachedTabs' => t \in attachedTabs \/ Notice(t)' \/ debuggee'[t] = "connector"
    PROVE  AttachedInSession'
<1> SUFFICES ASSUME NEW u \in attachedTabs'
             PROVE  Notice(u)' \/ debuggee'[u] = "connector"
  BY DEF AttachedInSession
<1>1. CASE u # t
  <2>1. u \in attachedTabs /\ u \in Tabs
    BY <1>1, TypeParts DEF DebuggerType
  <2>2. Notice(u) => Notice(u)'
    BY <1>1, <2>1 DEF Notice, Moved
  <2> QED
    BY <2>1, <2>2 DEF AttachedInSession
<1>2. CASE u = t
  <2>1. ASSUME t \in attachedTabs, Notice(t)
        PROVE  Notice(t)'
    <3>1. PICK i \in DOMAIN wire[t] : wire[t][i].kind \in {"detached", "removed"}
      BY <2>1 DEF Notice
    <3>2. ~(k = 1 /\ i = 1)
      BY <1>2, <3>1 DEF Replies
    <3>3. /\ i \in 1..Len(wire[t]) /\ Len(wire[t]) \in Nat
          /\ DOMAIN wire'[t] = 1..(Len(wire[t]) - k + n)
          /\ \A j \in 1..(Len(wire[t]) - k) : wire'[t][j] = wire[t][j + k]
      BY <3>1 DEF Moved
    <3>4. i - k \in 1..(Len(wire[t]) - k) /\ (i - k) + k = i
      BY <3>2, <3>3
    <3>5. i - k \in DOMAIN wire'[t] /\ wire'[t][i - k] = wire[t][i]
      BY <3>3, <3>4
    <3> QED
      BY <3>1, <3>5 DEF Notice
  <2> QED
    BY <1>2, <2>1 DEF AttachedInSession
<1> QED
  BY <1>1, <1>2

DebuggerInv == ReplyAwaited /\ OneReply /\ DoneInSession /\ AttachedInSession /\ Missing

\* an attach asks for one reply, in a session or with word of its end
LEMMA DebuggerAttach ==
    ASSUME TypeOK, DebuggerInv, NEW c \in Calls, EnsureDebugger(c), Attach(c, Now(c).tab)
    PROVE  DebuggerInv'
<1> USE TypeParts
<1> DEFINE t == Now(c).tab
<1>1. c \in Active /\ t \in Tabs /\ calls[c].step = "begin"
  BY ToolsTarget DEF EnsureDebugger, At, Tools, Logs, Untargeted
<1>2. PICK kind \in {"done", "refused"} :
        /\ Send(t, wire[t], kind, c)
        /\ kind = "done" <=> tab[t] = "open" /\ debuggee[t] = "nobody"
  BY DEF Attach
<1>3. /\ debuggee' = [debuggee EXCEPT ![t] = IF kind = "done" THEN "connector" ELSE @]
      /\ UNCHANGED <<domains, cut, attachedTabs>>
  BY <1>2 DEF Attach
<1>4. ~Waiter(c) /\ UNCHANGED page
  BY <1>1 DEF Waiter, Waiting, EnsureDebugger, pageVars
<1>5. Steps(c) /\ Waiter(c)' /\ calls'[c].step = "attach" /\ Now(c)'.tab = t
  <2>1. CASE Goes(c, "attach", Nil)
    <3>1. /\ c \in Active' /\ calls'[c].step = "attach" /\ calls'[c].at = calls[c].at
          /\ calls'[c].request = calls[c].request
      BY <1>1, <2>1, GoesEffect DEF Step, Same
    <3>2. Now(c)' = Now(c)
      BY <3>1 DEF Now
    <3> QED
      BY <1>1, <1>4, <2>1, <3>1, <3>2, GoesSteps DEF Step, Waiter, Waiting
  <2>2. CASE UNCHANGED debuggerVars
    <3>1. Len(wire'[t]) = Len(wire[t]) + 1 /\ wire'[t] = wire[t] /\ Len(wire[t]) \in Nat
      BY <1>1, <1>2, <2>2 DEF Send, DebuggerType, debuggerVars
    <3> QED
      BY <3>1
  <2> QED
    BY <2>1, <2>2 DEF EnsureDebugger, Goto
<1> HIDE DEF t
<1> DEFINE m == [kind |-> kind, to |-> c]
<1>6. Moved(t, 0, 1, m)
  BY <1>1, <1>2, MovedBySend
<1>7. m.kind = kind /\ m.to = c
  OBVIOUS
<1> HIDE DEF m
<1>8. \A d : Waiter(d) /\ d # c => Stays(d)
  BY <1>5, OthersWait
<1>9. /\ \A u \in Tabs : debuggee[u] = "connector" => debuggee'[u] = "connector"
      /\ \A u \in Tabs \ {t} : debuggee'[u] = debuggee[u]
      /\ kind = "done" => debuggee'[t] = "connector"
      /\ debuggee'[t] = "connector" => debuggee[t] = "connector" \/ kind = "done"
  BY <1>1, <1>3 DEF DebuggerType
<1>10. ReplyAwaited' /\ OneReply'
  BY <1>1, <1>4, <1>5, <1>6, <1>7, <1>8, RepliesMoved DEF DebuggerInv
<1>11. DoneInSession'
  BY <1>1, <1>6, <1>7, <1>9, DoneMoved DEF DebuggerInv, Replies
<1>12. AttachedInSession'
  BY <1>1, <1>3, <1>6, <1>9, AttachedMoved DEF DebuggerInv
<1>13. domains' = domains /\ cut' = cut /\ \A u \in Tabs : domains[u] \subseteq Domains
  BY <1>3 DEF DebuggerType
<1>14. Missing'
  <2>1. Domains \ domains'[t] \subseteq Ahead[calls'[c].step]
    BY <1>5, <1>13 DEF Ahead
  <2> QED
    BY <1>1, <1>4, <1>6, <1>7, <1>8, <1>9, <1>13, <2>1, MissingMoved DEF DebuggerInv
<1> QED
  BY <1>10, <1>11, <1>12, <1>14 DEF DebuggerInv

\* a reply sends the next command and waits for the next reply
LEMMA DebuggerEnable ==
    ASSUME TypeOK, DebuggerInv, NEW t \in Tabs, Reply(t), calls[Head(wire[t]).to].step # "Page"
    PROVE  DebuggerInv'
<1> USE TypeParts
<1>1. PICK c : c = Head(wire[t]).to
  OBVIOUS
<1>2. /\ wire[t] # <<>> /\ Head(wire[t]).kind = "done" /\ c \in Active
      /\ calls[c].step \in DOMAIN NextDomain
      /\ Enable(c, t, NextDomain[calls[c].step], Tail(wire[t]))
      /\ Goes(c, NextDomain[calls[c].step], Nil) /\ UNCHANGED page
  BY <1>1 DEF Reply, Received, Goto, pageVars
<1>3. /\ wire[t][1].kind = "done" /\ wire[t][1].to = c /\ 1 \in DOMAIN wire[t]
      /\ wire[t][1].kind \in Replies
  BY <1>1, <1>2, FirstOnWire DEF Replies
<1>4. PICK domain : domain = NextDomain[calls[c].step]
  OBVIOUS
<1>5. domain \in Domains /\ domain \in Step /\ domain \in Waiting /\ domain # "attach"
  BY <1>2, <1>4 DEF NextDomain, Domains, Step, Waiting
<1>6. Now(c).tab = t
  BY <1>3 DEF DebuggerInv, ReplyAwaited
<1>7. /\ Steps(c) /\ c \in Active' /\ calls'[c].step = domain /\ calls'[c].at = calls[c].at
      /\ calls'[c].request = calls[c].request
  BY <1>2, <1>4, <1>5, GoesSteps, GoesEffect DEF Same
<1>8. Waiter(c)' /\ Now(c)'.tab = t
  <2>1. Now(c)' = Now(c)
    BY <1>7 DEF Now
  <2> QED
    BY <1>5, <1>6, <1>7, <2>1 DEF Waiter
<1>9. \A d : Waiter(d) /\ d # c => Stays(d)
  BY <1>7, OthersWait
<1>10. PICK kind \in {"done", "refused"} :
         /\ Send(t, Tail(wire[t]), kind, c)
         /\ kind = "done" => /\ debuggee[t] = "connector" /\ cut' = cut
                             /\ domains' = [domains EXCEPT ![t] = @ \cup {domain}]
         /\ kind # "done" => /\ domains' = domains /\ cut \subseteq cut'
                             /\ debuggee[t] = "connector" => t \in cut'
  BY <1>2, <1>4 DEF Enable, Enabled, NoSession, Cut
<1>11. UNCHANGED <<tab, debuggee, attachedTabs>>
  BY <1>2 DEF Enable
<1> DEFINE m == [kind |-> kind, to |-> c]
<1>12. Moved(t, 1, 1, m)
  BY <1>2, <1>10, MovedBySend
<1>13. m.kind = kind /\ m.to = c /\ m.kind \in Replies
  BY DEF Replies
<1> HIDE DEF m
<1>14. ReplyAwaited' /\ OneReply'
  BY <1>3, <1>8, <1>9, <1>12, <1>13, RepliesMoved DEF DebuggerInv
<1>15. DoneInSession'
  BY <1>10, <1>11, <1>12, <1>13, DoneMoved DEF DebuggerInv
<1>16. AttachedInSession'
  BY <1>3, <1>11, <1>12, AttachedMoved DEF DebuggerInv
<1>17. /\ \A u \in Tabs : domains[u] \subseteq domains'[u] /\ domains'[u] \subseteq Domains
       /\ cut \subseteq cut'
       /\ kind = "done" => domains'[t] = domains[t] \cup {domain}
  BY <1>5, <1>10 DEF DebuggerType
<1>18. Missing'
  <2>1. ASSUME kind = "done", Domains \ domains[t] \subseteq Ahead[calls[c].step]
        PROVE  Domains \ domains'[t] \subseteq Ahead[calls'[c].step]
    <3>1. Ahead[calls[c].step] \ {domain} \subseteq Ahead[domain]
      BY <1>2, <1>4 DEF Ahead, NextDomain, Domains
    <3> QED
      BY <1>7, <1>17, <2>1, <3>1
  <2>2. kind # "done" /\ debuggee'[t] = "connector" => t \in cut'
    BY <1>10, <1>11
  <2>3. debuggee'[t] = "connector" =>
             /\ debuggee[t] = "connector"
             /\ Domains \ domains[t] \subseteq Ahead[calls[c].step]
                   => \/ t \in cut'
                      \/ /\ m.kind = "done" /\ m.to = c
                         /\ Domains \ domains'[t] \subseteq Ahead[calls'[c].step]
    BY <1>11, <1>13, <2>1, <2>2
  <2> QED
    BY <1>3, <1>9, <1>11, <1>12, <1>17, <2>3, MissingMoved DEF DebuggerInv
<1> QED
  BY <1>14, <1>15, <1>16, <1>18 DEF DebuggerInv

(* The last reply, or debugger_conflict.                                   *)
LEMMA DebuggerAnswered ==
    ASSUME TypeOK, DebuggerInv, NEW t \in Tabs,
           \/ Reply(t) /\ calls[Head(wire[t]).to].step = "Page"
           \/ Conflict(t)
    PROVE  DebuggerInv'
<1> USE TypeParts
<1>1. PICK c : c = Head(wire[t]).to
  OBVIOUS
<1>2. /\ wire[t] # <<>> /\ Head(wire[t]).kind \in Replies /\ Taken(t)
      /\ UNCHANGED <<tab, debuggee, domains, cut>>
      /\ \/ /\ Head(wire[t]).kind = "done" /\ calls[c].step = "Page"
            /\ attachedTabs' = attachedTabs \cup {t}
         \/ Head(wire[t]).kind = "refused" /\ UNCHANGED attachedTabs
  BY <1>1 DEF Reply, Conflict, Received, Replies, NextDomain
<1>3. /\ Head(wire[t]) = wire[t][1] /\ 1 \in DOMAIN wire[t]
      /\ wire[t][1].kind \in Replies /\ wire[t][1].to = c
  BY <1>1, <1>2, FirstOnWire
<1>4. \A d : Waiter(d) /\ d # c => Stays(d)
  BY <1>1, ReplySteps, OthersWait
<1>5. Moved(t, 1, 0, Nil)
  BY <1>2, MovedByTaking
<1>6. ReplyAwaited' /\ OneReply'
  BY <1>3, <1>4, <1>5, RepliesMoved DEF DebuggerInv
<1>7. DoneInSession'
  BY <1>2, <1>5, DoneMoved DEF DebuggerInv
<1>8. ASSUME Head(wire[t]).kind = "done"
      PROVE  Notice(t)' \/ debuggee'[t] = "connector"
  <2>1. CASE \A j \in DOMAIN wire[t] : 1 < j => wire[t][j].kind \in Replies
    BY <1>2, <1>3, <1>8, <2>1 DEF DebuggerInv, DoneInSession
  <2>2. ASSUME NEW j \in DOMAIN wire[t], 1 < j, wire[t][j].kind \notin Replies
        PROVE  Notice(t)'
    <3>1. /\ j \in 1..Len(wire[t]) /\ Len(wire[t]) \in Nat
          /\ DOMAIN wire'[t] = 1..(Len(wire[t]) - 1)
          /\ \A i \in 1..(Len(wire[t]) - 1) : wire'[t][i] = wire[t][i + 1]
      BY <1>5 DEF Moved
    <3>2. j - 1 \in 1..(Len(wire[t]) - 1) /\ (j - 1) + 1 = j
      BY <2>2, <3>1
    <3>3. j - 1 \in DOMAIN wire'[t] /\ wire'[t][j - 1] = wire[t][j]
      BY <3>1, <3>2
    <3>4. wire[t][j] \in Message
      BY <2>2 DEF DebuggerType
    <3>5. wire[t][j].kind \in {"detached", "removed"}
      BY <2>2, <3>4 DEF Message, Replies
    <3> QED
      BY <3>3, <3>5 DEF Notice
  <2> QED
    BY <2>1, <2>2
<1>9. AttachedInSession'
  BY <1>2, <1>3, <1>5, <1>8, AttachedMoved DEF DebuggerInv
<1>10. Missing'
  <2>1. /\ \A u \in Tabs : domains[u] \subseteq domains'[u] /\ domains'[u] \subseteq Domains
        /\ cut \subseteq cut' /\ debuggee' = debuggee
    BY <1>2 DEF DebuggerType
  <2>2. wire[t][1].kind = "done" /\ Domains \ domains[t] \subseteq Ahead[calls[c].step]
          => domains'[t] = Domains
    <3> SUFFICES ASSUME wire[t][1].kind = "done",
                        Domains \ domains[t] \subseteq Ahead[calls[c].step]
                 PROVE  domains'[t] = Domains
      OBVIOUS
    <3>1. calls[c].step = "Page"
      BY <1>2, <1>3
    <3>2. Ahead["Page"] = {}
      BY DEF Ahead
    <3>3. Domains \ domains[t] \subseteq {} /\ domains[t] \subseteq Domains
      BY <3>1, <3>2, <2>1
    <3>4. domains'[t] = domains[t]
      BY <1>2
    <3> QED
      BY <3>3, <3>4
  <2> QED
    BY <1>3, <1>4, <1>5, <2>1, <2>2, MissingMoved DEF DebuggerInv
<1> QED
  BY <1>6, <1>7, <1>9, <1>10 DEF DebuggerInv

(* onDetach, onRemoved.                                                    *)
LEMMA DebuggerHeard ==
    ASSUME TypeOK, DebuggerInv, NEW t \in Tabs, Detached(t) \/ Removed(t)
    PROVE  DebuggerInv'
<1> USE TypeParts
<1>1. /\ wire[t] # <<>> /\ Head(wire[t]).kind \notin Replies /\ Taken(t)
      /\ UNCHANGED <<tab, debuggee, domains, cut, calls>> /\ attachedTabs' = attachedTabs \ {t}
  BY DEF Detached, Removed, Received, Replies, callVars
<1>2. Head(wire[t]) = wire[t][1] /\ wire[t][1].kind \notin Replies
  BY <1>1, FirstOnWire
<1>3. \A d : Waiter(d) => Stays(d)
  BY <1>1 DEF Waiter, Stays, Active, Now
<1>4. ~Waiter(Nil)
  BY Constants DEF Waiter, Active
<1>5. Moved(t, 1, 0, Nil)
  BY <1>1, MovedByTaking
<1>6. ReplyAwaited' /\ OneReply'
  BY <1>3, <1>4, <1>5, RepliesMoved DEF DebuggerInv
<1>7. DoneInSession'
  BY <1>1, <1>5, DoneMoved DEF DebuggerInv
<1>8. AttachedInSession'
  BY <1>1, <1>5, AttachedMoved DEF DebuggerInv
<1>9. Missing'
  <2>1. /\ \A u \in Tabs : domains[u] \subseteq domains'[u] /\ domains'[u] \subseteq Domains
        /\ cut \subseteq cut' /\ debuggee' = debuggee
    BY <1>1 DEF DebuggerType
  <2>2. wire[t][1].kind # "done"
    BY <1>2 DEF Replies
  <2> QED
    BY <1>2, <1>3, <1>4, <1>5, <2>1, <2>2, MissingMoved DEF DebuggerInv
<1> QED
  BY <1>6, <1>7, <1>8, <1>9 DEF DebuggerInv

(* What comes to a call or to a tab from outside.                          *)
LEMMA DebuggerNoticed ==
    ASSUME TypeOK, DebuggerInv, \A d : Waiter(d) => Stays(d),
           \/ UNCHANGED <<tab, debuggee, domains, cut, wire, attachedTabs>>
           \/ \E c \in Calls, t \in Tabs : Create(c, t)
           \/ \E t \in Tabs : Gone(t) /\ UNCHANGED attachedTabs
           \/ \E t \in Tabs : Cancel(t) \/ Another(t)
           \/ DetachListed
    PROVE  DebuggerInv'
<1> USE TypeParts
<1> DEFINE Ended ==
      /\ Noticed /\ UNCHANGED attachedTabs
      /\ \A u \in Tabs :
           /\ debuggee'[u] = "connector" =>
                /\ debuggee[u] = "connector" /\ domains'[u] = domains[u]
                /\ u \in cut => u \in cut'
           /\ debuggee[u] = "connector" => debuggee'[u] = "connector" \/ wire'[u] # wire[u]
<1>1. ASSUME Ended PROVE DebuggerInv'
  BY <1>1, RepliesNoticed, SessionNoticed DEF DebuggerInv
<1>2. \A u \in Tabs : \A m : Append(wire[u], m) # wire[u]
  <2> SUFFICES ASSUME NEW u \in Tabs, NEW m
               PROVE  Append(wire[u], m) # wire[u]
    OBVIOUS
  <2>1. wire[u] \in Seq(Message)
    BY DEF DebuggerType
  <2>2. Len(Append(wire[u], m)) = Len(wire[u]) + 1 /\ Len(wire[u]) \in Nat
    BY <2>1
  <2> QED
    BY <2>2
<1>3. CASE UNCHANGED <<tab, debuggee, domains, cut, wire, attachedTabs>>
  BY <1>1, <1>3 DEF Noticed
<1>4. CASE \E c \in Calls, t \in Tabs : Create(c, t)
  BY <1>1, <1>4 DEF Noticed, Create
<1>5. ASSUME NEW t \in Tabs, End({t}, "nobody"), NEW kind \in {"detached", "removed"},
             Send(t, wire[t], kind, Nil), UNCHANGED attachedTabs
      PROVE  Ended
  <2>1. wire' = [wire EXCEPT ![t] = Append(wire[t], [kind |-> kind, to |-> Nil])]
    BY <1>5 DEF Send
  <2>2. Noticed
    BY <1>5, <2>1 DEF Noticed, DebuggerType
  <2>3. ASSUME NEW u \in Tabs
        PROVE  /\ debuggee'[u] = "connector" =>
                    /\ debuggee[u] = "connector" /\ domains'[u] = domains[u]
                    /\ u \in cut => u \in cut'
               /\ debuggee[u] = "connector" => debuggee'[u] = "connector" \/ wire'[u] # wire[u]
    <3>1. CASE u = t
      BY <1>2, <1>5, <2>1, <3>1 DEF End, DebuggerType
    <3>2. CASE u # t
      BY <1>5, <3>2 DEF End, DebuggerType
    <3> QED
      BY <3>1, <3>2
  <2> QED
    BY <1>5, <2>2, <2>3
<1>6. CASE \E t \in Tabs : (Gone(t) /\ UNCHANGED attachedTabs) \/ Cancel(t)
  <2>1. Ended
    BY <1>5, <1>6 DEF Gone, Cancel
  <2> QED
    BY <1>1, <2>1
<1>7. CASE \E t \in Tabs : Another(t)
  BY <1>1, <1>7 DEF Another, Noticed, DebuggerType
<1>8. ASSUME DetachListed
      PROVE  Ended
  <2> DEFINE tabs == release.listed[release.now]
             over == {t \in tabs : debuggee[t] = "connector"}
  <2>1. tabs \in SUBSET Tabs /\ Detach(tabs)
    BY <1>8, ListedTabs
  <2> HIDE DEF tabs
  <2>2. /\ \A u \in Tabs :
             /\ debuggee'[u] = IF u \in over THEN "nobody" ELSE debuggee[u]
             /\ domains'[u] = IF u \in over THEN {} ELSE domains[u]
             /\ wire'[u] = IF u \in tabs THEN Append(wire[u], [kind |-> "detached", to |-> Nil])
                           ELSE wire[u]
        /\ cut' = cut \ over /\ UNCHANGED attachedTabs
    BY <2>1 DEF Detach, End
  <2>3. Noticed
    BY <2>2 DEF Noticed
  <2> QED
    BY <1>2, <2>2, <2>3
<1> HIDE DEF Ended
<1> QED
  BY <1>1, <1>3, <1>4, <1>6, <1>7, <1>8

\* every step keeps the debugger's invariant
LEMMA DebuggerStep ==
    ASSUME TypeOK, DebuggerInv, [Next]_vars
    PROVE  DebuggerInv'
<1>1. CASE \E t \in Tabs : Reply(t) \/ Conflict(t) \/ Detached(t) \/ Removed(t)
  BY <1>1, DebuggerEnable, DebuggerAnswered, DebuggerHeard
<1>2. CASE \E c \in Calls : EnsureDebugger(c) /\ Attach(c, Now(c).tab)
  BY <1>2, DebuggerAttach
<1>3. CASE Restart
  <2>1. /\ wire' = [t \in Tabs |-> <<>>] /\ attachedTabs' = {}
        /\ UNCHANGED debuggee /\ \A t \in Tabs : debuggee[t] # "connector"
    BY <1>3 DEF Restart
  <2> QED
    BY <2>1 DEF DebuggerInv, ReplyAwaited, OneReply, DoneInSession, AttachedInSession, Missing
<1>4. CASE ~(\E t \in Tabs : Reply(t) \/ Conflict(t)) /\ ~Restart
  <2>1. \A d : Waiter(d) => Stays(d)
    BY <1>4, WaiterStays
  <2>2. \/ UNCHANGED <<tab, debuggee, domains, cut, wire, attachedTabs>>
        \/ \E c \in Calls, t \in Tabs : Create(c, t)
        \/ \E t \in Tabs : Gone(t) /\ UNCHANGED attachedTabs
        \/ \E t \in Tabs : Cancel(t) \/ Another(t)
        \/ DetachListed
        \/ \E t \in Tabs : Detached(t) \/ Removed(t)
        \/ \E c \in Calls : EnsureDebugger(c) /\ Attach(c, Now(c).tab)
    BY <1>4, DebuggerSteps
  <2> QED
    BY <1>1, <1>2, <2>1, <2>2, DebuggerNoticed
<1> QED
  BY <1>1, <1>3, <1>4

\* with it, an attached tab has the three domains, or word is on its way
LEMMA DebuggerImplies ==
    ASSUME TypeOK, DebuggerInv
    PROVE  AttachedIsEnabled
<1> USE TypeParts
<1> SUFFICES ASSUME NEW t \in attachedTabs, ~Notice(t)
             PROVE  /\ debuggee[t] = "connector"
                    /\ domains[t] = Domains \/ Enabling(t) # {} \/ t \in cut
  BY DEF AttachedIsEnabled
<1>1. t \in Tabs /\ debuggee[t] = "connector"
  BY DEF DebuggerInv, AttachedInSession, DebuggerType
<1>2. ASSUME NEW i \in DOMAIN wire[t], wire[t][i].kind = "done"
      PROVE  Enabling(t) # {}
  <2>1. Waiter(wire[t][i].to) /\ Now(wire[t][i].to).tab = t
    BY <1>1, <1>2 DEF DebuggerInv, ReplyAwaited, Replies
  <2> QED
    BY <2>1 DEF Waiter, Enabling
<1> QED
  BY <1>1, <1>2 DEF DebuggerInv, Missing

(* A tab taken for attached is, with the three domains, unless word of the *)
(* end is on its way, a call is still enabling, or a page broke one off.   *)
THEOREM AttachedAreEnabled == Spec => []AttachedIsEnabled
<1>1. Init => TypeOK /\ DebuggerInv
  <2>1. Init => /\ wire = [t \in Tabs |-> <<>>] /\ attachedTabs = {}
                /\ debuggee = [t \in Tabs |-> "nobody"]
    BY DEF Init, DebuggerInit
  <2> QED
    BY <2>1, InitTyped DEF DebuggerInv, ReplyAwaited, OneReply, DoneInSession, AttachedInSession,
                           Missing
<1>2. TypeOK /\ DebuggerInv /\ [Next]_vars => DebuggerInv'
  BY DebuggerStep
<1>3. TypeOK /\ DebuggerInv => AttachedIsEnabled
  BY DebuggerImplies
<1> QED
  BY <1>1, <1>2, <1>3, ControllerTypeCorrect, PTL DEF Spec

-----------------------------------------------------------------------------
(* Groups: a tab and its group have one maker, and so have a key and the   *)
(* group it is mapped to.                                                  *)

FoundingSteps == {"created", "group", "title"}

\* a call that has made a tab is at that tab, or at a group of its own key
Founds(c) == calls[c].step \in FoundingSteps => calls[c].on \in Tabs /\ owner[calls[c].on] = Key(c)

GroupInv ==
    /\ \A t \in Tabs : tab[t] = "unused" => owner[t] = Nil
    /\ \A t \in Tabs : group[t] # Nil => owner[t] # Nil /\ owner[group[t]] = owner[t]
    /\ \A k \in Keys : groupIds[k] # Nil => owner[groupIds[k]] = k
    /\ \A c \in Active : Founds(c)

\* the call stays at its tab, or goes to the group that its key has
Led(c) ==
    /\ c \in Active /\ calls[c].step \in FoundingSteps
    /\ \/ calls'[c].on = calls[c].on
       \/ groupIds[Key(c)] # Nil /\ calls'[c].on = groupIds[Key(c)]

(* Where such a call comes from.                                           *)
LEMMA GoesFounding ==
    ASSUME TypeOK, NEW c \in Active, NEW step \in Step, NEW on \in Tabs \cup {Nil},
           Goes(c, step, on), calls'[c].step \in FoundingSteps
    PROVE  step \in FoundingSteps /\ calls'[c].on = on
  BY TypeParts, GoesEffect

\* after an action a call begins the next, and founds nothing
LEMMA OverFounding ==
    ASSUME TypeOK, NEW c \in Active, NEW ok \in BOOLEAN, NEW tabs \in SUBSET Tabs,
           OverWith(c, ok, tabs), c \in Active'
    PROVE  calls'[c].step = "begin"
  BY TypeParts, OverEffect DEF GoesOn, Answered

\* also when the action changed no tabs
LEMMA OverSameFounding ==
    ASSUME TypeOK, NEW c \in Active, NEW ok \in BOOLEAN, Over(c, ok), c \in Active'
    PROVE  calls'[c].step = "begin"
<1>1. calls[c].controlled \in SUBSET Tabs
  BY TypeParts, ActiveCall
<1> QED
  BY <1>1, OverFounding DEF Over

\* a call comes to found a group by making a tab, or was at it
LEMMA FoundingStep ==
    ASSUME TypeOK, NEW c \in Calls, CallStep(c), c \in Active', calls'[c].step \in FoundingSteps
    PROVE  \/ \E t \in Tabs : Create(c, t)
           \/ Group(c) /\ Led(c)
<1> USE TypeParts
<1>1. ~\E s \in Sessions, r \in Requests : Begin(c, s, r)
  BY DEF Begin, CallType, FoundingSteps
<1>2. ~EnsureDebugger(c) /\ ~Script(c)
  BY GoesFounding DEF EnsureDebugger, Script, At, Step, FoundingSteps, Goto
<1>3. /\ ~(Unbatchable(c) \/ Act(c) \/ CreateNone(c) \/ ReadLog(c))
      /\ ~(ReadPage(c) \/ Query(c) \/ Rename(c))
  <2>1. \/ Unbatchable(c) \/ Act(c) \/ CreateNone(c) \/ ReadLog(c)
        \/ ReadPage(c) \/ Query(c) \/ Rename(c)
        => c \in Active /\ \E ok \in BOOLEAN : Over(c, ok)
    BY DEF Unbatchable, Act, CreateNone, ReadLog, ReadPage, Query, Rename, At
  <2> QED
    BY <2>1, OverSameFounding DEF FoundingSteps
<1>4. CASE Group(c)
  <2>1. /\ c \in Active /\ calls[c].step = "created"
        /\ \/ groupIds[Key(c)] # Nil /\ Goes(c, "group", groupIds[Key(c)])
           \/ Goes(c, "title", calls[c].on)
           \/ Goes(c, "query", Nil)
    BY <1>4 DEF Group, At, Join, Goto
  <2>2. ~Goes(c, "query", Nil)
    BY <2>1, GoesFounding DEF Step, FoundingSteps
  <2> QED
    BY <1>4, <2>1, <2>2, OnTyped, GoesFounding DEF Step, FoundingSteps, Led
<1>5. ~CloseTab(c)
  <2>1. ASSUME CloseTab(c) PROVE FALSE
    <3>1. c \in Active /\ OverWith(c, TRUE, calls[c].controlled \ {Now(c).tab})
      BY <2>1 DEF CloseTab, At
    <3>2. calls[c].controlled \ {Now(c).tab} \in SUBSET Tabs
      BY <3>1, ActiveCall
    <3> QED
      BY <3>1, <3>2, OverFounding DEF FoundingSteps
  <2> QED
    BY <2>1
<1>6. ASSUME NEW name \in Labels, SaveLabel(c, name)
      PROVE  FALSE
  <2>1. calls'[c] = [calls[c] EXCEPT !.step = "label", !.label = name] /\ calls[c] \in Call
    BY <1>6, ActiveCall DEF SaveLabel, At, CallType
  <2> QED
    BY <2>1 DEF Call, FoundingSteps
<1>7. ~Title(c)
  BY GoesFounding DEF Title, At, Step, FoundingSteps, Goto
<1> QED
  BY <1>1, <1>2, <1>3, <1>4, <1>5, <1>6, <1>7 DEF CallStep

\* the same of every step
LEMMA FoundingCourse ==
    ASSUME TypeOK, [Next]_vars, NEW d \in Active', calls'[d].step \in FoundingSteps
    PROVE  \/ \E t \in Tabs : Create(d, t)
           \/ Led(d) /\ Key(d)' = Key(d) /\ (Group(d) \/ calls'[d].step = calls[d].step)
<1> USE TypeParts
<1> DEFINE Goal == Led(d) /\ (Group(d) \/ calls'[d].step = calls[d].step)
<1>1. d \in Calls
  BY DEF Active
<1>2. calls'[d] = calls[d] => Goal
  BY <1>1 DEF Active, Led
<1>3. ASSUME NEW t \in Tabs, Reply(t) \/ Conflict(t), Head(wire[t]).to = d
      PROVE  Goal
  <2>1. \A step \in DOMAIN NextDomain : NextDomain[step] \in Waiting
    BY DEF NextDomain, Waiting
  <2>2. d \in Active /\ (\/ \E step \in Waiting \cup {"act"} : Goes(d, step, Nil)
                         \/ Over(d, FALSE))
    BY <1>3, <2>1 DEF Reply, Conflict, Goto
  <2> QED
    BY <2>2, GoesFounding, OverSameFounding DEF Waiting, Step, FoundingSteps
<1>4. ASSUME NEW t \in Tabs, NEW words \in Targets, PageChanges(t, words)
      PROVE  Goal
  <2>1. d \in Active /\ calls'[d] = [calls[d] EXCEPT !.changed = TRUE] /\ calls[d] \in Call
    BY <1>1, <1>4, ActiveCall DEF PageChanges, Active
  <2> QED
    BY <2>1 DEF Call, Led
<1>5. ~Restart
  BY DEF Restart, Active, Step
<1>6. Goal \/ \E t \in Tabs : Create(d, t)
  BY <1>1, <1>2, <1>3, <1>4, <1>5, Course, FoundingStep
<1>7. d \in Active => Key(d)' = Key(d)
  BY CallCourse DEF Key
<1> QED
  BY <1>6, <1>7 DEF Led

(* Unless a tab gets its maker, such a call keeps to its tab and its key.  *)
LEMMA FoundsKept ==
    ASSUME TypeOK, GroupInv, [Next]_vars, ~\E c \in Calls, t \in Tabs : Create(c, t),
           UNCHANGED owner, NEW d \in Active', calls'[d].step \in FoundingSteps
    PROVE  calls'[d].on \in Tabs /\ owner'[calls'[d].on] = Key(d)'
<1>1. d \in Calls
  BY DEF Active
<1>2. Led(d) /\ Key(d)' = Key(d)
  BY <1>1, FoundingCourse
<1>3. d \in Active /\ calls[d].on \in Tabs /\ owner[calls[d].on] = Key(d)
  BY <1>2 DEF Led, GroupInv, Founds
<1>4. groupIds[Key(d)] # Nil => groupIds[Key(d)] \in Tabs /\ owner[groupIds[Key(d)]] = Key(d)
  BY <1>3, TypeParts, KeyTyped DEF GroupInv, GroupType
<1> QED
  BY <1>2, <1>3, <1>4 DEF Led

(* A step that gives no tab a group, a maker or a number in the Map.       *)
LEMMA GroupsLeft ==
    ASSUME TypeOK, GroupInv, [Next]_vars, ~\E c \in Calls, t \in Tabs : Create(c, t),
           UNCHANGED owner,
           \A t \in Tabs : tab'[t] = "unused" => tab[t] = "unused",
           \A t \in Tabs : group'[t] = group[t] \/ group'[t] = Nil,
           \A k \in Keys : groupIds'[k] = groupIds[k] \/ groupIds'[k] = Nil
    PROVE  GroupInv'
<1>1. ASSUME NEW d \in Active' PROVE Founds(d)'
  BY <1>1, FoundsKept DEF Founds
<1> QED
  BY <1>1 DEF GroupInv

\* a tab that is made has the maker its call has
LEMMA GroupsCreate ==
    ASSUME TypeOK, GroupInv, [Next]_vars, NEW c \in Calls, NEW t \in Tabs, Create(c, t)
    PROVE  GroupInv'
<1> USE TypeParts
<1>1. /\ c \in Active /\ tab[t] = "unused" /\ UNCHANGED <<group, groupIds>>
      /\ owner' = [owner EXCEPT ![t] = Key(c)] /\ tab' = [tab EXCEPT ![t] = "open"]
  BY DEF Create, At, Key
<1>2. owner[t] = Nil /\ Key(c) \in Keys /\ Key(c) # Nil /\ \A k \in Keys : k # Nil
  BY <1>1, KeyTyped, Constants DEF GroupInv
<1>3. \A k \in Keys : groupIds[k] # Nil => groupIds[k] # t
  BY <1>2 DEF GroupInv
<1>4. \A u \in Tabs : group[u] # Nil => u # t /\ group[u] # t
  BY <1>2 DEF GroupInv
<1>5. \A u \in Tabs : owner'[u] = IF u = t THEN Key(c) ELSE owner[u]
  BY <1>1 DEF GroupType
<1>6. ASSUME NEW d \in Active', calls'[d].step \in FoundingSteps
      PROVE  calls'[d].on \in Tabs /\ owner'[calls'[d].on] = Key(d)'
  <2>1. CASE d = c
    <3>1. calls[c] \in Call
      BY <1>1, ActiveCall
    <3>2. calls'[c].on = t /\ calls'[c].session = calls[c].session
          /\ calls'[c].request = calls[c].request
      BY <3>1 DEF Create, Call, CallType
    <3> QED
      BY <1>1, <1>5, <2>1, <3>2 DEF Key
  <2>2. CASE d # c
    <3>1. calls'[d] = calls[d] /\ d \in Active
      BY <1>6, <2>2 DEF Create, CallType, Active
    <3>2. calls[d].on \in Tabs /\ owner[calls[d].on] = Key(d) /\ Key(d) \in Keys
      BY <1>6, <3>1, KeyTyped DEF GroupInv, Founds
    <3>3. calls[d].on # t
      BY <1>2, <3>2
    <3> QED
      BY <1>5, <3>1, <3>2, <3>3 DEF Key
  <2> QED
    BY <2>1, <2>2
<1>7. ASSUME NEW u \in Tabs, group[u] # Nil
      PROVE  owner'[u] # Nil /\ owner'[group[u]] = owner'[u]
  BY <1>4, <1>5, <1>7 DEF GroupInv, GroupType
<1>8. \A k \in Keys : groupIds[k] # Nil => owner'[groupIds[k]] = k
  BY <1>3, <1>5 DEF GroupInv, GroupType
<1>9. \A u \in Tabs : tab'[u] = "unused" => owner'[u] = Nil
  BY <1>1, <1>5 DEF GroupInv, DebuggerType
<1> QED
  BY <1>1, <1>6, <1>7, <1>8, <1>9 DEF GroupInv, Founds

(* ensureTabGroup.                                                         *)
LEMMA GroupsGroup ==
    ASSUME TypeOK, GroupInv, [Next]_vars, NEW c \in Calls, Group(c) \/ Title(c)
    PROVE  GroupInv'
<1> USE TypeParts
<1>1. c \in Active /\ Key(c) \in Keys /\ UNCHANGED <<tab, owner>>
  BY KeyTyped DEF Group, Title, At, Join, Found, Refused, Forget, Retitle, Keep, debuggerVars
<1>2. ASSUME NEW d \in Active', calls'[d].step \in FoundingSteps
      PROVE  calls'[d].on \in Tabs /\ owner'[calls'[d].on] = Key(d)'
  <2>1. ~\E e \in Calls, t \in Tabs : Create(e, t)
    BY <1>1 DEF Create, DebuggerType
  <2> QED
    BY <1>1, <1>2, <2>1, FoundsKept
<1>3. CASE Group(c)
  <2> DEFINE t == calls[c].on
             key == Key(c)
  <2>1. t \in Tabs /\ owner[t] = key /\ key # Nil /\ key \in Keys
    BY <1>1, <1>3, Constants DEF Group, At, GroupInv, Founds, FoundingSteps
  <2>2. Join(key, t) \/ Found(key, t) \/ Refused(key) \/ Forget(key)
    BY <1>3 DEF Group
  <2> HIDE DEF t, key
  <2>3. CASE Join(key, t)
    BY <1>1, <1>2, <2>1, <2>3 DEF Join, GroupInv, Founds, GroupType
  <2>4. CASE Found(key, t)
    BY <1>1, <1>2, <2>1, <2>4 DEF Found, GroupInv, Founds, GroupType
  <2>5. CASE Refused(key) \/ Forget(key)
    BY <1>1, <1>2, <2>1, <2>5 DEF Refused, Forget, GroupInv, Founds, GroupType
  <2> QED
    BY <2>2, <2>3, <2>4, <2>5
<1>4. CASE At(c, "group") /\ Retitle(calls[c].on, calls[c].label)
  BY <1>1, <1>2, <1>4 DEF Retitle, GroupInv, Founds
<1>5. CASE At(c, "title") /\ Keep(Key(c), calls[c].on, calls[c].label)
  <2>1. calls[c].on \in Tabs /\ owner[calls[c].on] = Key(c)
    BY <1>1, <1>5 DEF At, GroupInv, Founds, FoundingSteps
  <2> QED
    BY <1>1, <1>2, <1>5, <2>1 DEF Keep, GroupInv, Founds, GroupType
<1> QED
  BY <1>3, <1>4, <1>5 DEF Title

(* How the steps change groups, titles and labels.                         *)
LEMMA NameSteps ==
    ASSUME TypeOK, [Next]_vars
    PROVE  \/ \E c \in Calls, t \in Tabs : Create(c, t)
           \/ \E c \in Calls : Group(c) \/ Title(c) \/ Rename(c)
           \/ \E c \in Calls, name \in Labels : SaveLabel(c, name)
           \/ \E s \in Sessions : ReleaseSession(s)
           \/ Restart
           \/ /\ UNCHANGED <<groupIds, title, label, owner>>
              /\ \A t \in Tabs : group'[t] = group[t] \/ group'[t] = Nil
              /\ \A t \in Tabs : tab'[t] = "unused" => tab[t] = "unused"
<1> USE TypeParts
<1> DEFINE Left == /\ UNCHANGED <<groupIds, title, label, owner>>
                   /\ \A t \in Tabs : group'[t] = group[t] \/ group'[t] = Nil
                   /\ \A t \in Tabs : tab'[t] = "unused" => tab[t] = "unused"
<1>1. ASSUME NEW t \in Tabs, Gone(t), UNCHANGED <<groupIds, title, label, owner>>
      PROVE  Left
  BY <1>1 DEF Gone, DebuggerType, GroupType
<1>2. ASSUME UNCHANGED tab, UNCHANGED groupVars
      PROVE  Left
  BY <1>2 DEF groupVars
<1> HIDE DEF Left
<1>3. ASSUME NEW c \in Calls, CallStep(c), ~\E t \in Tabs : Create(c, t),
             ~(Group(c) \/ Title(c) \/ Rename(c)), ~\E name \in Labels : SaveLabel(c, name)
      PROVE  Left
  <2>1. CASE CloseTab(c)
    <3>1. Now(c).tab \in Tabs
      BY <2>1, ToolsTarget DEF CloseTab, At, Untargeted
    <3> QED
      BY <1>1, <1>2, <2>1, <3>1 DEF CloseTab, groupVars
  <2>2. CASE EnsureDebugger(c)
    BY <1>2, <2>2 DEF EnsureDebugger, Attach, debuggerVars
  <2>3. CASE ~CloseTab(c) /\ ~EnsureDebugger(c)
    BY <1>2, <1>3, <2>3 DEF CallStep, Begin, Script, Unbatchable, Act, ReadPage, ReadLog,
                            CreateNone, Query, debuggerVars
  <2> QED
    BY <2>1, <2>2, <2>3
<1>4. ASSUME NEW t \in Tabs, WireStep(t)
      PROVE  Left
  BY <1>2, <1>4 DEF WireStep, Reply, Conflict, Detached, Removed, Enable
<1>5. ASSUME NEW t \in Tabs, OutsideStep(t)
      PROVE  Left
  <2>1. CASE Close(t)
    BY <1>1, <2>1 DEF Close
  <2>2. CASE ~Close(t)
    BY <1>2, <1>5, <2>2 DEF OutsideStep, Cancel, Another, PageChanges
  <2> QED
    BY <2>1, <2>2
<1>6. ASSUME UNCHANGED vars
      PROVE  Left
  BY <1>2, <1>6 DEF vars, debuggerVars
<1>7. ASSUME ReleaseAll \/ DetachListed
      PROVE  Left
  BY <1>2, <1>7 DEF ReleaseAll, DetachListed, Detach
<1>8. \/ Left
      \/ \E c \in Calls, t \in Tabs : Create(c, t)
      \/ \E c \in Calls : Group(c) \/ Title(c) \/ Rename(c)
      \/ \E c \in Calls, name \in Labels : SaveLabel(c, name)
      \/ \E s \in Sessions : ReleaseSession(s)
      \/ Restart
  <2>1. CASE \E c \in Calls : CallStep(c)
    BY <1>3, <2>1
  <2>2. CASE \E t \in Tabs : WireStep(t) \/ OutsideStep(t)
    BY <1>4, <1>5, <2>2
  <2> QED
    BY <1>6, <1>7, <2>1, <2>2 DEF Next, ReleaseStep
<1> QED
  BY <1>8 DEF Left

\* every step keeps tabs, groups and keys with one maker
LEMMA GroupStep ==
    ASSUME TypeOK, GroupInv, [Next]_vars
    PROVE  GroupInv'
<1>1. CASE \E c \in Calls, t \in Tabs : Create(c, t)
  BY <1>1, GroupsCreate
<1>2. CASE \E c \in Calls : Group(c) \/ Title(c)
  BY <1>2, GroupsGroup
<1>3. CASE ~(\E c \in Calls, t \in Tabs : Create(c, t)) /\ ~(\E c \in Calls : Group(c) \/ Title(c))
  <2>1. /\ UNCHANGED owner
        /\ \A t \in Tabs : tab'[t] = "unused" => tab[t] = "unused"
        /\ \A t \in Tabs : group'[t] = group[t] \/ group'[t] = Nil
        /\ \A k \in Keys : groupIds'[k] = groupIds[k] \/ groupIds'[k] = Nil
    <3>1. CASE \E c \in Calls : Rename(c) \/ \E name \in Labels : SaveLabel(c, name)
      BY <3>1 DEF Rename, SaveLabel, renameGroup, debuggerVars
    <3>2. CASE \E s \in Sessions : ReleaseSession(s)
      BY <3>2 DEF ReleaseSession, debuggerVars
    <3>3. CASE Restart
      BY <3>3 DEF Restart
    <3> QED
      BY <1>3, <3>1, <3>2, <3>3, NameSteps
  <2> QED
    BY <1>3, <2>1, GroupsLeft
<1> QED
  BY <1>1, <1>2, <1>3

(* The tabs in one group have one maker, whatever the sessions' titles and *)
(* however their calls, renames, closures and restarts interleave.         *)
THEOREM GroupsStayApart == Spec => []GroupsApart
<1>1. Init => TypeOK /\ GroupInv
  <2>1. ASSUME Init PROVE GroupInv
    <3>1. /\ owner = [t \in Tabs |-> Nil] /\ group = [t \in Tabs |-> Nil]
          /\ groupIds = [k \in Keys |-> Nil] /\ Active = {}
      BY <2>1 DEF Init, GroupInit, Active
    <3> QED
      BY <3>1 DEF GroupInv
  <2> QED
    BY <2>1, InitTyped
<1>2. TypeOK /\ GroupInv /\ [Next]_vars => GroupInv'
  BY GroupStep
<1>3. GroupInv => GroupsApart
  BY DEF GroupInv, GroupsApart
<1> QED
  BY <1>1, <1>2, <1>3, ControllerTypeCorrect, PTL DEF Spec

-----------------------------------------------------------------------------
(***************************************************************************)
(* The names of groups.  Of a session no two of whose calls overlapped,    *)
(* that was not released and whose group the worker did not forget, one    *)
(* call is under way at most, and it began with the label the session has. *)
(***************************************************************************)
Alone(s) == \A c, d \in Of(s) : c = d
Labelled(s) == \A c \in Of(s) : calls[c].label = label[s]

\* its tabs are in its group, or in the one that this call is about to keep
Known(s) ==
    \A t \in Tabs : owner[t] = s /\ group[t] # Nil =>
        \/ group[t] = groupIds[s]
        \/ \E c \in Of(s) : calls[c].step = "title" /\ calls[c].on = group[t]
Unfounded(s) == \A c \in Of(s) : calls[c].step = "title" /\ Key(c) = s => groupIds[s] = Nil

\* its group has its label, or this call is about to rename it
Titled(s) ==
    groupIds[s] # Nil /\ Alive(groupIds[s]) =>
        \/ title[groupIds[s]] = label[s]
        \/ \E c \in Of(s) : calls[c].step = "label"

NameInv ==
    \A s \in Sessions \ disturbed :
        Alone(s) /\ Labelled(s) /\ Known(s) /\ Unfounded(s) /\ Titled(s)

(* A session once disturbed stays so.                                      *)
LEMMA DisturbedGrows ==
    ASSUME TypeOK, [Next]_vars
    PROVE  disturbed \subseteq disturbed'
<1> USE TypeParts
<1>1. ASSUME NEW c \in Calls, CallStep(c) PROVE disturbed \subseteq disturbed'
  <2>1. CASE Group(c)
    BY <2>1 DEF Group, Goto
  <2>2. CASE \E s \in Sessions, r \in Requests : Begin(c, s, r)
    BY <2>2 DEF Begin
  <2>3. CASE (\E t \in Tabs : Create(c, t)) \/ (\E name \in Labels : SaveLabel(c, name))
    BY <2>3 DEF Create, SaveLabel
  <2>4. CASE EnsureDebugger(c) \/ Script(c) \/ Unbatchable(c) \/ Act(c) \/ ReadLog(c) \/ ReadPage(c)
    BY <2>4 DEF EnsureDebugger, Script, Unbatchable, Act, ReadLog, ReadPage, Goto, Over
  <2>5. CASE CreateNone(c) \/ Title(c) \/ Query(c) \/ CloseTab(c) \/ Rename(c)
    BY <2>5 DEF CreateNone, Title, Query, CloseTab, Rename, Goto, Over
  <2> QED
    BY <1>1, <2>1, <2>2, <2>3, <2>4, <2>5 DEF CallStep
<1>2. ASSUME NEW t \in Tabs, WireStep(t) PROVE disturbed \subseteq disturbed'
  BY <1>2 DEF WireStep, Reply, Conflict, Detached, Removed, Goto, Over, callVars
<1>3. ASSUME NEW t \in Tabs, OutsideStep(t) PROVE disturbed \subseteq disturbed'
  BY <1>3 DEF OutsideStep, Close, PageChanges, callVars
<1>4. CASE ReleaseStep
  BY <1>4 DEF ReleaseStep, ReleaseAll, ReleaseSession, DetachListed, callVars
<1>5. CASE Restart
  BY <1>5 DEF Restart, CallType
<1>6. CASE UNCHANGED vars
  BY <1>6 DEF vars, callVars
<1> QED
  BY <1>1, <1>2, <1>3, <1>4, <1>5, <1>6 DEF Next

(* A call keeps the label it began with until it saves another.            *)
LEMMA OverLabel ==
    ASSUME TypeOK, NEW c \in Active, NEW ok \in BOOLEAN, NEW tabs \in SUBSET Tabs,
           OverWith(c, ok, tabs), c \in Active'
    PROVE  calls'[c].label = calls[c].label
  BY TypeParts, OverEffect DEF GoesOn, Answered, Same

\* the end of an action leaves the call's label
LEMMA OverSameLabel ==
    ASSUME TypeOK, NEW c \in Active, NEW ok \in BOOLEAN, Over(c, ok), c \in Active'
    PROVE  calls'[c].label = calls[c].label
<1>1. calls[c].controlled \in SUBSET Tabs
  BY TypeParts, ActiveCall
<1> QED
  BY <1>1, OverLabel DEF Over

\* so does a step within it
LEMMA GoesLabel ==
    ASSUME TypeOK, NEW c \in Active, NEW step \in Step, NEW on \in Tabs \cup {Nil},
           Goes(c, step, on)
    PROVE  calls'[c].label = calls[c].label
  BY TypeParts, GoesEffect DEF Same

\* only label_session changes the label of its call
LEMMA LabelStep ==
    ASSUME TypeOK, NEW c \in Active, CallStep(c), c \in Active',
           ~\E name \in Labels : SaveLabel(c, name)
    PROVE  calls'[c].label = calls[c].label
<1> USE TypeParts
<1>1. ~\E s \in Sessions, r \in Requests : Begin(c, s, r)
  BY DEF Begin
<1>2. CASE EnsureDebugger(c) \/ Script(c)
  BY <1>2, GoesLabel DEF EnsureDebugger, Script, Step, Goto
<1>3. CASE \/ Unbatchable(c) \/ Act(c) \/ ReadLog(c) \/ ReadPage(c)
           \/ CreateNone(c) \/ Query(c) \/ Rename(c)
  <2>1. PICK ok \in BOOLEAN : Over(c, ok)
    BY <1>3 DEF Unbatchable, Act, ReadLog, ReadPage, CreateNone, Query, Rename
  <2> QED
    BY <2>1, OverSameLabel
<1>4. ASSUME NEW t \in Tabs, Create(c, t)
      PROVE  calls'[c].label = calls[c].label
  <2>1. calls[c] \in Call /\ c \in Calls
    BY ActiveCall
  <2>2. calls'[c] = [calls[c] EXCEPT !.step = "created", !.on = t,
                       !.controlled = @ \cup {t}, !.made = @ \cup {t}]
    BY <1>4, <2>1 DEF Create, CallType
  <2> QED
    BY <2>1, <2>2 DEF Call
<1>5. CASE Group(c) \/ Title(c)
  <2>1. \/ Goes(c, "group", groupIds[Key(c)]) \/ Goes(c, "title", calls[c].on)
        \/ Goes(c, "query", Nil)
    BY <1>5 DEF Group, Title, Goto
  <2> QED
    BY <2>1, OnTyped, GoesLabel DEF Step
<1>6. CASE CloseTab(c)
  <2>1. OverWith(c, TRUE, calls[c].controlled \ {Now(c).tab})
        /\ calls[c].controlled \ {Now(c).tab} \in SUBSET Tabs
    BY <1>6, ActiveCall DEF CloseTab
  <2> QED
    BY <2>1, OverLabel
<1> QED
  BY <1>1, <1>2, <1>3, <1>4, <1>5, <1>6 DEF CallStep

\* the same of every step
LEMMA LabelCourse ==
    ASSUME TypeOK, [Next]_vars, NEW d \in Active, d \in Active'
    PROVE  \/ calls'[d].label = calls[d].label
           \/ \E name \in Labels : SaveLabel(d, name)
<1> USE TypeParts
<1>1. d \in Calls
  BY DEF Active
<1>2. ASSUME NEW t \in Tabs, Reply(t) \/ Conflict(t), Head(wire[t]).to = d
      PROVE  calls'[d].label = calls[d].label
  <2>1. \A step \in DOMAIN NextDomain : NextDomain[step] \in Step
    BY DEF NextDomain, Step
  <2>2. (\E step \in Step : Goes(d, step, Nil)) \/ Over(d, FALSE)
    BY <1>2, <2>1 DEF Reply, Conflict, Step, Goto
  <2> QED
    BY <2>2, GoesLabel, OverSameLabel
<1>3. ASSUME NEW t \in Tabs, NEW words \in Targets, PageChanges(t, words)
      PROVE  calls'[d].label = calls[d].label
  <2>1. calls'[d] = [calls[d] EXCEPT !.changed = TRUE] /\ calls[d] \in Call
    BY <1>1, <1>3, ActiveCall DEF PageChanges
  <2> QED
    BY <2>1 DEF Call
<1>4. ~Restart
  BY DEF Restart, Active, Step
<1> QED
  BY <1>1, <1>2, <1>3, <1>4, Course, LabelStep

(* The calls under way of an undisturbed session were so before, or one of *)
(* them has just begun.                                                    *)
LEMMA OfCourse ==
    ASSUME TypeOK, [Next]_vars, NEW s \in Sessions \ disturbed', NEW d \in Of(s)'
    PROVE  \/ d \in Of(s) /\ Key(d)' = Key(d)
           \/ d \notin Active /\ Of(s) = {} /\ \E r \in Requests : Begin(d, s, r)
<1>1. d \in Active' /\ calls'[d].session = s /\ d \in Calls
  BY DEF Of, Active
<1>2. CASE d \in Active /\ calls'[d].session = calls[d].session
           /\ calls'[d].request = calls[d].request
  BY <1>1, <1>2 DEF Of, Key
<1>3. ASSUME d \notin Active, NEW x \in Sessions, NEW r \in Requests, Begin(d, x, r)
      PROVE  Of(s) = {} /\ Begin(d, s, r)
  <2>1. x = s
    BY <1>1, <1>3, TypeParts DEF Begin, CallType
  <2> QED
    BY <1>3, <2>1 DEF Begin
<1> QED
  BY <1>1, <1>2, <1>3, CallCourse

\* an undisturbed session keeps to one call at a time
LEMMA AloneKept ==
    ASSUME TypeOK, [Next]_vars, NEW s \in Sessions \ disturbed', Alone(s)
    PROVE  Alone(s)'
<1> SUFFICES ASSUME NEW c \in Of(s)', NEW d \in Of(s)', c # d PROVE FALSE
  BY DEF Alone
<1>1. ASSUME NEW e \in Calls, NEW f \in Calls, e # f, e \in Of(s)', f \in Of(s)',
             Of(s) = {}, NEW r \in Requests, Begin(e, s, r)
      PROVE  FALSE
  <2>1. calls'[f] = calls[f]
    BY <1>1, TypeParts DEF Begin, CallType
  <2> QED
    BY <1>1, <2>1 DEF Of, Active
<1>2. c \in Calls /\ d \in Calls
  BY DEF Of, Active
<1> QED
  BY <1>1, <1>2, OfCourse DEF Alone

(* Its label changes when its call saves another.                          *)
LEMMA LabelsStay ==
    ASSUME TypeOK, [Next]_vars, NEW s \in Sessions \ disturbed'
    PROVE  label'[s] = label[s] \/ \E c \in Of(s), name \in Labels : SaveLabel(c, name)
<1>1. CASE \E c \in Calls, t \in Tabs : Create(c, t)
  BY <1>1 DEF Create
<1>2. CASE \E c \in Calls : Group(c) \/ Title(c) \/ Rename(c)
  BY <1>2 DEF Group, Title, Rename, Join, Found, Refused, Forget, Retitle, Keep, renameGroup
<1>3. ASSUME NEW c \in Calls, NEW name \in Labels, SaveLabel(c, name), c \notin Of(s)
      PROVE  label'[s] = label[s]
  <2>1. calls[c].session # s
    BY <1>3 DEF SaveLabel, At, Of
  <2> QED
    BY <1>3, <2>1, TypeParts DEF SaveLabel, GroupType
<1>4. CASE \E x \in Sessions : ReleaseSession(x)
  BY <1>4, TypeParts DEF ReleaseSession, GroupType
<1>5. ~Restart
  BY DEF Restart
<1> QED
  BY <1>1, <1>2, <1>3, <1>4, <1>5, NameSteps

\* and its call began with the label the session has
LEMMA LabelledKept ==
    ASSUME TypeOK, [Next]_vars, NEW s \in Sessions \ disturbed', Alone(s), Labelled(s)
    PROVE  Labelled(s)'
<1> SUFFICES ASSUME NEW d \in Of(s)' PROVE calls'[d].label = label'[s]
  BY DEF Labelled
<1>1. d \in Active' /\ d \in Calls
  BY DEF Of, Active
<1>2. ASSUME NEW name \in Labels, NEW c \in Of(s), SaveLabel(c, name)
      PROVE  calls'[c].label = name /\ label'[s] = name
  <2>1. calls[c] \in Call /\ c \in Calls /\ calls[c].session = s
    BY <1>2, TypeParts, ActiveCall DEF Of
  <2>2. calls'[c] = [calls[c] EXCEPT !.step = "label", !.label = name]
    BY <1>2, <2>1, TypeParts DEF SaveLabel, CallType
  <2> QED
    BY <1>2, <2>1, <2>2, TypeParts DEF SaveLabel, Call, GroupType
<1>3. CASE d \in Of(s)
  <2>1. d \in Active /\ calls[d].label = label[s]
    BY <1>3 DEF Of, Labelled
  <2>2. CASE \E name \in Labels : SaveLabel(d, name)
    BY <1>2, <1>3, <2>2
  <2>3. CASE calls'[d].label = calls[d].label
    BY <1>2, <1>3, <2>1, <2>3, LabelsStay DEF Alone
  <2> QED
    BY <1>1, <2>1, <2>2, <2>3, LabelCourse
<1>4. ASSUME NEW r \in Requests, Begin(d, s, r)
      PROVE  calls'[d].label = label'[s]
  BY <1>1, <1>4, TypeParts DEF Begin, CallType, groupVars
<1> QED
  BY <1>3, <1>4, OfCourse

(* A call that is about to keep or to rename a group stays so until it has *)
(* done it.                                                                *)
LEMMA StageStays ==
    ASSUME TypeOK, [Next]_vars, NEW s \in Sessions \ disturbed', NEW d \in Of(s),
           calls[d].step \in {"title", "label"}
    PROVE  \/ calls[d].step = "title" /\ Title(d)
           \/ calls[d].step = "label" /\ Rename(d)
           \/ d \in Of(s)' /\ calls'[d].step = calls[d].step /\ calls'[d].on = calls[d].on
<1> DEFINE Goal == /\ d \in Of(s)' /\ calls'[d].step = calls[d].step
                   /\ calls'[d].on = calls[d].on
<1>1. d \in Calls /\ d \in Active /\ calls[d] \in Call /\ calls[d].session = s
  BY TypeParts, ActiveCall DEF Of
<1>2. CASE calls'[d] = calls[d]
  BY <1>1, <1>2 DEF Of, Active
<1>3. CASE CallStep(d)
  BY <1>1, <1>3 DEF CallStep, Begin, EnsureDebugger, Script, Unbatchable, Act, ReadPage, ReadLog,
       Create, CreateNone, Group, Title, Query, CloseTab, SaveLabel, Rename, At
<1>4. ~\E t \in Tabs : (Reply(t) \/ Conflict(t)) /\ Head(wire[t]).to = d
  BY DEF Reply, Conflict, NextDomain, Waiting
<1>5. ASSUME NEW t \in Tabs, NEW words \in Targets, PageChanges(t, words)
      PROVE  Goal
  <2>1. calls'[d] = [calls[d] EXCEPT !.changed = TRUE]
    BY <1>1, <1>5 DEF PageChanges
  <2>2. /\ calls'[d].step = calls[d].step /\ calls'[d].on = calls[d].on
        /\ calls'[d].session = s /\ calls'[d] # Nil
    BY <1>1, <2>1, NilAssumption DEF Call
  <2> QED
    BY <1>1, <2>2 DEF Of, Active
<1>6. ~Restart
  BY DEF Restart
<1> QED
  BY <1>1, <1>2, <1>3, <1>4, <1>5, <1>6, Course

(* A key gets a group when its call has named the new group.               *)
LEMMA MapSteps ==
    ASSUME TypeOK, [Next]_vars, NEW s \in Sessions \ disturbed'
    PROVE  \/ groupIds'[s] \in {groupIds[s], Nil}
           \/ \E c \in Of(s) : calls[c].step = "title" /\ Key(c) = s /\ Title(c)
<1> USE TypeParts
<1>1. s \in Keys /\ s # Default
  BY Constants
<1>2. CASE \E c \in Calls, t \in Tabs : Create(c, t)
  BY <1>2 DEF Create
<1>3. ASSUME NEW c \in Calls, Group(c)
      PROVE  groupIds'[s] \in {groupIds[s], Nil}
  <2>1. Key(c) \in Keys
    BY <1>3, KeyTyped DEF Group, At
  <2> QED
    BY <1>1, <1>3, <2>1 DEF Group, Join, Found, Refused, Forget, GroupType
<1>4. ASSUME NEW c \in Calls, Title(c), groupIds'[s] # groupIds[s]
      PROVE  c \in Of(s) /\ calls[c].step = "title" /\ Key(c) = s
  <2>1. At(c, "title") /\ Keep(Key(c), calls[c].on, calls[c].label)
    BY <1>4 DEF Title, Retitle
  <2>2. Key(c) \in Keys /\ c \in Active
    BY <2>1, KeyTyped DEF At
  <2>3. Key(c) = s
    BY <1>1, <1>4, <2>1, <2>2 DEF Keep, GroupType
  <2> QED
    BY <1>1, <2>1, <2>2, <2>3, KeyTyped DEF At, Of
<1>5. CASE \E c \in Calls : Rename(c)
  BY <1>5 DEF Rename, renameGroup
<1>6. CASE \E c \in Calls, name \in Labels : SaveLabel(c, name)
  BY <1>6 DEF SaveLabel
<1>7. CASE \E x \in Sessions : ReleaseSession(x)
  BY <1>7 DEF ReleaseSession
<1>8. ~Restart
  BY DEF Restart
<1> QED
  BY <1>2, <1>3, <1>4, <1>5, <1>6, <1>7, <1>8, NameSteps

(* A new group is that of a key without one.                               *)
LEMMA GroupFounds ==
    ASSUME TypeOK, NEW c \in Active, Group(c), c \in Active', calls'[c].step = "title"
    PROVE  Found(Key(c), calls[c].on)
<1>1. \/ Found(Key(c), calls[c].on)
      \/ Goes(c, "group", groupIds[Key(c)]) \/ Goes(c, "query", Nil)
  BY DEF Group, Goto
<1>2. ~Goes(c, "group", groupIds[Key(c)]) /\ ~Goes(c, "query", Nil)
  BY OnTyped, TypeParts, GoesEffect DEF Step
<1> QED
  BY <1>1, <1>2

\* and keeps a group only when the session has none
LEMMA UnfoundedKept ==
    ASSUME TypeOK, [Next]_vars, NEW s \in Sessions \ disturbed', Alone(s), Unfounded(s)
    PROVE  Unfounded(s)'
<1> SUFFICES ASSUME NEW d \in Of(s)', calls'[d].step = "title", Key(d)' = s
             PROVE  groupIds'[s] = Nil
  BY DEF Unfounded
<1>1. d \in Active' /\ d \in Calls /\ calls'[d].session = s
  BY DEF Of, Active
<1>2. ~\E t \in Tabs : Create(d, t)
  <2>1. ASSUME NEW t \in Tabs, Create(d, t) PROVE FALSE
    <3>1. calls[d] \in Call
      BY <2>1, TypeParts, ActiveCall DEF Create, At
    <3>2. calls'[d] = [calls[d] EXCEPT !.step = "created", !.on = t,
                         !.controlled = @ \cup {t}, !.made = @ \cup {t}]
      BY <1>1, <2>1, TypeParts DEF Create, CallType
    <3> QED
      BY <3>1, <3>2 DEF Call
  <2> QED
    BY <2>1
<1>3. /\ d \in Active /\ Key(d) = s
      /\ Group(d) \/ calls[d].step = "title"
  BY <1>1, <1>2, FoundingCourse DEF FoundingSteps, Led
<1>4. CASE Group(d)
  BY <1>1, <1>3, <1>4, GroupFounds DEF Found
<1>5. CASE calls[d].step = "title"
  <2>1. d \in Of(s)
    BY <1>1, <1>3, OfCourse DEF Of
  <2>2. ~Title(d)
    BY <1>1, <1>3, GoesFounding DEF Title, Goto, Step, FoundingSteps
  <2> QED
    BY <1>3, <1>5, <2>1, <2>2, MapSteps DEF Unfounded, Alone
<1> QED
  BY <1>3, <1>4, <1>5

(* The steps that leave a session's tabs in their groups.                  *)
LEMMA KnownLeft ==
    ASSUME TypeOK, [Next]_vars, NEW s \in Sessions \ disturbed', Known(s),
           groupIds'[s] = groupIds[s],
           \A t \in Tabs : owner'[t] = s /\ group'[t] # Nil =>
             owner[t] = s /\ group'[t] = group[t],
           ~\E c \in Of(s) : calls[c].step = "title" /\ Title(c)
    PROVE  Known(s)'
<1> SUFFICES ASSUME NEW t \in Tabs, owner'[t] = s, group'[t] # Nil, group'[t] # groupIds'[s]
             PROVE  \E c \in Of(s)' : calls'[c].step = "title" /\ calls'[c].on = group'[t]
  BY DEF Known
<1>1. PICK c \in Of(s) : calls[c].step = "title" /\ calls[c].on = group[t]
  BY DEF Known
<1> QED
  BY <1>1, StageStays

\* the group that is kept is the one its tabs are in
LEMMA KnownTitle ==
    ASSUME TypeOK, GroupInv, [Next]_vars, NEW s \in Sessions \ disturbed',
           Alone(s), Known(s), Unfounded(s),
           NEW e \in Of(s), calls[e].step = "title", Title(e)
    PROVE  Known(s)'
<1> USE TypeParts
<1>1. e \in Active /\ Key(e) \in Keys /\ s \in Keys /\ s # Default
      /\ (Key(e) = s \/ Key(e) = Default)
  BY KeyTyped, Constants DEF Of
<1>2. calls[e].on \in Tabs /\ owner[calls[e].on] = Key(e)
  BY <1>1 DEF GroupInv, Founds, FoundingSteps
<1>3. Keep(Key(e), calls[e].on, calls[e].label)
  BY DEF Title, At
<1> SUFFICES ASSUME NEW t \in Tabs, owner'[t] = s, group'[t] # Nil
             PROVE  group'[t] = groupIds'[s]
  BY DEF Known
<1>4. /\ owner[t] = s /\ group[t] # Nil /\ group'[t] = group[t]
      /\ group[t] = groupIds[s] \/ group[t] = calls[e].on
      /\ owner[group[t]] = s
  BY <1>3 DEF Keep, Known, Alone, GroupInv
<1>5. CASE Key(e) = s
  <2>1. group[t] = calls[e].on /\ Alive(calls[e].on)
    BY <1>4, <1>5 DEF Unfounded, Alive
  <2> QED
    BY <1>1, <1>3, <1>4, <1>5, <2>1 DEF Keep, GroupType
<1>6. CASE Key(e) = Default
  BY <1>1, <1>2, <1>3, <1>4, <1>6 DEF Keep, GroupType
<1> QED
  BY <1>1, <1>5, <1>6

\* a tab that is grouped joins the session's group, or founds it
LEMMA KnownGroup ==
    ASSUME TypeOK, GroupInv, [Next]_vars, NEW s \in Sessions \ disturbed', Alone(s), Known(s),
           NEW c \in Calls, Group(c), ~\E e \in Of(s) : calls[e].step = "title" /\ Title(e)
    PROVE  Known(s)'
<1> USE TypeParts
<1> DEFINE on == calls[c].on
           key == Key(c)
<1>1. /\ c \in Active /\ calls[c].step = "created" /\ key \in Keys /\ s \in Keys /\ s # Default
      /\ key = s => c \in Of(s)
  BY KeyTyped, Constants DEF Group, At, Of
<1>2. on \in Tabs /\ owner[on] = key
  BY <1>1 DEF GroupInv, Founds, FoundingSteps
<1>3. \/ Join(key, on)
      \/ Found(key, on) /\ Goes(c, "title", on)
      \/ Refused(key)
      \/ Forget(key) /\ disturbed' = disturbed \cup ({key} \cap Sessions)
  BY DEF Group, Goto
<1> HIDE DEF on, key
<1>4. CASE key # s
  <2>1. groupIds'[s] = groupIds[s]
    BY <1>1, <1>3, <1>4 DEF Join, Found, Refused, Forget, GroupType
  <2>2. UNCHANGED owner /\ \A t \in Tabs : owner[t] = s => group'[t] = group[t]
    BY <1>2, <1>3, <1>4 DEF Join, Found, Refused, Forget, GroupType
  <2> QED
    BY <2>1, <2>2, KnownLeft
<1>5. CASE key = s
  <2>1. c \in Of(s) /\ \A t \in Tabs : owner[t] = s /\ group[t] # Nil => group[t] = groupIds[s]
    BY <1>1, <1>5 DEF Known, Alone
  <2>2. CASE Join(key, on)
    BY <1>1, <1>2, <1>5, <2>1, <2>2 DEF Known, Join, GroupType
  <2>3. CASE Found(key, on) /\ Goes(c, "title", on)
    <3>1. c \in Of(s)' /\ calls'[c].step = "title" /\ calls'[c].on = on
      BY <1>1, <1>2, <2>1, <2>3, GoesEffect DEF Same, Step, Of
    <3>2. \A t \in Tabs : owner'[t] = s /\ group'[t] # Nil => group'[t] = on
      BY <1>2, <1>5, <2>1, <2>3 DEF Found, GroupType
    <3> QED
      BY <3>1, <3>2 DEF Known
  <2>4. CASE Refused(key)
    BY <1>5, <2>1, <2>4 DEF Known, Refused, Alive
  <2> QED
    BY <1>3, <1>5, <2>2, <2>3, <2>4
<1> QED
  BY <1>4, <1>5

\* so its tabs stay in one group
LEMMA KnownKept ==
    ASSUME TypeOK, GroupInv, [Next]_vars, NEW s \in Sessions \ disturbed',
           Alone(s), Known(s), Unfounded(s)
    PROVE  Known(s)'
<1> USE TypeParts
<1>1. CASE \E e \in Of(s) : calls[e].step = "title" /\ Title(e)
  BY <1>1, KnownTitle
<1>2. CASE ~\E e \in Of(s) : calls[e].step = "title" /\ Title(e)
  <2>1. ASSUME NEW c \in Calls, NEW t \in Tabs, Create(c, t) PROVE Known(s)'
    <3>1. /\ tab[t] = "unused" /\ UNCHANGED <<group, groupIds>>
          /\ \A u \in Tabs \ {t} : owner'[u] = owner[u]
      BY <2>1 DEF Create, GroupType
    <3>2. group[t] = Nil
      BY <3>1 DEF GroupInv
    <3> QED
      BY <1>2, <3>1, <3>2, KnownLeft
  <2>2. ASSUME NEW c \in Calls, Title(c) PROVE Known(s)'
    <3>1. UNCHANGED <<owner, group>>
      BY <2>2 DEF Title, Retitle, Keep
    <3>2. groupIds'[s] = groupIds[s]
      <4>1. CASE At(c, "group") /\ Retitle(calls[c].on, calls[c].label)
        BY <4>1 DEF Retitle
      <4>2. CASE At(c, "title") /\ Keep(Key(c), calls[c].on, calls[c].label)
        <5>1. c \notin Of(s) /\ c \in Active
          BY <1>2, <2>2, <4>2 DEF At
        <5>2. Key(c) # s /\ s \in Keys /\ Key(c) \in Keys
          BY <5>1, KeyTyped, Constants DEF Of
        <5> QED
          BY <4>2, <5>2 DEF Keep, GroupType
      <4> QED
        BY <2>2, <4>1, <4>2 DEF Title
    <3> QED
      BY <1>2, <3>1, <3>2, KnownLeft
  <2>3. CASE \E c \in Calls : Rename(c) \/ \E name \in Labels : SaveLabel(c, name)
    <3>1. UNCHANGED <<owner, group, groupIds>>
      BY <2>3 DEF Rename, SaveLabel, renameGroup
    <3> QED
      BY <1>2, <3>1, KnownLeft
  <2>4. CASE \E x \in Sessions : ReleaseSession(x)
    <3>1. UNCHANGED <<owner, group, groupIds>>
      BY <2>4 DEF ReleaseSession
    <3> QED
      BY <1>2, <3>1, KnownLeft
  <2>5. ~Restart
    BY DEF Restart
  <2>6. CASE /\ UNCHANGED <<groupIds, owner>>
             /\ \A t \in Tabs : group'[t] = group[t] \/ group'[t] = Nil
    BY <1>2, <2>6, KnownLeft
  <2> QED
    BY <1>2, <2>1, <2>2, <2>3, <2>4, <2>5, <2>6, KnownGroup, NameSteps
<1> QED
  BY <1>1, <1>2

(* The steps that leave a session's group its title.                       *)
LEMMA TitledLeft ==
    ASSUME TypeOK, [Next]_vars, NEW s \in Sessions \ disturbed', Titled(s),
           groupIds'[s] = groupIds[s], label'[s] = label[s],
           groupIds[s] # Nil /\ Alive(groupIds[s])' =>
             Alive(groupIds[s]) /\ title'[groupIds[s]] = title[groupIds[s]],
           ~\E c \in Of(s) : calls[c].step = "label" /\ Rename(c)
    PROVE  Titled(s)'
<1> SUFFICES ASSUME groupIds'[s] # Nil, Alive(groupIds[s])', title'[groupIds'[s]] # label'[s]
             PROVE  \E c \in Of(s)' : calls'[c].step = "label"
  BY DEF Titled
<1>1. PICK c \in Of(s) : calls[c].step = "label"
  BY DEF Titled
<1> QED
  BY <1>1, StageStays

\* a rename gives the group the label of the session
LEMMA TitledRename ==
    ASSUME TypeOK, [Next]_vars, NEW s \in Sessions \ disturbed', Labelled(s),
           NEW e \in Of(s), Rename(e)
    PROVE  Titled(s)'
<1>1. calls[e].label = label[s] /\ calls[e].session = s
  BY DEF Labelled, Of
<1>2. /\ UNCHANGED <<groupIds, group, label>>
      /\ \A g \in Tabs : g = groupIds[s] /\ Alive(g) => title'[g] = label[s]
  BY <1>1 DEF Rename, renameGroup
<1>3. groupIds[s] \in Tabs \cup {Nil}
  BY TypeParts, Constants DEF GroupType
<1> QED
  BY <1>2, <1>3 DEF Titled, Alive

\* grouping a tab changes no title of a group that is kept
LEMMA TitledGroup ==
    ASSUME TypeOK, GroupInv, [Next]_vars, NEW s \in Sessions \ disturbed', Titled(s),
           label'[s] = label[s], NEW c \in Calls, Group(c),
           ~\E e \in Of(s) : calls[e].step = "label" /\ Rename(e)
    PROVE  Titled(s)'
<1> USE TypeParts
<1> DEFINE on == calls[c].on
           key == Key(c)
<1>1. c \in Active /\ calls[c].step = "created" /\ key \in Keys /\ s \in Keys
  BY KeyTyped, Constants DEF Group, At
<1>2. on \in Tabs /\ owner[on] = key
  BY <1>1 DEF GroupInv, Founds, FoundingSteps
<1>3. Join(key, on) \/ Found(key, on) \/ Refused(key) \/ Forget(key)
  BY DEF Group
<1> HIDE DEF on, key
<1>4. CASE Join(key, on)
  <2>1. groupIds[s] # Nil /\ Alive(groupIds[s])' => Alive(groupIds[s])
    BY <1>2, <1>4 DEF Join, Alive, GroupType
  <2> QED
    BY <1>4, <2>1, TitledLeft DEF Join
<1>5. CASE Found(key, on)
  <2>1. groupIds[s] # Nil => groupIds[s] # on
    BY <1>1, <1>2, <1>5 DEF Found, GroupInv
  <2>2. groupIds[s] # Nil /\ Alive(groupIds[s])' => Alive(groupIds[s])
    BY <1>2, <1>5, <2>1 DEF Found, Alive, GroupType
  <2> QED
    BY <1>5, <2>2, TitledLeft DEF Found
<1>6. CASE Refused(key) \/ Forget(key)
  <2>1. UNCHANGED <<group, title>> /\ groupIds'[s] \in {groupIds[s], Nil}
    BY <1>1, <1>6 DEF Refused, Forget, GroupType
  <2>2. CASE groupIds'[s] = Nil
    BY <2>2 DEF Titled
  <2>3. CASE groupIds'[s] = groupIds[s]
    BY <2>1, <2>3, TitledLeft DEF Alive
  <2> QED
    BY <2>1, <2>2, <2>3
<1> QED
  BY <1>3, <1>4, <1>5, <1>6

\* a new group is kept under the label of the session
LEMMA TitledTitle ==
    ASSUME TypeOK, GroupInv, [Next]_vars, NEW s \in Sessions \ disturbed', Titled(s),
           Labelled(s), label'[s] = label[s], NEW c \in Calls, Title(c),
           ~\E e \in Of(s) : calls[e].step = "label" /\ Rename(e)
    PROVE  Titled(s)'
<1> USE TypeParts
<1>1. /\ c \in Active /\ Key(c) \in Keys /\ s \in Keys /\ s # Default
      /\ calls[c].step \in FoundingSteps /\ UNCHANGED <<group, label>>
  BY KeyTyped, Constants DEF Title, At, FoundingSteps, Retitle, Keep
<1>2. calls[c].on \in Tabs /\ owner[calls[c].on] = Key(c)
  BY <1>1 DEF GroupInv, Founds
<1>3. Key(c) = s => calls[c].label = label[s]
  BY <1>1, KeyTyped DEF Labelled, Of
<1>4. \A g \in Tabs : g # calls[c].on => title'[g] = title[g]
  BY DEF Title, Retitle, Keep, GroupType
<1>5. Alive(calls[c].on) => title'[calls[c].on] = calls[c].label
  BY <1>2 DEF Title, Retitle, Keep, GroupType
<1>6. Key(c) # s => groupIds'[s] = groupIds[s]
  BY <1>1 DEF Title, Retitle, Keep, GroupType
<1>7. groupIds'[s] \in {groupIds[s], calls[c].on, Nil}
  BY <1>1 DEF Title, Retitle, Keep, GroupType
<1>8. CASE groupIds'[s] = Nil
  BY <1>8 DEF Titled
<1>9. CASE groupIds'[s] = calls[c].on /\ Key(c) = s
  <2>1. Alive(groupIds[s])' => Alive(calls[c].on)
    BY <1>1, <1>9 DEF Alive
  <2> QED
    BY <1>3, <1>5, <1>9, <2>1 DEF Titled
<1>10. CASE groupIds'[s] = groupIds[s] /\ groupIds[s] # Nil /\ groupIds[s] # calls[c].on
  <2>1. groupIds[s] \in Tabs
    BY <1>1, <1>10 DEF GroupType
  <2>2. Alive(groupIds[s])' => Alive(groupIds[s])
    BY <1>1, <1>10 DEF Alive
  <2> QED
    BY <1>4, <1>10, <2>1, <2>2, TitledLeft
<1>11. groupIds[s] # Nil /\ groupIds[s] = calls[c].on => Key(c) = s
  BY <1>1, <1>2 DEF GroupInv
<1> QED
  BY <1>6, <1>7, <1>8, <1>9, <1>10, <1>11

\* so its group has its label, or is about to
LEMMA TitledKept ==
    ASSUME TypeOK, GroupInv, [Next]_vars, NEW s \in Sessions \ disturbed',
           Labelled(s), Titled(s)
    PROVE  Titled(s)'
<1> USE TypeParts
<1>1. ASSUME NEW e \in Of(s), NEW name \in Labels, SaveLabel(e, name)
      PROVE  Titled(s)'
  <2>1. e \in Calls /\ calls[e] \in Call /\ calls[e].session = s
    BY ActiveCall DEF Of
  <2>2. calls'[e] = [calls[e] EXCEPT !.step = "label", !.label = name]
    BY <1>1, <2>1 DEF SaveLabel, CallType
  <2>3. calls'[e] \in Call /\ calls'[e].step = "label" /\ calls'[e].session = s
        /\ calls'[e] # Nil
    <3>1. calls'[e].step = "label" /\ calls'[e].session = s
      BY <2>1, <2>2 DEF Call
    <3>2. calls'[e] \in Call
      BY <2>1, <2>2 DEF Call, Step
    <3> QED
      BY <3>1, <3>2, NilAssumption
  <2>4. e \in Of(s)'
    BY <2>1, <2>3 DEF Of, Active, Step
  <2> QED
    BY <2>3, <2>4 DEF Titled
<1>2. CASE \E e \in Of(s) : calls[e].step = "label" /\ Rename(e)
  BY <1>2, TitledRename
<1>3. ASSUME ~\E e \in Of(s), name \in Labels : SaveLabel(e, name),
             ~\E e \in Of(s) : calls[e].step = "label" /\ Rename(e)
      PROVE  Titled(s)'
  <2>1. label'[s] = label[s]
    BY <1>3, LabelsStay
  <2>2. ASSUME UNCHANGED <<groupIds, title>>,
               \A t \in Tabs : group'[t] = group[t] \/ group'[t] = Nil
        PROVE  Titled(s)'
    <3>1. groupIds[s] # Nil /\ Alive(groupIds[s])' => Alive(groupIds[s])
      BY <2>2 DEF Alive
    <3> QED
      BY <1>3, <2>1, <2>2, <3>1, TitledLeft
  <2>3. CASE \E c \in Calls, t \in Tabs : Create(c, t)
    BY <2>2, <2>3 DEF Create
  <2>4. ASSUME NEW c \in Calls, Rename(c) PROVE Titled(s)'
    <3>1. c \in Active /\ calls[c].session \in Sessions /\ calls[c].session # s
      BY <1>3, <2>4, ActiveCall DEF Rename, At, Of
    <3>2. groupIds[s] # Nil => groupIds[s] # groupIds[calls[c].session] /\ groupIds[s] \in Tabs
      BY <3>1, Constants DEF GroupInv, GroupType
    <3>3. /\ UNCHANGED <<groupIds, group>>
          /\ \A g \in Tabs : g # groupIds[calls[c].session] => title'[g] = title[g]
      BY <2>4 DEF Rename, renameGroup
    <3>4. Alive(groupIds[s])' => Alive(groupIds[s])
      BY <3>3 DEF Alive
    <3> QED
      BY <1>3, <2>1, <3>2, <3>3, <3>4, TitledLeft
  <2>5. CASE \E c \in Calls, name \in Labels : SaveLabel(c, name)
    BY <2>2, <2>5 DEF SaveLabel
  <2>6. CASE \E x \in Sessions : ReleaseSession(x)
    BY <2>2, <2>6 DEF ReleaseSession
  <2>7. ~Restart
    BY DEF Restart
  <2>8. ASSUME NEW c \in Calls, Group(c) PROVE Titled(s)'
    BY <1>3, <2>1, <2>8, TitledGroup
  <2>9. ASSUME NEW c \in Calls, Title(c) PROVE Titled(s)'
    BY <1>3, <2>1, <2>9, TitledTitle
  <2> QED
    BY <2>2, <2>3, <2>4, <2>5, <2>6, <2>7, <2>8, <2>9, NameSteps
<1> QED
  BY <1>1, <1>2, <1>3

\* every step keeps the names of groups in order
LEMMA NameStep ==
    ASSUME TypeOK, GroupInv, NameInv, [Next]_vars
    PROVE  NameInv'
<1> SUFFICES ASSUME NEW s \in Sessions, s \notin disturbed'
             PROVE  (Alone(s) /\ Labelled(s) /\ Known(s) /\ Unfounded(s) /\ Titled(s))'
  BY DEF NameInv
<1>1. Alone(s) /\ Labelled(s) /\ Known(s) /\ Unfounded(s) /\ Titled(s)
  BY DisturbedGrows DEF NameInv
<1> QED
  BY <1>1, AloneKept, LabelledKept, KnownKept, UnfoundedKept, TitledKept

\* GroupInv and NameInv hold in every reachable state
LEMMA NamesInvariant == Spec => [](GroupInv /\ NameInv)
<1>1. Init => GroupInv /\ NameInv
  <2> SUFFICES ASSUME Init PROVE GroupInv /\ NameInv
    OBVIOUS
  <2>1. /\ owner = [t \in Tabs |-> Nil] /\ group = [t \in Tabs |-> Nil]
        /\ groupIds = [k \in Keys |-> Nil] /\ Active = {}
    BY DEF Init, GroupInit, Active
  <2>2. GroupInv
    BY <2>1 DEF GroupInv
  <2>3. ASSUME NEW s \in Sessions
        PROVE  Alone(s) /\ Labelled(s) /\ Known(s) /\ Unfounded(s) /\ Titled(s)
    BY <2>1, Constants DEF Of, Alone, Labelled, Known, Unfounded, Titled
  <2> QED
    BY <2>2, <2>3 DEF NameInv
<1>2. TypeOK /\ GroupInv /\ NameInv /\ [Next]_vars => (GroupInv /\ NameInv)'
  BY GroupStep, NameStep
<1> QED
  BY <1>1, <1>2, ControllerTypeCorrect, PTL DEF Spec

(* The tabs a session makes stay in one group, whatever it is renamed to   *)
(* (browser.ts:108-110), if its calls come one after the other, it is not  *)
(* released, the worker lives and no tab of the session is closed while it *)
(* is being grouped.                                                       *)
THEOREM RenamesKeepGroup == Spec => []RenameKeepsGroup
<1>1. GroupInv /\ NameInv => RenameKeepsGroup
  <2> SUFFICES ASSUME GroupInv, NameInv, NEW s \in Sessions \ disturbed,
                      NEW t \in Tabs, NEW u \in Tabs, owner[t] = s, owner[u] = s,
                      group[t] # Nil, group[u] # Nil
               PROVE  group[t] = group[u]
    BY DEF RenameKeepsGroup
  <2>1. Alone(s) /\ Known(s) /\ Unfounded(s) /\ \A c \in Of(s) : Founds(c)
    BY DEF NameInv, GroupInv, Of
  <2>2. owner[group[t]] = s /\ owner[group[u]] = s
    BY DEF GroupInv
  <2>3. \A c \in Of(s) : calls[c].step = "title" =>
          (calls[c].on = group[t] \/ calls[c].on = group[u] => Key(c) = s)
    BY <2>1, <2>2 DEF Founds, FoundingSteps
  <2> QED
    BY <2>1, <2>3 DEF Alone, Known, Unfounded
<1> QED
  BY <1>1, NamesInvariant, PTL

(* Between the calls of such a session its group shows the label it has.   *)
THEOREM TitlesFollowLabels == Spec => []TitleFollowsLabel
<1>1. NameInv => TitleFollowsLabel
  BY DEF NameInv, Titled, TitleFollowsLabel
<1> QED
  BY <1>1, NamesInvariant, PTL
===============================================================================
