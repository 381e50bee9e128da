------------------------------ MODULE LogRecords ------------------------------
(***************************************************************************)
(* The console records and the network records of the tabs (browser.ts):   *)
(* a list that grows at one end and is trimmed at the other, read newest   *)
(* first in pages whose cursor is an offset.  The two lists have the same  *)
(* operations; this is one of them.                                        *)
(***************************************************************************)
EXTENDS TabDebugger

CONSTANTS
    MaxLogRecords   \* browser.ts:60, 2000 records

ASSUME RecordsAssumption == MaxLogRecords \in Nat \ {0} /\ Nil \notin Nat

VARIABLES
    pushed,  \* records pushed so far; a record is its number
    kept,    \* kept[t]: the list of tab t
    walk     \* an agent that follows the cursors of one tab, or Nil

logVars == <<pushed, kept, walk>>

\* matching: the records that the agent's filter lets through; left: one that it
\* let through has changed, and it does no more
Walk == [tab : Tabs, matching : SUBSET Nat, wanted : SUBSET Nat, seen : SUBSET Nat,
         cursor : Nat \cup {Nil}, left : BOOLEAN]

LogInit ==
    /\ pushed = 0
    /\ kept = [t \in Tabs |-> {}]
    /\ walk = Nil

\* the records of a set that are newer
Newer(n, records) == {m \in records : m > n}

\* the last MaxLogRecords
Trimmed(records) == {n \in records : Cardinality(Newer(n, records)) < MaxLogRecords}

\* onDebuggerEvent and pushRecord
Push(t) ==
    /\ Outside(1)
    /\ debuggee[t] = "connector" /\ "Runtime" \in domains[t]
    /\ pushed' = pushed + 1
    /\ kept' = [kept EXCEPT ![t] = Trimmed(@ \cup {pushed'})]
    /\ \/ UNCHANGED walk
       \/ /\ walk # Nil /\ walk.tab = t
          /\ walk' = [walk EXCEPT !.matching = @ \cup {pushed'}]

\* Network.responseReceived gives a request its final resourceType, which the
\* filter of readNetwork asks for: the record may enter it, or leave it
Retype(t) ==
    /\ Outside(1)
    /\ debuggee[t] = "connector" /\ "Network" \in domains[t]
    /\ walk # Nil /\ walk.tab = t
    /\ \E n \in kept[t] :
         IF n \in walk.matching
           THEN walk' = [walk EXCEPT !.matching = @ \ {n}, !.left = TRUE]
           ELSE walk' = [walk EXCEPT !.matching = @ \cup {n}]
    /\ UNCHANGED <<pushed, kept>>

\* its place among the filtered records, newest first
Place(n, filtered) == Cardinality(Newer(n, filtered))

\* mutant: the page is counted from the oldest record on
PageOldestFirst(filtered, offset, limit) ==
    {n \in filtered : LET place == Cardinality({m \in filtered : m < n}) IN
                      offset =< place /\ place < offset + limit}

Page(filtered, offset, limit) ==
    {n \in filtered : offset =< Place(n, filtered) /\ Place(n, filtered) < offset + limit}

NextCursor(filtered, offset, limit) ==
    IF offset + limit < Cardinality(filtered) THEN offset + limit ELSE Nil

\* readConsole and readNetwork.  A first page begins a walk, a page at the
\* cursor goes on with it
ReadFirst(t, matching, limit) ==
    LET filtered == kept[t] \cap matching
    IN /\ walk' = [tab |-> t, matching |-> matching, wanted |-> filtered,
                   seen |-> Page(filtered, 0, limit),
                   cursor |-> NextCursor(filtered, 0, limit), left |-> FALSE]
       /\ UNCHANGED <<pushed, kept>>

ReadOn(t, limit) ==
    LET filtered == kept[t] \cap walk.matching
    IN /\ walk # Nil /\ walk.tab = t /\ walk.cursor # Nil
       /\ walk' = [walk EXCEPT !.seen = @ \cup Page(filtered, walk.cursor, limit),
                               !.cursor = NextCursor(filtered, walk.cursor, limit)]
       /\ UNCHANGED <<pushed, kept>>

-----------------------------------------------------------------------------
(* An agent that follows the cursors to the end has seen every record that *)
(* matched when it began, save those trimmed since: the records that come  *)
(* in meanwhile, or come to match, shift the others to higher offsets,     *)
(* never past the cursor (MVP.md:33; browser.ts:528-532).  It says nothing *)
(* of a walk during which a record ceases to match, as a request may by    *)
(* its response (browser.ts:674): that shifts the rest to lower offsets,   *)
(* and the next page skips one.                                            *)
RecordsCovered ==
    walk # Nil /\ walk.cursor = Nil /\ ~walk.left
      => walk.wanted \cap kept[walk.tab] \subseteq walk.seen
===============================================================================
