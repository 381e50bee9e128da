------------------------------ MODULE PageRefs ------------------------------
(***************************************************************************)
(* The page references of one tab (browser.ts): readPage and find number   *)
(* the elements they return, write the number into the page as an          *)
(* attribute, and every later use of a reference asks the page for the     *)
(* first element that bears it.  The generation in a reference counts the  *)
(* commits the service worker has been told of; the page changes, commits  *)
(* and the worker restarts between the steps of a read.                    *)
(***************************************************************************)
EXTENDS Integers, Sequences, FiniteSets

CONSTANTS
    Elements,      \* the elements a document of the tab can have
    Selected,      \* those the selector of injectedReadPage matches
    Pages,         \* the elements a document may load with, in order
    MaxNodes,      \* browser.ts:715, 500 nodes in one read
    MaxDocuments,  \* bound: documents the tab shows
    MaxChanges,    \* bound: changes of a page by its own scripts
    MaxReads,      \* bound: reads and finds
    MaxRestarts,   \* bound: restarts of the service worker
    Nil

ASSUME PageAssumption ==
    /\ IsFiniteSet(Elements) /\ Selected \subseteq Elements
    /\ \A page \in Pages :
         /\ page \in Seq(Elements)
         /\ \A j, k \in DOMAIN page : page[j] = page[k] => j = k
    /\ {MaxNodes, MaxDocuments} \subseteq Nat \ {0}
    /\ {MaxChanges, MaxReads, MaxRestarts} \subseteq Nat
    /\ Nil \notin Nat \cup Elements

VARIABLES
    document,    \* the document in the tab; the connector does not know it
    dom,         \* its elements, in document order
    later,       \* elements its scripts may still insert
    hidden,      \* elements whose rectangle is empty
    stamp,       \* the handle whose reference each element bears, or Nil
    altered,     \* history: the scripts have inserted or removed an element
    generation,  \* documentGenerations.get(tabId), or Nil
    commits,     \* onCommitted events on their way to the worker
    reads,       \* readPage and find calls between the Map and the page
    held,        \* handles given out to agents
    walk,        \* an agent that pages to the end, or Nil
    changes, restarts

pageVars == <<document, dom, later, hidden, stamp, altered, changes>>
workerVars == <<generation, commits, restarts>>
vars == <<pageVars, workerVars, reads, held, walk>>

\* `p<gen>-<index>` of readPage, `p<gen>-f<index>` of find
Ref == [gen : Nat, kind : {"p", "f"}, index : Nat]

\* A reference with what it was given for.  certain: the worker counted the
\* document's generation, the read began and ran in it, the worker has not
\* restarted since
Handle == [ref : Ref, element : Elements, document : 1..MaxDocuments,
           certain : BOOLEAN]

Read == [status : {"asking", "over"}, gen : Nat, document : 1..MaxDocuments,
         certain : BOOLEAN]

InPage == {dom[k] : k \in DOMAIN dom}
Visible == InPage \ hidden

Init ==
    /\ document = 1
    /\ dom \in Pages
    /\ later = Elements \ InPage
    /\ hidden \in SUBSET InPage
    /\ stamp = [e \in Elements |-> Nil]
    /\ altered = FALSE
    /\ generation \in {Nil, 1}   \* loaded before the worker started, or after
    /\ commits = 0
    /\ reads = [i \in 1..MaxReads |-> Nil]
    /\ held = {}
    /\ walk = Nil
    /\ changes = 0 /\ restarts = 0

-----------------------------------------------------------------------------
\* The index of an element (from 0) among those a read lists: readPage lists
\* what its selector matches, find every element
Listed(kind) == {k \in DOMAIN dom : kind = "p" => dom[k] \in Selected}
Index(kind, k) == Cardinality({j \in Listed(kind) : j < k})

\* the first n of a set of positions
First(n, S) == {k \in S : Cardinality({j \in S : j =< k}) =< n}

\* mutant: nextIndex is set at the first node of a page only
LastMissed(S) == CHOOSE k \in S : \A j \in S : k =< j

Last(S) == CHOOSE k \in S : \A j \in S : j =< k

\* document.querySelector of the attribute: the first element that bears it
Bearers(ref) == {k \in DOMAIN dom : stamp[dom[k]] # Nil /\ stamp[dom[k]].ref = ref}
Resolve(ref) ==
    IF Bearers(ref) = {} THEN Nil
    ELSE dom[CHOOSE k \in Bearers(ref) : \A j \in Bearers(ref) : k =< j]

\* mutant: a reference numbers the elements of its own answer
HandlesReindexed(i, kind, positions) ==
    {[ref |-> [gen |-> reads[i].gen, kind |-> kind,
               index |-> Cardinality({j \in positions : j < k})],
      element |-> dom[k],
      document |-> document,
      certain |-> reads[i].certain /\ reads[i].document = document] : k \in positions}

\* the handles that read i gives to the elements at these positions
Handles(i, kind, positions) ==
    {[ref |-> [gen |-> reads[i].gen, kind |-> kind, index |-> Index(kind, k)],
      element |-> dom[k],
      document |-> document,
      certain |-> reads[i].certain /\ reads[i].document = document] : k \in positions}

\* element.dataset.browserConnectorRef = ref
Stamped(handles) ==
    [e \in Elements |-> IF \E h \in handles : h.element = e
                        THEN CHOOSE h \in handles : h.element = e
                        ELSE stamp[e]]

\* Where an agent that wants these elements may ask from: the start, or the
\* cursor of the answer before
Offsets(kind, wanted) ==
    {0} \cup (IF walk # Nil /\ walk.kind = kind /\ walk.wanted = wanted
              THEN {walk.cursor} \ {Nil} ELSE {})

Advance(kind, wanted, offset, handles, cursor) ==
    LET before == IF offset = 0 THEN {} ELSE walk.found
        new == {h.element : h \in handles}
    IN [kind |-> kind, wanted |-> wanted, cursor |-> cursor,
        found |-> before \cup new,
        twice |-> (offset # 0 /\ walk.twice) \/ before \cap new # {}]

-----------------------------------------------------------------------------
(* The worker *)

\* mutant: no generation for a tab the worker has seen no commit of
BeginReadUndefined(i) ==
    /\ reads[i] = Nil
    /\ \A j \in 1..(i - 1) : reads[j] # Nil
    /\ reads' = [reads EXCEPT ![i] =
         [status |-> "asking", gen |-> generation, document |-> document,
          certain |-> generation # Nil /\ commits = 0]]
    /\ UNCHANGED <<pageVars, workerVars, held, walk>>

\* readPage and find: the generation is read before the page is asked
BeginRead(i) ==
    /\ reads[i] = Nil
    /\ \A j \in 1..(i - 1) : reads[j] # Nil
    /\ reads' = [reads EXCEPT ![i] =
         [status |-> "asking",
          gen |-> IF generation = Nil THEN 1 ELSE generation,
          document |-> document,
          certain |-> generation # Nil /\ commits = 0]]
    /\ UNCHANGED <<pageVars, workerVars, held, walk>>

Asking(i) == reads[i] # Nil /\ reads[i].status = "asking"
Done(i) == reads' = [reads EXCEPT ![i] = [@ EXCEPT !.status = "over"]]

\* injectedReadPage: from the cursor on, in scope and visible, until the next
\* node would exceed the bytes (fit nodes do not) or MaxNodes are there.  The
\* node that did not fit bears its reference all the same
ReadPage(i, scope, offset, fit) ==
    LET eligible == {k \in Listed("p") : /\ offset =< Index("p", k)
                                         /\ dom[k] \in scope \ hidden}
        exceeds == fit < MaxNodes /\ fit < Cardinality(eligible)
        full == ~exceeds /\ MaxNodes =< Cardinality(eligible)
        reached == First(IF exceeds THEN fit + 1 ELSE MaxNodes, eligible)
        handles == Handles(i, "p", First(fit, reached))
        length == Cardinality(Listed("p"))
        nextIndex == IF exceeds \/ full THEN Index("p", Last(reached)) + 1 ELSE length
    IN /\ Asking(i)
       /\ offset \in Offsets("p", Selected \cap scope)
       /\ stamp' = Stamped(Handles(i, "p", reached))
       /\ held' = held \cup handles
       /\ walk' = Advance("p", Selected \cap scope, offset, handles,
                    IF exceeds \/ nextIndex < length THEN nextIndex ELSE Nil)
       /\ Done(i)
       /\ UNCHANGED <<document, dom, later, hidden, altered, changes, workerVars>>

\* scopeRef names no element: no nodes, and the page is left alone
ReadStaleScope(i) ==
    /\ Asking(i)
    /\ Done(i)
    /\ UNCHANGED <<pageVars, workerVars, held, walk>>

\* the subtree of the element that scopeRef resolves to: a run of the page
Subtrees ==
    {{dom[k] : k \in a..b} : a \in {k \in DOMAIN dom : \E h \in held : Resolve(h.ref) = dom[k]},
                             b \in DOMAIN dom} \ {{}}

\* mutant: the cursor is the index after the last match
FindCursorByIndex(i, matching, offset, limit) ==
    LET eligible == {k \in Listed("f") : dom[k] \in matching \ hidden}
        rest == eligible \ First(offset, eligible)
        handles == Handles(i, "f", First(limit, rest))
    IN /\ Asking(i)
       /\ offset \in Offsets("f", matching)
       /\ stamp' = Stamped(handles)
       /\ held' = held \cup handles
       /\ walk' = Advance("f", matching, offset, handles,
                    IF limit < Cardinality(rest)
                    THEN Index("f", Last(First(limit, rest))) + 1 ELSE Nil)
       /\ Done(i)
       /\ UNCHANGED <<document, dom, later, hidden, altered, changes, workerVars>>

\* injectedFind: the cursor counts matches, the reference is the index among
\* all elements
Find(i, matching, offset, limit) ==
    LET eligible == {k \in Listed("f") : dom[k] \in matching \ hidden}
        rest == eligible \ First(offset, eligible)
        handles == Handles(i, "f", First(limit, rest))
    IN /\ Asking(i)
       /\ offset \in Offsets("f", matching)
       /\ stamp' = Stamped(handles)
       /\ held' = held \cup handles
       /\ walk' = Advance("f", matching, offset, handles,
                    IF limit < Cardinality(rest)
                    THEN offset + Cardinality(handles) ELSE Nil)
       /\ Done(i)
       /\ UNCHANGED <<document, dom, later, hidden, altered, changes, workerVars>>

\* mutant: only the first commit of a tab is counted
CommittedOnce ==
    /\ commits > 0
    /\ commits' = commits - 1
    /\ generation' = IF generation = Nil THEN 1 ELSE generation
    /\ UNCHANGED <<pageVars, restarts, reads, held, walk>>

\* onCommitted of the main frame
Committed ==
    /\ commits > 0
    /\ commits' = commits - 1
    /\ generation' = (IF generation = Nil THEN 0 ELSE generation) + 1
    /\ UNCHANGED <<pageVars, restarts, reads, held, walk>>

\* Chrome stops the worker and starts it again for the next event: the Map is
\* empty, the calls under way are gone
Restart ==
    /\ restarts < MaxRestarts
    /\ restarts' = restarts + 1
    /\ generation' = Nil
    /\ reads' = [i \in 1..MaxReads |->
                   IF Asking(i) THEN [reads[i] EXCEPT !.status = "over"] ELSE reads[i]]
    /\ held' = {[h EXCEPT !.certain = FALSE] : h \in held}
    /\ stamp' = [e \in Elements |-> IF stamp[e] = Nil THEN Nil
                                    ELSE [stamp[e] EXCEPT !.certain = FALSE]]
    /\ UNCHANGED <<document, dom, later, hidden, altered, changes, commits, walk>>

-----------------------------------------------------------------------------
(* The page *)

\* another document, or the same one loaded again
Navigate ==
    /\ document < MaxDocuments
    /\ document' = document + 1
    /\ dom' \in Pages
    /\ later' = Elements \ {dom'[k] : k \in DOMAIN dom'}
    /\ hidden' \in SUBSET {dom'[k] : k \in DOMAIN dom'}
    /\ stamp' = [e \in Elements |-> Nil]
    /\ altered' = FALSE
    /\ commits' = commits + 1
    /\ walk' = Nil
    /\ UNCHANGED <<generation, restarts, reads, held, changes>>

Change ==
    /\ changes < MaxChanges
    /\ changes' = changes + 1
    /\ walk' = Nil
    /\ UNCHANGED <<document, workerVars, reads, held>>

Insert(e, k) ==
    /\ Change
    /\ e \in later
    /\ dom' = SubSeq(dom, 1, k) \o <<e>> \o SubSeq(dom, k + 1, Len(dom))
    /\ later' = later \ {e}
    /\ altered' = TRUE
    /\ UNCHANGED <<hidden, stamp>>

Remove(k) ==
    /\ Change
    /\ dom' = SubSeq(dom, 1, k - 1) \o SubSeq(dom, k + 1, Len(dom))
    /\ hidden' = hidden \ {dom[k]}
    /\ stamp' = [stamp EXCEPT ![dom[k]] = Nil]
    /\ altered' = TRUE
    /\ UNCHANGED later

\* an element folds away or shows up: the list of elements stays
Toggle(e) ==
    /\ Change
    /\ hidden' = (hidden \ {e}) \cup ({e} \ hidden)
    /\ UNCHANGED <<dom, later, stamp, altered>>

-----------------------------------------------------------------------------
ReadStep(i) ==
    \/ BeginRead(i)
    \/ \E scope \in {InPage} \cup Subtrees, offset \in 0..Cardinality(Elements),
          fit \in 0..MaxNodes : ReadPage(i, scope, offset, fit)
    \/ ReadStaleScope(i)
    \/ \E matching \in SUBSET InPage, offset \in 0..Cardinality(Elements),
          limit \in 1..MaxNodes : Find(i, matching, offset, limit)

PageStep ==
    \/ Navigate
    \/ \E e \in later, k \in 0..Len(dom) : Insert(e, k)
    \/ \E k \in DOMAIN dom : Remove(k)
    \/ \E e \in InPage : Toggle(e)

Next ==
    \/ \E i \in 1..MaxReads : ReadStep(i)
    \/ Committed
    \/ Restart
    \/ PageStep

Spec == Init /\ [][Next]_vars

-----------------------------------------------------------------------------
Walk == [kind : {"p", "f"}, wanted : SUBSET Elements, cursor : Nat \cup {Nil},
         found : SUBSET Elements, twice : BOOLEAN]

\* Every variable has its type, elements come once, and an element that bears
\* a reference is in the page (browser.ts:722: the attribute of an element).
TypeOK ==
    /\ document \in 1..MaxDocuments
    /\ dom \in Seq(Elements)
    /\ \A j, k \in DOMAIN dom : dom[j] = dom[k] => j = k
    /\ later \in SUBSET (Elements \ InPage)
    /\ hidden \in SUBSET InPage
    /\ stamp \in [Elements -> Handle \cup {Nil}]
    /\ \A e \in Elements : stamp[e] # Nil => e \in InPage
    /\ altered \in BOOLEAN
    /\ generation \in Nat \cup {Nil}
    /\ commits \in Nat
    /\ reads \in [1..MaxReads -> Read \cup {Nil}]
    /\ held \in SUBSET Handle
    /\ walk \in Walk \cup {Nil}
    /\ changes \in 0..MaxChanges /\ restarts \in 0..MaxRestarts

\* In a document whose list of elements has not changed, a reference names the
\* element it was given for or nothing, however reads and finds with cursors,
\* scopes and limits follow each other, elements fold away and the worker
\* restarts (browser.ts:690-692: re-indexing "would make one ref mean two
\* things").
RefKeepsElement ==
    ~altered => \A h \in held : h.document = document =>
                  Resolve(h.ref) \in {Nil, h.element}

\* A reference is never taken for one of a later document, as long as both were
\* given out by reads that ran in the document they began in, whose commit the
\* worker had counted (browser.ts:114-116).  A restart of the worker forgets the
\* counts and takes that back for every reference given before it: of the
\* documents after it, the first commit counted makes generation 1 again
\* (browser.ts:115), which one counted before may have had.
CountedRefGoesStale ==
    \A h \in held : LET e == Resolve(h.ref) IN
        e # Nil /\ h.certain /\ stamp[e].certain => h.document = document

\* An agent that follows the cursors of find to the end has seen every match,
\* and none of them twice, unless the page changed (browser.ts:768-776).
FindCoversMatches ==
    walk # Nil /\ walk.kind = "f" =>
        /\ ~walk.twice
        /\ walk.cursor = Nil => walk.found = walk.wanted \cap Visible

\* Its cursor is an index: whoever follows it is given no node twice, wherever
\* the pages are cut, unless the page changed (browser.ts:713-737).
NodesOnce == walk # Nil /\ walk.kind = "p" => ~walk.twice

\* The same for readPage, which MVP.md:33 calls pageable: every visible element
\* comes in one of the answers.
ReadCoversPage ==
    walk # Nil /\ walk.kind = "p" /\ walk.cursor = Nil =>
        walk.wanted \cap Visible \subseteq walk.found

\* Navigation invalidates references: ADR 0016:7.
NavigationInvalidates ==
    \A h \in held : h.document # document => Resolve(h.ref) = Nil
=============================================================================
