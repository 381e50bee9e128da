----------------------------- MODULE PageProofs -----------------------------
(***************************************************************************)
(* Proofs about PageRefs: which element and which document a reference can *)
(* be taken for, for any pages, any number of documents, changes, reads    *)
(* and restarts.  PageInv adds to the type invariant that a certain handle *)
(* determines its document by the generation it bears (Counted), and that  *)
(* in a document with its list of elements unchanged a handle determines   *)
(* its element by the index it bears (Named).  FindInv is about the agent  *)
(* that pages through the matches of find.                                 *)
(***************************************************************************)
EXTENDS PageRefs, FiniteSetTheorems, SequenceTheorems, WellFoundedInduction,
        TLAPS

\* a generation that was counted tells the document: from document d on, each
\* commit is counted or on its way
Tells(gen, d) == generation # Nil /\ gen + document = d + generation + commits

Certain(h) == h.certain => Tells(h.ref.gen, h.document)

Counted ==
    /\ \A i \in 1..MaxReads : Asking(i) /\ reads[i].certain
                                => Tells(reads[i].gen, reads[i].document)
    /\ \A h \in held : h.document =< document /\ Certain(h)
    /\ \A e \in Elements : stamp[e] # Nil =>
         stamp[e].document = document /\ Certain(stamp[e])

NamedAt(h) ==
    \E k \in Listed(h.ref.kind) :
        dom[k] = h.element /\ Index(h.ref.kind, k) = h.ref.index

Named ==
    ~altered =>
        /\ \A h \in held : h.document = document => NamedAt(h)
        /\ \A e \in Elements : stamp[e] # Nil =>
             stamp[e].element = e /\ NamedAt(stamp[e])

PageInv == TypeOK /\ Counted /\ Named

\* what a read or a find that answers does to the references
Answer(i, kind, reached, returned) ==
    /\ Asking(i)
    /\ kind \in {"p", "f"}
    /\ reached \in SUBSET Listed(kind) /\ returned \in SUBSET reached
    /\ stamp' = Stamped(Handles(i, kind, reached))
    /\ held' = held \cup Handles(i, kind, returned)
    /\ Done(i)
    /\ UNCHANGED <<document, dom, later, hidden, altered, changes, workerVars>>

(* The bounds are numbers; no page has an element twice.                   *)
LEMMA Constants ==
    /\ MaxNodes \in Nat /\ MaxDocuments \in Nat \ {0} /\ MaxChanges \in Nat
    /\ MaxReads \in Nat /\ MaxRestarts \in Nat
    /\ Nil \notin Nat /\ Nil \notin Elements
    /\ Selected \subseteq Elements
    /\ \A page \in Pages :
         /\ page \in Seq(Elements)
         /\ \A j, k \in DOMAIN page : page[j] = page[k] => j = k
  BY PageAssumption

(* The positions a read lists are finitely many, and an index is a number. *)
LEMMA Indices ==
    ASSUME dom \in Seq(Elements), NEW kind
    PROVE  /\ DOMAIN dom = 1..Len(dom) /\ Len(dom) \in Nat
           /\ IsFiniteSet(Listed(kind)) /\ Cardinality(Listed(kind)) \in Nat
           /\ \A k : Index(kind, k) \in Nat
<1>1. DOMAIN dom = 1..Len(dom) /\ Len(dom) \in Nat
  BY LenProperties
<1>2. IsFiniteSet(DOMAIN dom)
  BY <1>1, FS_Interval
<1>3. IsFiniteSet(Listed(kind))
  BY <1>2, FS_Subset DEF Listed
<1>4. \A k : IsFiniteSet({j \in Listed(kind) : j < k})
  BY <1>3, FS_Subset
<1>5. QED BY <1>1, <1>3, <1>4, FS_CardinalityType DEF Index

(* Two positions of one list have two indices.                             *)
LEMMA IndexApart ==
    ASSUME dom \in Seq(Elements), NEW kind,
           NEW j \in Listed(kind), NEW k \in Listed(kind), j < k
    PROVE  Index(kind, j) # Index(kind, k)
<1>. DEFINE B(l) == {m \in Listed(kind) : m < l}
<1>0. IsFiniteSet(Listed(kind)) /\ DOMAIN dom = 1..Len(dom) /\ Len(dom) \in Nat
  BY Indices
<1>1. IsFiniteSet(Listed(kind)) /\ Listed(kind) \subseteq Int
  BY <1>0 DEF Listed
<1>2. IsFiniteSet(B(k)) /\ B(j) \in SUBSET B(k)
  BY <1>1, FS_Subset
<1>3. j \in B(k) /\ j \notin B(j)
  BY <1>1
<1>4. Cardinality(B(j)) # Cardinality(B(k))
  BY <1>2, <1>3, FS_Subset
<1>5. QED BY <1>4 DEF Index

(* No two listed positions have the same index. *)
LEMMA IndexInjective ==
    ASSUME dom \in Seq(Elements), NEW kind,
           NEW j \in Listed(kind), NEW k \in Listed(kind),
           Index(kind, j) = Index(kind, k)
    PROVE  j = k
<1>0. DOMAIN dom = 1..Len(dom) /\ Len(dom) \in Nat
  BY Indices
<1>1. j \in Int /\ k \in Int
  BY <1>0 DEF Listed
<1>2. QED BY <1>1, IndexApart

(* A handle that a read gives: its type, its element, what it was given    *)
(* for.                                                                    *)
LEMMA HandleGiven ==
    ASSUME TypeOK, NEW i \in 1..MaxReads, Asking(i), NEW kind \in {"p", "f"},
           NEW positions \in SUBSET Listed(kind), NEW h \in Handles(i, kind, positions)
    PROVE  /\ h \in Handle
           /\ h.document = document /\ h.element \in InPage
           /\ h.ref.gen = reads[i].gen
           /\ h.certain => reads[i].certain /\ reads[i].document = document
           /\ NamedAt(h)
<1>1. PICK k \in positions :
        h = [ref |-> [gen |-> reads[i].gen, kind |-> kind, index |-> Index(kind, k)],
             element |-> dom[k], document |-> document,
             certain |-> reads[i].certain /\ reads[i].document = document]
  BY DEF Handles
<1>2. dom \in Seq(Elements) /\ document \in 1..MaxDocuments /\ reads[i] \in Read
  BY DEF TypeOK, Asking
<1>3. k \in DOMAIN dom /\ dom[k] \in Elements /\ Index(kind, k) \in Nat
  BY <1>2, Indices, ElementOfSeq DEF Listed
<1>4. reads[i].gen \in Nat /\ reads[i].certain \in BOOLEAN
  BY <1>2 DEF Read
<1>5. [gen |-> reads[i].gen, kind |-> kind, index |-> Index(kind, k)] \in Ref
  BY <1>3, <1>4 DEF Ref
<1>6. (reads[i].certain /\ reads[i].document = document) \in BOOLEAN
  OBVIOUS
<1>7. h \in Handle
  BY <1>1, <1>2, <1>3, <1>5, <1>6 DEF Handle
<1>8. h.element = dom[k] /\ h.ref.kind = kind /\ h.ref.index = Index(kind, k)
  BY <1>1
<1>9. NamedAt(h)
  BY <1>8 DEF NamedAt
<1>10. QED BY <1>1, <1>3, <1>7, <1>9 DEF InPage

(* What each element bears after a read.                                   *)
LEMMA StampedBy ==
    ASSUME NEW handles, NEW e \in Elements
    PROVE  \/ Stamped(handles)[e] = stamp[e]
           \/ Stamped(handles)[e] \in handles /\ Stamped(handles)[e].element = e
<1>1. CASE \E h \in handles : h.element = e
  <2>1. Stamped(handles)[e] = CHOOSE h \in handles : h.element = e
    BY <1>1 DEF Stamped
  <2>2. QED BY <1>1, <2>1
<1>2. CASE ~\E h \in handles : h.element = e
  BY <1>2 DEF Stamped
<1>3. QED BY <1>1, <1>2

(* A read that answers gives references to some of what it lists, and the  *)
(* agent that pages has a walk.                                            *)
LEMMA WalkOf ==
    ASSUME TypeOK, NEW kind \in {"p", "f"}, NEW wanted \in SUBSET Elements,
           NEW offset \in Offsets(kind, wanted), NEW handles,
           \A h \in handles : h.element \in Elements,
           NEW cursor \in Nat \cup {Nil}
    PROVE  Advance(kind, wanted, offset, handles, cursor) \in Walk
<1>. DEFINE before == IF offset = 0 THEN {} ELSE walk.found
            new == {h.element : h \in handles}
            again == (offset # 0 /\ walk.twice) \/ before \cap new # {}
<1>1. offset # 0 => walk \in Walk
  BY DEF Offsets, TypeOK
<1>2. before \in SUBSET Elements /\ new \in SUBSET Elements
  BY <1>1 DEF Walk
<1>3. again \in BOOLEAN
  OBVIOUS
<1>4. Advance(kind, wanted, offset, handles, cursor) =
        [kind |-> kind, wanted |-> wanted, cursor |-> cursor,
         found |-> before \cup new, twice |-> again]
  BY DEF Advance
<1>. HIDE DEF before, new, again
<1>5. QED BY <1>2, <1>3, <1>4 DEF Walk

(* The elements of the handles given out are elements of the page. *)
LEMMA GivesElements ==
    ASSUME TypeOK, NEW i \in 1..MaxReads, Asking(i), NEW kind \in {"p", "f"},
           NEW positions \in SUBSET Listed(kind)
    PROVE  \A h \in Handles(i, kind, positions) : h.element \in Elements
  BY HandleGiven DEF Handle

(* The first n of a set of positions are some of them. *)
LEMMA FirstOf ==
    ASSUME NEW n, NEW S
    PROVE  First(n, S) \in SUBSET S
  BY DEF First

(* An answer of readPage is an Answer, whatever the cursor and the bytes. *)
LEMMA ReadPageAnswers ==
    ASSUME TypeOK, NEW i \in 1..MaxReads, NEW scope \in SUBSET Elements,
           NEW offset \in Nat, NEW fit \in Nat, ReadPage(i, scope, offset, fit)
    PROVE  /\ \E reached, returned : Answer(i, "p", reached, returned)
           /\ walk' \in Walk
<1>. DEFINE eligible == {k \in Listed("p") : /\ offset =< Index("p", k)
                                             /\ dom[k] \in scope \ hidden}
            exceeds == fit < MaxNodes /\ fit < Cardinality(eligible)
            full == ~exceeds /\ MaxNodes =< Cardinality(eligible)
            reached == First(IF exceeds THEN fit + 1 ELSE MaxNodes, eligible)
            returned == First(fit, reached)
            handles == Handles(i, "p", returned)
            length == Cardinality(Listed("p"))
            nextIndex == IF exceeds \/ full THEN Index("p", Last(reached)) + 1
                         ELSE length
            cursor == IF exceeds \/ nextIndex < length THEN nextIndex ELSE Nil
            wanted == Selected \cap scope
<1>1. /\ Asking(i)
      /\ offset \in Offsets("p", wanted)
      /\ stamp' = Stamped(Handles(i, "p", reached))
      /\ held' = held \cup handles
      /\ walk' = Advance("p", wanted, offset, handles, cursor)
      /\ Done(i)
      /\ UNCHANGED <<document, dom, later, hidden, altered, changes, workerVars>>
  BY DEF ReadPage
<1>2. reached \in SUBSET eligible /\ returned \in SUBSET reached
  BY FirstOf
<1>3. eligible \in SUBSET Listed("p")
  OBVIOUS
<1>4. dom \in Seq(Elements)
  BY DEF TypeOK
<1>5. length \in Nat /\ Index("p", Last(reached)) \in Nat
  BY <1>4, Indices
<1>6. cursor \in Nat \cup {Nil}
  <2>. HIDE DEF exceeds, full, length, reached
  <2>1. nextIndex \in Nat
    BY <1>5
  <2>2. QED BY <2>1
<1>7. wanted \in SUBSET Elements
  OBVIOUS
<1>. HIDE DEF eligible, exceeds, full, reached, returned, length, nextIndex, cursor, wanted
<1>8. \A h \in handles : h.element \in Elements
  BY <1>1, <1>2, <1>3, GivesElements
<1>9. walk' \in Walk
  <2>. HIDE DEF handles
  <2>1. QED BY <1>1, <1>6, <1>7, <1>8, WalkOf
<1>10. Answer(i, "p", reached, returned)
  BY <1>1, <1>2, <1>3 DEF Answer
<1>11. QED BY <1>9, <1>10

(* An answer of find is an Answer. *)
LEMMA FindAnswers ==
    ASSUME TypeOK, NEW i \in 1..MaxReads, NEW matching \in SUBSET Elements,
           NEW offset \in Nat, NEW limit \in Nat, Find(i, matching, offset, limit)
    PROVE  /\ \E reached, returned : Answer(i, "f", reached, returned)
           /\ walk' \in Walk
<1>. DEFINE eligible == {k \in Listed("f") : dom[k] \in matching \ hidden}
            rest == eligible \ First(offset, eligible)
            reached == First(limit, rest)
            handles == Handles(i, "f", reached)
            cursor == IF limit < Cardinality(rest)
                      THEN offset + Cardinality(handles) ELSE Nil
<1>1. /\ Asking(i)
      /\ offset \in Offsets("f", matching)
      /\ stamp' = Stamped(handles)
      /\ held' = held \cup handles
      /\ walk' = Advance("f", matching, offset, handles, cursor)
      /\ Done(i)
      /\ UNCHANGED <<document, dom, later, hidden, altered, changes, workerVars>>
  BY DEF Find
<1>2. reached \in SUBSET rest
  BY FirstOf
<1>3. rest \in SUBSET Listed("f")
  OBVIOUS
<1>4. dom \in Seq(Elements)
  BY DEF TypeOK
<1>5. IsFiniteSet(reached)
  <2>. HIDE DEF rest, reached
  <2>1. QED BY <1>2, <1>3, <1>4, Indices, FS_Subset
<1>6. Cardinality(handles) \in Nat
  <2>. HIDE DEF reached
  <2>. DEFINE H(k) == [ref |-> [gen |-> reads[i].gen, kind |-> "f", index |-> Index("f", k)],
                       element |-> dom[k], document |-> document,
                       certain |-> reads[i].certain /\ reads[i].document = document]
              f == [k \in reached |-> H(k)]
  <2>1. handles = {H(k) : k \in reached}
    BY DEF Handles
  <2>. HIDE DEF H, handles
  <2>2. f \in Surjection(reached, handles)
    BY <2>1 DEF Surjection
  <2>3. IsFiniteSet(handles)
    BY <1>5, <2>2, FS_Surjection
  <2>4. QED BY <2>3, FS_CardinalityType
<1>. HIDE DEF eligible, rest, reached
<1>7. \A h \in handles : h.element \in Elements
  BY <1>1, <1>2, <1>3, GivesElements
<1>8. walk' \in Walk
  <2>. HIDE DEF handles
  <2>1. cursor \in Nat \cup {Nil}
    BY <1>6
  <2>. HIDE DEF cursor
  <2>2. QED BY <1>1, <1>7, <2>1, WalkOf
<1>9. Answer(i, "f", reached, reached)
  BY <1>1, <1>2, <1>3 DEF Answer
<1>10. QED BY <1>8, <1>9

(* Joining two sequences, and what is left of one after n of its elements. *)
LEMMA Joined ==
    ASSUME NEW S, NEW a \in Seq(S), NEW b \in Seq(S), NEW t, t = a \o b
    PROVE  /\ t \in Seq(S) /\ Len(t) = Len(a) + Len(b)
           /\ \A j \in 1..(Len(a) + Len(b)) :
                t[j] = IF j <= Len(a) THEN a[j] ELSE b[j - Len(a)]
  BY ConcatProperties

(* What is left of a sequence after n of its elements. *)
LEMMA Rest ==
    ASSUME NEW S, NEW q \in Seq(S), NEW n \in 0..Len(q),
           NEW b, b = SubSeq(q, n + 1, Len(q))
    PROVE  b \in Seq(S) /\ Len(b) = Len(q) - n /\ \A j \in 1..(Len(q) - n) : b[j] = q[n + j]
<1>0. Len(q) \in Nat /\ n \in Nat /\ n <= Len(q)
  BY LenProperties
<1>1. /\ Len(q) \in Nat /\ \A j \in (n + 1)..Len(q) : q[j] \in S
      /\ n + 1 \in Int /\ Len(q) - (n + 1) + 1 = Len(q) - n
  BY LenProperties, ElementOfSeq
<1>2. /\ b \in Seq(S)
      /\ Len(b) = IF n + 1 <= Len(q) THEN Len(q) - (n + 1) + 1 ELSE 0
      /\ \A j \in 1..(Len(q) - (n + 1) + 1) : b[j] = q[(n + 1) + j - 1]
  BY <1>1, SubSeqProperties
<1>3. Len(b) = Len(q) - n
  <2>1. CASE n + 1 <= Len(q)
    BY <1>1, <1>2, <2>1
  <2>2. CASE ~(n + 1 <= Len(q))
    <3>1. Len(q) - n = 0
      BY <1>0, <2>2
    <3>2. QED BY <1>2, <2>2, <3>1
  <2>3. QED BY <2>1, <2>2
<1>4. ASSUME NEW j \in 1..(Len(q) - n) PROVE b[j] = q[n + j]
  <2>1. (n + 1) + j - 1 = n + j
    BY <1>1
  <2>2. QED BY <1>1, <1>2, <2>1
<1>5. QED BY <1>2, <1>3, <1>4

(* A page without repetitions, its elements, and the page with e after its *)
(* first n elements.                                                       *)
Distinct(q) == \A j, k \in DOMAIN q : q[j] = q[k] => j = k

Members(q) == {q[k] : k \in DOMAIN q}

With(q, e, n) == SubSeq(q, 1, n) \o <<e>> \o SubSeq(q, n + 1, Len(q))

(* What inserting and removing does to a page without repetitions.         *)
LEMMA Inserted ==
    ASSUME NEW S, NEW q \in Seq(S), NEW e \in S, NEW n \in 0..Len(q),
           e \notin Members(q), Distinct(q)
    PROVE  /\ With(q, e, n) \in Seq(S) /\ Distinct(With(q, e, n))
           /\ Members(With(q, e, n)) = Members(q) \cup {e}
<1>. DEFINE a == SubSeq(q, 1, n)
            b == SubSeq(q, n + 1, Len(q))
            c == a \o <<e>>
            t == c \o b
<1>0. t = c \o b
  OBVIOUS
<1>1. Len(q) \in Nat /\ DOMAIN q = 1..Len(q) /\ \A j \in 1..Len(q) : q[j] \in S
  BY LenProperties, ElementOfSeq
<1>A. /\ \A j \in 1..Len(q) : q[j] # e
      /\ \A j, k \in DOMAIN q : q[j] = q[k] => j = k
  BY <1>1 DEF Distinct, Members
<1>2. a \in Seq(S) /\ Len(a) = n /\ \A j \in 1..n : a[j] = q[j]
  BY <1>1, SubSeqProperties
<1>3. b \in Seq(S) /\ Len(b) = Len(q) - n /\ \A j \in 1..(Len(q) - n) : b[j] = q[n + j]
  <2>1. b = SubSeq(q, n + 1, Len(q)) /\ n \in 0..Len(q)
    BY <1>1
  <2>. HIDE DEF b
  <2>2. QED BY <2>1, Rest
<1>. HIDE DEF a, b
<1>4. <<e>> \in Seq(S) /\ Len(<<e>>) = 1 /\ <<e>>[1] = e
  OBVIOUS
<1>5. /\ c \in Seq(S) /\ Len(c) = n + 1
      /\ \A j \in 1..(n + 1) : c[j] = IF j <= n THEN q[j] ELSE e
  BY <1>2, <1>4, Joined
<1>. HIDE DEF c
<1>. HIDE DEF t
<1>6. /\ t \in Seq(S) /\ Len(t) = Len(q) + 1
      /\ \A j \in 1..(Len(q) + 1) :
           t[j] = IF j <= n + 1 THEN c[j] ELSE b[j - (n + 1)]
  <2>1. /\ t \in Seq(S) /\ Len(t) = Len(c) + Len(b)
        /\ \A j \in 1..(Len(c) + Len(b)) :
             t[j] = IF j <= Len(c) THEN c[j] ELSE b[j - Len(c)]
    <3>1. c \in Seq(S) /\ b \in Seq(S)
      BY <1>3, <1>5
    <3>2. QED BY <1>0, <3>1, Joined
  <2>2. Len(c) = n + 1 /\ Len(c) + Len(b) = Len(q) + 1
    BY <1>1, <1>3, <1>5
  <2>3. QED BY <2>1, <2>2
<1>7. DOMAIN t = 1..(Len(q) + 1)
  BY <1>1, <1>6, LenProperties
<1>8. /\ \A j \in 1..n : t[j] = q[j]
      /\ t[n + 1] = e
      /\ \A j \in (n + 2)..(Len(q) + 1) : t[j] = q[j - 1]
  <2>1. \A j \in 1..(n + 1) : t[j] = IF j <= n THEN q[j] ELSE e
    BY <1>1, <1>5, <1>6
  <2>2. ASSUME NEW j \in (n + 2)..(Len(q) + 1) PROVE t[j] = q[j - 1]
    <3>1. t[j] = b[j - (n + 1)]
      BY <1>1, <1>6
    <3>2. j - (n + 1) \in 1..(Len(q) - n) /\ n + (j - (n + 1)) = j - 1
      BY <1>1
    <3>3. b[j - (n + 1)] = q[n + (j - (n + 1))]
      BY <1>3, <3>2
    <3>4. QED BY <3>1, <3>2, <3>3
  <2>3. (n + 1) \in 1..(n + 1) /\ \A j \in 1..n : j \in 1..(n + 1) /\ j <= n
    BY <1>1
  <2>4. n + 1 > n
    BY <1>1
  <2>5. QED BY <1>1, <2>1, <2>2, <2>3, <2>4
<1>9. \A j, k \in DOMAIN t : t[j] = t[k] => j = k
  <2>. SUFFICES ASSUME NEW j \in DOMAIN t, NEW k \in DOMAIN t, t[j] = t[k], j # k
                PROVE FALSE
    OBVIOUS
  <2>. DEFINE p(m) == IF m <= n THEN m ELSE m - 1
  <2>1. ASSUME NEW m \in DOMAIN t, m # n + 1 PROVE p(m) \in 1..Len(q) /\ t[m] = q[p(m)]
    <3>1. m \in 1..(Len(q) + 1) /\ n \in 0..Len(q) /\ Len(q) \in Nat
      BY <1>1, <1>7
    <3>2. CASE m =< n
      <4>1. m \in 1..n /\ m \in 1..Len(q) /\ p(m) = m
        BY <3>1, <3>2
      <4>2. QED BY <1>8, <4>1
    <3>3. CASE ~(m =< n)
      <4>1. m \in (n + 2)..(Len(q) + 1) /\ m - 1 \in 1..Len(q) /\ p(m) = m - 1
        BY <2>1, <3>1, <3>3
      <4>2. QED BY <1>8, <4>1
    <3>4. QED BY <3>2, <3>3
  <2>2. j # n + 1 /\ k # n + 1
    BY <1>1, <1>A, <1>8, <2>1
  <2>3. p(j) = p(k)
    BY <1>1, <1>A, <2>1, <2>2
  <2>4. QED BY <1>1, <1>A, <1>7, <2>2, <2>3
<1>10. {t[k] : k \in DOMAIN t} = {q[k] : k \in DOMAIN q} \cup {e}
  <2>1. \A j \in 1..Len(q) : q[j] = IF j <= n THEN t[j] ELSE t[j + 1]
    BY <1>1, <1>A, <1>8
  <2>2. \A k \in DOMAIN t : t[k] = IF k <= n THEN q[k] ELSE IF k = n + 1 THEN e ELSE q[k - 1]
    BY <1>1, <1>A, <1>7, <1>8
  <2>3. \A k \in DOMAIN t : t[k] \in {q[j] : j \in DOMAIN q} \cup {e}
    <3>. TAKE k \in DOMAIN t
    <3>1. \/ k \in DOMAIN q /\ t[k] = q[k]
          \/ t[k] = e
          \/ k - 1 \in DOMAIN q /\ t[k] = q[k - 1]
      BY <1>1, <1>A, <1>7, <2>2
    <3>2. QED BY <3>1
  <2>4. \A j \in DOMAIN q : q[j] \in {t[k] : k \in DOMAIN t}
    <3>. TAKE j \in DOMAIN q
    <3>1. \/ j \in DOMAIN t /\ q[j] = t[j]
          \/ j + 1 \in DOMAIN t /\ q[j] = t[j + 1]
      BY <1>1, <1>A, <1>7, <2>1
    <3>2. QED BY <3>1
  <2>5. n + 1 \in DOMAIN t /\ t[n + 1] = e
    BY <1>1, <1>A, <1>7, <1>8
  <2>6. QED BY <2>3, <2>4, <2>5
<1>11. QED BY <1>6, <1>9, <1>10 DEF t, c, a, b, Distinct, Members, With

(* A page without one of its elements. *)
LEMMA Removed ==
    ASSUME NEW S, NEW q \in Seq(S), NEW n \in DOMAIN q,
           \A j, k \in DOMAIN q : q[j] = q[k] => j = k
    PROVE  LET t == SubSeq(q, 1, n - 1) \o SubSeq(q, n + 1, Len(q)) IN
           /\ t \in Seq(S)
           /\ \A j, k \in DOMAIN t : t[j] = t[k] => j = k
           /\ {t[k] : k \in DOMAIN t} = {q[k] : k \in DOMAIN q} \ {q[n]}
<1>. DEFINE a == SubSeq(q, 1, n - 1)
            b == SubSeq(q, n + 1, Len(q))
            t == a \o b
<1>1. /\ Len(q) \in Nat /\ DOMAIN q = 1..Len(q) /\ n \in 1..Len(q)
      /\ \A j \in 1..Len(q) : q[j] \in S
  BY LenProperties, ElementOfSeq
<1>2. a \in Seq(S) /\ Len(a) = n - 1 /\ \A j \in 1..(n - 1) : a[j] = q[j]
  BY <1>1, SubSeqProperties
<1>3. b \in Seq(S) /\ Len(b) = Len(q) - n /\ \A j \in 1..(Len(q) - n) : b[j] = q[n + j]
  <2>1. b = SubSeq(q, n + 1, Len(q)) /\ n \in 0..Len(q)
    BY <1>1
  <2>. HIDE DEF b
  <2>2. QED BY <2>1, Rest
<1>. HIDE DEF a, b
<1>4. /\ t \in Seq(S) /\ Len(t) = Len(q) - 1
      /\ \A j \in 1..(Len(q) - 1) : t[j] = IF j <= n - 1 THEN a[j] ELSE b[j - (n - 1)]
  <2>1. /\ t \in Seq(S) /\ Len(t) = Len(a) + Len(b)
        /\ \A j \in 1..(Len(a) + Len(b)) :
             t[j] = IF j <= Len(a) THEN a[j] ELSE b[j - Len(a)]
    BY <1>2, <1>3, Joined
  <2>2. Len(a) = n - 1 /\ Len(a) + Len(b) = Len(q) - 1
    BY <1>1, <1>2, <1>3
  <2>3. QED BY <2>1, <2>2
<1>. HIDE DEF t
<1>5. DOMAIN t = 1..(Len(q) - 1)
  BY <1>1, <1>4, LenProperties
<1>6. \A k \in DOMAIN t : t[k] = IF k < n THEN q[k] ELSE q[k + 1]
  <2>. TAKE k \in DOMAIN t
  <2>1. CASE k < n
    <3>1. k \in 1..(n - 1) /\ k <= n - 1 /\ k \in 1..(Len(q) - 1)
      BY <1>1, <1>5, <2>1
    <3>2. QED BY <1>2, <1>4, <2>1, <3>1
  <2>2. CASE ~(k < n)
    <3>1. /\ k \in 1..(Len(q) - 1) /\ ~(k <= n - 1)
          /\ k - (n - 1) \in 1..(Len(q) - n) /\ n + (k - (n - 1)) = k + 1
      BY <1>1, <1>5, <2>2
    <3>2. b[k - (n - 1)] = q[n + (k - (n - 1))]
      BY <1>3, <3>1
    <3>3. QED BY <1>4, <2>2, <3>1, <3>2
  <2>3. QED BY <2>1, <2>2
<1>. DEFINE p(m) == IF m < n THEN m ELSE m + 1
<1>7. \A k \in DOMAIN t : p(k) \in DOMAIN q /\ p(k) # n /\ t[k] = q[p(k)]
  BY <1>1, <1>5, <1>6
<1>8. \A j, k \in DOMAIN t : t[j] = t[k] => j = k
  <2>. SUFFICES ASSUME NEW j \in DOMAIN t, NEW k \in DOMAIN t, t[j] = t[k]
                PROVE j = k
    OBVIOUS
  <2>1. p(j) = p(k)
    BY <1>7
  <2>2. QED BY <1>1, <1>5, <2>1
<1>9. {t[k] : k \in DOMAIN t} = {q[k] : k \in DOMAIN q} \ {q[n]}
  <2>1. \A k \in DOMAIN t : t[k] \in {q[j] : j \in DOMAIN q} \ {q[n]}
    BY <1>7
  <2>2. \A j \in DOMAIN q : j # n => q[j] \in {t[k] : k \in DOMAIN t}
    <3>. TAKE j \in DOMAIN q
    <3>. HAVE j # n
    <3>1. \/ j \in DOMAIN t /\ q[j] = t[j]
          \/ j - 1 \in DOMAIN t /\ q[j] = t[j - 1]
      BY <1>1, <1>5, <1>6
    <3>2. QED BY <3>1
  <2>3. QED BY <2>1, <2>2
<1>10. QED BY <1>4, <1>8, <1>9 DEF t, a, b

-----------------------------------------------------------------------------
(* A new page, with nothing in it that bears a reference.                  *)
LEMMA LoadedPage ==
    ASSUME dom \in Pages
    PROVE  /\ dom \in Seq(Elements)
           /\ \A j, k \in DOMAIN dom : dom[j] = dom[k] => j = k
           /\ InPage \in SUBSET Elements
<1>1. dom \in Seq(Elements) /\ \A j, k \in DOMAIN dom : dom[j] = dom[k] => j = k
  BY Constants
<1>2. InPage \in SUBSET Elements
  BY <1>1, Indices, ElementOfSeq DEF InPage
<1>3. QED BY <1>1, <1>2

(* The invariant holds of a page just loaded. *)
LEMMA InitInv ==
    ASSUME Init
    PROVE  PageInv
<1>1. TypeOK
  <2>1. /\ dom \in Seq(Elements) /\ InPage \in SUBSET Elements
        /\ \A j, k \in DOMAIN dom : dom[j] = dom[k] => j = k
    BY LoadedPage DEF Init
  <2>2. /\ document \in 1..MaxDocuments /\ commits \in Nat
        /\ changes \in 0..MaxChanges /\ restarts \in 0..MaxRestarts
        /\ generation \in Nat \cup {Nil}
    BY Constants DEF Init
  <2>3. /\ later \in SUBSET (Elements \ InPage) /\ hidden \in SUBSET InPage
        /\ stamp \in [Elements -> Handle \cup {Nil}]
        /\ \A e \in Elements : stamp[e] # Nil => e \in InPage
        /\ altered \in BOOLEAN /\ held \in SUBSET Handle
        /\ reads \in [1..MaxReads -> Read \cup {Nil}] /\ walk \in Walk \cup {Nil}
    BY DEF Init
  <2>4. QED BY <2>1, <2>2, <2>3 DEF TypeOK
<1>2. Counted
  BY DEF Init, Counted, Asking
<1>3. Named
  BY DEF Init, Named
<1>4. QED BY <1>1, <1>2, <1>3 DEF PageInv

(* The handles of an answer fit the invariant, and with them what the      *)
(* elements bear afterwards.                                               *)
LEMMA AnswerKeeps ==
    ASSUME PageInv, NEW i \in 1..MaxReads, NEW kind, NEW reached, NEW returned,
           Answer(i, kind, reached, returned), walk' \in Walk
    PROVE  PageInv'
<1>1. TypeOK /\ Counted /\ Named
  BY DEF PageInv
<1>2. /\ Asking(i) /\ kind \in {"p", "f"}
      /\ reached \in SUBSET Listed(kind) /\ returned \in SUBSET Listed(kind)
      /\ stamp' = Stamped(Handles(i, kind, reached))
      /\ held' = held \cup Handles(i, kind, returned)
      /\ Done(i)
  BY DEF Answer
<1>3. /\ document' = document /\ dom' = dom /\ later' = later /\ hidden' = hidden
      /\ altered' = altered /\ changes' = changes
      /\ generation' = generation /\ commits' = commits /\ restarts' = restarts
  BY DEF Answer, workerVars
<1>4. reads[i] \in Read /\ reads' = [reads EXCEPT ![i] = [@ EXCEPT !.status = "over"]]
  BY <1>1, <1>2 DEF TypeOK, Asking, Done
<1>5. ASSUME NEW positions \in SUBSET Listed(kind), NEW h \in Handles(i, kind, positions)
      PROVE  /\ h \in Handle /\ h.document = document /\ h.element \in InPage
             /\ Certain(h) /\ NamedAt(h)
  <2>1. /\ h \in Handle /\ h.document = document /\ h.element \in InPage /\ NamedAt(h)
        /\ h.ref.gen = reads[i].gen
        /\ h.certain => reads[i].certain /\ reads[i].document = document
    BY <1>1, <1>2, HandleGiven
  <2>2. reads[i].certain => Tells(reads[i].gen, reads[i].document)
    BY <1>1, <1>2 DEF Counted
  <2>3. QED BY <2>1, <2>2 DEF Certain
<1>6. \A e \in Elements :
        \/ stamp'[e] = stamp[e]
        \/ \E h \in Handles(i, kind, reached) : stamp'[e] = h /\ h.element = e
  BY <1>2, StampedBy
<1>7. TypeOK'
  <2>1. held' \in SUBSET Handle
    BY <1>1, <1>2, <1>5 DEF TypeOK
  <2>2. stamp' \in [Elements -> Handle \cup {Nil}]
    <3>1. stamp' = [e \in Elements |-> stamp'[e]]
      BY <1>2 DEF Stamped
    <3>2. \A e \in Elements : stamp[e] \in Handle \cup {Nil}
      BY <1>1 DEF TypeOK
    <3>3. \A e \in Elements : stamp'[e] \in Handle \cup {Nil}
      BY <1>2, <1>5, <1>6, <3>2
    <3>4. QED BY <3>1, <3>3
  <2>3. \A e \in Elements : stamp'[e] # Nil => e \in InPage
    BY <1>1, <1>2, <1>5, <1>6 DEF TypeOK
  <2>4. reads' \in [1..MaxReads -> Read \cup {Nil}]
    <3>1. [reads[i] EXCEPT !.status = "over"] \in Read
      BY <1>4 DEF Read
    <3>2. QED BY <1>1, <1>4, <3>1 DEF TypeOK
  <2>5. QED BY <1>1, <1>3, <2>1, <2>2, <2>3, <2>4 DEF TypeOK, InPage
<1>8. Counted'
  <2>1. \A g, d : Tells(g, d)' <=> Tells(g, d)
    BY <1>3 DEF Tells
  <2>2. \A h : Certain(h)' <=> Certain(h)
    BY <1>3 DEF Certain, Tells
  <2>3. ASSUME NEW j \in 1..MaxReads, Asking(j)', (reads[j].certain)'
        PROVE  Tells(reads[j].gen, reads[j].document)'
    <3>1. j # i
      BY <1>1, <1>4, <2>3 DEF TypeOK, Asking, Read
    <3>2. reads'[j] = reads[j]
      BY <1>1, <1>4, <3>1 DEF TypeOK
    <3>3. Asking(j)
      BY <2>3, <3>2 DEF Asking
    <3>4. Tells(reads[j].gen, reads[j].document)
      BY <1>1, <2>3, <3>2, <3>3 DEF Counted
    <3>5. QED BY <1>3, <3>2, <3>4 DEF Tells
  <2>4. \A h \in held' : h.document =< document /\ Certain(h)
    <3>1. document =< document
      BY <1>1 DEF TypeOK
    <3>2. QED BY <1>1, <1>2, <1>5, <3>1 DEF Counted
  <2>5. \A e \in Elements : stamp'[e] # Nil =>
          stamp'[e].document = document /\ Certain(stamp'[e])
    BY <1>1, <1>2, <1>5, <1>6 DEF Counted
  <2>6. QED BY <1>3, <2>2, <2>3, <2>4, <2>5 DEF Counted
<1>9. Named'
  <2>1. \A h : NamedAt(h)' <=> NamedAt(h)
    BY <1>3 DEF NamedAt, Listed, Index
  <2>2. SUFFICES ASSUME ~altered
                 PROVE  /\ \A h \in held' : h.document = document => NamedAt(h)
                        /\ \A e \in Elements : stamp'[e] # Nil =>
                             stamp'[e].element = e /\ NamedAt(stamp'[e])
    BY <1>3, <2>1 DEF Named
  <2>3. \A h \in held' : h.document = document => NamedAt(h)
    BY <1>1, <1>2, <1>5, <2>2 DEF Named
  <2>4. \A e \in Elements : stamp'[e] # Nil =>
          stamp'[e].element = e /\ NamedAt(stamp'[e])
    BY <1>1, <1>2, <1>5, <1>6, <2>2 DEF Named
  <2>5. QED BY <2>3, <2>4
<1>10. QED BY <1>7, <1>8, <1>9 DEF PageInv

(* What an action leaves alone keeps its part of the invariant.            *)
LEMMA SameNames ==
    ASSUME UNCHANGED dom
    PROVE  \A h : NamedAt(h)' <=> NamedAt(h)
  BY DEF NamedAt, Listed, Index

(* Which handles name their element depends on dom and stamp alone. *)
LEMMA SameRefs ==
    ASSUME Named, UNCHANGED <<document, dom, altered, held, stamp>>
    PROVE  Named'
<1>1. \A h : NamedAt(h)' <=> NamedAt(h)
  BY SameNames
<1>2. QED BY <1>1 DEF Named

(* Which generation tells which document depends on the Map, the commits
   under way and the document. *)
LEMMA SameCount ==
    ASSUME UNCHANGED <<document, generation, commits>>
    PROVE  /\ \A g, d : Tells(g, d)' <=> Tells(g, d)
           /\ \A h : Certain(h)' <=> Certain(h)
  BY DEF Tells, Certain

(* A read that begins takes its generation from the Map. *)
LEMMA BeginReadKeeps ==
    ASSUME PageInv, NEW i \in 1..MaxReads, BeginRead(i)
    PROVE  PageInv'
<1>. DEFINE r == [status |-> "asking",
                  gen |-> IF generation = Nil THEN 1 ELSE generation,
                  document |-> document,
                  certain |-> generation # Nil /\ commits = 0]
<1>1. TypeOK /\ Counted /\ Named
  BY DEF PageInv
<1>2. /\ reads[i] = Nil /\ reads' = [reads EXCEPT ![i] = r]
      /\ UNCHANGED <<document, dom, later, hidden, stamp, altered, changes>>
      /\ UNCHANGED <<generation, commits, restarts, held, walk>>
  BY DEF BeginRead, pageVars, workerVars
<1>3. r \in Read
  <2>1. (IF generation = Nil THEN 1 ELSE generation) \in Nat /\ document \in 1..MaxDocuments
    BY <1>1 DEF TypeOK
  <2>2. (generation # Nil /\ commits = 0) \in BOOLEAN
    OBVIOUS
  <2>3. QED BY <2>1, <2>2 DEF Read
<1>4. r.certain => Tells(r.gen, r.document)
  <2>1. document \in Nat /\ generation \in Nat \cup {Nil}
    BY <1>1 DEF TypeOK
  <2>. HAVE r.certain
  <2>2. generation # Nil /\ commits = 0
    OBVIOUS
  <2>3. r.gen = generation /\ r.document = document
    BY <2>2
  <2>4. generation + document = document + generation + commits
    BY <2>1, <2>2
  <2>. HIDE DEF r
  <2>5. QED BY <2>2, <2>3, <2>4 DEF Tells
<1>. HIDE DEF r
<1>5. reads' \in [1..MaxReads -> Read \cup {Nil}]
  BY <1>1, <1>2, <1>3 DEF TypeOK
<1>6. TypeOK'
  BY <1>1, <1>2, <1>5 DEF TypeOK, InPage
<1>7. Counted'
  <2>1. \A j \in 1..MaxReads : reads'[j] = IF j = i THEN r ELSE reads[j]
    BY <1>1, <1>2 DEF TypeOK
  <2>2. ASSUME NEW j \in 1..MaxReads, Asking(j)', (reads[j].certain)'
        PROVE  Tells(reads[j].gen, reads[j].document)'
    <3>1. CASE j = i
      BY <1>2, <1>4, <2>1, <2>2, <3>1 DEF Tells
    <3>2. CASE j # i
      <4>1. reads'[j] = reads[j]
        BY <2>1, <3>2
      <4>2. Asking(j) /\ reads[j].certain
        BY <2>2, <4>1 DEF Asking
      <4>3. Tells(reads[j].gen, reads[j].document)
        BY <1>1, <4>2 DEF Counted
      <4>4. QED BY <1>2, <4>1, <4>3 DEF Tells
    <3>3. QED BY <3>1, <3>2
  <2>3. \A h : Certain(h)' <=> Certain(h)
    BY <1>2, SameCount
  <2>4. QED BY <1>1, <1>2, <2>2, <2>3 DEF Counted
<1>8. Named'
  BY <1>1, <1>2, SameRefs
<1>9. QED BY <1>6, <1>7, <1>8 DEF PageInv

(* A read that is over no longer counts.                                   *)
LEMMA DoneKeeps ==
    ASSUME TypeOK, Counted, NEW i \in 1..MaxReads, Asking(i), Done(i),
           UNCHANGED <<document, generation, commits, held, stamp>>
    PROVE  reads' \in [1..MaxReads -> Read \cup {Nil}] /\ Counted'
<1>1. reads[i] \in Read /\ reads' = [reads EXCEPT ![i] = [@ EXCEPT !.status = "over"]]
  BY DEF TypeOK, Asking, Done
<1>2. [reads[i] EXCEPT !.status = "over"] \in Read
  BY <1>1 DEF Read
<1>3. reads' \in [1..MaxReads -> Read \cup {Nil}]
  BY <1>1, <1>2 DEF TypeOK
<1>4. ASSUME NEW j \in 1..MaxReads, Asking(j)', (reads[j].certain)'
      PROVE  Tells(reads[j].gen, reads[j].document)'
  <2>1. j # i
    BY <1>1, <1>4 DEF TypeOK, Asking, Read
  <2>2. reads'[j] = reads[j]
    BY <1>1, <2>1 DEF TypeOK
  <2>3. Asking(j) /\ reads[j].certain
    BY <1>4, <2>2 DEF Asking
  <2>4. Tells(reads[j].gen, reads[j].document)
    BY <2>3 DEF Counted
  <2>5. QED BY <2>2, <2>4 DEF Tells
<1>5. \A h : Certain(h)' <=> Certain(h)
  BY SameCount
<1>6. QED BY <1>3, <1>4, <1>5 DEF Counted

(* A read whose scope is gone leaves the page alone. *)
LEMMA ReadStaleScopeKeeps ==
    ASSUME PageInv, NEW i \in 1..MaxReads, ReadStaleScope(i)
    PROVE  PageInv'
<1>1. TypeOK /\ Counted /\ Named
  BY DEF PageInv
<1>2. /\ Asking(i) /\ Done(i)
      /\ UNCHANGED <<document, dom, later, hidden, stamp, altered, changes>>
      /\ UNCHANGED <<generation, commits, restarts, held, walk>>
  BY DEF ReadStaleScope, pageVars, workerVars
<1>3. reads' \in [1..MaxReads -> Read \cup {Nil}] /\ Counted'
  BY <1>1, <1>2, DoneKeeps
<1>4. TypeOK'
  BY <1>1, <1>2, <1>3 DEF TypeOK, InPage
<1>5. Named'
  BY <1>1, <1>2, SameRefs
<1>6. QED BY <1>3, <1>4, <1>5 DEF PageInv

(* One commit counted and one fewer under way: the sum stays. *)
LEMMA CommittedKeeps ==
    ASSUME PageInv, Committed
    PROVE  PageInv'
<1>1. TypeOK /\ Counted /\ Named
  BY DEF PageInv
<1>2. /\ commits > 0 /\ commits' = commits - 1
      /\ generation' = (IF generation = Nil THEN 0 ELSE generation) + 1
      /\ UNCHANGED <<document, dom, later, hidden, stamp, altered, changes>>
      /\ UNCHANGED <<restarts, reads, held, walk>>
  BY DEF Committed, pageVars
<1>3. /\ commits \in Nat /\ generation \in Nat \cup {Nil} /\ Nil \notin Nat
      /\ document \in Nat
  BY <1>1, Constants DEF TypeOK
<1>4. commits' \in Nat /\ generation' \in Nat /\ generation' # Nil
  BY <1>2, <1>3
<1>5. \A g, d \in Nat : Tells(g, d) => Tells(g, d)'
  BY <1>2, <1>3, <1>4 DEF Tells
<1>6. TypeOK'
  BY <1>1, <1>2, <1>4 DEF TypeOK, InPage
<1>7. \A h \in Handle : h.ref.gen \in Nat /\ h.document \in Nat
  BY DEF Handle, Ref
<1>8. \A h \in Handle : Certain(h) => Certain(h)'
  BY <1>5, <1>7 DEF Certain
<1>9. Counted'
  <2>1. ASSUME NEW j \in 1..MaxReads, Asking(j)', (reads[j].certain)'
        PROVE  Tells(reads[j].gen, reads[j].document)'
    <3>1. Asking(j) /\ reads[j].certain
      BY <1>2, <2>1 DEF Asking
    <3>2. reads[j] \in Read
      BY <1>1, <3>1 DEF TypeOK, Asking
    <3>3. reads[j].gen \in Nat /\ reads[j].document \in Nat
      BY <3>2 DEF Read
    <3>4. Tells(reads[j].gen, reads[j].document)
      BY <1>1, <3>1 DEF Counted
    <3>5. Tells(reads'[j].gen, reads'[j].document) <=> Tells(reads[j].gen, reads[j].document)
      BY <1>2
    <3>6. QED BY <1>2, <1>5, <3>3, <3>4 DEF Tells
  <2>2. held \in SUBSET Handle /\ \A e \in Elements : stamp[e] \in Handle \cup {Nil}
    BY <1>1 DEF TypeOK
  <2>3. \A h \in held : h.document =< document /\ Certain(h)'
    BY <1>1, <1>8, <2>2 DEF Counted
  <2>4. \A e \in Elements : stamp[e] # Nil => stamp[e].document = document /\ Certain(stamp[e])'
    <3>. TAKE e \in Elements
    <3>. HAVE stamp[e] # Nil
    <3>1. stamp[e].document = document /\ Certain(stamp[e]) /\ stamp[e] \in Handle
      BY <1>1, <2>2 DEF Counted
    <3>2. stamp'[e] = stamp[e]
      BY <1>2
    <3>3. QED BY <1>2, <1>5, <1>7, <3>1, <3>2 DEF Certain, Tells
  <2>5. QED BY <1>2, <2>1, <2>3, <2>4 DEF Counted
<1>10. Named'
  BY <1>1, <1>2, SameRefs
<1>11. QED BY <1>6, <1>9, <1>10 DEF PageInv

(* After a restart nothing is certain any more. *)
LEMMA RestartKeeps ==
    ASSUME PageInv, Restart
    PROVE  PageInv'
<1>. DEFINE over(r) == [r EXCEPT !.status = "over"]
            unsure(h) == [h EXCEPT !.certain = FALSE]
<1>1. TypeOK /\ Counted /\ Named
  BY DEF PageInv
<1>2. /\ restarts < MaxRestarts /\ restarts' = restarts + 1
      /\ generation' = Nil
      /\ reads' = [i \in 1..MaxReads |-> IF Asking(i) THEN over(reads[i]) ELSE reads[i]]
      /\ held' = {unsure(h) : h \in held}
      /\ stamp' = [e \in Elements |-> IF stamp[e] = Nil THEN Nil ELSE unsure(stamp[e])]
      /\ UNCHANGED <<document, dom, later, hidden, altered, changes, commits, walk>>
  BY DEF Restart
<1>3. ASSUME NEW h \in Handle
      PROVE  /\ unsure(h) \in Handle /\ unsure(h).certain = FALSE
             /\ unsure(h).ref = h.ref /\ unsure(h).element = h.element
             /\ unsure(h).document = h.document
  BY DEF Handle
<1>4. ASSUME NEW r \in Read
      PROVE  over(r) \in Read /\ over(r).status = "over"
  BY DEF Read
<1>. HIDE DEF over, unsure
<1>5. held \in SUBSET Handle /\ \A e \in Elements : stamp[e] # Nil => stamp[e] \in Handle
  BY <1>1 DEF TypeOK
<1>6. \A e \in Elements : stamp'[e] = IF stamp[e] = Nil THEN Nil ELSE unsure(stamp[e])
  BY <1>2
<1>7. reads' \in [1..MaxReads -> Read \cup {Nil}]
  <2>1. \A i \in 1..MaxReads : Asking(i) => reads[i] \in Read
    BY <1>1 DEF TypeOK, Asking
  <2>2. QED BY <1>1, <1>2, <1>4, <2>1 DEF TypeOK
<1>8. TypeOK'
  <2>1. held' \in SUBSET Handle
    BY <1>2, <1>3, <1>5
  <2>2. stamp' \in [Elements -> Handle \cup {Nil}]
    BY <1>2, <1>3, <1>5
  <2>3. \A e \in Elements : stamp'[e] # Nil => e \in InPage
    BY <1>1, <1>6 DEF TypeOK
  <2>4. restarts' \in 0..MaxRestarts
    BY <1>1, <1>2, Constants DEF TypeOK
  <2>5. QED BY <1>1, <1>2, <1>7, <2>1, <2>2, <2>3, <2>4 DEF TypeOK, InPage
<1>9. Counted'
  <2>1. \A i \in 1..MaxReads : ~Asking(i)'
    <3>. TAKE i \in 1..MaxReads
    <3>1. CASE Asking(i)
      <4>1. reads[i] \in Read /\ reads'[i] = over(reads[i])
        BY <1>1, <1>2, <3>1 DEF TypeOK, Asking
      <4>2. QED BY <1>4, <4>1 DEF Asking
    <3>2. CASE ~Asking(i)
      <4>1. reads'[i] = reads[i]
        BY <1>2, <3>2
      <4>2. QED BY <3>2, <4>1 DEF Asking
    <3>3. QED BY <3>1, <3>2
  <2>2. \A h \in held' : h.document =< document /\ ~h.certain
    <3>. TAKE h \in held'
    <3>1. PICK g \in held : h = unsure(g)
      BY <1>2
    <3>2. QED BY <1>1, <1>3, <1>5, <3>1 DEF Counted
  <2>3. \A e \in Elements : stamp'[e] # Nil =>
          stamp'[e].document = document /\ ~stamp'[e].certain
    <3>. TAKE e \in Elements
    <3>. HAVE stamp'[e] # Nil
    <3>1. stamp[e] # Nil /\ stamp'[e] = unsure(stamp[e])
      BY <1>6
    <3>2. stamp[e] \in Handle /\ stamp[e].document = document
      BY <1>1, <1>5, <3>1 DEF Counted
    <3>3. QED BY <1>3, <3>1, <3>2
  <2>4. \A h : ~h.certain => Certain(h)'
    BY DEF Certain
  <2>5. QED BY <1>2, <2>1, <2>2, <2>3, <2>4 DEF Counted, Certain
<1>10. Named'
  <2>1. \A h : NamedAt(h)' <=> NamedAt(h)
    BY <1>2, SameNames
  <2>2. \A h \in Handle : NamedAt(h) => NamedAt(unsure(h))
    BY <1>3 DEF NamedAt
  <2>3. ASSUME ~altered
        PROVE  \A h \in held' : h.document = document => NamedAt(h)
    <3>. TAKE h \in held'
    <3>1. PICK g \in held : h = unsure(g)
      BY <1>2
    <3>2. QED BY <1>1, <1>3, <1>5, <2>2, <2>3, <3>1 DEF Named
  <2>4. ASSUME ~altered
        PROVE  \A e \in Elements : stamp'[e] # Nil =>
                 stamp'[e].element = e /\ NamedAt(stamp'[e])
    <3>. TAKE e \in Elements
    <3>. HAVE stamp'[e] # Nil
    <3>1. stamp[e] # Nil /\ stamp'[e] = unsure(stamp[e])
      BY <1>6
    <3>2. stamp[e] \in Handle /\ stamp[e].element = e /\ NamedAt(stamp[e])
      BY <1>1, <1>5, <2>4, <3>1 DEF Named
    <3>3. QED BY <1>3, <2>2, <3>1, <3>2
  <2>5. QED BY <1>2, <2>1, <2>3, <2>4 DEF Named
<1>11. QED BY <1>8, <1>9, <1>10 DEF PageInv

(* One document and one commit more; no element bears a reference. *)
LEMMA NavigateKeeps ==
    ASSUME PageInv, Navigate
    PROVE  PageInv'
<1>1. TypeOK /\ Counted /\ Named
  BY DEF PageInv
<1>2. /\ document < MaxDocuments /\ document' = document + 1
      /\ dom' \in Pages
      /\ later' = Elements \ {dom'[k] : k \in DOMAIN dom'}
      /\ hidden' \in SUBSET {dom'[k] : k \in DOMAIN dom'}
      /\ stamp' = [e \in Elements |-> Nil]
      /\ altered' = FALSE /\ commits' = commits + 1 /\ walk' = Nil
      /\ UNCHANGED <<generation, restarts, reads, held, changes>>
  BY DEF Navigate
<1>3. /\ document \in Nat /\ commits \in Nat /\ generation \in Nat \cup {Nil}
      /\ document' \in 1..MaxDocuments /\ commits' \in Nat
  BY <1>1, <1>2, Constants DEF TypeOK
<1>4. /\ dom' \in Seq(Elements)
      /\ \A j, k \in DOMAIN dom' : dom'[j] = dom'[k] => j = k
  BY <1>2, Constants
<1>5. TypeOK'
  <2>1. /\ later' \in SUBSET (Elements \ InPage') /\ hidden' \in SUBSET InPage'
        /\ stamp' \in [Elements -> Handle \cup {Nil}]
        /\ \A e \in Elements : stamp'[e] # Nil => e \in InPage'
        /\ altered' \in BOOLEAN /\ walk' \in Walk \cup {Nil}
    BY <1>2 DEF InPage
  <2>2. QED BY <1>1, <1>2, <1>3, <1>4, <2>1 DEF TypeOK
<1>6. \A g, d \in Nat : Tells(g, d) => Tells(g, d)'
  BY <1>2, <1>3 DEF Tells
<1>7. Counted'
  <2>1. \A j \in 1..MaxReads : Asking(j)' <=> Asking(j)
    BY <1>2 DEF Asking
  <2>2. ASSUME NEW j \in 1..MaxReads, Asking(j), reads[j].certain
        PROVE  Tells(reads[j].gen, reads[j].document)'
    <3>1. reads[j] \in Read
      BY <1>1, <2>2 DEF TypeOK, Asking
    <3>2. reads[j].gen \in Nat /\ reads[j].document \in Nat
      BY <3>1 DEF Read
    <3>3. Tells(reads[j].gen, reads[j].document)
      BY <1>1, <2>2 DEF Counted
    <3>4. QED BY <1>2, <1>6, <3>2, <3>3 DEF Tells
  <2>3. ASSUME NEW h \in held PROVE h.document =< document' /\ Certain(h)'
    <3>1. h \in Handle /\ h.document =< document /\ Certain(h)
      BY <1>1 DEF TypeOK, Counted
    <3>2. h.ref.gen \in Nat /\ h.document \in Nat
      BY <3>1 DEF Handle, Ref
    <3>3. QED BY <1>2, <1>3, <1>6, <3>1, <3>2 DEF Certain
  <2>4. QED BY <1>2, <2>1, <2>2, <2>3 DEF Counted
<1>8. Named'
  <2>1. \A h \in held' : h.document # document'
    <3>. TAKE h \in held'
    <3>1. h \in Handle /\ h.document =< document
      BY <1>1, <1>2 DEF TypeOK, Counted
    <3>2. h.document \in Nat
      BY <3>1 DEF Handle
    <3>3. QED BY <1>2, <1>3, <3>1, <3>2
  <2>2. QED BY <1>2, <2>1 DEF Named
<1>9. QED BY <1>5, <1>7, <1>8 DEF PageInv

(* A change of the page, given what it does to the elements.               *)
LEMMA ChangeKeeps ==
    ASSUME PageInv, Change, dom' \in Seq(Elements),
           \A j, k \in DOMAIN dom' : dom'[j] = dom'[k] => j = k,
           later' \in SUBSET (Elements \ InPage'), hidden' \in SUBSET InPage',
           stamp' \in [Elements -> Handle \cup {Nil}],
           \A e \in Elements : stamp'[e] # Nil => e \in InPage' /\ stamp'[e] = stamp[e],
           altered' = TRUE \/ (altered' = altered /\ dom' = dom)
    PROVE  PageInv'
<1>1. TypeOK /\ Counted /\ Named
  BY DEF PageInv
<1>2. /\ changes < MaxChanges /\ changes' = changes + 1 /\ walk' = Nil
      /\ UNCHANGED <<document, generation, commits, restarts, reads, held>>
  BY DEF Change, workerVars
<1>3. changes' \in 0..MaxChanges /\ altered' \in BOOLEAN
  <2>1. changes \in 0..MaxChanges /\ altered \in BOOLEAN /\ MaxChanges \in Nat
    BY <1>1, Constants DEF TypeOK
  <2>2. changes' \in 0..MaxChanges
    BY <1>2, <2>1
  <2>3. altered' \in BOOLEAN
    BY <2>1
  <2>4. QED BY <2>2, <2>3
<1>4. TypeOK'
  BY <1>1, <1>2, <1>3 DEF TypeOK
<1>5. Counted'
  <2>1. \A h : Certain(h)' <=> Certain(h)
    BY <1>2, SameCount
  <2>2. \A j \in 1..MaxReads : (Asking(j) /\ reads[j].certain)'
                                 => Tells(reads[j].gen, reads[j].document)'
    <3>. TAKE j \in 1..MaxReads
    <3>. HAVE (Asking(j) /\ reads[j].certain)'
    <3>1. Asking(j) /\ reads[j].certain
      BY <1>2 DEF Asking
    <3>2. Tells(reads[j].gen, reads[j].document)
      BY <1>1, <3>1 DEF Counted
    <3>3. QED BY <1>2, <3>2 DEF Tells
  <2>3. QED BY <1>1, <1>2, <2>1, <2>2 DEF Counted
<1>6. Named'
  <2>1. CASE altered'
    BY <2>1 DEF Named
  <2>2. CASE ~altered'
    <3>1. altered' = altered /\ dom' = dom
      BY <2>2
    <3>2. \A h : NamedAt(h)' <=> NamedAt(h)
      BY <3>1, SameNames
    <3>3. QED BY <1>1, <1>2, <3>1, <3>2 DEF Named
  <2>3. QED BY <2>1, <2>2
<1>7. QED BY <1>4, <1>5, <1>6 DEF PageInv

(* An element comes in: Named claims nothing of an altered page. *)
LEMMA InsertKeeps ==
    ASSUME PageInv, NEW e \in later, NEW k \in 0..Len(dom), Insert(e, k)
    PROVE  PageInv'
<1>. DEFINE t == With(dom, e, k)
<1>1. TypeOK
  BY DEF PageInv
<1>2. /\ Change /\ dom' = t /\ later' = later \ {e} /\ altered' = TRUE
      /\ hidden' = hidden /\ stamp' = stamp
  BY DEF Insert, With
<1>3. /\ dom \in Seq(Elements) /\ e \in Elements /\ e \notin InPage
      /\ \A j, l \in DOMAIN dom : dom[j] = dom[l] => j = l
  BY <1>1 DEF TypeOK
<1>4. e \notin Members(dom) /\ Distinct(dom)
  BY <1>3 DEF InPage, Distinct, Members
<1>0. t = With(dom, e, k)
  OBVIOUS
<1>. HIDE DEF t
<1>5. /\ t \in Seq(Elements) /\ Distinct(t)
      /\ Members(t) = Members(dom) \cup {e}
  <2>1. dom \in Seq(Elements)
    BY <1>3
  <2>2. e \in Elements
    BY <1>3
  <2>3. k \in 0..Len(dom)
    OBVIOUS
  <2>4. QED BY <1>0, <1>4, <2>1, <2>2, <2>3, Inserted
<1>6. InPage' = InPage \cup {e}
  BY <1>2, <1>5 DEF InPage, Members
<1>7. /\ later' \in SUBSET (Elements \ InPage') /\ hidden' \in SUBSET InPage'
      /\ stamp' \in [Elements -> Handle \cup {Nil}]
      /\ \A d \in Elements : stamp'[d] # Nil => d \in InPage' /\ stamp'[d] = stamp[d]
  BY <1>1, <1>2, <1>6 DEF TypeOK
<1>8. /\ dom' \in Seq(Elements)
      /\ \A j, l \in DOMAIN dom' : dom'[j] = dom'[l] => j = l
  BY <1>2, <1>5 DEF Distinct
<1>9. QED BY <1>2, <1>7, <1>8, ChangeKeeps

(* An element goes with the reference it bears. *)
LEMMA RemoveKeeps ==
    ASSUME PageInv, NEW k \in DOMAIN dom, Remove(k)
    PROVE  PageInv'
<1>. DEFINE t == SubSeq(dom, 1, k - 1) \o SubSeq(dom, k + 1, Len(dom))
<1>1. TypeOK
  BY DEF PageInv
<1>2. /\ Change /\ dom' = t /\ later' = later /\ altered' = TRUE
      /\ hidden' = hidden \ {dom[k]} /\ stamp' = [stamp EXCEPT ![dom[k]] = Nil]
  BY DEF Remove
<1>3. /\ dom \in Seq(Elements) /\ dom[k] \in Elements
      /\ \A j, l \in DOMAIN dom : dom[j] = dom[l] => j = l
  <2>1. dom \in Seq(Elements) /\ \A j, l \in DOMAIN dom : dom[j] = dom[l] => j = l
    BY <1>1 DEF TypeOK
  <2>2. QED BY <2>1, Indices, ElementOfSeq
<1>4. /\ t \in Seq(Elements) /\ \A j, l \in DOMAIN t : t[j] = t[l] => j = l
      /\ {t[l] : l \in DOMAIN t} = {dom[l] : l \in DOMAIN dom} \ {dom[k]}
  BY <1>3, Removed
<1>. HIDE DEF t
<1>5. InPage' = InPage \ {dom[k]}
  BY <1>2, <1>4 DEF InPage
<1>6. later' \in SUBSET (Elements \ InPage') /\ hidden' \in SUBSET InPage'
  BY <1>1, <1>2, <1>5 DEF TypeOK
<1>7. /\ stamp' \in [Elements -> Handle \cup {Nil}]
      /\ \A d \in Elements : stamp'[d] = IF d = dom[k] THEN Nil ELSE stamp[d]
  BY <1>1, <1>2 DEF TypeOK
<1>8. \A d \in Elements : stamp'[d] # Nil => d \in InPage' /\ stamp'[d] = stamp[d]
  BY <1>1, <1>5, <1>7 DEF TypeOK
<1>9. /\ dom' \in Seq(Elements)
      /\ \A j, l \in DOMAIN dom' : dom'[j] = dom'[l] => j = l
  BY <1>2, <1>4
<1>10. QED BY <1>2, <1>6, <1>7, <1>8, <1>9, ChangeKeeps

(* An element folds away: the page keeps its elements and their references. *)
LEMMA ToggleKeeps ==
    ASSUME PageInv, NEW e \in InPage, Toggle(e)
    PROVE  PageInv'
<1>1. TypeOK
  BY DEF PageInv
<1>2. /\ Change /\ dom' = dom /\ later' = later /\ altered' = altered
      /\ hidden' = (hidden \ {e}) \cup ({e} \ hidden) /\ stamp' = stamp
  BY DEF Toggle
<1>3. InPage' = InPage
  BY <1>2 DEF InPage
<1>4. /\ later' \in SUBSET (Elements \ InPage') /\ hidden' \in SUBSET InPage'
      /\ stamp' \in [Elements -> Handle \cup {Nil}]
      /\ \A d \in Elements : stamp'[d] # Nil => d \in InPage' /\ stamp'[d] = stamp[d]
  BY <1>1, <1>2, <1>3 DEF TypeOK
<1>5. /\ dom' \in Seq(Elements)
      /\ \A j, l \in DOMAIN dom' : dom'[j] = dom'[l] => j = l
  BY <1>1, <1>2 DEF TypeOK
<1>6. QED BY <1>2, <1>4, <1>5, ChangeKeeps

-----------------------------------------------------------------------------
(* Each step keeps the invariant.                                          *)
LEMMA ReadStepKeeps ==
    ASSUME PageInv, NEW i \in 1..MaxReads, ReadStep(i)
    PROVE  PageInv'
<1>1. TypeOK /\ InPage \in SUBSET Elements
  BY Indices, ElementOfSeq DEF PageInv, TypeOK, InPage
<1>2. CASE BeginRead(i)
  BY <1>2, BeginReadKeeps
<1>3. CASE \E scope \in {InPage} \cup Subtrees, offset \in 0..Cardinality(Elements),
              fit \in 0..MaxNodes : ReadPage(i, scope, offset, fit)
  <2>1. PICK scope \in {InPage} \cup Subtrees, offset \in 0..Cardinality(Elements),
             fit \in 0..MaxNodes : ReadPage(i, scope, offset, fit)
    BY <1>3
  <2>2. scope \in SUBSET Elements
    <3>1. CASE scope = InPage
      BY <1>1, <3>1
    <3>2. CASE scope \in Subtrees
      <4>1. PICK a \in DOMAIN dom, b \in DOMAIN dom : scope = {dom[k] : k \in a..b}
        BY <3>2 DEF Subtrees
      <4>2. \A k \in a..b : k \in DOMAIN dom
        BY <1>1, Indices DEF TypeOK
      <4>3. QED BY <1>1, <4>1, <4>2 DEF InPage
    <3>3. QED BY <3>1, <3>2
  <2>3. offset \in Nat /\ fit \in Nat
    OBVIOUS
  <2>4. QED BY <1>1, <2>1, <2>2, <2>3, ReadPageAnswers, AnswerKeeps
<1>4. CASE ReadStaleScope(i)
  BY <1>4, ReadStaleScopeKeeps
<1>5. CASE \E matching \in SUBSET InPage, offset \in 0..Cardinality(Elements),
              limit \in 1..MaxNodes : Find(i, matching, offset, limit)
  <2>1. PICK matching \in SUBSET InPage, offset \in 0..Cardinality(Elements),
             limit \in 1..MaxNodes : Find(i, matching, offset, limit)
    BY <1>5
  <2>2. matching \in SUBSET Elements /\ offset \in Nat /\ limit \in Nat
    BY <1>1
  <2>3. QED BY <1>1, <2>1, <2>2, FindAnswers, AnswerKeeps
<1>6. QED BY <1>2, <1>3, <1>4, <1>5 DEF ReadStep

(* Every step keeps the invariant. *)
LEMMA StepKeeps ==
    ASSUME PageInv, [Next]_vars
    PROVE  PageInv'
<1>1. CASE \E i \in 1..MaxReads : ReadStep(i)
  BY <1>1, ReadStepKeeps
<1>2. CASE Committed
  BY <1>2, CommittedKeeps
<1>3. CASE Restart
  BY <1>3, RestartKeeps
<1>4. CASE PageStep
  BY <1>4, NavigateKeeps, InsertKeeps, RemoveKeeps, ToggleKeeps DEF PageStep
<1>5. CASE UNCHANGED vars
  <2>1. /\ UNCHANGED <<document, dom, later, hidden, stamp, altered, changes>>
        /\ UNCHANGED <<generation, commits, restarts, reads, held, walk>>
    BY <1>5 DEF vars, pageVars, workerVars
  <2>2. TypeOK /\ Counted /\ Named
    BY DEF PageInv
  <2>3. TypeOK'
    BY <2>1, <2>2 DEF TypeOK, InPage
  <2>4. Counted'
    BY <2>1, <2>2 DEF Counted, Asking, Certain, Tells
  <2>5. Named'
    BY <2>1, <2>2, SameRefs
  <2>6. QED BY <2>3, <2>4, <2>5 DEF PageInv
<1>6. QED BY <1>1, <1>2, <1>3, <1>4, <1>5 DEF Next

(* A set of numbers that is not empty has a smallest: of the intervals up  *)
(* to its members, one has no other within it.                             *)
LEMMA Smallest ==
    ASSUME NEW N \in Nat, NEW S, S \subseteq 1..N, S # {}
    PROVE  \E k \in S : \A j \in S : k =< j
<1>. DEFINE T == {1..k : k \in S}
            R == StrictSubsetOrdering(Nat)
<1>1. T \subseteq FiniteSubsetsOf(Nat)
  <2>1. \A k \in S : IsFiniteSet(1..k) /\ 1..k \in SUBSET Nat
    BY FS_Interval
  <2>2. QED BY <2>1 DEF FiniteSubsetsOf
<1>2. IsWellFoundedOn(R, FiniteSubsetsOf(Nat))
  BY FS_StrictSubsetOrderingWellFounded
<1>3. T # {}
  OBVIOUS
<1>. HIDE DEF R, T
<1>4. PICK x \in T : \A y \in T : ~(<<y, x>> \in R)
  BY <1>1, <1>2, <1>3, WFMin
<1>5. PICK k \in S : x = 1..k
  BY DEF T
<1>6. ASSUME NEW j \in S, ~(k =< j)
      PROVE  FALSE
  <2>1. 1..j \in T /\ 1..j \in SUBSET (1..k) /\ k \in 1..k /\ k \notin 1..j
    BY <1>6 DEF T
  <2>2. 1..j \in SUBSET Nat /\ 1..k \in SUBSET Nat /\ 1..j # 1..k
    BY <2>1
  <2>3. <<1..j, 1..k>> \in R
    BY <2>1, <2>2 DEF R, StrictSubsetOrdering
  <2>4. QED BY <1>4, <1>5, <2>1, <2>3
<1>7. QED BY <1>6

(* What a reference resolves to bears it.                                  *)
LEMMA ResolvedBears ==
    ASSUME TypeOK, NEW ref, Resolve(ref) # Nil
    PROVE  \E k \in DOMAIN dom : /\ Resolve(ref) = dom[k] /\ dom[k] \in Elements
                                 /\ stamp[dom[k]] # Nil /\ stamp[dom[k]].ref = ref
<1>1. dom \in Seq(Elements) /\ DOMAIN dom = 1..Len(dom) /\ Len(dom) \in Nat
  BY Indices DEF TypeOK
<1>2. Bearers(ref) # {} /\ Bearers(ref) \subseteq 1..Len(dom)
  BY <1>1 DEF Resolve, Bearers
<1>3. \E k \in Bearers(ref) : \A j \in Bearers(ref) : k =< j
  BY <1>1, <1>2, Smallest
<1>4. PICK k \in Bearers(ref) : Resolve(ref) = dom[k]
  BY <1>2, <1>3 DEF Resolve
<1>5. QED BY <1>1, <1>2, <1>4, ElementOfSeq DEF Bearers

-----------------------------------------------------------------------------
(* The invariant holds in every state, and each of its parts gives one of  *)
(* the properties.                                                         *)
LEMMA AlwaysPageInv == Spec => []PageInv
<1>1. Init => PageInv
  BY InitInv
<1>2. PageInv /\ [Next]_vars => PageInv'
  BY StepKeeps
<1>3. QED BY <1>1, <1>2, PTL DEF Spec

(* Every variable has its type, and no element is in a page twice,         *)
(* whatever the page's scripts insert or remove (browser.ts:687-740).      *)
THEOREM PageTypes == Spec => []TypeOK
<1>1. PageInv => TypeOK
  BY DEF PageInv
<1>2. QED BY <1>1, AlwaysPageInv, PTL

(* In a document whose list of elements has not changed, a reference given *)
(* out for one of its elements resolves to it or to nothing, whatever      *)
(* reads, finds, scopes, cursors and restarts came since                   *)
(* (browser.ts:690-692, 721-722).                                          *)
THEOREM RefsKept == Spec => []RefKeepsElement
<1>1. ASSUME PageInv PROVE RefKeepsElement
  <2>1. TypeOK /\ Named
    BY <1>1 DEF PageInv
  <2>2. SUFFICES ASSUME ~altered, NEW h \in held, h.document = document,
                        Resolve(h.ref) # Nil
                 PROVE  Resolve(h.ref) = h.element
    BY DEF RefKeepsElement
  <2>3. PICK k \in DOMAIN dom :
          /\ Resolve(h.ref) = dom[k] /\ dom[k] \in Elements
          /\ stamp[dom[k]] # Nil /\ stamp[dom[k]].ref = h.ref
    BY <2>1, <2>2, ResolvedBears
  <2>4. NamedAt(h) /\ stamp[dom[k]].element = dom[k] /\ NamedAt(stamp[dom[k]])
    BY <2>1, <2>2, <2>3 DEF Named
  <2>5. PICK i \in Listed(h.ref.kind) :
          dom[i] = h.element /\ Index(h.ref.kind, i) = h.ref.index
    BY <2>4 DEF NamedAt
  <2>6. PICK j \in Listed(h.ref.kind) :
          dom[j] = dom[k] /\ Index(h.ref.kind, j) = h.ref.index
    BY <2>3, <2>4 DEF NamedAt
  <2>7. i = j
    BY <2>1, <2>5, <2>6, IndexInjective DEF TypeOK
  <2>8. QED BY <2>3, <2>5, <2>6, <2>7
<1>2. QED BY <1>1, AlwaysPageInv, PTL

(* References whose generation the worker had counted are never taken for  *)
(* those of another document (browser.ts:114-116).                         *)
THEOREM CountedRefsGoStale == Spec => []CountedRefGoesStale
<1>1. ASSUME PageInv PROVE CountedRefGoesStale
  <2>1. TypeOK /\ Counted
    BY <1>1 DEF PageInv
  <2>2. SUFFICES ASSUME NEW h \in held, Resolve(h.ref) # Nil, h.certain,
                        stamp[Resolve(h.ref)].certain
                 PROVE  h.document = document
    BY DEF CountedRefGoesStale
  <2>3. PICK k \in DOMAIN dom :
          /\ Resolve(h.ref) = dom[k] /\ dom[k] \in Elements
          /\ stamp[dom[k]] # Nil /\ stamp[dom[k]].ref = h.ref
    BY <2>1, <2>2, ResolvedBears
  <2>4. Tells(h.ref.gen, h.document)
    BY <2>1, <2>2 DEF Counted, Certain
  <2>5. Tells(h.ref.gen, document)
    BY <2>1, <2>2, <2>3 DEF Counted, Certain
  <2>6. /\ h.document \in Nat /\ document \in Nat /\ commits \in Nat
        /\ h.ref.gen \in Nat /\ generation \in Nat \cup {Nil}
    BY <2>1, <2>2 DEF TypeOK, Handle, Ref
  <2>7. QED BY <2>4, <2>5, <2>6 DEF Tells
<1>2. QED BY <1>1, AlwaysPageInv, PTL

-----------------------------------------------------------------------------
(* Paging through the matches of find.  FindInv: an agent that follows the *)
(* cursors has so far the matches before its cursor, which counts them.    *)
Matches(wanted) == {k \in Listed("f") : dom[k] \in wanted \ hidden}
At(positions) == {dom[k] : k \in positions}

FindInv ==
    walk # Nil /\ walk.kind = "f" =>
        /\ ~walk.twice
        /\ walk.wanted \subseteq InPage
        /\ walk.found = At(IF walk.cursor = Nil THEN Matches(walk.wanted)
                           ELSE First(walk.cursor, Matches(walk.wanted)))

(* A set of numbers that is bounded and not empty has a largest.           *)
LEMMA Largest ==
    ASSUME NEW N \in Nat, NEW S, S \subseteq 1..N, S # {}
    PROVE  \E k \in S : \A j \in S : j =< k
<1> DEFINE T == {N + 1 - k : k \in S}
<1>1. T \subseteq 1..N /\ T # {}
  <2>1. \A k \in S : N + 1 - k \in 1..N
    OBVIOUS
  <2> QED
    BY <2>1
<1> HIDE DEF T
<1>2. PICK x \in T : \A y \in T : x =< y
  BY <1>1, Smallest
<1>3. PICK k \in S : x = N + 1 - k
  BY DEF T
<1>4. \A j \in S : N + 1 - j \in T
  BY DEF T
<1>5. \A j \in S : N + 1 - k =< N + 1 - j
  BY <1>2, <1>3, <1>4
<1>6. \A j \in S : j =< k
  BY <1>5
<1> QED
  BY <1>6

(* The first n of a set of positions are n of them, and come before the    *)
(* others; or they are all.                                                *)
LEMMA FirstCount ==
    ASSUME NEW N \in Nat, NEW S, S \subseteq 1..N, NEW n \in Nat
    PROVE  /\ First(n, S) \subseteq S /\ IsFiniteSet(S) /\ IsFiniteSet(First(n, S))
           /\ Cardinality(S) \in Nat /\ Cardinality(First(n, S)) \in Nat
           /\ Cardinality(First(n, S)) =< n
           /\ First(n, S) # S => Cardinality(First(n, S)) = n
           /\ Cardinality(S) =< n => First(n, S) = S
           /\ \A j \in First(n, S), k \in S \ First(n, S) : j < k
<1> DEFINE F == First(n, S)
<1> DEFINE U(k) == {j \in S : j =< k}
<1>0. \A k \in S : k \in Int
  OBVIOUS
<1>1. IsFiniteSet(S)
  <2>1. IsFiniteSet(1..N)
    BY FS_Interval
  <2>2. S \in SUBSET (1..N)
    OBVIOUS
  <2> QED
    BY <2>1, <2>2, FS_Subset
<1>2. \A k : /\ U(k) \subseteq S /\ IsFiniteSet(U(k))
             /\ Cardinality(U(k)) \in Nat /\ Cardinality(U(k)) =< Cardinality(S)
  BY <1>1, FS_Subset, FS_CardinalityType
<1>3. F \subseteq S /\ \A k \in S : k \in F <=> Cardinality(U(k)) =< n
  BY DEF First
<1>4. IsFiniteSet(F) /\ Cardinality(F) \in Nat /\ Cardinality(S) \in Nat
  BY <1>1, <1>3, FS_Subset, FS_CardinalityType
<1>5. \A j, k \in S : j =< k => Cardinality(U(j)) =< Cardinality(U(k))
  <2> SUFFICES ASSUME NEW j \in S, NEW k \in S, j =< k
               PROVE  Cardinality(U(j)) =< Cardinality(U(k))
    OBVIOUS
  <2>1. ASSUME NEW m \in S, m =< j PROVE m =< k
    <3>1. m \in Int /\ j \in Int /\ k \in Int
      BY <1>0
    <3> QED
      BY <2>1, <3>1
  <2>2. U(j) \in SUBSET U(k)
    BY <2>1
  <2> QED
    BY <1>2, <2>2, FS_Subset
<1> HIDE DEF F, U
<1>6. \A j \in F, k \in S \ F : j < k
  <2> SUFFICES ASSUME NEW j \in F, NEW k \in S \ F, ~(j < k) PROVE FALSE
    OBVIOUS
  <2>1. k =< j /\ j \in S
    BY <1>3
  <2>2. Cardinality(U(k)) =< Cardinality(U(j)) /\ Cardinality(U(j)) =< n
    BY <1>3, <1>5, <2>1
  <2> QED
    BY <1>2, <1>3, <1>4, <2>2
<1>7. Cardinality(F) =< n
  <2>1. CASE F = {}
    BY <2>1, FS_EmptySet
  <2>2. CASE F # {}
    <3>1. PICK k \in F : \A j \in F : j =< k
      BY <1>3, <2>2, Largest
    <3>2. F \in SUBSET U(k)
      BY <1>3, <3>1 DEF U
    <3>3. Cardinality(F) =< Cardinality(U(k))
      BY <1>2, <3>2, FS_Subset
    <3>4. Cardinality(U(k)) =< n
      BY <1>3
    <3> QED
      BY <1>2, <1>4, <3>3, <3>4
  <2> QED
    BY <2>1, <2>2
<1>8. ASSUME F # S PROVE Cardinality(F) = n
  <2>1. S \ F # {} /\ S \ F \subseteq 1..N
    BY <1>3, <1>8
  <2>2. PICK k \in S \ F : \A j \in S \ F : k =< j
    BY <2>1, Smallest
  <2>3. k \notin F /\ \A j \in S : j =< k => j \in F \cup {k}
    <3>1. k \in Int /\ \A j \in S : j \in Int
      BY <1>0
    <3>2. ASSUME NEW j \in S, j =< k, j \notin F PROVE j = k
      <4>1. k =< j /\ j \in Int
        BY <2>2, <3>1, <3>2
      <4> QED
        BY <3>1, <3>2, <4>1
    <3> QED
      BY <3>2
  <2>7. U(k) \subseteq F \cup {k}
    BY <2>3 DEF U
  <2>4. Cardinality(F \cup {k}) = Cardinality(F) + 1 /\ IsFiniteSet(F \cup {k})
    BY <1>4, <2>3, FS_AddElement
  <2>5. Cardinality(U(k)) =< Cardinality(F) + 1
    BY <2>4, <2>7, FS_Subset
  <2>6. ~(Cardinality(U(k)) =< n)
    BY <1>3, <2>2
  <2> QED
    BY <1>2, <1>4, <1>7, <2>5, <2>6
<1>9. ASSUME Cardinality(S) =< n PROVE F = S
  <2>1. \A k \in S : Cardinality(U(k)) =< n
    BY <1>2, <1>4, <1>9
  <2> QED
    BY <1>3, <2>1
<1> QED
  BY <1>1, <1>3, <1>4, <1>6, <1>7, <1>8, <1>9 DEF F

(* To take the first m and then the first l of the rest is to take the     *)
(* first m + l.                                                            *)
LEMMA FirstAgain ==
    ASSUME NEW N \in Nat, NEW S, S \subseteq 1..N, NEW m \in Nat, NEW l \in Nat,
           S \ First(m, S) # {}
    PROVE  First(m + l, S) = First(m, S) \cup First(l, S \ First(m, S))
<1> DEFINE F == First(m, S)
<1> DEFINE R == S \ F
<1>1. /\ F \subseteq S /\ IsFiniteSet(S) /\ IsFiniteSet(F) /\ Cardinality(F) \in Nat
      /\ F # S => Cardinality(F) = m
      /\ \A j \in F, k \in R : j < k
  BY FirstCount
<1>0. \A k \in S : k \in Int
  OBVIOUS
<1>2. Cardinality(F) = m
  BY <1>1
<1>3. ASSUME NEW k \in R
      PROVE  Cardinality({j \in S : j =< k}) =< m + l <=> Cardinality({j \in R : j =< k}) =< l
  <2> DEFINE Q == {j \in R : j =< k}
  <2>1. {j \in S : j =< k} = F \cup Q /\ F \cap Q = {}
    <3>1. ASSUME NEW j \in F PROVE j \in S /\ j \notin R /\ j =< k
      <4>1. j \in S /\ j < k /\ k \in S
        BY <1>1, <1>3
      <4>2. j \in Int /\ k \in Int
        BY <1>0, <4>1
      <4> QED
        BY <4>1, <4>2
    <3>2. \A j \in S : j \in F \/ j \in R
      OBVIOUS
    <3> HIDE DEF F
    <3> QED
      BY <3>1, <3>2
  <2>2. IsFiniteSet(Q) /\ Cardinality(Q) \in Nat
    BY <1>1, FS_Subset, FS_CardinalityType
  <2> HIDE DEF Q, F, R
  <2>3. Cardinality(F \cup Q) = Cardinality(F) + Cardinality(Q) - Cardinality(F \cap Q)
    BY <1>1, <2>2, FS_Union
  <2>4. Cardinality(F \cap Q) = 0
    BY <2>1, FS_EmptySet
  <2>5. Cardinality(F \cup Q) = m + Cardinality(Q)
    BY <1>2, <2>2, <2>3, <2>4
  <2> QED
    BY <2>1, <2>2, <2>5 DEF Q
<1>4. ASSUME NEW k \in F
      PROVE  Cardinality({j \in S : j =< k}) =< m + l
  <2>1. Cardinality({j \in S : j =< k}) =< m
    BY <1>4 DEF First
  <2>2. Cardinality({j \in S : j =< k}) \in Nat
    BY <1>1, FS_Subset, FS_CardinalityType
  <2> QED
    BY <2>1, <2>2
<1>5. \A k : k \in First(m + l, S) <=> k \in S /\ Cardinality({j \in S : j =< k}) =< m + l
  BY DEF First
<1>6. \A k : k \in First(l, R) <=> k \in R /\ Cardinality({j \in R : j =< k}) =< l
  BY DEF First
<1> HIDE DEF F
<1> QED
  BY <1>1, <1>3, <1>4, <1>5, <1>6 DEF F

(* The handles given to so many elements are so many.                      *)
LEMMA HandlesCount ==
    ASSUME TypeOK, NEW i, NEW kind, NEW positions \in SUBSET Listed(kind)
    PROVE  /\ {h.element : h \in Handles(i, kind, positions)} = At(positions)
           /\ Cardinality(Handles(i, kind, positions)) = Cardinality(positions)
<1> DEFINE H == [k \in positions |->
             [ref |-> [gen |-> reads[i].gen, kind |-> kind, index |-> Index(kind, k)],
              element |-> dom[k], document |-> document,
              certain |-> reads[i].certain /\ reads[i].document = document]]
<1>1. Handles(i, kind, positions) = {H[k] : k \in positions}
  BY DEF Handles
<1>2. \A k \in positions : H[k].element = dom[k]
  OBVIOUS
<1>3. \A j, k \in positions : H[j] = H[k] => j = k
  BY <1>2 DEF TypeOK, Listed
<1>4. DOMAIN H = positions /\ H = [k \in positions |-> H[k]]
  OBVIOUS
<1>5. IsFiniteSet(positions)
  BY Indices, FS_Subset DEF TypeOK
<1> HIDE DEF H
<1>6. H \in Bijection(positions, {H[k] : k \in positions})
  <2>1. H \in [positions -> {H[k] : k \in positions}]
    BY <1>4
  <2> QED
    BY <1>3, <2>1 DEF Bijection, Injection, Surjection, IsInjective
<1>7. Cardinality({H[k] : k \in positions}) = Cardinality(positions)
  BY <1>5, <1>6, FS_Bijection DEF ExistsBijection
<1> QED
  BY <1>1, <1>2, <1>7 DEF At

(* An answer of find takes the walk on to the matches before its cursor.   *)
LEMMA FindKeeps ==
    ASSUME TypeOK, FindInv, NEW i \in 1..MaxReads, NEW matching \in SUBSET InPage,
           NEW offset \in Nat, NEW limit \in Nat, Find(i, matching, offset, limit)
    PROVE  FindInv'
<1> DEFINE S == Matches(matching)
<1> DEFINE F == First(offset, S)
<1> DEFINE rest == S \ F
<1> DEFINE G == First(limit, rest)
<1> DEFINE handles == Handles(i, "f", G)
<1> DEFINE cursor == IF limit < Cardinality(rest) THEN offset + Cardinality(handles) ELSE Nil
<1>1. /\ offset \in Offsets("f", matching)
      /\ walk' = Advance("f", matching, offset, handles, cursor)
      /\ UNCHANGED <<dom, hidden>>
  BY DEF Find, Matches
<1>2. DOMAIN dom = 1..Len(dom) /\ Len(dom) \in Nat /\ S \subseteq 1..Len(dom)
  BY Indices DEF TypeOK, Matches, Listed
<1>3. F \subseteq S
  BY <1>2, FirstCount
<1>4. rest \subseteq 1..Len(dom) /\ rest \subseteq Listed("f")
  BY <1>2 DEF Matches
<1> DEFINE before == IF offset = 0 THEN {} ELSE walk.found
<1> DEFINE new == {h.element : h \in handles}
<1> HIDE DEF S, F, rest, handles, cursor, before, new
<1>5. /\ G \subseteq rest /\ IsFiniteSet(rest) /\ Cardinality(rest) \in Nat
      /\ Cardinality(G) \in Nat /\ Cardinality(G) =< limit
      /\ G # rest => Cardinality(G) = limit
      /\ Cardinality(rest) =< limit => G = rest
  BY <1>2, <1>4, FirstCount
<1> HIDE DEF G
<1>6. new = At(G) /\ Cardinality(handles) = Cardinality(G)
  BY <1>4, <1>5, HandlesCount DEF new, handles
<1>7. before = At(F) /\ (offset # 0 => ~walk.twice)
  <2>1. CASE offset = 0
    <3>1. Cardinality(F) =< offset /\ Cardinality(F) \in Nat /\ IsFiniteSet(F)
      BY <1>2, FirstCount DEF F
    <3>2. F = {}
      BY <2>1, <3>1, FS_EmptySet
    <3> QED
      BY <2>1, <3>2 DEF At, before
  <2>2. CASE offset # 0
    <3>1. walk # Nil /\ walk.kind = "f" /\ walk.wanted = matching /\ offset = walk.cursor
          /\ walk.cursor # Nil
      BY <1>1, <2>2, Constants DEF Offsets
    <3> QED
      BY <2>2, <3>1 DEF FindInv, before, F, S
  <2> QED
    BY <2>1, <2>2
<1>8. walk' = [kind |-> "f", wanted |-> matching, cursor |-> cursor, found |-> before \cup new,
               twice |-> (offset # 0 /\ walk.twice) \/ before \cap new # {}]
  BY <1>1 DEF Advance, before, new
<1>9. before \cap new = {}
  <2>1. \A j \in F, k \in G : dom[j] # dom[k]
    BY <1>2, <1>3, <1>5 DEF TypeOK, rest
  <2> QED
    BY <1>6, <1>7, <2>1 DEF At
<1>10. /\ walk'.kind = "f" /\ walk'.wanted = matching /\ walk'.cursor = cursor
       /\ walk'.found = before \cup new /\ ~walk'.twice
  BY <1>7, <1>8, <1>9
<1>11. At(IF cursor = Nil THEN S ELSE First(cursor, S)) = At(F) \cup At(G)
  <2>1. CASE limit < Cardinality(rest)
    <3>1. G # rest
      BY <1>5, <2>1
    <3>2. Cardinality(G) = limit /\ rest # {}
      BY <1>5, <2>1, <3>1, FS_EmptySet
    <3>3. cursor = offset + limit /\ cursor # Nil
      BY <1>6, <2>1, <3>2, Constants DEF cursor
    <3>4. First(cursor, S) = F \cup G
      BY <1>2, <3>2, <3>3, FirstAgain DEF F, G, rest
    <3> QED
      BY <3>3, <3>4 DEF At
  <2>2. CASE ~(limit < Cardinality(rest))
    <3>1. G = rest /\ cursor = Nil
      BY <1>5, <2>2 DEF cursor
    <3>2. S = F \cup G
      BY <1>3, <3>1 DEF rest
    <3> QED
      BY <3>1, <3>2 DEF At
  <2> QED
    BY <2>1, <2>2
<1>12. \A positions : At(positions)' = At(positions)
  BY <1>1 DEF At
<1>13. Matches(matching)' = S /\ InPage' = InPage
  BY <1>1 DEF Matches, Listed, InPage, S
<1>14. ~walk'.twice /\ walk'.wanted \subseteq InPage'
  BY <1>10, <1>13
<1>15. walk'.found = At(IF walk'.cursor = Nil THEN S ELSE First(walk'.cursor, S))
  BY <1>6, <1>7, <1>10, <1>11
<1>16. \A n, positions : First(n, positions)' = First(n, positions)
  BY DEF First
<1> QED
  BY <1>12, <1>13, <1>14, <1>15, <1>16, <1>10 DEF FindInv, S

(* What leaves the page and the walk alone leaves FindInv alone.           *)
LEMMA WalkStays ==
    ASSUME FindInv, UNCHANGED <<dom, hidden, walk>>
    PROVE  FindInv'
  BY DEF FindInv, At, First, Matches, Listed, InPage

(* Every step takes the walk on, leaves it alone or ends it.               *)
LEMMA WalkSteps ==
    ASSUME TypeOK, FindInv, [Next]_vars
    PROVE  FindInv'
<1>1. ASSUME NEW i \in 1..MaxReads, ReadStep(i)
      PROVE  FindInv'
  <2>1. CASE BeginRead(i) \/ ReadStaleScope(i)
    BY <2>1, WalkStays DEF BeginRead, ReadStaleScope, pageVars
  <2>2. ASSUME NEW scope, NEW offset, NEW fit, ReadPage(i, scope, offset, fit)
        PROVE  FindInv'
    <3>1. walk'.kind = "p"
      BY <2>2 DEF ReadPage, Advance
    <3> QED
      BY <3>1 DEF FindInv
  <2>3. ASSUME NEW matching \in SUBSET InPage, NEW offset \in 0..Cardinality(Elements),
               NEW limit \in 1..MaxNodes, Find(i, matching, offset, limit)
        PROVE  FindInv'
    <3>1. offset \in Nat /\ limit \in Nat
      BY PageAssumption, FS_CardinalityType
    <3> QED
      BY <2>3, <3>1, FindKeeps
  <2> QED
    BY <1>1, <2>1, <2>2, <2>3 DEF ReadStep
<1>2. CASE Committed \/ Restart \/ UNCHANGED vars
  BY <1>2, WalkStays DEF Committed, Restart, vars, pageVars
<1>3. CASE PageStep
  <2>1. walk' = Nil
    BY <1>3 DEF PageStep, Navigate, Insert, Remove, Toggle, Change
  <2> QED
    BY <2>1 DEF FindInv
<1> QED
  BY <1>1, <1>2, <1>3 DEF Next

(* Paging: an agent that follows the cursors of find to the end has seen   *)
(* every visible match and none of them twice, in a page of any length and *)
(* with any limits, unless the page changed (browser.ts:768-776).          *)
THEOREM FindCovers == Spec => []FindCoversMatches
<1>1. Init => FindInv
  BY DEF Init, FindInv
<1>2. TypeOK /\ FindInv /\ [Next]_vars => FindInv'
  BY WalkSteps
<1>3. ASSUME TypeOK, FindInv PROVE FindCoversMatches
  <2> SUFFICES ASSUME walk # Nil, walk.kind = "f"
               PROVE  /\ ~walk.twice
                      /\ walk.cursor = Nil => walk.found = walk.wanted \cap Visible
    BY DEF FindCoversMatches
  <2>1. At(Matches(walk.wanted)) = walk.wanted \cap Visible
    BY DEF At, Matches, Listed, Visible, InPage
  <2> QED
    BY <1>3, <2>1 DEF FindInv
<1>4. QED BY <1>1, <1>2, <1>3, PageTypes, PTL DEF Spec

-----------------------------------------------------------------------------
(* Paging through the nodes of readPage.  Its cursor is an index.  The     *)
(* nodes of a walk that are before its cursor:                             *)
Nodes(wanted) == {k \in Listed("p") : dom[k] \in wanted \ hidden}
Before(wanted, cursor) == {k \in Nodes(wanted) : cursor = Nil \/ Index("p", k) < cursor}

\* what was found is before the cursor, and ...
ReadInv ==
    walk # Nil /\ walk.kind = "p" =>
        ~walk.twice /\ walk.found \subseteq At(Before(walk.wanted, walk.cursor))

\* ... the other way round, as long as no page is cut by its bytes
CoverInv ==
    walk # Nil /\ walk.kind = "p" =>
        /\ walk.wanted \subseteq Selected
        /\ At(Before(walk.wanted, walk.cursor)) \subseteq walk.found

(* A page cut by its bytes is one with room for fewer nodes than its       *)
(* number allows and than there are (browser.ts:735).                      *)
CutByBytes(scope, offset, fit) ==
    /\ fit < MaxNodes
    /\ fit < Cardinality({k \in Nodes(Selected \cap scope) : offset =< Index("p", k)})

(* Positions of a list are ordered as their indices are.                   *)
LEMMA IndexOrder ==
    ASSUME dom \in Seq(Elements), NEW kind,
           NEW j \in Listed(kind), NEW k \in Listed(kind)
    PROVE  /\ j =< k => Index(kind, j) =< Index(kind, k)
           /\ j < k => Index(kind, j) < Index(kind, k)
<1> DEFINE B(l) == {m \in Listed(kind) : m < l}
<1>1. /\ IsFiniteSet(Listed(kind)) /\ DOMAIN dom = 1..Len(dom) /\ Len(dom) \in Nat
      /\ Index(kind, j) \in Nat /\ Index(kind, k) \in Nat
  BY Indices
<1>2. Listed(kind) \subseteq Int /\ j \in Int /\ k \in Int
  BY <1>1 DEF Listed
<1>3. ASSUME j =< k PROVE Index(kind, j) =< Index(kind, k)
  <2>1. IsFiniteSet(B(k)) /\ B(j) \in SUBSET B(k)
    BY <1>1, <1>2, <1>3, FS_Subset
  <2>2. Cardinality(B(j)) =< Cardinality(B(k))
    BY <2>1, FS_Subset
  <2> QED
    BY <2>2 DEF Index
<1>4. ASSUME j < k PROVE Index(kind, j) < Index(kind, k)
  <2>1. Index(kind, j) # Index(kind, k)
    BY <1>4, IndexApart
  <2>2. Index(kind, j) =< Index(kind, k)
    BY <1>2, <1>3, <1>4
  <2> QED
    BY <1>1, <2>1, <2>2
<1> QED
  BY <1>3, <1>4

(* An index is below the length of the list.                               *)
LEMMA IndexBelow ==
    ASSUME dom \in Seq(Elements), NEW kind, NEW k \in Listed(kind)
    PROVE  Index(kind, k) < Cardinality(Listed(kind))
<1> DEFINE B == {j \in Listed(kind) : j < k}
<1>1. /\ IsFiniteSet(Listed(kind)) /\ Index(kind, k) \in Nat
      /\ Cardinality(Listed(kind)) \in Nat
      /\ DOMAIN dom = 1..Len(dom) /\ Len(dom) \in Nat
  BY Indices
<1>2. k \in Int
  BY <1>1 DEF Listed
<1>3. B \in SUBSET Listed(kind) /\ k \in Listed(kind) /\ k \notin B
  BY <1>2
<1>4. Cardinality(B) =< Cardinality(Listed(kind)) /\ Cardinality(B) # Cardinality(Listed(kind))
  BY <1>1, <1>3, FS_Subset
<1> QED
  BY <1>1, <1>4 DEF Index

(* A page of readPage: its nodes are at the cursor it was asked from or    *)
(* after it and before the one it gives, and if it is not cut by its bytes *)
(* they are all of those.                                                  *)
Turns(W, i, offset, whole, new, cursor) ==
    /\ walk' = Advance("p", W, offset, Handles(i, "p", new), cursor)
    /\ offset \in Offsets("p", W)
    /\ new \subseteq Nodes(W)
    /\ \A k \in new : offset =< Index("p", k)
    /\ cursor # Nil =>
         /\ cursor \in Nat /\ offset =< cursor
         /\ \A k \in new : Index("p", k) < cursor
    /\ whole => \A k \in Before(W, cursor) : offset =< Index("p", k) => k \in new

LEMMA PageTurned ==
    ASSUME TypeOK, NEW i \in 1..MaxReads, NEW scope \in SUBSET Elements,
           NEW offset \in Nat, NEW fit \in 0..MaxNodes, ReadPage(i, scope, offset, fit)
    PROVE  \E new, cursor :
             Turns(Selected \cap scope, i, offset, ~CutByBytes(scope, offset, fit), new, cursor)
<1> DEFINE W == Selected \cap scope
<1> DEFINE eligible == {k \in Listed("p") : /\ offset =< Index("p", k)
                                            /\ dom[k] \in scope \ hidden}
           exceeds == fit < MaxNodes /\ fit < Cardinality(eligible)
           full == ~exceeds /\ MaxNodes =< Cardinality(eligible)
           n == IF exceeds THEN fit + 1 ELSE MaxNodes
           reached == First(n, eligible)
           new == First(fit, reached)
           length == Cardinality(Listed("p"))
           nextIndex == IF exceeds \/ full THEN Index("p", Last(reached)) + 1 ELSE length
           cursor == IF exceeds \/ nextIndex < length THEN nextIndex ELSE Nil
<1>1. /\ walk' = Advance("p", W, offset, Handles(i, "p", new), cursor)
      /\ offset \in Offsets("p", W)
  BY DEF ReadPage
<1>2. /\ dom \in Seq(Elements) /\ DOMAIN dom = 1..Len(dom) /\ Len(dom) \in Nat
      /\ length \in Nat /\ \A k : Index("p", k) \in Nat
  BY Indices DEF TypeOK
<1>3. /\ eligible = {k \in Nodes(W) : offset =< Index("p", k)}
      /\ eligible \subseteq Nodes(W) /\ eligible \subseteq Listed("p")
      /\ eligible \subseteq 1..Len(dom)
  BY <1>2 DEF Nodes, Listed
<1>4. exceeds <=> CutByBytes(scope, offset, fit)
  BY <1>3 DEF CutByBytes
<1>5. fit \in Nat /\ n \in Nat \ {0} /\ MaxNodes \in Nat \ {0}
  BY PageAssumption
<1>6. \A k \in eligible : offset =< Index("p", k)
  OBVIOUS
<1> HIDE DEF eligible, n, length, W
<1>7. /\ reached \subseteq eligible /\ Cardinality(eligible) \in Nat
      /\ reached # eligible => Cardinality(reached) = n
      /\ Cardinality(eligible) =< n => reached = eligible
      /\ \A j \in reached, k \in eligible \ reached : j < k
      /\ Cardinality(reached) \in Nat /\ Cardinality(reached) =< n
      /\ IsFiniteSet(eligible)
  BY <1>2, <1>3, <1>5, FirstCount
<1> HIDE DEF reached
<1>8. /\ new \subseteq reached
      /\ Cardinality(reached) =< fit => new = reached
  BY <1>2, <1>3, <1>5, <1>7, FirstCount
<1> HIDE DEF new
<1>9. ASSUME exceeds \/ full
      PROVE  /\ Last(reached) \in reached
             /\ \A k \in reached : Index("p", k) =< Index("p", Last(reached))
             /\ offset =< Index("p", Last(reached))
  <2>1. reached # {}
    <3>1. Cardinality(eligible) > 0
      BY <1>5, <1>7, <1>9
    <3>2. eligible # {} /\ n # 0
      BY <1>5, <3>1, FS_EmptySet
    <3> QED
      BY <1>7, <3>2, FS_EmptySet
  <2>2. \E k \in reached : \A j \in reached : j =< k
    BY <1>2, <1>3, <1>7, <2>1, Largest
  <2>3. Last(reached) \in reached /\ \A j \in reached : j =< Last(reached)
    BY <2>2 DEF Last
  <2>4. \A k \in reached : Index("p", k) =< Index("p", Last(reached))
    BY <1>2, <1>3, <1>7, <2>3, IndexOrder
  <2> QED
    BY <1>6, <1>7, <2>3, <2>4
<1>10. ASSUME cursor # Nil
       PROVE  /\ cursor \in Nat /\ offset =< cursor
              /\ \A k \in new : Index("p", k) < cursor
              /\ cursor = Index("p", Last(reached)) + 1 /\ (exceeds \/ full)
  <2>1. exceeds \/ full
    BY <1>2, <1>10
  <2>2. cursor = Index("p", Last(reached)) + 1
    BY <1>10, <2>1
  <2>3. Index("p", Last(reached)) \in Nat /\ \A k \in new : Index("p", k) \in Nat
    BY <1>2
  <2> HIDE DEF cursor, exceeds, full
  <2> QED
    BY <1>8, <1>9, <2>1, <2>2, <2>3
<1>11. ASSUME ~exceeds, NEW k \in Before(W, cursor), offset =< Index("p", k)
       PROVE  k \in new
  <2>1. k \in eligible /\ k \in Listed("p")
    BY <1>3, <1>11 DEF Before
  <2>2. new = reached
    <3>1. n = MaxNodes
      BY <1>11 DEF n
    <3>2. Cardinality(reached) =< fit
      <4>1. CASE fit < MaxNodes
        <5>1. Cardinality(eligible) =< fit
          BY <1>5, <1>7, <1>11, <4>1
        <5>2. reached = eligible
          BY <1>5, <1>7, <3>1, <4>1, <5>1
        <5> QED
          BY <5>1, <5>2
      <4>2. CASE ~(fit < MaxNodes)
        BY <1>5, <1>7, <3>1, <4>2
      <4> QED
        BY <4>1, <4>2
    <3> QED
      BY <1>8, <3>2
  <2>3. CASE full
    <3>1. Index("p", k) < Index("p", Last(reached)) + 1
      <4>1. CASE cursor = Nil
        <5>1. length =< Index("p", Last(reached)) + 1
          BY <1>2, <1>11, <2>3, <4>1, Constants
        <5>2. Index("p", k) < length
          BY <1>2, <2>1, IndexBelow DEF length
        <5> QED
          BY <1>2, <5>1, <5>2
      <4>2. CASE cursor # Nil
        BY <1>10, <1>11, <4>2 DEF Before
      <4> QED
        BY <4>1, <4>2
    <3>2. ASSUME k \notin reached PROVE FALSE
      <4>1. Last(reached) < k /\ Last(reached) \in Listed("p")
        BY <1>3, <1>7, <1>9, <2>1, <2>3, <3>2
      <4>2. Index("p", Last(reached)) < Index("p", k)
        BY <1>2, <2>1, <4>1, IndexOrder
      <4> QED
        BY <1>2, <3>1, <4>2
    <3> QED
      BY <2>2, <3>2
  <2>4. CASE ~full
    <3>1. Cardinality(eligible) =< n
      BY <1>5, <1>7, <1>11, <2>4 DEF n
    <3> QED
      BY <1>7, <2>1, <2>2, <3>1
  <2> QED
    BY <2>3, <2>4
<1>12. new \subseteq Nodes(W) /\ \A k \in new : offset =< Index("p", k)
  BY <1>3, <1>6, <1>7, <1>8
<1> HIDE DEF cursor, exceeds
<1>13. Turns(W, i, offset, ~CutByBytes(scope, offset, fit), new, cursor)
  BY <1>1, <1>4, <1>10, <1>11, <1>12 DEF Turns
<1> QED
  BY <1>13 DEF W


(* A page takes the walk on past its nodes.                                *)
LEMMA ReadPageKeeps ==
    ASSUME TypeOK, ReadInv, NEW i \in 1..MaxReads, NEW scope \in SUBSET Elements,
           NEW offset \in Nat, NEW fit \in 0..MaxNodes, ReadPage(i, scope, offset, fit)
    PROVE  /\ ReadInv'
           /\ CoverInv /\ ~CutByBytes(scope, offset, fit) => CoverInv'
<1> DEFINE W == Selected \cap scope
<1>0. UNCHANGED <<dom, hidden>>
  BY DEF ReadPage
<1>1. PICK new, cursor : Turns(W, i, offset, ~CutByBytes(scope, offset, fit), new, cursor)
  BY PageTurned
<1> HIDE DEF W
<1>2. /\ walk' = Advance("p", W, offset, Handles(i, "p", new), cursor)
      /\ offset \in Offsets("p", W)
      /\ new \subseteq Nodes(W)
      /\ \A k \in new : offset =< Index("p", k)
      /\ cursor # Nil =>
           /\ cursor \in Nat /\ offset =< cursor
           /\ \A k \in new : Index("p", k) < cursor
      /\ ~CutByBytes(scope, offset, fit) =>
           \A k \in Before(W, cursor) : offset =< Index("p", k) => k \in new
  BY <1>1 DEF Turns
<1> DEFINE before == IF offset = 0 THEN {} ELSE walk.found
<1>3. {h.element : h \in Handles(i, "p", new)} = At(new)
  BY <1>2, HandlesCount DEF Nodes
<1>4. walk' = [kind |-> "p", wanted |-> W, cursor |-> cursor, found |-> before \cup At(new),
               twice |-> (offset # 0 /\ walk.twice) \/ before \cap At(new) # {}]
  BY <1>2, <1>3 DEF Advance
<1>5. ASSUME offset # 0
      PROVE  /\ walk # Nil /\ walk.kind = "p" /\ walk.wanted = W /\ walk.cursor = offset
             /\ offset # Nil
  BY <1>2, <1>5, Constants DEF Offsets
<1>6. /\ before \subseteq At({k \in Nodes(W) : Index("p", k) < offset})
      /\ offset # 0 => ~walk.twice
  <2>1. CASE offset = 0
    BY <2>1
  <2>2. CASE offset # 0
    <3>1. Before(W, offset) = {k \in Nodes(W) : Index("p", k) < offset}
      BY <1>5, <2>2 DEF Before
    <3> QED
      BY <1>5, <2>2, <3>1 DEF ReadInv
  <2> QED
    BY <2>1, <2>2
<1>7. /\ dom \in Seq(Elements) /\ \A k : Index("p", k) \in Nat
      /\ \A j, k \in DOMAIN dom : dom[j] = dom[k] => j = k
      /\ Nodes(W) \subseteq DOMAIN dom
  BY Indices DEF TypeOK, Nodes, Listed
<1> HIDE DEF before
<1>8. before \cap At(new) = {}
  <2>1. ASSUME NEW j \in Nodes(W), NEW k \in new, Index("p", j) < offset, dom[j] = dom[k]
        PROVE  FALSE
    <3>1. j = k /\ offset =< Index("p", k)
      BY <1>2, <1>7, <2>1
    <3> QED
      BY <1>7, <2>1, <3>1
  <2> QED
    BY <1>6, <2>1 DEF At
<1>9. /\ walk'.kind = "p" /\ walk'.wanted = W /\ walk'.cursor = cursor
      /\ walk'.found = before \cup At(new) /\ ~walk'.twice
  BY <1>4, <1>6, <1>8
<1>10. before \cup At(new) \subseteq At(Before(W, cursor))
  <2>1. new \subseteq Before(W, cursor)
    BY <1>2 DEF Before
  <2>2. {k \in Nodes(W) : Index("p", k) < offset} \subseteq Before(W, cursor)
    <3>1. ASSUME NEW k \in Nodes(W), Index("p", k) < offset, cursor # Nil
          PROVE  Index("p", k) < cursor
      <4>1. cursor \in Nat /\ offset =< cursor /\ Index("p", k) \in Nat
        BY <1>2, <1>7, <3>1
      <4> QED
        BY <3>1, <4>1
    <3> QED
      BY <3>1 DEF Before
  <2> QED
    BY <1>6, <2>1, <2>2 DEF At
<1>11. /\ \A positions : At(positions)' = At(positions)
       /\ Before(W, cursor)' = Before(W, cursor)
  BY <1>0 DEF At, Before, Nodes, Listed, Index
<1>12. ReadInv'
  BY <1>9, <1>10, <1>11 DEF ReadInv
<1>13. ASSUME CoverInv, ~CutByBytes(scope, offset, fit) PROVE CoverInv'
  <2>1. At({k \in Nodes(W) : Index("p", k) < offset}) \subseteq before
    <3>1. CASE offset = 0
      <4>1. {k \in Nodes(W) : Index("p", k) < offset} = {}
        BY <1>7, <3>1
      <4> QED
        BY <4>1 DEF At
    <3>2. CASE offset # 0
      <4>1. Before(W, offset) = {k \in Nodes(W) : Index("p", k) < offset}
        BY <1>5, <3>2 DEF Before
      <4> QED
        BY <1>5, <1>13, <3>2, <4>1 DEF CoverInv, before
    <3> QED
      BY <3>1, <3>2
  <2>2. ASSUME NEW k \in Before(W, cursor)
        PROVE  k \in new \/ k \in {l \in Nodes(W) : Index("p", l) < offset}
    BY <1>2, <1>7, <1>13, <2>2 DEF Before
  <2>3. At(Before(W, cursor)) \subseteq before \cup At(new)
    BY <2>1, <2>2 DEF At
  <2>4. W \subseteq Selected
    BY DEF W
  <2> QED
    BY <1>9, <1>11, <2>3, <2>4 DEF CoverInv
<1> QED
  BY <1>12, <1>13

(* What leaves the page and the walk alone leaves both alone.              *)
LEMMA ReadingStays ==
    ASSUME UNCHANGED <<dom, hidden, walk>>
    PROVE  (ReadInv => ReadInv') /\ (CoverInv => CoverInv')
  BY DEF ReadInv, CoverInv, At, Before, Nodes, Listed, Index

\* no step is an answer of readPage that is cut by its bytes
PagesWhole ==
    \A i \in 1..MaxReads, scope \in SUBSET Elements, offset \in Nat, fit \in 0..MaxNodes :
        ReadPage(i, scope, offset, fit) => ~CutByBytes(scope, offset, fit)

(* Every step takes the walk on, leaves it alone or ends it.               *)
LEMMA ReadingSteps ==
    ASSUME TypeOK, ReadInv, [Next]_vars
    PROVE  /\ ReadInv'
           /\ CoverInv /\ [PagesWhole]_vars => CoverInv'
<1>1. ASSUME NEW i \in 1..MaxReads, ReadStep(i)
      PROVE  ReadInv' /\ (CoverInv /\ [PagesWhole]_vars => CoverInv')
  <2>1. CASE BeginRead(i) \/ ReadStaleScope(i)
    <3>1. UNCHANGED <<dom, hidden, walk>>
      BY <2>1 DEF BeginRead, ReadStaleScope, pageVars
    <3> QED
      BY <3>1, ReadingStays
  <2>2. ASSUME NEW scope \in {InPage} \cup Subtrees, NEW offset \in 0..Cardinality(Elements),
               NEW fit \in 0..MaxNodes, ReadPage(i, scope, offset, fit)
        PROVE  ReadInv' /\ (CoverInv /\ [PagesWhole]_vars => CoverInv')
    <3>1. offset \in Nat
      BY PageAssumption, FS_CardinalityType
    <3>2. scope \in SUBSET Elements
      BY DEF InPage, Subtrees, TypeOK
    <3>3. reads' # reads
      BY <2>2 DEF ReadPage, Asking, Done, TypeOK, Read
    <3>4. [PagesWhole]_vars => ~CutByBytes(scope, offset, fit)
      BY <2>2, <3>1, <3>2, <3>3 DEF PagesWhole, vars
    <3> QED
      BY <2>2, <3>1, <3>2, <3>4, ReadPageKeeps
  <2>3. ASSUME NEW matching, NEW offset, NEW limit, Find(i, matching, offset, limit)
        PROVE  ReadInv' /\ CoverInv'
    <3>1. walk'.kind = "f"
      BY <2>3 DEF Find, Advance
    <3> QED
      BY <3>1 DEF ReadInv, CoverInv
  <2> QED
    BY <1>1, <2>1, <2>2, <2>3 DEF ReadStep
<1>2. CASE Committed \/ Restart \/ UNCHANGED vars
  <2>1. UNCHANGED <<dom, hidden, walk>>
    BY <1>2 DEF Committed, Restart, vars, pageVars
  <2> QED
    BY <2>1, ReadingStays
<1>3. CASE PageStep
  <2>1. walk' = Nil
    BY <1>3 DEF PageStep, Navigate, Insert, Remove, Toggle, Change
  <2> QED
    BY <2>1 DEF ReadInv, CoverInv
<1> QED
  BY <1>1, <1>2, <1>3 DEF Next

(* An agent that follows the cursors of readPage is given no node twice,   *)
(* wherever the pages are cut (browser.ts:713-737).                        *)
THEOREM ReadsApart == Spec => []NodesOnce
<1>1. Init => ReadInv
  BY DEF Init, ReadInv
<1>2. TypeOK /\ ReadInv /\ [Next]_vars => ReadInv'
  BY ReadingSteps
<1>3. ReadInv => NodesOnce
  BY DEF ReadInv, NodesOnce
<1> QED
  BY <1>1, <1>2, <1>3, PageTypes, PTL DEF Spec

(* The cut by bytes is all that loses a node: while pages end by the       *)
(* number of their nodes or with the page, one who follows the cursors to  *)
(* the end has seen every visible node (browser.ts:715-737).               *)
THEOREM WholePagesCover == Spec /\ [][PagesWhole]_vars => []ReadCoversPage
<1>1. Init => ReadInv /\ CoverInv
  BY DEF Init, ReadInv, CoverInv
<1>2. TypeOK /\ ReadInv /\ [Next]_vars => ReadInv'
  BY ReadingSteps
<1>3. TypeOK /\ ReadInv /\ CoverInv /\ [Next]_vars /\ [PagesWhole]_vars => CoverInv'
  BY ReadingSteps
<1>4. ASSUME CoverInv PROVE ReadCoversPage
  <2> SUFFICES ASSUME walk # Nil, walk.kind = "p", walk.cursor = Nil
               PROVE  walk.wanted \cap Visible \subseteq walk.found
    BY DEF ReadCoversPage
  <2>1. walk.wanted \subseteq Selected /\ At(Before(walk.wanted, walk.cursor)) \subseteq walk.found
    BY <1>4 DEF CoverInv
  <2>2. walk.wanted \cap Visible \subseteq At(Before(walk.wanted, walk.cursor))
    BY <2>1 DEF At, Before, Nodes, Listed, Visible, InPage
  <2> QED
    BY <2>1, <2>2
<1> QED
  BY <1>1, <1>2, <1>3, <1>4, PageTypes, PTL DEF Spec
==============================================================================
