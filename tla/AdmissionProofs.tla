---------------------------- MODULE AdmissionProofs ----------------------------
(* What the gate guarantees for every set of keys, titles, proposals, ...: *)
(* the properties TLC checks on the small instances of MCAdmission.        *)
EXTENDS Admission, TLAPS

-----------------------------------------------------------------------------
(* The helpers of the gate *)

\* The edges of a proposal: a list of edges, with the positions of its evidence
\* and of what it supersedes among its positions.
LEMMA ProposalEdges ==
    ASSUME NEW p \in Proposals
    PROVE  /\ p \in Proposal
           /\ Len(p.edges) \in Nat
           /\ DOMAIN p.edges = 1..Len(p.edges)
           /\ \A i \in DOMAIN p.edges : p.edges[i] \in Edge
           /\ Supersedes(p) \subseteq DOMAIN p.edges
           /\ Evidences(p) \subseteq DOMAIN p.edges
           /\ Supersedes(p) \cap Evidences(p) = {}
<1>1. p \in Proposal
  BY InputsAssumption
<1>2. p.edges \in Seq(Edge)
  BY <1>1 DEF Proposal
<1>3. QED
  BY <1>1, <1>2 DEF Supersedes, Evidences, Evidential

\* Where the targets of a write's edges end up: those of supersedes edges at
\* cells stored by then, the others where they were.
LEMMA Settled ==
    ASSUME NEW p \in Proposals, NEW k \in Keys, NEW to \in Settlements(p, k)
    PROVE  /\ \A i \in DOMAIN p.edges : to[i] \in Refs
           /\ \A i \in Supersedes(p) : to[i] \in DOMAIN cells \cup {k}
           /\ \A i \in DOMAIN p.edges : i \notin Supersedes(p) => to[i] = p.edges[i].to
<1>1. \A ref, moved : Found(ref, k, moved) \subseteq DOMAIN cells \cup {k}
  BY DEF Found
<1>2. Supersedes(p) \subseteq DOMAIN p.edges
  BY ProposalEdges
<1>3. QED
  BY <1>1, <1>2 DEF Settlements

\* What a write demotes: the active cells its supersedes edges end up at, and
\* perhaps the new cell itself.
LEMMA DemotedStored ==
    ASSUME NEW p \in Proposals, NEW k \in Keys, NEW to \in Settlements(p, k)
    PROVE  /\ \A c \in AllDemoted(p, k, to) :
                 /\ c \in DOMAIN cells \cup {k}
                 /\ c # k => IsActive(c)
                 /\ \E j \in Supersedes(p) : to[j] = c
           /\ \A j \in Supersedes(p) :
                 to[j] \in DOMAIN cells /\ IsActive(to[j]) => to[j] \in AllDemoted(p, k, to)
<1>1. \A j \in Supersedes(p) : j < Len(p.edges) + 1
  BY ProposalEdges
<1>2. QED
  BY <1>1 DEF AllDemoted, Demoted

\* The stored form of a write's edges.
LEMMA StoredEdgesShape ==
    ASSUME NEW p \in Proposals, NEW k \in Keys, NEW to \in Settlements(p, k)
    PROVE  /\ StoredEdges(p, to) \subseteq Edge
           /\ \A e \in StoredEdges(p, to) : e.rel = "supersedes" =>
                 \E j \in Supersedes(p) : e = [rel |-> "supersedes", to |-> to[j]]
           /\ \A e \in StoredEdges(p, to) : e.rel # "supersedes" =>
                 \E j \in DOMAIN p.edges : e = p.edges[j]
<1>1. ASSUME NEW i \in DOMAIN p.edges
      PROVE  p.edges[i] \in Edge /\ [rel |-> p.edges[i].rel, to |-> to[i]] \in Edge
  BY ProposalEdges, Settled DEF Edge
<1>2. ASSUME NEW i \in DOMAIN p.edges, i \notin Supersedes(p)
      PROVE  [rel |-> p.edges[i].rel, to |-> to[i]] = p.edges[i]
  <2>1. to[i] = p.edges[i].to
    BY <1>2, Settled
  <2>2. QED
    BY <1>1, <2>1 DEF Edge
<1>3. QED
  BY <1>1, <1>2 DEF StoredEdges, Supersedes

\* The evidence of a new cell, spelled out.
LEMMA EvidenceForMember ==
    ASSUME NEW c, NEW k, NEW edges \in SUBSET Edge, NEW x
    PROVE  x \in EvidenceFor(c, k, edges) <=>
              \E e \in edges : e.rel \in Evidential /\ e.to = c /\ x = [from |-> k, rel |-> e.rel]
  BY DEF EvidenceFor

\* A write brings evidence about c exactly if an edge of its names c.
LEMMA EvidenceNamed ==
    ASSUME NEW p \in Proposals, NEW k \in Keys, NEW to \in Settlements(p, k), NEW c
    PROVE  EvidenceFor(c, k, StoredEdges(p, to)) # {} <=>
              \E i \in Evidences(p) : p.edges[i].to = c
<1> DEFINE E == StoredEdges(p, to)
<1>1. ASSUME NEW i \in Evidences(p), p.edges[i].to = c
      PROVE  EvidenceFor(c, k, E) # {}
  <2>1. i \in DOMAIN p.edges /\ i \notin Supersedes(p) /\ p.edges[i].rel \in Evidential
    BY ProposalEdges DEF Evidences
  <2>2. to[i] = c
    BY <1>1, <2>1, Settled
  <2>3. [rel |-> p.edges[i].rel, to |-> c] \in E /\ E \subseteq Edge
    BY <2>1, <2>2, StoredEdgesShape DEF StoredEdges
  <2> HIDE DEF E
  <2>4. [from |-> k, rel |-> p.edges[i].rel] \in EvidenceFor(c, k, E)
    BY <2>1, <2>3, EvidenceForMember
  <2>5. QED
    BY <2>4
<1>2. ASSUME EvidenceFor(c, k, E) # {}
      PROVE  \E i \in Evidences(p) : p.edges[i].to = c
  <2>1. PICK e \in E : e.rel \in Evidential /\ e.to = c
    BY <1>2 DEF EvidenceFor
  <2>2. PICK j \in DOMAIN p.edges : e = p.edges[j]
    BY <2>1, StoredEdgesShape DEF Evidential
  <2>3. QED
    BY <2>1, <2>2 DEF Evidences
<1>3. QED
  BY <1>1, <1>2

-----------------------------------------------------------------------------
(* The evidence a walk finds *)

\* What a walk weighs is the evidence it finds, and it weighs what comes from
\* one cell by one reading of that cell.
LEMMA WeighPairs ==
    ASSUME NEW c, NEW k, NEW p, NEW edges, NEW i
    PROVE  /\ {[from |-> w.from, rel |-> w.rel] : w \in Weigh(c, k, p, edges, i)}
                 = {[from |-> x.from, rel |-> x.rel] :
                       x \in Incoming(c) \cup EvidenceFor(c, k, edges)}
           /\ \A w \in Weigh(c, k, p, edges, i) :
                 /\ w.then = CountedBy(w.from, k, p, edges, i)
                 /\ \E x \in Incoming(c) \cup EvidenceFor(c, k, edges) : w.from = x.from
<1> DEFINE I == Incoming(c) \cup EvidenceFor(c, k, edges)
           W(x) == [from |-> x.from, rel |-> x.rel, then |-> CountedBy(x.from, k, p, edges, i)]
<1>1. Weigh(c, k, p, edges, i) = {W(x) : x \in I}
  BY DEF Weigh
<1>2. \A x : /\ W(x).from = x.from /\ W(x).rel = x.rel
             /\ W(x).then = CountedBy(W(x).from, k, p, edges, i)
  OBVIOUS
<1> HIDE DEF I, W
<1>3. \A w \in Weigh(c, k, p, edges, i) : \E x \in I : w = W(x)
  BY <1>1
<1>4. \A x \in I : W(x) \in Weigh(c, k, p, edges, i)
  BY <1>1
<1>5. {[from |-> w.from, rel |-> w.rel] : w \in Weigh(c, k, p, edges, i)}
         = {[from |-> x.from, rel |-> x.rel] : x \in I}
  BY <1>2, <1>3, <1>4
<1>6. \A w \in Weigh(c, k, p, edges, i) :
         /\ w.then = CountedBy(w.from, k, p, edges, i)
         /\ \E x \in I : w.from = x.from
  BY <1>2, <1>3
<1>7. QED
  BY <1>5, <1>6 DEF I

\* Evidence is made of pairs.
LEMMA EvidencePairs ==
    ASSUME TypeOK, NEW p \in Proposals, NEW k \in Keys, NEW to \in Settlements(p, k), NEW c
    PROVE  /\ Incoming(c) \subseteq [from : DOMAIN cells, rel : Evidential]
           /\ EvidenceFor(c, k, StoredEdges(p, to)) \subseteq [from : {k}, rel : Evidential]
           /\ Incoming(c) \cup EvidenceFor(c, k, StoredEdges(p, to)) \subseteq Evidence
<1>1. Incoming(c) \subseteq [from : DOMAIN cells, rel : Evidential]
  BY DEF Incoming
<1>2. EvidenceFor(c, k, StoredEdges(p, to)) \subseteq [from : {k}, rel : Evidential]
  BY StoredEdgesShape, EvidenceForMember
<1>3. DOMAIN cells \subseteq Keys
  BY DEF TypeOK
<1>4. QED
  BY <1>1, <1>2, <1>3 DEF Evidence

-----------------------------------------------------------------------------
(* Type correctness *)

\* What a walk weighs is well typed.
LEMMA WeighType ==
    ASSUME TypeOK, NEW p \in Proposals, NEW k \in Keys, NEW to \in Settlements(p, k),
           NEW c, NEW i
    PROVE  Weigh(c, k, p, StoredEdges(p, to), i) \subseteq Weighed
<1> DEFINE E == StoredEdges(p, to)
<1>1. ASSUME NEW n \in DOMAIN cells \cup {k}
      PROVE  CountedBy(n, k, p, E, i) \subseteq Evidence
  <2>1. Incoming(n) \cup EvidenceFor(n, k, E) \subseteq Evidence
    BY EvidencePairs
  <2>2. n \in DOMAIN cells => Counted(n) \subseteq Evidence
    BY DEF TypeOK, Cell, Weighed, Evidence, Counted
  <2>3. QED
    BY <2>1, <2>2 DEF CountedBy
<1>2. ASSUME NEW x \in Incoming(c) \cup EvidenceFor(c, k, E)
      PROVE  [from |-> x.from, rel |-> x.rel, then |-> CountedBy(x.from, k, p, E, i)] \in Weighed
  <2>1. x.from \in DOMAIN cells \cup {k} /\ x.from \in Keys /\ x.rel \in Evidential
    BY EvidencePairs DEF Evidence
  <2>2. CountedBy(x.from, k, p, E, i) \in SUBSET Evidence
    BY <1>1, <2>1
  <2> HIDE DEF E
  <2>3. QED
    BY <2>1, <2>2 DEF Weighed
<1> HIDE DEF E
<1>3. QED
  BY <1>2 DEF Weigh, E

\* A new cell, and a cell a write rewrites, are well-typed cells.
LEMMA StoreCells ==
    ASSUME TypeOK, NEW p \in Proposals, NEW k \in Keys, NEW at \in Watchers(p),
           NEW to \in Settlements(p, k)
    PROVE  /\ NewCell(p, k, at, to) \in Cell
           /\ \A c \in DOMAIN cells : Rewritten(c, k, p, to) \in Cell
<1>0. p \in Proposal
  BY InputsAssumption
<1>1. NewCell(p, k, at, to) \in Cell
  <2>1. {at[r] : r \in p.programs} \subseteq Keys
    BY DEF TypeOK, Watchers
  <2>2. AllDemoted(p, k, to) \subseteq Keys
    BY DemotedStored DEF TypeOK
  <2>3. StoredEdges(p, to) \subseteq Edge
    BY StoredEdgesShape
  <2>4. p.title \in Titles /\ p.body \in Bodies
    BY <1>0 DEF Proposal
  <2>5. Weigh(k, k, p, StoredEdges(p, to), Len(p.edges) + 1) \subseteq Weighed
    BY WeighType
  <2>6. QED
    BY <2>1, <2>2, <2>3, <2>4, <2>5 DEF NewCell, Cell
<1>2. ASSUME NEW c \in DOMAIN cells
      PROVE  Rewritten(c, k, p, to) \in Cell
  <2> DEFINE st  == IF c \in AllDemoted(p, k, to) THEN "superseded" ELSE cells[c].status
             w   == IF \E i \in Evidences(p) : p.edges[i].to = c
                    THEN Weigh(c, k, p, StoredEdges(p, to), LastAbout(c, p))
                    ELSE cells[c].weighed
  <2>1. cells[c] \in Cell
    BY DEF TypeOK
  <2>2. Weigh(c, k, p, StoredEdges(p, to), LastAbout(c, p)) \subseteq Weighed
    BY WeighType
  <2>3. w \in SUBSET Weighed
    BY <2>1, <2>2 DEF Cell
  <2>4. st \in {"active", "superseded"}
    BY <2>1 DEF Cell
  <2>5. Rewritten(c, k, p, to) = [cells[c] EXCEPT !.status = st, !.weighed = w]
    BY DEF Rewritten
  <2> HIDE DEF st, w
  <2>6. QED
    BY <2>1, <2>3, <2>4, <2>5 DEF Cell
<1>3. QED
  BY <1>1, <1>2

\* The store and the answers keep their types.
THEOREM AdmissionType == Spec => []TypeOK
<1>1. Init => TypeOK
  BY DEF Init, TypeOK, Reply
<1>2. TypeOK /\ [Next]_vars => TypeOK'
  <2> SUFFICES ASSUME TypeOK, [Next]_vars
               PROVE  TypeOK'
    OBVIOUS
  <2>1. CASE UNCHANGED vars
    BY <2>1 DEF vars, TypeOK
  <2>2. ASSUME NEW v \in {"rejected", "duplicate", "stored"}, NEW c \in Keys \cup {NoKey}
        PROVE  Answer(v, c) \in Reply
    BY DEF Answer, Reply
  <2>3. ASSUME NEW p \in Proposals, NEW k \in Keys, Reject(p, k)
        PROVE  TypeOK'
    BY <2>2, <2>3 DEF Reject, TypeOK
  <2>4. ASSUME NEW p \in Proposals, NEW k \in Keys, NEW dup \in Keys,
               Deduplicate(p, k, dup)
        PROVE  TypeOK'
    BY <2>2, <2>4 DEF Deduplicate, TypeOK
  <2>5. ASSUME NEW p \in Proposals, NEW k \in Keys, NEW at \in Watchers(p),
             NEW to \in Settlements(p, k), Store(p, k, at, to)
        PROVE  TypeOK'
    <3>1. DOMAIN cells' \subseteq Keys /\ \A c \in DOMAIN cells' : cells'[c] \in Cell
      BY <2>5, StoreCells DEF Store, TypeOK
    <3>2. DOMAIN bundles' \subseteq Bundles /\ \A b \in DOMAIN bundles' : bundles'[b] \subseteq Keys
      BY <2>5 DEF Store, Joined, TypeOK
    <3>3. reply' \in Reply
      BY <2>5, <2>2 DEF Store
    <3>4. QED
      BY <3>1, <3>2, <3>3 DEF TypeOK
  <2>6. ASSUME NEW b \in Bundles, NEW members \in MemberLists, AddHyperedge(b, members)
        PROVE  TypeOK'
    BY <2>6 DEF AddHyperedge, TypeOK
  <2>7. QED
    BY <2>1, <2>3, <2>4, <2>5, <2>6 DEF Next
<1>3. QED
  BY <1>1, <1>2, PTL DEF Spec

-----------------------------------------------------------------------------
(* Safety *)

\* What a write leaves behind, cell by cell.
Stored(p, k, at, to) ==
    /\ k \notin DOMAIN cells
    /\ DOMAIN cells' = DOMAIN cells \cup {k}
    /\ cells'[k].title = p.title
    /\ cells'[k].body = p.body
    /\ cells'[k].status = "active"
    /\ cells'[k].edges = StoredEdges(p, to)
    /\ cells'[k].programs = {at[r] : r \in p.programs}
    /\ cells'[k].lineage = AllDemoted(p, k, to)
    /\ cells'[k].weighed = Weigh(k, k, p, StoredEdges(p, to), Len(p.edges) + 1)
    /\ \A c \in DOMAIN cells :
          /\ c # k
          /\ cells'[c].title = cells[c].title
          /\ cells'[c].body = cells[c].body
          /\ cells'[c].edges = cells[c].edges
          /\ cells'[c].programs = cells[c].programs
          /\ cells'[c].lineage = cells[c].lineage
          /\ cells'[c].status =
                IF c \in AllDemoted(p, k, to) THEN "superseded" ELSE cells[c].status
          /\ cells'[c].weighed =
                IF \E i \in Evidences(p) : p.edges[i].to = c
                THEN Weigh(c, k, p, StoredEdges(p, to), LastAbout(c, p))
                ELSE cells[c].weighed

\* Store() does just that: the step of a write, spelled out cell by cell.
LEMMA StoreEffect ==
    ASSUME TypeOK, NEW p \in Proposals, NEW k \in Keys, NEW at \in Watchers(p),
           NEW to \in Settlements(p, k), Store(p, k, at, to)
    PROVE  Stored(p, k, at, to)
<1>1. /\ k \notin DOMAIN cells
      /\ DOMAIN cells' = DOMAIN cells \cup {k}
      /\ cells'[k] = NewCell(p, k, at, to)
  BY DEF Store
<1>2. ASSUME NEW c \in DOMAIN cells
      PROVE  /\ c # k
             /\ cells'[c].title = cells[c].title
             /\ cells'[c].body = cells[c].body
             /\ cells'[c].edges = cells[c].edges
             /\ cells'[c].programs = cells[c].programs
             /\ cells'[c].lineage = cells[c].lineage
             /\ cells'[c].status =
                   IF c \in AllDemoted(p, k, to) THEN "superseded" ELSE cells[c].status
             /\ cells'[c].weighed =
                   IF \E i \in Evidences(p) : p.edges[i].to = c
                   THEN Weigh(c, k, p, StoredEdges(p, to), LastAbout(c, p))
                   ELSE cells[c].weighed
  <2>1. c # k /\ cells'[c] = Rewritten(c, k, p, to)
    BY <1>1 DEF Store
  <2>2. cells[c] \in Cell
    BY DEF TypeOK
  <2> DEFINE st == IF c \in AllDemoted(p, k, to) THEN "superseded" ELSE cells[c].status
             w  == IF \E i \in Evidences(p) : p.edges[i].to = c
                   THEN Weigh(c, k, p, StoredEdges(p, to), LastAbout(c, p))
                   ELSE cells[c].weighed
  <2>3. cells'[c] = [cells[c] EXCEPT !.status = st, !.weighed = w]
    BY <2>1 DEF Rewritten
  <2> HIDE DEF st, w
  <2>4. /\ cells'[c].title = cells[c].title
        /\ cells'[c].body = cells[c].body
        /\ cells'[c].edges = cells[c].edges
        /\ cells'[c].programs = cells[c].programs
        /\ cells'[c].lineage = cells[c].lineage
        /\ cells'[c].status = st
        /\ cells'[c].weighed = w
    BY <2>2, <2>3 DEF Cell
  <2>5. QED
    BY <2>1, <2>4 DEF st, w
<1>3. QED
  BY <1>1, <1>2 DEF Stored, NewCell

\* A fresh key is named by no stored edge: keys are not handles, and every
\* target reads a stored cell.
LEMMA FreshKeyUnnamed ==
    ASSUME TypeOK, RefsResolve, NEW k \in Keys, k \notin DOMAIN cells
    PROVE  \A c \in DOMAIN cells : \A e \in cells[c].edges : e.to # k
<1>1. Lookup(k) = {}
  BY RefsAssumption DEF Lookup, TypeOK
<1>2. QED
  BY <1>1 DEF RefsResolve

\* References still resolve after a step: cells are never removed.
LEMMA RefsKept ==
    ASSUME TypeOK, RefsResolve, [Next]_vars
    PROVE  RefsResolve'
<1>1. CASE UNCHANGED <<cells, bundles>>
  BY <1>1 DEF RefsResolve, Lookup
<1>2. ASSUME NEW p \in Proposals, NEW k \in Keys, NEW at \in Watchers(p),
             NEW to \in Settlements(p, k), Store(p, k, at, to)
      PROVE  RefsResolve'
  <2>s. Stored(p, k, at, to)
    BY <1>2, StoreEffect
  <2>0. p \in Proposal
    BY InputsAssumption
  <2>1. \A r : Lookup(r) # {} => Lookup(r)' # {}
    BY <1>2, <2>s DEF Stored, Lookup
  <2>2. ASSUME NEW e \in StoredEdges(p, to)
        PROVE  Lookup(e.to)' # {}
    <3>1. \A d \in DOMAIN cells \cup {k} : Lookup(d)' # {}
      BY <2>s DEF Stored, Lookup
    <3>2. CASE e.rel = "supersedes"
      <4>1. e.to \in DOMAIN cells \cup {k}
        BY <3>2, StoredEdgesShape, Settled
      <4>2. QED
        BY <3>1, <4>1
    <3>3. CASE e.rel # "supersedes"
      <4>1. PICK j \in DOMAIN p.edges : e = p.edges[j]
        BY <3>3, StoredEdgesShape
      <4>2. e.to = k \/ Lookup(e.to) # {}
        BY <1>2, <4>1 DEF Store, Admissible
      <4>3. QED
        BY <2>1, <3>1, <4>2
    <3>4. QED
      BY <3>2, <3>3
  <2>3. \A r \in p.programs : at[r] \in DOMAIN cells /\ cells[at[r]].title \in ProgramTitles
    BY <1>2, <2>0 DEF Store, Admissible, Watchers
  <2>4. ASSUME NEW c \in DOMAIN cells'
        PROVE  /\ \A e \in cells'[c].edges : Lookup(e.to)' # {}
               /\ \A g \in cells'[c].programs :
                     g \in DOMAIN cells' /\ cells'[g].title \in ProgramTitles
    <3>1. CASE c = k
      <4>1. \A e \in cells'[c].edges : Lookup(e.to)' # {}
        BY <2>2, <2>s, <3>1 DEF Stored
      <4>2. cells'[c].programs = {at[r] : r \in p.programs}
        BY <2>s, <3>1 DEF Stored
      <4>3. \A r \in p.programs : at[r] \in DOMAIN cells' /\ cells'[at[r]].title \in ProgramTitles
        BY <2>3, <2>s DEF Stored
      <4>4. QED
        BY <4>1, <4>2, <4>3
    <3>2. CASE c \in DOMAIN cells
      BY <2>1, <3>2, <2>s DEF Stored, RefsResolve
    <3>3. QED
      BY <1>2, <3>1, <3>2, <2>s DEF Stored
  <2>5. \A b \in DOMAIN bundles' : bundles'[b] \subseteq DOMAIN cells'
    BY <1>2, <2>s DEF Stored, Store, Joined, RefsResolve
  <2>6. QED
    BY <2>4, <2>5 DEF RefsResolve
<1>3. ASSUME NEW b \in Bundles, NEW members \in MemberLists, AddHyperedge(b, members)
      PROVE  RefsResolve'
  BY <1>3 DEF AddHyperedge, RefsResolve, Lookup
<1>4. QED
  BY <1>1, <1>2, <1>3 DEF Next, vars, Reject, Deduplicate

\* The walk of the evidence after a write: what it found before, and the
\* evidence the new cell brings.
LEMMA IncomingAfterStore ==
    ASSUME TypeOK, NEW p \in Proposals, NEW k \in Keys, NEW at \in Watchers(p),
           NEW to \in Settlements(p, k), Store(p, k, at, to), NEW c
    PROVE  Incoming(c)' = Incoming(c) \cup EvidenceFor(c, k, StoredEdges(p, to))
<1>2. StoredEdges(p, to) \subseteq Edge
  BY StoredEdgesShape
<1>3. /\ DOMAIN cells' = DOMAIN cells \cup {k}
      /\ k \notin DOMAIN cells
      /\ cells'[k].edges = StoredEdges(p, to)
      /\ \A d \in DOMAIN cells : cells'[d].edges = cells[d].edges
  <2>1. Stored(p, k, at, to)
    BY StoreEffect
  <2>2. QED
    BY <2>1 DEF Stored
<1>4. ASSUME NEW x
      PROVE  x \in Incoming(c)' <=>
                x \in Incoming(c) \/ x \in EvidenceFor(c, k, StoredEdges(p, to))
  <2>1. x \in Incoming(c)' <=>
           /\ x \in [from : DOMAIN cells \cup {k}, rel : Evidential]
           /\ [rel |-> x.rel, to |-> c] \in cells'[x.from].edges
    BY <1>3 DEF Incoming
  <2>2. x \in EvidenceFor(c, k, StoredEdges(p, to)) <=>
           /\ x \in [from : {k}, rel : Evidential]
           /\ [rel |-> x.rel, to |-> c] \in StoredEdges(p, to)
    BY <1>2, EvidenceForMember DEF Edge
  <2>3. QED
    BY <1>3, <2>1, <2>2 DEF Incoming
<1>5. QED
  BY <1>4

\* After a write every cell has counted the evidence about it.
LEMMA CountedAfterStore ==
    ASSUME TypeOK, RefsResolve, EvidenceWeighed,
           NEW p \in Proposals, NEW k \in Keys, NEW at \in Watchers(p),
           NEW to \in Settlements(p, k), Store(p, k, at, to), NEW c \in DOMAIN cells \cup {k}
    PROVE  Counted(c)' = Incoming(c) \cup EvidenceFor(c, k, StoredEdges(p, to))
<1> DEFINE E == StoredEdges(p, to)
<1>s. Stored(p, k, at, to)
  BY StoreEffect
<1>1. ASSUME NEW i, cells'[c].weighed = Weigh(c, k, p, E, i)
      PROVE  Counted(c)' = Incoming(c) \cup EvidenceFor(c, k, E)
  <2>1. Counted(c)' = {[from |-> x.from, rel |-> x.rel] :
                          x \in Incoming(c) \cup EvidenceFor(c, k, E)}
    BY <1>1, WeighPairs DEF Counted
  <2>2. \A x \in Incoming(c) \cup EvidenceFor(c, k, E) : x = [from |-> x.from, rel |-> x.rel]
    BY EvidencePairs DEF Evidence
  <2> HIDE DEF E
  <2>3. QED
    BY <2>1, <2>2
<1>2. CASE c = k
  BY <1>1, <1>2, <1>s DEF Stored
<1>3. CASE c \in DOMAIN cells /\ \E i \in Evidences(p) : p.edges[i].to = c
  BY <1>1, <1>3, <1>s DEF Stored
<1>4. CASE c \in DOMAIN cells /\ ~\E i \in Evidences(p) : p.edges[i].to = c
  <2>1. cells'[c].weighed = cells[c].weighed
    BY <1>4, <1>s DEF Stored
  <2>2. Counted(c)' = Counted(c)
    BY <2>1 DEF Counted
  <2>3. EvidenceFor(c, k, E) = {}
    BY <1>4, EvidenceNamed
  <2>4. Counted(c) = Incoming(c)
    BY <1>4 DEF EvidenceWeighed
  <2>5. QED
    BY <2>2, <2>3, <2>4
<1>5. QED
  BY <1>2, <1>3, <1>4

\* A walk reads no neighbour ahead of what it has counted in the end.
LEMMA ReadNotAhead ==
    ASSUME TypeOK, RefsResolve, EvidenceWeighed,
           NEW p \in Proposals, NEW k \in Keys, NEW at \in Watchers(p),
           NEW to \in Settlements(p, k), Store(p, k, at, to),
           NEW n \in DOMAIN cells \cup {k}, NEW i
    PROVE  CountedBy(n, k, p, StoredEdges(p, to), i) \subseteq Counted(n)'
<1>1. Counted(n)' = Incoming(n) \cup EvidenceFor(n, k, StoredEdges(p, to))
  BY CountedAfterStore
<1>2. n \in DOMAIN cells => Counted(n) = Incoming(n)
  BY DEF EvidenceWeighed
<1>3. QED
  BY <1>1, <1>2 DEF CountedBy

\* A step leaves every cell with all its evidence counted, once, and by
\* readings that were not ahead.
LEMMA EvidenceKept ==
    ASSUME TypeOK, RefsResolve, EvidenceWeighed, [Next]_vars
    PROVE  EvidenceWeighed'
<1>1. CASE UNCHANGED cells
  BY <1>1 DEF EvidenceWeighed, Incoming, Counted
<1>2. ASSUME NEW p \in Proposals, NEW k \in Keys, NEW at \in Watchers(p),
             NEW to \in Settlements(p, k), Store(p, k, at, to)
      PROVE  EvidenceWeighed'
  <2> DEFINE E == StoredEdges(p, to)
  <2>s. Stored(p, k, at, to)
    BY <1>2, StoreEffect
  <2>d. DOMAIN cells' = DOMAIN cells \cup {k}
    BY <2>s DEF Stored
  <2>1. ASSUME NEW c \in DOMAIN cells'
        PROVE  Counted(c)' = Incoming(c)'
    <3>1. Counted(c)' = Incoming(c) \cup EvidenceFor(c, k, StoredEdges(p, to))
      BY <1>2, <2>d, CountedAfterStore
    <3>2. Incoming(c)' = Incoming(c) \cup EvidenceFor(c, k, StoredEdges(p, to))
      BY <1>2, IncomingAfterStore
    <3>3. QED
      BY <3>1, <3>2
  <2>2. ASSUME NEW c \in DOMAIN cells'
        PROVE  /\ \A w \in cells'[c].weighed : w.then \subseteq Counted(w.from)'
               /\ \A v, w \in cells'[c].weighed : v.from = w.from => v.then = w.then
    <3>1. ASSUME NEW i, cells'[c].weighed = Weigh(c, k, p, E, i)
          PROVE  /\ \A w \in cells'[c].weighed : w.then \subseteq Counted(w.from)'
                 /\ \A v, w \in cells'[c].weighed : v.from = w.from => v.then = w.then
      <4>1. ASSUME NEW w \in cells'[c].weighed
            PROVE  /\ w.from \in DOMAIN cells \cup {k}
                   /\ w.then = CountedBy(w.from, k, p, E, i)
        <5>1. w \in Weigh(c, k, p, E, i)
          BY <3>1
        <5>2. PICK x \in Incoming(c) \cup EvidenceFor(c, k, E) : w.from = x.from
          BY <5>1, WeighPairs
        <5>3. x.from \in DOMAIN cells \cup {k}
          BY EvidencePairs
        <5>4. QED
          BY <5>1, <5>2, <5>3, WeighPairs
      <4>2. QED
        BY <1>2, <4>1, ReadNotAhead
    <3>2. CASE c = k
      BY <3>1, <3>2, <2>s DEF Stored
    <3>3. CASE c \in DOMAIN cells /\ \E i \in Evidences(p) : p.edges[i].to = c
      BY <3>1, <3>3, <2>s DEF Stored
    <3>4. CASE c \in DOMAIN cells /\ ~\E i \in Evidences(p) : p.edges[i].to = c
      <4>1. cells'[c].weighed = cells[c].weighed
        BY <3>4, <2>s DEF Stored
      <4>2. ASSUME NEW w \in cells[c].weighed
            PROVE  w.then \subseteq Counted(w.from)'
        <5>1. [from |-> w.from, rel |-> w.rel] \in Incoming(c)
          BY <3>4 DEF EvidenceWeighed, Counted
        <5>2. w.from \in DOMAIN cells
          BY <5>1 DEF Incoming
        <5>3. Counted(w.from) \subseteq Counted(w.from)'
          BY <1>2, <5>2, CountedAfterStore DEF EvidenceWeighed
        <5>4. w.then \subseteq Counted(w.from)
          BY <3>4 DEF EvidenceWeighed
        <5>5. QED
          BY <5>3, <5>4
      <4>3. QED
        BY <3>4, <4>1, <4>2 DEF EvidenceWeighed
    <3>5. QED
      BY <2>d, <3>2, <3>3, <3>4
  <2>3. QED
    BY <2>1, <2>2 DEF EvidenceWeighed
<1>3. QED
  BY <1>1, <1>2 DEF Next, vars, Reject, Deduplicate, AddHyperedge

\* What a write supersedes is out of date when the write is done.
LEMMA SupersedeKept ==
    ASSUME TypeOK, SupersedeTakesHold, [Next]_vars
    PROVE  SupersedeTakesHold'
<1>1. CASE UNCHANGED cells
  BY <1>1 DEF SupersedeTakesHold, IsActive
<1>2. ASSUME NEW p \in Proposals, NEW k \in Keys, NEW at \in Watchers(p),
             NEW to \in Settlements(p, k), Store(p, k, at, to)
      PROVE  SupersedeTakesHold'
  <2>s. Stored(p, k, at, to)
    BY <1>2, StoreEffect
  <2>0. p \in Proposal
    BY InputsAssumption
  <2>1. \A c \in DOMAIN cells : ~IsActive(c) => ~IsActive(c)'
    BY <1>2, <2>s DEF Stored, IsActive
  <2>2. ASSUME NEW e \in StoredEdges(p, to), e.rel = "supersedes"
        PROVE  e.to \in DOMAIN cells \cup {k} /\ (e.to # k => ~IsActive(e.to)')
    <3>1. PICK j \in Supersedes(p) : e.to = to[j]
      BY <2>2, StoredEdgesShape
    <3>2. to[j] \in DOMAIN cells \cup {k}
      BY Settled
    <3>3. to[j] # k /\ IsActive(to[j]) => to[j] \in AllDemoted(p, k, to)
      BY <3>2, DemotedStored
    <3>4. QED
      BY <2>1, <3>1, <3>2, <3>3, <2>s DEF Stored, IsActive
  <2>3. \A t \in AllDemoted(p, k, to) : [rel |-> "supersedes", to |-> t] \in StoredEdges(p, to)
    BY DemotedStored, ProposalEdges DEF StoredEdges, Supersedes
  <2>4. ASSUME NEW c \in DOMAIN cells'
        PROVE  /\ \A e \in cells'[c].edges :
                     e.rel = "supersedes" => /\ e.to \in DOMAIN cells'
                                             /\ e.to # c => ~IsActive(e.to)'
               /\ \A t \in cells'[c].lineage : [rel |-> "supersedes", to |-> t] \in cells'[c].edges
    <3>1. CASE c = k
      BY <2>2, <2>3, <3>1, <2>s DEF Stored
    <3>2. CASE c \in DOMAIN cells
      BY <2>1, <3>2, <2>s DEF Stored, SupersedeTakesHold
    <3>3. QED
      BY <3>1, <3>2, <2>s DEF Stored
  <2>5. QED
    BY <2>4 DEF SupersedeTakesHold
<1>3. QED
  BY <1>1, <1>2 DEF Next, vars, Reject, Deduplicate, AddHyperedge

\* No edge, program reference or hyperedge member of a stored cell ever dangles:
\* the gate resolves a reference before it stores it, and no cell is removed.
THEOREM AdmissionRefsResolve == Spec => []RefsResolve
<1>1. Init => RefsResolve
  BY DEF Init, RefsResolve
<1>2. TypeOK /\ RefsResolve /\ [Next]_vars => RefsResolve'
  BY RefsKept
<1>3. QED
  BY <1>1, <1>2, AdmissionType, PTL DEF Spec

\* The confidence of a cell is never behind the evidence filed under its key:
\* a write that brings evidence about it rescores it in the same step.
THEOREM AdmissionEvidenceWeighed == Spec => []EvidenceWeighed
<1>1. Init => EvidenceWeighed
  BY DEF Init, EvidenceWeighed
<1>2. TypeOK /\ RefsResolve /\ EvidenceWeighed /\ [Next]_vars => EvidenceWeighed'
  BY EvidenceKept
<1>3. QED
  BY <1>1, <1>2, AdmissionType, AdmissionRefsResolve, PTL DEF Spec

\* What a stored cell supersedes is out of date, and stays so.
THEOREM AdmissionSupersedeTakesHold == Spec => []SupersedeTakesHold
<1>1. Init => SupersedeTakesHold
  BY DEF Init, SupersedeTakesHold
<1>2. TypeOK /\ SupersedeTakesHold /\ [Next]_vars => SupersedeTakesHold'
  BY SupersedeKept
<1>3. QED
  BY <1>1, <1>2, AdmissionType, PTL DEF Spec

-----------------------------------------------------------------------------
(* Refinement *)

\* Every step of the gate is a step of the memory it implements, or none.
LEMMA StepRefines ==
    ASSUME TypeOK, [Next]_vars
    PROVE  [M!Next]_recorded
<1>1. CASE UNCHANGED cells
  BY <1>1 DEF recorded
<1>2. ASSUME NEW p \in Proposals, NEW k \in Keys, NEW at \in Watchers(p),
             NEW to \in Settlements(p, k), Store(p, k, at, to)
      PROVE  M!Next
  <2>s. Stored(p, k, at, to)
    BY <1>2, StoreEffect
  <2>0. p \in Proposal
    BY InputsAssumption
  <2> DEFINE c == <<p.title, p.body>>
             R == AllDemoted(p, k, to) \ {k}
  <2>1. c \in Titles \X Bodies
    BY <2>0 DEF Proposal
  <2>2. R \in SUBSET Keys /\ \A t \in R : t \in DOMAIN cells /\ IsActive(t)
    BY DemotedStored DEF TypeOK
  <2>3. k \notin DOMAIN recorded /\ R \subseteq M!Current
    BY <1>2, <2>2, <2>s DEF Stored, recorded, M!Current, IsActive
  <2>4. recorded' = [j \in DOMAIN recorded \cup {k} |->
                       IF j = k THEN [content |-> c, current |-> TRUE, replaces |-> R]
                       ELSE IF j \in R THEN [recorded[j] EXCEPT !.current = FALSE]
                       ELSE recorded[j]]
    <3>1. recorded' = [j \in DOMAIN cells \cup {k} |->
                         [content  |-> <<cells'[j].title, cells'[j].body>>,
                          current  |-> cells'[j].status = "active",
                          replaces |-> cells'[j].lineage \ {j}]]
      BY <1>2, <2>s DEF Stored, recorded
    <3>2. /\ cells'[k].title = p.title
          /\ cells'[k].body = p.body
          /\ cells'[k].status = "active"
          /\ cells'[k].lineage \ {k} = R
      BY <1>2, <2>s DEF Stored
    <3>3. ASSUME NEW j \in DOMAIN cells
          PROVE  [content  |-> <<cells'[j].title, cells'[j].body>>,
                  current  |-> cells'[j].status = "active",
                  replaces |-> cells'[j].lineage \ {j}]
                 = IF j \in R THEN [recorded[j] EXCEPT !.current = FALSE] ELSE recorded[j]
      <4>1. CASE j \in R
        BY <1>2, <4>1, <2>s DEF Stored, recorded
      <4>2. CASE j \notin R
        BY <1>2, <4>2, <2>s DEF Stored, recorded
      <4>3. QED
        BY <4>1, <4>2
    <3>4. DOMAIN recorded = DOMAIN cells /\ k \notin DOMAIN cells /\ R \subseteq DOMAIN cells
      BY <2>2, <2>3 DEF recorded
    <3> HIDE DEF c, R
    <3>5. <<p.title, p.body>> = c
      BY DEF c
    <3>6. QED
      BY <3>1, <3>2, <3>3, <3>4, <3>5
  <2>5. M!Record(k, c, R)
    BY <2>3, <2>4 DEF M!Record
  <2>6. QED
    BY <2>1, <2>2, <2>5 DEF M!Next
<1>3. QED
  BY <1>1, <1>2 DEF Next, vars, Reject, Deduplicate, AddHyperedge

\* The gate implements the memory Recall promises: nothing is lost or
\* rewritten, and a superseded cell stays superseded.
THEOREM AdmissionImplementsMemory == Spec => ImplementsMemory
<1>1. Init => M!Init
  BY DEF Init, M!Init, recorded
<1>2. TypeOK /\ [Next]_vars => [M!Next]_recorded
  BY StepRefines
<1>3. QED
  BY <1>1, <1>2, AdmissionType, PTL DEF Spec, ImplementsMemory, M!Spec

P == INSTANCE MemoryProofs WITH
        Ids <- Keys, Content <- Titles \X Bodies, memory <- recorded

\* A superseded cell has exactly one successor that lists it in its lineage,
\* an active one has none, and a walk down the lineage ends.
THEOREM AdmissionLineage == Spec => []ReplacedOnce /\ []LineageAcyclic
<1>1. P!Spec => []P!History
  BY P!MemoryHistory
<1>2. Spec => P!Spec
  <2>1. M!Init <=> P!Init
    BY DEF M!Init, P!Init
  <2>2. M!Next <=> P!Next
    BY DEF M!Next, M!Record, M!Current, P!Next, P!Record, P!Current
  <2>3. QED
    BY <2>1, <2>2, AdmissionImplementsMemory, PTL DEF ImplementsMemory, M!Spec, P!Spec
<1>3. P!History => ReplacedOnce /\ LineageAcyclic
  BY DEF P!History, P!ReplacedOnce, P!LineageAcyclic, ReplacedOnce, LineageAcyclic,
     M!ReplacedOnce, M!LineageAcyclic
<1>4. QED
  BY <1>1, <1>2, <1>3, PTL
===============================================================================
