------------------------------ MODULE Admission ------------------------------
(***************************************************************************)
(* The write gate of Recall (src/src/admission.ts) over the store it       *)
(* writes to (src/src/store.ts), one call at a time: what one process does *)
(* to a graph nobody else is writing.  Each call of admit() is one step,   *)
(* from the checks to the last put.  SharedStore takes the same call apart *)
(* statement by statement and lets several processes in.                   *)
(*                                                                         *)
(* Abstracted: a title stands for a content key (kind plus normalised      *)
(* title), so the kind of a cell is a property of its title.  The number   *)
(* of a cell's effective confidence is represented by what it was computed *)
(* from (the field weighed): the evidence about the cell and, since that   *)
(* is weighed by the confidence of the cells it comes from, the evidence   *)
(* each of those had counted when it was read.                             *)
(***************************************************************************)
EXTENDS Naturals, Sequences

CONSTANTS Keys,           \* keys of cells: random UUIDs or derived keys
          Handles,        \* short handles, kind_ plus four hex digits of the key
          HandleOf,       \* the handle of each key; two keys may share one
          Titles,         \* content keys
          ProgramTitles,  \* the titles whose kind is prg
          Bodies,
          Bundles,        \* ids of hyperedges
          NoKey,          \* stands for "no cell" in an answer
          Proposals,      \* the write proposals callers may submit
          MemberLists     \* the member lists of the hyperedges they may add

Relations  == {"supports", "contradicts", "concerns",
               "depends_on", "supersedes", "derived_from"}
Evidential == {"supports", "contradicts", "concerns"}   \* non-zero weight
Refs       == Keys \cup Handles
Edge       == [rel : Relations, to : Refs]
Evidence   == [from : Keys, rel : Evidential]

Proposal == [title : Titles, body : Bodies, edges : Seq(Edge),
             programs : SUBSET Refs, bundles : SUBSET Bundles,
             wellFormed : BOOLEAN]

\* Evidence as it was weighed: by the confidence its source had when it had
\* counted the evidence of the field then.
Weighed == [from : Keys, rel : Evidential, then : SUBSET Evidence]

Cell == [title : Titles, body : Bodies, status : {"active", "superseded"},
         edges : SUBSET Edge, programs : SUBSET Keys, lineage : SUBSET Keys,
         weighed : SUBSET Weighed]

\* What a caller is told.
Reply == [verdict : {"none", "rejected", "duplicate", "stored"}, cell : Keys \cup {NoKey}]

ASSUME RefsAssumption ==
    /\ HandleOf \in [Keys -> Handles]
    /\ Keys \cap Handles = {}
    /\ NoKey \notin Refs
    /\ ProgramTitles \subseteq Titles

ASSUME InputsAssumption == /\ Proposals \subseteq Proposal
                           /\ MemberLists \subseteq SUBSET Refs

VARIABLES cells,    \* the cells and edges tables: a partial function on Keys
          bundles,  \* the hyperedges table: a partial function to member keys
          reply     \* the answer to the last write

vars == <<cells, bundles, reply>>

-----------------------------------------------------------------------------
(* Reading the store *)

IsActive(c) == cells[c].status = "active"

\* store.get(ref) ?? store.getByHandle(ref): the cells the reference may read.
\* A handle two cells share gives either of them.
Lookup(ref) ==
    IF ref \in DOMAIN cells THEN {ref}
    ELSE {c \in DOMAIN cells : HandleOf[c] = ref}

\* The evidence neighborMass() finds for a cell: the edges stored with its key
\* as their target.  An edge stored with a handle as its target is not found.
Incoming(c) ==
    {x \in [from : DOMAIN cells, rel : Evidential] :
        [rel |-> x.rel, to |-> c] \in cells[x.from].edges}

\* The evidence the stored confidence of a cell was computed from.
Counted(c) == {[from |-> w.from, rel |-> w.rel] : w \in cells[c].weighed}

\* store.findByContentKey(): LIMIT 1, so any one of these may come back.
SameTitle(p) == {c \in DOMAIN cells : IsActive(c) /\ cells[c].title = p.title}

-----------------------------------------------------------------------------
(* The gate: the checks *)

Answer(verdict, cell) == [verdict |-> verdict, cell |-> cell]

Supersedes(p) == {i \in DOMAIN p.edges : p.edges[i].rel = "supersedes"}
Evidences(p)  == {i \in DOMAIN p.edges : p.edges[i].rel \in Evidential}

\* The stored cells the programs of a proposal may read; none if one dangles.
Watchers(p) ==
    {at \in [p.programs -> DOMAIN cells] : \A r \in p.programs : at[r] \in Lookup(r)}

\* Mutant: any cell may watch, whatever its kind.
AdmissibleAnyWatcher(p, k, at) ==
    /\ p.wellFormed
    /\ \A i \in DOMAIN p.edges : p.edges[i].to = k \/ Lookup(p.edges[i].to) # {}
    /\ p.bundles \subseteq DOMAIN bundles

\* The proposal passes the checks when its cell gets the key k: every edge
\* reads a stored cell, or names the key the caller fixed for the cell itself.
Admissible(p, k, at) ==
    /\ p.wellFormed
    /\ \A i \in DOMAIN p.edges : p.edges[i].to = k \/ Lookup(p.edges[i].to) # {}
    /\ \A r \in p.programs : cells[at[r]].title \in ProgramTitles
    /\ p.bundles \subseteq DOMAIN bundles

\* admit() refuses: the schema, the template or the calibration factor is bad,
\* or a reference does not resolve.  Nothing was written.
Reject(p, k) ==
    /\ \/ Watchers(p) = {}
       \/ \E at \in Watchers(p) : ~Admissible(p, k, at)
    /\ reply' = Answer("rejected", NoKey)
    /\ UNCHANGED <<cells, bundles>>

\* admit() finds an active cell with the same title and body: it answers with
\* that cell and writes nothing, whatever else the proposal asks for.
Deduplicate(p, k, dup) ==
    /\ \E at \in Watchers(p) : Admissible(p, k, at)
    /\ dup \in SameTitle(p)
    /\ cells[dup].body = p.body
    /\ reply' = Answer("duplicate", dup)
    /\ UNCHANGED <<cells, bundles>>

-----------------------------------------------------------------------------
(* The gate: what a write supersedes.  The new cell k is in the table when   *)
(* its supersedes edges are resolved, one after the other.  A demoted cell   *)
(* is put again, and a put moves its row to the end of the table, where a    *)
(* handle finds it last.  to[i] is the target of the i-th edge in the end.   *)

\* Mutant: a cell already superseded is demoted again.
DemotedAgain(p, k, to, i) ==
    {c \in DOMAIN cells \cup {k} : \E j \in Supersedes(p) : j < i /\ to[j] = c}

\* What the edges before the i-th have demoted: the cells they resolve to that
\* were active, the new cell among them.
Demoted(p, k, to, i) ==
    {c \in DOMAIN cells \cup {k} :
        /\ \E j \in Supersedes(p) : j < i /\ to[j] = c
        /\ c = k \/ IsActive(c)}

\* The cells a reference may read with k stored last, and the cells of moved
\* put again after it.
Found(ref, k, moved) ==
    LET named  == {c \in DOMAIN cells \cup {k} : HandleOf[c] = ref}
        before == named \ ({k} \cup moved) IN
    IF ref \in DOMAIN cells \cup {k} THEN {ref}
    ELSE IF before # {} THEN before
    ELSE IF k \in named \ moved THEN {k}
    ELSE named

\* The ways the targets of a write's edges may end up: those of supersedes
\* edges as the keys they were resolved to, the others as they were written.
Settlements(p, k) ==
    {to \in [DOMAIN p.edges -> Refs] :
        \A i \in DOMAIN p.edges :
           to[i] \in IF i \in Supersedes(p)
                     THEN Found(p.edges[i].to, k, Demoted(p, k, to, i))
                     ELSE {p.edges[i].to}}

AllDemoted(p, k, to) == Demoted(p, k, to, Len(p.edges) + 1)

\* Mutant: supersedes edges keep the handle they were written with.
EdgesAsWritten(p, to) == {p.edges[i] : i \in DOMAIN p.edges}

StoredEdges(p, to) == {[rel |-> p.edges[i].rel, to |-> to[i]] : i \in DOMAIN p.edges}

-----------------------------------------------------------------------------
(* The gate: what a write bears on.  The targets of its evidence are scored   *)
(* again, one after the other and found by key only; the cells those targets *)
(* bear on in turn are not.                                                  *)

\* The evidence the new cell k brings to the cell c.
EvidenceFor(c, k, edges) ==
    {[from |-> k, rel |-> e.rel] : e \in {x \in edges : x.rel \in Evidential /\ x.to = c}}

\* What the cell n has counted when the i-th edge is reached.
CountedBy(n, k, p, edges, i) ==
    IF \E j \in Evidences(p) : j < i /\ p.edges[j].to = n
    THEN Incoming(n) \cup EvidenceFor(n, k, edges)
    ELSE IF n = k THEN {} ELSE Counted(n)

\* neighborMass() of the cell c when the i-th edge is reached.
Weigh(c, k, p, edges, i) ==
    {[from |-> x.from, rel |-> x.rel, then |-> CountedBy(x.from, k, p, edges, i)] :
        x \in Incoming(c) \cup EvidenceFor(c, k, edges)}

\* The last edge that brings evidence about c.
LastAbout(c, p) ==
    CHOOSE i \in Evidences(p) :
        p.edges[i].to = c /\ \A j \in Evidences(p) : p.edges[j].to = c => j <= i

\* Mutant: the confidence is recomputed before the new edges are stored.
RewrittenEarly(c, k, p, to) ==
    [cells[c] EXCEPT
        !.status  = IF c \in AllDemoted(p, k, to) THEN "superseded" ELSE @,
        !.weighed = IF \E i \in Evidences(p) : p.edges[i].to = c
                    THEN Weigh(c, k, p, {}, LastAbout(c, p)) ELSE @]

\* What a write does to a cell already stored: a superseded target is demoted,
\* a target of evidence has its effective confidence recomputed.
Rewritten(c, k, p, to) ==
    [cells[c] EXCEPT
        !.status  = IF c \in AllDemoted(p, k, to) THEN "superseded" ELSE @,
        !.weighed = IF \E i \in Evidences(p) : p.edges[i].to = c
                    THEN Weigh(c, k, p, StoredEdges(p, to), LastAbout(c, p)) ELSE @]

-----------------------------------------------------------------------------
(* The gate: the write *)

\* Mutants: the watchers are stored unresolved; the lineage is forgotten.
CellWithRefs(p, k, at, to) ==
    [title |-> p.title, body |-> p.body, status |-> "active",
     edges |-> StoredEdges(p, to), programs |-> p.programs,
     lineage |-> AllDemoted(p, k, to), weighed |-> {}]

CellWithoutLineage(p, k, at, to) ==
    [title |-> p.title, body |-> p.body, status |-> "active",
     edges |-> StoredEdges(p, to), programs |-> {at[r] : r \in p.programs},
     lineage |-> {}, weighed |-> {}]

\* The new cell as the last put leaves it: active, whatever it demoted.
NewCell(p, k, at, to) ==
    [title |-> p.title, body |-> p.body, status |-> "active",
     edges |-> StoredEdges(p, to), programs |-> {at[r] : r \in p.programs},
     lineage |-> AllDemoted(p, k, to),
     weighed |-> Weigh(k, k, p, StoredEdges(p, to), Len(p.edges) + 1)]

\* Every bundle the proposal joins gets the new cell as a member.
Joined(p, k) ==
    [b \in DOMAIN bundles |-> IF b \in p.bundles THEN bundles[b] \cup {k} ELSE bundles[b]]

\* admit() stores the cell under the fresh key k, joins its bundles, demotes
\* what it supersedes and recomputes the confidence of what it bears on.
Store(p, k, at, to) ==
    /\ Admissible(p, k, at)
    /\ k \notin DOMAIN cells
    /\ SameTitle(p) = {} \/ \E c \in SameTitle(p) : cells[c].body # p.body
    /\ cells' = [c \in DOMAIN cells \cup {k} |->
                    IF c = k THEN NewCell(p, k, at, to) ELSE Rewritten(c, k, p, to)]
    /\ bundles' = Joined(p, k)
    /\ reply' = Answer("stored", k)

\* addHyperedge(): every member resolves, or nothing is written.  An id already
\* in use is overwritten.
AddHyperedge(b, members) ==
    /\ \A r \in members : Lookup(r) # {}
    /\ \E at \in [members -> DOMAIN cells] :
          /\ \A r \in members : at[r] \in Lookup(r)
          /\ bundles' = [x \in DOMAIN bundles \cup {b} |->
                            IF x = b THEN {at[r] : r \in members} ELSE bundles[x]]
    /\ UNCHANGED <<cells, reply>>

-----------------------------------------------------------------------------
Init ==
    /\ cells = [k \in {} |-> {}]
    /\ bundles = [b \in {} |-> {}]
    /\ reply = [verdict |-> "none", cell |-> NoKey]

Next ==
    \/ \E p \in Proposals, k \in Keys : Reject(p, k)
    \/ \E p \in Proposals, k, dup \in Keys : Deduplicate(p, k, dup)
    \/ \E p \in Proposals, k \in Keys :
          \E at \in Watchers(p), to \in Settlements(p, k) : Store(p, k, at, to)
    \/ \E b \in Bundles, members \in MemberLists : AddHyperedge(b, members)

Spec == Init /\ [][Next]_vars

-----------------------------------------------------------------------------
(* Properties *)

TypeOK ==
    /\ DOMAIN cells \subseteq Keys
    /\ \A k \in DOMAIN cells : cells[k] \in Cell
    /\ DOMAIN bundles \subseteq Bundles
    /\ \A b \in DOMAIN bundles : bundles[b] \subseteq Keys
    /\ reply \in Reply

\* No reference ever dangles: an edge names a stored cell by key or handle, a
\* watching program is a stored prg cell, a bundle's members are stored
\* (admission.ts: "a dangling evidence target is rejected here").
RefsResolve ==
    /\ \A k \in DOMAIN cells :
          /\ \A e \in cells[k].edges : Lookup(e.to) # {}
          /\ \A g \in cells[k].programs : g \in DOMAIN cells /\ cells[g].title \in ProgramTitles
    /\ \A b \in DOMAIN bundles : bundles[b] \subseteq DOMAIN cells

\* A cell's stored confidence takes in the evidence filed under its key, all of
\* it and each piece once, and weighs what comes from one cell by one reading of
\* that cell, which was never ahead of it.  It may be behind: when evidence
\* about a neighbour arrives, the neighbour is scored again and the cells it
\* bears on are not, until a write about them or a tick comes by.
EvidenceWeighed ==
    \A c \in DOMAIN cells :
       /\ Counted(c) = Incoming(c)
       /\ \A w \in cells[c].weighed : w.then \subseteq Counted(w.from)
       /\ \A v, w \in cells[c].weighed : v.from = w.from => v.then = w.then

\* A stored cell that superseded others left none of them active, and its
\* lineage is spelled by its supersedes edges.  The cell may be one of its own
\* targets, by a key the caller fixed or a handle it shares with a cell it
\* demoted before: it lists itself then, and is active all the same.
SupersedeTakesHold ==
    \A k \in DOMAIN cells :
       /\ \A e \in cells[k].edges :
             e.rel = "supersedes" => /\ e.to \in DOMAIN cells
                                     /\ e.to # k => ~IsActive(e.to)
       /\ \A t \in cells[k].lineage : [rel |-> "supersedes", to |-> t] \in cells[k].edges

\* The history Recall promises: nothing is lost or rewritten, a superseded cell
\* stays superseded and has one successor.  A cell that lists itself replaces
\* the others it lists.
recorded == [k \in DOMAIN cells |->
               [content  |-> <<cells[k].title, cells[k].body>>,
                current  |-> cells[k].status = "active",
                replaces |-> cells[k].lineage \ {k}]]

M == INSTANCE Memory WITH
        Ids <- Keys, Content <- Titles \X Bodies, memory <- recorded

ImplementsMemory == M!Spec
ReplacedOnce     == M!ReplacedOnce
LineageAcyclic   == M!LineageAcyclic

\* What the comment at the edge check says of evidence: once the gate accepts
\* an edge its target's confidence takes it in ("so it cannot leave the trust
\* surface inert").
EvidenceReaches ==
    \A k \in DOMAIN cells : \A e \in cells[k].edges :
       e.rel \in Evidential =>
          \E c \in Lookup(e.to) : [from |-> k, rel |-> e.rel] \in Counted(c)
=============================================================================
