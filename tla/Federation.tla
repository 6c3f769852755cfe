----------------------------- MODULE Federation -----------------------------
(***************************************************************************)
(* Reads across graphs: the union of several stores                        *)
(* (src/src/federated-store.ts) and how a reference to a cell is resolved  *)
(* in it (cell-context.ts, references.ts).                                 *)
(*                                                                         *)
(* A key is a core, a sequence of characters, and the graph it is          *)
(* qualified with, or Bare.  A graph is [graph, cells, bundles]; a cell    *)
(* [key, handle, status, edges, score], a bundle [id, members, at].  What  *)
(* a store holds is bare, but keys of old exports keep the qualifier they  *)
(* had.  A score is what the search of its own store gives a cell: it      *)
(* counts words over the cells of that store, so a cell may score higher   *)
(* in one store than the same cell would in another.                       *)
(***************************************************************************)
EXTENDS Integers, Sequences, FiniteSets, SequencesExt, FiniteSetsExt

Bare == "-"

Nothing   == [found |-> FALSE]
Ambiguous == [found |-> FALSE, thrown |-> TRUE]

NoMatch == -1   \* a cell that a search does not find; a match may score 0
Found(graph, cell) == [found |-> TRUE, graph |-> graph, cell |-> cell]

-----------------------------------------------------------------------------
(* Qualified keys: encodeFederatedKey(), prefixBare() and the copies of    *)
(* cells, links and bundles that carry them                                *)

Qualified(graph, key) == IF key.graph = Bare THEN [key EXCEPT !.graph = graph] ELSE key

PrefixCell(graph, cell) ==
    [cell EXCEPT !.key = Qualified(graph, @),
                 !.edges = {[e EXCEPT !.target = Qualified(graph, @)] : e \in cell.edges}]

PrefixBundle(graph, bundle) ==
    [bundle EXCEPT !.members = {Qualified(graph, k) : k \in @}]

\* What a union is opened over: stores under names of their own, in each of
\* which a key is that of one cell, also once it is qualified.
IsKey(key) == key = [graph |-> key.graph, core |-> key.core]

IsCell(c) ==
    /\ c = [key |-> c.key, handle |-> c.handle, status |-> c.status, edges |-> c.edges, score |-> c.score]
    /\ IsKey(c.key) /\ c.score \in Nat \cup {NoMatch}

IsStore(store) ==
    /\ store.graph # Bare /\ IsFiniteSet(store.cells)
    /\ \A c \in store.cells : IsCell(c)
    /\ \A c, d \in store.cells : Qualified(store.graph, c.key) = Qualified(store.graph, d.key) => c = d
    /\ \A b \in store.bundles : b = [id |-> b.id, members |-> b.members, at |-> b.at]

IsUnion(union) ==
    /\ DOMAIN union = 1..Len(union) /\ Len(union) \in Nat
    /\ \A i \in DOMAIN union : IsStore(union[i])
    /\ \A i, j \in DOMAIN union : union[i].graph = union[j].graph => i = j

-----------------------------------------------------------------------------
(* Lookups.                                                                *)

Bared(ref) == [ref EXCEPT !.graph = Bare]

ByKey(store, ref)    == {c \in store.cells : c.key = ref}
ByHandle(store, ref) == {c \in store.cells : c.handle = ref.core /\ ref.graph = Bare}

\* A qualified reference is looked up in its graph, a bare one in each graph
\* in turn; "matches" holds what it means in each.
Lookup(union, ref, matches) ==
    LET hits  == {i \in DOMAIN union : ref.graph \in {Bare, union[i].graph} /\ matches[i] # {}}
        first == Min(hits)
    IN  IF hits = {} THEN Nothing
        ELSE Found(union[first].graph,
                   PrefixCell(union[first].graph, CHOOSE c \in matches[first] : TRUE))

GetAnywhere(union, ref) ==   \* mutant
    Lookup(union, Bared(ref), [i \in DOMAIN union |-> ByKey(union[i], Bared(ref))])
Get(union, ref) ==
    Lookup(union, ref, [i \in DOMAIN union |-> ByKey(union[i], Bared(ref))])
GetByHandle(union, ref) ==
    Lookup(union, ref, [i \in DOMAIN union |-> ByHandle(union[i], Bared(ref))])

UnionAll(union) ==
    UNION {{PrefixCell(union[i].graph, c) : c \in union[i].cells} : i \in DOMAIN union}

\* The links of a cell are those of its own graph.
LinksOf(store, key) ==
    {[cell |-> d, out |-> TRUE] : d \in {d \in store.cells :
         \E c \in ByKey(store, key) : \E e \in c.edges : e.target = d.key}}
    \cup {[cell |-> c, out |-> FALSE] : c \in {c \in store.cells :
         \E e \in c.edges : e.target = key}}

UnionNeighbors(union, ref) ==
    LET bare == Bared(ref)
        home == {i \in DOMAIN union : IF ref.graph = Bare THEN ByKey(union[i], ref) # {}
                                      ELSE union[i].graph = ref.graph}
    IN  IF home = {} THEN {}
        ELSE LET store == union[Min(home)]
             IN  {[l EXCEPT !.cell = PrefixCell(store.graph, @)] : l \in LinksOf(store, bare)}

-----------------------------------------------------------------------------
(* Lists that are merged and cut: search(), hyperedgesForCell()            *)

\* The best few of a set; of equals any may be left out.
Tops(items, limit) ==
    {best \in kSubset(Min({limit, Cardinality(items)}), items) :
        \A x \in best : \A y \in items \ best : x.score >= y.score}

Hits(store) == {c \in store.cells : c.status = "active" /\ c.score # NoMatch}

\* Each graph answers with its own best; the best of those are kept.
FederatedSearch(union, limit) ==
    LET answers == [i \in DOMAIN union |-> Tops(Hits(union[i]), limit)]
        rounds  == {r \in [DOMAIN union -> UNION {answers[i] : i \in DOMAIN union}] :
                       \A i \in DOMAIN union : r[i] \in answers[i]}
        merged(r) == UNION {{PrefixCell(union[i].graph, c) : c \in r[i]} : i \in DOMAIN union}
    IN  UNION {Tops(merged(r), limit) : r \in rounds}

BundlesOf(store, key) == {b \in store.bundles : key \in b.members}

UnionBundles(union, ref) ==
    LET bare == Bared(ref)
    IN  UNION {{PrefixBundle(union[i].graph, b) : b \in BundlesOf(union[i], bare)} :
                 i \in {i \in DOMAIN union : ref.graph \in {Bare, union[i].graph}}}

-----------------------------------------------------------------------------
(* resolveCell(): the forms in which a caller names a cell                 *)

MinPrefix == 2   \* four characters in the code

First(a, b) == IF a.found THEN a ELSE b

Matches(cell, ref) ==
    /\ IsPrefix(ref.core, cell.key.core)
    /\ ref.graph = Bare \/ cell.key.graph = Bare \/ ref.graph = cell.key.graph


Resolve(union, ref) ==
    LET bare  == Bared(ref)
        exact == First(Get(union, ref), Get(union, bare))
        named == First(GetByHandle(union, ref), GetByHandle(union, bare))
        near  == {c \in UnionAll(union) : Matches(c, ref)}
    IN  IF exact.found THEN exact
        ELSE IF named.found THEN named
        ELSE IF ~(Len(ref.core) >= MinPrefix) \/ near = {} THEN Nothing
        ELSE IF Cardinality(near) > 1 THEN Ambiguous
        ELSE LET c == CHOOSE c \in near : TRUE IN Found(c.key.graph, c)

-----------------------------------------------------------------------------
(* What the union promises *)

Plain(union) == \A i \in DOMAIN union : \A c \in union[i].cells : c.key.graph = Bare

\* Every cell that any list of the union shows is expanded, by the key it is
\* shown with, to that very cell of that very graph; and the links of it are
\* cells of its own graph.  (Cells of stores with old qualified keys are not
\* found again.)
ExpandsTo(union) ==
    Plain(union) =>
       \A i \in DOMAIN union : \A c \in union[i].cells :
          LET shown == PrefixCell(union[i].graph, c)
          IN  /\ Resolve(union, shown.key) = Found(union[i].graph, shown)
              /\ \A l \in UnionNeighbors(union, shown.key) :
                    Resolve(union, l.cell.key) = Found(union[i].graph, l.cell)
              /\ \A b \in UnionBundles(union, shown.key) : shown.key \in b.members

\* A prefix is only taken for a cell that no other cell it may mean shares, for
\* a qualified one among the cells of its graph; if several share it, the
\* caller is told.
PrefixMeansOne(union, ref) ==
    LET meant == {c \in UnionAll(union) :
                     IsPrefix(ref.core, c.key.core) /\ ref.graph \in {Bare, c.key.graph}}
        whole == \E c \in UnionAll(union) : ref.core \in {c.key.core, c.handle}
    IN  Plain(union) /\ ~whole /\ Len(ref.core) >= MinPrefix =>
           CASE meant = {}             -> Resolve(union, ref) = Nothing
             [] Cardinality(meant) > 1 -> Resolve(union, ref) = Ambiguous
             [] OTHER -> \E c \in meant : Resolve(union, ref) = Found(c.key.graph, c)

\* That each graph is asked for a few hits only loses none: no hit that is left
\* out of the answer beats one that is kept, by the scores their graphs gave
\* them.  (One store with all the cells would score them otherwise.)
MergeKeepsBest(union, limit) ==
    LET all == UNION {{PrefixCell(union[i].graph, c) : c \in Hits(union[i])} : i \in DOMAIN union}
    IN  \A found \in FederatedSearch(union, limit) : found \in Tops(all, limit)
=============================================================================
