------------------------------ MODULE Overlays ------------------------------
(***************************************************************************)
(* Directed graphs that have to be acyclic: DAG overlays and what is filed *)
(* about them (src/src/dag.ts, derivation.ts), and the depends_on edges    *)
(* that an eval checks (evals.ts).                                         *)
(*                                                                         *)
(* Nodes are numbers, so that sorting them is sorting numbers; an edge is  *)
(* a record of its source, its target and its label, and edges come in the *)
(* order they were written.                                                *)
(***************************************************************************)
EXTENDS Lists, SequencesExt, FiniteSetsExt

CONSTANT ACTIVE_CAP   \* how many cells an eval examines, 1000 in the code

ASSUME ExaminedAssumption == ACTIVE_CAP \in Nat

Link    == [source : Nat, target : Nat, label : STRING]
Overlay == [nodes : Seq(Nat), edges : Seq(Link)]

NodesOf(overlay) ==
    Range(overlay.nodes) \cup UNION {{e.source, e.target} : e \in Range(overlay.edges)}

-----------------------------------------------------------------------------
(* analyzeDagOverlay() *)

\* Edges into a node from a set of nodes; parallel edges count each.
Between(edges, from, node) ==
    Cardinality({i \in DOMAIN edges : edges[i].source \in from /\ edges[i].target = node})

\* Kahn's algorithm, the smallest ready node first.
Ready(edges, left) == {n \in left : Between(edges, left, n) = 0}

Drain(edges, nodes) ==
    LET order[n \in 0..Cardinality(nodes)] ==
            IF n = 0 THEN <<>>
            ELSE LET so_far == order[n - 1]
                     ready  == Ready(edges, nodes \ Range(so_far))
                 IN  IF ready = {} THEN so_far ELSE Append(so_far, Min(ready))
    IN  order[Cardinality(nodes)]

OrderOf(overlay) == Drain(overlay.edges, NodesOf(overlay))

AnyOrderIsDag(overlay) == OrderOf(overlay) # <<>>   \* mutant
IsDag(overlay) == Len(OrderOf(overlay)) = Cardinality(NodesOf(overlay))

\* A depth-first walk.  It reports the loop where it meets its own stack; a
\* node is left once its edges were followed, one after another.  No stack is
\* longer than there are nodes: so many levels are above the last visit.
Walks == [cycles : Seq(Seq(Nat)), stack : Seq(Nat), visited : SUBSET Nat]

Meet(walk, node) ==
    LET first == CHOOSE i \in DOMAIN walk.stack : walk.stack[i] = node
        loop  == Append(SubSeq(walk.stack, first, Len(walk.stack)), node)
    IN  [walk EXCEPT !.cycles = Append(@, loop)]

Along(edges, node, visit, walk) ==
    LET after[i \in 0..Len(edges)] ==
            IF i = 0 THEN [walk EXCEPT !.stack = Append(@, node)]
            ELSE IF edges[i].source = node THEN visit[edges[i].target][after[i - 1]]
            ELSE after[i - 1]
    IN  after[Len(edges)]

Leave(walk, node) == [walk EXCEPT !.stack = Front(@), !.visited = @ \cup {node}]

Visit(edges, levels) ==
    LET visit[n \in 0..levels] == [node \in Nat |-> [walk \in Walks |->
            IF node \in Range(walk.stack) THEN Meet(walk, node)
            ELSE IF node \in walk.visited \/ n = 0 THEN walk
            ELSE Leave(Along(edges, node, visit[n - 1], walk), node)]]
    IN  visit[levels]

Unvisited == [cycles |-> <<>>, stack |-> <<>>, visited |-> {}]

\* What a walk from each of these nodes in turn reports.
CyclesFrom(edges, nodes) ==
    LET visit == Visit(edges, Cardinality(Range(nodes)))
        after[i \in 0..Len(nodes)] == IF i = 0 THEN Unvisited ELSE visit[nodes[i]][after[i - 1]]
    IN  after[Len(nodes)].cycles

\* A set of nodes lists them as they were added to it.
Listed(overlay) ==
    overlay.nodes \o [i \in 1..(2 * Len(overlay.edges)) |->
                        LET e == overlay.edges[(i + 1) \div 2]
                        IN  IF i % 2 = 1 THEN e.source ELSE e.target]

Cycles(overlay) == Range(CyclesFrom(overlay.edges, Listed(overlay)))

\* The simple paths from a node, as sequences of edges, up to a depth.
MaxDepth == 6

PathsFrom(edges, from) ==
    LET Seen(path) == {from} \cup {edges[path[i]].target : i \in DOMAIN path}
        End(path)  == IF path = <<>> THEN from ELSE edges[path[Len(path)]].target
        On(path)   == {i \in DOMAIN edges : edges[i].source = End(path) /\ edges[i].target \notin Seen(path)}
        paths[n \in 0..MaxDepth] ==
            IF n = 0 THEN {<<>>}
            ELSE paths[n - 1] \cup UNION {{Append(p, i) : i \in On(p)} : p \in paths[n - 1]}
    IN  paths[MaxDepth]

Signature(edges, path) == [i \in DOMAIN path |-> edges[path[i]].label]

\* Two ends that paths with different labels connect, and how much of a
\* concern that is: signatures out of paths.
Witnesses(overlay) ==
    LET edges == overlay.edges
        Between2(from, to) == {p \in PathsFrom(edges, from) :
                                 p # <<>> /\ edges[p[Len(p)]].target = to}
        Story(from, to) ==
            LET paths == Between2(from, to)
                signs == {Signature(edges, p) : p \in paths}
            IN  [from |-> from, to |-> to, signatures |-> signs, paths |-> Cardinality(paths),
                 concern |-> <<Cardinality(signs), Max({2, Cardinality(paths)})>>]
    IN  {w \in {Story(from, to) : from \in NodesOf(overlay), to \in NodesOf(overlay)} :
           Cardinality(w.signatures) > 1}

Analysis(overlay) ==
    [isDag     |-> IsDag(overlay),
     order     |-> IF IsDag(overlay) THEN OrderOf(overlay) ELSE <<>>,
     cycles    |-> IF IsDag(overlay) THEN {} ELSE Cycles(overlay),
     witnesses |-> IF IsDag(overlay) THEN Witnesses(overlay) ELSE {}]

-----------------------------------------------------------------------------
(* dagAnalysisToKeyedProposals() and addDagOverlay() *)

\* What an analysis files: an observation for each witness, a risk that
\* concerns its ends where the concern reaches one half, and a risk that
\* concerns its members for each cycle.
Filed(analysis) ==
    {[kind |-> "obs", about |-> w, concerns |-> {}] : w \in analysis.witnesses}
    \cup {[kind |-> "rsk", about |-> w, concerns |-> {w.from, w.to}] :
            w \in {v \in analysis.witnesses : 2 * v.concern[1] >= v.concern[2]}}
    \cup {[kind |-> "rsk", about |-> c, concerns |-> Range(c)] : c \in analysis.cycles}

\* A reference to a cell is its key, or a handle: cells are 1..n, and 10 + k
\* is the handle of cell k.
Resolved(cells, ref) == IF ref \in cells THEN ref ELSE ref - 10

Refused == [stored |-> FALSE]

AddUnresolved(cells, input) ==   \* mutant
    LET refs == Range(input.nodes) \cup UNION {{e.source, e.target} : e \in Range(input.edges)}
    IN  IF (\E ref \in refs : Resolved(cells, ref) \notin cells) \/ ~IsDag(input) THEN Refused
        ELSE [stored |-> TRUE,
              nodes |-> [i \in DOMAIN input.nodes |-> Resolved(cells, input.nodes[i])],
              edges |-> [i \in DOMAIN input.edges |->
                           [input.edges[i] EXCEPT !.source = Resolved(cells, @),
                                                  !.target = Resolved(cells, @)]]]
AddOverlay(cells, input) ==
    LET refs      == Range(input.nodes) \cup UNION {{e.source, e.target} : e \in Range(input.edges)}
        candidate == [stored |-> TRUE,
              nodes |-> [i \in DOMAIN input.nodes |-> Resolved(cells, input.nodes[i])],
              edges |-> [i \in DOMAIN input.edges |->
                           [input.edges[i] EXCEPT !.source = Resolved(cells, @),
                                                  !.target = Resolved(cells, @)]]]
    IN  IF (\E ref \in refs : Resolved(cells, ref) \notin cells) \/ ~IsDag(candidate) THEN Refused
        ELSE candidate

-----------------------------------------------------------------------------
(* The evals on the graph: dependsOnAcyclic() and edgeTargetsResolve() *)

\* Of the active cells, in the order the store lists them, the first ones.
Examined(active) == FirstFew(ACTIVE_CAP, active)

\* Only depends_on edges between these cells, named by key, are followed.
Followed(keys, edges) ==
    Kept(edges, {i \in DOMAIN edges : /\ edges[i].label = "depends_on"
                                      /\ {edges[i].source, edges[i].target} \subseteq keys})

\* The walk along what is followed; only whether an edge leads back counts.
DependsOnAcyclic(active, edges) ==
    LET examined == Examined(active)
    IN  CyclesFrom(Followed(Range(examined), edges), examined) = <<>>

Dangling(active, cells, edges) ==
    {e \in Range(edges) : e.source \in Range(Examined(active)) /\ Resolved(cells, e.target) \notin cells}
EdgeTargetsResolve(active, cells, edges) == Dangling(active, cells, edges) = {}

-----------------------------------------------------------------------------
(* Properties *)

\* What a set of nodes reaches, by one edge or more.
Reached(edges, from, most) ==
    LET Onward(set) == {e.target : e \in {e \in edges : e.source \in set}}
        reached[n \in 0..most] == IF n = 0 THEN {} ELSE Onward(from \cup reached[n - 1])
    IN  reached[most]

Acyclic(nodes, edges) == \A n \in nodes : n \notin Reached(edges, {n}, Cardinality(nodes))

\* An overlay is called a DAG exactly if no node reaches itself, and then the
\* order it is given holds each node once, sources before targets.
OrderIsRight(overlay) ==
    LET found == Analysis(overlay)
    IN  /\ found.isDag = Acyclic(NodesOf(overlay), Range(overlay.edges))
        /\ found.isDag =>
             /\ Range(found.order) = NodesOf(overlay) /\ IsInjective(found.order)
             /\ \A e \in Range(overlay.edges) : \E i, j \in DOMAIN found.order :
                   i < j /\ found.order[i] = e.source /\ found.order[j] = e.target

\* An overlay that is no DAG has a cycle to show, and every cycle it shows,
\* which becomes a risk that concerns its members, is one.
CyclesAreReal(overlay) ==
    LET found == Analysis(overlay)
    IN  /\ ~found.isDag => found.cycles # {}
        /\ \A c \in found.cycles :
             /\ Len(c) > 1 /\ Head(c) = Last(c)
             /\ \A i \in 1..(Len(c) - 1) :
                   \E e \in Range(overlay.edges) : e.source = c[i] /\ e.target = c[i + 1]

\* Two nodes are witnessed exactly if trails of up to six edges with different
\* labels lead from one to the other, and a risk that is filed concerns nodes of the overlay.
WitnessesAreReal(overlay) ==
    LET edges  == overlay.edges
        found  == Analysis(overlay)
        trails == {t \in SeqOf(DOMAIN edges, MaxDepth) \ {<<>>} :
                     \A i \in 1..(Len(t) - 1) : edges[t[i]].target = edges[t[i + 1]].source}
        apart  == {p \in trails \X trails :
                     /\ edges[Head(p[1])].source = edges[Head(p[2])].source
                     /\ edges[Last(p[1])].target = edges[Last(p[2])].target
                     /\ Signature(edges, p[1]) # Signature(edges, p[2])}
    IN  /\ found.isDag => {<<w.from, w.to>> : w \in found.witnesses} =
                             {<<edges[Head(p[1])].source, edges[Last(p[1])].target>> : p \in apart}
        /\ \A f \in Filed(found) : f.concerns \subseteq NodesOf(overlay)

\* What is stored is acyclic over cells that exist, in whatever mixture of keys
\* and handles the overlay was given, and would pass the evals.
StoredIsAcyclic(cells, input) ==
    LET stored == AddOverlay(cells, input)
    IN  stored.stored =>
          /\ NodesOf(stored) \subseteq cells
          /\ Acyclic(NodesOf(stored), Range(stored.edges))
          /\ EdgeTargetsResolve(SetToSeq(cells), cells, stored.edges)
          /\ DependsOnAcyclic(SetToSeq(cells), stored.edges)

\* The eval fails exactly if an examined cell depends on itself through examined
\* cells.  So it raises no false alarm over the active cells, but a cycle that
\* leaves the first of them, in whatever order they come, goes unnoticed; cells
\* that were superseded do not count.
EvalFindsCycles(active, edges) ==
    LET Among(keys) == {e \in Range(edges) : e.label = "depends_on" /\ {e.source, e.target} \subseteq keys}
        Holds(keys) == Acyclic(keys, Among(keys))
    IN  /\ DependsOnAcyclic(active, edges) = Holds(Range(Examined(active)))
        /\ Holds(Range(active)) => DependsOnAcyclic(active, edges)
=============================================================================
