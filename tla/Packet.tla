------------------------------- MODULE Packet -------------------------------
(***************************************************************************)
(* The context packet: compileContext() (src/src/compile.ts) over the      *)
(* search hits that fuseCandidates() ranks (src/src/retrieval.ts).         *)
(*                                                                         *)
(* A packet is a function from its sections to their lines; a line is a    *)
(* word that says what it tells and the keys it names, and its length in   *)
(* words depends on its section only.                                      *)
(***************************************************************************)
EXTENDS Health

-----------------------------------------------------------------------------
(* fuseCandidates(): scores in thousandths *)

WideLimit == 30

Log1p   == <<0, 693, 1099, 1386, 1609, 1792, 1946, 2079, 2197, 2303, 2398, 2485, 2565, 2639>>   \* of 0, 1, ...
Recency == <<100, 37, 14, 5>>   \* after 0, 30, 60 and 90 days

Degree(cells, key) == Len(Neighbors(cells, key))
Collapsed(cell)    == 2 * cell.effective < cell.conf

\* The hits of Store.search(): the active cells that match, best first.
WideHits(cells) ==
    FirstFew(WideLimit, SortSeq(SelectSeq(Active(cells), LAMBDA k : cells[k].match > 0),
                                LAMBDA a, b : cells[a].match > cells[b].match))

\* Best first, of equals the newer one.
Ranked(cells, hits, score) ==
    SortSeq(hits, LAMBDA a, b :
        \/ score[a] > score[b]
        \/ /\ score[a] = score[b]
           /\ \/ cells[a].updatedAt > cells[b].updatedAt
              \/ cells[a].updatedAt = cells[b].updatedAt /\ a < b)

Fused(cells, limit, now) ==
    LET hits      == WideHits(cells)
        best      == Max({0} \cup {cells[k].match : k \in Range(hits)})
        maxDegree == Max({0} \cup {Degree(cells, k) : k \in Range(hits)})
        Lexical(k) == ((IF cells[k].kind = "ref" THEN 150 ELSE 1000) * cells[k].match) \div best
        Linked(k)  == IF maxDegree = 0 THEN 0
                      ELSE (250 * Log1p[Degree(cells, k) + 1]) \div Log1p[maxDegree + 1]
        Believed(k) == (150 * cells[k].effective) \div 100
        Recent(k)  == Recency[1 + Min({3, Max({0, now - cells[k].updatedAt}) \div 30})]
    IN  FirstFew(limit, Ranked(cells, hits,
                    [k \in Range(hits) |-> Lexical(k) + Linked(k) + Believed(k) + Recent(k)]))

-----------------------------------------------------------------------------
(* walkAuthoredGraph(): breadth first over the links, in both directions   *)

WalkOrder == <<"supersedes", "depends_on", "contradicts", "concerns", "supports", "derived_from">>
RankIn(order, relation) == Min({Len(order) + 1} \cup {i \in DOMAIN order : order[i] = relation})

WalkLinks(cells, key) ==
    SortSeq(Neighbors(cells, key), LAMBDA a, b :
        \/ RankIn(WalkOrder, a.relation) < RankIn(WalkOrder, b.relation)
        \/ RankIn(WalkOrder, a.relation) = RankIn(WalkOrder, b.relation) /\ a.cell < b.cell)

\* "seen" is what a node is checked against before it is taken up.
Step(cells, cap, walk, trail, link) ==
    IF Len(walk.out) >= cap \/ cells[link.cell].status # "active" \/ link.cell \in walk.seen
    THEN walk
    ELSE LET on == Append(trail, link.cell)
         IN  [walk EXCEPT !.seen = @ \cup {link.cell}, !.out = Append(@, on), !.queue = Append(@, on)]

Walking == [seen : SUBSET Nat, out : Seq(Seq(Nat)), queue : Seq(Seq(Nat))]

Spread(cells, depth, cap, start) ==
    LET spread[walk \in Walking] ==
            IF walk.queue = <<>> \/ Len(walk.out) >= cap THEN walk.out
            ELSE LET trail == Head(walk.queue)
                     rest  == [walk EXCEPT !.queue = Tail(@)]
                 IN  spread[IF Len(trail) > depth THEN rest
                            ELSE FoldLeft(LAMBDA w, l : Step(cells, cap, w, trail, l),
                                          rest, WalkLinks(cells, Last(trail)))]
    IN  spread[start]

\* The paths along which cells that were not hits are found.
Walk(cells, seeds, depth, cap) ==
    IF depth <= 0 \/ cap <= 0 THEN <<>>
    ELSE Spread(cells, depth, cap, [seen |-> Range(seeds), out |-> <<>>,
                                    queue |-> [i \in DOMAIN seeds |-> <<seeds[i]>>]])

-----------------------------------------------------------------------------
(* The lines a cell gives rise to, each with the section it is pushed to.  *)

Line(says, keys)   == [says |-> says, keys |-> keys]
To(section, line)  == <<[to |-> section, line |-> line]>>
Handle(key)        == To("expansionHandles", Line("key", <<key>>))
If(holds, pushes)  == IF holds THEN pushes ELSE <<>>

SectionOf == [bel |-> "activeBeliefs", rsk |-> "risks", tsk |-> "tasks", obj |-> "tasks",
              dec |-> "relevantMemory", prg |-> "relevantMemory", obs |-> "relevantMemory",
              ref |-> "relevantMemory", hyp |-> "relevantMemory", ver |-> "relevantMemory"]

Placed(cells, key)    == To(SectionOf[cells[key].kind], Line("hit", <<key>>))
CellState(cells, key) == To("cellState", Line("state", <<key, Len(InLinks(cells, key))>>))

IncomingChallenges(cells, key) ==
    LET Row(l) == If(cells[l.cell].status = "active" /\ l.relation \in Challenges,
                     To("conflicts", Line(l.relation, <<l.cell, key>>)) \o Handle(l.cell))
    IN  Listing(InLinks(cells, key), Row)

Dependencies(cells, key) ==
    LET Row(e) == If(e.relation = "depends_on" /\ Has(cells, e.target),
                     To("dependencies", Line(cells[e.target].status, <<key, e.target>>)) \o Handle(e.target))
    IN  Listing(cells[key].edges, Row)

StandingPrograms(cells, key) ==
    LET Row(p) == If(Has(cells, p) /\ cells[p].status = "active" /\ cells[p].kind = "prg" /\ cells[p].wellFormed,
                     To("standingPrograms", Line("guards", <<p, key>>)))
    IN  Listing(cells[key].programs, Row)

TranslatedOrder == <<"depends_on", "supports", "contradicts", "concerns">>
ReferenceCap    == 6

\* Edges in the order of their relations, then the references to fields of
\* other cells; all of them can be expanded, the first six are lines.
TranslatedReferences(cells, opts, key) ==
    LET cell    == cells[key]
        ordered == Listing(TranslatedOrder, LAMBDA r : SelectSeq(cell.edges, LAMBDA e : e.relation = r))
        refs    == SelectSeq(cell.refs, LAMBDA r : Has(cells, r))
        lines   == [i \in DOMAIN ordered |-> Line(ordered[i].relation, <<key, ordered[i].target>>)]
                   \o [i \in DOMAIN refs |-> Line("ref", <<key, refs[i]>>)]
        named   == SelectSeq([i \in DOMAIN ordered |-> ordered[i].target], LAMBDA t : Has(cells, t)) \o refs
    IN  Listing(named, Handle)
        \o If(opts.parameters, Listing(refs, LAMBDA r : To("referenceParameters", Line("value", <<key, r>>))))
        \o Listing(FirstFew(ReferenceCap, lines),
                   LAMBDA l : To("translatedReferences", l))
        \o If(Len(lines) > ReferenceCap, To("translatedReferences", Line("more", <<key, Len(lines)>>)))

LowTrust(cells, key) ==
    LET cell == cells[key]
    IN  If(cell.review \/ cell.reverify # 0 \/ cell.expires # 0 \/ Collapsed(cell),
           To("staleOrLowTrust", Line("low", <<key>>)))

OfHit(cells, opts, key) ==
    Placed(cells, key) \o CellState(cells, key) \o Handle(key)
    \o If(opts.conflicts, IncomingChallenges(cells, key))
    \o Dependencies(cells, key) \o StandingPrograms(cells, key)
    \o TranslatedReferences(cells, opts, key) \o LowTrust(cells, key)

OfWalked(cells, opts, trail) ==
    LET key == Last(trail)
    IN  Handle(key) \o To("translatedReferences", Line("path", trail)) \o CellState(cells, key)
        \o Dependencies(cells, key) \o StandingPrograms(cells, key)
        \o TranslatedReferences(cells, opts, key) \o LowTrust(cells, key)

\* surfaceHealth(): the six worst of each finding, four actions.
OfHealth(opts, report) ==
    Listing(FirstFew(6, SelectSeq(report.beliefs, LAMBDA b : b.recommendation # "trust")),
            LAMBDA b : To("activeBeliefs", Line("pressed", <<b.key>>)))
    \o Listing(FirstFew(6, report.contradictions),
               LAMBDA c : To("conflicts", Line(c.relation, <<c.source, c.target>>)))
    \o Listing(FirstFew(6, report.stale), LAMBDA s : To("staleOrLowTrust", Line("stale", <<s.key>>)))
    \o If(opts.actions, Listing(FirstFew(4, report.actions),
                                LAMBDA a : To("suggestedNextActions", Line(a, <<>>))))

-----------------------------------------------------------------------------
(* The packet *)

Words == [relevantMemory |-> 7, activeBeliefs |-> 7, conflicts |-> 6, dependencies |-> 6, risks |-> 7,
          tasks |-> 7, cellState |-> 4, standingPrograms |-> 7, translatedReferences |-> 5,
          referenceParameters |-> 8, staleOrLowTrust |-> 3, suggestedNextActions |-> 12,
          expansionHandles |-> 1, expansionIndex |-> 4]
FixedWords == 30   \* the objective and the compiler's own state

Empty == [section \in DOMAIN Words |-> <<>>]

\* pushUnique()
Pushed(packet, pushes) ==
    FoldLeft(LAMBDA p, push : IF push.line \in Range(p[push.to]) THEN p
                              ELSE [p EXCEPT ![push.to] = Append(@, push.line)], packet, pushes)

PacketWords(packet) ==
    LET listed == DOMAIN Words \ {IF packet.expansionIndex = <<>> THEN "expansionIndex" ELSE "expansionHandles"}
    IN  FixedWords + MapThenSumSet(LAMBDA s : Words[s] * Len(packet[s]), listed)

ExpansionOrder == <<"dec", "bel", "tsk", "obj", "rsk", "obs", "ver", "ref", "hyp", "prg">>

ExpansionIndex(cells, handles) ==
    Listing(ExpansionOrder, LAMBDA kind : SelectSeq(handles, LAMBDA l : cells[l.keys[1]].kind = kind))

ConflictsTrimmed == <<"conflicts", "referenceParameters", "cellState", "relevantMemory",
                      "expansionIndex">>   \* mutant
\* Conflicts and standing programs are not in this list.
TrimOrder == <<"referenceParameters", "cellState", "translatedReferences", "relevantMemory",
               "activeBeliefs", "tasks", "risks", "dependencies", "staleOrLowTrust",
               "suggestedNextActions", "expansionIndex">>

\* The last line of the first section that has more than one is taken out.
Shortened(packet, budget) ==
    LET long == SelectSeq(TrimOrder, LAMBDA s : Len(packet[s]) > 1)
    IN  IF PacketWords(packet) <= budget \/ long = <<>> THEN packet
        ELSE [packet EXCEPT ![Head(long)] = Front(@)]

TrimPacket(packet, budget) ==
    LET trimmed[p \in [DOMAIN Words -> Seq([says : STRING, keys : Seq(Nat)])]] ==
            LET next == Shortened(p, budget)
            IN  IF next = p THEN p ELSE trimmed[next]
    IN  trimmed[packet]

\* The options, within their bounds.
Budget(opts)    == Max({80, opts.budget})
Depth(opts)     == Max({0, Min({4, opts.depth})})
MaxWalked(opts) == Max({3 * opts.limit, 12})

\* The hits that are surfaced: after each one the budget is looked at.
Surfaced(cells, opts, hits) ==
    FoldLeft(LAMBDA s, k :
                IF s.full THEN s
                ELSE LET packet == Pushed(s.packet, OfHit(cells, opts, k))
                     IN  [packet |-> packet, shown |-> Append(s.shown, k),
                          full |-> PacketWords(packet) >= Budget(opts)],
             [packet |-> Empty, shown |-> <<>>, full |-> FALSE], hits)

Gathered(cells, opts, now, hits) ==
    Pushed(Surfaced(cells, opts, hits).packet,
           Listing(Walk(cells, hits, Depth(opts), MaxWalked(opts)),
                   LAMBDA trail : OfWalked(cells, opts, trail))
           \o If(opts.health, OfHealth(opts, Analyze(cells, now))))

Advised(opts, packet) ==
    IF opts.actions /\ packet.suggestedNextActions = <<>>
    THEN [packet EXCEPT !.suggestedNextActions = <<Line("expand", <<>>)>>] ELSE packet

Indexed(cells, packet) ==
    [packet EXCEPT !.expansionIndex = ExpansionIndex(cells, packet.expansionHandles)]

CompileContext(cells, opts, now) ==
    TrimPacket(Indexed(cells, Advised(opts, Gathered(cells, opts, now, Fused(cells, opts.limit, now)))),
               Budget(opts))

-----------------------------------------------------------------------------
(* Properties *)

\* The cells at most "depth" links from the seeds, over active cells.
Within(cells, from, depth) ==
    LET Onward(set) == {l.cell : l \in {l \in UNION {Range(Neighbors(cells, k)) : k \in set} :
                                           cells[l.cell].status = "active"}}
        within[d \in 0..depth] == IF d = 0 THEN from ELSE within[d - 1] \cup Onward(within[d - 1])
    IN  within[depth]

\* walkAuthoredGraph() finds every active cell that is within reach of the
\* hits, exactly once, as long as the cap allows.
FindsAll(cells, seeds, depth, found) ==
    /\ {Last(found[i]) : i \in DOMAIN found} = Within(cells, Range(seeds), depth) \ Range(seeds)
    /\ \A i \in DOMAIN found, j \in DOMAIN found : Last(found[i]) = Last(found[j]) => i = j

WalkReaches(cells, opts, seeds) ==
    FindsAll(cells, seeds, Depth(opts), Walk(cells, seeds, Depth(opts), MaxWalked(opts)))

\* However small the budget, the packet tells of every active cell that
\* challenges a hit it surfaced, and the challenger can be expanded.
ChallengesSurvive(cells, opts, hits, packet) ==
    opts.conflicts =>
       \A k \in Range(Surfaced(cells, opts, hits).shown) : \A l \in Range(InLinks(cells, k)) :
          (cells[l.cell].status = "active" /\ l.relation \in Challenges) =>
             /\ Line(l.relation, <<l.cell, k>>) \in Range(packet.conflicts)
             /\ Line("key", <<l.cell>>) \in Range(packet.expansionHandles)

\* A packet is over its budget only if nothing more can be taken from it:
\* every section that may be cut is down to one line.
FitsOrMinimal(opts, packet) ==
    PacketWords(packet) > Budget(opts) =>
       \A section \in DOMAIN Words \ {"conflicts", "standingPrograms", "expansionHandles"} :
          Len(packet[section]) <= 1

PacketIsWhole(cells, opts, hits, packet) ==
    /\ WalkReaches(cells, opts, hits)
    /\ ChallengesSurvive(cells, opts, hits, packet)
    /\ FitsOrMinimal(opts, packet)

PacketTellsAll(cells, opts, now) ==
    PacketIsWhole(cells, opts, Fused(cells, opts.limit, now), CompileContext(cells, opts, now))
=============================================================================
