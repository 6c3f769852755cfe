------------------------------- MODULE Health -------------------------------
(***************************************************************************)
(* The memory health engine: what analyzeMemory() finds in the first       *)
(* active cells (src/src/analysis.ts).  It writes nothing.                 *)
(*                                                                         *)
(* A store is a sequence of cells, the key of a cell is its place in it    *)
(* (0 is a key no cell has), probabilities are in hundredths, times in     *)
(* days, and 0 stands for a time that is not set.                          *)
(***************************************************************************)
EXTENDS Lists, SequencesExt, FiniteSetsExt

CONSTANT ANALYZED_POOL_CAP   \* how many cells are looked at, 1000 in the code

ASSUME HealthAssumption == ANALYZED_POOL_CAP \in Nat

Cell == [status : STRING, kind : STRING, edges : Seq([relation : STRING, target : Nat]),
         conf : Int, effective : Int, uncertainty : Int, concern : Int,
         origin : {"external", "human", "daemon", "program", "llm", "connector"}, producer : STRING,
         signed : BOOLEAN, unverified : BOOLEAN, quality : Int, updatedAt : Int, stability : STRING,
         expires : Int, reverify : Int, review : BOOLEAN, refs : Seq(Nat), programs : Seq(Nat),
         wellFormed : BOOLEAN, match : Int]

Probability(x) == Max({0, Min({100, x})})

Has(cells, key) == key \in DOMAIN cells

\* store.active(), and the cells of it that analyzeMemory() looks at.
Active(cells) == Kept([k \in DOMAIN cells |-> k], {k \in DOMAIN cells : cells[k].status = "active"})
Pool(cells)   == FirstFew(ANALYZED_POOL_CAP, Active(cells))

Listing(keys, rows(_)) == FlattenSeq([i \in DOMAIN keys |-> rows(keys[i])])

\* store.neighbors(): the links of a cell, those that leave it first.
OutLinks(cells, key) ==
    LET there == SelectSeq(cells[key].edges, LAMBDA e : Has(cells, e.target))
    IN  [i \in DOMAIN there |->
           [cell |-> there[i].target, relation |-> there[i].relation, out |-> TRUE]]
InLinks(cells, key) ==
    LET Row(k) == LET edges == cells[k].edges
                      here  == Kept(edges, {i \in DOMAIN edges : edges[i].target = key})
                  IN  [i \in DOMAIN here |-> [cell |-> k, relation |-> here[i].relation, out |-> FALSE]]
    IN  Listing([k \in DOMAIN cells |-> k], Row)
Neighbors(cells, key) == OutLinks(cells, key) \o InLinks(cells, key)

\* A chain of conditions: what the first one that holds says.
Rung(holds, says) == [holds |-> holds, says |-> says]
FirstOf(ladder) == Head(SelectSeq(ladder, LAMBDA r : r.holds)).says

Challenges == {"contradicts", "concerns"}

-----------------------------------------------------------------------------
(* beliefPressure(): the active evidence that points at a belief           *)

OriginTrust == [external |-> 120, human |-> 115, daemon |-> 100, program |-> 100,
                llm |-> 90, connector |-> 80]

Trust(cell) == Probability(OriginTrust[cell.origin] + (IF cell.signed THEN 10 ELSE 0)
                                                    - (IF cell.unverified THEN 12 ELSE 0))

Evidential(cells, links) ==
    Kept(links, {i \in DOMAIN links : /\ cells[links[i].cell].status = "active"
                                      /\ links[i].relation \in Challenges \cup {"supports"}})
EvidenceOn(cells, key) == Evidential(cells, InLinks(cells, key))

Weight(cells, evidence, relation) ==
    Total([i \in DOMAIN evidence |->
              LET from == cells[evidence[i].cell]
              IN  IF evidence[i].relation = relation
                  THEN Probability((from.effective * Trust(from)) \div 100) ELSE 0])

Pressure(cells, key) ==
    LET evidence      == EvidenceOn(cells, key)
        contradiction == Weight(cells, evidence, "contradicts")
        concerned     == Weight(cells, evidence, "concerns")
        cell          == cells[key]
    IN  [key           |-> key,
         support       |-> Weight(cells, evidence, "supports"),
         contradiction |-> contradiction,
         concerned     |-> concerned,
         planning      |-> Probability(((cell.concern + contradiction \div 4 + (15 * concerned) \div 100)
                                          * (cell.uncertainty + contradiction \div 10)) \div 100),
         recommendation |-> FirstOf(
             << Rung(contradiction >= 80 \/ cell.conf < 35, "downgrade"),
                Rung(cell.uncertainty >= 55 \/ concerned >= 80, "reverify"),
                Rung(cell.uncertainty >= 35 \/ concerned >= 40, "watch"),
                Rung(TRUE, "trust") >>)]

-----------------------------------------------------------------------------
(* The other findings *)

\* staleFinding(): the first reason that holds.
Stale(cell, key, now) ==
    LET age == now - cell.updatedAt
        severity == FirstOf(
            << Rung(cell.expires # 0 /\ cell.expires <= now, 100),
               Rung(cell.reverify # 0 /\ cell.reverify <= now, 85),
               Rung(cell.stability = "ephemeral" /\ age > 1, 70),
               Rung(cell.stability = "volatile" /\ age > 14, 55),
               Rung(cell.unverified /\ cell.quality < 40, 45),
               Rung(TRUE, 0) >>)
    IN  IF severity = 0 THEN <<>> ELSE <<[key |-> key, severity |-> severity]>>

\* contradictionFindings(): an edge names its target by key.
ChallengesBy(cells, pool, k) ==
    LET edges == cells[k].edges
        bad   == Kept(edges, {i \in DOMAIN edges : /\ edges[i].relation \in Challenges
                                                   /\ edges[i].target \in Range(pool)})
    IN  [i \in DOMAIN bad |-> [source |-> k, target |-> bad[i].target, relation |-> bad[i].relation]]

ContradictionsOfBeliefs(cells, pool) ==   \* mutant
    Listing(pool, LAMBDA k : IF cells[k].kind = "bel" THEN ChallengesBy(cells, pool, k) ELSE <<>>)
Contradictions(cells, pool) == Listing(pool, LAMBDA k : ChallengesBy(cells, pool, k))

DanglingEdges(cells, pool) ==
    LET Row(k) == SelectSeq(cells[k].edges, LAMBDA e : ~Has(cells, e.target))
    IN  Listing(pool, Row)

\* provenanceHealth(): the largest share of one origin or one producer.
Share(cells, pool, field) ==
    Max({0} \cup {Cardinality({j \in DOMAIN pool : cells[pool[j]][field] = cells[pool[i]][field]}) : i \in DOMAIN pool})

Provenance(cells, pool) ==
    LET total == Len(pool)
        Percent(n) == IF total = 0 THEN 0 ELSE (100 * n) \div total
    IN  [total         |-> total,
         signed        |-> Percent(Cardinality({i \in DOMAIN pool : cells[pool[i]].signed})),
         concentration |-> Percent(Max({Share(cells, pool, "origin"), Share(cells, pool, "producer")}))]

Load == 10

CriticalWarnings(provenance, beliefs, stale, contradictions) ==
    LET If(holds, code) == IF holds THEN {code} ELSE {}
    IN  If(provenance.signed < 10, "low-signed-coverage")
        \cup If(\E i \in DOMAIN beliefs : beliefs[i].support > 0 /\ beliefs[i].contradiction > 0,
                "active-belief-conflict")
        \cup If(Len(stale) > Load, "stale-memory-load")
        \cup If(Len(contradictions) > Load, "conflict-load")
        \cup If(provenance.concentration >= 80 /\ provenance.total >= 10, "provenance-concentration")

\* nextActions(): of the beliefs only the first one is looked at.
NextActions(beliefs, stale, contradictions, dangling) ==
    LET If(holds, action) == IF holds THEN <<action>> ELSE <<>>
        actions == If(contradictions # <<>>, "review") \o If(stale # <<>>, "reverify")
                   \o If(beliefs # <<>> /\ Head(beliefs).recommendation # "trust", "reassess")
                   \o If(dangling # <<>>, "prune")
    IN  IF actions = <<>> THEN <<"healthy">> ELSE actions

-----------------------------------------------------------------------------
BeliefsOf(cells, pool) == Kept(pool, {i \in DOMAIN pool : cells[pool[i]].kind = "bel"})
ByPlanning(pressed)    == ByRank(pressed, [i \in DOMAIN pressed |-> pressed[i].planning])

Analyze(cells, now) ==
    LET pool    == Pool(cells)
        believed == BeliefsOf(cells, pool)
        pressed == Listing(believed, LAMBDA k : <<Pressure(cells, k)>>)
        beliefs == ByPlanning(pressed)
        stale   == SortSeq(Listing(pool, LAMBDA k : Stale(cells[k], k, now)),
                           LAMBDA a, b : a.severity > b.severity)
        contradictions == Contradictions(cells, pool)
        dangling == DanglingEdges(cells, pool)
        provenance == Provenance(cells, pool)
    IN  [beliefs |-> beliefs, stale |-> stale, contradictions |-> contradictions,
         dangling |-> dangling, provenance |-> provenance,
         warnings |-> CriticalWarnings(provenance, beliefs, stale, contradictions),
         actions |-> NextActions(beliefs, stale, contradictions, dangling)]

\* memoryHealthToProposal(): the observation it files concerns the first
\* eight cells, the stale ones before the contradicted ones.
MaxTargets == 8

DistinctOnly(keys) == FoldLeft(LAMBDA seen, k : IF k \in Range(seen) THEN seen ELSE Append(seen, k), <<>>, keys)

HealthConcerns(report) ==
    LET named == DistinctOnly([i \in DOMAIN report.stale |-> report.stale[i].key]
                        \o [i \in DOMAIN report.contradictions |-> report.contradictions[i].target])
    IN  SubSeq(named, 1, Min({MaxTargets, Len(named)}))

-----------------------------------------------------------------------------
(* Properties *)

WeighsNothing(cell) == cell.effective * Trust(cell) < 100

\* An active cell that the engine does not look at challenges a belief.
BeyondPool(cells, key) ==
    \E k \in DOMAIN cells \ Range(Pool(cells)) :
        /\ cells[k].status = "active" /\ ~WeighsNothing(cells[k])
        /\ \E i \in DOMAIN cells[k].edges :
              cells[k].edges[i].target = key /\ cells[k].edges[i].relation \in Challenges

\* The two ways in which the engine walks the graph agree as far as they look
\* at the same cells.  A belief under contradiction or concern pressure has an
\* edge that challenges it among the findings, unless all that presses on it is
\* beyond the cells that are looked at: pressure counts every neighbour, the
\* findings only these.  A challenge that is found presses, unless it weighs
\* nothing.
PressureIsFound(cells, now) ==
    LET report == Analyze(cells, now)
    IN  \A i \in DOMAIN report.beliefs :
          LET belief == report.beliefs[i]
              found  == {f \in Range(report.contradictions) : f.target = belief.key}
          IN  /\ (belief.contradiction + belief.concerned > 0) =>
                    found # {} \/ BeyondPool(cells, belief.key)
              /\ (belief.contradiction + belief.concerned = 0) =>
                   \A f \in found : WeighsNothing(cells[f.source])
=============================================================================
