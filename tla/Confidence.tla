----------------------------- MODULE Confidence -----------------------------
(***************************************************************************)
(* The arithmetic of belief: effective confidence, currency and salience   *)
(* (src/src/scores.ts), the evidence they weigh (mass.ts), the tick that   *)
(* recomputes them (operator.ts) and the calibration of actors (actors.ts, *)
(* calibration.ts).                                                        *)
(*                                                                         *)
(* Numbers are in hundredths and times in days; tanh and exp are tables.   *)
(* A store is a sequence of cells, the key of a cell is its place in it.   *)
(***************************************************************************)
EXTENDS Lists, SequencesExt, FiniteSetsExt

Belief == [status : STRING, conf : Int, calibration : Int, effective : Int, currencyC0 : Int,
           currency : Int, salienceSeed : Int, salience : Int, updatedAt : Int, salientAt : Int,
           stability : STRING, pinned : BOOLEAN, producer : STRING,
           edges : Seq([relation : STRING, target : Nat, weight : Int])]

Clamp(x) == Max({0, Min({100, x})})

TanhTable  == <<0, 24, 46, 64, 76, 85, 91, 94, 96>>   \* at 0, 0.25, 0.5, ...
DecayTable == <<100, 37, 14, 5, 2>>                   \* exp(-n) at 0, 1, 2, ...

Nth(table, n)   == table[Min({Len(table), n + 1})]
Tanh(mass)      == Nth(TanhTable, mass \div 25)
Decay(dt, tau)  == Nth(DecayTable, dt \div tau)

EffectiveConfidence(stated, calibration, mass) ==
    Clamp((stated * calibration) \div 100 + (15 * Tanh(mass.support)) \div 100
                                          - (60 * Tanh(mass.challenge)) \div 100)

CurrencyFloor == 10
Currency(c0, dt, tau) == CurrencyFloor + ((c0 - CurrencyFloor) * Decay(dt, tau)) \div 100

SalienceTau   == 30
SalienceFloor == 5
SalienceGain  == 20
SalienceDecay(seed, dt) == SalienceFloor + ((seed - SalienceFloor) * Decay(dt, SalienceTau)) \div 100
SalienceBump(seed)      == Clamp(seed + ((100 - seed) * SalienceGain) \div 100)

Tau == [stable |-> 3650, volatile |-> 30, ephemeral |-> 7]

\* Store.touchSalience(): a retrieval is the anchor of what decays next.
TouchSalience(cells, key, now) ==
    LET seed == SalienceBump(cells[key].salienceSeed)
    IN  [cells EXCEPT ![key].salienceSeed = seed, ![key].salience = seed, ![key].salientAt = now]

-----------------------------------------------------------------------------
(* neighborMass() and recompute() *)

\* What each edge says of a cell, for it or against it, whatever the status of
\* the cell it comes from.
Evidence(cells, key) ==
    FlattenSeq([k \in DOMAIN cells |->
        LET from == cells[k]
        IN  [i \in DOMAIN from.edges |->
                IF from.edges[i].target = key /\ from.edges[i].weight # 0
                THEN from.edges[i].weight * from.effective ELSE 0]])

NeighborMass(cells, key) ==
    LET said == Evidence(cells, key)
    IN  [support   |-> Total([i \in DOMAIN said |-> Max({0, said[i]})]) \div 100,
         challenge |-> Total([i \in DOMAIN said |-> Max({0, -said[i]})]) \div 100]

RecomputeOnward(cells, key, now) ==   \* mutant
    LET cell  == cells[key]
        dt    == Max({0, now - cell.updatedAt})
        decayed == IF cell.pinned THEN cell
                   ELSE [cell EXCEPT !.currency = Currency(cell.currency, dt, Tau[cell.stability]),
                                     !.salience = SalienceDecay(cell.salience, dt)]
    IN  [decayed EXCEPT !.effective =
            EffectiveConfidence(cell.conf, cell.calibration, NeighborMass(cells, key))]
\* A pinned cell keeps its currency and its salience; updatedAt is kept.
Recompute(cells, key, now) ==
    LET cell    == cells[key]
        dt      == Max({0, now - cell.updatedAt})
        idle    == Max({0, now - IF cell.salientAt = 0 THEN cell.updatedAt ELSE cell.salientAt})
        decayed == IF cell.pinned THEN cell
                   ELSE [cell EXCEPT !.currency = Currency(cell.currencyC0, dt, Tau[cell.stability]),
                                     !.salience = SalienceDecay(cell.salienceSeed, idle)]
    IN  [decayed EXCEPT !.effective =
            EffectiveConfidence(cell.conf, cell.calibration, NeighborMass(cells, key))]

\* Every active cell, from the scores as they were before the tick.
Tick(cells, now) ==
    [k \in DOMAIN cells |-> IF cells[k].status = "active" THEN Recompute(cells, k, now) ELSE cells[k]]

-----------------------------------------------------------------------------
(* actorCalibrationFactor() *)

HasActiveContradiction(cells, key) ==
    \E k \in DOMAIN cells : /\ cells[k].status = "active"
                            /\ \E e \in Range(cells[k].edges) : e.target = key /\ e.relation = "contradicts"

Outcome(cells, key) ==
    [confidence   |-> cells[key].conf,
     contradicted |-> cells[key].status = "superseded" \/ HasActiveContradiction(cells, key)]

WrittenBy(cells, actor) == {k \in DOMAIN cells : cells[k].producer = actor}

SquaredError(o) == (o.confidence - IF o.contradicted THEN 0 ELSE 100)
                   * (o.confidence - IF o.contradicted THEN 0 ELSE 100)

\* 100 times the mean squared error over what an actor wrote.
BrierScore(cells, actor) ==
    Total([k \in DOMAIN cells |->
              IF cells[k].producer = actor THEN SquaredError(Outcome(cells, k)) ELSE 0])
        \div (100 * Cardinality(WrittenBy(cells, actor)))

MinOutcomes == 3

CalibrationFactor(cells, actor) ==
    IF Cardinality(WrittenBy(cells, actor)) < MinOutcomes THEN 100
    ELSE Max({50, 100 - BrierScore(cells, actor)})

-----------------------------------------------------------------------------
(* Properties *)

Ticks(cells, now, most) ==
    LET after[n \in 0..most] == IF n = 0 THEN cells ELSE Tick(after[n - 1], now)
    IN  after[most]

\* The cells whose evidence reaches a set of cells in so many steps.
BearsOn(cells, set) ==
    {k \in DOMAIN cells : \E e \in Range(cells[k].edges) : e.weight # 0 /\ e.target \in set}

\* A cell is in every set that holds what bears on it, and what bears on that.
BearsOnItself(cells, key) ==
    \A S \in SUBSET DOMAIN cells :
        BearsOn(cells, {key}) \cup BearsOn(cells, S) \subseteq S => key \in S

\* "Repeated cycles are always safe": where no cell bears on itself, as many
\* ticks as there are cells bring the scores to rest; one is not enough.
TickSettles(cells, now) ==
    (\A key \in DOMAIN cells : ~BearsOnItself(cells, key)) =>
        LET settled == Ticks(cells, now, Len(cells))
        IN  Tick(settled, now) = settled

\* Decay never compounds: whatever ticks ran in between, the currency and
\* the salience of a cell are those of one tick now.
NeverCompounds(cells, touched, earlier, now) ==
    LET between == TouchSalience(cells, touched, earlier)
        once    == Tick(between, now)
        twice   == Tick(Tick(between, earlier), now)
    IN  \A k \in DOMAIN cells : /\ once[k].currency = twice[k].currency
                                /\ once[k].salience = twice[k].salience

\* Being corrected never earns an actor trust: when a cell of its own that it
\* was rather sure of is superseded, its factor does not rise, unless that
\* cell was itself what contradicted another cell of the same actor.
CorrectionNeverRewards(cells, key) ==
    LET actor     == cells[key].producer
        corrected == [cells EXCEPT ![key].status = "superseded"]
    IN  (/\ cells[key].conf >= 50
         /\ \A e \in Range(cells[key].edges) : 
              e.relation = "contradicts" => e.target \in DOMAIN cells /\ cells[e.target].producer # actor)
            => CalibrationFactor(corrected, actor) <= CalibrationFactor(cells, actor)
=============================================================================
