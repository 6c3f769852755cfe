------------------------------ MODULE Programs ------------------------------
(***************************************************************************)
(* What a standing program computes (src/src/programs.ts): which cells it  *)
(* is about, and the output of each of its operations over them.  A        *)
(* program is a pure function of its members and of the output of its last *)
(* run, its baseline.                                                      *)
(*                                                                         *)
(* Scores are integers in units of 1/Unit, so that 0.05, the least cost of *)
(* a task, is one unit; outputs that the code rounds to three decimals are *)
(* in thousandths.  Members are a set of cells: the code keeps their order *)
(* for display, and cuts the list at the limit of the target.              *)
(***************************************************************************)
EXTENDS Integers, Sequences, FiniteSets, FiniteSetsExt

Unit == 20

Operations == {"score", "emit_witness", "tag_projection", "watch", "drift",
               "quorum", "trend", "reflex", "allocate"}

None == -1000000     \* null, where a number is expected

\* Math.round(): halves are rounded up, below zero too.
Round(num, den) == (2 * num + den) \div (2 * den)

\* An average of scores, in thousandths.
Mean(total, count) == IF count = 0 THEN 0 ELSE Round(total * (1000 \div Unit), count)

SumOf(f(_), members) == MapThenSumSet(f, members)

Magnitude(n) == IF n < 0 THEN -n ELSE n
Sign(n)      == IF n > 0 THEN 1 ELSE IF n < 0 THEN -1 ELSE 0

Greatest(S) == IF S = {} THEN 0 ELSE Max(S)

-----------------------------------------------------------------------------
(* Members *)

\* A specification that validateProgramSpec() accepts.
WellFormed(spec) == spec.schema = "recall.program.v1" /\ spec.op \in Operations

\* The cells a program is about: those its target names, bundles, finds or
\* filters, and those the program is linked to.  A target that asks for
\* nothing falls back on the topics of the program, or on every cell.
Candidates(store, program, target) ==
    LET Live(k)  == k \in DOMAIN store /\ store[k].status = "active"
        Plain(k) == Live(k) /\ store[k].kind # "prg"
        Filter   == target.given \cap {"topics", "entities", "kinds"}
        Passes(k) ==
            /\ "kinds" \in Filter => store[k].kind \in target.kinds
            /\ "topics" \in Filter => store[k].topics \cap target.topics # {}
            /\ "entities" \in Filter => store[k].entities \cap target.entities # {}
        asked == {k \in target.keys \ {program.key} : Live(k)}
                   \cup {k \in target.bundled \ {program.key} : Plain(k)}
                   \cup {k \in target.hits : Plain(k)}
                   \cup {k \in program.links : Plain(k)}
                   \cup {k \in DOMAIN store : Filter # {} /\ Plain(k) /\ Passes(k)}
    IN  IF asked = {} /\ target.given = {}
        THEN {k \in DOMAIN store :
                 Plain(k) /\ (program.topics = {} \/ store[k].topics \cap program.topics # {})}
        ELSE asked

\* The selections the limit leaves: the store decides which cells come first.
Selections(store, program, target) ==
    LET all == Candidates(store, program, target)
    IN  IF Cardinality(all) <= target.limit THEN {all} ELSE kSubset(target.limit, all)

-----------------------------------------------------------------------------
(* Operations.  Each returns its output; "witness" says whether the run is *)
(* one to remember.                                                        *)

Effective(cell) == cell.effective

Score(members) ==
    LET n      == Cardinality(members)
        eff    == SumOf(Effective, members)
        stated(cell) == cell.conf
        worst  == Greatest({cell.concern : cell \in members})
    IN  [averageConfidence |-> Mean(SumOf(stated, members), n),
         averageEffective  |-> Mean(eff, n),
         maxConcern        |-> Mean(worst, 1),
         score |-> IF n = 0 THEN 500
                   ELSE Round((eff + n * (Unit - worst)) * (1000 \div Unit), 2 * n),
         witness |-> FALSE]

EmitWitness(members) == [members |-> {cell.key : cell \in members}, witness |-> TRUE]

TagProjection(members) ==
    [values |-> UNION {cell.topics : cell \in members}, witness |-> FALSE]

\* measuredValue(): a count, or the mean of a score.
Measured(measure, members) ==
    IF measure = "member_count"
    THEN 1000 * Cardinality(members)
    ELSE Mean(SumOf(LAMBDA cell : cell[measure], members), Cardinality(members))

\* watch and drift compare with the baseline, if there is one.
Watch(spec, members, previous) ==
    LET current == Measured(spec.measure, members)
        change  == IF previous = None THEN 0 ELSE current - previous
        tripped == previous # None /\ Magnitude(change) >= spec.delta
    IN  [members |-> {cell.key : cell \in members}, current |-> current,
         previous |-> previous, change |-> change, witness |-> tripped]

\* drift also remembers the value of each member, to say who moved most.
Drift(spec, members, previous, values) ==
    LET now      == [k \in {cell.key : cell \in members} |->
                        Measured(spec.measure, {cell \in members : cell.key = k})]
        moved    == {k \in DOMAIN now \cap DOMAIN values : now[k] # values[k]}
        by(k)    == Magnitude(now[k] - values[k])
        bundle   == Watch(spec, members, previous)
    IN  [members |-> bundle.members, current |-> bundle.current, previous |-> previous,
         change |-> bundle.change, witness |-> bundle.witness, memberValues |-> now,
         topMovers |-> {k \in moved : \A j \in moved : by(j) <= by(k)}]

\* Approvals: members that clear a bar, counted once per actor unless the
\* program counts every member.
Quorum(spec, members) ==
    LET approving == {cell \in members : Mean(cell.effective, 1) >= spec.minEff}
        approvers == IF spec.distinctActors
                     THEN Cardinality({cell.actor : cell \in approving})
                     ELSE Cardinality(approving)
    IN  [approverCount |-> approvers, passed |-> approvers >= spec.k,
         shortfall |-> Greatest({0, spec.k - approvers}), witness |-> TRUE]

\* The signed length of the run of equal signs that ends a list of steps.
TrailingStreak(steps) ==
    IF steps = <<>> THEN 0
    ELSE LET last  == Sign(steps[Len(steps)])
             other == {i \in DOMAIN steps : Sign(steps[i]) # last}
         IN  last * (Len(steps) - Greatest(other))

Slope(series) ==
    IF Len(series) < 2 THEN 0
    ELSE Round(series[Len(series)] - series[1], Len(series) - 1)

TrendOneMore(spec, current, prior) ==   \* mutant
    LET all    == Append(prior, current)
        series == SubSeq(all, Greatest({1, Len(all) - spec.window}), Len(all))
    IN  [series |-> series, slope |-> Slope(series), streak |-> 0, acceleration |-> 0, witness |-> FALSE]
\* trend keeps a window of the values it measured.
Trend(spec, current, prior) ==
    LET all    == Append(prior, current)
        series == SubSeq(all, Greatest({1, Len(all) - spec.window + 1}), Len(all))
        steps  == [i \in 1..(Len(series) - 1) |-> series[i + 1] - series[i]]
        mid    == Len(series) \div 2
        streak == TrailingStreak(steps)
    IN  [series |-> series, slope |-> Slope(series), streak |-> streak,
         acceleration |-> Slope(SubSeq(series, mid + 1, Len(series)))
                            - Slope(SubSeq(series, 1, mid)),
         witness |-> /\ Len(series) >= 2
                     /\ \/ Magnitude(Slope(series)) >= spec.delta
                        \/ Magnitude(streak) >= spec.streak]

\* lut5: five Boolean inputs index a table of 32 bits, given here as the set
\* of the indexes whose bit is one.
Lut5(personality, inputs) ==
    LET bit(i) == IF inputs[i] THEN 2 ^ (i - 1) ELSE 0
    IN  SumOf(bit, 1..5) \in personality

ReflexInputs(cell) ==
    <<2 * cell.effective < Unit, 2 * cell.currency < Unit, "requiresReview" \in cell.flags,
      "pinned" \in cell.flags, "annexed" \in cell.flags>>

Reflex(spec, members) ==
    LET fired == {cell \in members : Lut5(spec.personality, ReflexInputs(cell))}
    IN  [fired |-> {cell.key : cell \in fired}, witness |-> fired # {}]

\* The pressure of a task: the factors its work record pins, and the live
\* scores of the cell for the others.
Factors(cell) ==
    LET pinned(f, default) == IF f \in DOMAIN cell.work THEN cell.work[f] ELSE default
        share(n) == IF n < 0 THEN 0 ELSE IF n > Unit THEN Unit ELSE n
    IN  [impact           |-> share(pinned("impact", 10)),
         uncertainty      |-> share(pinned("uncertainty", cell.uncertainty)),
         concern          |-> share(pinned("concern", cell.concern)),
         dependencyWeight |-> share(pinned("dependencyWeight", 10)),
         reversibility    |-> share(pinned("reversibility", 10)),
         novelty          |-> share(pinned("novelty", 6)),
         cost             |-> Greatest({1, pinned("cost", 10)})]

\* impact * (uncertainty + concern + novelty) * (0.5 + dependencyWeight)
\*   * (0.5 + reversibility / 2) / cost
AllocateScore(cell) ==
    LET f == Factors(cell)
    IN  Round(f.impact * (f.uncertainty + f.concern + f.novelty)
                * (10 + f.dependencyWeight) * (20 + f.reversibility), 32 * f.cost)

\* The best few tasks, and whether they are others than last time.
Allocate(spec, members, previous) ==
    LET ahead(x, y) == \/ AllocateScore(x) > AllocateScore(y)
                       \/ AllocateScore(x) = AllocateScore(y) /\ x.key < y.key
        place(x)    == Cardinality({y \in members : ahead(y, x)}) + 1
        ranked      == [i \in 1..Cardinality(members) |->
                           (CHOOSE x \in members : place(x) = i).key]
        selected    == SubSeq(ranked, 1, Min({Len(ranked), Greatest({1, spec.limit})}))
    IN  [ranked |-> ranked, selected |-> selected, witness |-> selected # previous]

\* The output of a program that has not run.  A baseline is read field by
\* field: a field the last output lacks counts as no baseline.
NotRun == [witness |-> FALSE]

Execute(spec, members, last) ==
    LET baseline(field, none) == IF field \in DOMAIN last THEN last[field] ELSE none
    IN  CASE spec.op = "watch"  -> Watch(spec, members, baseline("current", None))
          [] spec.op = "drift"  -> Drift(spec, members, baseline("current", None),
                                         baseline("memberValues", <<>>))
          [] spec.op = "quorum" -> Quorum(spec, members)
          [] spec.op = "trend"  -> Trend(spec, Measured(spec.measure, members),
                                         baseline("series", <<>>))
          [] spec.op = "tag_projection" -> TagProjection(members)
          [] spec.op = "emit_witness"   -> EmitWitness(members)
          [] spec.op = "reflex"         -> Reflex(spec, members)
          [] spec.op = "allocate" -> Allocate(spec, members, baseline("selected", <<>>))
          [] spec.op = "score"    -> Score(members)

-----------------------------------------------------------------------------
(* Properties *)

\* The outputs of a program that runs over one set of members after another.
RunOver(spec, rounds) ==
    LET out[i \in 0..Len(rounds)] == IF i = 0 THEN NotRun ELSE Execute(spec, rounds[i], out[i - 1])
    IN  [i \in 1..Len(rounds) |-> out[i]]

\* What a program remembers is what it saw: over any history, a watch and a
\* drift trip exactly where two runs in a row differ by the delta, a trend
\* holds the values of its last runs, as many as its window, and an
\* allocation is news exactly where the selection changed.
RunsRemember(spec, rounds) ==
    LET value == [i \in 1..Len(rounds) |-> Measured(spec.measure, rounds[i])]
        As == [op \in {"watch", "drift", "trend", "allocate"} |-> RunOver([spec EXCEPT !.op = op], rounds)]
    IN  \A i \in 1..Len(rounds) :
          /\ \A op \in {"watch", "drift"} :
                As[op][i].witness <=> i > 1 /\ Magnitude(value[i] - value[i - 1]) >= spec.delta
          /\ As["trend"][i].series = SubSeq(value, Greatest({1, i - spec.window + 1}), i)
          /\ As["allocate"][i].witness <=>
                IF i = 1 THEN As["allocate"][1].selected # <<>>
                ELSE As["allocate"][i].selected # As["allocate"][i - 1].selected
=============================================================================
