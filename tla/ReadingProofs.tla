---------------------------- MODULE ReadingProofs ----------------------------
EXTENDS Reading, FiniteSetTheorems, SequenceTheorems, TLAPS

-----------------------------------------------------------------------------
(* Induction.  A set that holds 0 and with each number the next one holds   *)
(* all: otherwise, below a number it does not hold, adding one would take   *)
(* finitely many numbers one by one to fewer.                               *)

LEMMA Induction ==
    ASSUME NEW S, 0 \in S, \A n \in Nat : n \in S => n + 1 \in S
    PROVE  Nat \subseteq S
<1>1. SUFFICES ASSUME NEW n \in Nat, n \notin S
               PROVE  FALSE
  OBVIOUS
<1> DEFINE T == {k \in 0..n : k \in S}
           U == T \ {0}
           f == [k \in T |-> k + 1]
<1>2. IsFiniteSet(T)
  BY FS_Interval, FS_Subset, 0 \in Int, n \in Int
<1>3. IsFiniteSet(U) /\ Cardinality(U) = Cardinality(T) - 1 /\ Cardinality(T) \in Nat
  BY <1>2, FS_RemoveElement, FS_CardinalityType, 0 \in T
<1>4. f \in [T -> U]
  BY <1>1
<1>5. Cardinality(U) < Cardinality(T)
  BY <1>3
<1>6. \A x, y \in T : f[x] = f[y] => x = y
  OBVIOUS
<1> HIDE DEF T, U, f
<1>7. QED
  BY <1>2, <1>3, <1>4, <1>5, <1>6, FS_PigeonHole

-----------------------------------------------------------------------------
(* Programs remember *)

IsSpec(s)   == /\ s = [f \in DOMAIN s |-> s[f]]
               /\ {"op", "measure", "delta", "window", "streak", "limit"} \subseteq DOMAIN s
               /\ s.window \in Nat \ {0}
IsRounds(r) == DOMAIN r = 1..Len(r) /\ Len(r) \in Nat

\* Runs follow one another: each starts from the output of the one before.
LEMMA RunsFollow ==
    ASSUME NEW spec, NEW rounds, IsRounds(rounds)
    PROVE  /\ P!RunOver(spec, rounds) = [i \in 1..Len(rounds) |-> P!RunOver(spec, rounds)[i]]
           /\ \A i \in 1..Len(rounds) :
                 P!RunOver(spec, rounds)[i] =
                    P!Execute(spec, rounds[i], IF i = 1 THEN P!NotRun ELSE P!RunOver(spec, rounds)[i - 1])
<1> DEFINE Runs(h, k) ==
               h = [i \in 0..k |-> IF i = 0 THEN P!NotRun ELSE P!Execute(spec, rounds[i], h[i - 1])]
           S == {k \in Nat : \E h : Runs(h, k)}
           n == Len(rounds)
<1>1. 0 \in S
  <2>1. Runs([i \in 0..0 |-> P!NotRun], 0)
    OBVIOUS
  <2>2. QED
    BY <2>1
<1>2. ASSUME NEW k \in Nat, k \in S
      PROVE  k + 1 \in S
  <2>1. PICK h : Runs(h, k)
    BY <1>2
  <2> DEFINE next == [i \in 0..(k + 1) |-> IF i = k + 1 THEN P!Execute(spec, rounds[i], h[k]) ELSE h[i]]
             made == [i \in 0..(k + 1) |-> IF i = 0 THEN P!NotRun ELSE P!Execute(spec, rounds[i], next[i - 1])]
  <2>2. ASSUME NEW i \in 0..(k + 1)
        PROVE  next[i] = made[i]
    <3>1. CASE i = k + 1
      BY <3>1
    <3>2. CASE i = 0
      BY <2>1, <3>2
    <3>3. CASE i \in 1..k
      <4>1. i - 1 \in 0..k
        BY <3>3
      <4>2. next[i] = h[i] /\ next[i - 1] = h[i - 1]
        BY <3>3, <4>1
      <4>3. QED
        BY <2>1, <3>3, <4>2
    <3>4. QED
      BY <3>1, <3>2, <3>3
  <2>3. next = made
    BY <2>2
  <2>4. Runs(next, k + 1)
    BY <2>3
  <2> HIDE DEF Runs, next
  <2>5. QED
    BY <2>4
<1>3. n \in S
  <2> HIDE DEF S
  <2> QED BY <1>1, <1>2, Induction DEF IsRounds
<1> DEFINE out == CHOOSE h : Runs(h, n)
<1>4. Runs(out, n)
  <2> HIDE DEF Runs
  <2> QED BY <1>3
<1>5. P!RunOver(spec, rounds) = [i \in 1..n |-> out[i]]
  BY DEF P!RunOver
<1> HIDE DEF out
<1>6. \A i \in 1..n : out[i] = P!Execute(spec, rounds[i], IF i = 1 THEN P!NotRun ELSE out[i - 1])
  BY <1>4 DEF IsRounds
<1>7. QED
  BY <1>5, <1>6 DEF IsRounds

\* The greatest of two numbers, as the programs take it.
LEMMA GreaterOfTwo ==
    ASSUME NEW a \in Int, NEW b \in Int
    PROVE  P!Greatest({a, b}) = IF a < b THEN b ELSE a
<1> DEFINE m == IF a < b THEN b ELSE a
<1>1. m \in {a, b} /\ \A y \in {a, b} : m >= y
  OBVIOUS
<1>2. \A x \in {a, b} : (\A y \in {a, b} : x >= y) => x = m
  OBVIOUS
<1> HIDE DEF m
<1>3. P!Max({a, b}) = m
  BY <1>1, <1>2 DEF P!Max
<1>4. {a, b} # {}
  OBVIOUS
<1>5. QED
  BY <1>3, <1>4 DEF P!Greatest, m

\* Where the window of the i-th run starts.
Opening(i, w) == IF i - w + 1 > 1 THEN i - w + 1 ELSE 1

\* A window of the history, and the value after it.
Grown(value, o, i) == Append(SubSeq(value, o, i - 1), value[i])

\* A window that moves by one run is the window of the longer history.
LEMMA WindowMoves ==
    ASSUME NEW value \in Seq(Int), NEW w \in Nat \ {0}, NEW i \in 1..Len(value), i > 1,
           NEW all, all = Grown(value, Opening(i - 1, w), i)
    PROVE  SubSeq(all, P!Greatest({1, Len(all) - w + 1}), Len(all)) = SubSeq(value, Opening(i, w), i)
<1>1. PICK o : o = Opening(i - 1, w)
  OBVIOUS
<1>2. /\ o \in 1..(i - 1) /\ o \in 1..Len(value) /\ i - 1 \in Int /\ i \in o..Len(value)
      /\ Len(value) \in Nat
  BY <1>1 DEF Opening
<1>3. SubSeq(value, o, i - 1) \in Seq(Int) /\ value[i] \in Int
  BY <1>2, SubSeqProperties
<1>4. all = SubSeq(value, o, i)
  <2>1. all = SubSeq(value, o, i - 1) \o <<value[i]>>
    BY <1>1, <1>3, AppendIsConcat DEF Grown
  <2>2. QED
    BY <2>1, <1>2, SubSeqRecursiveSecond
<1>5. Len(all) = i - o + 1 /\ Len(all) \in Nat
  <2>1. o <= i /\ i \in Int /\ o \in Int /\ \A j \in o..i : value[j] \in Int
    BY <1>2
  <2>2. Len(SubSeq(value, o, i)) = IF o <= i THEN i - o + 1 ELSE 0
    BY <2>1, SubSeqProperties
  <2>3. QED
    BY SMTT(30), <1>2, <1>4, <2>1, <2>2
<1>6. PICK m : m = Opening(Len(all), w)
  OBVIOUS
<1>7. m \in 1..(i - o + 1) /\ m + o - 1 = Opening(i, w)
  BY <1>1, <1>2, <1>5, <1>6 DEF Opening
<1>8. P!Greatest({1, Len(all) - w + 1}) = m
  <2>1. 1 \in Int /\ Len(all) - w + 1 \in Int
    BY <1>5
  <2>2. P!Greatest({1, Len(all) - w + 1}) = IF 1 < Len(all) - w + 1 THEN Len(all) - w + 1 ELSE 1
    BY <2>1, GreaterOfTwo
  <2>3. QED
    BY <1>5, <1>6, <2>1, <2>2 DEF Opening
<1>9. SubSeq(SubSeq(value, o, i), m, i - o + 1) = SubSeq(value, o + m - 1, o + (i - o + 1) - 1)
  BY <1>2, <1>7, SubSeqOfSubSeq
<1>10. o + m - 1 = m + o - 1 /\ o + (i - o + 1) - 1 = i
  BY <1>2, <1>7
<1>11. QED
  BY <1>4, <1>5, <1>7, <1>8, <1>9, <1>10

\* A field of the output of the last run, if it has it.
Baseline(last, field, none) == IF field \in DOMAIN last THEN last[field] ELSE none

\* A watch and a drift compare what they measure with the last run's value.
LEMMA WatchStep ==
    ASSUME NEW s, s.op \in {"watch", "drift"}, NEW members, NEW last, NEW b,
           b = Baseline(last, "current", P!None),
           NEW value, value = P!Measured(s.measure, members),
           NEW out, out = P!Execute(s, members, last)
    PROVE  /\ "current" \in DOMAIN out /\ out.current = value
           /\ out.witness <=> b # P!None /\ P!Magnitude(value - b) >= s.delta
<1> DEFINE bundle == P!Watch(s, members, b)
<1>1. "current" \in DOMAIN bundle /\ bundle.current = value
  BY DEF P!Watch
<1>2. bundle.witness <=> b # P!None /\ P!Magnitude(value - b) >= s.delta
  BY Zenon DEF P!Watch
<1>3. CASE s.op = "watch"
  <2>1. out = bundle
    BY <1>3 DEF P!Execute, Baseline
  <2>2. QED
    BY <1>1, <1>2, <2>1
<1>4. CASE s.op = "drift"
  <2>1. out = P!Drift(s, members, b, Baseline(last, "memberValues", <<>>))
    BY <1>4 DEF P!Execute, Baseline
  <2>2. "current" \in DOMAIN out /\ out.current = bundle.current /\ out.witness = bundle.witness
    BY <2>1 DEF P!Drift
  <2>3. QED
    BY <1>1, <1>2, <2>2
<1>5. QED
  BY <1>3, <1>4

\* A trend appends what it measures to its window, and cuts the window.
Cut(all, w) == SubSeq(all, P!Greatest({1, Len(all) - w + 1}), Len(all))

\* One run of a trend appends a reading, and cuts to the window.
LEMMA TrendStep ==
    ASSUME NEW s, s.op = "trend", NEW members, NEW last
    PROVE  /\ "series" \in DOMAIN P!Execute(s, members, last)
           /\ P!Execute(s, members, last).series =
                 Cut(Append(Baseline(last, "series", <<>>), P!Measured(s.measure, members)), s.window)
<1> DEFINE prior == Baseline(last, "series", <<>>)
<1>1. P!Execute(s, members, last) = P!Trend(s, P!Measured(s.measure, members), prior)
  BY DEF P!Execute, Baseline
<1> HIDE DEF prior
<1>2. \A c : "series" \in DOMAIN P!Trend(s, c, prior)
  BY DEF P!Trend
<1>3. \A c, all : all = Append(prior, c)
         => P!Trend(s, c, prior).series = SubSeq(all, P!Greatest({1, Len(all) - s.window + 1}), Len(all))
  BY DEF P!Trend
<1>4. \A c : P!Trend(s, c, prior).series = Cut(Append(prior, c), s.window)
  BY <1>3 DEF Cut
<1>5. QED
  BY <1>1, <1>2, <1>4, Zenon DEF prior

\* An allocation is news if the selection is not the last one.
LEMMA AllocateStep ==
    ASSUME NEW s, s.op = "allocate", NEW members, NEW last, NEW previous,
           previous = Baseline(last, "selected", <<>>),
           NEW out, out = P!Execute(s, members, last)
    PROVE  "selected" \in DOMAIN out /\ (out.witness <=> out.selected # previous)
<1>1. out = P!Allocate(s, members, previous)
  BY DEF P!Execute, Baseline
<1>2. "selected" \in DOMAIN out
  BY <1>1 DEF P!Allocate
<1>3. P!Allocate(s, members, previous).witness = (P!Allocate(s, members, previous).selected # previous)
  BY DEF P!Allocate
<1>4. QED
  BY <1>1, <1>2, <1>3

\* A program over a history whose measured values are numbers.
LEMMA ProgramRemembers ==
    ASSUME NEW spec, IsSpec(spec), NEW rounds, IsRounds(rounds),
           \A i \in DOMAIN rounds : P!Measured(spec.measure, rounds[i]) \in Int \ {P!None}
    PROVE  P!RunsRemember(spec, rounds)
<1> DEFINE n == Len(rounds)
           value == [i \in 1..n |-> P!Measured(spec.measure, rounds[i])]
           of(op) == [spec EXCEPT !.op = op]
           run(op) == P!RunOver(of(op), rounds)
           last(op, i) == IF i = 1 THEN P!NotRun ELSE run(op)[i - 1]
<1>1. n \in Nat /\ DOMAIN rounds = 1..n /\ value \in Seq(Int)
      /\ \A i \in 1..n : value[i] # P!None
  BY DEF IsRounds
<1>2. ASSUME NEW op
      PROVE  /\ of(op).op = op /\ of(op).measure = spec.measure
             /\ of(op).delta = spec.delta /\ of(op).window = spec.window
  BY DEF IsSpec
<1>3. ASSUME NEW op, NEW i \in 1..n
      PROVE  run(op)[i] = P!Execute(of(op), rounds[i], last(op, i))
  BY RunsFollow
<1>4. ASSUME NEW op \in {"watch", "drift"}, NEW i \in 1..n
      PROVE  /\ "current" \in DOMAIN run(op)[i]
             /\ run(op)[i].current = value[i]
  <2>1. of(op).op \in {"watch", "drift"} /\ P!Measured(of(op).measure, rounds[i]) = value[i]
    BY <1>1, <1>2
  <2> HIDE DEF of, run, value, last
  <2>2. QED
    BY <1>3, <2>1, WatchStep
<1>5. ASSUME NEW op \in {"watch", "drift"}, NEW i \in 1..n
      PROVE  run(op)[i].witness <=> i > 1 /\ P!Magnitude(value[i] - value[i - 1]) >= spec.delta
  <2>1. of(op).op \in {"watch", "drift"} /\ P!Measured(of(op).measure, rounds[i]) = value[i]
    BY <1>1, <1>2
  <2>2. CASE i = 1
    <3>1. Baseline(last(op, i), "current", P!None) = P!None
      BY <2>2 DEF P!NotRun, Baseline
    <3> HIDE DEF of, run, value, last
    <3>2. QED
      BY <1>3, <2>1, <2>2, <3>1, WatchStep
  <2>3. CASE i > 1
    <3>1. i - 1 \in 1..n /\ last(op, i) = run(op)[i - 1]
      BY <2>3
    <3>2. Baseline(last(op, i), "current", P!None) = value[i - 1] /\ value[i - 1] # P!None
      BY <3>1, <1>1, <1>4 DEF Baseline
    <3>3. of(op).delta = spec.delta
      BY <1>2
    <3> HIDE DEF of, run, value, last
    <3>4. QED
      BY <1>3, <2>1, <2>3, <3>2, <3>3, WatchStep
  <2>4. QED
    BY <2>2, <2>3
<1> DEFINE trend == run("trend")
           w == spec.window
           window(i) == SubSeq(value, Opening(i, w), i)
           S == {k \in Nat : k \in 1..n => "series" \in DOMAIN trend[k] /\ trend[k].series = window(k)}
<1>6. w \in Nat \ {0} /\ Len(value) = n
  BY <1>1 DEF IsSpec
<1>7. 0 \in S
  OBVIOUS
<1>8. ASSUME NEW k \in Nat, k \in S
      PROVE  k + 1 \in S
  <2>1. CASE k + 1 \notin 1..n
    BY <2>1
  <2>2. CASE k + 1 \in 1..n
    <3>1. PICK i : i = k + 1
      OBVIOUS
    <3> DEFINE before == IF k = 0 THEN <<>> ELSE window(k)
               s == of("trend")
               l == last("trend", i)
               v == value[i]
    <3>2. P!Measured(s.measure, rounds[i]) = v /\ s.op = "trend" /\ s.window = w
      BY <1>1, <1>2, <2>2, <3>1
    <3>3. before = Baseline(l, "series", <<>>)
      <4>1. CASE k = 0
        BY <3>1, <4>1 DEF P!NotRun, Baseline
      <4>2. CASE k # 0
        <5>1. k \in 1..n /\ i # 1 /\ i - 1 = k
          BY <1>1, <2>2, <3>1, <4>2
        <5>2. "series" \in DOMAIN trend[k] /\ trend[k].series = window(k)
          BY <1>8, <5>1
        <5>3. l = trend[k]
          BY <5>1
        <5> HIDE DEF trend, l, window
        <5>4. QED
          BY <4>2, <5>2, <5>3 DEF Baseline
      <4>3. QED
        BY <4>1, <4>2
    <3>4. trend[i] = P!Execute(s, rounds[i], l)
      BY <1>3, <2>2, <3>1
    <3> HIDE DEF s, l, trend, v, value
    <3>5. "series" \in DOMAIN trend[i] /\ trend[i].series = Cut(Append(before, v), w)
      <4> HIDE DEF before, w, S
      <4>1. /\ "series" \in DOMAIN trend[i]
            /\ trend[i].series = Cut(Append(Baseline(l, "series", <<>>), P!Measured(s.measure, rounds[i])), s.window)
        BY <3>2, <3>4, TrendStep, Zenon
      <4>2. QED
        BY <3>2, <3>3, <4>1, Zenon
    <3>6. Cut(Append(before, v), w) = window(i)
      <4>1. CASE k = 0
        <5>1. i = 1 /\ 1 \in 1..Len(value) /\ v \in Int /\ before = <<>>
          BY <1>1, <1>6, <2>2, <3>1, <4>1 DEF v
        <5>2. Append(<<>>, v) = <<v>> /\ Len(<<v>>) = 1
          BY <5>1
        <5>3. P!Greatest({1, 1 - w + 1}) = 1 /\ Opening(1, w) = 1
          <6>1. 1 \in Int /\ 1 - w + 1 \in Int /\ ~(1 < 1 - w + 1) /\ ~(1 - w + 1 > 1)
            BY <1>6
          <6>2. P!Greatest({1, 1 - w + 1}) = IF 1 < 1 - w + 1 THEN 1 - w + 1 ELSE 1
            BY <6>1, GreaterOfTwo
          <6>3. QED
            BY <6>1, <6>2 DEF Opening
        <5>4. SubSeq(<<v>>, 1, 1) = <<v>>
          <6>1. <<v>> \in Seq(Int)
            BY <5>1
          <6>2. QED
            BY <5>2, <6>1, SubSeqFull
        <5>5. SubSeq(value, 1, 1) = <<v>>
          <6>1. SubSeq(value, 1, 1) = [j \in 1..1 |-> value[j]]
            BY <1>1, <5>1
          <6>2. <<v>> = [j \in 1..1 |-> value[j]]
            BY <5>1 DEF v
          <6>3. QED
            BY <6>1, <6>2
        <5> HIDE DEF before, w
        <5>6. QED
          BY <5>1, <5>2, <5>3, <5>4, <5>5 DEF Cut
      <4>2. CASE k # 0
        <5>1. i \in 1..Len(value) /\ i > 1 /\ i - 1 = k
          BY <1>1, <1>6, <2>2, <3>1, <4>2
        <5>2. Append(before, v) = Grown(value, Opening(i - 1, w), i)
          BY <4>2, <5>1 DEF Grown, v
        <5> HIDE DEF before, w
        <5>3. QED
          BY ZenonT(30), <1>1, <1>6, <5>1, <5>2, WindowMoves DEF Cut
      <4>3. QED
        BY <4>1, <4>2
    <3>7. "series" \in DOMAIN trend[i] /\ trend[i].series = window(i)
      <4> HIDE DEF before, window
      <4> QED BY <3>5, <3>6
    <3> HIDE DEF window
    <3>8. QED
      BY <3>1, <3>7
  <2>3. QED
    BY <2>1, <2>2
<1>9. \A i \in 1..n : trend[i].series = window(i)
  <2>1. Nat \subseteq S
    <3> HIDE DEF S
    <3> QED BY <1>7, <1>8, Induction
  <2>2. \A k \in S : k \in 1..n => trend[k].series = window(k)
    <3> HIDE DEF window, trend, n
    <3> QED OBVIOUS
  <2>3. 1..n \subseteq S
    <3> HIDE DEF S, n
    <3> QED BY <1>1, <2>1
  <2> HIDE DEF S, window, trend, n
  <2>4. QED
    BY <2>2, <2>3
<1>10. \A i \in 1..n : window(i) = SubSeq(value, P!Greatest({1, i - w + 1}), i)
  <2>1. TAKE i \in 1..n
  <2>2. 1 \in Int /\ i - w + 1 \in Int
    BY <1>1, <1>6
  <2>3. P!Greatest({1, i - w + 1}) = Opening(i, w)
    BY <2>2, GreaterOfTwo DEF Opening
  <2>4. QED
    BY <2>3
<1> DEFINE chosen == run("allocate")
<1>11. ASSUME NEW i \in 1..n
       PROVE  /\ "selected" \in DOMAIN chosen[i]
              /\ i = 1 => (chosen[i].witness <=> chosen[i].selected # <<>>)
  <2>1. of("allocate").op = "allocate" /\ chosen[i] = P!Execute(of("allocate"), rounds[i], last("allocate", i))
    BY <1>2, <1>3
  <2>2. i = 1 => Baseline(last("allocate", i), "selected", <<>>) = <<>>
    BY DEF P!NotRun, Baseline
  <2> HIDE DEF of, chosen, last
  <2>3. QED
    BY <2>1, <2>2, AllocateStep
<1>12. ASSUME NEW i \in 1..n, i # 1
       PROVE  chosen[i].witness <=> chosen[i].selected # chosen[i - 1].selected
  <2>1. of("allocate").op = "allocate" /\ chosen[i] = P!Execute(of("allocate"), rounds[i], last("allocate", i))
    BY <1>2, <1>3
  <2>2. i - 1 \in 1..n /\ last("allocate", i) = chosen[i - 1]
    BY <1>1, <1>12
  <2>3. Baseline(last("allocate", i), "selected", <<>>) = chosen[i - 1].selected
    BY <1>11, <2>2 DEF Baseline
  <2> HIDE DEF of, chosen, last
  <2>4. QED
    BY <2>1, <2>2, <2>3, AllocateStep
<1>13. QED
  <2> DEFINE As == [op \in {"watch", "drift", "trend", "allocate"} |-> run(op)]
  <2>1. \A op \in {"watch", "drift", "trend", "allocate"} : As[op] = run(op)
    OBVIOUS
  <2>2. \A i \in 1..n :
          /\ \A op \in {"watch", "drift"} :
                As[op][i].witness <=> i > 1 /\ P!Magnitude(value[i] - value[i - 1]) >= spec.delta
          /\ As["trend"][i].series = SubSeq(value, P!Greatest({1, i - spec.window + 1}), i)
          /\ As["allocate"][i].witness <=>
                IF i = 1 THEN As["allocate"][1].selected # <<>>
                ELSE As["allocate"][i].selected # As["allocate"][i - 1].selected
    <3> TAKE i \in 1..n
    <3> HIDE DEF As, run, value
    <3> QED BY <1>5, <1>9, <1>10, <1>11, <1>12, <2>1
  <2> HIDE DEF value
  <2>3. QED
    BY <2>2 DEF P!RunsRemember, value
-----------------------------------------------------------------------------
(* Several graphs read as one *)

\* Qualifying a cell changes its keys alone.
LEMMA PrefixedCell ==
    ASSUME NEW graph, NEW c, IsCell(c)
    PROVE  /\ PrefixCell(graph, c).key = Qualified(graph, c.key)
           /\ PrefixCell(graph, c).handle = c.handle
           /\ PrefixCell(graph, c).score = c.score
  BY DEF PrefixCell, IsCell

\* A bare key, qualified, leads back to itself.
LEMMA PrefixedKey ==
    ASSUME NEW graph, NEW key, IsKey(key)
    PROVE  /\ IsKey(Qualified(graph, key))
           /\ Qualified(graph, key).core = key.core
           /\ key.graph = Bare => /\ Qualified(graph, key).graph = graph
                                  /\ Bared(Qualified(graph, key)) = key
  BY DEF Qualified, IsKey, Bared

\* A cell is found under the key it is shown with.
LEMMA ShownIsFound ==
    ASSUME NEW union, IsUnion(union), Plain(union),
           NEW i \in DOMAIN union, NEW c \in union[i].cells
    PROVE  LET shown == PrefixCell(union[i].graph, c)
           IN  Resolve(union, shown.key) = Found(union[i].graph, shown)
<1> DEFINE g     == union[i].graph
           shown == PrefixCell(g, c)
           ref   == shown.key
           matches == [j \in DOMAIN union |-> ByKey(union[j], Bared(ref))]
           hits  == {j \in DOMAIN union : ref.graph \in {Bare, union[j].graph} /\ matches[j] # {}}
<1>1. IsStore(union[i]) /\ IsCell(c) /\ IsKey(c.key) /\ c.key.graph = Bare
  BY DEF IsUnion, IsStore, IsCell, Plain
<1>2. ref.graph = g /\ Bared(ref) = c.key
  BY <1>1, PrefixedCell, PrefixedKey
<1>3. matches[i] = {c}
  BY <1>1, <1>2 DEF ByKey, IsStore
<1>4. hits = {i}
  <2>1. i \in hits
    BY <1>2, <1>3
  <2>2. ASSUME NEW j \in hits
        PROVE  j = i
    BY <1>1, <1>2 DEF IsUnion, IsStore
  <2>3. QED
    BY <2>1, <2>2
<1>5. i \in Int
  BY DEF IsUnion
<1>6. Min({i}) = i
  BY <1>5 DEF Min
<1>7. Get(union, ref) = Lookup(union, ref, matches)
  BY DEF Get
<1>8. Lookup(union, ref, matches) = Found(g, PrefixCell(g, CHOOSE d \in matches[i] : TRUE))
  <2> HIDE DEF matches
  <2> QED BY <1>4, <1>6 DEF Lookup
<1>9. Get(union, ref) = Found(g, shown)
  BY <1>3, <1>7, <1>8
<1>10. QED
  <2>1. First(Get(union, ref), Get(union, Bared(ref))) = Found(g, shown)
    BY <1>9 DEF First, Found
  <2>2. Found(g, shown).found
    BY DEF Found
  <2> HIDE DEF shown, ref
  <2>3. Resolve(union, ref) = Found(g, shown)
    BY <2>1, <2>2 DEF Resolve
  <2>4. QED
    BY <2>3 DEF shown, ref

\* The links and bundles a union shows with a cell are those of its graph.
LEMMA NeighborsAreOfItsGraph ==
    ASSUME NEW union, IsUnion(union), Plain(union),
           NEW i \in DOMAIN union, NEW c \in union[i].cells,
           NEW l \in UnionNeighbors(union, PrefixCell(union[i].graph, c).key)
    PROVE  \E d \in union[i].cells : l.cell = PrefixCell(union[i].graph, d)
<1> DEFINE ref  == PrefixCell(union[i].graph, c).key
           home == {j \in DOMAIN union : IF ref.graph = Bare THEN ByKey(union[j], ref) # {}
                                         ELSE union[j].graph = ref.graph}
<1>1. IsStore(union[i]) /\ IsCell(c) /\ IsKey(c.key) /\ c.key.graph = Bare
  BY DEF IsUnion, IsStore, IsCell, Plain
<1>2. ref.graph = union[i].graph /\ ref.graph # Bare
  BY <1>1, PrefixedCell, PrefixedKey DEF IsStore
<1>3. home = {i}
  BY <1>2 DEF IsUnion
<1>4. Min(home) = i
  <2>1. i \in Int
    BY DEF IsUnion
  <2>2. QED
    BY <1>3, <2>1 DEF Min
<1>5. l \in {[k EXCEPT !.cell = PrefixCell(union[i].graph, @)] : k \in LinksOf(union[i], Bared(ref))}
  <2> HIDE DEF home
  <2>1. UnionNeighbors(union, ref) =
          {[k EXCEPT !.cell = PrefixCell(union[i].graph, @)] : k \in LinksOf(union[i], Bared(ref))}
    BY <1>3, <1>4 DEF UnionNeighbors, home
  <2>2. QED
    BY SMTT(30), <2>1
<1>6. PICK k \in LinksOf(union[i], Bared(ref)) :
        l = [k EXCEPT !.cell = PrefixCell(union[i].graph, @)]
  BY <1>5
<1>7. PICK d \in union[i].cells, out \in BOOLEAN : k = [cell |-> d, out |-> out]
  BY DEF LinksOf
<1>8. l.cell = PrefixCell(union[i].graph, d)
  BY <1>6, <1>7
<1>9. QED
  BY <1>8

\* Bundles found for a shown key have that key among their members.
LEMMA BundlesHoldIt ==
    ASSUME NEW union, IsUnion(union), Plain(union),
           NEW i \in DOMAIN union, NEW c \in union[i].cells,
           NEW b \in UnionBundles(union, PrefixCell(union[i].graph, c).key)
    PROVE  PrefixCell(union[i].graph, c).key \in b.members
<1> DEFINE ref == PrefixCell(union[i].graph, c).key
<1>1. IsStore(union[i]) /\ IsCell(c) /\ IsKey(c.key) /\ c.key.graph = Bare
  BY DEF IsUnion, IsStore, IsCell, Plain
<1>2. /\ ref.graph = union[i].graph /\ ref.graph # Bare /\ Bared(ref) = c.key
      /\ ref = Qualified(union[i].graph, c.key)
  BY <1>1, PrefixedCell, PrefixedKey DEF IsStore
<1>3. PICK j \in DOMAIN union : /\ ref.graph \in {Bare, union[j].graph}
                                /\ \E a \in BundlesOf(union[j], Bared(ref)) :
                                      b = PrefixBundle(union[j].graph, a)
  BY DEF UnionBundles
<1>4. j = i
  BY <1>2, <1>3 DEF IsUnion
<1>5. PICK a \in union[i].bundles : c.key \in a.members /\ b = PrefixBundle(union[i].graph, a)
  BY <1>2, <1>3, <1>4 DEF BundlesOf
<1>6. b.members = {Qualified(union[i].graph, k) : k \in a.members}
  BY <1>1, <1>5 DEF PrefixBundle, IsStore
<1>7. QED
  BY <1>2, <1>5, <1>6

\* A key that a union shows leads, in it, to the very cell.
LEMMA UnionExpands ==
    ASSUME NEW union, IsUnion(union)
    PROVE  ExpandsTo(union)
<1> SUFFICES ASSUME Plain(union), NEW i \in DOMAIN union, NEW c \in union[i].cells
             PROVE  LET shown == PrefixCell(union[i].graph, c)
                    IN  /\ Resolve(union, shown.key) = Found(union[i].graph, shown)
                        /\ \A l \in UnionNeighbors(union, shown.key) :
                              Resolve(union, l.cell.key) = Found(union[i].graph, l.cell)
                        /\ \A b \in UnionBundles(union, shown.key) : shown.key \in b.members
  BY DEF ExpandsTo
<1> DEFINE shown == PrefixCell(union[i].graph, c)
<1>1. Resolve(union, shown.key) = Found(union[i].graph, shown)
  BY ShownIsFound
<1>2. ASSUME NEW l \in UnionNeighbors(union, shown.key)
      PROVE  Resolve(union, l.cell.key) = Found(union[i].graph, l.cell)
  <2>1. PICK d \in union[i].cells : l.cell = PrefixCell(union[i].graph, d)
    BY NeighborsAreOfItsGraph
  <2>2. QED
    BY <2>1, ShownIsFound
<1>3. ASSUME NEW b \in UnionBundles(union, shown.key)
      PROVE  shown.key \in b.members
  BY BundlesHoldIt
<1>4. QED
  BY <1>1, <1>2, <1>3

\* A lookup without a hit finds nothing.
LEMMA NoHit ==
    ASSUME NEW union, NEW ref, NEW matches,
           \A i \in DOMAIN union : matches[i] = {}
    PROVE  Lookup(union, ref, matches) = Nothing
  BY DEF Lookup

\* Where no cell is named whole, a reference is a prefix.
LEMMA NotWhole ==
    ASSUME NEW union, IsUnion(union), Plain(union), NEW ref, IsKey(ref),
           \A c \in UnionAll(union) : ref.core \notin {c.key.core, c.handle}
    PROVE  /\ Get(union, ref) = Nothing /\ Get(union, Bared(ref)) = Nothing
           /\ GetByHandle(union, ref) = Nothing /\ GetByHandle(union, Bared(ref)) = Nothing
<1>1. ASSUME NEW i \in DOMAIN union, NEW c \in union[i].cells
      PROVE  c.key.core # ref.core /\ c.handle # ref.core
  <2>1. IsCell(c) /\ IsKey(c.key)
    BY DEF IsUnion, IsStore, IsCell
  <2>2. PrefixCell(union[i].graph, c) \in UnionAll(union)
    BY DEF UnionAll
  <2>3. QED
    BY <2>1, <2>2, PrefixedCell, PrefixedKey
<1>2. Bared(ref).core = ref.core /\ Bared(Bared(ref)).core = ref.core
  BY DEF Bared, IsKey
<1>3. ASSUME NEW i \in DOMAIN union
      PROVE  /\ ByKey(union[i], Bared(ref)) = {} /\ ByKey(union[i], Bared(Bared(ref))) = {}
             /\ ByHandle(union[i], Bared(ref)) = {} /\ ByHandle(union[i], Bared(Bared(ref))) = {}
  BY <1>1, <1>2 DEF ByKey, ByHandle
<1>4. Get(union, ref) = Nothing
  BY <1>3, NoHit DEF Get
<1>5. Get(union, Bared(ref)) = Nothing
  BY <1>3, NoHit DEF Get
<1>6. GetByHandle(union, ref) = Nothing
  BY <1>3, NoHit DEF GetByHandle
<1>7. GetByHandle(union, Bared(ref)) = Nothing
  BY <1>3, NoHit DEF GetByHandle
<1>8. QED
  BY <1>4, <1>5, <1>6, <1>7

\* A prefix that a union resolves stands for one cell.
LEMMA UnionPrefixes ==
    ASSUME NEW union, IsUnion(union), NEW ref, IsKey(ref)
    PROVE  PrefixMeansOne(union, ref)
<1> DEFINE meant == {c \in UnionAll(union) :
                        IsPrefix(ref.core, c.key.core) /\ ref.graph \in {Bare, c.key.graph}}
           near  == {c \in UnionAll(union) : Matches(c, ref)}
           whole == \E c \in UnionAll(union) : ref.core \in {c.key.core, c.handle}
           one(s) == CHOOSE c \in s : TRUE
           said(s) == IF ~(Len(ref.core) >= MinPrefix) \/ s = {} THEN Nothing
                      ELSE IF Cardinality(s) > 1 THEN Ambiguous
                      ELSE Found(one(s).key.graph, one(s))
<1>1. SUFFICES ASSUME Plain(union), ~whole, Len(ref.core) >= MinPrefix
               PROVE  CASE meant = {}             -> Resolve(union, ref) = Nothing
                        [] Cardinality(meant) > 1 -> Resolve(union, ref) = Ambiguous
                        [] OTHER -> \E c \in meant : Resolve(union, ref) = Found(c.key.graph, c)
  BY DEF PrefixMeansOne
<1>2. near = meant
  <2>1. ASSUME NEW c \in UnionAll(union)
        PROVE  c.key.graph # Bare
    <3>1. PICK i \in DOMAIN union : \E d \in union[i].cells : c = PrefixCell(union[i].graph, d)
      BY DEF UnionAll
    <3>2. PICK d \in union[i].cells : c = PrefixCell(union[i].graph, d)
      BY <3>1
    <3>3. IsCell(d) /\ IsKey(d.key) /\ d.key.graph = Bare /\ union[i].graph # Bare
      BY <1>1 DEF IsUnion, IsStore, IsCell, Plain
    <3>4. QED
      BY <3>2, <3>3, PrefixedCell, PrefixedKey
  <2>2. QED
    BY <2>1 DEF Matches
<1>3. /\ First(Get(union, ref), Get(union, Bared(ref))) = Nothing
      /\ First(GetByHandle(union, ref), GetByHandle(union, Bared(ref))) = Nothing
      /\ ~Nothing.found
  <2>1. \A c \in UnionAll(union) : ref.core \notin {c.key.core, c.handle}
    BY <1>1
  <2>2. QED
    BY <1>1, <2>1, NotWhole DEF First, Nothing
<1>4. Resolve(union, ref) = said(near)
  BY <1>3 DEF Resolve
<1>5. Resolve(union, ref) = said(meant)
  BY <1>2, <1>4
<1>6. meant # {} => one(meant) \in meant
  OBVIOUS
<1>7. Cardinality({}) = 0
  BY FS_EmptySet
<1> HIDE DEF meant, one
<1>8. CASE meant = {}
  <2>1. Resolve(union, ref) = Nothing
    BY <1>5, <1>8
  <2>2. ~(Cardinality(meant) > 1)
    BY <1>7, <1>8
  <2>3. QED
    BY <1>8, <2>1, <2>2
<1>9. CASE Cardinality(meant) > 1
  <2>1. meant # {}
    BY <1>7, <1>9
  <2>2. Resolve(union, ref) = Ambiguous
    BY <1>1, <1>5, <1>9, <2>1
  <2>3. QED
    BY <1>9, <2>1, <2>2
<1>10. CASE meant # {} /\ ~(Cardinality(meant) > 1)
  <2>1. Resolve(union, ref) = Found(one(meant).key.graph, one(meant))
    BY <1>1, <1>5, <1>10
  <2>2. \E c \in meant : Resolve(union, ref) = Found(c.key.graph, c)
    BY <1>6, <1>10, <2>1
  <2>3. QED
    BY <1>10, <2>2
<1>11. QED
  BY <1>8, <1>9, <1>10

\* Scores can be compared, also that of a cell that does not match.
LEMMA ScoreIsInt ==
    ASSUME NEW c, IsCell(c)
    PROVE  c.score \in Int
<1>1. c.score \in Nat \cup {NoMatch} /\ NoMatch \in Int
  BY DEF IsCell, NoMatch
<1>2. QED
  BY <1>1

\* What is known of the best few of a finite set.
LEMMA TopsKnown ==
    ASSUME NEW items, IsFiniteSet(items), NEW limit \in Nat, NEW best \in Tops(items, limit)
    PROVE  /\ best \subseteq items
           /\ limit <= Cardinality(items) => Cardinality(best) = limit
           /\ limit > Cardinality(items) => best = items
           /\ \A x \in best : \A y \in items \ best : x.score >= y.score
<1> DEFINE n == Cardinality(items)
<1>1. n \in Nat
  BY FS_CardinalityType
<1>2. Min({limit, n}) = IF limit <= n THEN limit ELSE n
  BY <1>1 DEF Min
<1>3. best \subseteq items /\ Cardinality(best) = Min({limit, n})
  BY DEF Tops, kSubset
<1>4. limit > n => best = items
  BY <1>1, <1>2, <1>3, FS_Subset
<1>5. QED
  BY <1>1, <1>2, <1>3, <1>4 DEF Tops

\* How to show that a set is one of the best selections of a limit.
LEMMA TopsMade ==
    ASSUME NEW items, IsFiniteSet(items), NEW limit \in Nat, NEW best \in SUBSET items,
           \/ limit <= Cardinality(items) /\ Cardinality(best) = limit
           \/ best = items /\ Cardinality(items) <= limit,
           \A x \in best : \A y \in items \ best : x.score >= y.score
    PROVE  best \in Tops(items, limit)
<1> DEFINE n == Cardinality(items)
<1>1. n \in Nat
  BY FS_CardinalityType
<1>2. Min({limit, n}) = IF limit <= n THEN limit ELSE n
  BY <1>1 DEF Min
<1>3. Cardinality(best) = Min({limit, n})
  BY <1>1, <1>2
<1>4. QED
  BY <1>3 DEF Tops, kSubset

\* Copies of cells under the keys of a union are as many as the cells.
LEMMA CopiesCounted ==
    ASSUME NEW store, IsStore(store), NEW some \in SUBSET store.cells
    PROVE  LET copies == {PrefixCell(store.graph, c) : c \in some}
           IN  IsFiniteSet(copies) /\ Cardinality(copies) = Cardinality(some)
<1> DEFINE copies == {PrefixCell(store.graph, c) : c \in some}
           f == [c \in some |-> PrefixCell(store.graph, c)]
<1>1. IsFiniteSet(some)
  BY FS_Subset DEF IsStore
<1>2. f \in Surjection(some, copies)
  BY DEF Surjection
<1>3. f \in Injection(some, copies)
  <2>1. ASSUME NEW c \in some, NEW d \in some, f[c] = f[d]
        PROVE  c = d
    <3>1. IsCell(c) /\ IsCell(d)
      BY DEF IsStore
    <3>2. Qualified(store.graph, c.key) = Qualified(store.graph, d.key)
      BY <2>1, <3>1, PrefixedCell
    <3>3. QED
      BY <3>2 DEF IsStore
  <2>2. f \in [some -> copies]
    OBVIOUS
  <2> HIDE DEF f, copies
  <2>3. QED
    BY <2>1, <2>2 DEF Injection, IsInjective
<1>4. IsFiniteSet(copies) /\ Cardinality(copies) = Cardinality(some)
  <2> HIDE DEF copies, f
  <2> QED BY <1>1, <1>2, <1>3, FS_Surjection
<1>5. QED
  BY <1>4

\* What the graphs answer, together, is finite.
LEMMA AnswersFinite ==
    ASSUME NEW union, IsUnion(union),
           NEW r, \A i \in DOMAIN union : r[i] \subseteq union[i].cells
    PROVE  IsFiniteSet(UNION {{PrefixCell(union[i].graph, c) : c \in r[i]} : i \in DOMAIN union})
<1> DEFINE copies(i) == {PrefixCell(union[i].graph, c) : c \in r[i]}
           lists == {copies(i) : i \in DOMAIN union}
           f == [i \in DOMAIN union |-> copies(i)]
<1>1. \A i \in DOMAIN union : IsFiniteSet(copies(i))
  BY CopiesCounted DEF IsUnion
<1>2. IsFiniteSet(DOMAIN union)
  BY FS_Interval DEF IsUnion
<1>3. f \in Surjection(DOMAIN union, lists)
  <2> HIDE DEF copies
  <2> QED BY DEF Surjection
<1>4. IsFiniteSet(lists)
  <2> HIDE DEF lists, f
  <2> QED BY <1>2, <1>3, FS_Surjection
<1>5. \A list \in lists : IsFiniteSet(list)
  BY <1>1
<1>6. QED
  <2> HIDE DEF lists
  <2>1. IsFiniteSet(UNION lists)
    BY <1>4, <1>5, FS_UNION
  <2>2. QED
    BY <2>1 DEF lists

\* Cut twice, cut once: of the best of each graph the best are the best.
LEMMA CutTwice ==
    ASSUME NEW union, IsUnion(union), NEW limit \in Nat,
           NEW r, \A i \in DOMAIN union : r[i] \in Tops(Hits(union[i]), limit),
           NEW found \in Tops(UNION {{PrefixCell(union[i].graph, c) : c \in r[i]} : i \in DOMAIN union},
                              limit)
    PROVE  found \in Tops(UNION {{PrefixCell(union[i].graph, c) : c \in Hits(union[i])} : i \in DOMAIN union},
                          limit)
<1> DEFINE copies(i, s) == {PrefixCell(union[i].graph, c) : c \in s}
           merged == UNION {copies(i, r[i]) : i \in DOMAIN union}
           all    == UNION {copies(i, Hits(union[i])) : i \in DOMAIN union}
<1>1. \A i \in DOMAIN union :
         /\ IsStore(union[i])
         /\ Hits(union[i]) \subseteq union[i].cells /\ IsFiniteSet(Hits(union[i]))
  <2>1. TAKE i \in DOMAIN union
  <2>2. Hits(union[i]) \subseteq union[i].cells
    BY DEF Hits
  <2>3. QED
    BY <2>2, FS_Subset DEF IsUnion, IsStore
<1>2. \A i \in DOMAIN union :
         /\ r[i] \subseteq Hits(union[i])
         /\ Cardinality(r[i]) = limit \/ r[i] = Hits(union[i])
         /\ \A x \in r[i] : \A y \in Hits(union[i]) \ r[i] : x.score >= y.score
  <2>1. TAKE i \in DOMAIN union
  <2>2. Cardinality(Hits(union[i])) \in Nat
    BY <1>1, FS_CardinalityType
  <2>3. QED
    BY <1>1, <2>2, TopsKnown
<1>3. IsFiniteSet(merged) /\ IsFiniteSet(all)
  <2>1. IsFiniteSet(merged)
    BY <1>1, <1>2, AnswersFinite
  <2>2. DEFINE hits == [i \in DOMAIN union |-> Hits(union[i])]
  <2>3. IsFiniteSet(UNION {copies(i, hits[i]) : i \in DOMAIN union})
    <3>1. \A i \in DOMAIN union : hits[i] \subseteq union[i].cells
      BY <1>1
    <3> HIDE DEF hits
    <3>2. QED
      BY <3>1, AnswersFinite
  <2>4. all = UNION {copies(i, hits[i]) : i \in DOMAIN union}
    OBVIOUS
  <2>5. QED
    BY <2>1, <2>3, <2>4
<1>4. merged \subseteq all
  BY <1>2
<1>5. ASSUME NEW i \in DOMAIN union, Cardinality(r[i]) = limit
      PROVE  /\ copies(i, r[i]) \subseteq merged /\ IsFiniteSet(copies(i, r[i]))
             /\ Cardinality(copies(i, r[i])) = limit /\ limit <= Cardinality(merged)
  <2>1. copies(i, r[i]) \subseteq merged
    OBVIOUS
  <2>2. IsFiniteSet(copies(i, r[i])) /\ Cardinality(copies(i, r[i])) = limit
    BY <1>1, <1>2, <1>5, CopiesCounted
  <2> HIDE DEF copies, merged
  <2>3. QED
    BY <1>3, <2>1, <2>2, FS_Subset
<1>6. /\ found \subseteq merged
      /\ limit <= Cardinality(merged) => Cardinality(found) = limit
      /\ limit > Cardinality(merged) => found = merged
      /\ \A x \in found : \A y \in merged \ found : x.score >= y.score
  <2> HIDE DEF merged
  <2>1. found \in Tops(merged, limit)
    BY DEF merged
  <2>2. QED
    BY <1>3, <2>1, TopsKnown
<1>7. /\ Cardinality(merged) \in Nat /\ Cardinality(all) \in Nat
      /\ Cardinality(merged) <= Cardinality(all)
  <2> HIDE DEF merged, all
  <2> QED BY <1>3, <1>4, FS_CardinalityType, FS_Subset
<1>8. CASE \A i \in DOMAIN union : r[i] = Hits(union[i])
  <2>1. merged = all
    BY <1>8
  <2> HIDE DEF merged, all
  <2>2. found \in Tops(all, limit)
    BY <2>1 DEF merged
  <2>3. QED
    BY <2>2 DEF all
<1>9. CASE \E i \in DOMAIN union : r[i] # Hits(union[i])
  <2>1. limit <= Cardinality(merged)
    BY <1>2, <1>5, <1>9
  <2>2. limit <= Cardinality(all) /\ Cardinality(found) = limit /\ found \subseteq all
    BY <2>1, <1>4, <1>6, <1>7
  <2>3. \A x \in merged : x.score \in Int
    <3>1. TAKE x \in merged
    <3>2. PICK i \in DOMAIN union : x \in copies(i, r[i])
      OBVIOUS
    <3>3. PICK c \in r[i] : x = PrefixCell(union[i].graph, c)
      BY <3>2
    <3>4. IsCell(c)
      BY <1>1, <1>2 DEF IsStore
    <3>5. QED
      BY <3>3, <3>4, PrefixedCell, ScoreIsInt
  <2>4. ASSUME NEW x \in found, NEW y \in all \ found
        PROVE  x.score >= y.score
    <3>1. CASE y \in merged
      BY <1>6, <2>4, <3>1
    <3>2. CASE y \notin merged
      <4>1. PICK i \in DOMAIN union : y \in copies(i, Hits(union[i]))
        BY <2>4
      <4>2. PICK c \in Hits(union[i]) : y = PrefixCell(union[i].graph, c)
        BY <4>1
      <4>3. c \notin r[i] /\ Cardinality(r[i]) = limit
        BY <1>2, <3>2, <4>2
      <4>4. ASSUME NEW z \in copies(i, r[i])
            PROVE  z.score >= y.score
        <5>1. PICK d \in r[i] : z = PrefixCell(union[i].graph, d)
          BY <4>4
        <5>2. IsCell(d) /\ IsCell(c)
          BY <1>1, <1>2, <4>2, <5>1 DEF IsStore
        <5>3. d.score >= c.score
          BY <1>2, <4>2, <4>3, <5>1
        <5>4. QED
          BY <4>2, <5>1, <5>2, <5>3, PrefixedCell
      <4>5. y.score \in Int
        <5>1. IsCell(c)
          BY <1>1, <4>2 DEF IsStore
        <5>2. QED
          BY <4>2, <5>1, PrefixedCell, ScoreIsInt
      <4>6. CASE copies(i, r[i]) \subseteq found
        <5>1. copies(i, r[i]) = found
          <6>1. IsFiniteSet(found)
            BY <1>3, <1>6, FS_Subset
          <6>2. Cardinality(copies(i, r[i])) = Cardinality(found)
            BY <1>5, <2>2, <4>3
          <6> HIDE DEF copies
          <6>3. QED
            BY <4>6, <6>1, <6>2, FS_Subset
        <5>2. QED
          BY <4>4, <5>1
      <4>7. CASE ~(copies(i, r[i]) \subseteq found)
        <5>1. PICK z \in copies(i, r[i]) : z \notin found
          BY <4>7
        <5>2. z \in merged /\ x \in merged
          BY <1>6, <2>4, <5>1
        <5>3. x.score >= z.score /\ z.score >= y.score
          BY <1>6, <4>4, <5>1, <5>2
        <5>4. QED
          BY <2>3, <4>5, <5>2, <5>3
      <4>8. QED
        BY <4>6, <4>7
    <3>3. QED
      BY <3>1, <3>2
  <2> HIDE DEF merged, all
  <2>5. found \in Tops(all, limit)
    BY <1>3, <2>2, <2>4, TopsMade
  <2>6. QED
    BY <2>5 DEF all
<1>10. QED
  BY <1>8, <1>9

\* The best of the bests of each member are the best of the whole union.
LEMMA UnionSearches ==
    ASSUME NEW union, IsUnion(union), NEW limit \in Nat
    PROVE  MergeKeepsBest(union, limit)
<1> DEFINE answers == [i \in DOMAIN union |-> Tops(Hits(union[i]), limit)]
           merged(r) == UNION {{PrefixCell(union[i].graph, c) : c \in r[i]} : i \in DOMAIN union}
<1>1. SUFFICES ASSUME NEW found \in FederatedSearch(union, limit)
               PROVE  found \in Tops(UNION {{PrefixCell(union[i].graph, c) : c \in Hits(union[i])} :
                                              i \in DOMAIN union}, limit)
  BY DEF MergeKeepsBest
<1>2. PICK r \in [DOMAIN union -> UNION {answers[i] : i \in DOMAIN union}] :
         /\ \A i \in DOMAIN union : r[i] \in answers[i]
         /\ found \in Tops(merged(r), limit)
  BY DEF FederatedSearch
<1>3. \A i \in DOMAIN union : r[i] \in Tops(Hits(union[i]), limit)
  BY <1>2
<1>4. QED
  BY <1>2, <1>3, CutTwice

-----------------------------------------------------------------------------
(* What every question is *)

\* A question is one of those that were given.
Asked ==
    \/ \E topic \in Topics : Raised(topic)
    \/ \E g \in Graphs  : question = [of |-> "overlay", overlay |-> g]
    \/ \E f \in Filings : question = [of |-> "filing", input |-> f]
    \/ \E u \in Unions  : question = [of |-> "union", union |-> u]
    \/ \E t \in Tables  : question = [of |-> "listing", cells |-> t]
    \/ \E m \in Memories, r \in Requests : question = [of |-> "packet", cells |-> m, opts |-> r]
    \/ \E b \in Beliefs  : question = [of |-> "belief", cells |-> b]
    \/ \E n \in Lines    : question = [of |-> "line", node |-> n]
    \/ \E n \in Netlists : question = [of |-> "netlist", nodes |-> n]
    \/ \E s \in Specs, r \in Rounds : question = [of |-> "program", spec |-> s, rounds |-> r]

\* The question is always one of the initial ones, or one that Ask put.
LEMMA AlwaysAsked == Spec => []Asked
<1>1. Init => Asked
  BY DEF Init, Asked
<1>2. Asked /\ [Next]_question => Asked'
  <2>1. SUFFICES ASSUME Asked, [Next]_question
                 PROVE  Asked'
    OBVIOUS
  <2>2. CASE UNCHANGED question
    BY <2>1, <2>2 DEF Asked, Raised
  <2>3. CASE Next
    BY <2>3 DEF Next, AskOverlay, AskFiling, AskUnion, AskListing, AskPacket, AskBelief,
                AskLine, AskNetlist, AskProgram, Asked
  <2>4. QED
    BY <2>1, <2>2, <2>3
<1>3. QED
  BY <1>1, <1>2, PTL DEF Spec

\* Several graphs read as one (UnionsReadAsOne), for any stores under names of
\* their own: what they show is found under the key it is shown with, a prefix
\* stands for the one cell it fits, and no hit that is cut off beats one that
\* is kept.
THEOREM ReadingUnions == Spec => []UnionsReadAsOne
<1>1. Asked => UnionsReadAsOne
  <2>1. SUFFICES ASSUME Asked, About("union")
                 PROVE  /\ ExpandsTo(question.union)
                        /\ \A r \in References : PrefixMeansOne(question.union, r)
                        /\ \A l \in Limits : MergeKeepsBest(question.union, l)
    BY DEF UnionsReadAsOne
  <2>2. question.union \in Unions
    BY <2>1 DEF Asked, About, Raised
  <2>3. IsUnion(question.union)
    BY <2>2, UnionsAssumption
  <2>4. QED
    BY <2>3, UnionExpands, UnionPrefixes, UnionSearches, UnionsAssumption
<1>2. QED
  BY <1>1, AlwaysAsked, PTL

\* A program remembers what it saw (ProgramsRemember), over every history of
\* members whose measured values are numbers: a watch and a drift trip where
\* two runs differ by the delta, a trend holds the values of its last runs, an
\* allocation is news where the selection changed.
THEOREM ReadingPrograms == Spec => []ProgramsRemember
<1>1. Asked => ProgramsRemember
  <2>1. SUFFICES ASSUME Asked, About("program")
                 PROVE  P!RunsRemember(question.spec, question.rounds)
    BY DEF ProgramsRemember
  <2>2. question.spec \in Specs /\ question.rounds \in Rounds
    BY <2>1 DEF Asked, About, Raised
  <2>3. IsSpec(question.spec) /\ IsRounds(question.rounds)
    BY <2>2, ProgramsAssumption DEF IsSpec, IsRounds
  <2>4. QED
    BY <2>2, <2>3, ProgramsAssumption, ProgramRemembers
<1>2. QED
  BY <1>1, AlwaysAsked, PTL

\* An interval says where it ends.
LEMMA SameEnd ==
    ASSUME NEW a \in Nat, NEW b \in Nat, 1..a = 1..b
    PROVE  a = b
<1>1. CASE a < b
  BY <1>1, b \in 1..b
<1>2. CASE b < a
  BY <1>2, a \in 1..a
<1>3. QED
  BY <1>1, <1>2


-----------------------------------------------------------------------------
(* What a tick changes *)

\* Only the scores of a cell change, and everything they are computed from but
\* the effective confidence of others stays.
Same(c, d) ==
    /\ DOMAIN c = DOMAIN d /\ c = [f \in DOMAIN c |-> c[f]] /\ d = [f \in DOMAIN d |-> d[f]]
    /\ \A f \in DOMAIN c \ {"currency", "salience", "effective"} : c[f] = d[f]

Decayed(c, now) ==
    [currency |-> IF c.pinned THEN c.currency
                  ELSE Currency(c.currencyC0, Max({0, now - c.updatedAt}), Tau[c.stability]),
     salience |-> IF c.pinned THEN c.salience
                  ELSE SalienceDecay(c.salienceSeed,
                          Max({0, now - IF c.salientAt = 0 THEN c.updatedAt ELSE c.salientAt}))]

Weighed(c, mass) == EffectiveConfidence(c.conf, c.calibration, mass)

IsBelief(c) ==
    /\ c = [f \in DOMAIN c |-> c[f]]
    /\ {"status", "conf", "calibration", "effective", "currencyC0", "currency", "salienceSeed",
        "salience", "updatedAt", "salientAt", "stability", "pinned", "producer", "edges"} \subseteq DOMAIN c

\* Beliefs have the fields that the scores read.
LEMMA BeliefShape == \A c \in Belief : IsBelief(c)
BY DEF Belief, IsBelief

\* Cells that differ in scores only are both beliefs.
LEMMA SameBelief == \A c, d : IsBelief(c) /\ Same(c, d) => IsBelief(d)
BY DEF IsBelief, Same

\* To differ in scores only is transitive.
LEMMA SameAgain == \A c, d, e : Same(c, d) /\ Same(d, e) => Same(c, e)
BY DEF Same

\* What recomputation sets, from the cell and its evidence.
LEMMA Recomputed ==
    ASSUME NEW cells, NEW k \in DOMAIN cells, NEW now, IsBelief(cells[k])
    PROVE  LET c == cells[k]
               r == Recompute(cells, k, now)
           IN  /\ r.currency = Decayed(c, now).currency
               /\ r.salience = Decayed(c, now).salience
               /\ r.effective = Weighed(c, NeighborMass(cells, k))
               /\ Same(c, r)
<1> DEFINE c == cells[k]
           eff == EffectiveConfidence(c.conf, c.calibration, NeighborMass(cells, k))
           cur == Currency(c.currencyC0, Max({0, now - c.updatedAt}), Tau[c.stability])
           sal == SalienceDecay(c.salienceSeed,
                          Max({0, now - IF c.salientAt = 0 THEN c.updatedAt ELSE c.salientAt}))
           r == Recompute(cells, k, now)
<1>1. Weighed(c, NeighborMass(cells, k)) = eff
  BY DEF Weighed
<1>2. Decayed(c, now) = [currency |-> IF c.pinned THEN c.currency ELSE cur,
                         salience |-> IF c.pinned THEN c.salience ELSE sal]
  BY Zenon DEF Decayed
<1>3. r = [(IF c.pinned THEN c ELSE [c EXCEPT !.currency = cur, !.salience = sal])
              EXCEPT !.effective = eff]
  BY Zenon DEF Recompute
<1> HIDE DEF eff, cur, sal, r, c
<1>4. c = [f \in DOMAIN c |-> c[f]] /\ {"currency", "salience", "effective"} \subseteq DOMAIN c
  BY DEF IsBelief, c
<1>5. QED
  <2>1. CASE c.pinned
    BY <1>1, <1>2, <1>3, <1>4, <2>1 DEF Same, c, r
  <2>2. CASE ~c.pinned
    <3>1. r = [[c EXCEPT !.currency = cur, !.salience = sal] EXCEPT !.effective = eff]
      BY <1>3, <2>2
    <3>2. /\ r.currency = cur /\ r.salience = sal /\ r.effective = eff
          /\ DOMAIN r = DOMAIN c /\ r = [f \in DOMAIN r |-> r[f]]
          /\ \A f \in DOMAIN c \ {"currency", "salience", "effective"} : c[f] = r[f]
      BY <1>4, <3>1
    <3>3. Decayed(c, now).currency = cur /\ Decayed(c, now).salience = sal
      BY <1>2, <2>2
    <3>4. Same(c, r)
      BY <1>4, <3>2 DEF Same
    <3>5. QED
      BY <1>1, <3>2, <3>3, <3>4 DEF c, r
  <2>3. QED
    BY <2>1, <2>2

AreBeliefs(cells) == cells = [k \in DOMAIN cells |-> cells[k]] /\ \A k \in DOMAIN cells : IsBelief(cells[k])

\* A tick on what another tick, or a touch, made of the cells.
LEMMA Ticked ==
    ASSUME NEW cells, NEW now, AreBeliefs(cells)
    PROVE  LET after == Tick(cells, now)
           IN  /\ AreBeliefs(after)
               /\ DOMAIN after = DOMAIN cells
               /\ \A k \in DOMAIN cells :
                     /\ Same(cells[k], after[k])
                     /\ cells[k].status # "active" => after[k] = cells[k]
                     /\ cells[k].status = "active" =>
                          /\ after[k].currency = Decayed(cells[k], now).currency
                          /\ after[k].salience = Decayed(cells[k], now).salience
                          /\ after[k].effective = Weighed(cells[k], NeighborMass(cells, k))
<1> DEFINE after == Tick(cells, now)
<1>1. /\ after = [k \in DOMAIN after |-> after[k]] /\ DOMAIN after = DOMAIN cells
      /\ \A k \in DOMAIN cells :
            after[k] = IF cells[k].status = "active" THEN Recompute(cells, k, now) ELSE cells[k]
  BY DEF Tick
<1> HIDE DEF after
<1>2. ASSUME NEW k \in DOMAIN cells
      PROVE  /\ Same(cells[k], after[k])
             /\ cells[k].status # "active" => after[k] = cells[k]
             /\ cells[k].status = "active" =>
                  /\ after[k].currency = Decayed(cells[k], now).currency
                  /\ after[k].salience = Decayed(cells[k], now).salience
                  /\ after[k].effective = Weighed(cells[k], NeighborMass(cells, k))
  <2>1. IsBelief(cells[k])
    BY DEF AreBeliefs
  <2>2. CASE cells[k].status = "active"
    BY <1>1, <2>1, <2>2, Recomputed
  <2>3. CASE cells[k].status # "active"
    BY <1>1, <2>1, <2>3 DEF Same, IsBelief
  <2>4. QED
    BY <2>2, <2>3
<1>3. AreBeliefs(after)
  BY <1>1, <1>2, SameBelief DEF AreBeliefs
<1>4. QED
  BY <1>1, <1>2, <1>3 DEF after

\* What decays from an anchor decays to the same, whatever was in between.
LEMMA DecaysAlike ==
    ASSUME NEW c, NEW d, NEW now, IsBelief(c), Same(c, d), IsBelief(d), ~c.pinned
    PROVE  Decayed(c, now) = Decayed(d, now)
<1>1. /\ c.currencyC0 = d.currencyC0 /\ c.updatedAt = d.updatedAt /\ c.stability = d.stability
      /\ c.salienceSeed = d.salienceSeed /\ c.salientAt = d.salientAt /\ c.pinned = d.pinned
  BY DEF IsBelief, Same
<1>2. QED
  BY <1>1 DEF Decayed

-----------------------------------------------------------------------------
(* Decay never compounds *)

\* Decay starts from the last change, however many ticks came between.
LEMMA ScoresNeverCompound ==
    ASSUME NEW cells, AreBeliefs(cells), NEW touched \in DOMAIN cells, NEW earlier, NEW now
    PROVE  NeverCompounds(cells, touched, earlier, now)
<1> DEFINE between == TouchSalience(cells, touched, earlier)
           once    == Tick(between, now)
           first   == Tick(between, earlier)
           twice   == Tick(first, now)
<1>1. AreBeliefs(between)
  BY ZenonT(30) DEF AreBeliefs, IsBelief, TouchSalience
<1>7. DOMAIN between = DOMAIN cells
  BY DEF TouchSalience
<1> HIDE DEF between
<1>2. /\ AreBeliefs(first) /\ first = Tick(between, earlier)
      /\ DOMAIN once = DOMAIN between /\ DOMAIN first = DOMAIN between /\ DOMAIN twice = DOMAIN between
  BY <1>1, Ticked
<1>8. first = Tick(between, earlier) /\ twice = Tick(first, now)
  OBVIOUS
<1>9. NeverCompounds(cells, touched, earlier, now)
        <=> \A k \in DOMAIN cells : once[k].currency = twice[k].currency /\ once[k].salience = twice[k].salience
  BY Zenon DEF NeverCompounds, between
<1> HIDE DEF first, twice
<1>3. ASSUME NEW k \in DOMAIN once
      PROVE  once[k].currency = twice[k].currency /\ once[k].salience = twice[k].salience
  <2>1. k \in DOMAIN between /\ k \in DOMAIN first
    BY <1>2, <1>3
  <2>2. IsBelief(between[k]) /\ IsBelief(first[k])
    BY <1>1, <1>2, <2>1 DEF AreBeliefs
  <2>3. Same(between[k], first[k])
    BY <1>1, <1>8, <2>1, Ticked
  <2>4. between[k].status = first[k].status /\ between[k].pinned = first[k].pinned
    BY <2>2, <2>3 DEF Same, IsBelief
  <2>5. CASE between[k].status # "active"
    <3>1. once[k] = between[k] /\ first[k] = between[k]
      BY <1>1, <1>8, <2>1, <2>5, Ticked
    <3>2. twice[k] = first[k]
      BY <1>2, <1>8, <2>1, <2>4, <2>5, Ticked
    <3>3. QED
      BY <3>1, <3>2
  <2>6. CASE between[k].status = "active"
    <3>1. /\ once[k].currency = Decayed(between[k], now).currency
          /\ once[k].salience = Decayed(between[k], now).salience
          /\ first[k].currency = Decayed(between[k], earlier).currency
          /\ first[k].salience = Decayed(between[k], earlier).salience
      BY <1>1, <1>8, <2>1, <2>6, Ticked
    <3>6. first[k].status = "active" /\ AreBeliefs(first)
      BY <1>2, <2>4, <2>6
    <3>2. /\ twice[k].currency = Decayed(first[k], now).currency
          /\ twice[k].salience = Decayed(first[k], now).salience
      BY ONLY <1>8, <2>1, <3>6, Ticked
    <3>3. CASE between[k].pinned
      BY <2>4, <3>1, <3>2, <3>3 DEF Decayed
    <3>4. CASE ~between[k].pinned
      BY <2>2, <2>3, <3>1, <3>2, <3>4, DecaysAlike
    <3>5. QED
      BY <3>3, <3>4
  <2>7. QED
    BY <2>5, <2>6
<1>4. QED
  BY <1>2, <1>3, <1>7, <1>9

-----------------------------------------------------------------------------
(* Sums *)

\* A sum adds up one number after another.
LEMMA TotalRecursion ==
    ASSUME NEW s, Len(s) \in Nat
    PROVE  \E upTo : /\ Total(s) = upTo[Len(s)]
                     /\ upTo[0] = 0
                     /\ \A i \in 1..Len(s) : upTo[i] = upTo[i - 1] + s[i]
<1> DEFINE size == Len(s)
           Sums(h, k) == h = [i \in 0..k |-> IF i = 0 THEN 0 ELSE h[i - 1] + s[i]]
           S == {k \in Nat : \E h : Sums(h, k)}
<1>1. 0 \in S
  <2>1. Sums([i \in 0..0 |-> 0], 0)
    OBVIOUS
  <2>2. QED
    BY <2>1
<1>2. ASSUME NEW k \in Nat, k \in S
      PROVE  k + 1 \in S
  <2>1. PICK h : Sums(h, k)
    BY <1>2
  <2> DEFINE top == h[k] + s[k + 1]
             next == [i \in 0..(k + 1) |-> IF i = k + 1 THEN top ELSE h[i]]
             made == [i \in 0..(k + 1) |-> IF i = 0 THEN 0 ELSE next[i - 1] + s[i]]
  <2>2. ASSUME NEW i \in 0..(k + 1)
        PROVE  next[i] = made[i]
    <3>1. CASE i = k + 1
      BY <3>1
    <3>2. CASE i = 0
      BY <2>1, <3>2
    <3>3. CASE i \in 1..k
      <4>1. i - 1 \in 0..k
        BY <3>3
      <4>2. next[i] = h[i] /\ next[i - 1] = h[i - 1]
        BY <3>3, <4>1
      <4>3. QED
        BY <2>1, <3>3, <4>2
    <3>4. QED
      BY <3>1, <3>2, <3>3
  <2>3. next = made
    BY <2>2
  <2>4. Sums(next, k + 1)
    BY <2>3
  <2> HIDE DEF Sums, next
  <2>5. QED
    BY <2>4
<1>3. size \in S
  <2> HIDE DEF S
  <2> QED BY <1>1, <1>2, Induction
<1> DEFINE out == CHOOSE h : Sums(h, size)
<1>4. Sums(out, size)
  <2> HIDE DEF Sums
  <2> QED BY <1>3
<1>5. Total(s) = out[size]
  BY DEF Total
<1> HIDE DEF out
<1>6. \A i \in 0..size : out[i] = IF i = 0 THEN 0 ELSE out[i - 1] + s[i]
  BY <1>4
<1>7. QED
  BY <1>5, <1>6

\* Of two sums the one whose numbers are all at least as great is as great.
SumsTo(s, n, upTo) ==
    /\ Total(s) = upTo[n]
    /\ upTo[0] = 0
    /\ \A i \in 1..n : upTo[i] = upTo[i - 1] + s[i]

\* The partial sums of a sequence exist, and the last one is its total.
LEMMA TotalOf ==
    ASSUME NEW n \in Nat, NEW s, Len(s) = n
    PROVE  \E upTo : SumsTo(s, n, upTo)
BY Zenon, TotalRecursion DEF SumsTo

\* A sum of greater terms is greater.
LEMMA TotalGrows ==
    ASSUME NEW n \in Nat, NEW s \in [1..n -> Int], NEW t \in [1..n -> Int],
           \A i \in 1..n : s[i] <= t[i]
    PROVE  Total(s) \in Int /\ Total(t) \in Int /\ Total(s) <= Total(t)
<1>1. Len(s) = n /\ Len(t) = n
  <2>1. s \in Seq(Int) /\ t \in Seq(Int)
    BY SeqDef
  <2>2. /\ DOMAIN s = 1..Len(s) /\ Len(s) \in Nat
        /\ DOMAIN t = 1..Len(t) /\ Len(t) \in Nat
    BY ONLY <2>1, LenProperties
  <2>3. DOMAIN s = 1..n /\ DOMAIN t = 1..n
    OBVIOUS
  <2>4. QED
    BY ONLY <2>2, <2>3, SameEnd, n \in Nat
<1>2. PICK a : SumsTo(s, n, a)
  BY <1>1, TotalOf
<1>3. PICK b : SumsTo(t, n, b)
  BY <1>1, TotalOf
<1> DEFINE S == {k \in Nat : k <= n => a[k] \in Int /\ b[k] \in Int /\ a[k] <= b[k]}
<1>4. 0 \in S
  BY <1>2, <1>3 DEF SumsTo
<1>5. ASSUME NEW k \in Nat, k \in S
      PROVE  k + 1 \in S
  <2>1. SUFFICES ASSUME k + 1 <= n
                 PROVE  a[k + 1] \in Int /\ b[k + 1] \in Int /\ a[k + 1] <= b[k + 1]
    OBVIOUS
  <2>2. k + 1 \in 1..n /\ (k + 1) - 1 = k
    BY <2>1
  <2>3. a[k + 1] = a[k] + s[k + 1] /\ b[k + 1] = b[k] + t[k + 1]
    BY <1>2, <1>3, <2>2 DEF SumsTo
  <2>4. a[k] \in Int /\ b[k] \in Int /\ a[k] <= b[k]
    BY <1>5, <2>1
  <2>5. s[k + 1] \in Int /\ t[k + 1] \in Int /\ s[k + 1] <= t[k + 1]
    BY <2>2
  <2>6. QED
    BY <2>3, <2>4, <2>5
<1>6. n \in S
  <2> HIDE DEF S
  <2> QED BY <1>4, <1>5, Induction
<1>7. QED
  BY <1>2, <1>3, <1>6 DEF SumsTo

-----------------------------------------------------------------------------
(* Being corrected never earns trust *)

\* Division by a positive number is monotone.
LEMMA ShareGrows ==
    ASSUME NEW x \in Int, NEW y \in Int, NEW d \in Int, x <= y, d > 0
    PROVE  x \div d \in Int /\ y \div d \in Int /\ x \div d <= y \div d
<1> DEFINE p == x \div d
           q == y \div d
<1>1. /\ p \in Int /\ q \in Int
      /\ d * p <= x /\ x < d * (p + 1)
      /\ d * q <= y /\ y < d * (q + 1)
  OBVIOUS
<1> HIDE DEF p, q
<1>2. SUFFICES ASSUME p >= q + 1
               PROVE  FALSE
  BY <1>1 DEF p, q
<1>3. d * (q + 1) <= d * p
  BY <1>1, <1>2
<1>4. d * (q + 1) \in Int /\ d * p \in Int
  BY <1>1
<1>5. QED
  BY <1>1, <1>3, <1>4

\* The greatest of two numbers.
LEMMA MaxOfTwo ==
    ASSUME NEW a \in Int, NEW b \in Int
    PROVE  Max({a, b}) = IF a < b THEN b ELSE a
<1> DEFINE m == IF a < b THEN b ELSE a
<1>1. m \in {a, b} /\ \A y \in {a, b} : m >= y
  OBVIOUS
<1>2. \A x \in {a, b} : (\A y \in {a, b} : x >= y) => x = m
  OBVIOUS
<1> HIDE DEF m
<1>3. Max({a, b}) = m
  BY <1>1, <1>2 DEF Max
<1>4. QED
  BY <1>3 DEF m

\* To retire a cell never raises the confidence in its author.
LEMMA CorrectionsNeverReward ==
    ASSUME NEW cells \in Seq(Belief), NEW key \in DOMAIN cells
    PROVE  CorrectionNeverRewards(cells, key)
<1> DEFINE n == Len(cells)
           actor == cells[key].producer
           corrected == [cells EXCEPT ![key].status = "superseded"]
           Errs(c) == [k \in DOMAIN c |->
                          IF c[k].producer = actor THEN SquaredError(Outcome(c, k)) ELSE 0]
<1>1. SUFFICES ASSUME cells[key].conf >= 50,
                      \A e \in Range(cells[key].edges) :
                          e.relation = "contradicts" =>
                            e.target \in DOMAIN cells /\ cells[e.target].producer # actor
               PROVE  CalibrationFactor(corrected, actor) <= CalibrationFactor(cells, actor)
  BY Zenon DEF CorrectionNeverRewards
<1>2. n \in Nat /\ DOMAIN cells = 1..n /\ \A k \in 1..n : cells[k] \in Belief
  OBVIOUS
<1>3. /\ DOMAIN corrected = 1..n
      /\ corrected[key] = [cells[key] EXCEPT !.status = "superseded"]
      /\ \A k \in 1..n \ {key} : corrected[k] = cells[k]
  BY <1>2
<1>4. \A k \in 1..n : /\ corrected[k].producer = cells[k].producer
                      /\ corrected[k].conf = cells[k].conf
                      /\ corrected[k].edges = cells[k].edges
  BY <1>2, <1>3 DEF Belief
<1>5. corrected[key].status = "superseded"
  BY <1>2, <1>3 DEF Belief
<1> HIDE DEF corrected
<1>6. WrittenBy(corrected, actor) = WrittenBy(cells, actor)
  BY <1>2, <1>3, <1>4 DEF WrittenBy
<1>7. ASSUME NEW k \in 1..n, k # key, cells[k].producer = actor
      PROVE  HasActiveContradiction(corrected, k) = HasActiveContradiction(cells, k)
  <2>1. ASSUME NEW j \in 1..n, NEW e \in Range(cells[j].edges), e.target = k, e.relation = "contradicts"
        PROVE  j # key
    BY <1>1, <1>7, <2>1
  <2>2. ASSUME NEW j \in 1..n
        PROVE  (/\ corrected[j].status = "active"
                /\ \E e \in Range(corrected[j].edges) : e.target = k /\ e.relation = "contradicts")
               <=>
               (/\ cells[j].status = "active"
                /\ \E e \in Range(cells[j].edges) : e.target = k /\ e.relation = "contradicts")
    <3>1. CASE j = key
      BY <1>4, <2>1, <3>1, <1>5
    <3>2. CASE j # key
      BY <1>3, <3>2
    <3>3. QED
      BY <3>1, <3>2
  <2>3. QED
    BY <1>2, <1>3, <2>2, Zenon DEF HasActiveContradiction
<1>8. ASSUME NEW k \in 1..n, cells[k].producer = actor
      PROVE  /\ SquaredError(Outcome(cells, k)) \in Int
             /\ SquaredError(Outcome(corrected, k)) \in Int
             /\ SquaredError(Outcome(cells, k)) <= SquaredError(Outcome(corrected, k))
  <2> DEFINE x == cells[k].conf
             b == cells[k].status = "superseded" \/ HasActiveContradiction(cells, k)
             d == corrected[k].status = "superseded" \/ HasActiveContradiction(corrected, k)
  <2>1. x \in Int /\ corrected[k].conf = x
    BY <1>2, <1>4 DEF Belief
  <2>2. SquaredError(Outcome(cells, k)) = (x - IF b THEN 0 ELSE 100) * (x - IF b THEN 0 ELSE 100)
    BY Zenon DEF SquaredError, Outcome
  <2>3. SquaredError(Outcome(corrected, k)) = (x - IF d THEN 0 ELSE 100) * (x - IF d THEN 0 ELSE 100)
    BY Zenon, <2>1 DEF SquaredError, Outcome
  <2>4. b = d \/ (d /\ x >= 50)
    <3>1. CASE k = key
      BY <1>1, <1>5, <3>1
    <3>2. CASE k # key
      BY <1>3, <1>7, <1>8, <3>2, Zenon
    <3>3. QED
      BY <3>1, <3>2
  <2>5. \A y \in Int : y >= 50 => (y - 100) * (y - 100) <= (y - 0) * (y - 0)
    OBVIOUS
  <2> HIDE DEF x, b, d
  <2>6. QED
    <3>1. CASE b = d
      BY <2>1, <2>2, <2>3, <3>1
    <3>2. CASE d /\ x >= 50
      BY <2>1, <2>2, <2>3, <2>5, <3>2
    <3>3. QED
      BY <2>4, <3>1, <3>2
<1>9. Total(Errs(cells)) \in Int /\ Total(Errs(corrected)) \in Int /\ Total(Errs(cells)) <= Total(Errs(corrected))
  <2>1. /\ Errs(cells) \in [1..n -> Int] /\ Errs(corrected) \in [1..n -> Int]
        /\ \A k \in 1..n : Errs(cells)[k] <= Errs(corrected)[k]
    BY <1>2, <1>3, <1>4, <1>8
  <2> HIDE DEF Errs
  <2>2. QED
    BY <1>2, <2>1, TotalGrows
<1> DEFINE m == Cardinality(WrittenBy(cells, actor))
<1>10. m \in Nat
  <2>1. IsFiniteSet(1..n) /\ WrittenBy(cells, actor) \subseteq 1..n
    BY <1>2, FS_Interval, 1 \in Int, n \in Int DEF WrittenBy
  <2>2. QED
    BY <2>1, FS_Subset, FS_CardinalityType
<1>11. /\ BrierScore(cells, actor) = Total(Errs(cells)) \div (100 * m)
       /\ BrierScore(corrected, actor) = Total(Errs(corrected)) \div (100 * m)
  BY <1>6 DEF BrierScore
<1>12. CASE m < MinOutcomes
  BY <1>6, <1>12 DEF CalibrationFactor
<1>13. CASE ~(m < MinOutcomes)
  <2>1. 100 * m \in Int /\ 100 * m > 0
    BY <1>10, <1>13 DEF MinOutcomes
  <2> HIDE DEF m, Errs
  <2>2. /\ BrierScore(cells, actor) \in Int /\ BrierScore(corrected, actor) \in Int
        /\ BrierScore(cells, actor) <= BrierScore(corrected, actor)
    BY <1>9, <1>11, <2>1, ShareGrows
  <2>3. /\ CalibrationFactor(cells, actor) = Max({50, 100 - BrierScore(cells, actor)})
        /\ CalibrationFactor(corrected, actor) = Max({50, 100 - BrierScore(corrected, actor)})
    BY <1>6, <1>13 DEF CalibrationFactor, m
  <2>4. \A x \in Int : 100 - x \in Int /\ Max({50, 100 - x}) = IF 50 < 100 - x THEN 100 - x ELSE 50
    BY MaxOfTwo
  <2>5. QED
    BY SMTT(30), <2>2, <2>3, <2>4
<1>14. QED
  BY <1>12, <1>13

-----------------------------------------------------------------------------
(* Ticks come to rest *)

\* One tick comes after another.
LEMMA TicksRecursion ==
    ASSUME NEW cells, NEW now, NEW most \in Nat
    PROVE  \E after : /\ Ticks(cells, now, most) = after[most]
                      /\ after[0] = cells
                      /\ \A i \in 1..most : after[i] = Tick(after[i - 1], now)
<1> DEFINE After(h, k) == h = [i \in 0..k |-> IF i = 0 THEN cells ELSE Tick(h[i - 1], now)]
           S == {k \in Nat : \E h : After(h, k)}
<1>1. 0 \in S
  <2>1. After([i \in 0..0 |-> cells], 0)
    OBVIOUS
  <2>2. QED
    BY <2>1
<1>2. ASSUME NEW k \in Nat, k \in S
      PROVE  k + 1 \in S
  <2>1. PICK h : After(h, k)
    BY <1>2
  <2> DEFINE top == Tick(h[k], now)
             next == [i \in 0..(k + 1) |-> IF i = k + 1 THEN top ELSE h[i]]
             made == [i \in 0..(k + 1) |-> IF i = 0 THEN cells ELSE Tick(next[i - 1], now)]
  <2>2. ASSUME NEW i \in 0..(k + 1)
        PROVE  next[i] = made[i]
    <3>1. CASE i = k + 1
      BY <3>1
    <3>2. CASE i = 0
      BY <2>1, <3>2
    <3>3. CASE i \in 1..k
      <4>1. i - 1 \in 0..k
        BY <3>3
      <4>2. next[i] = h[i] /\ next[i - 1] = h[i - 1]
        BY <3>3, <4>1
      <4>3. QED
        BY <2>1, <3>3, <4>2
    <3>4. QED
      BY <3>1, <3>2, <3>3
  <2>3. next = made
    BY <2>2
  <2>4. After(next, k + 1)
    BY <2>3
  <2> HIDE DEF After, next
  <2>5. QED
    BY <2>4
<1>3. most \in S
  <2> HIDE DEF S
  <2> QED BY <1>1, <1>2, Induction
<1> DEFINE out == CHOOSE h : After(h, most)
<1>4. After(out, most)
  <2> HIDE DEF After
  <2> QED BY <1>3
<1>5. Ticks(cells, now, most) = out[most]
  BY DEF Ticks
<1> HIDE DEF out
<1>6. \A i \in 0..most : out[i] = IF i = 0 THEN cells ELSE Tick(out[i - 1], now)
  BY <1>4
<1>7. QED
  BY <1>5, <1>6


\* What the edges of one cell say of another.
Said(from, key) ==
    [i \in DOMAIN from.edges |->
        IF from.edges[i].target = key /\ from.edges[i].weight # 0
        THEN from.edges[i].weight * from.effective ELSE 0]

\* The evidence of a cell is the same if what bears on it is.
LEMMA EvidenceStays ==
    ASSUME NEW cells, NEW after, NEW key, DOMAIN cells = DOMAIN after,
           \A k \in DOMAIN cells : cells[k].edges = after[k].edges,
           \A k \in BearsOn(cells, {key}) : cells[k].effective = after[k].effective
    PROVE  NeighborMass(cells, key) = NeighborMass(after, key)
<1>1. \A c : Evidence(c, key) = FlattenSeq([k \in DOMAIN c |-> Said(c[k], key)])
  BY Zenon DEF Evidence, Said
<1>2. ASSUME NEW k \in DOMAIN cells
      PROVE  Said(cells[k], key) = Said(after[k], key)
  <2>1. CASE k \in BearsOn(cells, {key})
    BY <2>1 DEF Said
  <2>2. CASE k \notin BearsOn(cells, {key})
    <3>1. \A i \in DOMAIN cells[k].edges :
             ~(cells[k].edges[i].target = key /\ cells[k].edges[i].weight # 0)
      BY <2>2 DEF BearsOn, Range
    <3>2. QED
      BY <3>1 DEF Said
  <2>3. QED
    BY <2>1, <2>2
<1>3. Evidence(cells, key) = Evidence(after, key)
  <2>1. [k \in DOMAIN cells |-> Said(cells[k], key)] = [k \in DOMAIN after |-> Said(after[k], key)]
    BY <1>2
  <2>2. QED
    BY <1>1, <2>1
<1>4. QED
  BY <1>3, Zenon DEF NeighborMass

\* A score that moves in the tick after a tick is of a cell on which one bears
\* whose scores moved in that tick.
LEMMA MovedByOthers ==
    ASSUME NEW cells, NEW now, AreBeliefs(cells), NEW d, d = Tick(cells, now),
           NEW k \in DOMAIN cells, Tick(d, now)[k] # d[k]
    PROVE  \E j \in BearsOn(cells, {k}) : d[j] # cells[j]
<1>1. SUFFICES ASSUME \A j \in BearsOn(cells, {k}) : d[j] = cells[j]
               PROVE  FALSE
  OBVIOUS
<1> DEFINE e == Tick(d, now)
<1>2. /\ AreBeliefs(d) /\ DOMAIN d = DOMAIN cells
      /\ \A j \in DOMAIN cells : Same(cells[j], d[j])
      /\ cells[k].status # "active" => d[k] = cells[k]
      /\ cells[k].status = "active" =>
           /\ d[k].currency = Decayed(cells[k], now).currency
           /\ d[k].salience = Decayed(cells[k], now).salience
           /\ d[k].effective = Weighed(cells[k], NeighborMass(cells, k))
  BY Ticked
<1>3. /\ Same(d[k], e[k])
      /\ d[k].status # "active" => e[k] = d[k]
      /\ d[k].status = "active" =>
           /\ e[k].currency = Decayed(d[k], now).currency
           /\ e[k].salience = Decayed(d[k], now).salience
           /\ e[k].effective = Weighed(d[k], NeighborMass(d, k))
  BY ONLY <1>2, Ticked, k \in DOMAIN cells
<1> HIDE DEF e
<1>4. IsBelief(cells[k]) /\ IsBelief(d[k]) /\ Same(cells[k], d[k])
  BY <1>2 DEF AreBeliefs
<1>5. /\ cells[k].status = d[k].status /\ cells[k].pinned = d[k].pinned
      /\ cells[k].conf = d[k].conf /\ cells[k].calibration = d[k].calibration
  BY <1>4 DEF Same, IsBelief
<1>6. cells[k].status = "active" /\ d[k].status = "active"
  BY <1>3, <1>5 DEF e
<1>7. \A j \in DOMAIN cells : cells[j].edges = d[j].edges
  BY <1>2 DEF Same, IsBelief, AreBeliefs
<1>8. NeighborMass(cells, k) = NeighborMass(d, k)
  <2>1. \A j \in BearsOn(cells, {k}) : cells[j].effective = d[j].effective
    BY <1>1
  <2>2. QED
    BY <1>2, <1>7, <2>1, EvidenceStays
<1>9. e[k].effective = d[k].effective
  BY <1>2, <1>3, <1>5, <1>6, <1>8 DEF Weighed
<1>10. e[k].currency = d[k].currency /\ e[k].salience = d[k].salience
  <2>1. CASE d[k].pinned
    BY <1>3, <1>6, <2>1 DEF Decayed
  <2>2. CASE ~d[k].pinned
    BY <1>2, <1>3, <1>4, <1>5, <1>6, <2>2, DecaysAlike
  <2>3. QED
    BY <2>1, <2>2
<1>11. e[k] = d[k]
  <2>1. \A f \in DOMAIN d[k] : e[k][f] = d[k][f]
    BY <1>3, <1>9, <1>10 DEF Same
  <2>2. QED
    BY <1>3, <2>1 DEF Same
<1>12. QED
  BY <1>11 DEF e

\* All that bears on a cell, at once or through others.
Behind(cells, key) ==
    {j \in DOMAIN cells : \A S \in SUBSET DOMAIN cells :
        BearsOn(cells, {key}) \cup BearsOn(cells, S) \subseteq S => j \in S}

\* Where no cell bears on itself, fewer are behind what bears on a cell.
LEMMA FewerBehind ==
    ASSUME NEW cells, IsFiniteSet(DOMAIN cells), NEW k \in DOMAIN cells,
           NEW j \in BearsOn(cells, {k}), ~BearsOnItself(cells, j)
    PROVE  /\ Cardinality(Behind(cells, j)) \in Nat /\ Cardinality(Behind(cells, k)) \in Nat
           /\ Cardinality(Behind(cells, j)) < Cardinality(Behind(cells, k))
<1>1. j \in DOMAIN cells
  BY DEF BearsOn
<1>2. j \in Behind(cells, k) /\ j \notin Behind(cells, j)
  BY <1>1 DEF Behind, BearsOnItself
<1>3. Behind(cells, j) \subseteq Behind(cells, k)
  <2>1. SUFFICES ASSUME NEW i \in Behind(cells, j), NEW S \in SUBSET DOMAIN cells,
                        BearsOn(cells, {k}) \cup BearsOn(cells, S) \subseteq S
                 PROVE  i \in S
    BY DEF Behind
  <2>2. j \in S
    BY <2>1
  <2>3. BearsOn(cells, {j}) \subseteq BearsOn(cells, S)
    BY <2>2 DEF BearsOn
  <2>4. QED
    BY <2>1, <2>3 DEF Behind
<1>4. IsFiniteSet(Behind(cells, k)) /\ IsFiniteSet(Behind(cells, j))
  BY FS_Subset DEF Behind
<1>5. QED
  BY <1>2, <1>3, <1>4, FS_Subset, FS_CardinalityType

\* Ticks come to rest: with each, fewer cells are behind what bears on them.
LEMMA TicksSettle ==
    ASSUME NEW cells \in Seq(Belief), NEW now
    PROVE  TickSettles(cells, now)
<1> DEFINE n == Len(cells)
<1>1. SUFFICES ASSUME \A key \in DOMAIN cells : ~BearsOnItself(cells, key)
               PROVE  Tick(Ticks(cells, now, n), now) = Ticks(cells, now, n)
  BY DEF TickSettles
<1>2. n \in Nat /\ DOMAIN cells = 1..n /\ IsFiniteSet(DOMAIN cells) /\ Cardinality(DOMAIN cells) = n
  <2>1. n \in Nat /\ DOMAIN cells = 1..n
    OBVIOUS
  <2>2. QED
    BY SMTT(30), <2>1, FS_Interval, 1 \in Int, n \in Int
<1>3. AreBeliefs(cells)
  BY BeliefShape DEF AreBeliefs
<1>4. PICK after : /\ Ticks(cells, now, n) = after[n]
                   /\ after[0] = cells
                   /\ \A i \in 1..n : after[i] = Tick(after[i - 1], now)
  BY <1>2, TicksRecursion
<1> HIDE DEF n
<1> DEFINE S == {i \in Nat : i <= n =>
                    /\ AreBeliefs(after[i]) /\ DOMAIN after[i] = DOMAIN cells
                    /\ \A k \in DOMAIN cells :
                          /\ Same(cells[k], after[i][k])
                          /\ Tick(after[i], now)[k] # after[i][k] => Cardinality(Behind(cells, k)) >= i}
<1>5. \A k \in DOMAIN cells : IsFiniteSet(Behind(cells, k)) /\ Cardinality(Behind(cells, k)) \in Nat
  BY <1>2, FS_Subset, FS_CardinalityType DEF Behind
<1>6. 0 \in S
  BY <1>3, <1>4, <1>5 DEF Same, AreBeliefs, IsBelief
<1>7. ASSUME NEW i \in Nat, i \in S
      PROVE  i + 1 \in S
  <2>1. SUFFICES ASSUME i + 1 <= n
                 PROVE  /\ AreBeliefs(after[i + 1]) /\ DOMAIN after[i + 1] = DOMAIN cells
                        /\ \A k \in DOMAIN cells :
                              /\ Same(cells[k], after[i + 1][k])
                              /\ Tick(after[i + 1], now)[k] # after[i + 1][k]
                                    => Cardinality(Behind(cells, k)) >= i + 1
    OBVIOUS
  <2>2. after[i + 1] = Tick(after[i], now)
    BY <1>2, <1>4, <2>1
  <2>3. /\ AreBeliefs(after[i]) /\ DOMAIN after[i] = DOMAIN cells
        /\ \A k \in DOMAIN cells :
              /\ Same(cells[k], after[i][k])
              /\ Tick(after[i], now)[k] # after[i][k] => Cardinality(Behind(cells, k)) >= i
    BY <1>2, <1>7, <2>1
  <2>4. /\ AreBeliefs(after[i + 1]) /\ DOMAIN after[i + 1] = DOMAIN cells
        /\ \A k \in DOMAIN cells : Same(after[i][k], after[i + 1][k])
    BY <2>2, <2>3, Ticked
  <2>5. \A k \in DOMAIN cells : Same(cells[k], after[i + 1][k])
    BY <2>3, <2>4, SameAgain
  <2>6. ASSUME NEW k \in DOMAIN cells, Tick(after[i + 1], now)[k] # after[i + 1][k]
        PROVE  Cardinality(Behind(cells, k)) >= i + 1
    <3>1. PICK j \in BearsOn(after[i], {k}) : after[i + 1][j] # after[i][j]
      BY SMTT(30), <2>2, <2>3, <2>6, MovedByOthers
    <3>2. BearsOn(after[i], {k}) = BearsOn(cells, {k})
      <4>1. \A m \in DOMAIN cells : after[i][m].edges = cells[m].edges
        <5>1. \A c, d : IsBelief(c) /\ Same(c, d) => d.edges = c.edges
          BY DEF Same, IsBelief
        <5>2. QED
          BY <1>3, <2>3, <5>1 DEF AreBeliefs
      <4>2. QED
        BY <2>3, <4>1 DEF BearsOn
    <3>3. j \in BearsOn(cells, {k}) /\ j \in DOMAIN cells
      BY <3>2 DEF BearsOn
    <3>4. Cardinality(Behind(cells, j)) >= i
      BY <2>2, <2>3, <3>1, <3>3
    <3>5. Cardinality(Behind(cells, j)) < Cardinality(Behind(cells, k))
      BY <1>1, <1>2, <3>3, FewerBehind
    <3>6. QED
      BY <1>5, <3>3, <3>4, <3>5
  <2>7. QED
    BY <2>4, <2>5, <2>6
<1>8. n \in S
  <2> HIDE DEF S
  <2> QED BY <1>2, <1>6, <1>7, Induction
<1>9. ASSUME NEW k \in DOMAIN cells
      PROVE  Tick(after[n], now)[k] = after[n][k]
  <2>1. SUFFICES ASSUME Cardinality(Behind(cells, k)) >= n
                 PROVE  FALSE
    BY <1>2, <1>8
  <2>2. Behind(cells, k) \subseteq DOMAIN cells
    BY DEF Behind
  <2>3. Behind(cells, k) = DOMAIN cells
    BY <1>2, <1>5, <2>1, <2>2, FS_Subset
  <2>4. QED
    BY <1>1, <2>3 DEF Behind, BearsOnItself
<1>10. AreBeliefs(after[n]) /\ DOMAIN after[n] = DOMAIN cells
  BY <1>2, <1>8
<1>11. Tick(after[n], now) = after[n]
  <2>1. AreBeliefs(Tick(after[n], now)) /\ DOMAIN Tick(after[n], now) = DOMAIN cells
    BY <1>10, Ticked
  <2>2. QED
    BY <1>9, <1>10, <2>1 DEF AreBeliefs
<1>12. QED
  BY <1>4, <1>11 DEF n

\* Scores hold still (ScoresHold), whatever the beliefs: where no cell bears on
\* itself, ticks come to rest after as many as there are cells; no decay is
\* compounded; and no actor gains by being corrected.
THEOREM ReadingScores == Spec => []ScoresHold
<1>1. Asked => ScoresHold
  <2>1. SUFFICES ASSUME Asked, About("belief")
                 PROVE  /\ TickSettles(question.cells, Today)
                        /\ \A k \in DOMAIN question.cells :
                              /\ NeverCompounds(question.cells, k, Today - 40, Today)
                              /\ CorrectionNeverRewards(question.cells, k)
    BY DEF ScoresHold
  <2>2. question.cells \in Beliefs
    BY <2>1 DEF Asked, About, Raised
  <2>3. question.cells \in Seq(Belief)
    BY <2>2, BeliefsAssumption
  <2>4. AreBeliefs(question.cells)
    BY <2>3, BeliefShape DEF AreBeliefs
  <2>5. QED
    BY <2>3, <2>4, TicksSettle, ScoresNeverCompound, CorrectionsNeverReward
<1>2. QED
  BY <1>1, AlwaysAsked, PTL

-----------------------------------------------------------------------------
(* What filter(), sort() and flat() return *)

\* A filter passes one place after another.
LEMMA KeptRecursion ==
    ASSUME NEW s, Len(s) \in Nat, NEW at
    PROVE  \E kept : /\ Kept(s, at) = kept[Len(s)]
                     /\ kept[0] = <<>>
                     /\ \A i \in 1..Len(s) :
                           kept[i] = IF i \in at THEN Append(kept[i - 1], s[i]) ELSE kept[i - 1]
<1> DEFINE Passes(q, i) == IF i \in at THEN Append(q, s[i]) ELSE q
           size == Len(s)
           Upto(h, k) == h = [i \in 0..k |-> IF i = 0 THEN <<>> ELSE Passes(h[i - 1], i)]
           S == {k \in Nat : \E h : Upto(h, k)}
<1> HIDE DEF Passes
<1>1. 0 \in S
  <2>1. Upto([i \in 0..0 |-> <<>>], 0)
    OBVIOUS
  <2>2. QED
    BY <2>1
<1>2. ASSUME NEW k \in Nat, k \in S
      PROVE  k + 1 \in S
  <2>1. PICK h : Upto(h, k)
    BY <1>2
  <2> DEFINE top == Passes(h[k], k + 1)
             next == [i \in 0..(k + 1) |-> IF i = k + 1 THEN top ELSE h[i]]
             made == [i \in 0..(k + 1) |-> IF i = 0 THEN <<>> ELSE Passes(next[i - 1], i)]
  <2>2. ASSUME NEW i \in 0..(k + 1)
        PROVE  next[i] = made[i]
    <3>1. CASE i = k + 1
      BY <3>1
    <3>2. CASE i = 0
      BY <2>1, <3>2
    <3>3. CASE i \in 1..k
      <4>1. i - 1 \in 0..k
        BY <3>3
      <4>2. next[i] = h[i] /\ next[i - 1] = h[i - 1]
        BY <3>3, <4>1
      <4>3. QED
        BY <2>1, <3>3, <4>2
    <3>4. QED
      BY <3>1, <3>2, <3>3
  <2>3. next = made
    BY <2>2
  <2>4. Upto(next, k + 1)
    BY <2>3
  <2> HIDE DEF Upto, next
  <2>5. QED
    BY <2>4
<1>3. size \in S
  <2> HIDE DEF S
  <2> QED BY <1>1, <1>2, Induction
<1> DEFINE out == CHOOSE h : Upto(h, size)
<1>4. Upto(out, size)
  <2> HIDE DEF Upto
  <2> QED BY <1>3
<1>5. Kept(s, at) = out[size]
  BY DEF Kept, Passes
<1> HIDE DEF out
<1>6. \A i \in 0..size : out[i] = IF i = 0 THEN <<>> ELSE Passes(out[i - 1], i)
  BY <1>4
<1>7. QED
  BY <1>5, <1>6 DEF Passes

\* The places of a list, in their order, at which its filtered members were.
Places(s, at, out, p) ==
    /\ DOMAIN p = 1..Len(out) /\ p = [j \in DOMAIN p |-> p[j]]
    /\ \A j \in 1..Len(out) : p[j] \in at /\ out[j] = s[p[j]]
    /\ \A i \in at : \E j \in 1..Len(out) : p[j] = i
    /\ \A j, k \in 1..Len(out) : j < k => p[j] < p[k]

\* What is kept of a list stands at increasing places, and at each that is
\* wanted.
LEMMA KeptPlaces ==
    ASSUME NEW S, NEW s \in Seq(S), NEW at
    PROVE  /\ Kept(s, at) \in Seq(S)
           /\ \E p : Places(s, at \cap 1..Len(s), Kept(s, at), p)
<1> DEFINE n == Len(s)
<1>1. n \in Nat /\ \A i \in 1..n : s[i] \in S
  OBVIOUS
<1>2. PICK kept : /\ Kept(s, at) = kept[n]
                  /\ kept[0] = <<>>
                  /\ \A i \in 1..n : kept[i] = IF i \in at THEN Append(kept[i - 1], s[i]) ELSE kept[i - 1]
  BY <1>1, KeptRecursion
<1> HIDE DEF n
<1> DEFINE Good(k) == kept[k] \in Seq(S) /\ \E p : Places(s, at \cap 1..k, kept[k], p)
           T == {k \in Nat : k <= n => Good(k)}
<1>3. Good(0)
  <2>1. kept[0] \in Seq(S) /\ Len(kept[0]) = 0
    BY <1>2
  <2>2. Places(s, at \cap 1..0, kept[0], [j \in 1..0 |-> 0])
    BY <2>1 DEF Places
  <2>3. QED
    BY <2>1, <2>2
<1>4. ASSUME NEW k \in Nat, k + 1 <= n, Good(k)
      PROVE  Good(k + 1)
  <2>2. k + 1 \in 1..n /\ (k + 1) - 1 = k
    BY <1>1, <1>4
  <2>3. kept[k + 1] = IF k + 1 \in at THEN Append(kept[k], s[k + 1]) ELSE kept[k]
    BY <1>2, <2>2
  <2>4. Good(k)
    BY <1>4
  <2>5. PICK p : Places(s, at \cap 1..k, kept[k], p)
    BY <2>4
  <2>6. kept[k] \in Seq(S) /\ Len(kept[k]) \in Nat /\ s[k + 1] \in S
    BY <1>1, <2>2, <2>4
  <2>7. CASE k + 1 \notin at
    <3>1. at \cap 1..(k + 1) = at \cap 1..k
      BY <2>7
    <3>2. QED
      BY <2>3, <2>5, <2>6, <2>7, <3>1
  <2>8. CASE k + 1 \in at
    <3> DEFINE m == Len(kept[k])
               q == [j \in 1..(m + 1) |-> IF j = m + 1 THEN k + 1 ELSE p[j]]
               out == kept[k + 1]
    <3>1. /\ out \in Seq(S) /\ Len(out) = m + 1 /\ out[m + 1] = s[k + 1]
          /\ \A j \in 1..m : out[j] = kept[k][j]
      BY <2>3, <2>6, <2>8, AppendProperties
    <3>2. m \in Nat
      BY <2>6
    <3>3. /\ DOMAIN p = 1..m
          /\ \A j \in 1..m : p[j] \in at \cap 1..k /\ kept[k][j] = s[p[j]]
          /\ \A i \in at \cap 1..k : \E j \in 1..m : p[j] = i
          /\ \A i, j \in 1..m : i < j => p[i] < p[j]
      BY <2>5 DEF Places
    <3> HIDE DEF m, out
    <3>4. DOMAIN q = 1..Len(out) /\ q = [j \in DOMAIN q |-> q[j]]
      BY <3>1
    <3>5. ASSUME NEW j \in 1..(m + 1)
          PROVE  q[j] \in at \cap 1..(k + 1) /\ out[j] = s[q[j]]
      <4>1. CASE j = m + 1
        BY <2>8, <3>1, <4>1
      <4>2. CASE j \in 1..m
        BY <3>1, <3>2, <3>3, <4>2
      <4>3. QED
        BY <3>2, <4>1, <4>2
    <3>6. ASSUME NEW i \in at \cap 1..(k + 1)
          PROVE  \E j \in 1..(m + 1) : q[j] = i
      <4>1. CASE i = k + 1
        <5>1. m + 1 \in 1..(m + 1) /\ q[m + 1] = i
          BY <3>2, <4>1
        <5>2. QED
          BY <5>1
      <4>2. CASE i \in 1..k
        <5>1. PICK j \in 1..m : p[j] = i
          BY <3>3, <4>2
        <5>2. j \in 1..(m + 1) /\ q[j] = i
          BY <3>2, <5>1
        <5>3. QED
          BY <5>2
      <4>3. QED
        BY <4>1, <4>2
    <3>7. ASSUME NEW i \in 1..(m + 1), NEW j \in 1..(m + 1), i < j
          PROVE  q[i] < q[j]
      <4>1. i \in 1..m
        BY <3>2, <3>7
      <4>2. q[i] = p[i] /\ p[i] \in 1..k
        BY <3>2, <3>3, <4>1
      <4>3. CASE j = m + 1
        BY <4>2, <4>3
      <4>4. CASE j \in 1..m
        BY <3>2, <3>3, <3>7, <4>1, <4>2, <4>4
      <4>5. QED
        BY <3>2, <4>3, <4>4
    <3>8. Places(s, at \cap 1..(k + 1), out, q)
      <4> HIDE DEF q
      <4> QED BY <3>1, <3>4, <3>5, <3>6, <3>7 DEF Places
    <3>9. QED
      BY <3>1, <3>8 DEF out
  <2>9. QED
    BY <2>7, <2>8
<1> HIDE DEF Good
<1>5. n \in T
  <2>1. 0 \in T
    BY <1>3
  <2>2. \A k \in Nat : k \in T => k + 1 \in T
    BY <1>1, <1>4
  <2> HIDE DEF T
  <2>3. QED
    BY <1>1, <2>1, <2>2, Induction
<1>6. Good(n)
  BY <1>1, <1>5
<1>7. QED
  BY <1>2, <1>6 DEF Good, n

\* A filter keeps what it is to keep, and nothing else.
LEMMA KeptHolds ==
    ASSUME NEW S, NEW s \in Seq(S), NEW at
    PROVE  /\ Kept(s, at) \in Seq(S)
           /\ \A x : x \in Range(Kept(s, at)) <=> \E i \in 1..Len(s) : i \in at /\ x = s[i]
<1> DEFINE out == Kept(s, at)
<1>1. out \in Seq(S) /\ DOMAIN out = 1..Len(out)
  BY KeptPlaces, LenProperties
<1>2. PICK p : Places(s, at \cap 1..Len(s), out, p)
  BY KeptPlaces
<1> HIDE DEF out
<1>3. ASSUME NEW x, x \in Range(out)
      PROVE  \E i \in 1..Len(s) : i \in at /\ x = s[i]
  <2>1. PICK j \in 1..Len(out) : x = out[j]
    BY <1>1, <1>3 DEF Range
  <2>2. p[j] \in at \cap 1..Len(s) /\ out[j] = s[p[j]]
    BY <1>2, <2>1 DEF Places
  <2>3. QED
    BY <2>1, <2>2
<1>4. ASSUME NEW i \in 1..Len(s), i \in at
      PROVE  s[i] \in Range(out)
  <2>1. PICK j \in 1..Len(out) : p[j] = i
    BY <1>2, <1>4 DEF Places
  <2>2. out[j] = s[i]
    BY <1>2, <2>1 DEF Places
  <2>3. QED
    BY <1>1, <2>1, <2>2 DEF Range
<1>5. QED
  BY <1>1, <1>3, <1>4 DEF out

\* Lists are put together one by one.
LEMMA FlattenRecursion ==
    ASSUME NEW s, Len(s) \in Nat, Len(s) # 0
    PROVE  \E flat : /\ FlattenSeq(s) = flat[Len(s)]
                     /\ flat[1] = s[1]
                     /\ \A i \in 2..Len(s) : flat[i] = flat[i - 1] \o s[i]
<1> DEFINE size == Len(s)
           Join(q, i) == q \o s[i]
           Upto(h, k) == h = [i \in 1..k |-> IF i = 1 THEN s[i] ELSE Join(h[i - 1], i)]
           S == {k \in Nat : \E h : Upto(h, k)}
<1> HIDE DEF Join
<1>1. 0 \in S
  <2>1. Upto([i \in 1..0 |-> 0], 0)
    OBVIOUS
  <2>2. QED
    BY <2>1
<1>2. ASSUME NEW k \in Nat, k \in S
      PROVE  k + 1 \in S
  <2>1. PICK h : Upto(h, k)
    BY <1>2
  <2> DEFINE top == IF k = 0 THEN s[1] ELSE Join(h[k], k + 1)
             next == [i \in 1..(k + 1) |-> IF i = k + 1 THEN top ELSE h[i]]
             made == [i \in 1..(k + 1) |-> IF i = 1 THEN s[i] ELSE Join(next[i - 1], i)]
  <2>2. ASSUME NEW i \in 1..(k + 1)
        PROVE  next[i] = made[i]
    <3>1. CASE i = k + 1
      BY <3>1
    <3>2. CASE i = 1 /\ i # k + 1
      BY <2>1, <3>2
    <3>3. CASE i \in 2..k
      <4>1. i - 1 \in 1..k
        BY <3>3
      <4>2. next[i] = h[i] /\ next[i - 1] = h[i - 1]
        BY <3>3, <4>1
      <4>3. QED
        BY <2>1, <3>3, <4>2
    <3>4. QED
      BY <3>1, <3>2, <3>3
  <2>3. next = made
    BY <2>2
  <2>4. Upto(next, k + 1)
    BY <2>3
  <2> HIDE DEF Upto, next
  <2>5. QED
    BY <2>4
<1>3. size \in S
  <2> HIDE DEF S
  <2> QED BY <1>1, <1>2, Induction
<1> DEFINE out == CHOOSE h : Upto(h, size)
<1>4. Upto(out, size)
  <2> HIDE DEF Upto
  <2> QED BY <1>3
<1>5. FlattenSeq(s) = out[size]
  BY DEF FlattenSeq, Join
<1> HIDE DEF out
<1>6. \A i \in 1..size : out[i] = IF i = 1 THEN s[i] ELSE Join(out[i - 1], i)
  BY <1>4
<1>7. out[1] = s[1] /\ \A i \in 2..size : out[i] = out[i - 1] \o s[i]
  <2>1. 1 \in 1..size /\ \A i \in 2..size : i \in 1..size /\ i # 1
    OBVIOUS
  <2>2. QED
    BY <1>6, <2>1 DEF Join
<1>8. QED
  BY <1>5, <1>7

\* A list of lists holds what each of them holds.
LEMMA FlattenHolds ==
    ASSUME NEW S, NEW n \in Nat, NEW s \in [1..n -> Seq(S)]
    PROVE  /\ FlattenSeq(s) \in Seq(S)
           /\ \A x : x \in Range(FlattenSeq(s)) <=> \E i \in 1..n : x \in Range(s[i])
<1>1. Len(s) = n
  <2>1. s \in Seq(Seq(S))
    BY SeqDef
  <2>2. DOMAIN s = 1..Len(s) /\ Len(s) \in Nat
    BY ONLY <2>1, LenProperties
  <2>3. DOMAIN s = 1..n
    OBVIOUS
  <2>4. QED
    BY ONLY <2>2, <2>3, SameEnd, n \in Nat
<1>2. CASE n = 0
  <2>1. s = <<>> /\ FlattenSeq(s) = s
    BY <1>1, <1>2 DEF FlattenSeq
  <2>2. <<>> \in Seq(S) /\ Range(<<>>) = {}
    BY DEF Range
  <2>3. ~ \E i \in 1..n : TRUE
    BY <1>2
  <2>4. FlattenSeq(s) = <<>>
    BY <2>1
  <2>5. QED
    BY ONLY <2>2, <2>3, <2>4
<1>3. CASE n # 0
  <2>1. PICK flat : /\ FlattenSeq(s) = flat[n]
                    /\ flat[1] = s[1]
                    /\ \A i \in 2..n : flat[i] = flat[i - 1] \o s[i]
    BY <1>1, <1>3, FlattenRecursion
  <2> DEFINE Good(k) == flat[k] \in Seq(S) /\ \A x : x \in Range(flat[k]) <=> \E i \in 1..k : x \in Range(s[i])
             T == {k \in Nat : k + 1 <= n => Good(k + 1)}
  <2>2. 0 \in T
    BY <1>3, <2>1
  <2>3. ASSUME NEW k \in Nat, k \in T
        PROVE  k + 1 \in T
    <3>1. SUFFICES ASSUME k + 1 + 1 <= n
                   PROVE  Good(k + 1 + 1)
      OBVIOUS
    <3>2. k + 1 + 1 \in 2..n /\ (k + 1 + 1) - 1 = k + 1 /\ k + 1 + 1 \in 1..n
      BY <3>1
    <3>3. flat[k + 1 + 1] = flat[k + 1] \o s[k + 1 + 1]
      BY <2>1, <3>2
    <3>4. Good(k + 1)
      BY <2>3, <3>1
    <3>5. s[k + 1 + 1] \in Seq(S)
      BY <3>2
    <3>6. Range(flat[k + 1 + 1]) = Range(flat[k + 1]) \cup Range(s[k + 1 + 1])
      BY <3>3, <3>4, <3>5, RangeConcatenation
    <3>7. flat[k + 1 + 1] \in Seq(S)
      BY <3>3, <3>4, <3>5, ConcatProperties
    <3>8. 1..(k + 1 + 1) = 1..(k + 1) \cup {k + 1 + 1}
      OBVIOUS
    <3>9. QED
      BY <3>4, <3>6, <3>7, <3>8
  <2>4. n - 1 \in T
    <3>1. n - 1 \in Nat
      BY <1>3
    <3> HIDE DEF T
    <3>2. QED
      BY <2>2, <2>3, <3>1, Induction
  <2>5. Good(n)
    <3> HIDE DEF Good
    <3>1. n - 1 + 1 = n
      OBVIOUS
    <3>2. QED
      BY <2>4, <3>1
  <2>6. QED
    BY <2>1, <2>5
<1>4. QED
  BY <1>2, <1>3

\* A sum of numbers that are not negative is 0 if and only if they all are.
LEMMA TotalIsZero ==
    ASSUME NEW n \in Nat, NEW s \in [1..n -> Nat]
    PROVE  Total(s) \in Nat /\ (Total(s) = 0 <=> \A i \in 1..n : s[i] = 0)
<1>1. Len(s) = n
  <2>1. s \in Seq(Nat)
    BY SeqDef
  <2>2. DOMAIN s = 1..Len(s) /\ Len(s) \in Nat
    BY ONLY <2>1, LenProperties
  <2>3. DOMAIN s = 1..n
    OBVIOUS
  <2>4. QED
    BY ONLY <2>2, <2>3, SameEnd, n \in Nat
<1>2. PICK a : /\ Total(s) = a[n]
               /\ a[0] = 0
               /\ \A i \in 1..n : a[i] = a[i - 1] + s[i]
  BY Zenon, <1>1, TotalRecursion
<1> DEFINE T == {k \in Nat : k <= n => a[k] \in Nat /\ (a[k] = 0 <=> \A i \in 1..k : s[i] = 0)}
<1>3. 0 \in T
  BY <1>2
<1>4. ASSUME NEW k \in Nat, k \in T
      PROVE  k + 1 \in T
  <2>1. SUFFICES ASSUME k + 1 <= n
                 PROVE  a[k + 1] \in Nat /\ (a[k + 1] = 0 <=> \A i \in 1..(k + 1) : s[i] = 0)
    OBVIOUS
  <2>2. k + 1 \in 1..n /\ (k + 1) - 1 = k /\ s[k + 1] \in Nat
    BY <2>1
  <2>3. a[k + 1] = a[k] + s[k + 1]
    BY <1>2, <2>2
  <2>4. a[k] \in Nat /\ (a[k] = 0 <=> \A i \in 1..k : s[i] = 0)
    BY <1>4, <2>1
  <2>5. 1..(k + 1) = 1..k \cup {k + 1}
    OBVIOUS
  <2>6. \A x, y \in Nat : x + y \in Nat /\ (x + y = 0 <=> x = 0 /\ y = 0)
    OBVIOUS
  <2>7. a[k + 1] \in Nat /\ (a[k + 1] = 0 <=> a[k] = 0 /\ s[k + 1] = 0)
    BY <2>2, <2>3, <2>4, <2>6
  <2>8. QED
    BY <2>4, <2>5, <2>7
<1>5. n \in T
  <2> HIDE DEF T
  <2> QED BY <1>3, <1>4, Induction
<1>6. QED
  BY <1>2, <1>5

\* The places at which the members of a sorted list were before.
Sorts(s, rank, out, q) ==
    /\ Len(out) = Len(s)
    /\ \A p \in 1..Len(s) : q[p] \in 1..Len(s) /\ out[p] = s[q[p]]
    /\ \A i \in 1..Len(s) : \E p \in 1..Len(s) : q[p] = i
    /\ \A p, r \in 1..Len(s) : p < r => \/ rank[q[p]] > rank[q[r]]
                                        \/ rank[q[p]] = rank[q[r]] /\ q[p] < q[r]

\* A sort puts the members of a list in the order of their ranks.
LEMMA RankHolds ==
    ASSUME NEW S, NEW s \in Seq(S), NEW rank, \A i \in 1..Len(s) : rank[i] \in Int
    PROVE  /\ ByRank(s, rank) \in Seq(S)
           /\ \E q : Sorts(s, rank, ByRank(s, rank), q)
<1> DEFINE n == Len(s)
           Before(j, i) == rank[j] > rank[i] \/ (rank[j] = rank[i] /\ j <= i)
           B(i) == {j \in 1..n : Before(j, i)}
           place == [i \in 1..n |-> Cardinality(B(i))]
           q == [p \in 1..n |-> CHOOSE i \in 1..n : place[i] = p]
<1>1. n \in Nat /\ DOMAIN s = 1..n /\ \A i \in 1..n : s[i] \in S
  OBVIOUS
<1> DEFINE out == [p \in 1..n |-> s[q[p]]]
<1>2. ByRank(s, rank) = SubSeq(out, 1, n)
  <2> DEFINE chosen(p) == CHOOSE i \in 1..n : Cardinality(B(i)) = p
             sorted == [p \in 1..n |-> s[chosen(p)]]
  <2>1. ByRank(s, rank) = SubSeq(sorted, 1, n)
    BY DEF ByRank, n
  <2>2. \A p \in 1..n : q[p] = chosen(p)
    <3> HIDE DEF B
    <3> QED OBVIOUS
  <2>3. sorted = out
    <3> HIDE DEF q, B, chosen
    <3> QED BY <2>2
  <2> HIDE DEF sorted, out
  <2>4. QED
    BY <2>1, <2>3
<1> HIDE DEF n
<1>3. IsFiniteSet(1..n) /\ Cardinality(1..n) = n
  BY <1>1, FS_Interval, 1 \in Int, n \in Int
<1>4. \A i \in 1..n : IsFiniteSet(B(i)) /\ Cardinality(B(i)) \in 1..n
  <2> SUFFICES ASSUME NEW i \in 1..n
               PROVE  IsFiniteSet(B(i)) /\ Cardinality(B(i)) \in 1..n
    OBVIOUS
  <2>1. B(i) \subseteq 1..n /\ i \in B(i)
    BY DEF n
  <2>2. IsFiniteSet(B(i)) /\ Cardinality(B(i)) <= n /\ Cardinality(B(i)) \in Nat
    BY <1>3, <2>1, FS_Subset, FS_CardinalityType
  <2>3. Cardinality(B(i)) # 0
    BY <2>1, <2>2, FS_EmptySet
  <2>4. QED
    BY <1>1, <2>2, <2>3
<1>5. ASSUME NEW i \in 1..n, NEW k \in 1..n, i # k, Before(i, k)
      PROVE  Cardinality(B(i)) < Cardinality(B(k))
  <2>1. \A j \in 1..n : rank[j] \in Int
    BY DEF n
  <2>2. B(i) \subseteq B(k)
    BY <1>1, <1>5, <2>1
  <2>3. k \in B(k) /\ k \notin B(i)
    BY <1>1, <1>5, <2>1
  <2> HIDE DEF B
  <2>4. Cardinality(B(i)) <= Cardinality(B(k)) /\ Cardinality(B(i)) # Cardinality(B(k))
    BY <1>4, <2>2, <2>3, FS_Subset
  <2>5. QED
    BY <1>4, <2>4
<1>6. \A i, k \in 1..n : i # k => Before(i, k) \/ Before(k, i)
  <2>1. \A j \in 1..n : rank[j] \in Int
    BY DEF n
  <2>2. SUFFICES ASSUME NEW i \in 1..n, NEW k \in 1..n
                 PROVE  Before(i, k) \/ Before(k, i)
    OBVIOUS
  <2>3. rank[i] \in Int /\ rank[k] \in Int /\ i \in Int /\ k \in Int
    BY <1>1, <2>1
  <2>4. QED
    BY ONLY <2>3
<1> HIDE DEF Before
<1>7. place \in Injection(1..n, 1..n)
  <2>1. place \in [1..n -> 1..n]
    BY <1>4
  <2>2. ASSUME NEW i \in 1..n, NEW k \in 1..n, place[i] = place[k]
        PROVE  i = k
    <3> HIDE DEF B
    <3>1. Cardinality(B(i)) \in Int /\ Cardinality(B(i)) = Cardinality(B(k))
      BY <1>1, <1>4, <2>2
    <3>2. QED
      BY <1>5, <1>6, <3>1
  <2> HIDE DEF place
  <2>3. QED
    BY <2>1, <2>2 DEF Injection, IsInjective
<1>8. place \in Surjection(1..n, 1..n)
  BY <1>3, <1>7, FS_Injection
<1>9. \A p \in 1..n : q[p] \in 1..n /\ place[q[p]] = p
  <2> SUFFICES ASSUME NEW p \in 1..n
               PROVE  q[p] \in 1..n /\ place[q[p]] = p
    OBVIOUS
  <2> HIDE DEF place
  <2>1. \E i \in 1..n : place[i] = p
    BY <1>8 DEF Surjection
  <2>2. QED
    BY <2>1
<1>10. ASSUME NEW i \in 1..n
       PROVE  \E p \in 1..n : q[p] = i
  <2> HIDE DEF q
  <2>1. place[i] \in 1..n
    BY <1>4
  <2> HIDE DEF place
  <2>2. place[q[place[i]]] = place[i] /\ q[place[i]] \in 1..n
    BY <1>9, <2>1
  <2>3. q[place[i]] = i
    BY <1>7, <2>2 DEF Injection, IsInjective
  <2>4. QED
    BY <2>1, <2>3
<1>11. ASSUME NEW p \in 1..n, NEW r \in 1..n, p < r
       PROVE  Before(q[p], q[r])
  <2> HIDE DEF q
  <2>1. place[q[p]] = p /\ place[q[r]] = r /\ q[p] \in 1..n /\ q[r] \in 1..n
    BY <1>9
  <2>2. q[p] # q[r]
    <3>1. p # r
      BY <1>1, <1>11
    <3>2. QED
      BY ONLY <2>1, <3>1
  <2>3. ~Before(q[r], q[p])
    <3> HIDE DEF B
    <3>1. Cardinality(B(q[p])) = p /\ Cardinality(B(q[r])) = r
      BY <2>1
    <3>2. QED
      BY <1>1, <1>5, <1>11, <2>1, <2>2, <3>1
  <2>4. QED
    BY <1>6, <2>1, <2>2, <2>3
<1>12. \A p, r \in 1..n :
          p < r => rank[q[p]] > rank[q[r]] \/ (rank[q[p]] = rank[q[r]] /\ q[p] < q[r])
  <2> HIDE DEF q
  <2>1. \A i, k \in 1..n : i # k /\ Before(i, k) => rank[i] > rank[k] \/ (rank[i] = rank[k] /\ i < k)
    <3>1. \A j \in 1..n : rank[j] \in Int
      BY DEF n
    <3>2. QED
      BY <1>1, <3>1 DEF Before
  <2>2. ASSUME NEW p \in 1..n, NEW r \in 1..n, p < r
        PROVE  q[p] # q[r] /\ q[p] \in 1..n /\ q[r] \in 1..n
    <3>1. p # r
      BY <1>1, <2>2
    <3>2. QED
      BY <1>9, <3>1
  <2>3. SUFFICES ASSUME NEW p \in 1..n, NEW r \in 1..n, p < r
                 PROVE  rank[q[p]] > rank[q[r]] \/ (rank[q[p]] = rank[q[r]] /\ q[p] < q[r])
    OBVIOUS
  <2>4. Before(q[p], q[r])
    BY <1>11, <2>3
  <2>5. q[p] # q[r] /\ q[p] \in 1..n /\ q[r] \in 1..n
    BY <2>2, <2>3
  <2>6. QED
    BY <2>1, <2>4, <2>5
<1> HIDE DEF q, place
<1>13. /\ ByRank(s, rank) \in Seq(S) /\ Len(ByRank(s, rank)) = n
       /\ \A p \in 1..n : ByRank(s, rank)[p] = s[q[p]]
  <2>1. out \in [1..n -> S]
    BY <1>1, <1>9
  <2>2. out \in Seq(S)
    <3> HIDE DEF out
    <3> QED BY <1>1, <2>1, SeqDef
  <2>3. DOMAIN out = 1..n
    OBVIOUS
  <2>4. DOMAIN out = 1..Len(out) /\ Len(out) \in Nat
    BY ONLY <2>2, LenProperties
  <2>5. Len(out) = n
    BY <1>1, <2>3, <2>4, SameEnd
  <2>6. \A p \in 1..n : out[p] = s[q[p]]
    OBVIOUS
  <2> HIDE DEF out
  <2>7. SubSeq(out, 1, n) = out
    BY <2>2, <2>5, SubSeqFull
  <2>8. QED
    BY <1>2, <2>2, <2>5, <2>6, <2>7
<1>14. Sorts(s, rank, ByRank(s, rank), q)
  BY <1>9, <1>10, <1>12, <1>13 DEF Sorts, n
<1>15. QED
  BY <1>13, <1>14

-----------------------------------------------------------------------------
(* The pressure on a belief is found *)

Edge == [relation : STRING, target : Nat]
Bearing == [cell : Nat, relation : STRING, out : BOOLEAN]

\* Whether an edge of a cell is what a link to another one says.
Carries(cells, key, l) ==
    \E k \in 1..Len(cells) : \E i \in 1..Len(cells[k].edges) :
        /\ cells[k].edges[i].target = key
        /\ l = [cell |-> k, relation |-> cells[k].edges[i].relation, out |-> FALSE]

\* The shape of a store and of the edges in it.
LEMMA KeysOfCells ==
    ASSUME NEW cells \in Seq(Cell)
    PROVE  /\ Len(cells) \in Nat /\ DOMAIN cells = 1..Len(cells)
           /\ \A k \in 1..Len(cells) : /\ cells[k] \in Cell
                                       /\ cells[k].edges \in Seq(Edge)
                                       /\ DOMAIN cells[k].edges = 1..Len(cells[k].edges)
           /\ LET keys == [k \in DOMAIN cells |-> k]
              IN  keys \in Seq(1..Len(cells)) /\ Len(keys) = Len(cells)
<1> DEFINE n == Len(cells)
           keys == [k \in DOMAIN cells |-> k]
<1>1. n \in Nat /\ DOMAIN cells = 1..n /\ \A k \in 1..n : cells[k] \in Cell
  OBVIOUS
<1>2. \A k \in 1..n : cells[k].edges \in Seq(Edge)
  BY <1>1 DEF Cell, Edge
<1>3. \A k \in 1..n : DOMAIN cells[k].edges = 1..Len(cells[k].edges)
  BY <1>2, LenProperties
<1>4. keys \in [1..n -> 1..n]
  BY <1>1
<1>5. keys \in Seq(1..n)
  BY <1>1, <1>4, SeqDef
<1>6. DOMAIN keys = 1..n /\ DOMAIN keys = 1..Len(keys) /\ Len(keys) \in Nat
  BY <1>1, <1>5, LenProperties
<1>7. Len(keys) = n
  BY ONLY <1>1, <1>6, SameEnd
<1>8. QED
  BY <1>1, <1>2, <1>3, <1>5, <1>7

\* The first few of a list are some of it.
LEMMA FirstFewHolds ==
    ASSUME NEW S, NEW s \in Seq(S), NEW n \in Nat
    PROVE  FirstFew(n, s) \in Seq(S) /\ Range(FirstFew(n, s)) \subseteq Range(s)
<1> DEFINE m == IF n < Len(s) THEN n ELSE Len(s)
           few == [i \in 1..m |-> s[i]]
<1>1. Len(s) \in Nat /\ DOMAIN s = 1..Len(s) /\ \A i \in 1..Len(s) : s[i] \in S
  BY LenProperties, ElementOfSeq
<1>2. m \in Nat /\ m <= Len(s)
  BY <1>1
<1>3. FirstFew(n, s) = SubSeq(s, 1, m)
  BY DEF FirstFew
<1> HIDE DEF m
<1>4. SubSeq(s, 1, m) = few
  BY <1>2
<1>5. few \in [1..m -> S]
  BY <1>1, <1>2
<1>6. few \in Seq(S)
  BY <1>2, <1>5, SeqDef
<1>7. Range(few) \subseteq Range(s)
  BY <1>1, <1>2 DEF Range
<1>8. QED
  BY <1>3, <1>4, <1>6, <1>7

\* The cells the store lists are the active ones.
LEMMA StoreLists ==
    ASSUME NEW cells \in Seq(Cell)
    PROVE  /\ Active(cells) \in Seq(1..Len(cells))
           /\ \A k : k \in Range(Active(cells)) <=> k \in 1..Len(cells) /\ cells[k].status = "active"
<1> DEFINE keys == [k \in DOMAIN cells |-> k]
           at == {k \in DOMAIN cells : cells[k].status = "active"}
<1>1. /\ DOMAIN cells = 1..Len(cells)
      /\ keys \in Seq(1..Len(cells)) /\ Len(keys) = Len(cells)
      /\ \A k \in 1..Len(cells) : keys[k] = k
      /\ \A k : k \in at <=> k \in 1..Len(cells) /\ cells[k].status = "active"
  BY KeysOfCells
<1>2. Active(cells) = Kept(keys, at)
  BY DEF Active
<1> HIDE DEF keys, at
<1>3. /\ Kept(keys, at) \in Seq(1..Len(cells))
      /\ \A k : k \in Range(Kept(keys, at)) <=> \E i \in 1..Len(keys) : i \in at /\ k = keys[i]
  BY <1>1, KeptHolds
<1>4. \A k : (\E i \in 1..Len(keys) : i \in at /\ k = keys[i])
                <=> k \in 1..Len(cells) /\ cells[k].status = "active"
  BY <1>1
<1>5. QED
  BY <1>2, <1>3, <1>4

\* The pool is some of the active cells.
LEMMA PoolHolds ==
    ASSUME NEW cells \in Seq(Cell)
    PROVE  /\ Pool(cells) \in Seq(1..Len(cells))
           /\ \A k \in Range(Pool(cells)) : k \in 1..Len(cells) /\ cells[k].status = "active"
<1>1. Pool(cells) = FirstFew(ANALYZED_POOL_CAP, Active(cells))
  BY DEF Pool
<1>2. Pool(cells) \in Seq(1..Len(cells)) /\ Range(Pool(cells)) \subseteq Range(Active(cells))
  BY <1>1, StoreLists, FirstFewHolds, HealthAssumption
<1>3. QED
  BY <1>2, StoreLists

\* The links that lead to a cell are the edges that name it.
LEMMA LinksHold ==
    ASSUME NEW cells \in Seq(Cell), NEW key
    PROVE  /\ InLinks(cells, key) \in Seq(Bearing)
           /\ \A l : l \in Range(InLinks(cells, key)) <=> Carries(cells, key, l)
<1> DEFINE n == Len(cells)
           keys == [k \in DOMAIN cells |-> k]
           edges(k) == cells[k].edges
           here(k) == Kept(edges(k), {i \in DOMAIN edges(k) : edges(k)[i].target = key})
           row(k) == [i \in DOMAIN here(k) |-> [cell |-> k, relation |-> here(k)[i].relation, out |-> FALSE]]
           rows == [i \in 1..n |-> row(i)]
<1>1. /\ n \in Nat /\ DOMAIN cells = 1..n
      /\ \A k \in 1..n : edges(k) \in Seq(Edge) /\ DOMAIN edges(k) = 1..Len(edges(k))
  BY Zenon, KeysOfCells
<1>2. InLinks(cells, key) = FlattenSeq(rows)
  <2>1. InLinks(cells, key) = FlattenSeq([i \in DOMAIN keys |-> row(keys[i])])
    BY Zenon DEF InLinks, Listing
  <2>2. [i \in DOMAIN keys |-> row(keys[i])] = rows
    <3> HIDE DEF row
    <3> QED BY <1>1
  <2>3. QED
    BY Zenon, <2>1, <2>2
<1>3. ASSUME NEW k \in 1..n
      PROVE  /\ row(k) \in Seq(Bearing)
             /\ \A l : l \in Range(row(k)) <=> \E i \in 1..Len(edges(k)) :
                          /\ edges(k)[i].target = key
                          /\ l = [cell |-> k, relation |-> edges(k)[i].relation, out |-> FALSE]
  <2> DEFINE at == {i \in DOMAIN edges(k) : edges(k)[i].target = key}
  <2>1. /\ here(k) \in Seq(Edge)
        /\ \A e : e \in Range(here(k)) <=> \E i \in 1..Len(edges(k)) : i \in at /\ e = edges(k)[i]
    <3>1. edges(k) \in Seq(Edge)
      BY <1>1
    <3> HIDE DEF edges, at
    <3>2. here(k) = Kept(edges(k), at)
      BY DEF at
    <3> HIDE DEF here
    <3>3. /\ Kept(edges(k), at) \in Seq(Edge)
          /\ \A e : e \in Range(Kept(edges(k), at)) <=> \E i \in 1..Len(edges(k)) : i \in at /\ e = edges(k)[i]
      BY ONLY <3>1, KeptHolds
    <3>4. QED
      BY <3>2, <3>3
  <2>2. DOMAIN here(k) = 1..Len(here(k)) /\ Len(here(k)) \in Nat
        /\ \A i \in 1..Len(here(k)) : here(k)[i] \in Edge
    BY <2>1, LenProperties, ElementOfSeq
  <2>3. \A i : i \in at <=> i \in 1..Len(edges(k)) /\ edges(k)[i].target = key
    BY <1>1
  <2> HIDE DEF here, at
  <2>4. row(k) \in [1..Len(here(k)) -> Bearing]
    BY <1>1, <2>2 DEF Edge, Bearing
  <2>5. row(k) \in Seq(Bearing)
    BY <2>2, <2>4, SeqDef
  <2> DEFINE Tells(l, e) == l = [cell |-> k, relation |-> e.relation, out |-> FALSE]
  <2>6. \A l : l \in Range(row(k)) <=> \E e \in Range(here(k)) : Tells(l, e)
    BY DEF Range
  <2> HIDE DEF Tells, row
  <2>7. \A l : l \in Range(row(k)) <=> \E i \in 1..Len(edges(k)) : i \in at /\ Tells(l, edges(k)[i])
    BY ONLY <2>1, <2>6
  <2>8. \A l : l \in Range(row(k)) <=>
                \E i \in 1..Len(edges(k)) : edges(k)[i].target = key /\ Tells(l, edges(k)[i])
    BY ONLY <2>3, <2>7
  <2>9. QED
    BY <2>5, <2>8 DEF Tells
<1>4. rows \in [1..n -> Seq(Bearing)] /\ \A i \in 1..n : rows[i] = row(i)
  BY <1>3
<1>7. \A k \in 1..n : \A l : l \in Range(row(k)) <=> \E i \in 1..Len(cells[k].edges) :
                          /\ cells[k].edges[i].target = key
                          /\ l = [cell |-> k, relation |-> cells[k].edges[i].relation, out |-> FALSE]
  <2> HIDE DEF row
  <2> QED BY <1>3
<1> HIDE DEF rows, row
<1>5. /\ FlattenSeq(rows) \in Seq(Bearing)
      /\ \A l : l \in Range(FlattenSeq(rows)) <=> \E i \in 1..n : l \in Range(rows[i])
  BY <1>1, <1>4, FlattenHolds
<1>6. ASSUME NEW l
      PROVE  l \in Range(FlattenSeq(rows)) <=> Carries(cells, key, l)
  <2>1. l \in Range(FlattenSeq(rows)) <=> \E k \in 1..n : l \in Range(row(k))
    BY <1>4, <1>5
  <2>2. QED
    BY ONLY <1>7, <2>1 DEF Carries
<1>8. QED
  BY <1>2, <1>5, <1>6

\* The evidence of a belief are the links to it from active cells.
LEMMA EvidenceHolds ==
    ASSUME NEW cells \in Seq(Cell), NEW key
    PROVE  /\ EvidenceOn(cells, key) \in Seq(Bearing)
           /\ \A l : l \in Range(EvidenceOn(cells, key)) <=>
                        /\ Carries(cells, key, l) /\ cells[l.cell].status = "active"
                        /\ l.relation \in Challenges \cup {"supports"}
<1> DEFINE links == InLinks(cells, key)
           at == {i \in DOMAIN links : /\ cells[links[i].cell].status = "active"
                                       /\ links[i].relation \in Challenges \cup {"supports"}}
<1>1. links \in Seq(Bearing) /\ \A l : l \in Range(links) <=> Carries(cells, key, l)
  BY LinksHold
<1>2. EvidenceOn(cells, key) = Kept(links, at)
  BY Zenon DEF EvidenceOn, Evidential
<1> HIDE DEF links
<1>3. DOMAIN links = 1..Len(links)
  BY <1>1, LenProperties
<1>4. /\ Kept(links, at) \in Seq(Bearing)
      /\ \A l : l \in Range(Kept(links, at)) <=> \E i \in 1..Len(links) : i \in at /\ l = links[i]
  <2> HIDE DEF at
  <2> QED BY <1>1, KeptHolds
<1>5. \A l : (\E i \in 1..Len(links) : i \in at /\ l = links[i]) <=>
                /\ l \in Range(links) /\ cells[l.cell].status = "active"
                /\ l.relation \in Challenges \cup {"supports"}
  BY <1>3 DEF Range
<1> HIDE DEF at
<1>6. QED
  BY <1>1, <1>2, <1>4, <1>5

\* The least of two numbers.
LEMMA MinOfTwo ==
    ASSUME NEW a \in Int, NEW b \in Int
    PROVE  Min({a, b}) = IF a < b THEN a ELSE b
<1> DEFINE m == IF a < b THEN a ELSE b
<1>1. m \in {a, b} /\ \A y \in {a, b} : m <= y
  OBVIOUS
<1>2. \A x \in {a, b} : (\A y \in {a, b} : x <= y) => x = m
  OBVIOUS
<1> HIDE DEF m
<1>3. Min({a, b}) = m
  BY <1>1, <1>2 DEF Min
<1>4. QED
  BY <1>3 DEF m

\* A probability is a percentage, and 0 for what weighs nothing.
LEMMA ProbabilityBound ==
    ASSUME NEW x \in Int
    PROVE  Probability(x) \in 0..100 /\ (Probability(x) = 0 <=> x <= 0)
<1>1. Min({100, x}) = IF 100 < x THEN 100 ELSE x
  BY MinOfTwo
<1> DEFINE m == Min({100, x})
<1>2. m \in Int
  BY <1>1
<1>3. Max({0, m}) = IF 0 < m THEN m ELSE 0
  <2> HIDE DEF m
  <2> QED BY <1>2, MaxOfTwo
<1>4. QED
  BY <1>1, <1>3 DEF Probability

\* What a cell weighs as evidence.
Heft(c) == Probability((c.effective * Trust(c)) \div 100)

\* An edge weighs nothing exactly if its cell is too weak.
LEMMA HeftHolds ==
    ASSUME NEW c \in Cell
    PROVE  Heft(c) \in Nat /\ (Heft(c) = 0 <=> c.effective * Trust(c) < 100)
<1>1. c.effective \in Int /\ OriginTrust[c.origin] \in Int
  BY SMTT(30) DEF Cell, OriginTrust
<1>2. Trust(c) \in Int
  <2> DEFINE x == OriginTrust[c.origin] + (IF c.signed THEN 10 ELSE 0) - (IF c.unverified THEN 12 ELSE 0)
  <2>1. x \in Int /\ Trust(c) = Probability(x)
    BY <1>1 DEF Trust
  <2> HIDE DEF x
  <2>2. QED
    BY <2>1, ProbabilityBound
<1>3. \A y \in Int : y \div 100 \in Int /\ (y \div 100 <= 0 <=> y < 100)
  OBVIOUS
<1> DEFINE y == c.effective * Trust(c)
<1>4. y \in Int
  BY <1>1, <1>2
<1> HIDE DEF y
<1>5. Probability(y \div 100) \in 0..100 /\ (Probability(y \div 100) = 0 <=> y < 100)
  BY <1>3, <1>4, ProbabilityBound
<1>6. QED
  BY <1>5 DEF Heft, y

\* The weight of a relation is nothing if and only if nothing of it weighs.
LEMMA WeightHolds ==
    ASSUME NEW cells \in Seq(Cell), NEW key, NEW relation
    PROVE  LET w == Weight(cells, EvidenceOn(cells, key), relation)
           IN  /\ w \in Nat
               /\ w = 0 <=> \A l \in Range(EvidenceOn(cells, key)) :
                               l.relation = relation => Heft(cells[l.cell]) = 0
<1> DEFINE ev == EvidenceOn(cells, key)
           felt == [i \in DOMAIN ev |-> IF ev[i].relation = relation THEN Heft(cells[ev[i].cell]) ELSE 0]
<1>1. Weight(cells, ev, relation) = Total(felt)
  BY Zenon DEF Weight, Heft
<1>2. ev \in Seq(Bearing) /\ \A l \in Range(ev) : Carries(cells, key, l)
  BY EvidenceHolds
<1> HIDE DEF ev
<1>3. DOMAIN ev = 1..Len(ev) /\ Len(ev) \in Nat
  BY <1>2, LenProperties
<1>4. \A i \in 1..Len(ev) : Heft(cells[ev[i].cell]) \in Nat
  <2> SUFFICES ASSUME NEW i \in 1..Len(ev)
               PROVE  Heft(cells[ev[i].cell]) \in Nat
    OBVIOUS
  <2>1. Carries(cells, key, ev[i])
    BY <1>2, <1>3 DEF Range
  <2>2. ev[i].cell \in 1..Len(cells)
    BY <2>1 DEF Carries
  <2>3. QED
    BY <2>2, KeysOfCells, HeftHolds
<1>5. felt \in [1..Len(ev) -> Nat]
  BY <1>3, <1>4
<1>6. Total(felt) \in Nat /\ (Total(felt) = 0 <=> \A i \in 1..Len(ev) : felt[i] = 0)
  <2> HIDE DEF felt
  <2> QED BY <1>3, <1>5, TotalIsZero
<1>7. (\A i \in 1..Len(ev) : felt[i] = 0) <=>
         \A l \in Range(ev) : l.relation = relation => Heft(cells[l.cell]) = 0
  BY <1>3 DEF Range
<1>8. QED
  BY <1>1, <1>6, <1>7 DEF ev

\* A challenge between two cells of the pool, as it is reported.
Challenged(cells, f) ==
    \E k \in 1..Len(cells) : \E i \in 1..Len(cells[k].edges) :
        /\ k \in Range(Pool(cells))
        /\ cells[k].edges[i].relation \in Challenges
        /\ cells[k].edges[i].target \in Range(Pool(cells))
        /\ f = [source |-> k, target |-> cells[k].edges[i].target, relation |-> cells[k].edges[i].relation]

\* The contradictions reported are those a cell of the pool carries.
LEMMA ChallengesHold ==
    ASSUME NEW cells \in Seq(Cell)
    PROVE  \A f : f \in Range(Contradictions(cells, Pool(cells))) <=> Challenged(cells, f)
<1> DEFINE n == Len(cells)
           pool == Pool(cells)
           Finding == [source : Nat, target : Nat, relation : STRING]
           edges(k) == cells[k].edges
           bad(k) == {i \in DOMAIN edges(k) : /\ edges(k)[i].relation \in Challenges
                                              /\ edges(k)[i].target \in Range(pool)}
           found(k) == Kept(edges(k), bad(k))
           Tells(f, k, e) == f = [source |-> k, target |-> e.target, relation |-> e.relation]
           rows == [i \in DOMAIN pool |-> ChallengesBy(cells, pool, pool[i])]
<1>1. /\ n \in Nat
      /\ \A k \in 1..n : edges(k) \in Seq(Edge) /\ DOMAIN edges(k) = 1..Len(edges(k))
  BY KeysOfCells
<1>2. /\ pool \in Seq(1..n) /\ DOMAIN pool = 1..Len(pool) /\ Len(pool) \in Nat
      /\ \A k \in Range(pool) : k \in 1..n
  BY PoolHolds, LenProperties
<1>3. Contradictions(cells, pool) = FlattenSeq(rows)
  BY Zenon DEF Contradictions, Listing
<1> HIDE DEF pool
<1>4. ASSUME NEW k \in 1..n
      PROVE  /\ ChallengesBy(cells, pool, k) \in Seq(Finding)
             /\ \A f : f \in Range(ChallengesBy(cells, pool, k)) <=>
                         \E i \in 1..Len(edges(k)) : i \in bad(k) /\ Tells(f, k, edges(k)[i])
  <2> DEFINE here == found(k)
             row == [i \in DOMAIN here |-> [source |-> k, target |-> here[i].target, relation |-> here[i].relation]]
  <2>1. ChallengesBy(cells, pool, k) = row
    BY Zenon DEF ChallengesBy
  <2>2. edges(k) \in Seq(Edge)
    BY <1>1
  <2> HIDE DEF edges, bad
  <2>3. /\ here \in Seq(Edge)
        /\ \A e : e \in Range(here) <=> \E i \in 1..Len(edges(k)) : i \in bad(k) /\ e = edges(k)[i]
    BY ONLY <2>2, KeptHolds
  <2> HIDE DEF here
  <2>4. DOMAIN here = 1..Len(here) /\ Len(here) \in Nat /\ \A i \in 1..Len(here) : here[i] \in Edge
    BY <2>3, LenProperties, ElementOfSeq
  <2>5. row \in [1..Len(here) -> Finding]
    BY <1>1, <2>4 DEF Edge
  <2>6. row \in Seq(Finding)
    BY <2>4, <2>5, SeqDef
  <2>7. \A f : f \in Range(row) <=> \E e \in Range(here) : Tells(f, k, e)
    BY DEF Range
  <2> HIDE DEF Tells, row
  <2>8. \A f : f \in Range(row) <=> \E i \in 1..Len(edges(k)) : i \in bad(k) /\ Tells(f, k, edges(k)[i])
    BY ONLY <2>3, <2>7
  <2>9. QED
    BY <2>1, <2>6, <2>8
<1>5. /\ rows \in [1..Len(pool) -> Seq(Finding)]
      /\ \A i \in 1..Len(pool) : rows[i] = ChallengesBy(cells, pool, pool[i]) /\ pool[i] \in 1..n
  <2>1. \A i \in 1..Len(pool) : pool[i] \in 1..n
    BY <1>2, ElementOfSeq
  <2> HIDE DEF Finding
  <2>2. QED
    BY <1>2, <1>4, <2>1
<1> HIDE DEF rows, Finding
<1>6. \A f : f \in Range(FlattenSeq(rows)) <=> \E i \in 1..Len(pool) : f \in Range(rows[i])
  BY <1>2, <1>5, FlattenHolds
<1>7. ASSUME NEW k \in 1..n
      PROVE  \A f : f \in Range(ChallengesBy(cells, pool, k)) <=>
                \E i \in 1..Len(edges(k)) :
                   /\ edges(k)[i].relation \in Challenges
                   /\ edges(k)[i].target \in Range(pool)
                   /\ Tells(f, k, edges(k)[i])
  <2>1. \A i : i \in bad(k) <=> /\ i \in 1..Len(edges(k))
                                /\ edges(k)[i].relation \in Challenges
                                /\ edges(k)[i].target \in Range(pool)
    BY <1>1
  <2> HIDE DEF bad, Tells, edges
  <2>2. QED
    BY <1>4, <2>1
<1>8. ASSUME NEW f
      PROVE  f \in Range(FlattenSeq(rows)) <=>
                \E k \in Range(pool) : f \in Range(ChallengesBy(cells, pool, k))
  <2>1. \A k : k \in Range(pool) <=> \E i \in 1..Len(pool) : k = pool[i]
    BY <1>2 DEF Range
  <2> HIDE DEF edges
  <2>2. QED
    BY ONLY <1>5, <1>6, <2>1
<1>9. ASSUME NEW f
      PROVE  f \in Range(FlattenSeq(rows)) <=>
                \E k \in 1..n : \E i \in 1..Len(edges(k)) :
                   /\ k \in Range(pool)
                   /\ edges(k)[i].relation \in Challenges
                   /\ edges(k)[i].target \in Range(pool)
                   /\ Tells(f, k, edges(k)[i])
  <2> HIDE DEF Tells, edges, bad
  <2>1. QED
    BY ONLY <1>2, <1>7, <1>8
<1>10. QED
  BY <1>3, <1>9 DEF Challenged, pool

\* The beliefs of a report are active cells, each with the pressure on it.
LEMMA BeliefsHold ==
    ASSUME NEW cells \in Seq(Cell), NEW now, NEW b \in Range(Analyze(cells, now).beliefs)
    PROVE  \E k \in Range(Pool(cells)) : b = Pressure(cells, k)
<1> DEFINE n == Len(cells)
           pool == Pool(cells)
           believed == Kept(pool, {i \in DOMAIN pool : cells[pool[i]].kind = "bel"})
           rows == [i \in DOMAIN believed |-> <<Pressure(cells, believed[i])>>]
           pressed == FlattenSeq(rows)
           rank == [i \in DOMAIN pressed |-> pressed[i].planning]
           Pressed == {Pressure(cells, k) : k \in Range(pool)}
<1>1. Analyze(cells, now).beliefs = ByRank(pressed, rank)
  <2>1. pressed = Listing(believed, LAMBDA k : <<Pressure(cells, k)>>)
    BY Zenon DEF Listing
  <2>2. Analyze(cells, now).beliefs =
           LET p == Listing(believed, LAMBDA k : <<Pressure(cells, k)>>)
           IN  ByRank(p, [i \in DOMAIN p |-> p[i].planning])
    BY DEF Analyze, BeliefsOf, ByPlanning
  <2> HIDE DEF pressed
  <2>3. QED
    BY <2>1, <2>2
<1>2. /\ pool \in Seq(1..n)
      /\ \A k \in Range(pool) : k \in 1..n
  BY PoolHolds
<1> HIDE DEF pool
<1>3. /\ believed \in Seq(1..n) /\ DOMAIN believed = 1..Len(believed) /\ Len(believed) \in Nat
      /\ \A i \in 1..Len(believed) : believed[i] \in Range(pool)
  <2>1. /\ believed \in Seq(1..n)
        /\ \A x \in Range(believed) : \E i \in 1..Len(pool) : x = pool[i]
    BY <1>2, KeptHolds
  <2> HIDE DEF believed
  <2>2. DOMAIN believed = 1..Len(believed) /\ Len(believed) \in Nat /\ DOMAIN pool = 1..Len(pool)
    BY <1>2, <2>1, LenProperties
  <2>3. QED
    BY <2>1, <2>2 DEF Range
<1> HIDE DEF believed
<1>4. rows \in [1..Len(believed) -> Seq(Pressed)]
  <2> SUFFICES ASSUME NEW i \in 1..Len(believed)
               PROVE  <<Pressure(cells, believed[i])>> \in Seq(Pressed)
    BY <1>3
  <2>1. Pressure(cells, believed[i]) \in Pressed
    BY <1>3
  <2> HIDE DEF Pressed
  <2>2. QED
    BY <2>1
<1>5. pressed \in Seq(Pressed)
  <2> HIDE DEF rows, Pressed
  <2> QED BY <1>3, <1>4, FlattenHolds
<1>6. \A p \in Pressed : p.planning \in Int
  <2> SUFFICES ASSUME NEW k \in Range(pool)
               PROVE  Pressure(cells, k).planning \in Int
    OBVIOUS
  <2> DEFINE c == Weight(cells, EvidenceOn(cells, k), "contradicts")
             o == Weight(cells, EvidenceOn(cells, k), "concerns")
             x == ((cells[k].concern + c \div 4 + (15 * o) \div 100)
                      * (cells[k].uncertainty + c \div 10)) \div 100
  <2>1. Pressure(cells, k).planning = Probability(x)
    BY DEF Pressure
  <2>2. c \in Nat /\ o \in Nat
    BY WeightHolds
  <2>3. cells[k].concern \in Int /\ cells[k].uncertainty \in Int
    BY <1>2, KeysOfCells DEF Cell
  <2> HIDE DEF c, o
  <2>4. \A y, z \in Int : y * z \in Int /\ y \div 100 \in Int /\ y \div 4 \in Int /\ y \div 10 \in Int
    OBVIOUS
  <2>5. x \in Int
    <3>1. c \div 4 \in Int /\ (15 * o) \div 100 \in Int /\ c \div 10 \in Int
      BY <2>2
    <3>2. /\ cells[k].concern + c \div 4 + (15 * o) \div 100 \in Int
          /\ cells[k].uncertainty + c \div 10 \in Int
      BY <2>3, <3>1
    <3>3. QED
      BY <2>4, <3>2
  <2> HIDE DEF x
  <2>6. Probability(x) \in 0..100
    BY ONLY <2>5, ProbabilityBound
  <2>7. \A y \in 0..100 : y \in Int
    OBVIOUS
  <2>8. Pressure(cells, k).planning \in 0..100
    BY <2>1, <2>6, Zenon
  <2>9. QED
    BY <2>7, <2>8, Zenon
<1> HIDE DEF Pressed
<1>7. \A i \in 1..Len(pressed) : rank[i] \in Int
  <2> HIDE DEF pressed
  <2>1. DOMAIN pressed = 1..Len(pressed) /\ \A i \in 1..Len(pressed) : pressed[i] \in Pressed
    BY <1>5, LenProperties, ElementOfSeq
  <2>2. QED
    BY <1>6, <2>1
<1>8. ByRank(pressed, rank) \in Seq(Pressed)
  <2> HIDE DEF pressed, rank
  <2> QED BY <1>5, <1>7, RankHolds
<1>9. b \in Pressed
  <2> DEFINE out == ByRank(pressed, rank)
  <2>1. b \in Range(out) /\ out \in Seq(Pressed)
    BY <1>1, <1>8
  <2> HIDE DEF out
  <2>2. DOMAIN out = 1..Len(out) /\ \A i \in 1..Len(out) : out[i] \in Pressed
    BY <2>1, LenProperties, ElementOfSeq
  <2>3. QED
    BY <2>1, <2>2 DEF Range
<1>10. QED
  BY <1>9 DEF Pressed, pool

\* Pressure is reported of all and only the cells it bears on.
LEMMA PressuresFound ==
    ASSUME NEW cells \in Seq(Cell), NEW now
    PROVE  PressureIsFound(cells, now)
<1> DEFINE report == Analyze(cells, now)
           Heavy(key, relation) ==
              \E l : Carries(cells, key, l) /\ cells[l.cell].status = "active"
                     /\ l.relation = relation /\ Heft(cells[l.cell]) # 0
<1>1. \A f : f \in Range(report.contradictions) <=> Challenged(cells, f)
  <2>1. report.contradictions = Contradictions(cells, Pool(cells))
    BY DEF Analyze
  <2>2. QED
    BY <2>1, ChallengesHold
<1>2. \A i \in DOMAIN report.beliefs : report.beliefs[i] \in Range(report.beliefs)
  BY DEF Range
<1> HIDE DEF report
<1>3. SUFFICES ASSUME NEW i \in DOMAIN report.beliefs
               PROVE  LET belief == report.beliefs[i]
                          found  == {f \in Range(report.contradictions) : f.target = belief.key}
                      IN  /\ (belief.contradiction + belief.concerned > 0) =>
                               found # {} \/ BeyondPool(cells, belief.key)
                          /\ (belief.contradiction + belief.concerned = 0) =>
                               \A f \in found : WeighsNothing(cells[f.source])
  BY Zenon DEF PressureIsFound, report
<1>4. PICK key \in Range(Pool(cells)) : report.beliefs[i] = Pressure(cells, key)
  BY <1>2, BeliefsHold DEF report
<1> DEFINE c == Weight(cells, EvidenceOn(cells, key), "contradicts")
           o == Weight(cells, EvidenceOn(cells, key), "concerns")
<1>5. /\ report.beliefs[i].key = key
      /\ report.beliefs[i].contradiction = c /\ report.beliefs[i].concerned = o
  BY <1>4 DEF Pressure
<1>6. /\ c \in Nat /\ (c = 0 <=> ~Heavy(key, "contradicts"))
      /\ o \in Nat /\ (o = 0 <=> ~Heavy(key, "concerns"))
  <2>1. ASSUME NEW relation \in Challenges
        PROVE  LET w == Weight(cells, EvidenceOn(cells, key), relation)
               IN  w \in Nat /\ (w = 0 <=> ~Heavy(key, relation))
    <3> DEFINE w == Weight(cells, EvidenceOn(cells, key), relation)
    <3>1. w \in Nat /\ (w = 0 <=> \A l \in Range(EvidenceOn(cells, key)) :
                                     l.relation = relation => Heft(cells[l.cell]) = 0)
      BY WeightHolds
    <3>2. \A l : l \in Range(EvidenceOn(cells, key)) <=>
                    /\ Carries(cells, key, l) /\ cells[l.cell].status = "active"
                    /\ l.relation \in Challenges \cup {"supports"}
      BY EvidenceHolds
    <3> HIDE DEF w
    <3>3. w = 0 <=> ~Heavy(key, relation)
      BY <2>1, <3>1, <3>2
    <3>4. QED
      BY <3>1, <3>3 DEF w
  <2>2. "contradicts" \in Challenges /\ "concerns" \in Challenges
    BY DEF Challenges
  <2> HIDE DEF Heavy
  <2>3. QED
    BY <2>1, <2>2
<1>9. \A k \in 1..Len(cells) : Heft(cells[k]) = 0 <=> WeighsNothing(cells[k])
  BY KeysOfCells, HeftHolds DEF WeighsNothing
<1>7. \A l : /\ Carries(cells, key, l) /\ cells[l.cell].status = "active"
             /\ l.relation \in Challenges /\ Heft(cells[l.cell]) # 0
          => (\E f : Challenged(cells, f) /\ f.target = key) \/ BeyondPool(cells, key)
  <2> SUFFICES ASSUME NEW l, Carries(cells, key, l), cells[l.cell].status = "active", l.relation \in Challenges,
                      Heft(cells[l.cell]) # 0
               PROVE  (\E f : Challenged(cells, f) /\ f.target = key) \/ BeyondPool(cells, key)
    OBVIOUS
  <2>1. PICK k \in 1..Len(cells) : \E j \in 1..Len(cells[k].edges) :
            /\ cells[k].edges[j].target = key
            /\ l = [cell |-> k, relation |-> cells[k].edges[j].relation, out |-> FALSE]
    BY DEF Carries
  <2>2. PICK j \in 1..Len(cells[k].edges) :
            /\ cells[k].edges[j].target = key
            /\ l = [cell |-> k, relation |-> cells[k].edges[j].relation, out |-> FALSE]
    BY <2>1
  <2>3. l.cell = k /\ l.relation = cells[k].edges[j].relation
    BY <2>2
  <2> DEFINE f == [source |-> k, target |-> cells[k].edges[j].target, relation |-> cells[k].edges[j].relation]
  <2>4. cells[k].status = "active" /\ cells[k].edges[j].relation \in Challenges
    BY <2>3
  <2>5. CASE k \in Range(Pool(cells))
    <3>1. Challenged(cells, f)
      BY <1>4, <2>2, <2>4, <2>5 DEF Challenged
    <3>2. f.target = key
      BY <2>2
    <3>3. QED
      BY <3>1, <3>2
  <2>6. CASE k \notin Range(Pool(cells))
    <3>1. DOMAIN cells = 1..Len(cells) /\ DOMAIN cells[k].edges = 1..Len(cells[k].edges)
      BY KeysOfCells
    <3>2. ~WeighsNothing(cells[k])
      BY <1>9, <2>3
    <3>3. BeyondPool(cells, key)
      BY <2>2, <2>4, <2>6, <3>1, <3>2 DEF BeyondPool
    <3>4. QED
      BY <3>3
  <2>7. QED
    BY <2>5, <2>6
<1>8. ASSUME NEW f, Challenged(cells, f), f.target = key
      PROVE  /\ f.source \in 1..Len(cells)
             /\ Heft(cells[f.source]) # 0 => Heavy(key, "contradicts") \/ Heavy(key, "concerns")
  <2>1. PICK k \in 1..Len(cells) : \E j \in 1..Len(cells[k].edges) :
            /\ k \in Range(Pool(cells))
            /\ cells[k].edges[j].relation \in Challenges
            /\ f = [source |-> k, target |-> cells[k].edges[j].target, relation |-> cells[k].edges[j].relation]
    BY <1>8 DEF Challenged
  <2>2. PICK j \in 1..Len(cells[k].edges) :
            /\ cells[k].status = "active"
            /\ cells[k].edges[j].relation \in Challenges
            /\ f = [source |-> k, target |-> cells[k].edges[j].target, relation |-> cells[k].edges[j].relation]
    BY <2>1, PoolHolds
  <2>3. f.source = k /\ cells[k].edges[j].target = key
    BY <1>8, <2>2
  <2> DEFINE l == [cell |-> k, relation |-> cells[k].edges[j].relation, out |-> FALSE]
  <2>4. Carries(cells, key, l)
    BY <2>3 DEF Carries
  <2>5. l.cell = k /\ l.relation = cells[k].edges[j].relation
    OBVIOUS
  <2> HIDE DEF l
  <2>6. ASSUME Heft(cells[k]) # 0
        PROVE  Heavy(key, cells[k].edges[j].relation)
    BY <2>2, <2>4, <2>5, <2>6
  <2>7. cells[k].edges[j].relation \in {"contradicts", "concerns"}
    BY <2>2 DEF Challenges
  <2> HIDE DEF Heavy
  <2>8. QED
    BY <2>3, <2>6, <2>7
<1> DEFINE found == {f \in Range(report.contradictions) : f.target = key}
<1>10. ASSUME c + o > 0
       PROVE  found # {} \/ BeyondPool(cells, key)
  <2>1. Heavy(key, "contradicts") \/ Heavy(key, "concerns")
    <3> HIDE DEF Heavy, c, o
    <3> QED BY <1>6, <1>10
  <2>2. \E l : /\ Carries(cells, key, l) /\ cells[l.cell].status = "active"
               /\ l.relation \in Challenges /\ Heft(cells[l.cell]) # 0
    BY <2>1 DEF Challenges
  <2>3. QED
    BY <1>1, <1>7, <2>2
<1>11. ASSUME c + o = 0, NEW f \in found
       PROVE  WeighsNothing(cells[f.source])
  <2>1. ~Heavy(key, "contradicts") /\ ~Heavy(key, "concerns")
    <3> HIDE DEF Heavy, c, o
    <3> QED BY <1>6, <1>11
  <2>2. Challenged(cells, f) /\ f.target = key
    BY <1>1, <1>11
  <2> HIDE DEF Heavy
  <2>3. QED
    BY <1>8, <1>9, <2>1, <2>2
<1> HIDE DEF c, o
<1>12. QED
  BY <1>5, <1>10, <1>11

\* A challenge presses on a belief if and only if it is reported, but for those
\* beyond the cells that are looked at (PressureIsReported), whatever the cells
\* and however many of them are looked at.
THEOREM ReadingPressure == Spec => []PressureIsReported
<1>1. Asked => PressureIsReported
  <2>1. SUFFICES ASSUME Asked, About("packet")
                 PROVE  PressureIsFound(question.cells, Today)
    BY DEF PressureIsReported
  <2>2. question.cells \in Memories
    BY <2>1 DEF Asked, About, Raised
  <2>3. QED
    BY <2>2, MemoriesAssumption, PressuresFound
<1>2. QED
  BY <1>1, AlwaysAsked, PTL

-----------------------------------------------------------------------------
(* Selections of cells agree.  A list of keys that names none twice and is  *)
(* in some order is the only one of its members that is: the place of a     *)
(* key is how many of them are not after it.                                *)

Distinct(s, n) == s \in Seq(1..n) /\ \A i, j \in 1..Len(s) : s[i] = s[j] => i = j
InOrder(s, before) == \A i, j \in 1..Len(s) : i < j => <<s[i], s[j]>> \in before

\* A list of distinct keys of n cells, as a function.
LEMMA DistinctShape ==
    ASSUME NEW n \in Nat, NEW s, Distinct(s, n)
    PROVE  /\ Len(s) \in Nat /\ DOMAIN s = 1..Len(s) /\ s = [i \in 1..Len(s) |-> s[i]]
           /\ \A i \in 1..Len(s) : s[i] \in 1..n
           /\ Range(s) \subseteq 1..n
           /\ \A x : x \in Range(s) <=> \E i \in 1..Len(s) : x = s[i]
<1>1. s \in Seq(1..n)
  BY DEF Distinct
<1>2. Len(s) \in Nat /\ DOMAIN s = 1..Len(s) /\ \A i \in 1..Len(s) : s[i] \in 1..n
  BY <1>1, LenProperties, ElementOfSeq
<1>3. s = [i \in 1..Len(s) |-> s[i]]
  BY <1>1, <1>2
<1>4. QED
  BY <1>2, <1>3 DEF Range

\* Where a key is in a list: after as many as are before it.
LEMMA PlaceCounts ==
    ASSUME NEW n \in Nat, NEW s, Distinct(s, n), NEW before, InOrder(s, before),
           \A x, y : <<x, y>> \in before => <<y, x>> \notin before,
           NEW p \in 1..Len(s)
    PROVE  Cardinality({y \in Range(s) : y = s[p] \/ <<y, s[p]>> \in before}) = p
<1> DEFINE Up == {y \in Range(s) : y = s[p] \/ <<y, s[p]>> \in before}
           f == [i \in 1..p |-> s[i]]
<1>1. Len(s) \in Nat /\ p \in Nat /\ 1..p \subseteq 1..Len(s)
  BY DistinctShape
<1>2. ASSUME NEW i \in 1..p
      PROVE  s[i] \in Up
  <2>1. i \in 1..Len(s) /\ (i = p \/ i < p)
    BY <1>1
  <2>2. QED
    BY <2>1, DistinctShape DEF InOrder
<1>3. ASSUME NEW y \in Up
      PROVE  \E i \in 1..p : f[i] = y
  <2>1. PICK i \in 1..Len(s) : y = s[i]
    BY DistinctShape
  <2>2. i <= p
    <3>1. SUFFICES ASSUME p < i
                   PROVE  FALSE
      BY <1>1, <2>1
    <3>2. <<s[p], s[i]>> \in before
      BY <3>1 DEF InOrder
    <3>3. s[i] # s[p]
      BY <1>1, <3>1 DEF Distinct
    <3>4. QED
      BY <2>1, <3>2, <3>3
  <2>3. i \in 1..p
    BY <1>1, <2>2
  <2>4. QED
    BY <2>1, <2>3
<1>4. \A i, j \in 1..p : f[i] = f[j] => i = j
  BY <1>1 DEF Distinct
<1>5. f \in [1..p -> Up]
  BY <1>2
<1> HIDE DEF Up, f
<1>6. f \in Bijection(1..p, Up)
  BY <1>3, <1>4, <1>5 DEF Bijection, Injection, Surjection, IsInjective
<1>7. IsFiniteSet(1..p) /\ Cardinality(1..p) = p
  BY <1>1, FS_Interval, 1 \in Int, p \in Int
<1>8. ExistsBijection(1..p, Up)
  BY <1>6 DEF ExistsBijection
<1>9. QED
  BY <1>7, <1>8, FS_Bijection DEF Up

\* Distinct keys have one arrangement in a strict order: where two differ
\* first, each would come before the other.
LEMMA OneOrder ==
    ASSUME NEW n \in Nat, NEW s, NEW t, Distinct(s, n), Distinct(t, n), Range(s) = Range(t),
           NEW before, InOrder(s, before), InOrder(t, before),
           \A x, y : <<x, y>> \in before => <<y, x>> \notin before
    PROVE  s = t
<1> DEFINE Up(x) == {y \in Range(s) : y = x \/ <<y, x>> \in before}
<1>1. \A p \in 1..Len(s) : Cardinality(Up(s[p])) = p
  BY PlaceCounts
<1>2. \A p \in 1..Len(t) : Cardinality(Up(t[p])) = p
  BY PlaceCounts
<1> HIDE DEF Up
<1>3. /\ Len(s) \in Nat /\ Len(t) \in Nat
      /\ s = [i \in 1..Len(s) |-> s[i]] /\ t = [i \in 1..Len(t) |-> t[i]]
      /\ \A x : x \in Range(s) <=> \E i \in 1..Len(s) : x = s[i]
  BY DistinctShape
<1>4. \A x : x \in Range(t) <=> \E i \in 1..Len(t) : x = t[i]
  BY DistinctShape
<1>5. ASSUME NEW p \in 1..Len(s)
      PROVE  p \in 1..Len(t) /\ s[p] = t[p]
  <2>1. PICK r \in 1..Len(t) : s[p] = t[r]
    <3>1. s[p] \in Range(s)
      BY ONLY <1>3, p \in 1..Len(s)
    <3>2. s[p] \in Range(t)
      BY ONLY <3>1, Range(s) = Range(t)
    <3>3. QED
      BY ONLY <1>4, <3>2
  <2>2. QED
    BY ONLY <1>1, <1>2, <2>1, p \in 1..Len(s)
<1>6. ASSUME NEW p \in 1..Len(t)
      PROVE  p \in 1..Len(s)
  <2>1. PICK r \in 1..Len(s) : t[p] = s[r]
    <3>1. t[p] \in Range(t)
      BY ONLY <1>4, p \in 1..Len(t)
    <3>2. t[p] \in Range(s)
      BY ONLY SMTT(30), <3>1, Range(s) = Range(t)
    <3>3. QED
      BY ONLY <1>3, <3>2
  <2>2. QED
    BY ONLY <1>1, <1>2, <2>1, p \in 1..Len(t)
<1>7. Len(s) = Len(t)
  BY ONLY <1>3, <1>5, <1>6, SameEnd
<1>8. QED
  BY ONLY <1>3, <1>5, <1>7

\* A filter leaves each key it keeps where it was, and so none twice.
LEMMA KeptDistinct ==
    ASSUME NEW n \in Nat, NEW s, Distinct(s, n), NEW at
    PROVE  /\ Distinct(Kept(s, at), n)
           /\ \A x : x \in Range(Kept(s, at)) <=> \E i \in 1..Len(s) : i \in at /\ x = s[i]
<1> DEFINE out == Kept(s, at)
<1>1. s \in Seq(1..n) /\ \A i, j \in 1..Len(s) : s[i] = s[j] => i = j
  BY DEF Distinct
<1>2. /\ out \in Seq(1..n)
      /\ \A x : x \in Range(out) <=> \E i \in 1..Len(s) : i \in at /\ x = s[i]
  BY <1>1, KeptHolds
<1>3. PICK p : Places(s, at \cap 1..Len(s), out, p)
  BY <1>1, KeptPlaces
<1> HIDE DEF out
<1>4. Len(out) \in Nat /\ Len(s) \in Nat
  BY <1>1, <1>2, LenProperties
<1>5. /\ \A j \in 1..Len(out) : p[j] \in 1..Len(s) /\ out[j] = s[p[j]]
      /\ \A j, k \in 1..Len(out) : j < k => p[j] < p[k]
  BY <1>3 DEF Places
<1>6. ASSUME NEW j \in 1..Len(out), NEW k \in 1..Len(out), out[j] = out[k]
      PROVE  j = k
  <2>1. p[j] \in 1..Len(s) /\ p[k] \in 1..Len(s) /\ s[p[j]] = s[p[k]]
    BY ONLY <1>5, <1>6
  <2>2. p[j] = p[k]
    BY ONLY <1>1, <2>1
  <2>3. ~(p[j] < p[k]) /\ ~(p[k] < p[j])
    BY ONLY <1>4, <2>1, <2>2
  <2>4. ~(j < k) /\ ~(k < j)
    BY ONLY <1>5, <2>3, j \in 1..Len(out), k \in 1..Len(out)
  <2>5. QED
    BY ONLY <1>4, <2>4, j \in 1..Len(out), k \in 1..Len(out)
<1>7. QED
  BY <1>2, <1>6 DEF out, Distinct

\* Filtering keeps keys distinct.
LEMMA ThoseHold ==
    ASSUME NEW n \in Nat, NEW s, Distinct(s, n), NEW these
    PROVE  Distinct(Those(s, these), n) /\ Range(Those(s, these)) = Range(s) \cap these
<1> DEFINE at == {i \in DOMAIN s : s[i] \in these}
<1>1. Those(s, these) = Kept(s, at)
  BY DEF Those
<1>2. /\ DOMAIN s = 1..Len(s)
      /\ \A x : x \in Range(s) <=> \E i \in 1..Len(s) : x = s[i]
  BY DistinctShape
<1>3. \A i \in 1..Len(s) : i \in at <=> s[i] \in these
  BY <1>2
<1> HIDE DEF at
<1>4. /\ Distinct(Kept(s, at), n)
      /\ \A x : x \in Range(Kept(s, at)) <=> \E i \in 1..Len(s) : i \in at /\ x = s[i]
  BY KeptDistinct
<1>5. \A x : x \in Range(Kept(s, at)) <=> x \in Range(s) \cap these
  BY <1>2, <1>3, <1>4
<1>6. QED
  BY <1>1, <1>4, <1>5

\* Listing by key lists each wanted key once.
LEMMA KeyOrderHolds ==
    ASSUME NEW n \in Nat, NEW cells, DOMAIN cells = 1..n, NEW these
    PROVE  /\ Distinct(InKeyOrder(cells, these), n)
           /\ Range(InKeyOrder(cells, these)) = these \cap 1..n
<1> DEFINE keys == [k \in 1..n |-> k]
<1>1. InKeyOrder(cells, these) = Kept(keys, these)
  BY DEF InKeyOrder
<1>2. keys \in Seq(1..n)
  BY SeqDef
<1>3. DOMAIN keys = 1..n /\ \A i \in 1..n : keys[i] = i
  OBVIOUS
<1> HIDE DEF keys
<1>4. Len(keys) = n
  BY <1>2, <1>3, LenProperties, SameEnd
<1>5. Distinct(keys, n)
  BY <1>2, <1>3, <1>4 DEF Distinct
<1>6. /\ Distinct(Kept(keys, these), n)
      /\ \A x : x \in Range(Kept(keys, these)) <=> \E i \in 1..n : i \in these /\ x = keys[i]
  BY <1>4, <1>5, KeptDistinct
<1>7. \A x : x \in Range(Kept(keys, these)) <=> x \in these \cap 1..n
  BY <1>3, <1>6
<1>8. QED
  BY <1>1, <1>6, <1>7

\* A sort takes every key to one place.
LEMMA SortHolds ==
    ASSUME NEW n \in Nat, NEW s, Distinct(s, n), NEW rank, \A i \in 1..Len(s) : rank[i] \in Int
    PROVE  /\ Distinct(ByRank(s, rank), n)
           /\ Range(ByRank(s, rank)) = Range(s)
           /\ Len(ByRank(s, rank)) = Len(s)
           /\ \E q : Sorts(s, rank, ByRank(s, rank), q)
<1> DEFINE out == ByRank(s, rank)
<1>1. s \in Seq(1..n) /\ \A i, j \in 1..Len(s) : s[i] = s[j] => i = j
  BY DEF Distinct
<1>2. out \in Seq(1..n) /\ \E q : Sorts(s, rank, out, q)
  BY <1>1, RankHolds
<1> HIDE DEF out
<1>3. PICK q : Sorts(s, rank, out, q)
  BY <1>2
<1>4. /\ Len(out) = Len(s) /\ Len(s) \in Nat
      /\ \A p \in 1..Len(s) : q[p] \in 1..Len(s) /\ out[p] = s[q[p]]
      /\ \A i \in 1..Len(s) : \E p \in 1..Len(s) : q[p] = i
      /\ \A p, r \in 1..Len(s) : p < r => \/ rank[q[p]] > rank[q[r]]
                                          \/ rank[q[p]] = rank[q[r]] /\ q[p] < q[r]
  BY <1>1, <1>3, LenProperties DEF Sorts
<1>5. \A p, r \in 1..Len(s) : p < r => q[p] # q[r]
  <2>1. SUFFICES ASSUME NEW p \in 1..Len(s), NEW r \in 1..Len(s), p < r, q[p] = q[r]
                 PROVE  FALSE
    OBVIOUS
  <2> DEFINE a == q[p]
             v == rank[a]
  <2>2. a \in 1..Len(s) /\ v \in Int /\ (v > v \/ a < a)
    BY <1>4, <2>1
  <2>3. a \in Int
    BY ONLY SMTT(30), <1>4, <2>2
  <2> HIDE DEF a, v
  <2>4. QED
    BY ONLY <2>2, <2>3
<1>6. ASSUME NEW i \in 1..Len(s), NEW j \in 1..Len(s), out[i] = out[j]
      PROVE  i = j
  <2>1. q[i] \in 1..Len(s) /\ q[j] \in 1..Len(s) /\ s[q[i]] = s[q[j]]
    BY ONLY <1>4, <1>6
  <2>2. q[i] = q[j]
    BY ONLY <1>1, <2>1
  <2>3. ~(i < j) /\ ~(j < i)
    BY ONLY <1>5, <2>2, i \in 1..Len(s), j \in 1..Len(s)
  <2>4. QED
    BY ONLY <1>4, <2>3, i \in 1..Len(s), j \in 1..Len(s)
<1>7. Distinct(out, n)
  BY <1>2, <1>4, <1>6 DEF Distinct
<1>8. ASSUME NEW x
      PROVE  x \in Range(out) <=> x \in Range(s)
  <2>1. x \in Range(out) <=> \E p \in 1..Len(s) : x = out[p]
    BY <1>4, <1>7, DistinctShape
  <2>2. x \in Range(s) <=> \E i \in 1..Len(s) : x = s[i]
    BY DistinctShape
  <2>3. ASSUME x \in Range(out)
        PROVE  x \in Range(s)
    <3>1. PICK p \in 1..Len(s) : x = out[p]
      BY <2>1, <2>3
    <3>2. q[p] \in 1..Len(s) /\ x = s[q[p]]
      BY ONLY <1>4, <3>1
    <3>3. QED
      BY ONLY <2>2, <3>2
  <2>4. ASSUME x \in Range(s)
        PROVE  x \in Range(out)
    <3>1. PICK i \in 1..Len(s) : x = s[i]
      BY <2>2, <2>4
    <3>2. PICK p \in 1..Len(s) : q[p] = i
      BY ONLY <1>4, <3>1
    <3>3. x = out[p]
      BY ONLY <1>4, <3>1, <3>2
    <3>4. QED
      BY ONLY <2>1, <3>2, <3>3
  <2>5. QED
    BY <2>3, <2>4
<1>9. QED
  BY <1>2, <1>4, <1>7, <1>8 DEF out

\* A list that names no key twice is no longer than there are keys.
LEMMA DistinctIsShort ==
    ASSUME NEW n \in Nat, NEW s, Distinct(s, n)
    PROVE  Len(s) \in Nat /\ Len(s) <= n
<1>1. Len(s) \in Nat /\ s = [i \in 1..Len(s) |-> s[i]] /\ \A i \in 1..Len(s) : s[i] \in 1..n
  BY DistinctShape
<1>2. s \in Injection(1..Len(s), 1..n)
  BY <1>1 DEF Injection, IsInjective, Distinct
<1>3. /\ IsFiniteSet(1..n) /\ Cardinality(1..n) = n
      /\ Cardinality(1..Len(s)) = Len(s)
  <2> DEFINE m == Len(s)
  <2>1. m \in Int /\ m >= 0
    BY <1>1
  <2> HIDE DEF m
  <2>2. IsFiniteSet(1..n) /\ Cardinality(1..n) = n /\ Cardinality(1..m) = m
    BY <2>1, FS_Interval, 1 \in Int, n \in Int
  <2>3. QED
    BY <2>2 DEF m
<1>4. QED
  BY <1>1, <1>2, <1>3, FS_Injection

\* A limit of the size of the store cuts nothing off.
LEMMA FirstOnesAll ==
    ASSUME NEW n \in Nat, NEW s, Distinct(s, n)
    PROVE  FirstOnes(s, n) = s /\ LastOnes(s, n) = s
<1>1. Len(s) \in Nat /\ Len(s) <= n /\ s \in Seq(1..n)
  BY DistinctIsShort DEF Distinct
<1>2. Min({n, Len(s)}) = Len(s) /\ Max({1, Len(s) - n + 1}) = 1
  <2> DEFINE a == Len(s) - n + 1
  <2>1. a \in Int /\ a <= 1
    BY <1>1
  <2> HIDE DEF a
  <2>2. Max({1, a}) = 1
    BY <2>1, MaxOfTwo
  <2>3. QED
    BY <1>1, <2>2, MinOfTwo DEF a
<1>3. SubSeq(s, 1, Len(s)) = s
  BY <1>1, SubSeqFull
<1>4. QED
  BY <1>2, <1>3 DEF FirstOnes, LastOnes

-----------------------------------------------------------------------------
(* The newest first *)

Stored(cells) ==
    /\ cells \in Seq(Entry)
    /\ \A k \in DOMAIN cells : cells[k].createdAt.at <= cells[k].updatedAt.at

\* The shape of a store of entries.
LEMMA EntryShape ==
    ASSUME NEW cells \in Seq(Entry)
    PROVE  /\ Len(cells) \in Nat /\ DOMAIN cells = 1..Len(cells)
           /\ \A k \in 1..Len(cells) :
                 /\ cells[k].createdAt.at \in Int /\ cells[k].updatedAt.at \in Int
                 /\ cells[k].createdAt.text \in Int
                 /\ cells[k].value \in Int /\ cells[k].lineage \in Seq(Nat)
<1>1. Len(cells) \in Nat /\ DOMAIN cells = 1..Len(cells) /\ \A k \in 1..Len(cells) : cells[k] \in Entry
  BY LenProperties, ElementOfSeq
<1>2. \A k \in 1..Len(cells) : /\ cells[k].createdAt \in Time /\ cells[k].updatedAt \in Time
                                /\ cells[k].value \in Int /\ cells[k].lineage \in Seq(Nat)
  BY <1>1 DEF Entry
<1>3. \A t \in Time : t.at \in Int /\ t.text \in Int
  BY DEF Time
<1>4. QED
  BY <1>1, <1>2, <1>3

Newer(cells) == {z \in (DOMAIN cells) \X (DOMAIN cells) : cells[z[1]].updatedAt.at > cells[z[2]].updatedAt.at}
Newest(cells) ==
    {z \in (DOMAIN cells) \X (DOMAIN cells) :
        \/ cells[z[1]].updatedAt.at > cells[z[2]].updatedAt.at
        \/ cells[z[1]].updatedAt.at = cells[z[2]].updatedAt.at /\ z[1] < z[2]}

\* What the two orders of time say.
LEMMA NewerPairs ==
    ASSUME NEW cells, NEW x, NEW y
    PROVE  /\ <<x, y>> \in Newer(cells) <=>
                 x \in DOMAIN cells /\ y \in DOMAIN cells /\ cells[x].updatedAt.at > cells[y].updatedAt.at
           /\ <<x, y>> \in Newest(cells) <=>
                 /\ x \in DOMAIN cells /\ y \in DOMAIN cells
                 /\ \/ cells[x].updatedAt.at > cells[y].updatedAt.at
                    \/ cells[x].updatedAt.at = cells[y].updatedAt.at /\ x < y
<1> DEFINE z == <<x, y>>
<1>1. z[1] = x /\ z[2] = y
  OBVIOUS
<1>2. z \in (DOMAIN cells) \X (DOMAIN cells) <=> x \in DOMAIN cells /\ y \in DOMAIN cells
  OBVIOUS
<1> HIDE DEF z
<1>3. z \in Newer(cells) <=> /\ z \in (DOMAIN cells) \X (DOMAIN cells)
                             /\ cells[z[1]].updatedAt.at > cells[z[2]].updatedAt.at
  BY Zenon DEF Newer
<1>4. z \in Newest(cells) <=> /\ z \in (DOMAIN cells) \X (DOMAIN cells)
                              /\ \/ cells[z[1]].updatedAt.at > cells[z[2]].updatedAt.at
                                 \/ cells[z[1]].updatedAt.at = cells[z[2]].updatedAt.at /\ z[1] < z[2]
  BY Zenon DEF Newest
<1>5. QED
  BY Zenon, <1>1, <1>2, <1>3, <1>4 DEF z

\* Sorting by the last change keeps the keys, and is strict where times
\* differ.
LEMMA LastFirstHolds ==
    ASSUME NEW cells \in Seq(Entry), NEW keys, Distinct(keys, Len(cells))
    PROVE  /\ Distinct(LastFirst(cells, keys), Len(cells))
           /\ Range(LastFirst(cells, keys)) = Range(keys)
           /\ (\A k, m \in DOMAIN cells : cells[k].updatedAt.at = cells[m].updatedAt.at => k = m)
                 => InOrder(LastFirst(cells, keys), Newer(cells))
<1> DEFINE n == Len(cells)
           rank == [i \in DOMAIN keys |-> cells[keys[i]].updatedAt.at]
           out == LastFirst(cells, keys)
<1>1. n \in Nat /\ DOMAIN cells = 1..n /\ \A k \in 1..n : cells[k].updatedAt.at \in Int
  BY EntryShape
<1>2. DOMAIN keys = 1..Len(keys) /\ Len(keys) \in Nat /\ \A i \in 1..Len(keys) : keys[i] \in 1..n
  BY <1>1, DistinctShape
<1>3. out = ByRank(keys, rank)
  BY DEF LastFirst
<1>4. \A i \in 1..Len(keys) : rank[i] = cells[keys[i]].updatedAt.at /\ rank[i] \in Int
  BY <1>1, <1>2
<1> HIDE DEF rank, out
<1>5. /\ Distinct(out, n) /\ Range(out) = Range(keys) /\ Len(out) = Len(keys)
      /\ \E q : Sorts(keys, rank, out, q)
  BY <1>1, <1>3, <1>4, SortHolds
<1>6. ASSUME \A k, m \in DOMAIN cells : cells[k].updatedAt.at = cells[m].updatedAt.at => k = m
      PROVE  InOrder(out, Newer(cells))
  <2>1. PICK q : Sorts(keys, rank, out, q)
    BY <1>5
  <2>2. SUFFICES ASSUME NEW i \in 1..Len(out), NEW j \in 1..Len(out), i < j
                 PROVE  <<out[i], out[j]>> \in Newer(cells)
    BY DEF InOrder
  <2>3. /\ q[i] \in 1..Len(keys) /\ q[j] \in 1..Len(keys)
        /\ out[i] = keys[q[i]] /\ out[j] = keys[q[j]]
        /\ rank[q[i]] > rank[q[j]] \/ rank[q[i]] = rank[q[j]]
    BY <1>5, <2>1, <2>2 DEF Sorts
  <2>4. out[i] \in 1..n /\ out[j] \in 1..n /\ i # j
    BY <1>1, <1>2, <1>5, <2>2, <2>3
  <2>5. out[i] # out[j]
    BY <1>5, <2>4 DEF Distinct
  <2>6. cells[out[i]].updatedAt.at > cells[out[j]].updatedAt.at
    <3> DEFINE u == cells[out[i]].updatedAt.at
               v == cells[out[j]].updatedAt.at
    <3>1. u \in Int /\ v \in Int
      BY ONLY <1>1, <2>4
    <3>2. u > v \/ u = v
      BY ONLY <1>4, <2>3
    <3>3. u # v
      BY ONLY <1>1, <1>6, <2>4, <2>5
    <3>4. QED
      BY ONLY <3>2, <3>3
  <2>7. QED
    BY <1>1, <2>4, <2>6, NewerPairs
<1>7. QED
  BY <1>5, <1>6 DEF out, n

\* Sorting with ties broken keeps the keys and is in strict order.
LEMMA NewestHolds ==
    ASSUME NEW cells \in Seq(Entry), NEW keys, Distinct(keys, Len(cells))
    PROVE  /\ Distinct(NewestFirst(cells, keys), Len(cells))
           /\ Range(NewestFirst(cells, keys)) = Range(keys)
           /\ InOrder(NewestFirst(cells, keys), Newest(cells))
<1> DEFINE n == Len(cells)
           down == [i \in DOMAIN keys |-> -keys[i]]
           mid == ByRank(keys, down)
           rank == [i \in DOMAIN mid |-> cells[mid[i]].updatedAt.at]
           out == ByRank(mid, rank)
<1>1. n \in Nat /\ DOMAIN cells = 1..n /\ \A k \in 1..n : cells[k].updatedAt.at \in Int
  BY EntryShape
<1>2. DOMAIN keys = 1..Len(keys) /\ Len(keys) \in Nat /\ \A i \in 1..Len(keys) : keys[i] \in 1..n
  BY <1>1, DistinctShape
<1>3. NewestFirst(cells, keys) = out
  BY DEF NewestFirst, LastFirst, KeyFirst
<1>4. \A i \in 1..Len(keys) : down[i] = -keys[i] /\ down[i] \in Int
  BY <1>1, <1>2
<1> HIDE DEF down
<1>5. /\ Distinct(mid, n) /\ Range(mid) = Range(keys) /\ Len(mid) = Len(keys)
      /\ \E q : Sorts(keys, down, mid, q)
  BY <1>1, <1>4, SortHolds
<1> HIDE DEF mid
<1>6. DOMAIN mid = 1..Len(mid) /\ Len(mid) \in Nat /\ \A i \in 1..Len(mid) : mid[i] \in 1..n
  BY <1>1, <1>5, DistinctShape
<1>7. ASSUME NEW i \in 1..Len(mid), NEW j \in 1..Len(mid), i < j
      PROVE  mid[i] < mid[j]
  <2>1. PICK q : Sorts(keys, down, mid, q)
    BY <1>5
  <2>2. /\ q[i] \in 1..Len(keys) /\ q[j] \in 1..Len(keys)
        /\ mid[i] = keys[q[i]] /\ mid[j] = keys[q[j]]
        /\ down[q[i]] > down[q[j]] \/ down[q[i]] = down[q[j]]
    BY <1>5, <1>7, <2>1 DEF Sorts
  <2>3. i # j /\ mid[i] # mid[j]
    BY <1>5, <1>6, <1>7 DEF Distinct
  <2>4. down[q[i]] = -mid[i] /\ down[q[j]] = -mid[j]
    BY ONLY <1>4, <2>2
  <2> DEFINE a == mid[i]
             b == mid[j]
  <2>5. a \in Int /\ b \in Int
    BY ONLY <1>1, <1>6, i \in 1..Len(mid), j \in 1..Len(mid)
  <2>6. -a > -b \/ -a = -b
    BY ONLY <2>2, <2>4
  <2> HIDE DEF a, b
  <2>7. a # b => a < b
    BY ONLY <2>5, <2>6
  <2>8. QED
    BY ONLY <2>3, <2>7 DEF a, b
<1>8. \A i \in 1..Len(mid) : rank[i] = cells[mid[i]].updatedAt.at /\ rank[i] \in Int
  BY <1>1, <1>6
<1> HIDE DEF rank
<1>9. /\ Distinct(out, n) /\ Range(out) = Range(mid) /\ Len(out) = Len(mid)
      /\ \E q : Sorts(mid, rank, out, q)
  BY <1>1, <1>5, <1>8, SortHolds
<1> HIDE DEF out
<1>10. InOrder(out, Newest(cells))
  <2>1. PICK q : Sorts(mid, rank, out, q)
    BY <1>9
  <2>2. SUFFICES ASSUME NEW i \in 1..Len(out), NEW j \in 1..Len(out), i < j
                 PROVE  <<out[i], out[j]>> \in Newest(cells)
    BY DEF InOrder
  <2>3. /\ q[i] \in 1..Len(mid) /\ q[j] \in 1..Len(mid)
        /\ out[i] = mid[q[i]] /\ out[j] = mid[q[j]]
        /\ rank[q[i]] > rank[q[j]] \/ (rank[q[i]] = rank[q[j]] /\ q[i] < q[j])
    BY <1>9, <2>1, <2>2 DEF Sorts
  <2>4. out[i] \in 1..n /\ out[j] \in 1..n
    BY <1>6, <2>3
  <2>5. \/ cells[out[i]].updatedAt.at > cells[out[j]].updatedAt.at
        \/ cells[out[i]].updatedAt.at = cells[out[j]].updatedAt.at /\ out[i] < out[j]
    BY ONLY <1>7, <1>8, <2>3
  <2>6. QED
    BY <1>1, <2>4, <2>5, NewerPairs
<1>11. QED
  BY <1>3, <1>5, <1>9, <1>10 DEF n

\* Neither order holds both ways.
LEMMA OrdersAreStrict ==
    ASSUME NEW cells \in Seq(Entry)
    PROVE  /\ \A x, y : <<x, y>> \in Newer(cells) => <<y, x>> \notin Newer(cells)
           /\ \A x, y : <<x, y>> \in Newest(cells) => <<y, x>> \notin Newest(cells)
<1>1. DOMAIN cells \subseteq Int /\ \A k \in DOMAIN cells : cells[k].updatedAt.at \in Int
  BY EntryShape
<1>2. ASSUME NEW x, NEW y, x \in DOMAIN cells, y \in DOMAIN cells
      PROVE  /\ cells[x].updatedAt.at > cells[y].updatedAt.at => ~(cells[y].updatedAt.at > cells[x].updatedAt.at)
             /\ \/ cells[x].updatedAt.at > cells[y].updatedAt.at
                \/ cells[x].updatedAt.at = cells[y].updatedAt.at /\ x < y
                => ~(\/ cells[y].updatedAt.at > cells[x].updatedAt.at
                     \/ cells[y].updatedAt.at = cells[x].updatedAt.at /\ y < x)
  <2> DEFINE u == cells[x].updatedAt.at
             v == cells[y].updatedAt.at
  <2>1. x \in Int /\ y \in Int /\ u \in Int /\ v \in Int
    BY <1>1, <1>2
  <2> HIDE DEF u, v
  <2>2. /\ u > v => ~(v > u)
        /\ (u > v \/ (u = v /\ x < y)) => ~(v > u \/ (v = u /\ y < x))
    BY ONLY <2>1
  <2>3. QED
    BY ONLY <2>2 DEF u, v
<1>3. QED
  BY Zenon, <1>2, NewerPairs

-----------------------------------------------------------------------------
(* Selections agree *)

Wanted(cell, filter) == cell.status = "active" /\ InScope(cell, filter) /\ SinceText(cell, filter)

\* A time as toISOString() writes it has the place of its text.
LEMMA ISOHolds ==
    ASSUME NEW time, IsISO(time)
    PROVE  time.text = time.at /\ time.parses
<1> DEFINE a == time.at
<1>1. time = [text |-> a, parses |-> TRUE, at |-> a]
  BY DEF IsISO, ISO
<1> HIDE DEF a
<1>2. time.text = a /\ time.parses
  BY <1>1
<1>3. QED
  BY <1>2 DEF a

\* What is in the order of its times is in that of their texts.
LEMMA TextsHold ==
    ASSUME NEW cells \in Seq(Entry), UpdatesInISO(cells), NEW keys, Distinct(keys, Len(cells))
    PROVE  TextsFirst(cells, keys) = NewestFirst(cells, keys)
<1> DEFINE n == Len(cells)
           sorted == KeyFirst(keys)
           down == [i \in DOMAIN keys |-> -keys[i]]
           texts == [i \in DOMAIN sorted |-> cells[sorted[i]].updatedAt.text]
           times == [i \in DOMAIN sorted |-> cells[sorted[i]].updatedAt.at]
<1>1. n \in Nat /\ DOMAIN cells = 1..n
  BY EntryShape
<1>2. \A i \in 1..Len(keys) : down[i] \in Int
  BY <1>1, DistinctShape
<1>3. Distinct(sorted, n)
  <2>1. sorted = ByRank(keys, down)
    BY DEF KeyFirst
  <2> HIDE DEF sorted, down
  <2>2. QED
    BY <1>1, <1>2, <2>1, SortHolds
<1>4. \A k \in DOMAIN cells : cells[k].updatedAt.text = cells[k].updatedAt.at
  BY ISOHolds DEF UpdatesInISO
<1>5. TextsFirst(cells, keys) = ByRank(sorted, texts) /\ NewestFirst(cells, keys) = ByRank(sorted, times)
  BY Zenon DEF TextsFirst, NewestFirst, LastFirst
<1> HIDE DEF sorted
<1>6. \A i \in DOMAIN sorted : sorted[i] \in DOMAIN cells
  BY <1>1, <1>3, DistinctShape
<1>7. texts = times
  BY <1>4, <1>6
<1>8. QED
  BY <1>5, <1>7

\* And a text that is not before another is of a time that is not.
LEMMA SinceAgrees ==
    ASSUME NEW cells, NEW filter, TimesInISO(cells, filter), NEW k \in DOMAIN cells
    PROVE  SinceText(cells[k], filter) <=> Since(cells[k], filter)
<1>1. cells[k].updatedAt.text = cells[k].updatedAt.at
  BY ISOHolds DEF TimesInISO, UpdatesInISO
<1>2. \A t \in filter.since : t.parses /\ t.text = t.at
  BY ISOHolds DEF TimesInISO
<1>3. QED
  BY <1>1, <1>2 DEF SinceText, Since

\* The active entries wanted, once each and newest first.
LEMMA ActiveHolds ==
    ASSUME NEW cells \in Seq(Entry), UpdatesInISO(cells), NEW filter
    PROVE  /\ Distinct(ActiveWhere(cells, filter), Len(cells))
           /\ Range(ActiveWhere(cells, filter)) = {k \in DOMAIN cells : Wanted(cells[k], filter)}
           /\ InOrder(ActiveWhere(cells, filter), Newest(cells))
<1> DEFINE these == {k \in DOMAIN cells : Wanted(cells[k], filter)}
           keys == InKeyOrder(cells, these)
<1>1. ActiveWhere(cells, filter) = TextsFirst(cells, keys)
  BY Zenon DEF ActiveWhere, Wanted
<1>2. Len(cells) \in Nat /\ DOMAIN cells = 1..Len(cells)
  BY EntryShape
<1>3. these \subseteq 1..Len(cells)
  BY <1>2
<1> HIDE DEF these
<1>4. Distinct(keys, Len(cells)) /\ Range(keys) = these
  BY <1>2, <1>3, KeyOrderHolds
<1> HIDE DEF keys
<1>5. TextsFirst(cells, keys) = NewestFirst(cells, keys)
  BY <1>4, TextsHold
<1>6. QED
  BY <1>1, <1>4, <1>5, NewestHolds DEF these

\* The seeds by status, once each.
LEMMA SeedsHold ==
    ASSUME NEW cells \in Seq(Entry)
    PROVE  /\ Distinct(SeedByStatus(cells), Len(cells))
           /\ Range(SeedByStatus(cells)) = {k \in DOMAIN cells : cells[k].status = "active"}
<1> DEFINE these == {k \in DOMAIN cells : cells[k].status = "active"}
<1>1. Len(cells) \in Nat /\ DOMAIN cells = 1..Len(cells)
  BY EntryShape
<1>2. these \subseteq 1..Len(cells) /\ SeedByStatus(cells) = InKeyOrder(cells, these)
  BY <1>1 DEF SeedByStatus
<1> HIDE DEF these
<1>3. Distinct(SeedByStatus(cells), Len(cells)) /\ Range(SeedByStatus(cells)) = these
  BY <1>1, <1>2, KeyOrderHolds
<1>4. QED
  BY <1>3 DEF these

\* SQL and the reader narrow a store down to the same keys, and there is one
\* order of them that has the newest first.
LEMMA SubgraphsAgree ==
    ASSUME NEW cells \in Seq(Entry), NEW filter
    PROVE  SubgraphPathsAgree(cells, filter)
<1> SUFFICES ASSUME TimesInISO(cells, filter)
             PROVE  SubgraphBySql(cells, filter) = SubgraphByHand(cells, filter)
  BY DEF SubgraphPathsAgree
<1> DEFINE wanted == {k \in DOMAIN cells : Wanted(cells[k], filter)}
           active == {k \in DOMAIN cells : cells[k].status = "active"}
           here == {k \in DOMAIN cells : InScope(cells[k], filter) /\ Since(cells[k], filter)}
           rest == Those(SeedByStatus(cells), here)
           byHand == NewestFirst(cells, rest)
           bySql == ActiveWhere(cells, filter)
<1>1. wanted = active \cap here
  BY SinceAgrees DEF Wanted
<1>2. Distinct(SeedByStatus(cells), Len(cells)) /\ Range(SeedByStatus(cells)) = active
  BY SeedsHold
<1>3. /\ Distinct(bySql, Len(cells)) /\ Range(bySql) = wanted
      /\ InOrder(bySql, Newest(cells))
  BY ActiveHolds DEF TimesInISO
<1>4. SubgraphByHand(cells, filter) =
         FirstOnes(IF HasTagFamilies(filter)
                   THEN NewestFirst(cells, Tagged(cells, filter, byHand)) ELSE byHand, filter.limit)
  BY Zenon DEF SubgraphByHand
<1>5. SubgraphBySql(cells, filter) =
         IF HasTagFamilies(filter)
         THEN FirstOnes(NewestFirst(cells, Tagged(cells, filter, bySql)), filter.limit)
         ELSE FirstOnes(bySql, filter.limit)
  BY Zenon DEF SubgraphBySql
<1> HIDE DEF wanted, active, here, bySql
<1>6. Len(cells) \in Nat
  BY EntryShape
<1>7. Distinct(rest, Len(cells)) /\ Range(rest) = wanted
  <2>1. Distinct(rest, Len(cells)) /\ Range(rest) = Range(SeedByStatus(cells)) \cap here
    BY <1>2, <1>6, ThoseHold
  <2> HIDE DEF rest
  <2>2. QED
    BY <1>1, <1>2, <2>1
<1> HIDE DEF rest
<1>8. Distinct(byHand, Len(cells)) /\ Range(byHand) = wanted /\ InOrder(byHand, Newest(cells))
  BY <1>7, NewestHolds
<1> HIDE DEF byHand
<1>9. \A x, y : <<x, y>> \in Newest(cells) => <<y, x>> \notin Newest(cells)
  BY OrdersAreStrict
<1>10. bySql = byHand
  BY <1>3, <1>6, <1>8, <1>9, OneOrder
<1>11. QED
  BY Zenon, <1>4, <1>5, <1>10

\* What a page shows of a list is what it shows of another one that has the
\* same keys of the page's kinds and project.
LEMMA PagesAgree ==
    ASSUME NEW cells \in Seq(Entry), NEW filter \in Filter
    PROVE  PageSeedsAgree(cells, filter)
<1>1. SUFFICES ASSUME TimesInISO(cells, filter),
                      \A k, m \in DOMAIN cells : cells[k].updatedAt = cells[m].updatedAt => k = m,
                      NEW page \in DOMAIN PageKinds
               PROVE  RecallPage(cells, page, filter) =
                         ApplyFilter(cells, filter, SelectPage(cells, page, SeedByStatus(cells)))
  BY Zenon DEF PageSeedsAgree
<1> DEFINE n == Len(cells)
           byProject == [filter EXCEPT !.kinds = {}]
           ofPage == {k \in DOMAIN cells :
                        /\ cells[k].kind \in PageKinds[page]
                        /\ page = "handoffs" => cells[k].tags.lifecycle \cap {"handoff", "session"} # {}
                        /\ page = "profile"  => cells[k].tags.entities # {}}
           shown == {k \in DOMAIN cells :
                  /\ filter.project # "any" => cells[k].project = filter.project
                  /\ filter.tags.topics # {} => cells[k].tags.topics \cap filter.tags.topics # {}
                  /\ Since(cells[k], filter)}
           active == {k \in DOMAIN cells : cells[k].status = "active"}
           wanted == {k \in DOMAIN cells : Wanted(cells[k], byProject)}
           listed(keys) == LastFirst(cells, Those(Those(keys, ofPage), shown))
<1>2. \A keys : ApplyFilter(cells, filter, SelectPage(cells, page, keys)) = FirstOnes(listed(keys), filter.limit)
  BY Zenon DEF ApplyFilter, SelectPage
<1>3. \A k, m \in DOMAIN cells : cells[k].updatedAt.at = cells[m].updatedAt.at => k = m
  <2>1. \A k \in DOMAIN cells : cells[k].updatedAt = ISO(cells[k].updatedAt.at)
    BY <1>1, Zenon DEF TimesInISO, UpdatesInISO, IsISO
  <2>2. QED
    BY <1>1, <2>1
<1>4. CASE ~(filter.project # "any")
  BY <1>4 DEF RecallPage
<1>5. CASE filter.project # "any"
  <2> DEFINE seed == SeedByProject(cells, filter)
             other == SeedByStatus(cells)
  <2>1. RecallPage(cells, page, filter) = ApplyFilter(cells, filter, SelectPage(cells, page, seed))
    BY <1>5, Zenon DEF RecallPage
  <2>2. /\ byProject.kinds = {} /\ byProject.project = filter.project /\ byProject.since = filter.since
    BY DEF Filter
  <2>3. \A k \in DOMAIN cells : Wanted(cells[k], byProject) <=>
             /\ cells[k].status = "active" /\ cells[k].project = filter.project
             /\ Since(cells[k], filter)
    <3> HIDE DEF byProject
    <3>1. \A k \in DOMAIN cells : SinceText(cells[k], byProject) <=> SinceText(cells[k], filter)
      BY <2>2, Zenon DEF SinceText
    <3>2. \A k \in DOMAIN cells : InScope(cells[k], byProject) <=> cells[k].project = filter.project
      BY <1>5, <2>2, Zenon DEF InScope
    <3>3. QED
      BY <1>1, <3>1, <3>2, SinceAgrees DEF Wanted
  <2>4. seed = ActiveWhere(cells, byProject)
    BY Zenon DEF SeedByProject
  <2> HIDE DEF byProject, seed, other
  <2>5. active \cap shown = wanted \cap shown
    BY ONLY <1>5, <2>3
  <2> HIDE DEF ofPage, shown
  <2>6. Distinct(seed, n) /\ Range(seed) = wanted
    BY <1>1, <2>4, ActiveHolds DEF TimesInISO
  <2>7. Distinct(other, n) /\ Range(other) = active
    BY SeedsHold DEF other
  <2> HIDE DEF active, wanted
  <2>8. n \in Nat
    BY EntryShape
  <2>9. ASSUME NEW keys, Distinct(keys, n)
        PROVE  /\ Distinct(listed(keys), n)
               /\ Range(listed(keys)) = Range(keys) \cap ofPage \cap shown
               /\ InOrder(listed(keys), Newer(cells))
    <3> HIDE DEF n
    <3>1. Distinct(Those(keys, ofPage), n) /\ Range(Those(keys, ofPage)) = Range(keys) \cap ofPage
      BY <2>8, <2>9, ThoseHold
    <3> DEFINE here == Those(Those(keys, ofPage), shown)
    <3>2. Distinct(here, n) /\ Range(here) = Range(keys) \cap ofPage \cap shown
      BY <2>8, <3>1, ThoseHold
    <3> HIDE DEF here
    <3>3. /\ Distinct(LastFirst(cells, here), n)
          /\ Range(LastFirst(cells, here)) = Range(here)
          /\ InOrder(LastFirst(cells, here), Newer(cells))
      BY <1>3, <3>2, LastFirstHolds DEF n
    <3>4. QED
      BY <3>2, <3>3 DEF here
  <2> HIDE DEF listed, n
  <2>10. Range(listed(seed)) = Range(listed(other))
    BY <2>5, <2>6, <2>7, <2>9
  <2>11. \A x, y : <<x, y>> \in Newer(cells) => <<y, x>> \notin Newer(cells)
    BY OrdersAreStrict
  <2>12. listed(seed) = listed(other)
    BY <2>6, <2>7, <2>8, <2>9, <2>10, <2>11, OneOrder
  <2>13. QED
    BY Zenon, <1>2, <2>1, <2>12 DEF other
<1>6. QED
  BY <1>4, <1>5

\* Two lists that share no key, one after the other.
LEMMA DistinctConcat ==
    ASSUME NEW n \in Nat, NEW s, NEW t, Distinct(s, n), Distinct(t, n), Range(s) \cap Range(t) = {}
    PROVE  IsInjective(s \o t) /\ Range(s \o t) = Range(s) \cup Range(t)
<1> DEFINE a == Len(s)
           b == Len(t)
           both == s \o t
<1>1. s \in Seq(1..n) /\ t \in Seq(1..n) /\ a \in Nat /\ b \in Nat
  BY LenProperties DEF Distinct
<1>2. /\ both \in Seq(1..n) /\ Len(both) = a + b
      /\ \A i \in 1..(a + b) : both[i] = IF i <= a THEN s[i] ELSE t[i - a]
  BY <1>1, ConcatProperties
<1>3. DOMAIN both = 1..(a + b)
  BY <1>2, LenProperties
<1>4. \A x : x \in Range(s) <=> \E i \in 1..a : x = s[i]
  BY DistinctShape
<1>5. \A x : x \in Range(t) <=> \E i \in 1..b : x = t[i]
  BY DistinctShape
<1>6. /\ \A i, j \in 1..a : s[i] = s[j] => i = j
      /\ \A i, j \in 1..b : t[i] = t[j] => i = j
  BY DEF Distinct
<1> HIDE DEF a, b, both
<1>7. \A x : x \in Range(both) <=> \E i \in 1..(a + b) : x = both[i]
  BY <1>3 DEF Range
<1>8. \A i \in 1..(a + b) : \/ i \in 1..a /\ both[i] = s[i]
                            \/ ~(i \in 1..a) /\ i - a \in 1..b /\ both[i] = t[i - a]
  <2>1. SUFFICES ASSUME NEW i \in 1..(a + b)
                 PROVE  \/ i \in 1..a /\ both[i] = s[i]
                        \/ ~(i \in 1..a) /\ i - a \in 1..b /\ both[i] = t[i - a]
    OBVIOUS
  <2>2. \/ i \in 1..a /\ i <= a
        \/ ~(i \in 1..a) /\ ~(i <= a) /\ i - a \in 1..b
    BY ONLY <1>1, <2>1
  <2>3. both[i] = IF i <= a THEN s[i] ELSE t[i - a]
    BY ONLY <1>2, <2>1
  <2>4. QED
    BY ONLY <2>2, <2>3
<1>9. /\ \A i \in 1..a : i \in 1..(a + b) /\ both[i] = s[i]
      /\ \A i \in 1..b : a + i \in 1..(a + b) /\ both[a + i] = t[i]
  BY ONLY SMTT(30), <1>1, <1>2
<1>10. \A x : x \in Range(both) <=> x \in Range(s) \/ x \in Range(t)
  BY ONLY <1>4, <1>5, <1>7, <1>8, <1>9
<1>11. ASSUME NEW i \in 1..(a + b), NEW j \in 1..(a + b), both[i] = both[j]
       PROVE  i = j
  <2>1. CASE i \in 1..a /\ j \in 1..a
    BY ONLY <1>6, <1>8, <1>11, <2>1
  <2>2. CASE ~(i \in 1..a) /\ ~(j \in 1..a)
    <3>1. i - a \in 1..b /\ j - a \in 1..b /\ t[i - a] = t[j - a]
      BY ONLY <1>8, <1>11, <2>2
    <3>2. i - a = j - a
      BY ONLY <1>6, <3>1
    <3>3. QED
      BY ONLY <1>1, <1>11, <3>2
  <2>3. CASE i \in 1..a /\ ~(j \in 1..a)
    <3>1. both[i] \in Range(s) /\ both[j] \in Range(t)
      BY ONLY <1>4, <1>5, <1>8, <1>11, <2>3
    <3>2. QED
      BY <1>11, <3>1
  <2>4. CASE ~(i \in 1..a) /\ j \in 1..a
    <3>1. both[j] \in Range(s) /\ both[i] \in Range(t)
      BY ONLY <1>4, <1>5, <1>8, <1>11, <2>4
    <3>2. QED
      BY <1>11, <3>1
  <2>5. QED
    BY <2>1, <2>2, <2>3, <2>4
<1>12. QED
  BY <1>3, <1>10, <1>11 DEF IsInjective, both

\* A cell that is new or updated since a day is one that was updated since.
LEMMA ChangesHold ==
    ASSUME NEW cells, Stored(cells), NEW filter \in Filter
    PROVE  ChangesAgree(cells, filter)
<1>1. SUFFICES ASSUME NEW t \in filter.since, UpdatesInISO(cells)
      PROVE  LET since == ParseSince(t)
                 whole == [filter EXCEPT !.limit = Len(cells), !.since = {since}, !.tags = [f \in Families |-> {}]]
                 diff  == DiffStore(cells, whole, since)
             IN  /\ {k \in Range(diff.new \o diff.updated) : cells[k].status = "active"} =
                      Range(SubgraphBySql(cells, whole))
                 /\ IsInjective(diff.new \o diff.updated)
  BY Zenon DEF ChangesAgree
<1> DEFINE n == Len(cells)
           day == ParseSince(t)
           whole == [filter EXCEPT !.limit = n, !.since = {day}, !.tags = [f \in Families |-> {}]]
           scope == {k \in DOMAIN cells : InScope(cells[k], whole)}
           since == {k \in DOMAIN cells : cells[k].createdAt.at >= day.at}
           later == {k \in DOMAIN cells : cells[k].createdAt.at < day.at /\ cells[k].updatedAt.at >= day.at}
           wanted == {k \in DOMAIN cells : Wanted(cells[k], whole)}
           scoped == InKeyOrder(cells, scope)
           new == Those(scoped, since)
           updated == Those(scoped, later)
           ages == [i \in DOMAIN new |-> cells[new[i]].createdAt.at]
           added == FirstOnes(ByRank(new, ages), whole.limit)
           changed == FirstOnes(LastFirst(cells, updated), whole.limit)
<1>2. /\ cells \in Seq(Entry)
      /\ \A k \in DOMAIN cells : cells[k].createdAt.at <= cells[k].updatedAt.at
  BY DEF Stored
<1>3. /\ n \in Nat /\ DOMAIN cells = 1..n
      /\ \A k \in 1..n : cells[k].createdAt.at \in Int /\ cells[k].updatedAt.at \in Int
  BY <1>2, EntryShape
<1>4. /\ whole.limit = n /\ whole.since = {day} /\ day.at \in Int
      /\ \A f \in Families : whole.tags[f] = {}
  <2>1. /\ whole.limit = n /\ whole.since = {day}
        /\ \A f \in Families : whole.tags[f] = {}
    BY DEF Filter
  <2>2. t \in Time
    BY <1>1 DEF Filter
  <2>3. day.at \in Int
    BY <2>2 DEF ParseSince, ISO, Time
  <2>4. QED
    BY <2>1, <2>3
<1>5. \A k \in DOMAIN cells : SinceText(cells[k], whole) <=> cells[k].updatedAt.at >= day.at
  <2>1. \A k \in DOMAIN cells : cells[k].updatedAt.text = cells[k].updatedAt.at
    BY <1>1, ISOHolds DEF UpdatesInISO
  <2>2. day.text = day.at
    BY DEF ParseSince, ISO
  <2> HIDE DEF whole, day
  <2>3. QED
    BY <1>4, <2>1, <2>2 DEF SinceText
<1>6. DiffStore(cells, whole, day).new = added /\ DiffStore(cells, whole, day).updated = changed
  <2> HIDE DEF whole, day
  <2>1. PICK rest : DiffStore(cells, whole, day) = [new |-> added, updated |-> changed, supersedes |-> rest]
    BY Zenon DEF DiffStore
  <2> HIDE DEF added, changed
  <2>2. QED
    BY <2>1
<1>7. SubgraphBySql(cells, whole) = FirstOnes(ActiveWhere(cells, whole), n)
  <2> HIDE DEF whole, n
  <2>1. ~HasTagFamilies(whole)
    BY <1>4 DEF HasTagFamilies
  <2>2. QED
    BY <1>4, <2>1 DEF SubgraphBySql
<1> HIDE DEF whole, day, n
<1>8. Range(SubgraphBySql(cells, whole)) = wanted
  <2>1. Distinct(ActiveWhere(cells, whole), n) /\ Range(ActiveWhere(cells, whole)) = wanted
    BY <1>1, <1>2, ActiveHolds DEF n
  <2>2. QED
    BY <1>3, <1>7, <2>1, FirstOnesAll
<1>9. /\ scope \subseteq 1..n
      /\ wanted = {k \in scope \cap (since \cup later) : cells[k].status = "active"}
      /\ since \cap later = {}
  <2>1. \A k \in DOMAIN cells : Wanted(cells[k], whole) <=>
           cells[k].status = "active" /\ InScope(cells[k], whole) /\ cells[k].updatedAt.at >= day.at
    BY <1>5, Zenon DEF Wanted
  <2>2. \A k \in DOMAIN cells : cells[k].updatedAt.at >= day.at <=>
           \/ cells[k].createdAt.at >= day.at
           \/ cells[k].createdAt.at < day.at /\ cells[k].updatedAt.at >= day.at
    BY <1>2, <1>3, <1>4
  <2>3. \A k \in DOMAIN cells : ~(cells[k].createdAt.at >= day.at /\ cells[k].createdAt.at < day.at)
    BY <1>3, <1>4
  <2>4. QED
    BY ONLY <1>3, <2>1, <2>2, <2>3
<1> HIDE DEF scope, since, later, wanted
<1>10. Distinct(scoped, n) /\ Range(scoped) = scope
  <2>1. Distinct(scoped, n) /\ Range(scoped) = scope \cap 1..n
    BY <1>3, KeyOrderHolds
  <2> HIDE DEF scoped
  <2>2. QED
    BY <1>9, <2>1
<1> HIDE DEF scoped
<1>11. /\ Distinct(new, n) /\ Range(new) = scope \cap since
      /\ Distinct(updated, n) /\ Range(updated) = scope \cap later
  BY <1>3, <1>10, ThoseHold
<1> HIDE DEF new, updated
<1>12. Distinct(added, n) /\ Range(added) = scope \cap since
  <2>1. DOMAIN new = 1..Len(new) /\ \A i \in 1..Len(new) : new[i] \in 1..n
    BY <1>3, <1>11, DistinctShape
  <2>2. \A i \in 1..Len(new) : ages[i] \in Int
    BY <1>3, <2>1
  <2> HIDE DEF ages
  <2>3. Distinct(ByRank(new, ages), n) /\ Range(ByRank(new, ages)) = Range(new)
    BY <1>3, <1>11, <2>2, SortHolds
  <2>4. added = ByRank(new, ages)
    BY <1>3, <1>4, <2>3, FirstOnesAll
  <2>5. QED
    BY <1>11, <2>3, <2>4
<1>13. Distinct(changed, n) /\ Range(changed) = scope \cap later
  <2>1. Distinct(LastFirst(cells, updated), n) /\ Range(LastFirst(cells, updated)) = Range(updated)
    BY <1>2, <1>11, LastFirstHolds DEF n
  <2>2. changed = LastFirst(cells, updated)
    BY <1>3, <1>4, <2>1, FirstOnesAll
  <2>3. QED
    BY <1>11, <2>1, <2>2
<1> HIDE DEF added, changed
<1>14. IsInjective(added \o changed) /\ Range(added \o changed) = scope \cap (since \cup later)
  <2>1. Range(added) \cap Range(changed) = {}
    BY <1>9, <1>12, <1>13
  <2>2. IsInjective(added \o changed) /\ Range(added \o changed) = Range(added) \cup Range(changed)
    BY <1>3, <1>12, <1>13, <2>1, DistinctConcat
  <2>3. QED
    BY <1>12, <1>13, <2>2
<1>15. /\ {k \in Range(DiffStore(cells, whole, day).new \o DiffStore(cells, whole, day).updated) :
             cells[k].status = "active"} = Range(SubgraphBySql(cells, whole))
       /\ IsInjective(DiffStore(cells, whole, day).new \o DiffStore(cells, whole, day).updated)
  BY <1>6, <1>8, <1>9, <1>14
<1>16. QED
  BY Zenon, <1>15 DEF whole, day, n

\* The ways to select cells agree: by SQL and by hand, of a project's cells
\* and of all, and by what changed since a day (SelectionsAgree), whatever the
\* store and the filter, where the texts of times are in the order of the times.
THEOREM ReadingSelections == Spec => []SelectionsAgree
<1>1. Asked => SelectionsAgree
  <2>1. SUFFICES ASSUME Asked, About("listing"), NEW f \in Filters
                 PROVE  /\ SubgraphPathsAgree(question.cells, f)
                        /\ PageSeedsAgree(question.cells, f)
                        /\ ChangesAgree(question.cells, f)
    BY DEF SelectionsAgree
  <2>2. question.cells \in Tables
    BY <2>1 DEF Asked, About, Raised
  <2>3. question.cells \in Seq(Entry) /\ Stored(question.cells) /\ f \in Filter
    BY <2>2, TablesAssumption DEF Stored
  <2>4. QED
    BY <2>3, SubgraphsAgree, PagesAgree, ChangesHold
<1>2. QED
  BY <1>1, AlwaysAsked, PTL

-----------------------------------------------------------------------------
(* Lookups miss nothing *)

\* A filter makes no list longer.
LEMMA KeptIsShort ==
    ASSUME NEW S, NEW s \in Seq(S), NEW at
    PROVE  Len(Kept(s, at)) \in Nat /\ Len(s) \in Nat /\ Len(Kept(s, at)) <= Len(s)
<1> DEFINE out == Kept(s, at)
           a == Len(out)
           b == Len(s)
<1>1. out \in Seq(S)
  BY KeptPlaces
<1>2. PICK p : Places(s, at \cap 1..b, out, p)
  BY KeptPlaces
<1> HIDE DEF out
<1>3. a \in Nat /\ b \in Nat
  BY <1>1, LenProperties
<1>4. /\ \A j \in 1..a : p[j] \in 1..b
      /\ \A j, k \in 1..a : j < k => p[j] < p[k]
      /\ DOMAIN p = 1..a /\ p = [j \in DOMAIN p |-> p[j]]
  BY <1>2 DEF Places
<1> HIDE DEF a, b
<1>5. ASSUME NEW j \in 1..a, NEW k \in 1..a, p[j] = p[k]
      PROVE  j = k
  <2>1. p[j] \in Int /\ p[k] \in Int
    BY ONLY <1>3, <1>4, <1>5
  <2>2. ~(j < k) /\ ~(k < j)
    BY ONLY <1>4, <1>5, <2>1
  <2>3. QED
    BY ONLY <1>3, <1>5, <2>2
<1>6. p \in Injection(1..a, 1..b)
  BY <1>4, <1>5 DEF Injection, IsInjective
<1>7. IsFiniteSet(1..b) /\ Cardinality(1..b) = b /\ Cardinality(1..a) = a
  BY <1>3, FS_Interval, 1 \in Int, a \in Int, b \in Int
<1>8. a <= b
  BY <1>6, <1>7, FS_Injection
<1>9. QED
  BY <1>3, <1>8 DEF a, b, out

\* One number less in a list, and the sum is that much less.
LEMMA TotalDrops ==
    ASSUME NEW n \in Nat, NEW s \in [1..n -> Nat], NEW t \in [1..n -> Nat], NEW k \in 1..n,
           t[k] = 0, \A i \in 1..n : i # k => t[i] = s[i]
    PROVE  Total(s) \in Nat /\ Total(t) \in Nat /\ Total(s) = Total(t) + s[k]
<1>1. s \in Seq(Nat) /\ t \in Seq(Nat) /\ Len(s) = n /\ Len(t) = n
  <2>1. s \in Seq(Nat) /\ t \in Seq(Nat)
    BY SeqDef
  <2>2. DOMAIN s = 1..n /\ DOMAIN t = 1..n
    OBVIOUS
  <2>3. QED
    BY <2>1, <2>2, LenProperties, SameEnd
<1>2. PICK f : SumsTo(s, n, f)
  BY <1>1, TotalOf
<1>3. PICK g : SumsTo(t, n, g)
  BY <1>1, TotalOf
<1> DEFINE Good(i) == f[i] \in Nat /\ g[i] \in Nat /\ f[i] = g[i] + (IF k <= i THEN s[k] ELSE 0)
           S == {i \in Nat : i <= n => Good(i)}
<1>4. 0 \in S
  BY <1>2, <1>3 DEF SumsTo
<1>5. ASSUME NEW i \in Nat, i \in S
      PROVE  i + 1 \in S
  <2>1. SUFFICES ASSUME i + 1 <= n
                 PROVE  Good(i + 1)
    OBVIOUS
  <2>2. Good(i) /\ i + 1 \in 1..n /\ (i + 1) - 1 = i
    BY <1>5, <2>1
  <2>3. f[i + 1] = f[i] + s[i + 1] /\ g[i + 1] = g[i] + t[i + 1]
    BY <1>2, <1>3, <2>2 DEF SumsTo
  <2>4. s[i + 1] \in Nat /\ t[i + 1] \in Nat /\ s[k] \in Nat
    BY <2>2
  <2>5. k \in Int /\ n \in Int
    OBVIOUS
  <2>6. CASE i + 1 = k
    <3>1. ~(k <= i) /\ k <= i + 1 /\ t[i + 1] = 0
      BY <2>5, <2>6
    <3>2. f[i] = g[i] /\ s[i + 1] = s[k]
      BY ONLY <2>2, <2>6, <3>1
    <3>3. f[i + 1] = g[i + 1] + s[k] /\ f[i + 1] \in Nat /\ g[i + 1] \in Nat
      BY ONLY <2>2, <2>3, <2>4, <3>1, <3>2
    <3>4. QED
      BY ONLY <3>1, <3>3
  <2>7. CASE i + 1 # k
    <3>1. t[i + 1] = s[i + 1] /\ (k <= i + 1 <=> k <= i)
      BY <2>2, <2>5, <2>7
    <3> DEFINE d == IF k <= i THEN s[k] ELSE 0
               a == f[i]
               b == g[i]
               c == s[i + 1]
    <3>2. /\ a \in Nat /\ b \in Nat /\ c \in Nat /\ d \in Nat /\ a = b + d
          /\ f[i + 1] = a + c /\ g[i + 1] = b + c
      BY ONLY <2>2, <2>3, <2>4, <3>1
    <3>3. d = IF k <= i + 1 THEN s[k] ELSE 0
      BY ONLY <3>1
    <3> HIDE DEF a, b, c, d
    <3>4. f[i + 1] \in Nat /\ g[i + 1] \in Nat /\ f[i + 1] = g[i + 1] + d
      BY ONLY <3>2
    <3>5. QED
      BY ONLY <3>3, <3>4
  <2>8. QED
    BY <2>6, <2>7
<1>6. n \in S
  <2> HIDE DEF S
  <2> QED BY <1>4, <1>5, Induction
<1>7. QED
  BY <1>2, <1>3, <1>6 DEF SumsTo

\* The changes from one number to the next add up to the change from the
\* first to the last.
LEMMA ChangesAddUp ==
    ASSUME NEW m \in Nat \ {0}, NEW v, \A i \in 1..m : v[i] \in Int,
           NEW s, s = [i \in 1..(m - 1) |-> v[i + 1] - v[i]]
    PROVE  Total(s) = v[m] - v[1]
<1> DEFINE n == m - 1
<1>1. n \in Nat /\ m = n + 1 /\ 1 \in 1..m
  OBVIOUS
<1> HIDE DEF n
<1>2. \A i \in 1..n : i \in 1..m /\ i + 1 \in 1..m
  BY <1>1
<1>3. s \in [1..n -> Int] /\ \A i \in 1..n : s[i] = v[i + 1] - v[i]
  BY <1>2 DEF n
<1>4. Len(s) = n
  <2>1. s \in Seq(Int)
    BY <1>1, <1>3, SeqDef
  <2>2. DOMAIN s = 1..n
    BY <1>3
  <2>3. QED
    BY <1>1, <2>1, <2>2, LenProperties, SameEnd
<1>5. PICK f : SumsTo(s, n, f)
  BY <1>1, <1>4, TotalOf
<1> DEFINE Good(i) == f[i] = v[i + 1] - v[1]
           S == {i \in Nat : i <= n => Good(i)}
<1>6. 0 \in S
  BY <1>1, <1>5 DEF SumsTo
<1>7. ASSUME NEW i \in Nat, i \in S
      PROVE  i + 1 \in S
  <2>1. SUFFICES ASSUME i + 1 <= n
                 PROVE  Good(i + 1)
    OBVIOUS
  <2>2. Good(i) /\ i + 1 \in 1..n /\ (i + 1) - 1 = i
    BY <1>1, <1>7, <2>1
  <2>3. f[i + 1] = f[i] + s[i + 1] /\ s[i + 1] = v[(i + 1) + 1] - v[i + 1]
    BY <1>3, <1>5, <2>2 DEF SumsTo
  <2>4. v[1] \in Int /\ v[i + 1] \in Int /\ v[(i + 1) + 1] \in Int
    BY <1>1, <1>2, <2>2
  <2>5. QED
    BY <2>2, <2>3, <2>4
<1>8. n \in S
  <2> HIDE DEF S
  <2> QED BY <1>1, <1>6, <1>7, Induction
<1>9. QED
  BY <1>1, <1>5, <1>8 DEF SumsTo

-----------------------------------------------------------------------------
(* The walk along a lineage: with each step fewer readings are left to do,  *)
(* those that are queued and those that the unread name.                    *)

Unread(cells, seen) == [k \in DOMAIN cells |-> IF k \in Range(seen) THEN 0 ELSE Len(cells[k].lineage)]
ToDo(cells, walk) == Len(walk.queue) + Total(Unread(cells, walk.seen))

Descends(cells, head, walk) ==
    /\ walk = [seen |-> walk.seen, queue |-> walk.queue]
    /\ Distinct(walk.seen, Len(cells)) /\ walk.queue \in Seq(1..Len(cells))
    /\ head \in Range(walk.seen) \cup Range(walk.queue)
    /\ \A k \in Range(walk.seen) : \A a \in Range(cells[k].lineage) :
          a \in DOMAIN cells => a \in Range(walk.seen) \cup Range(walk.queue)

MostReadings(cells) == 1 + Total([k \in DOMAIN cells |-> Len(cells[k].lineage)])

WalkOf(cells, head, most, walk) ==
    /\ walk[0] = [seen |-> <<>>, queue |-> <<head>>]
    /\ \A i \in 1..most : walk[i] = NextReading(cells, walk[i - 1])

\* The walk up a lineage exists as a function of the steps taken.
LEMMA LineageRecursion ==
    ASSUME NEW cells, NEW head, MostReadings(cells) \in Nat
    PROVE  \E walk : /\ LineageOf(cells, head) = walk[MostReadings(cells)].seen
                     /\ WalkOf(cells, head, MostReadings(cells), walk)
<1> DEFINE most == MostReadings(cells)
<1>0. most \in Nat
  OBVIOUS
<1> HIDE DEF most
<1> DEFINE first == [seen |-> <<>>, queue |-> <<head>>]
           Walked(h, k) == h = [i \in 0..k |-> IF i = 0 THEN first ELSE NextReading(cells, h[i - 1])]
           S == {k \in Nat : \E h : Walked(h, k)}
<1> HIDE DEF first
<1>1. 0 \in S
  <2>1. Walked([i \in 0..0 |-> first], 0)
    OBVIOUS
  <2>2. QED
    BY <2>1
<1>2. ASSUME NEW k \in Nat, k \in S
      PROVE  k + 1 \in S
  <2>1. PICK h : Walked(h, k)
    BY <1>2
  <2> DEFINE top == NextReading(cells, h[k])
             next == [i \in 0..(k + 1) |-> IF i = k + 1 THEN top ELSE h[i]]
             again == [i \in 0..(k + 1) |-> IF i = 0 THEN first ELSE NextReading(cells, next[i - 1])]
  <2>2. ASSUME NEW i \in 0..(k + 1)
        PROVE  next[i] = again[i]
    <3>1. CASE i = k + 1
      BY <3>1
    <3>2. CASE i = 0
      BY <2>1, <3>2
    <3>3. CASE i \in 1..k
      <4>1. i - 1 \in 0..k
        BY <3>3
      <4>2. next[i] = h[i] /\ next[i - 1] = h[i - 1]
        BY <3>3, <4>1
      <4>3. QED
        BY <2>1, <3>3, <4>2
    <3>4. QED
      BY <3>1, <3>2, <3>3
  <2>3. next = again
    BY <2>2
  <2>4. Walked(next, k + 1)
    BY <2>3
  <2> HIDE DEF Walked, next
  <2>5. QED
    BY <2>4
<1>3. most \in S
  <2> HIDE DEF S
  <2> QED BY <1>0, <1>1, <1>2, Induction
<1> DEFINE out == CHOOSE h : Walked(h, most)
<1>4. Walked(out, most)
  <2> HIDE DEF Walked
  <2> QED BY <1>3
<1>5. LineageOf(cells, head) = out[most].seen
  BY DEF LineageOf, MostReadings, most, first
<1> HIDE DEF out
<1>6. \A i \in 0..most : out[i] = IF i = 0 THEN first ELSE NextReading(cells, out[i - 1])
  BY <1>4
<1>7. /\ out[0] = first
      /\ \A i \in 1..most : out[i] = NextReading(cells, out[i - 1])
  <2>1. 0 \in 0..most /\ \A i \in 1..most : i \in 0..most /\ i # 0
    BY ONLY <1>0
  <2>2. QED
    BY ONLY <1>6, <2>1
<1>8. QED
  BY <1>5, <1>7 DEF first, most, WalkOf

\* What is in a list, by its places, and in lists that are made of it.
LEMMA SeqShape ==
    ASSUME NEW S, NEW s \in Seq(S)
    PROVE  /\ Len(s) \in Nat /\ DOMAIN s = 1..Len(s)
           /\ \A i \in 1..Len(s) : s[i] \in S
           /\ \A x : x \in Range(s) <=> \E i \in 1..Len(s) : x = s[i]
           /\ Range(s) \subseteq S
<1>1. Len(s) \in Nat /\ DOMAIN s = 1..Len(s) /\ \A i \in 1..Len(s) : s[i] \in S
  BY LenProperties, ElementOfSeq
<1>2. QED
  BY <1>1 DEF Range

\* A function over an interval from 1 is a sequence.
LEMMA FunctionIsSeq ==
    ASSUME NEW S, NEW l \in Nat, NEW f \in [1..l -> S]
    PROVE  f \in Seq(S)
BY SeqDef

\* Concatenation adds lengths and members.
LEMMA ConcatRange ==
    ASSUME NEW S, NEW s \in Seq(S), NEW t \in Seq(S)
    PROVE  s \o t \in Seq(S) /\ Len(s \o t) = Len(s) + Len(t) /\ Range(s \o t) = Range(s) \cup Range(t)
<1> DEFINE a == Len(s)
           b == Len(t)
           both == s \o t
<1>1. /\ both \in Seq(S) /\ Len(both) = a + b
      /\ \A i \in 1..(a + b) : both[i] = IF i <= a THEN s[i] ELSE t[i - a]
  BY ConcatProperties
<1>2. a \in Nat /\ \A x : x \in Range(s) <=> \E i \in 1..a : x = s[i]
  BY SeqShape
<1>3. b \in Nat /\ \A x : x \in Range(t) <=> \E i \in 1..b : x = t[i]
  BY SeqShape
<1> HIDE DEF both
<1>4. \A x : x \in Range(both) <=> \E i \in 1..Len(both) : x = both[i]
  BY <1>1, SeqShape
<1> HIDE DEF a, b
<1>5. \A x : x \in Range(both) <=> \E i \in 1..(a + b) : x = both[i]
  BY ONLY <1>1, <1>4
<1>6. \A i \in 1..(a + b) : \/ i \in 1..a /\ both[i] = s[i]
                            \/ i - a \in 1..b /\ both[i] = t[i - a]
  BY ONLY <1>1, <1>2, <1>3
<1>7. /\ \A i \in 1..a : i \in 1..(a + b) /\ both[i] = s[i]
      /\ \A i \in 1..b : a + i \in 1..(a + b) /\ both[a + i] = t[i]
  BY ONLY <1>1, <1>2, <1>3
<1>8. \A x : x \in Range(both) <=> x \in Range(s) \/ x \in Range(t)
  <2>1. \A x : x \in Range(both) => x \in Range(s) \/ x \in Range(t)
    BY ONLY <1>2, <1>3, <1>5, <1>6
  <2>2. \A x : x \in Range(s) \/ x \in Range(t) => x \in Range(both)
    BY ONLY <1>2, <1>3, <1>5, <1>7
  <2>3. QED
    BY <2>1, <2>2
<1>9. QED
  BY <1>1, <1>8 DEF both, a, b

\* A sequence is its front and its last.
LEMMA FrontRange ==
    ASSUME NEW S, NEW s \in Seq(S), s # <<>>
    PROVE  /\ Front(s) \in Seq(S) /\ Len(Front(s)) = Len(s) - 1
           /\ Last(s) \in S /\ Range(s) = Range(Front(s)) \cup {Last(s)}
<1> DEFINE m == Len(s)
           rest == SubSeq(s, 1, m - 1)
<1>1. /\ m \in Nat /\ m # 0 /\ \A i \in 1..m : s[i] \in S
      /\ \A x : x \in Range(s) <=> \E i \in 1..m : x = s[i]
  BY SeqShape, EmptySeq
<1>2. Front(s) = rest /\ Last(s) = s[m]
  BY DEF Front, Last
<1> HIDE DEF m
<1>3. \A i \in 1..(m - 1) : s[i] \in S
  BY <1>1
<1>4. rest \in Seq(S) /\ Len(rest) = m - 1 /\ \A i \in 1..(m - 1) : rest[i] = s[i]
  <2> DEFINE l == m - 1
  <2>1. l \in Nat /\ l - 1 + 1 = l /\ \A i \in 1..l : s[i] \in S
    BY <1>1, <1>3
  <2> HIDE DEF l
  <2>2. /\ SubSeq(s, 1, l) \in Seq(S) /\ Len(SubSeq(s, 1, l)) = IF 1 <= l THEN l - 1 + 1 ELSE 0
        /\ \A i \in 1..(l - 1 + 1) : SubSeq(s, 1, l)[i] = s[1 + i - 1]
    BY <2>1, SubSeqProperties, 1 \in Int, l \in Int
  <2>3. QED
    BY <2>1, <2>2 DEF l
<1> HIDE DEF rest
<1>5. \A x : x \in Range(rest) <=> \E i \in 1..(m - 1) : x = rest[i]
  BY <1>4, SeqShape
<1>6. \A i \in 1..m : i \in 1..(m - 1) \/ i = m
  BY <1>1
<1>7. m \in 1..m /\ \A i \in 1..(m - 1) : i \in 1..m
  BY <1>1
<1>8. \A x : x \in Range(s) <=> x \in Range(rest) \/ x = s[m]
  BY ONLY <1>1, <1>4, <1>5, <1>6, <1>7
<1>9. QED
  BY <1>1, <1>2, <1>4, <1>7, <1>8 DEF m

\* A new key may be appended to distinct ones.
LEMMA DistinctAppend ==
    ASSUME NEW n \in Nat, NEW s, Distinct(s, n), NEW x \in 1..n, x \notin Range(s)
    PROVE  Distinct(Append(s, x), n) /\ Range(Append(s, x)) = Range(s) \cup {x}
<1> DEFINE m == Len(s)
           out == Append(s, x)
<1>1. s \in Seq(1..n) /\ \A i, j \in 1..m : s[i] = s[j] => i = j
  BY DEF Distinct
<1>2. m \in Nat /\ \A y : y \in Range(s) <=> \E i \in 1..m : y = s[i]
  BY <1>1, SeqShape
<1>3. /\ out \in Seq(1..n) /\ Len(out) = m + 1 /\ out[m + 1] = x
      /\ \A i \in 1..m : out[i] = s[i]
  BY <1>1, AppendProperties
<1> HIDE DEF out, m
<1>4. \A y : y \in Range(out) <=> \E i \in 1..(m + 1) : y = out[i]
  BY <1>3, SeqShape
<1>5. \A i \in 1..(m + 1) : i \in 1..m \/ i = m + 1
  BY <1>2
<1>6. m + 1 \in 1..(m + 1) /\ \A i \in 1..m : i \in 1..(m + 1)
  BY <1>2
<1>7. \A y : y \in Range(out) <=> y \in Range(s) \/ y = x
  BY ONLY <1>2, <1>3, <1>4, <1>5, <1>6
<1>8. \A i \in 1..m : s[i] # x
  BY <1>2
<1>9. \A i, j \in 1..(m + 1) : out[i] = out[j] => i = j
  BY ONLY <1>1, <1>3, <1>5, <1>8
<1>10. QED
  BY <1>3, <1>7, <1>9 DEF Distinct, out

\* Each step of the walk loses nothing and leaves less to do.
LEMMA NextWalks ==
    ASSUME NEW cells \in Seq(Entry), NEW head, NEW walk, Descends(cells, head, walk)
    PROVE  LET next == NextReading(cells, walk)
           IN  /\ Descends(cells, head, next)
               /\ ToDo(cells, walk) \in Nat /\ ToDo(cells, next) \in Nat
               /\ walk.queue = <<>> => next = walk
               /\ walk.queue # <<>> => ToDo(cells, next) + 1 <= ToDo(cells, walk)
<1> DEFINE n == Len(cells)
           seen == walk.seen
           queue == walk.queue
           next == NextReading(cells, walk)
           m == Len(queue)
<1>1. /\ n \in Nat /\ DOMAIN cells = 1..n
      /\ \A k \in 1..n : cells[k].lineage \in Seq(Nat)
  BY EntryShape
<1>2. /\ walk = [seen |-> seen, queue |-> queue]
      /\ Distinct(seen, n) /\ queue \in Seq(1..n)
      /\ head \in Range(seen) \cup Range(queue)
      /\ \A k \in Range(seen) : \A a \in Range(cells[k].lineage) :
            a \in DOMAIN cells => a \in Range(seen) \cup Range(queue)
  BY DEF Descends
<1>3. \A s : Unread(cells, s) \in [1..n -> Nat]
  <2>1. \A k \in 1..n : Len(cells[k].lineage) \in Nat
    BY <1>1, SeqShape
  <2>2. QED
    BY <1>1, <2>1 DEF Unread
<1>4. \A s : Total(Unread(cells, s)) \in Nat
  BY <1>1, <1>3, TotalIsZero
<1>5. m \in Nat /\ ToDo(cells, walk) = m + Total(Unread(cells, seen))
  BY <1>2, SeqShape DEF ToDo
<1>6. CASE queue = <<>>
  <2>1. next = walk
    BY <1>6, Zenon DEF NextReading
  <2>2. QED
    BY <1>4, <1>5, <1>6, <2>1
<1>7. CASE queue # <<>>
  <2> DEFINE key == Last(queue)
             rest == Front(queue)
             read == Append(seen, key)
             named == cells[key].lineage
             fresh == Those(named, DOMAIN cells \ Range(read))
             more == rest \o fresh
  <2>1. next = IF key \in Range(seen) THEN [walk EXCEPT !.queue = rest] ELSE [seen |-> read, queue |-> more]
    BY <1>7, Zenon DEF NextReading
  <2>2. /\ rest \in Seq(1..n) /\ Len(rest) = m - 1 /\ key \in 1..n
        /\ Range(queue) = Range(rest) \cup {key}
    BY <1>2, <1>7, FrontRange
  <2>3. m # 0
    BY <1>2, <1>7, EmptySeq
  <2> HIDE DEF key, rest, m, next, n
  <2>4. CASE key \in Range(seen)
    <3>1. next = [seen |-> seen, queue |-> rest]
      BY <1>2, <2>1, <2>4
    <3>2. ToDo(cells, next) = m - 1 + Total(Unread(cells, seen))
      BY <2>2, <3>1 DEF ToDo
    <3> HIDE DEF seen, queue
    <3>3. Range(seen) \cup Range(queue) = Range(seen) \cup Range(rest)
      BY <2>2, <2>4
    <3>4. Descends(cells, head, next)
      BY <1>2, <2>2, <3>1, <3>3 DEF Descends, n
    <3>5. ToDo(cells, next) \in Nat /\ ToDo(cells, next) + 1 <= ToDo(cells, walk)
      <4> DEFINE u == Total(Unread(cells, seen))
      <4>1. u \in Nat
        BY <1>4
      <4> HIDE DEF u
      <4>2. ToDo(cells, next) = m - 1 + u /\ ToDo(cells, walk) = m + u
        BY <1>5, <3>2 DEF u
      <4>3. QED
        BY ONLY <1>5, <2>3, <4>1, <4>2
    <3>6. QED
      BY <1>4, <1>5, <1>7, <3>4, <3>5 DEF next, queue
  <2>5. CASE key \notin Range(seen)
    <3>1. next = [seen |-> read, queue |-> more]
      BY <2>1, <2>5
    <3>2. Distinct(read, n) /\ Range(read) = Range(seen) \cup {key}
      BY <1>1, <1>2, <2>2, <2>5, DistinctAppend
    <3> HIDE DEF read, seen, queue
    <3>3. /\ fresh \in Seq(1..n)
          /\ Len(fresh) \in Nat /\ Len(named) \in Nat /\ Len(fresh) <= Len(named)
          /\ Range(fresh) = Range(named) \cap (DOMAIN cells \ Range(read))
      <4> DEFINE at == {i \in DOMAIN named : named[i] \in DOMAIN cells \ Range(read)}
      <4>1. named \in Seq(Nat)
        BY <1>1, <2>2
      <4>2. fresh = Kept(named, at)
        BY DEF Those
      <4> HIDE DEF named
      <4>3. /\ DOMAIN named = 1..Len(named)
            /\ \A x : x \in Range(named) <=> \E i \in 1..Len(named) : x = named[i]
        BY <4>1, SeqShape
      <4>4. \A i \in 1..Len(named) : i \in at <=> named[i] \in DOMAIN cells \ Range(read)
        BY <4>3
      <4> HIDE DEF at
      <4>5. /\ Kept(named, at) \in Seq(Nat)
            /\ \A x : x \in Range(Kept(named, at)) <=> \E i \in 1..Len(named) : i \in at /\ x = named[i]
        BY <4>1, KeptHolds
      <4>6. Len(Kept(named, at)) \in Nat /\ Len(named) \in Nat /\ Len(Kept(named, at)) <= Len(named)
        BY <4>1, KeptIsShort
      <4> HIDE DEF fresh
      <4>7. Range(fresh) = Range(named) \cap (DOMAIN cells \ Range(read))
        BY ONLY <4>2, <4>3, <4>4, <4>5
      <4>8. fresh \in Seq(1..n)
        <5>1. /\ fresh \in Seq(Nat) /\ DOMAIN fresh = 1..Len(fresh) /\ Len(fresh) \in Nat
              /\ \A i \in 1..Len(fresh) : fresh[i] \in Range(fresh)
          BY <4>2, <4>5, SeqShape
        <5>2. fresh = [i \in 1..Len(fresh) |-> fresh[i]]
          BY <5>1
        <5>3. \A i \in 1..Len(fresh) : fresh[i] \in 1..n
          BY <1>1, <4>7, <5>1
        <5>4. fresh \in [1..Len(fresh) -> 1..n]
          BY <5>2, <5>3
        <5> DEFINE l == Len(fresh)
        <5>5. l \in Nat /\ fresh \in [1..l -> 1..n]
          BY <5>1, <5>4
        <5> HIDE DEF l
        <5>6. QED
          BY <5>5, FunctionIsSeq
      <4>9. QED
        BY <4>2, <4>6, <4>7, <4>8
    <3> HIDE DEF fresh
    <3>4. more \in Seq(1..n) /\ Len(more) = m - 1 + Len(fresh) /\ Range(more) = Range(rest) \cup Range(fresh)
      BY <2>2, <3>3, ConcatRange
    <3> HIDE DEF more
    <3>5. Descends(cells, head, next)
      <4>1. ASSUME NEW k \in Range(read), NEW a \in Range(cells[k].lineage), a \in DOMAIN cells
            PROVE  a \in Range(read) \cup Range(more)
        <5>1. CASE k = key
          BY <3>3, <3>4, <4>1, <5>1
        <5>2. CASE k \in Range(seen)
          <6>1. a \in Range(seen) \cup Range(queue)
            BY <1>2, <4>1, <5>2
          <6>2. QED
            BY <2>2, <3>2, <3>4, <6>1
        <5>3. QED
          BY <3>2, <5>1, <5>2
      <4>2. head \in Range(read) \cup Range(more)
        BY <1>2, <2>2, <3>2, <3>4
      <4>3. QED
        BY <3>1, <3>2, <3>4, <4>1, <4>2 DEF Descends, n
    <3>6. ToDo(cells, next) = m - 1 + Len(fresh) + Total(Unread(cells, read))
      BY <3>1, <3>4 DEF ToDo
    <3>7. Total(Unread(cells, seen)) = Total(Unread(cells, read)) + Len(named)
      <4> DEFINE s == Unread(cells, seen)
                 t == Unread(cells, read)
      <4>1. s \in [1..n -> Nat] /\ t \in [1..n -> Nat]
        BY <1>3
      <4>2. s[key] = Len(named) /\ t[key] = 0
        BY <1>1, <2>2, <2>5, <3>2 DEF Unread
      <4>3. \A i \in 1..n : i # key => t[i] = s[i]
        BY <1>1, <3>2 DEF Unread
      <4> HIDE DEF s, t, named
      <4>4. Total(s) = Total(t) + s[key]
        BY <1>1, <2>2, <4>1, <4>2, <4>3, TotalDrops
      <4>5. QED
        BY <4>2, <4>4 DEF s, t
    <3>8. ToDo(cells, next) \in Nat /\ ToDo(cells, next) + 1 <= ToDo(cells, walk)
      <4> DEFINE u == Total(Unread(cells, read))
                 f == Len(fresh)
                 l == Len(named)
      <4>1. u \in Nat /\ f \in Nat /\ l \in Nat /\ f <= l
        BY <1>4, <3>3
      <4> HIDE DEF u, f, l, named
      <4>2. ToDo(cells, next) = m - 1 + f + u /\ ToDo(cells, walk) = m + (u + l)
        BY <1>5, <3>6, <3>7 DEF u, f, l, seen
      <4>3. QED
        BY ONLY <1>5, <2>3, <4>1, <4>2
    <3>9. QED
      BY <1>4, <1>5, <1>7, <3>5, <3>8 DEF next, queue
  <2>6. QED
    BY <2>4, <2>5
<1>8. QED
  BY <1>6, <1>7

\* Where the walk ends nothing is left to do.
LEMMA LineageHolds ==
    ASSUME NEW cells \in Seq(Entry), NEW head \in DOMAIN cells
    PROVE  LET read == LineageOf(cells, head)
           IN  /\ Distinct(read, Len(cells))
               /\ head \in Range(read)
               /\ \A k \in Range(read) : \A a \in Range(cells[k].lineage) :
                     a \in DOMAIN cells => a \in Range(read)
<1> DEFINE n == Len(cells)
           lengths == [k \in DOMAIN cells |-> Len(cells[k].lineage)]
           most == MostReadings(cells)
           start == [seen |-> <<>>, queue |-> <<head>>]
<1>1. /\ n \in Nat /\ DOMAIN cells = 1..n
      /\ \A k \in 1..n : cells[k].lineage \in Seq(Nat)
  BY EntryShape
<1>2. Total(lengths) \in Nat
  <2>1. \A k \in 1..n : Len(cells[k].lineage) \in Nat
    BY <1>1, SeqShape
  <2>2. lengths \in [1..n -> Nat]
    BY <1>1, <2>1
  <2> HIDE DEF lengths
  <2>3. QED
    BY <1>1, <2>2, TotalIsZero
<1>3. Range(<<>>) = {}
  BY DEF Range
<1>4. Unread(cells, <<>>) = lengths
  BY <1>3 DEF Unread
<1>5. <<head>> \in Seq(1..n) /\ Len(<<head>>) = 1 /\ Range(<<head>>) = {head}
  <2> DEFINE one == <<head>>
  <2>1. one \in Seq(1..n) /\ Len(one) = 1 /\ one[1] = head
    BY <1>1
  <2> HIDE DEF one
  <2>2. \A x : x \in Range(one) <=> \E i \in 1..Len(one) : x = one[i]
    BY <2>1, SeqShape
  <2>3. Range(one) = {head}
    BY <2>1, <2>2
  <2>4. QED
    BY <2>1, <2>3 DEF one
<1> HIDE DEF lengths
<1>6. most \in Nat /\ Descends(cells, head, start) /\ ToDo(cells, start) = most
  <2>1. Distinct(<<>>, n)
    BY EmptySeq DEF Distinct
  <2>2. start.seen = <<>> /\ start.queue = <<head>>
    OBVIOUS
  <2>3. Descends(cells, head, start)
    BY <1>3, <1>5, <2>1, <2>2 DEF Descends, n
  <2> HIDE DEF start
  <2>4. ToDo(cells, start) = 1 + Total(lengths)
    BY <1>4, <1>5, <2>2 DEF ToDo
  <2>5. most = 1 + Total(lengths)
    BY DEF MostReadings, lengths
  <2> HIDE DEF most
  <2>6. QED
    BY <1>2, <2>3, <2>4, <2>5
<1>7. PICK walk : LineageOf(cells, head) = walk[most].seen /\ WalkOf(cells, head, most, walk)
  BY <1>6, LineageRecursion
<1> HIDE DEF most, start
<1> DEFINE Good(i) == /\ Descends(cells, head, walk[i])
                      /\ walk[i].queue = <<>> \/ ToDo(cells, walk[i]) + i <= most
           S == {i \in Nat : i <= most => Good(i)}
<1>8. 0 \in S
  BY <1>6, <1>7 DEF WalkOf, start
<1>9. ASSUME NEW i \in Nat, i \in S
      PROVE  i + 1 \in S
  <2>1. SUFFICES ASSUME i + 1 <= most
                 PROVE  Good(i + 1)
    OBVIOUS
  <2>2. Good(i) /\ i + 1 \in 1..most /\ (i + 1) - 1 = i
    BY <1>6, <1>9, <2>1
  <2> DEFINE this == walk[i]
             next == walk[i + 1]
  <2>3. next = NextReading(cells, this)
    BY <1>7, <2>2 DEF WalkOf
  <2>4. Descends(cells, head, this) /\ (this.queue = <<>> \/ ToDo(cells, this) + i <= most)
    BY <2>2
  <2> HIDE DEF this, next, Good
  <2>5. /\ Descends(cells, head, next)
        /\ ToDo(cells, this) \in Nat /\ ToDo(cells, next) \in Nat
        /\ this.queue = <<>> => next = this
        /\ this.queue # <<>> => ToDo(cells, next) + 1 <= ToDo(cells, this)
    BY <2>3, <2>4, NextWalks
  <2>6. next.queue = <<>> \/ ToDo(cells, next) + (i + 1) <= most
    <3> DEFINE u == ToDo(cells, this)
               v == ToDo(cells, next)
    <3>1. u \in Nat /\ v \in Nat
      BY <2>5
    <3>2. CASE this.queue = <<>>
      BY <2>5, <3>2
    <3>3. CASE this.queue # <<>>
      <4>1. v + 1 <= u /\ u + i <= most
        BY <2>4, <2>5, <3>3
      <4> HIDE DEF u, v
      <4>2. v + (i + 1) <= most
        BY ONLY <1>6, <3>1, <4>1, i \in Nat
      <4>3. QED
        BY <4>2 DEF v
    <3>4. QED
      BY <3>2, <3>3
  <2>7. QED
    BY <2>5, <2>6 DEF Good, next
<1>10. most \in S
  <2> HIDE DEF S
  <2> QED BY <1>6, <1>8, <1>9, Induction
<1> DEFINE last == walk[most]
<1>11. Descends(cells, head, last) /\ (last.queue = <<>> \/ ToDo(cells, last) + most <= most)
  BY <1>6, <1>10
<1> HIDE DEF last
<1>12. Range(last.queue) = {}
  <2>1. last.queue \in Seq(1..n) /\ Total(Unread(cells, last.seen)) \in Nat
    <3>1. \A k \in 1..n : Len(cells[k].lineage) \in Nat
      BY <1>1, SeqShape
    <3>2. Unread(cells, last.seen) \in [1..n -> Nat]
      BY <1>1, <3>1 DEF Unread
    <3>3. Total(Unread(cells, last.seen)) \in Nat
      BY <1>1, <3>2, TotalIsZero
    <3>4. QED
      BY <1>11, <3>3 DEF Descends, n
  <2>2. CASE last.queue = <<>>
    BY <1>3, <2>2
  <2>3. CASE ToDo(cells, last) + most <= most
    <3> DEFINE l == Len(last.queue)
               u == Total(Unread(cells, last.seen))
    <3>1. l \in Nat /\ u \in Nat /\ (l + u) + most <= most
      BY <2>1, <2>3, SeqShape DEF ToDo
    <3>2. \A x : x \in Range(last.queue) <=> \E i \in 1..l : x = last.queue[i]
      BY <2>1, SeqShape
    <3> HIDE DEF l, u
    <3>3. l = 0
      BY ONLY <1>6, <3>1
    <3>4. QED
      BY <3>2, <3>3
  <2>4. QED
    BY <1>11, <2>2, <2>3
<1>13. QED
  BY <1>7, <1>11, <1>12 DEF Descends, last

\* The rows of a series are the readings that have a value, and their
\* changes lead from the first to the last.
LEMMA SeriesHold ==
    ASSUME NEW cells \in Seq(Entry), NEW key \in DOMAIN cells
    PROVE  SeriesIsWhole(cells, key)
<1> DEFINE n == Len(cells)
           series == LineageReadings(cells, key)
           have == {k \in DOMAIN cells : cells[k].value # NoValue}
           valued == Those(series, have)
           ages == [i \in DOMAIN valued |-> -cells[valued[i]].createdAt.text]
           ordered == LastOnes(ByRank(valued, ages), n)
           rows == ValueSeries(cells, series, n)
           m == Len(ordered)
           v == [i \in 1..m |-> cells[ordered[i]].value]
           changes == [i \in 1..(Len(rows) - 1) |-> rows[i + 1].delta]
<1>1. /\ n \in Nat /\ DOMAIN cells = 1..n
      /\ \A k \in 1..n : cells[k].createdAt.text \in Int /\ cells[k].value \in Int
  BY EntryShape
<1>2. /\ Distinct(series, n) /\ key \in Range(series)
      /\ \A k \in Range(series) : \A a \in Range(cells[k].lineage) :
            a \in DOMAIN cells => a \in Range(series)
  BY LineageHolds DEF LineageReadings
<1>3. rows = [i \in DOMAIN ordered |->
                [key   |-> ordered[i], value |-> cells[ordered[i]].value,
                 delta |-> IF i = 1 THEN NoValue ELSE cells[ordered[i]].value - cells[ordered[i - 1]].value]]
  BY Zenon DEF ValueSeries
<1> HIDE DEF n, series, rows
<1>4. Distinct(valued, n) /\ Range(valued) = Range(series) \cap have
  BY <1>1, <1>2, ThoseHold
<1> HIDE DEF valued
<1>5. Distinct(ordered, n) /\ Range(ordered) = Range(valued)
  <2>1. DOMAIN valued = 1..Len(valued) /\ \A i \in 1..Len(valued) : valued[i] \in 1..n
    BY <1>1, <1>4, DistinctShape
  <2>2. \A i \in 1..Len(valued) : ages[i] \in Int
    BY <1>1, <2>1
  <2> HIDE DEF ages
  <2>3. Distinct(ByRank(valued, ages), n) /\ Range(ByRank(valued, ages)) = Range(valued)
    BY <1>1, <1>4, <2>2, SortHolds
  <2>4. ordered = ByRank(valued, ages)
    BY <1>1, <2>3, FirstOnesAll
  <2>5. QED
    BY <2>3, <2>4
<1> HIDE DEF ordered
<1>6. /\ m \in Nat /\ DOMAIN ordered = 1..m /\ \A i \in 1..m : ordered[i] \in 1..n
      /\ \A x : x \in Range(ordered) <=> \E i \in 1..m : x = ordered[i]
  BY <1>1, <1>5, DistinctShape
<1> HIDE DEF m
<1>7. /\ DOMAIN rows = 1..m
      /\ \A i \in 1..m : rows[i].key = ordered[i] /\ rows[i].value = v[i]
      /\ \A i \in 1..m : i # 1 => rows[i].delta = cells[ordered[i]].value - cells[ordered[i - 1]].value
  BY <1>3, <1>6
<1>8. {r.key : r \in Range(rows)} = {k \in Range(series) : cells[k].value # NoValue}
  <2>1. \A x : x \in {r.key : r \in Range(rows)} <=> \E i \in 1..m : x = rows[i].key
    BY <1>7 DEF Range
  <2>2. \A x : x \in {r.key : r \in Range(rows)} <=> x \in Range(ordered)
    <3> DEFINE keys == {r.key : r \in Range(rows)}
    <3> HIDE DEF keys
    <3>1. \A x : x \in keys <=> \E i \in 1..m : x = rows[i].key
      BY <2>1 DEF keys
    <3>2. \A i \in 1..m : rows[i].key = ordered[i]
      BY <1>7
    <3>3. \A x : x \in keys <=> \E i \in 1..m : x = ordered[i]
      BY ONLY <3>1, <3>2
    <3>4. QED
      BY ONLY <1>6, <3>3 DEF keys
  <2>3. Range(series) \subseteq DOMAIN cells
    BY <1>1, <1>2, DistinctShape
  <2>4. Range(series) \cap have = {k \in Range(series) : cells[k].value # NoValue}
    BY <2>3
  <2>5. QED
    BY <1>4, <1>5, <2>2, <2>4
<1>9. Len(rows) = m
  <2>1. rows = [i \in 1..m |-> rows[i]]
    BY <1>3, <1>6
  <2>2. rows \in [1..m -> {rows[i] : i \in 1..m}]
    BY <2>1
  <2>3. rows \in Seq({rows[i] : i \in 1..m})
    BY <1>6, <2>2, FunctionIsSeq
  <2>4. DOMAIN rows = 1..Len(rows) /\ Len(rows) \in Nat
    BY ONLY <2>3, LenProperties
  <2>5. QED
    BY <1>6, <1>7, <2>4, SameEnd
<1>10. ASSUME rows # <<>>
       PROVE  Total(changes) = Last(rows).value - Head(rows).value
  <2>1. m # 0
    <3>1. SUFFICES ASSUME m = 0
                   PROVE  rows = <<>>
      BY <1>10
    <3>2. rows = [i \in 1..0 |-> rows[i]]
      BY <1>3, <1>6, <3>1
    <3>3. QED
      BY <3>2
  <2>2. /\ 1 \in 1..m /\ m \in 1..m
        /\ \A i \in 1..(m - 1) : i \in 1..m /\ i + 1 \in 1..m /\ i + 1 # 1 /\ (i + 1) - 1 = i
    BY <1>6, <2>1
  <2>3. changes = [i \in 1..(m - 1) |-> v[i + 1] - v[i]]
    <3>1. \A i \in 1..(m - 1) : rows[i + 1].delta = v[i + 1] - v[i]
      BY <1>7, <2>2
    <3> HIDE DEF v
    <3>2. QED
      BY <1>9, <3>1
  <2>4. \A i \in 1..m : v[i] \in Int
    BY <1>1, <1>6
  <2> HIDE DEF v, changes
  <2>5. Total(changes) = v[m] - v[1]
    BY <1>6, <2>1, <2>3, <2>4, ChangesAddUp
  <2>6. Last(rows) = rows[m] /\ Head(rows) = rows[1]
    BY <1>9 DEF Last
  <2>7. QED
    BY <1>7, <2>2, <2>5, <2>6
<1>11. QED
  BY Zenon, <1>2, <1>8, <1>10 DEF SeriesIsWhole, series, rows, n

-----------------------------------------------------------------------------
(* The semantic index *)

AddsTo(n, index, onlyMissing, embedded, upTo) ==
    /\ upTo[0] = index
    /\ \A i \in 1..n : upTo[i] = IF onlyMissing /\ i \in DOMAIN index THEN upTo[i - 1]
                                 ELSE IndexCell(upTo[i - 1], i, embedded[i])

\* The index after each cell exists as a function of how many were visited.
LEMMA ReindexRecursion ==
    ASSUME NEW cells, Len(cells) \in Nat, NEW index, NEW onlyMissing, NEW embedded
    PROVE  \E upTo : /\ Reindex(cells, index, onlyMissing, embedded) = upTo[Len(cells)]
                     /\ AddsTo(Len(cells), index, onlyMissing, embedded, upTo)
<1> DEFINE size == Len(cells)
           Adds(x, i) == IF onlyMissing /\ i \in DOMAIN index THEN x ELSE IndexCell(x, i, embedded[i])
           Added(h, k) == h = [i \in 0..k |-> IF i = 0 THEN index ELSE Adds(h[i - 1], i)]
           S == {k \in Nat : \E h : Added(h, k)}
<1> HIDE DEF Adds
<1>1. 0 \in S
  <2>1. Added([i \in 0..0 |-> index], 0)
    OBVIOUS
  <2>2. QED
    BY <2>1
<1>2. ASSUME NEW k \in Nat, k \in S
      PROVE  k + 1 \in S
  <2>1. PICK h : Added(h, k)
    BY <1>2
  <2> DEFINE top == Adds(h[k], k + 1)
             next == [i \in 0..(k + 1) |-> IF i = k + 1 THEN top ELSE h[i]]
             again == [i \in 0..(k + 1) |-> IF i = 0 THEN index ELSE Adds(next[i - 1], i)]
  <2>2. ASSUME NEW i \in 0..(k + 1)
        PROVE  next[i] = again[i]
    <3>1. CASE i = k + 1
      BY <3>1
    <3>2. CASE i = 0
      BY <2>1, <3>2
    <3>3. CASE i \in 1..k
      <4>1. i - 1 \in 0..k
        BY <3>3
      <4>2. next[i] = h[i] /\ next[i - 1] = h[i - 1]
        BY <3>3, <4>1
      <4>3. QED
        BY <2>1, <3>3, <4>2
    <3>4. QED
      BY <3>1, <3>2, <3>3
  <2>3. next = again
    BY <2>2
  <2>4. Added(next, k + 1)
    BY <2>3
  <2> HIDE DEF Added, next
  <2>5. QED
    BY <2>4
<1>3. size \in S
  <2> HIDE DEF S
  <2> QED BY <1>1, <1>2, Induction
<1> DEFINE out == CHOOSE h : Added(h, size)
<1>4. Added(out, size)
  <2> HIDE DEF Added
  <2> QED BY <1>3
<1>5. Reindex(cells, index, onlyMissing, embedded) = out[size]
  BY DEF Reindex, Adds
<1> HIDE DEF out
<1>6. \A i \in 0..size : out[i] = IF i = 0 THEN index ELSE Adds(out[i - 1], i)
  BY <1>4
<1>7. /\ out[0] = index
      /\ \A i \in 1..size : out[i] = Adds(out[i - 1], i)
  <2>1. 0 \in 0..size /\ \A i \in 1..size : i \in 0..size /\ i # 0
    OBVIOUS
  <2>2. QED
    BY ONLY <1>6, <2>1
<1>8. QED
  BY <1>5, <1>7 DEF Adds, AddsTo

\* What a reindex leaves: a vector of every cell, and of one backend if no
\* call fell back from it and there was no vector of another that stayed.
FromOne(n, index, onlyMissing, embedded, backend) ==
    /\ \A k \in 1..n : embedded[k] = backend
    /\ ~onlyMissing \/ \A k \in DOMAIN index : index[k] = backend

AllVectors(n, index, onlyMissing, embedded, backend, after) ==
    /\ DOMAIN after = DOMAIN index \cup 1..n
    /\ FromOne(n, index, onlyMissing, embedded, backend) => \A k \in 1..n : after[k] = backend

LEMMA ReindexHolds ==
    ASSUME NEW cells \in Seq(Entry), NEW index, NEW onlyMissing, NEW embedded, NEW backend
    PROVE  AllVectors(Len(cells), index, onlyMissing, embedded, backend,
                      Reindex(cells, index, onlyMissing, embedded))
<1> DEFINE n == Len(cells)
           after == Reindex(cells, index, onlyMissing, embedded)
           one == FromOne(n, index, onlyMissing, embedded, backend)
<1>1. n \in Nat
  BY EntryShape
<1>2. PICK upTo : after = upTo[n] /\ AddsTo(n, index, onlyMissing, embedded, upTo)
  BY <1>1, ReindexRecursion
<1>3. one => /\ \A k \in 1..n : embedded[k] = backend
             /\ onlyMissing => \A k \in DOMAIN index : index[k] = backend
  BY DEF FromOne
<1> HIDE DEF n, after, one
<1> DEFINE Good(i) == /\ DOMAIN upTo[i] = DOMAIN index \cup 1..i
                      /\ one => \A k \in 1..i : upTo[i][k] = backend
                      /\ one /\ onlyMissing => \A k \in DOMAIN index : upTo[i][k] = backend
           S == {i \in Nat : i <= n => Good(i)}
<1>4. 0 \in S
  BY <1>2, <1>3 DEF AddsTo
<1>5. ASSUME NEW i \in Nat, i \in S
      PROVE  i + 1 \in S
  <2>1. SUFFICES ASSUME i + 1 <= n
                 PROVE  Good(i + 1)
    OBVIOUS
  <2>2. Good(i) /\ i + 1 \in 1..n /\ (i + 1) - 1 = i /\ 1..(i + 1) = 1..i \cup {i + 1}
    BY <1>1, <1>5, <2>1
  <2> DEFINE this == upTo[i]
             next == upTo[i + 1]
             old == DOMAIN index
             way == embedded[i + 1]
  <2>3. next = IF onlyMissing /\ i + 1 \in old THEN this ELSE IndexCell(this, i + 1, way)
    BY <1>2, <2>2 DEF AddsTo
  <2>4. /\ DOMAIN this = old \cup 1..i
        /\ one => \A k \in 1..i : this[k] = backend
        /\ one /\ onlyMissing => \A k \in old : this[k] = backend
    BY <2>2
  <2>5. one => way = backend
    BY <1>3, <2>2
  <2> HIDE DEF this, next, Good, old, way
  <2>6. /\ DOMAIN next = old \cup 1..(i + 1)
        /\ one => \A k \in 1..(i + 1) : next[k] = backend
        /\ one /\ onlyMissing => \A k \in old : next[k] = backend
    <3>1. CASE onlyMissing /\ i + 1 \in old
      <4>1. next = this
        BY <2>3, <3>1
      <4>2. QED
        BY <2>2, <2>4, <3>1, <4>1
    <3>2. CASE ~(onlyMissing /\ i + 1 \in old)
      <4>1. next = [k \in DOMAIN this \cup {i + 1} |-> IF k = i + 1 THEN way ELSE this[k]]
        BY <2>3, <3>2, Zenon DEF IndexCell
      <4>2. DOMAIN next = old \cup 1..(i + 1)
        BY <2>2, <2>4, <4>1
      <4>3. QED
        BY <2>2, <2>4, <2>5, <4>1, <4>2
    <3>3. QED
      BY <3>1, <3>2
  <2>7. QED
    BY <2>6 DEF Good, next, old
<1>6. n \in S
  <2> HIDE DEF S
  <2> QED BY <1>1, <1>4, <1>5, Induction
<1>7. AllVectors(n, index, onlyMissing, embedded, backend, after)
  BY <1>2, <1>6 DEF AllVectors, one
<1>8. QED
  BY <1>7 DEF n, after

\* Likeness is never negative.
LEMMA LikenessHolds ==
    ASSUME NEW a, NEW b, IsFiniteSet(a), IsFiniteSet(b)
    PROVE  Likeness(a, b) \in Int /\ Likeness(a, b) >= 0
<1> DEFINE x == Cardinality(a \cap b)
           y == Cardinality(a \cup b)
<1>1. IsFiniteSet(a \cap b) /\ IsFiniteSet(a \cup b)
  BY FS_Union, FS_Intersection
<1>2. x \in Nat /\ y \in Nat /\ (y = 0 <=> a \cup b = {})
  BY <1>1, FS_CardinalityType, FS_EmptySet
<1>3. Likeness(a, b) = IF a \cup b = {} THEN 0 ELSE (100 * x) \div y
  BY DEF Likeness
<1> HIDE DEF x, y
<1>4. y # 0 => (100 * x) \div y \in Int /\ (100 * x) \div y >= 0
  <2>1. SUFFICES ASSUME y # 0
                 PROVE  (100 * x) \div y \in Int /\ (100 * x) \div y >= 0
    OBVIOUS
  <2> DEFINE c == 100 * x
  <2>2. c \in Nat /\ y \in Nat \ {0}
    BY <1>2, <2>1
  <2> HIDE DEF c
  <2>3. c \div y \in Int /\ c \div y >= 0
    BY ONLY <2>2
  <2>4. QED
    BY <2>3 DEF c
<1>5. QED
  BY <1>2, <1>3, <1>4

\* A search with no limit that binds finds what has a vector of its backend.
LEMMA IndexHolds ==
    ASSUME NEW cells \in Seq(Entry), \A k \in DOMAIN cells : IsFiniteSet(cells[k].words),
           NEW index, DOMAIN index \subseteq DOMAIN cells, NEW onlyMissing, NEW embedded, NEW backend
    PROVE  IndexCovers(cells, index, onlyMissing, embedded, backend)
<1> DEFINE n == Len(cells)
           after == Reindex(cells, index, onlyMissing, embedded)
           found(key) == Range(SemanticSearch(cells, after, cells[key].words, backend, n, 0))
           one == FromOne(n, index, onlyMissing, embedded, backend)
<1>1. n \in Nat /\ DOMAIN cells = 1..n
  BY EntryShape
<1>2. DOMAIN after = 1..n /\ (one => \A k \in 1..n : after[k] = backend)
  <2>1. AllVectors(n, index, onlyMissing, embedded, backend, after)
    BY ReindexHolds
  <2> HIDE DEF after, n, one
  <2>2. QED
    BY <1>1, <2>1 DEF AllVectors, one
<1>3. ASSUME NEW key \in DOMAIN cells
      PROVE  found(key) = {k \in 1..n : after[k] = backend}
  <2> DEFINE Score(k) == Likeness(cells[key].words, cells[k].words)
             these == {k \in DOMAIN after : after[k] = backend /\ Score(k) >= 0}
             near == InKeyOrder(cells, these)
             rank == [i \in DOMAIN near |-> Score(near[i])]
  <2>1. SemanticSearch(cells, after, cells[key].words, backend, n, 0) = FirstOnes(ByRank(near, rank), n)
    BY Zenon DEF SemanticSearch
  <2> HIDE DEF after
  <2>2. \A k \in 1..n : Score(k) \in Int /\ Score(k) >= 0
    BY <1>1, <1>3, LikenessHolds
  <2> HIDE DEF Score
  <2>3. these = {k \in 1..n : after[k] = backend}
    BY <1>2, <2>2
  <2> HIDE DEF these, n
  <2>4. Distinct(near, n) /\ Range(near) = these
    <3>1. Distinct(near, n) /\ Range(near) = these \cap 1..n
      BY <1>1, KeyOrderHolds
    <3> HIDE DEF near
    <3>2. QED
      BY <2>3, <3>1
  <2> HIDE DEF near
  <2>5. \A i \in 1..Len(near) : rank[i] \in Int
    <3>1. DOMAIN near = 1..Len(near) /\ \A i \in 1..Len(near) : near[i] \in 1..n
      BY <1>1, <2>4, DistinctShape
    <3>2. QED
      BY <2>2, <3>1
  <2> HIDE DEF rank
  <2>6. Distinct(ByRank(near, rank), n) /\ Range(ByRank(near, rank)) = these
    BY <1>1, <2>4, <2>5, SortHolds
  <2>7. QED
    BY <1>1, <2>1, <2>3, <2>6, FirstOnesAll
<1> HIDE DEF after, n, found
<1>4. \A k \in DOMAIN cells : k \in found(k) <=> after[k] = backend
  BY <1>1, <1>3
<1>5. (\A k \in DOMAIN cells : embedded[k] = backend)
      /\ (~onlyMissing \/ \A k \in DOMAIN index : index[k] = backend) => one
  BY <1>1 DEF FromOne
<1> HIDE DEF one
<1>6. (\A k \in DOMAIN cells : embedded[k] = backend)
      /\ (~onlyMissing \/ \A k \in DOMAIN index : index[k] = backend)
      => \A k \in DOMAIN cells : k \in found(k)
  BY <1>1, <1>2, <1>4, <1>5
<1>7. DOMAIN after = DOMAIN cells
  BY <1>1, <1>2
<1>8. QED
  BY <1>4, <1>6, <1>7, Zenon DEF IndexCovers, after, n, found

\* What is looked up is there, in every store (LookupsMissNothing): a series
\* holds all its head descends from, whatever forks and loops its lineage has,
\* and an index a vector of every cell, which a query meets that was embedded
\* by the same backend.
THEOREM ReadingLookups == Spec => []LookupsMissNothing
<1>1. Asked => LookupsMissNothing
  <2>1. SUFFICES ASSUME Asked, About("listing")
                 PROVE  /\ \A k \in DOMAIN question.cells : SeriesIsWhole(question.cells, k)
                        /\ \A x \in Indexes, missing \in BOOLEAN, b \in Backends :
                              \A embedded \in [DOMAIN question.cells -> Backends] :
                                 IndexCovers(question.cells, x, missing, embedded, b)
    BY DEF LookupsMissNothing
  <2>2. question.cells \in Tables
    BY <2>1 DEF Asked, About, Raised
  <2>3. /\ question.cells \in Seq(Entry)
        /\ \A k \in DOMAIN question.cells : IsFiniteSet(question.cells[k].words)
        /\ \A x \in Indexes : DOMAIN x \subseteq DOMAIN question.cells
    BY <2>2, TablesAssumption
  <2>4. QED
    BY <2>3, SeriesHold, IndexHolds
<1>2. QED
  BY <1>1, AlwaysAsked, PTL

-----------------------------------------------------------------------------
(* Overlays: what a node reaches *)

\* A function of the number of steps, each of which stays in a set, exists.
Follows(S, base, n, step, h) ==
    h \in [0..n -> S] /\ h[0] = base /\ \A i \in 1..n : h[i] = step[<<h[i - 1], i>>]

\* Such a function exists for any step.
LEMMA Recursion ==
    ASSUME NEW S, NEW base \in S, NEW n \in Nat, NEW step \in [S \X (1..n) -> S]
    PROVE  \E h : Follows(S, base, n, step, h)
<1> DEFINE Upto(h, k) == h \in [0..k -> S] /\ h[0] = base /\ \A i \in 1..k : h[i] = step[<<h[i - 1], i>>]
           T == {k \in Nat : k <= n => \E h : Upto(h, k)}
<1>1. 0 \in T
  <2>1. Upto([i \in 0..0 |-> base], 0)
    OBVIOUS
  <2>2. QED
    BY <2>1
<1>2. ASSUME NEW k \in Nat, k \in T
      PROVE  k + 1 \in T
  <2>1. SUFFICES ASSUME k + 1 <= n
                 PROVE  \E h : Upto(h, k + 1)
    BY DEF T
  <2>2. PICK h : Upto(h, k)
    BY <1>2, <2>1
  <2> DEFINE top  == step[<<h[k], k + 1>>]
             next == [i \in 0..(k + 1) |-> IF i = k + 1 THEN top ELSE h[i]]
  <2>3. h[k] \in S /\ k + 1 \in 1..n /\ top \in S
    BY <2>1, <2>2
  <2>4. next \in [0..(k + 1) -> S] /\ next[0] = base
    BY <2>2, <2>3
  <2>5. ASSUME NEW i \in 1..(k + 1)
        PROVE  next[i] = step[<<next[i - 1], i>>]
    <3>1. CASE i = k + 1
      <4>1. next[i] = top /\ next[i - 1] = h[k] /\ i = k + 1
        BY <3>1
      <4> HIDE DEF next
      <4>2. QED
        BY <4>1
    <3>2. CASE i \in 1..k
      <4>1. next[i] = h[i] /\ next[i - 1] = h[i - 1]
        BY <3>2
      <4> HIDE DEF next
      <4>2. QED
        BY <2>2, <3>2, <4>1
    <3>3. QED
      BY <3>1, <3>2
  <2>6. Upto(next, k + 1)
    BY <2>4, <2>5
  <2>7. QED
    BY <2>6
<1>3. n \in T
  <2> HIDE DEF T
  <2> QED BY <1>1, <1>2, Induction
<1>4. PICK h : Upto(h, n)
  BY <1>3
<1>5. QED
  BY <1>4 DEF Follows

\* Where one more edge leads.
OnwardFrom(edges, set) == {e.target : e \in {e \in edges : e.source \in set}}

\* What is reached from some nodes, step by step.
StepsTo(nodes, edges, from, most, r) ==
    /\ r \in [0..most -> SUBSET nodes]
    /\ Reached(edges, from, most) = r[most] /\ r[0] = {}
    /\ \A i \in 1..most : r[i] = OnwardFrom(edges, from \cup r[i - 1])

\* What is reached is found by a step at a time.
LEMMA ReachedSteps ==
    ASSUME NEW nodes, NEW edges, \A e \in edges : e.target \in nodes, NEW from, NEW most \in Nat
    PROVE  \E r : StepsTo(nodes, edges, from, most, r)
<1> DEFINE S == SUBSET nodes
           step == [x \in S \X (1..most) |-> OnwardFrom(edges, from \cup x[1])]
           Fits(h) == h = [i \in 0..most |-> IF i = 0 THEN {} ELSE OnwardFrom(edges, from \cup h[i - 1])]
           out == CHOOSE h : Fits(h)
<1>1. step \in [S \X (1..most) -> S]
  BY DEF OnwardFrom
<1>2. {} \in S
  OBVIOUS
<1> HIDE DEF S
<1>3. PICK h : h \in [0..most -> S] /\ h[0] = {} /\ \A i \in 1..most : h[i] = step[<<h[i - 1], i>>]
  <2> HIDE DEF step
  <2>1. \E h : Follows(S, {}, most, step, h)
    BY <1>1, <1>2, Recursion
  <2>2. QED
    BY <2>1 DEF Follows
<1>4. ASSUME NEW i \in 0..most
      PROVE  h[i] = IF i = 0 THEN {} ELSE OnwardFrom(edges, from \cup h[i - 1])
  <2>1. CASE i = 0
    BY <1>3, <2>1
  <2>2. CASE i # 0
    <3>1. i \in 1..most /\ h[i - 1] \in S
      BY <1>3, <2>2
    <3>2. step[<<h[i - 1], i>>] = OnwardFrom(edges, from \cup h[i - 1])
      BY <3>1
    <3> HIDE DEF step
    <3>3. QED
      BY <1>3, <2>2, <3>1, <3>2
  <2>3. QED
    BY <2>1, <2>2
<1> HIDE DEF step
<1>5. Fits(h)
  BY <1>3, <1>4
<1>6. Fits(out)
  <2> HIDE DEF Fits
  <2> QED BY <1>5
<1>7. Reached(edges, from, most) = out[most]
  BY DEF Reached, OnwardFrom
<1> HIDE DEF out
<1>8. DOMAIN out = 0..most /\ \A i \in 0..most : out[i] = IF i = 0 THEN {} ELSE OnwardFrom(edges, from \cup out[i - 1])
  BY <1>6
<1>9. \A set : OnwardFrom(edges, set) \in SUBSET nodes
  BY DEF OnwardFrom
<1>10. out \in [0..most -> SUBSET nodes]
  <2>1. out = [i \in 0..most |-> out[i]]
    BY <1>6
  <2>2. \A i \in 0..most : out[i] \in SUBSET nodes
    BY <1>8, <1>9
  <2>3. QED
    BY <2>1, <2>2
<1>11. out[0] = {} /\ \A i \in 1..most : out[i] = OnwardFrom(edges, from \cup out[i - 1])
  <2>1. 0 \in 0..most /\ \A i \in 1..most : i \in 0..most /\ i # 0
    OBVIOUS
  <2>2. QED
    BY <1>8, <2>1, Zenon
<1>12. QED
  BY <1>7, <1>10, <1>11 DEF StepsTo

\* What is reached stays where no edge leads out.
LEMMA ReachedWithin ==
    ASSUME NEW edges, NEW from, NEW most \in Nat, NEW C, OnwardFrom(edges, from \cup C) \subseteq C
    PROVE  Reached(edges, from, most) \subseteq C
<1> DEFINE nodes == {e.target : e \in edges}
<1>1. PICK r : StepsTo(nodes, edges, from, most, r)
  <2>1. \A e \in edges : e.target \in nodes
    OBVIOUS
  <2> HIDE DEF nodes
  <2>2. QED
    BY <2>1, ReachedSteps
<1> DEFINE T == {k \in Nat : k <= most => r[k] \subseteq C}
<1>2. 0 \in T
  BY <1>1 DEF StepsTo
<1>3. ASSUME NEW k \in Nat, k \in T
      PROVE  k + 1 \in T
  <2>1. SUFFICES ASSUME k + 1 <= most
                 PROVE  r[k + 1] \subseteq C
    BY DEF T
  <2>2. r[k] \subseteq C
    BY <1>3, <2>1
  <2>3. r[k + 1] = OnwardFrom(edges, from \cup r[k])
    BY <1>1, <2>1 DEF StepsTo
  <2>4. QED
    BY <2>2, <2>3 DEF OnwardFrom
<1>4. most \in T
  <2> HIDE DEF T
  <2> QED BY <1>2, <1>3, Induction
<1>5. QED
  BY <1>1, <1>4 DEF StepsTo

IsGraph(nodes, edges) ==
    IsFiniteSet(nodes) /\ \A e \in edges : e.source \in nodes /\ e.target \in nodes

\* After as many steps as there are nodes nothing new is reached: until then
\* each step adds a node.
LEMMA ReachedCloses ==
    ASSUME NEW nodes, NEW edges, IsGraph(nodes, edges), NEW from
    PROVE  /\ Reached(edges, from, Cardinality(nodes)) \subseteq nodes
           /\ OnwardFrom(edges, from \cup Reached(edges, from, Cardinality(nodes)))
                 \subseteq Reached(edges, from, Cardinality(nodes))
<1> DEFINE most == Cardinality(nodes)
<1>1. IsFiniteSet(nodes) /\ most \in Nat
  BY FS_CardinalityType DEF IsGraph
<1>2. PICK r : StepsTo(nodes, edges, from, most, r)
  <2>1. \A e \in edges : e.target \in nodes
    BY DEF IsGraph
  <2> HIDE DEF most
  <2>2. QED
    BY <1>1, <2>1, ReachedSteps
<1> HIDE DEF most
<1> DEFINE Ahead(k) == OnwardFrom(edges, from \cup r[k])
           Good(k) == r[k] \subseteq Ahead(k) /\ (Ahead(k) \subseteq r[k] \/ Cardinality(r[k]) >= k)
           T == {k \in Nat : k <= most => Good(k)}
<1>3. \A k \in 0..most : IsFiniteSet(r[k]) /\ Cardinality(r[k]) \in Nat /\ r[k] \subseteq nodes
  BY <1>1, <1>2, FS_Subset, FS_CardinalityType DEF StepsTo
<1>4. 0 \in T
  <2>1. r[0] = {} /\ Cardinality({}) = 0
    BY <1>2, FS_EmptySet DEF StepsTo
  <2> HIDE DEF Ahead
  <2>2. Good(0)
    BY <2>1
  <2>3. QED
    BY <2>2
<1>5. ASSUME NEW k \in Nat, k \in T
      PROVE  k + 1 \in T
  <2>1. SUFFICES ASSUME k + 1 <= most
                 PROVE  Good(k + 1)
    <3> HIDE DEF Good
    <3> QED BY DEF T
  <2>2. Good(k) /\ k \in 0..most /\ k + 1 \in 0..most
    <3> HIDE DEF Good
    <3> QED BY <1>1, <1>5, <2>1
  <2>3. r[k + 1] = Ahead(k)
    BY <1>2, <2>1 DEF StepsTo
  <2>4. r[k] \subseteq r[k + 1]
    BY <2>2, <2>3
  <2>5. r[k + 1] \subseteq Ahead(k + 1)
    <3>1. Ahead(k) \subseteq Ahead(k + 1)
      BY <2>4 DEF OnwardFrom
    <3>2. QED
      BY <2>3, <3>1
  <2>6. CASE Ahead(k) \subseteq r[k]
    <3>1. r[k + 1] = r[k]
      BY <2>3, <2>4, <2>6
    <3>2. QED
      BY <2>5, <2>6, <3>1
  <2>7. CASE ~(Ahead(k) \subseteq r[k])
    <3>1. PICK x : x \in r[k + 1] /\ x \notin r[k]
      BY <2>3, <2>7
    <3>2. IsFiniteSet(r[k]) /\ Cardinality(r[k]) \in Nat /\ Cardinality(r[k]) >= k
      BY <1>3, <2>2, <2>7
    <3>3. Cardinality(r[k] \cup {x}) = Cardinality(r[k]) + 1
      BY <3>1, <3>2, FS_AddElement
    <3>4. r[k] \cup {x} \in SUBSET r[k + 1] /\ IsFiniteSet(r[k + 1]) /\ Cardinality(r[k + 1]) \in Nat
      BY <1>3, <2>2, <2>4, <3>1
    <3>5. Cardinality(r[k] \cup {x}) <= Cardinality(r[k + 1])
      BY <3>4, FS_Subset
    <3> HIDE DEF Ahead
    <3>6. QED
      BY <2>5, <3>2, <3>3, <3>4, <3>5
  <2>8. QED
    BY <2>6, <2>7
<1>6. most \in T
  <2> HIDE DEF T
  <2> QED BY <1>1, <1>4, <1>5, Induction
<1>7. Good(most) /\ most \in 0..most
  <2> HIDE DEF Good
  <2> QED BY <1>1, <1>6
<1>8. CASE Ahead(most) \subseteq r[most]
  BY <1>2, <1>3, <1>7, <1>8 DEF most, StepsTo
<1>9. CASE Cardinality(r[most]) >= most
  <2>1. r[most] = nodes
    <3>1. r[most] \in SUBSET nodes /\ Cardinality(r[most]) \in Nat
      BY <1>3, <1>7
    <3>2. Cardinality(r[most]) <= Cardinality(nodes) /\ (Cardinality(nodes) = Cardinality(r[most]) => nodes = r[most])
      BY <1>1, <3>1, FS_Subset
    <3>3. QED
      BY <1>1, <1>9, <3>1, <3>2 DEF most
  <2>2. Ahead(most) \subseteq nodes
    BY DEF OnwardFrom, IsGraph
  <2>3. QED
    BY <1>2, <2>1, <2>2 DEF most, StepsTo
<1>10. QED
  BY <1>7, <1>8, <1>9

\* What a node reaches in a graph.
Beyond(nodes, edges, n) == Reached(edges, {n}, Cardinality(nodes))

\* What a node reaches is the least set its edges do not lead out of.
LEMMA BeyondHolds ==
    ASSUME NEW nodes, NEW edges, IsGraph(nodes, edges), NEW n
    PROVE  /\ Beyond(nodes, edges, n) \subseteq nodes
           /\ \A e \in edges : e.source = n \/ e.source \in Beyond(nodes, edges, n)
                                  => e.target \in Beyond(nodes, edges, n)
           /\ \A m \in Beyond(nodes, edges, n) : Beyond(nodes, edges, m) \subseteq Beyond(nodes, edges, n)
           /\ \A C : (\A e \in edges : e.source = n \/ e.source \in C => e.target \in C)
                        => Beyond(nodes, edges, n) \subseteq C
<1> DEFINE R(m) == Beyond(nodes, edges, m)
<1>1. R(n) \subseteq nodes /\ OnwardFrom(edges, {n} \cup R(n)) \subseteq R(n)
  BY ReachedCloses DEF Beyond
<1>2. \A e \in edges : e.source = n \/ e.source \in R(n) => e.target \in R(n)
  BY <1>1 DEF OnwardFrom
<1>3. Cardinality(nodes) \in Nat
  BY FS_CardinalityType DEF IsGraph
<1>4. ASSUME NEW m \in R(n)
      PROVE  R(m) \subseteq R(n)
  <2>1. OnwardFrom(edges, {m} \cup R(n)) \subseteq R(n)
    BY <1>2, <1>4 DEF OnwardFrom
  <2>2. QED
    BY <1>3, <2>1, ReachedWithin DEF Beyond
<1>5. ASSUME NEW C, \A e \in edges : e.source = n \/ e.source \in C => e.target \in C
      PROVE  R(n) \subseteq C
  <2>1. OnwardFrom(edges, {n} \cup C) \subseteq C
    BY <1>5 DEF OnwardFrom
  <2>2. QED
    BY <1>3, <2>1, ReachedWithin DEF Beyond
<1>6. QED
  BY <1>1, <1>2, <1>4, <1>5

\* A graph is acyclic exactly if no node is beyond itself.
LEMMA AcyclicIs ==
    ASSUME NEW nodes, NEW edges
    PROVE  Acyclic(nodes, edges) <=> \A n \in nodes : n \notin Beyond(nodes, edges, n)
BY DEF Acyclic, Beyond


-----------------------------------------------------------------------------
(* Overlays: the order of a DAG *)

\* A set of numbers that is not empty has a least one.
LEMMA LeastHolds ==
    ASSUME NEW S \in SUBSET Nat, S # {}
    PROVE  Min(S) \in S
<1> DEFINE T == {k \in Nat : \A j \in S : j > k}
           Least(x) == x \in S /\ \A y \in S : x <= y
<1>1. SUFFICES ASSUME ~\E x : Least(x)
               PROVE  FALSE
  BY DEF Min
<1>2. 0 \in T
  <2>1. 0 \notin S
    BY <1>1
  <2>2. QED
    BY <2>1
<1>3. ASSUME NEW k \in Nat, k \in T
      PROVE  k + 1 \in T
  <2>1. \A j \in S : j >= k + 1
    BY <1>3
  <2>2. k + 1 \notin S
    BY <1>1, <2>1
  <2>3. QED
    BY <2>1, <2>2
<1>4. Nat \subseteq T
  <2> HIDE DEF T
  <2> QED BY <1>2, <1>3, Induction
<1>5. PICK x \in S : TRUE
  OBVIOUS
<1>6. QED
  BY <1>4, <1>5

\* Nodes in a sequence, none of them twice, are as many as it is long.
LEMMA RangeCounts ==
    ASSUME NEW S, NEW s \in Seq(S), IsInjective(s)
    PROVE  IsFiniteSet(Range(s)) /\ Cardinality(Range(s)) = Len(s)
<1> DEFINE n == Len(s)
<1>1. n \in Nat /\ DOMAIN s = 1..n /\ s \in [1..n -> Range(s)]
  <2>1. s \in [1..n -> S]
    OBVIOUS
  <2>2. QED
    BY <2>1 DEF Range
<1> HIDE DEF n
<1>2. IsFiniteSet(1..n) /\ Cardinality(1..n) = n
  BY <1>1, FS_Interval
<1>3. s \in Surjection(1..n, Range(s)) /\ s \in Injection(1..n, Range(s))
  BY <1>1 DEF Surjection, Injection, IsInjective, Range
<1>4. QED
  BY <1>2, <1>3, FS_Surjection DEF n

\* The shape of a list of edges.
LEMMA LinksShape ==
    ASSUME NEW edges \in Seq(Link)
    PROVE  /\ Len(edges) \in Nat /\ DOMAIN edges = 1..Len(edges)
           /\ \A i \in 1..Len(edges) : /\ edges[i] \in Link /\ edges[i] \in Range(edges)
                                       /\ edges[i].source \in Nat /\ edges[i].target \in Nat
           /\ \A e : e \in Range(edges) <=> \E i \in 1..Len(edges) : e = edges[i]
<1>1. Len(edges) \in Nat /\ DOMAIN edges = 1..Len(edges) /\ \A i \in 1..Len(edges) : edges[i] \in Link
  OBVIOUS
<1>2. QED
  BY <1>1 DEF Link, Range

\* A node is ready once no edge leads to it from the nodes that are left.
LEMMA ReadyIs ==
    ASSUME NEW edges \in Seq(Link), NEW left, NEW n
    PROVE  n \in Ready(edges, left) <=>
              n \in left /\ \A e \in Range(edges) : ~(e.source \in left /\ e.target = n)
<1> DEFINE into == {i \in DOMAIN edges : edges[i].source \in left /\ edges[i].target = n}
<1>1. DOMAIN edges = 1..Len(edges) /\ Len(edges) \in Nat
  BY LinksShape
<1>2. IsFiniteSet(into)
  <2>1. IsFiniteSet(1..Len(edges)) /\ into \in SUBSET (1..Len(edges))
    BY <1>1, FS_Interval
  <2> HIDE DEF into
  <2>2. QED
    BY <2>1, FS_Subset
<1>3. Between(edges, left, n) = 0 <=> into = {}
  BY <1>2, FS_EmptySet DEF Between
<1>4. into = {} <=> \A e \in Range(edges) : ~(e.source \in left /\ e.target = n)
  BY <1>1, LinksShape
<1> HIDE DEF into
<1>5. QED
  BY <1>3, <1>4 DEF Ready

\* Where each node of a set has an edge from another one, a node is reached
\* from itself: otherwise, of two nodes that an edge connects, the first
\* reaches more.
LEMMA StuckLoops ==
    ASSUME NEW nodes, NEW edges, IsGraph(nodes, edges), NEW left \in SUBSET nodes, left # {},
           \A n \in left : \E e \in edges : e.target = n /\ e.source \in left
    PROVE  \E n \in left : n \in Beyond(nodes, edges, n)
<1> DEFINE R(n) == Beyond(nodes, edges, n)
           size == Cardinality(nodes)
<1>1. SUFFICES ASSUME \A n \in left : n \notin R(n)
               PROVE  FALSE
  OBVIOUS
<1>2. \A n : R(n) \subseteq nodes
  BY BeyondHolds
<1> HIDE DEF size
<1>3. IsFiniteSet(nodes) /\ size \in Nat
  BY FS_CardinalityType DEF IsGraph, size
<1>4. \A n : IsFiniteSet(R(n)) /\ Cardinality(R(n)) \in Nat /\ Cardinality(R(n)) <= size
  <2> HIDE DEF R
  <2> QED BY <1>2, <1>3, FS_Subset, FS_CardinalityType DEF size
<1> DEFINE T == {k \in Nat : \E n \in left : Cardinality(R(n)) >= k}
<1>5. 0 \in T
  BY <1>4
<1>6. ASSUME NEW k \in Nat, k \in T
      PROVE  k + 1 \in T
  <2>1. PICK n \in left : Cardinality(R(n)) >= k
    BY <1>6
  <2>2. PICK e \in edges : e.target = n /\ e.source \in left
    OBVIOUS
  <2> DEFINE m == e.source
  <2>3. n \in R(m) /\ R(n) \subseteq R(m)
    <3>1. n \in R(m)
      BY <2>2, BeyondHolds
    <3>2. QED
      BY <3>1, BeyondHolds
  <2>4. n \notin R(n)
    BY <1>1
  <2> HIDE DEF m, R
  <2>5. Cardinality(R(n) \cup {n}) = Cardinality(R(n)) + 1
    BY <1>4, <2>4, FS_AddElement
  <2>6. R(n) \cup {n} \in SUBSET R(m)
    BY <2>3
  <2>7. Cardinality(R(n) \cup {n}) <= Cardinality(R(m))
    BY <1>4, <2>6, FS_Subset
  <2>8. m \in left /\ Cardinality(R(m)) >= k + 1
    <3>1. m \in left
      BY <2>2 DEF m
    <3>2. QED
      BY <1>4, <2>1, <2>5, <2>7, <3>1
  <2>9. QED
    BY <2>8
<1>7. Nat \subseteq T
  <2> HIDE DEF T
  <2> QED BY <1>5, <1>6, Induction
<1>8. PICK n \in left : Cardinality(R(n)) >= size + 1
  <2>1. size + 1 \in T
    BY <1>3, <1>7
  <2> HIDE DEF R
  <2>2. QED
    BY <2>1
<1> HIDE DEF R
<1>9. QED
  BY <1>3, <1>4, <1>8

\* A list of nodes without repetition, in which the sources of what leads to
\* a node come before it.
Sorted(nodes, edges, s) ==
    /\ s \in Seq(nodes) /\ IsInjective(s)
    /\ \A i \in 1..Len(s) : \A e \in Range(edges) :
          e.target = s[i] => \E j \in 1..Len(s) : j < i /\ s[j] = e.source

DrainOn(edges, nodes, s) ==
    LET ready == Ready(edges, nodes \ Range(s)) IN IF ready = {} THEN s ELSE Append(s, Min(ready))

DrainsTo(edges, nodes, n, h) ==
    /\ Drain(edges, nodes) = h[n] /\ h[0] = <<>>
    /\ \A i \in 1..n : h[i] = DrainOn(edges, nodes, h[i - 1])

\* A step of the order adds a node, or nothing.
LEMMA DrainStays ==
    ASSUME NEW nodes \in SUBSET Nat, NEW edges, NEW s \in Seq(nodes)
    PROVE  DrainOn(edges, nodes, s) \in Seq(nodes)
<1> DEFINE ready == Ready(edges, nodes \ Range(s))
<1>1. ready \in SUBSET nodes
  BY DEF Ready
<1>2. CASE ready = {}
  BY <1>2 DEF DrainOn
<1>3. CASE ready # {}
  <2>1. Min(ready) \in nodes
    BY <1>1, <1>3, LeastHolds
  <2>2. QED
    BY <1>3, <2>1 DEF DrainOn
<1>4. QED
  BY <1>2, <1>3

\* The order exists as a function of the steps taken.
LEMMA DrainRecursion ==
    ASSUME NEW nodes \in SUBSET Nat, IsFiniteSet(nodes), NEW edges
    PROVE  \E h : DrainsTo(edges, nodes, Cardinality(nodes), h)
<1> DEFINE n == Cardinality(nodes)
           S == Seq(nodes)
           step == [x \in S \X (1..n) |-> DrainOn(edges, nodes, x[1])]
           Fits(h) == h = [i \in 0..n |-> IF i = 0 THEN <<>> ELSE DrainOn(edges, nodes, h[i - 1])]
           out == CHOOSE h : Fits(h)
<1>0. n \in Nat
  BY FS_CardinalityType
<1>7. Drain(edges, nodes) = out[n]
  BY DEF Drain, DrainOn
<1> HIDE DEF n
<1>1. step \in [S \X (1..n) -> S]
  BY DrainStays
<1>2. <<>> \in S
  OBVIOUS
<1> HIDE DEF S
<1>3. PICK h : h \in [0..n -> S] /\ h[0] = <<>> /\ \A i \in 1..n : h[i] = step[<<h[i - 1], i>>]
  <2> HIDE DEF step
  <2>1. \E h : Follows(S, <<>>, n, step, h)
    BY <1>0, <1>1, <1>2, Recursion
  <2>2. QED
    BY <2>1 DEF Follows
<1>4. ASSUME NEW i \in 0..n
      PROVE  h[i] = IF i = 0 THEN <<>> ELSE DrainOn(edges, nodes, h[i - 1])
  <2>1. CASE i = 0
    BY <1>3, <2>1
  <2>2. CASE i # 0
    <3>1. i \in 1..n /\ h[i - 1] \in S
      BY <1>0, <1>3, <2>2
    <3>2. step[<<h[i - 1], i>>] = DrainOn(edges, nodes, h[i - 1])
      BY <3>1
    <3> HIDE DEF step
    <3>3. QED
      BY <1>3, <2>2, <3>1, <3>2
  <2>3. QED
    BY <2>1, <2>2
<1> HIDE DEF step
<1>5. Fits(h)
  BY <1>3, <1>4
<1>6. Fits(out)
  <2> HIDE DEF Fits
  <2> QED BY <1>5
<1> HIDE DEF out
<1>8. \A i \in 0..n : out[i] = IF i = 0 THEN <<>> ELSE DrainOn(edges, nodes, out[i - 1])
  BY <1>6
<1>9. out[0] = <<>> /\ \A i \in 1..n : out[i] = DrainOn(edges, nodes, out[i - 1])
  <2>1. 0 \in 0..n /\ \A i \in 1..n : i \in 0..n /\ i # 0
    BY <1>0
  <2>2. QED
    BY <1>8, <2>1, Zenon
<1>10. QED
  BY <1>7, <1>9 DEF DrainsTo, n

\* A ready node may follow a sorted list.
LEMMA DrainSorts ==
    ASSUME NEW nodes \in SUBSET Nat, NEW edges \in Seq(Link), IsGraph(nodes, Range(edges)),
           NEW s, Sorted(nodes, edges, s), Ready(edges, nodes \ Range(s)) # {}
    PROVE  /\ Sorted(nodes, edges, DrainOn(edges, nodes, s))
           /\ Len(DrainOn(edges, nodes, s)) = Len(s) + 1
<1> DEFINE ready == Ready(edges, nodes \ Range(s))
           x == Min(ready)
           m == Len(s)
           t == Append(s, x)
<1>1. ready \in SUBSET nodes /\ ready \in SUBSET Nat
  BY DEF Ready
<1>2. x \in ready
  BY <1>1, LeastHolds
<1>3. /\ x \in nodes /\ x \notin Range(s)
      /\ \A e \in Range(edges) : e.target = x => e.source \notin nodes \ Range(s)
  <2>1. x \in Ready(edges, nodes \ Range(s))
    BY <1>2
  <2> HIDE DEF x, ready
  <2>2. QED
    BY <1>1, <1>2, <2>1, ReadyIs
<1>4. DrainOn(edges, nodes, s) = t
  BY DEF DrainOn
<1> HIDE DEF x, ready
<1>5. s \in Seq(nodes) /\ m \in Nat /\ \A i \in 1..m : s[i] \in Range(s)
  <2>1. s \in Seq(nodes)
    BY DEF Sorted
  <2>2. DOMAIN s = 1..m /\ m \in Nat
    BY <2>1
  <2>3. QED
    BY <2>1, <2>2 DEF Range
<1>6. \A y \in Range(s) : \E i \in 1..m : y = s[i]
  <2>1. DOMAIN s = 1..m
    BY <1>5
  <2>2. QED
    BY <2>1 DEF Range
<1>7. /\ t \in Seq(nodes) /\ Len(t) = m + 1 /\ DOMAIN t = 1..(m + 1) /\ t[m + 1] = x
      /\ \A i \in 1..m : t[i] = s[i]
  BY <1>3, <1>5, AppendProperties
<1> HIDE DEF t, m
<1>8. IsInjective(s) /\ DOMAIN s = 1..m
  BY <1>5 DEF Sorted, m
<1>9. IsInjective(t)
  <2>1. SUFFICES ASSUME NEW i \in 1..(m + 1), NEW j \in 1..(m + 1), t[i] = t[j]
                 PROVE  i = j
    BY <1>7 DEF IsInjective
  <2>2. CASE i \in 1..m /\ j \in 1..m
    BY <1>7, <1>8, <2>1, <2>2 DEF IsInjective
  <2>3. CASE i = m + 1 \/ j = m + 1
    BY <1>3, <1>5, <1>7, <2>1, <2>3
  <2>4. QED
    BY <1>5, <2>2, <2>3
<1>10. ASSUME NEW i \in 1..(m + 1), NEW e \in Range(edges), e.target = t[i]
       PROVE  \E j \in 1..(m + 1) : j < i /\ t[j] = e.source
  <2>1. CASE i \in 1..m
    <3>1. e.target = s[i]
      BY <1>7, <1>10, <2>1
    <3>2. PICK j \in 1..m : j < i /\ s[j] = e.source
      BY <2>1, <3>1 DEF Sorted, m
    <3>3. QED
      BY <1>5, <1>7, <3>2
  <2>2. CASE i = m + 1
    <3>1. e.source \in nodes /\ e.source \in Range(s)
      BY <1>3, <1>7, <1>10, <2>2 DEF IsGraph
    <3>2. PICK j \in 1..m : e.source = s[j]
      BY <1>6, <3>1
    <3>3. QED
      BY <1>5, <1>7, <2>2, <3>2
  <2>3. QED
    BY <1>5, <2>1, <2>2
<1>11. QED
  BY <1>4, <1>7, <1>9, <1>10 DEF Sorted, m

\* Draining sorts as many nodes as it can: all, or none of the rest is ready.
LEMMA DrainHolds ==
    ASSUME NEW nodes \in SUBSET Nat, NEW edges \in Seq(Link), IsGraph(nodes, Range(edges))
    PROVE  /\ Sorted(nodes, edges, Drain(edges, nodes))
           /\ \/ Len(Drain(edges, nodes)) = Cardinality(nodes)
              \/ Ready(edges, nodes \ Range(Drain(edges, nodes))) = {}
<1> DEFINE n == Cardinality(nodes)
<1>1. IsFiniteSet(nodes) /\ n \in Nat
  BY FS_CardinalityType DEF IsGraph
<1>2. PICK h : DrainsTo(edges, nodes, n, h)
  BY <1>1, DrainRecursion
<1> DEFINE Done(k) == Sorted(nodes, edges, h[k]) /\ (Len(h[k]) = k \/ Ready(edges, nodes \ Range(h[k])) = {})
           T == {k \in Nat : k <= n => Done(k)}
<1> HIDE DEF n
<1>3. 0 \in T
  <2>1. h[0] = <<>>
    BY <1>2 DEF DrainsTo
  <2>2. <<>> \in Seq(nodes) /\ Len(<<>>) = 0 /\ IsInjective(<<>>)
    BY DEF IsInjective
  <2>3. Sorted(nodes, edges, <<>>)
    BY <2>2 DEF Sorted
  <2>4. QED
    BY <2>1, <2>2, <2>3
<1>4. ASSUME NEW k \in Nat, k \in T
      PROVE  k + 1 \in T
  <2>1. SUFFICES ASSUME k + 1 <= n
                 PROVE  Done(k + 1)
    <3> HIDE DEF Done
    <3> QED BY DEF T
  <2>2. Done(k)
    <3> HIDE DEF Done
    <3> QED BY <1>1, <1>4, <2>1
  <2>3. h[k + 1] = DrainOn(edges, nodes, h[k])
    BY <1>2, <2>1 DEF DrainsTo
  <2>4. CASE Ready(edges, nodes \ Range(h[k])) = {}
    <3>1. h[k + 1] = h[k]
      BY <2>3, <2>4 DEF DrainOn
    <3>2. QED
      BY <2>2, <2>4, <3>1
  <2>5. CASE Ready(edges, nodes \ Range(h[k])) # {}
    <3>1. Len(h[k]) = k /\ Sorted(nodes, edges, h[k])
      BY <2>2, <2>5
    <3>2. Sorted(nodes, edges, h[k + 1]) /\ Len(h[k + 1]) = k + 1
      BY <2>3, <2>5, <3>1, DrainSorts
    <3>3. QED
      BY <3>2
  <2>6. QED
    BY <2>4, <2>5
<1>5. n \in T
  <2> HIDE DEF T
  <2> QED BY <1>1, <1>3, <1>4, Induction
<1>6. Done(n)
  <2> HIDE DEF Done
  <2> QED BY <1>1, <1>5
<1>7. Drain(edges, nodes) = h[n]
  BY <1>2 DEF DrainsTo
<1>8. QED
  BY <1>6, <1>7 DEF n

\* Kahn's algorithm is right: it orders all nodes exactly of an acyclic graph.
LEMMA DrainIsRight ==
    ASSUME NEW nodes \in SUBSET Nat, NEW edges \in Seq(Link), IsGraph(nodes, Range(edges))
    PROVE  /\ Len(Drain(edges, nodes)) = Cardinality(nodes) <=> Acyclic(nodes, Range(edges))
           /\ Len(Drain(edges, nodes)) = Cardinality(nodes) => Range(Drain(edges, nodes)) = nodes
           /\ Sorted(nodes, edges, Drain(edges, nodes))
<1> DEFINE s == Drain(edges, nodes)
           n == Cardinality(nodes)
<1>1. Sorted(nodes, edges, s) /\ (Len(s) = n \/ Ready(edges, nodes \ Range(s)) = {})
  BY DrainHolds
<1>2. s \in Seq(nodes) /\ IsInjective(s) /\ IsFiniteSet(nodes) /\ n \in Nat
  BY <1>1, FS_CardinalityType DEF Sorted, IsGraph
<1> HIDE DEF s, n
<1>3. Range(s) \in SUBSET nodes /\ IsFiniteSet(Range(s)) /\ Cardinality(Range(s)) = Len(s)
  <2>1. s \in [1..Len(s) -> nodes]
    BY <1>2
  <2>2. QED
    BY <1>2, <2>1, RangeCounts DEF Range
<1>4. Len(s) = n <=> Range(s) = nodes
  BY <1>2, <1>3, FS_Subset DEF n
<1>5. ASSUME Range(s) # nodes
      PROVE  ~Acyclic(nodes, Range(edges))
  <2> DEFINE left == nodes \ Range(s)
  <2>1. left \in SUBSET nodes /\ left # {} /\ Ready(edges, left) = {}
    BY <1>1, <1>3, <1>4, <1>5
  <2> HIDE DEF left
  <2>2. \A x \in left : \E e \in Range(edges) : e.target = x /\ e.source \in left
    BY <2>1, ReadyIs
  <2>3. PICK x \in left : x \in Beyond(nodes, Range(edges), x)
    BY <2>1, <2>2, StuckLoops
  <2>4. QED
    BY <2>1, <2>3, AcyclicIs
<1>6. ASSUME Range(s) = nodes
      PROVE  Acyclic(nodes, Range(edges))
  <2>1. SUFFICES ASSUME NEW x \in nodes
                 PROVE  x \notin Beyond(nodes, Range(edges), x)
    BY AcyclicIs
  <2> DEFINE m == Len(s)
  <2>2. m \in Nat /\ DOMAIN s = 1..m /\ \A y \in nodes : \E i \in 1..m : y = s[i]
    <3>1. m \in Nat /\ DOMAIN s = 1..m
      BY <1>2
    <3>2. QED
      BY <1>6, <3>1 DEF Range
  <2>3. \A i \in 1..m : \A e \in Range(edges) : e.target = s[i] => \E j \in 1..m : j < i /\ s[j] = e.source
    BY <1>1 DEF Sorted
  <2> HIDE DEF m
  <2>4. PICK i \in 1..m : x = s[i]
    BY <2>2
  <2> DEFINE C == {s[j] : j \in (i + 1)..m}
  <2>5. ASSUME NEW e \in Range(edges), e.source = x \/ e.source \in C
        PROVE  e.target \in C
    <3>1. PICK k \in i..m : e.source = s[k]
      BY <2>2, <2>4, <2>5
    <3>2. PICK q \in 1..m : e.target = s[q]
      BY <2>2 DEF IsGraph
    <3>3. PICK j \in 1..m : j < q /\ s[j] = e.source
      BY <2>3, <3>2
    <3>4. j = k
      BY SMTT(30), <1>2, <2>2, <2>4, <3>1, <3>3 DEF IsInjective
    <3>5. q \in (i + 1)..m
      BY <2>2, <2>4, <3>1, <3>2, <3>3, <3>4
    <3>6. QED
      BY <3>2, <3>5
  <2>6. Beyond(nodes, Range(edges), x) \subseteq C
    <3> HIDE DEF C
    <3> QED BY <2>5, BeyondHolds
  <2>7. x \notin C
    BY <1>2, <2>2, <2>4 DEF IsInjective
  <2>8. QED
    BY <2>6, <2>7
<1>7. QED
  BY <1>1, <1>4, <1>5, <1>6 DEF s, n


-----------------------------------------------------------------------------
(* Overlays: the loops a depth-first walk reports *)

Arc(edges, a, b) == \E e \in Range(edges) : e.source = a /\ e.target = b

IsLoop(edges, c) ==
    /\ c \in Seq(Nat) /\ Len(c) > 1 /\ c[1] = c[Len(c)]
    /\ \A i \in 1..(Len(c) - 1) : Arc(edges, c[i], c[i + 1])

\* Nothing was reported: no visited node leads out of what was visited, or
\* back to itself.
Clear(nodes, edges, w) ==
    /\ w.visited \cap Range(w.stack) = {}
    /\ \A e \in Range(edges) : e.source \in w.visited => e.target \in w.visited
    /\ \A v \in w.visited : v \notin Beyond(nodes, Range(edges), v)

\* What holds of a walk on its way.
Trace(nodes, edges, w) ==
    /\ w \in Walks /\ IsInjective(w.stack) /\ Range(w.stack) \subseteq nodes
    /\ \A i \in 1..(Len(w.stack) - 1) : Arc(edges, w.stack[i], w.stack[i + 1])
    /\ w.visited \subseteq nodes
    /\ \A c \in Range(w.cycles) : IsLoop(edges, c)
    /\ w.cycles = <<>> => Clear(nodes, edges, w)

Enters(edges, w, node) == w.stack # <<>> => Arc(edges, w.stack[Len(w.stack)], node)

\* A visit leaves the stack as it was and the node visited, or reports a loop.
Visited(nodes, edges, w, node, v) ==
    /\ Trace(nodes, edges, v) /\ v.stack = w.stack /\ w.visited \subseteq v.visited
    /\ v.cycles = <<>> => w.cycles = <<>> /\ node \in v.visited

Visits(nodes, edges, visit, n) ==
    \A w \in Walks, node \in nodes :
        Trace(nodes, edges, w) /\ Enters(edges, w, node) /\ Cardinality(nodes) <= Len(w.stack) + n
           => Visited(nodes, edges, w, node, visit[node][w])

AlongTo(edges, node, visit, walk, after) ==
    /\ Along(edges, node, visit, walk) = after[Len(edges)]
    /\ after[0] = [walk EXCEPT !.stack = Append(@, node)]
    /\ \A i \in 0..Len(edges) : after[i] \in Walks
    /\ \A i \in 1..Len(edges) :
          after[i] = IF edges[i].source = node THEN visit[edges[i].target][after[i - 1]] ELSE after[i - 1]

\* The walk along the edges of a node exists as a function of how many were
\* looked at.
LEMMA AlongRecursion ==
    ASSUME NEW edges \in Seq(Link), NEW node \in Nat, NEW visit \in [Nat -> [Walks -> Walks]],
           NEW walk \in Walks
    PROVE  \E after : AlongTo(edges, node, visit, walk, after)
<1> DEFINE n == Len(edges)
           base == [walk EXCEPT !.stack = Append(@, node)]
           On(x, i) == IF edges[i].source = node THEN visit[edges[i].target][x] ELSE x
           step == [x \in Walks \X (1..n) |-> On(x[1], x[2])]
           Fits(h) == h = [i \in 0..n |-> IF i = 0 THEN base ELSE On(h[i - 1], i)]
           out == CHOOSE h : Fits(h)
<1>1. n \in Nat /\ \A i \in 1..n : edges[i].target \in Nat
  BY LinksShape
<1>2. base \in Walks
  <2>1. walk.stack \in Seq(Nat)
    BY DEF Walks
  <2>2. Append(walk.stack, node) \in Seq(Nat)
    BY <2>1
  <2>3. QED
    BY <2>2 DEF Walks
<1>3. Along(edges, node, visit, walk) = out[n]
  BY DEF Along
<1> HIDE DEF n, base
<1>4. \A x \in Walks, i \in 1..n : On(x, i) \in Walks
  BY <1>1
<1> HIDE DEF On
<1>5. step \in [Walks \X (1..n) -> Walks]
  BY <1>4
<1>6. PICK h : h \in [0..n -> Walks] /\ h[0] = base /\ \A i \in 1..n : h[i] = step[<<h[i - 1], i>>]
  <2> HIDE DEF step
  <2>1. \E h : Follows(Walks, base, n, step, h)
    BY <1>1, <1>2, <1>5, Recursion
  <2>2. QED
    BY <2>1 DEF Follows
<1>7. ASSUME NEW i \in 0..n
      PROVE  h[i] = IF i = 0 THEN base ELSE On(h[i - 1], i)
  <2>1. CASE i = 0
    BY <1>6, <2>1
  <2>2. CASE i # 0
    <3>1. i \in 1..n /\ h[i - 1] \in Walks
      BY <1>1, <1>6, <2>2
    <3>2. step[<<h[i - 1], i>>] = On(h[i - 1], i)
      BY <3>1
    <3> HIDE DEF step
    <3>3. QED
      BY <1>6, <2>2, <3>1, <3>2
  <2>3. QED
    BY <2>1, <2>2
<1> HIDE DEF step
<1>8. Fits(h)
  BY <1>6, <1>7
<1>9. Fits(out)
  <2> HIDE DEF Fits
  <2> QED BY <1>8
<1> HIDE DEF out
<1>10. \A i \in 0..n : out[i] = IF i = 0 THEN base ELSE On(out[i - 1], i)
  BY <1>9
<1>11. out[0] = base /\ \A i \in 1..n : out[i] = On(out[i - 1], i)
  <2>1. 0 \in 0..n /\ \A i \in 1..n : i \in 0..n /\ i # 0
    BY <1>1
  <2>2. QED
    BY <1>10, <2>1, Zenon
<1> DEFINE T == {k \in Nat : k <= n => out[k] \in Walks}
<1>12. 0 \in T
  BY <1>2, <1>11
<1>13. ASSUME NEW k \in Nat, k \in T
       PROVE  k + 1 \in T
  <2>1. SUFFICES ASSUME k + 1 <= n
                 PROVE  out[k + 1] \in Walks
    BY DEF T
  <2>2. out[k] \in Walks /\ k + 1 \in 1..n /\ (k + 1) - 1 = k
    BY <1>1, <1>13, <2>1
  <2>3. QED
    BY <1>4, <1>11, <2>2
<1>14. \A k \in 0..n : out[k] \in Walks
  <2>1. Nat \subseteq T
    <3> HIDE DEF T
    <3> QED BY <1>12, <1>13, Induction
  <2>2. QED
    BY <1>1, <2>1
<1>15. QED
  BY <1>3, <1>11, <1>14 DEF AlongTo, n, base, On

VisitOn(edges, visit, n, node, walk) ==
    IF node \in Range(walk.stack) THEN Meet(walk, node)
    ELSE IF node \in walk.visited \/ n = 0 THEN walk
    ELSE Leave(Along(edges, node, visit, walk), node)

\* To report a loop gives a walk.
LEMMA MeetStays ==
    ASSUME NEW w \in Walks, NEW node \in Range(w.stack)
    PROVE  \E first \in 1..Len(w.stack) :
              LET loop == Append(SubSeq(w.stack, first, Len(w.stack)), node)
              IN  /\ w.stack[first] = node /\ loop \in Seq(Nat)
                  /\ Meet(w, node) = [w EXCEPT !.cycles = Append(@, loop)]
                  /\ Len(loop) = Len(w.stack) - first + 2 /\ loop[Len(loop)] = node
                  /\ \A i \in 1..(Len(w.stack) - first + 1) : loop[i] = w.stack[first + i - 1]
<1> DEFINE s == w.stack
           first == CHOOSE i \in DOMAIN s : s[i] = node
           part == SubSeq(s, first, Len(s))
           loop == Append(part, node)
<1>1. s \in Seq(Nat) /\ Len(s) \in Nat /\ DOMAIN s = 1..Len(s) /\ \A i \in 1..Len(s) : s[i] \in Nat
  <2>1. s \in Seq(Nat)
    BY DEF Walks
  <2> HIDE DEF s
  <2>2. QED
    BY <2>1
<1>2. \E i \in DOMAIN s : s[i] = node
  BY DEF Range
<1>3. Meet(w, node) = [w EXCEPT !.cycles = Append(@, loop)]
  BY DEF Meet
<1> HIDE DEF s
<1>4. first \in 1..Len(s) /\ s[first] = node
  BY <1>1, <1>2
<1> HIDE DEF first
<1>5. node \in Nat
  BY <1>1, <1>4
<1>6. /\ part \in Seq(Nat) /\ Len(part) = Len(s) - first + 1
      /\ \A i \in 1..(Len(s) - first + 1) : part[i] = s[first + i - 1]
  <2>1. first \in Int /\ Len(s) \in Int /\ first <= Len(s) /\ \A i \in first..Len(s) : s[i] \in Nat
    BY <1>1, <1>4
  <2>2. QED
    BY <2>1, SubSeqProperties
<1> HIDE DEF part
<1>7. /\ loop \in Seq(Nat) /\ Len(loop) = Len(part) + 1 /\ loop[Len(part) + 1] = node
      /\ \A i \in 1..Len(part) : loop[i] = part[i]
  BY <1>5, <1>6, AppendProperties
<1>8. /\ Len(loop) = Len(s) - first + 2 /\ loop[Len(loop)] = node
      /\ \A i \in 1..(Len(s) - first + 1) : loop[i] = s[first + i - 1]
  <2> HIDE DEF loop
  <2> QED BY <1>1, <1>4, <1>6, <1>7
<1>9. QED
  BY <1>3, <1>4, <1>7, <1>8 DEF s, part

\* To leave a node gives a walk.
LEMMA LeaveStays ==
    ASSUME NEW w \in Walks, NEW node \in Nat
    PROVE  Leave(w, node) \in Walks
<1>1. w.stack \in Seq(Nat)
  BY DEF Walks
<1>2. Front(w.stack) \in Seq(Nat)
  <2>1. Len(w.stack) \in Nat /\ \A i \in 1..(Len(w.stack) - 1) : w.stack[i] \in Nat
    BY <1>1
  <2>2. QED
    BY <2>1, SubSeqProperties DEF Front
<1>3. QED
  BY <1>2 DEF Leave, Walks

\* To visit a node gives a walk.
LEMMA VisitStays ==
    ASSUME NEW edges \in Seq(Link), NEW visit \in [Nat -> [Walks -> Walks]], NEW n,
           NEW node \in Nat, NEW walk \in Walks
    PROVE  VisitOn(edges, visit, n, node, walk) \in Walks
<1>1. CASE node \in Range(walk.stack)
  <2> DEFINE Closing(first) == Append(SubSeq(walk.stack, first, Len(walk.stack)), node)
  <2>1. PICK first : /\ Closing(first) \in Seq(Nat)
                     /\ Meet(walk, node) = [walk EXCEPT !.cycles = Append(@, Closing(first))]
    BY <1>1, MeetStays
  <2> HIDE DEF Closing
  <2>2. Meet(walk, node) \in Walks
    <3>1. walk.cycles \in Seq(Seq(Nat))
      BY DEF Walks
    <3>2. Append(walk.cycles, Closing(first)) \in Seq(Seq(Nat))
      BY <2>1, <3>1
    <3>3. QED
      BY <2>1, <3>2 DEF Walks
  <2>3. QED
    BY <1>1, <2>2 DEF VisitOn
<1>2. Along(edges, node, visit, walk) \in Walks
  <2>1. PICK after : AlongTo(edges, node, visit, walk, after)
    BY AlongRecursion
  <2>2. Len(edges) \in 0..Len(edges)
    BY LinksShape
  <2>3. QED
    BY <2>1, <2>2 DEF AlongTo
<1>3. CASE node \notin Range(walk.stack)
  BY <1>2, <1>3, LeaveStays DEF VisitOn
<1>4. QED
  BY <1>1, <1>3

VisitsTo(edges, levels, h) ==
    /\ Visit(edges, levels) = h[levels]
    /\ \A n \in 0..levels : h[n] \in [Nat -> [Walks -> Walks]]
    /\ \A n \in 0..levels : \A node \in Nat, w \in Walks : h[n][node][w] = VisitOn(edges, h[n - 1], n, node, w)

\* The visits exist as a function of the levels above the last one.
LEMMA VisitRecursion ==
    ASSUME NEW edges \in Seq(Link), NEW levels \in Nat
    PROVE  \E h : VisitsTo(edges, levels, h)
<1> DEFINE S == [Nat -> [Walks -> Walks]]
           At(v, n) == [node \in Nat |-> [walk \in Walks |-> VisitOn(edges, v, n, node, walk)]]
           none == [node \in Nat |-> [walk \in Walks |-> walk]]
           step == [x \in S \X (1..levels) |-> At(x[1], x[2])]
           Fits(h) == h = [n \in 0..levels |-> At(h[n - 1], n)]
           out == CHOOSE h : Fits(h)
<1>1. Visit(edges, levels) = out[levels]
  BY DEF Visit, VisitOn
<1>2. \A v \in S : \A n : At(v, n) \in S
  BY VisitStays
<1>3. \A v, u : At(v, 0) = At(u, 0)
  <2>1. \A v, u, node, walk : VisitOn(edges, v, 0, node, walk) = VisitOn(edges, u, 0, node, walk)
    BY DEF VisitOn
  <2>2. QED
    BY <2>1
<1>4. At(none, 0) \in S
  <2>1. none \in S
    OBVIOUS
  <2>2. QED
    BY <1>2, <2>1
<1> HIDE DEF At, none, S
<1>5. step \in [S \X (1..levels) -> S]
  BY <1>2
<1>6. PICK h : h \in [0..levels -> S] /\ h[0] = At(none, 0) /\ \A i \in 1..levels : h[i] = step[<<h[i - 1], i>>]
  <2> HIDE DEF step
  <2>1. \E h : Follows(S, At(none, 0), levels, step, h)
    BY <1>4, <1>5, Recursion
  <2>2. QED
    BY <2>1 DEF Follows
<1>7. ASSUME NEW i \in 0..levels
      PROVE  h[i] = At(h[i - 1], i)
  <2>1. CASE i = 0
    BY <1>3, <1>6, <2>1
  <2>2. CASE i # 0
    <3>1. i \in 1..levels /\ h[i - 1] \in S
      BY <1>6, <2>2
    <3>2. step[<<h[i - 1], i>>] = At(h[i - 1], i)
      BY <3>1
    <3> HIDE DEF step
    <3>3. QED
      BY <1>6, <2>2, <3>1, <3>2
  <2>3. QED
    BY <2>1, <2>2
<1> HIDE DEF step
<1>8. Fits(h)
  BY <1>6, <1>7
<1>9. Fits(out)
  <2> HIDE DEF Fits
  <2> QED BY <1>8
<1> HIDE DEF out
<1>10. \A n \in 0..levels : out[n] = At(out[n - 1], n)
  BY <1>9
<1> DEFINE T == {k \in Nat : k <= levels => out[k] \in S}
<1>11. 0 \in T
  BY <1>3, <1>4, <1>10
<1>12. ASSUME NEW k \in Nat, k \in T
       PROVE  k + 1 \in T
  <2>1. SUFFICES ASSUME k + 1 <= levels
                 PROVE  out[k + 1] \in S
    BY DEF T
  <2>2. out[k] \in S /\ k + 1 \in 0..levels /\ (k + 1) - 1 = k
    BY <1>12, <2>1
  <2>3. QED
    BY <1>2, <1>10, <2>2
<1>13. \A n \in 0..levels : out[n] \in S
  <2>1. Nat \subseteq T
    <3> HIDE DEF T
    <3> QED BY <1>11, <1>12, Induction
  <2>2. QED
    BY <2>1
<1>14. \A n \in 0..levels : \A node \in Nat, w \in Walks : out[n][node][w] = VisitOn(edges, out[n - 1], n, node, w)
  <2>1. SUFFICES ASSUME NEW n \in 0..levels, NEW node \in Nat, NEW w \in Walks
                 PROVE  out[n][node][w] = VisitOn(edges, out[n - 1], n, node, w)
    OBVIOUS
  <2>2. out[n] = At(out[n - 1], n)
    BY <1>10
  <2>3. QED
    BY <2>2 DEF At
<1>15. QED
  BY <1>1, <1>13, <1>14 DEF VisitsTo, S


\* One more node on a stack.
LEMMA AppendRange ==
    ASSUME NEW S, NEW s \in Seq(S), NEW x \in S
    PROVE  Range(Append(s, x)) = Range(s) \cup {x}
<1> DEFINE t == Append(s, x)
           n == Len(s)
<1>1. /\ n \in Nat /\ DOMAIN s = 1..n /\ DOMAIN t = 1..(n + 1) /\ t[n + 1] = x
      /\ \A i \in 1..n : t[i] = s[i]
  <2>1. t \in Seq(S) /\ Len(t) = n + 1
    BY AppendProperties
  <2>2. QED
    BY <2>1, AppendProperties
<1> HIDE DEF t, n
<1>2. ASSUME NEW y \in Range(t)
      PROVE  y \in Range(s) \cup {x}
  <2>1. PICK i \in 1..(n + 1) : y = t[i]
    BY <1>1 DEF Range
  <2>2. CASE i = n + 1
    BY <1>1, <2>1, <2>2
  <2>3. CASE i \in 1..n
    BY <1>1, <2>1, <2>3 DEF Range
  <2>4. QED
    BY <1>1, <2>2, <2>3
<1>3. ASSUME NEW y \in Range(s)
      PROVE  y \in Range(t)
  <2>1. PICK i \in 1..n : y = s[i]
    BY <1>1 DEF Range
  <2>2. i \in 1..(n + 1) /\ y = t[i]
    BY <1>1, <2>1
  <2>3. QED
    BY <1>1, <2>2 DEF Range
<1>4. x \in Range(t)
  <2>1. n + 1 \in 1..(n + 1)
    BY <1>1
  <2>2. QED
    BY <1>1, <2>1 DEF Range
<1>5. QED
  BY <1>2, <1>3, <1>4 DEF t

\* The shape of a walk.
LEMMA WalkShape ==
    ASSUME NEW w \in Walks
    PROVE  /\ w.stack \in Seq(Nat) /\ w.cycles \in Seq(Seq(Nat)) /\ w.visited \in SUBSET Nat
           /\ Len(w.stack) \in Nat /\ DOMAIN w.stack = 1..Len(w.stack)
           /\ \A i \in 1..Len(w.stack) : w.stack[i] \in Nat /\ w.stack[i] \in Range(w.stack)
           /\ \A x \in Range(w.stack) : \E i \in 1..Len(w.stack) : x = w.stack[i]
<1>1. w.stack \in Seq(Nat) /\ w.cycles \in Seq(Seq(Nat)) /\ w.visited \in SUBSET Nat
  BY DEF Walks
<1> DEFINE s == w.stack
<1> HIDE DEF s
<1>2. s \in Seq(Nat)
  BY <1>1 DEF s
<1>3. Len(s) \in Nat /\ DOMAIN s = 1..Len(s) /\ \A i \in 1..Len(s) : s[i] \in Nat
  BY <1>2
<1>4. (\A i \in 1..Len(s) : s[i] \in Range(s)) /\ \A x \in Range(s) : \E i \in 1..Len(s) : x = s[i]
  BY <1>3 DEF Range
<1>5. QED
  BY <1>1, <1>3, <1>4 DEF s

\* On its own stack a walk closes a loop.
LEMMA MeetHolds ==
    ASSUME NEW nodes, NEW edges \in Seq(Link), NEW w, Trace(nodes, edges, w), NEW node,
           Enters(edges, w, node), node \in Range(w.stack)
    PROVE  Visited(nodes, edges, w, node, Meet(w, node))
<1> DEFINE s == w.stack
           v == Meet(w, node)
<1>1. w \in Walks
  BY DEF Trace
<1>2. PICK first \in 1..Len(s) :
              LET loop == Append(SubSeq(s, first, Len(s)), node)
              IN  /\ s[first] = node /\ loop \in Seq(Nat)
                  /\ v = [w EXCEPT !.cycles = Append(@, loop)]
                  /\ Len(loop) = Len(s) - first + 2 /\ loop[Len(loop)] = node
                  /\ \A i \in 1..(Len(s) - first + 1) : loop[i] = s[first + i - 1]
  BY <1>1, MeetStays
<1> DEFINE loop == Append(SubSeq(s, first, Len(s)), node)
           n == Len(s)
<1>3. /\ n \in Nat /\ first \in 1..n /\ s[first] = node /\ loop \in Seq(Nat)
      /\ v = [w EXCEPT !.cycles = Append(@, loop)]
      /\ Len(loop) = n - first + 2 /\ loop[n - first + 2] = node
      /\ \A i \in 1..(n - first + 1) : loop[i] = s[first + i - 1]
  <2>1. n \in Nat
    BY <1>1, WalkShape
  <2> HIDE DEF v, loop
  <2>2. QED
    BY <1>2, <2>1 DEF loop
<1>4. \A i \in 1..(n - 1) : Arc(edges, s[i], s[i + 1])
  BY DEF Trace
<1>5. Arc(edges, s[n], node)
  <2>1. s # <<>>
    BY <1>3
  <2>2. QED
    BY <2>1 DEF Enters
<1> HIDE DEF v, loop, n
<1>6. IsLoop(edges, loop)
  <2>1. Len(loop) > 1 /\ loop[1] = node /\ loop[Len(loop)] = node
    BY SMTT(30), <1>3
  <2>0. n \in Nat /\ first \in 1..n /\ Len(loop) - 1 = n - first + 1
    BY <1>3
  <2>2. ASSUME NEW i \in 1..(Len(loop) - 1)
        PROVE  Arc(edges, loop[i], loop[i + 1])
    <3>0. i \in 1..(n - first + 1)
      BY <2>0
    <3>1. i \in 1..(n - first + 1) /\ loop[i] = s[first + i - 1]
      BY <1>3, <3>0
    <3>2. CASE i = n - first + 1
      <4>1. i + 1 = n - first + 2 /\ first + i - 1 = n
        BY <2>0, <3>0, <3>2
      <4>2. loop[i + 1] = node /\ loop[i] = s[n]
        BY <1>3, <3>1, <4>1
      <4>3. QED
        BY <1>5, <4>2
    <3>3. CASE i # n - first + 1
      <4> DEFINE k == first + i - 1
      <4>1. i + 1 \in 1..(n - first + 1) /\ first + (i + 1) - 1 = k + 1 /\ k \in 1..(n - 1)
        BY <2>0, <3>0, <3>3
      <4>2. loop[i + 1] = s[k + 1] /\ loop[i] = s[k]
        <5>1. loop[i + 1] = s[first + (i + 1) - 1]
          BY <1>3, <4>1
        <5>2. QED
          BY <3>1, <4>1, <5>1
      <4> HIDE DEF k
      <4>3. QED
        BY <1>4, <4>1, <4>2
    <3>4. QED
      BY <3>2, <3>3
  <2>3. QED
    BY <1>3, <2>1, <2>2 DEF IsLoop
<1>7. /\ v \in Walks /\ v.stack = s /\ v.visited = w.visited /\ v.cycles # <<>>
      /\ Range(v.cycles) = Range(w.cycles) \cup {loop}
  <2>1. w.cycles \in Seq(Seq(Nat))
    BY <1>1, WalkShape
  <2> DEFINE c == w.cycles
             d == Append(c, loop)
  <2> HIDE DEF c
  <2>2. d \in Seq(Seq(Nat)) /\ d # <<>> /\ Range(d) = Range(c) \cup {loop}
    <3>1. c \in Seq(Seq(Nat)) /\ Len(c) \in Nat
      BY <2>1 DEF c
    <3>2. d \in Seq(Seq(Nat)) /\ Len(d) = Len(c) + 1
      BY <1>3, <3>1, AppendProperties
    <3>3. d # <<>>
      <4> HIDE DEF d
      <4> QED BY <3>1, <3>2
    <3>4. QED
      BY SMTT(30), <1>3, <3>1, <3>2, <3>3, AppendRange
  <2>3. v = [w EXCEPT !.cycles = d]
    BY <1>3 DEF c
  <2> HIDE DEF d
  <2>4. QED
    BY <1>1, <2>2, <2>3 DEF Walks, c
<1>8. Trace(nodes, edges, v)
  BY <1>6, <1>7 DEF Trace
<1>9. QED
  BY <1>7, <1>8 DEF Visited, v, s

\* Along the edges of a node.
LEMMA AlongHolds ==
    ASSUME NEW nodes \in SUBSET Nat, NEW edges \in Seq(Link), IsGraph(nodes, Range(edges)),
           NEW visit \in [Nat -> [Walks -> Walks]], NEW n \in Nat, Visits(nodes, edges, visit, n),
           NEW w, Trace(nodes, edges, w), NEW node \in nodes, Enters(edges, w, node),
           Cardinality(nodes) <= Len(w.stack) + n + 1, node \notin Range(w.stack), node \notin w.visited
    PROVE  LET v == Along(edges, node, visit, w)
           IN  /\ Trace(nodes, edges, v) /\ v.stack = Append(w.stack, node) /\ w.visited \subseteq v.visited
               /\ v.cycles = <<>> => /\ w.cycles = <<>>
                                     /\ \A e \in Range(edges) : e.source = node => e.target \in v.visited
<1> DEFINE m == Len(edges)
           s == w.stack
           t == Append(s, node)
           w0 == [w EXCEPT !.stack = t]
<1>1. w \in Walks /\ node \in Nat
  BY DEF Trace
<1>2. PICK after : AlongTo(edges, node, visit, w, after)
  BY <1>1, AlongRecursion
<1>3. /\ Along(edges, node, visit, w) = after[m] /\ after[0] = w0
      /\ \A i \in 0..m : after[i] \in Walks
      /\ \A i \in 1..m : after[i] = IF edges[i].source = node THEN visit[edges[i].target][after[i - 1]]
                                    ELSE after[i - 1]
  BY <1>2 DEF AlongTo
<1>4. s \in Seq(Nat) /\ Len(s) \in Nat /\ DOMAIN s = 1..Len(s) /\ \A i \in 1..Len(s) : s[i] \in Range(s)
  BY <1>1, WalkShape
<1>5. /\ t \in Seq(Nat) /\ Len(t) = Len(s) + 1 /\ DOMAIN t = 1..(Len(s) + 1) /\ t[Len(s) + 1] = node
      /\ \A i \in 1..Len(s) : t[i] = s[i]
  <2> HIDE DEF s
  <2> QED BY <1>1, <1>4, AppendProperties
<1>6. \A i \in 1..m : edges[i] \in Range(edges) /\ edges[i].target \in nodes
  BY LinksShape DEF IsGraph
<1>7. m \in Nat /\ \A e : e \in Range(edges) <=> \E i \in 1..m : e = edges[i]
  BY LinksShape
<1>8. Range(t) = Range(s) \cup {node}
  <2> HIDE DEF s
  <2> QED BY SMTT(30), <1>1, <1>4, AppendRange
<1>9. w0 \in Walks /\ w0.stack = t /\ w0.visited = w.visited /\ w0.cycles = w.cycles
  <2> HIDE DEF s, t
  <2> QED BY <1>1, <1>5 DEF Walks
<1>10. /\ IsInjective(s) /\ Range(s) \subseteq nodes
       /\ \A i \in 1..(Len(s) - 1) : Arc(edges, s[i], s[i + 1])
       /\ s # <<>> => Arc(edges, s[Len(s)], node)
       /\ Cardinality(nodes) <= Len(s) + n + 1
  BY DEF Trace, Enters
<1>11. /\ w.visited \subseteq nodes /\ \A c \in Range(w.cycles) : IsLoop(edges, c)
       /\ w.cycles = <<>> => Clear(nodes, edges, w)
  BY DEF Trace
<1> HIDE DEF t, w0, m, s
<1>12. IsInjective(t)
  <2>1. SUFFICES ASSUME NEW i \in 1..(Len(s) + 1), NEW j \in 1..(Len(s) + 1), t[i] = t[j]
                 PROVE  i = j
    BY <1>5 DEF IsInjective
  <2>2. node \notin Range(s)
    BY DEF s
  <2>3. CASE i \in 1..Len(s) /\ j \in 1..Len(s)
    BY <1>4, <1>5, <1>10, <2>1, <2>3 DEF IsInjective
  <2>4. CASE i = Len(s) + 1 /\ j \in 1..Len(s)
    <3>1. t[i] = node /\ t[j] \in Range(s)
      BY <1>4, <1>5, <2>4
    <3>2. QED
      BY <2>1, <2>2, <3>1
  <2>5. CASE i \in 1..Len(s) /\ j = Len(s) + 1
    <3>1. t[j] = node /\ t[i] \in Range(s)
      BY <1>4, <1>5, <2>5
    <3>2. QED
      BY <2>1, <2>2, <3>1
  <2>6. (i \in 1..Len(s) \/ i = Len(s) + 1) /\ (j \in 1..Len(s) \/ j = Len(s) + 1)
    <3>1. \A k \in Nat : \A x \in 1..(k + 1) : x \in 1..k \/ x = k + 1
      BY ONLY SMT
    <3>2. Len(s) \in Nat
      BY <1>4
    <3>3. QED
      BY <2>1, <3>1, <3>2, Zenon
  <2>7. QED
    BY <2>3, <2>4, <2>5, <2>6
<1>13. ASSUME NEW i \in 1..(Len(t) - 1)
       PROVE  Arc(edges, t[i], t[i + 1])
  <2>0. Len(t) - 1 = Len(s) /\ i \in 1..Len(s)
    BY <1>4, <1>5, <1>13
  <2>1. CASE i \in 1..(Len(s) - 1)
    <3>1. i + 1 \in 1..Len(s)
      BY <1>4, <2>1
    <3>2. t[i] = s[i] /\ t[i + 1] = s[i + 1]
      BY <1>5, <2>0, <3>1
    <3>3. QED
      BY <1>10, <2>1, <3>2
  <2>2. CASE i = Len(s)
    <3>1. s # <<>> /\ t[i] = s[Len(s)] /\ t[i + 1] = node
      BY <1>4, <1>5, <1>13, <2>2
    <3>2. QED
      BY <1>10, <3>1
  <2>3. QED
    BY <1>4, <2>0, <2>1, <2>2
<1>14. w.cycles = <<>> => Clear(nodes, edges, w0)
  <2>1. node \notin w.visited
    OBVIOUS
  <2>2. QED
    BY <1>8, <1>9, <1>11, <2>1 DEF Clear, s
<1>15. Trace(nodes, edges, w0)
  BY <1>8, <1>9, <1>10, <1>11, <1>12, <1>13, <1>14 DEF Trace
<1> DEFINE Ahead(k) ==
              /\ Trace(nodes, edges, after[k]) /\ after[k].stack = t /\ w.visited \subseteq after[k].visited
              /\ after[k].cycles = <<>> =>
                    /\ w.cycles = <<>>
                    /\ \A i \in 1..k : edges[i].source = node => edges[i].target \in after[k].visited
           T == {k \in Nat : k <= m => Ahead(k)}
<1>16. 0 \in T
  <2>1. Ahead(0)
    BY <1>3, <1>9, <1>15
  <2> HIDE DEF Ahead
  <2>2. QED
    BY <2>1
<1>17. ASSUME NEW k \in Nat, k \in T
       PROVE  k + 1 \in T
  <2>1. SUFFICES ASSUME k + 1 <= m
                 PROVE  Ahead(k + 1)
    <3> HIDE DEF Ahead
    <3> QED BY DEF T
  <2>2. Ahead(k) /\ k + 1 \in 1..m /\ k \in 0..m
    <3> HIDE DEF Ahead
    <3> QED BY <1>7, <1>17, <2>1
  <2>3. after[k + 1] = IF edges[k + 1].source = node THEN visit[edges[k + 1].target][after[k]] ELSE after[k]
    BY <1>3, <2>2
  <2>4. CASE edges[k + 1].source # node
    <3>1. after[k + 1] = after[k]
      BY <2>3, <2>4
    <3>2. \A i \in 1..(k + 1) : edges[i].source = node => i \in 1..k
      BY <2>4
    <3>3. QED
      BY <2>2, <3>1, <3>2
  <2>5. CASE edges[k + 1].source = node
    <3> DEFINE x == after[k]
               y == after[k + 1]
               next == edges[k + 1].target
    <3>1. y = visit[next][x] /\ next \in nodes /\ x \in Walks
      BY <1>3, <1>6, <2>2, <2>3, <2>5
    <3>2. Trace(nodes, edges, x) /\ x.stack = t
      BY <2>2
    <3>3. Arc(edges, node, next)
      BY <1>6, <2>2, <2>5 DEF Arc
    <3> HIDE DEF x, y, next
    <3>4. Enters(edges, x, next)
      BY <1>5, <3>2, <3>3 DEF Enters
    <3>5. Cardinality(nodes) <= Len(x.stack) + n
      <4>1. Len(x.stack) = Len(s) + 1 /\ Len(s) \in Nat /\ Cardinality(nodes) \in Nat
        BY <1>4, <1>5, <3>2, FS_CardinalityType DEF IsGraph
      <4>2. QED
        BY <1>10, <4>1
    <3>6. Visited(nodes, edges, x, next, y)
      BY <3>1, <3>2, <3>4, <3>5 DEF Visits
    <3>7. /\ Trace(nodes, edges, y) /\ y.stack = t /\ x.visited \subseteq y.visited
          /\ y.cycles = <<>> => x.cycles = <<>> /\ next \in y.visited
      BY <3>2, <3>6 DEF Visited
    <3>8. w.visited \subseteq y.visited
      BY <2>2, <3>7 DEF x
    <3>9. ASSUME y.cycles = <<>>
          PROVE  /\ w.cycles = <<>>
                 /\ \A i \in 1..(k + 1) : edges[i].source = node => edges[i].target \in y.visited
      <4>1. x.cycles = <<>> /\ next \in y.visited
        BY <3>7, <3>9
      <4>2. w.cycles = <<>> /\ \A i \in 1..k : edges[i].source = node => edges[i].target \in x.visited
        BY <2>2, <4>1 DEF x
      <4>3. \A i \in 1..(k + 1) : i \in 1..k \/ i = k + 1
        OBVIOUS
      <4>4. QED
        BY <3>7, <4>1, <4>2, <4>3 DEF next
    <3>10. QED
      BY <3>7, <3>8, <3>9 DEF y
  <2>6. QED
    BY <2>4, <2>5
<1>18. Ahead(m)
  <2>1. m \in T
    <3> HIDE DEF T
    <3> QED BY <1>7, <1>16, <1>17, Induction
  <2> HIDE DEF Ahead
  <2>2. QED
    BY <1>7, <2>1
<1> DEFINE v == after[m]
<1>19. ASSUME v.cycles = <<>>
       PROVE  w.cycles = <<>> /\ \A e \in Range(edges) : e.source = node => e.target \in v.visited
  BY <1>7, <1>18, <1>19
<1>20. QED
  BY <1>3, <1>18, <1>19 DEF t, s

\* A node that is left is visited, and so is all it leads to.
LEMMA LeaveHolds ==
    ASSUME NEW nodes \in SUBSET Nat, NEW edges \in Seq(Link), IsGraph(nodes, Range(edges)),
           NEW w, Trace(nodes, edges, w), NEW node \in nodes, node \notin Range(w.stack),
           NEW v, Trace(nodes, edges, v), v.stack = Append(w.stack, node), w.visited \subseteq v.visited,
           v.cycles = <<>> => /\ w.cycles = <<>>
                              /\ \A e \in Range(edges) : e.source = node => e.target \in v.visited
    PROVE  Visited(nodes, edges, w, node, Leave(v, node))
<1> DEFINE s == w.stack
           u == Leave(v, node)
<1>1. w \in Walks /\ v \in Walks /\ node \in Nat
  BY DEF Trace
<1>2. s \in Seq(Nat) /\ Len(s) \in Nat /\ DOMAIN s = 1..Len(s)
  BY <1>1, WalkShape
<1> HIDE DEF s
<1>3. Front(Append(s, node)) = s /\ Range(Append(s, node)) = Range(s) \cup {node}
  <2> DEFINE t == Append(s, node)
  <2>1. /\ t \in Seq(Nat) /\ Len(t) = Len(s) + 1 /\ DOMAIN t = 1..(Len(s) + 1) /\ t[Len(s) + 1] = node
        /\ \A i \in 1..Len(s) : t[i] = s[i]
    BY <1>1, <1>2, AppendProperties
  <2> HIDE DEF t
  <2>2. /\ Front(t) \in Seq(Nat) /\ Len(Front(t)) = Len(s)
        /\ \A i \in 1..Len(s) : Front(t)[i] = t[i]
    <3>1. Front(t) = SubSeq(t, 1, Len(s))
      BY <1>2, <2>1 DEF Front
    <3>2. \A i \in 1..Len(s) : t[i] \in Nat
      BY <1>2, <2>1
    <3>3. QED
      BY <1>2, <3>1, <3>2, SubSeqProperties
  <2>3. Front(t) = s
    BY <1>2, <2>1, <2>2, SeqEqual
  <2>4. Range(t) = Range(s) \cup {node}
    BY <1>1, <1>2, AppendRange DEF t
  <2>5. QED
    BY <2>3, <2>4 DEF t
<1>4. u \in Walks /\ u.stack = s /\ u.visited = v.visited \cup {node} /\ u.cycles = v.cycles
  <2>1. u \in Walks
    BY <1>1, LeaveStays
  <2>2. v.stack = Append(s, node)
    BY DEF s
  <2>3. QED
    BY <1>1, <1>3, <2>1, <2>2 DEF Leave, Walks
<1> HIDE DEF u
<1>5. ASSUME v.cycles = <<>>
      PROVE  Clear(nodes, edges, u)
  <2>1. Clear(nodes, edges, v) /\ v.stack = Append(s, node)
    BY <1>5 DEF Trace, s
  <2>2. /\ v.visited \cap Range(s) = {} /\ node \notin v.visited
        /\ \A e \in Range(edges) : e.source \in v.visited => e.target \in v.visited
        /\ \A x \in v.visited : x \notin Beyond(nodes, Range(edges), x)
    BY <1>3, <2>1 DEF Clear
  <2>3. \A e \in Range(edges) : e.source = node \/ e.source \in v.visited => e.target \in v.visited
    BY <1>5, <2>2
  <2>4. Beyond(nodes, Range(edges), node) \subseteq v.visited
    BY <2>3, BeyondHolds
  <2>5. node \notin Range(s)
    BY DEF s
  <2>6. QED
    BY <1>4, <2>2, <2>3, <2>4, <2>5 DEF Clear
<1>6. Trace(nodes, edges, u)
  <2>1. /\ IsInjective(s) /\ Range(s) \subseteq nodes
        /\ \A i \in 1..(Len(s) - 1) : Arc(edges, s[i], s[i + 1])
    BY DEF Trace, s
  <2>2. v.visited \subseteq nodes /\ \A c \in Range(v.cycles) : IsLoop(edges, c)
    BY DEF Trace
  <2>3. QED
    BY <1>4, <1>5, <2>1, <2>2 DEF Trace
<1>7. QED
  BY <1>4, <1>6 DEF Visited, u, s

\* Visits are right at every level that is deep enough.
LEMMA VisitHolds ==
    ASSUME NEW nodes \in SUBSET Nat, NEW edges \in Seq(Link), IsGraph(nodes, Range(edges)), NEW levels \in Nat
    PROVE  Visits(nodes, edges, Visit(edges, levels), levels) /\ Visit(edges, levels) \in [Nat -> [Walks -> Walks]]
<1>1. PICK h : VisitsTo(edges, levels, h)
  BY VisitRecursion
<1>2. /\ Visit(edges, levels) = h[levels]
      /\ \A n \in 0..levels : h[n] \in [Nat -> [Walks -> Walks]]
      /\ \A n \in 0..levels : \A node \in Nat, w \in Walks : h[n][node][w] = VisitOn(edges, h[n - 1], n, node, w)
  BY <1>1 DEF VisitsTo
<1> DEFINE T == {k \in Nat : k <= levels => Visits(nodes, edges, h[k], k)}
<1>3. ASSUME NEW k \in 0..levels, k > 0 => Visits(nodes, edges, h[k - 1], k - 1)
      PROVE  Visits(nodes, edges, h[k], k)
  <2>1. SUFFICES ASSUME NEW w \in Walks, NEW node \in nodes, Trace(nodes, edges, w), Enters(edges, w, node),
                        Cardinality(nodes) <= Len(w.stack) + k
                 PROVE  Visited(nodes, edges, w, node, h[k][node][w])
    BY DEF Visits
  <2>2. h[k][node][w] = VisitOn(edges, h[k - 1], k, node, w)
    BY <1>2
  <2>3. CASE node \in Range(w.stack)
    BY <2>1, <2>2, <2>3, MeetHolds DEF VisitOn
  <2>4. CASE node \notin Range(w.stack) /\ node \in w.visited
    <3>1. h[k][node][w] = w
      BY <2>2, <2>4 DEF VisitOn
    <3>2. QED
      BY <2>1, <2>4, <3>1 DEF Visited
  <2>5. CASE node \notin Range(w.stack) /\ node \notin w.visited
    <3>1. k # 0
      <4>1. SUFFICES ASSUME k = 0
                     PROVE  FALSE
        OBVIOUS
      <4>2. w.stack \in Seq(Nat) /\ Len(w.stack) \in Nat /\ IsInjective(w.stack) /\ Range(w.stack) \in SUBSET nodes
        BY <2>1, WalkShape DEF Trace
      <4>3. Cardinality(Range(w.stack)) = Len(w.stack)
        BY <4>2, RangeCounts
      <4>4. IsFiniteSet(nodes) /\ Cardinality(nodes) \in Nat
        BY FS_CardinalityType DEF IsGraph
      <4>5. Range(w.stack) = nodes
        <5>1. /\ Cardinality(Range(w.stack)) <= Cardinality(nodes)
              /\ Cardinality(nodes) = Cardinality(Range(w.stack)) => nodes = Range(w.stack)
          BY <4>2, <4>4, FS_Subset
        <5>2. QED
          BY <2>1, <4>1, <4>2, <4>3, <4>4, <5>1
      <4>6. QED
        BY <2>5, <4>5
    <3>2. k - 1 \in Nat /\ k - 1 \in 0..levels /\ Visits(nodes, edges, h[k - 1], k - 1)
      BY <1>3, <3>1
    <3> DEFINE v == Along(edges, node, h[k - 1], w)
    <3>3. h[k][node][w] = Leave(v, node)
      BY <2>2, <2>5, <3>1 DEF VisitOn
    <3>4. h[k - 1] \in [Nat -> [Walks -> Walks]] /\ Cardinality(nodes) <= Len(w.stack) + (k - 1) + 1
      <4>1. Len(w.stack) \in Nat /\ Cardinality(nodes) \in Nat
        BY WalkShape, FS_CardinalityType DEF IsGraph
      <4>2. QED
        BY <1>2, <2>1, <3>2, <4>1
    <3>5. /\ Trace(nodes, edges, v) /\ v.stack = Append(w.stack, node) /\ w.visited \subseteq v.visited
          /\ v.cycles = <<>> => /\ w.cycles = <<>>
                                /\ \A e \in Range(edges) : e.source = node => e.target \in v.visited
      BY <2>1, <2>5, <3>2, <3>4, AlongHolds
    <3> HIDE DEF v
    <3>6. QED
      BY <2>1, <2>5, <3>3, <3>5, LeaveHolds
  <2>6. QED
    BY <2>3, <2>4, <2>5
<1>4. 0 \in T
  BY <1>3
<1>5. ASSUME NEW k \in Nat, k \in T
      PROVE  k + 1 \in T
  <2>1. SUFFICES ASSUME k + 1 <= levels
                 PROVE  Visits(nodes, edges, h[k + 1], k + 1)
    BY DEF T
  <2>2. k + 1 \in 0..levels /\ (k + 1) - 1 = k /\ Visits(nodes, edges, h[k], k)
    BY <1>5, <2>1
  <2>3. QED
    BY <1>3, <2>2
<1>6. levels \in T
  <2> HIDE DEF T
  <2> QED BY <1>4, <1>5, Induction
<1>7. QED
  BY <1>2, <1>6


\* Walks from one node after another.
SweepTo(edges, roots, visit, after) ==
    /\ CyclesFrom(edges, roots) = after[Len(roots)].cycles /\ after[0] = Unvisited
    /\ \A i \in 1..Len(roots) : after[i] = visit[roots[i]][after[i - 1]]

\* The walk exists as a function of how many roots were visited.
LEMMA SweepRecursion ==
    ASSUME NEW edges, NEW roots \in Seq(Nat), NEW visit \in [Nat -> [Walks -> Walks]],
           visit = Visit(edges, Cardinality(Range(roots)))
    PROVE  \E after : SweepTo(edges, roots, visit, after)
<1> DEFINE n == Len(roots)
           On(x, i) == visit[roots[i]][x]
           step == [x \in Walks \X (1..n) |-> On(x[1], x[2])]
           Fits(h) == h = [i \in 0..n |-> IF i = 0 THEN Unvisited ELSE On(h[i - 1], i)]
           out == CHOOSE h : Fits(h)
<1>1. n \in Nat /\ \A i \in 1..n : roots[i] \in Nat
  OBVIOUS
<1>2. Unvisited \in Walks
  BY DEF Walks, Unvisited
<1>3. CyclesFrom(edges, roots) = out[n].cycles
  BY DEF CyclesFrom
<1> HIDE DEF n
<1>4. \A x \in Walks, i \in 1..n : On(x, i) \in Walks
  BY <1>1
<1> HIDE DEF On
<1>5. step \in [Walks \X (1..n) -> Walks]
  BY <1>4
<1>6. PICK h : h \in [0..n -> Walks] /\ h[0] = Unvisited /\ \A i \in 1..n : h[i] = step[<<h[i - 1], i>>]
  <2> HIDE DEF step
  <2>1. \E h : Follows(Walks, Unvisited, n, step, h)
    BY <1>1, <1>2, <1>5, Recursion
  <2>2. QED
    BY <2>1 DEF Follows
<1>7. ASSUME NEW i \in 0..n
      PROVE  h[i] = IF i = 0 THEN Unvisited ELSE On(h[i - 1], i)
  <2>1. CASE i = 0
    BY <1>6, <2>1
  <2>2. CASE i # 0
    <3>1. i \in 1..n /\ h[i - 1] \in Walks
      BY <1>1, <1>6, <2>2
    <3>2. step[<<h[i - 1], i>>] = On(h[i - 1], i)
      BY <3>1
    <3> HIDE DEF step
    <3>3. QED
      BY <1>6, <2>2, <3>1, <3>2
  <2>3. QED
    BY <2>1, <2>2
<1> HIDE DEF step
<1>8. Fits(h)
  BY <1>6, <1>7
<1>9. Fits(out)
  <2> HIDE DEF Fits
  <2> QED BY <1>8
<1> HIDE DEF out
<1>10. \A i \in 0..n : out[i] = IF i = 0 THEN Unvisited ELSE On(out[i - 1], i)
  BY <1>9
<1>11. out[0] = Unvisited /\ \A i \in 1..n : out[i] = On(out[i - 1], i)
  <2>1. 0 \in 0..n /\ \A i \in 1..n : i \in 0..n /\ i # 0
    BY <1>1
  <2>2. QED
    BY <1>10, <2>1, Zenon
<1>12. QED
  BY <1>3, <1>11 DEF SweepTo, n, On

\* A loop leads from each of its nodes back to it.
LEMMA LoopReturns ==
    ASSUME NEW nodes, NEW edges, IsGraph(nodes, Range(edges)), NEW c, IsLoop(edges, c)
    PROVE  c[1] \in nodes /\ c[1] \in Beyond(nodes, Range(edges), c[1]) /\ Range(c) \subseteq nodes
<1> DEFINE n == Len(c)
           a == c[1]
           T == {k \in Nat : k + 2 <= n => c[k + 2] \in Beyond(nodes, Range(edges), a)}
<1>1. /\ c \in Seq(Nat) /\ n \in Nat /\ n > 1 /\ c[n] = a /\ DOMAIN c = 1..n
      /\ \A i \in 1..(n - 1) : \E e \in Range(edges) : e.source = c[i] /\ e.target = c[i + 1]
  BY DEF IsLoop, Arc
<1> HIDE DEF n
<1>2. 0 \in T
  <2>1. PICK e \in Range(edges) : e.source = c[1] /\ e.target = c[2]
    <3>1. 1 \in 1..(n - 1) /\ 1 + 1 = 2
      BY <1>1
    <3>2. QED
      BY <1>1, <3>1
  <2>2. QED
    BY <2>1, BeyondHolds
<1>3. ASSUME NEW k \in Nat, k \in T
      PROVE  k + 1 \in T
  <2>1. SUFFICES ASSUME (k + 1) + 2 <= n
                 PROVE  c[(k + 1) + 2] \in Beyond(nodes, Range(edges), a)
    BY DEF T
  <2>2. c[k + 2] \in Beyond(nodes, Range(edges), a) /\ k + 2 \in 1..(n - 1) /\ (k + 1) + 2 = (k + 2) + 1
    BY <1>1, <1>3, <2>1
  <2>3. PICK e \in Range(edges) : e.source = c[k + 2] /\ e.target = c[(k + 2) + 1]
    BY <1>1, <2>2
  <2>4. QED
    BY <2>2, <2>3, BeyondHolds
<1>4. \A k \in Nat : k + 2 <= n => c[k + 2] \in Beyond(nodes, Range(edges), a)
  <2>1. Nat \subseteq T
    <3> HIDE DEF T
    <3> QED BY <1>2, <1>3, Induction
  <2>2. QED
    BY <2>1
<1>5. a \in Beyond(nodes, Range(edges), a)
  <2> HIDE DEF a
  <2>1. PICK k \in Nat : k + 2 = n
    <3>1. n - 2 \in Nat /\ (n - 2) + 2 = n
      BY <1>1
    <3>2. QED
      BY <3>1
  <2>2. c[k + 2] \in Beyond(nodes, Range(edges), a)
    BY <1>4, <2>1
  <2>3. c[k + 2] = a
    BY <1>1, <2>1
  <2>4. QED
    BY <2>2, <2>3
<1>6. Range(c) \subseteq nodes
  <2>1. ASSUME NEW i \in 1..n
        PROVE  c[i] \in nodes
    <3>1. CASE i \in 1..(n - 1)
      BY <1>1, <3>1 DEF IsGraph
    <3>2. CASE i = n
      <4>1. n - 1 \in 1..(n - 1) /\ (n - 1) + 1 = n
        BY <1>1
      <4>2. QED
        BY <1>1, <3>2, <4>1 DEF IsGraph
    <3>3. QED
      BY <1>1, <3>1, <3>2
  <2>2. QED
    BY <1>1, <2>1 DEF Range
<1>7. QED
  BY <1>1, <1>5, <1>6 DEF Range, n

\* A walk from every node reports loops only, and one unless there is none.
LEMMA CyclesHold ==
    ASSUME NEW edges \in Seq(Link), NEW roots \in Seq(Nat), IsGraph(Range(roots), Range(edges))
    PROVE  /\ \A c \in Range(CyclesFrom(edges, roots)) : IsLoop(edges, c)
           /\ CyclesFrom(edges, roots) = <<>> <=> Acyclic(Range(roots), Range(edges))
           /\ CyclesFrom(edges, roots) \in Seq(Seq(Nat))
<1> DEFINE nodes == Range(roots)
           levels == Cardinality(nodes)
           visit == Visit(edges, levels)
           n == Len(roots)
<1>1. n \in Nat /\ DOMAIN roots = 1..n /\ nodes \in SUBSET Nat /\ \A x : x \in nodes <=> \E i \in 1..n : x = roots[i]
  <2>1. n \in Nat /\ DOMAIN roots = 1..n /\ \A i \in 1..n : roots[i] \in Nat
    OBVIOUS
  <2> HIDE DEF n
  <2>2. QED
    BY <2>1 DEF Range
<1>2. levels \in Nat
  BY FS_CardinalityType DEF IsGraph
<1>3. Visits(nodes, edges, visit, levels) /\ visit \in [Nat -> [Walks -> Walks]]
  <2> HIDE DEF nodes, levels
  <2>1. IsGraph(nodes, Range(edges))
    BY DEF nodes
  <2>2. QED
    BY <1>1, <1>2, <2>1, VisitHolds
<1>4. PICK after : SweepTo(edges, roots, visit, after)
  BY <1>3, SweepRecursion
<1>5. /\ CyclesFrom(edges, roots) = after[n].cycles /\ after[0] = Unvisited
      /\ \A i \in 1..n : after[i] = visit[roots[i]][after[i - 1]]
  BY <1>4 DEF SweepTo
<1> HIDE DEF nodes, visit, n
<1> DEFINE Swept(k) ==
              /\ Trace(nodes, edges, after[k]) /\ after[k].stack = <<>>
              /\ after[k].cycles = <<>> => \A i \in 1..k : roots[i] \in after[k].visited
           T == {k \in Nat : k <= n => Swept(k)}
<1>6. 0 \in T
  <2>1. Range(<<>>) = {} /\ IsInjective(<<>>) /\ Len(<<>>) = 0
    BY DEF Range, IsInjective
  <2>2. Unvisited \in Walks
    BY DEF Unvisited, Walks
  <2>3. Unvisited.stack = <<>> /\ Unvisited.visited = {} /\ Unvisited.cycles = <<>>
    BY DEF Unvisited
  <2>4. Trace(nodes, edges, Unvisited)
    BY <2>1, <2>2, <2>3 DEF Trace, Clear
  <2>5. Swept(0)
    BY <1>5, <2>3, <2>4
  <2> HIDE DEF Swept
  <2>6. QED
    BY <2>5
<1>7. ASSUME NEW k \in Nat, k \in T
      PROVE  k + 1 \in T
  <2>1. SUFFICES ASSUME k + 1 <= n
                 PROVE  Swept(k + 1)
    <3> HIDE DEF Swept
    <3> QED BY DEF T
  <2>2. Swept(k) /\ k + 1 \in 1..n
    <3> HIDE DEF Swept
    <3> QED BY <1>1, <1>7, <2>1
  <2> DEFINE w == after[k]
             v == after[k + 1]
             node == roots[k + 1]
  <2>3. v = visit[node][w] /\ node \in nodes
    BY <1>1, <1>5, <2>2
  <2>4. Trace(nodes, edges, w) /\ w.stack = <<>> /\ w \in Walks
    BY <2>2 DEF Trace
  <2> HIDE DEF v, w, node
  <2>5. Enters(edges, w, node) /\ levels <= Len(w.stack) + levels
    BY <1>2, <2>4 DEF Enters
  <2>6. Visited(nodes, edges, w, node, v)
    BY <1>3, <2>3, <2>4, <2>5 DEF Visits
  <2>7. /\ Trace(nodes, edges, v) /\ v.stack = <<>> /\ w.visited \subseteq v.visited
        /\ v.cycles = <<>> => w.cycles = <<>> /\ node \in v.visited
    BY <2>4, <2>6 DEF Visited
  <2>8. ASSUME v.cycles = <<>>, NEW i \in 1..(k + 1)
        PROVE  roots[i] \in v.visited
    <3>1. CASE i = k + 1
      BY <2>7, <2>8, <3>1 DEF node
    <3>2. CASE i \in 1..k
      BY <2>2, <2>7, <2>8, <3>2 DEF w
    <3>3. QED
      BY <3>1, <3>2
  <2>9. QED
    BY <2>7, <2>8 DEF v
<1>8. Swept(n)
  <2>1. n \in T
    <3> HIDE DEF T
    <3> QED BY <1>1, <1>6, <1>7, Induction
  <2> HIDE DEF Swept
  <2>2. QED
    BY <1>1, <2>1
<1> DEFINE cycles == after[n].cycles
<1>9. (\A c \in Range(cycles) : IsLoop(edges, c)) /\ cycles \in Seq(Seq(Nat))
  <2>1. Trace(nodes, edges, after[n])
    BY <1>8
  <2>2. after[n] \in Walks
    BY <2>1 DEF Trace
  <2>3. QED
    BY <2>1, <2>2, WalkShape DEF Trace
<1>10. ASSUME cycles = <<>>
       PROVE  Acyclic(nodes, Range(edges))
  <2>1. Clear(nodes, edges, after[n]) /\ \A i \in 1..n : roots[i] \in after[n].visited
    BY <1>8, <1>10 DEF Trace
  <2>2. \A x \in nodes : x \notin Beyond(nodes, Range(edges), x)
    BY <1>1, <2>1 DEF Clear
  <2>3. QED
    BY <2>2, AcyclicIs
<1>11. ASSUME cycles # <<>>
       PROVE  ~Acyclic(nodes, Range(edges))
  <2> HIDE DEF cycles
  <2>1. cycles[1] \in Range(cycles)
    <3>1. Len(cycles) \in Nat \ {0} /\ DOMAIN cycles = 1..Len(cycles)
      BY <1>9, <1>11
    <3>2. QED
      BY <3>1 DEF Range
  <2> DEFINE c == cycles[1]
  <2> HIDE DEF c
  <2>2. IsLoop(edges, c) /\ IsGraph(nodes, Range(edges))
    BY <1>9, <2>1 DEF c, nodes
  <2>3. c[1] \in nodes /\ c[1] \in Beyond(nodes, Range(edges), c[1])
    BY <2>2, LoopReturns
  <2>4. QED
    BY <2>3, AcyclicIs
<1>12. QED
  BY <1>5, <1>9, <1>10, <1>11 DEF nodes

\* The nodes of an overlay: those it lists and the ends of its edges.
LEMMA RangeIsFinite ==
    ASSUME NEW S, NEW s \in Seq(S)
    PROVE  IsFiniteSet(Range(s)) /\ Range(s) \subseteq S
<1> DEFINE n == Len(s)
<1>1. n \in Nat /\ DOMAIN s = 1..n /\ s \in [1..n -> S]
  OBVIOUS
<1> HIDE DEF n
<1>2. s \in [1..n -> Range(s)] /\ Range(s) \subseteq S
  BY <1>1 DEF Range
<1>3. s \in Surjection(1..n, Range(s)) /\ IsFiniteSet(1..n)
  <2>1. IsFiniteSet(1..n)
    BY <1>1, FS_Interval
  <2>2. s \in Surjection(1..n, Range(s))
    BY <1>1, <1>2 DEF Surjection, Range
  <2>3. QED
    BY <2>1, <2>2
<1>4. QED
  BY <1>2, <1>3, FS_Surjection

\* An overlay and its nodes are a graph, and its nodes are those listed.
LEMMA ListedNodes ==
    ASSUME NEW overlay, overlay.nodes \in Seq(Nat), overlay.edges \in Seq(Link)
    PROVE  /\ NodesOf(overlay) \in SUBSET Nat /\ IsGraph(NodesOf(overlay), Range(overlay.edges))
           /\ Listed(overlay) \in Seq(Nat) /\ Range(Listed(overlay)) = NodesOf(overlay)
<1> DEFINE edges == overlay.edges
           n == Len(edges)
           End(i) == IF i % 2 = 1 THEN edges[(i + 1) \div 2].source ELSE edges[(i + 1) \div 2].target
           ends == [i \in 1..(2 * n) |-> End(i)]
<1>1. /\ n \in Nat /\ \A i \in 1..n : edges[i].source \in Nat /\ edges[i].target \in Nat
      /\ \A e : e \in Range(edges) <=> \E i \in 1..n : e = edges[i]
  BY LinksShape
<1>2. Listed(overlay) = overlay.nodes \o ends
  BY DEF Listed
<1> HIDE DEF edges, n
<1>3. \A i \in 1..(2 * n) : (i + 1) \div 2 \in 1..n
  BY <1>1
<1>4. ends \in Seq(Nat)
  <2>1. \A i \in 1..(2 * n) : ends[i] \in Nat
    BY <1>1, <1>3
  <2>2. ends \in [1..(2 * n) -> Nat] /\ 2 * n \in Nat
    BY <1>1, <2>1
  <2> HIDE DEF ends
  <2>3. QED
    BY <2>2, FunctionIsSeq
<1>5. Range(ends) = UNION {{e.source, e.target} : e \in Range(edges)}
  <2>1. ASSUME NEW i \in 1..(2 * n)
        PROVE  \E e \in Range(edges) : End(i) \in {e.source, e.target}
    <3>1. edges[(i + 1) \div 2] \in Range(edges)
      BY <1>1, <1>3
    <3>2. QED
      BY <3>1
  <2>2. ASSUME NEW j \in 1..n
        PROVE  \E i, k \in 1..(2 * n) : End(i) = edges[j].source /\ End(k) = edges[j].target
    <3>1. 2 * j - 1 \in 1..(2 * n) /\ (2 * j - 1) % 2 = 1 /\ ((2 * j - 1) + 1) \div 2 = j
      BY <1>1
    <3>2. 2 * j \in 1..(2 * n) /\ (2 * j) % 2 = 0 /\ (2 * j + 1) \div 2 = j
      BY <1>1
    <3>3. End(2 * j - 1) = edges[j].source
      BY <3>1
    <3>4. End(2 * j) = edges[j].target
      <4> DEFINE k == 2 * j
      <4> HIDE DEF k
      <4>1. k % 2 # 1 /\ (k + 1) \div 2 = j
        BY <3>2 DEF k
      <4>2. End(k) = edges[j].target
        BY <4>1, Zenon
      <4>3. QED
        BY <4>2 DEF k
    <3> HIDE DEF End
    <3>5. QED
      BY <3>1, <3>2, <3>3, <3>4
  <2> HIDE DEF End
  <2>3. DOMAIN ends = 1..(2 * n) /\ \A i \in 1..(2 * n) : ends[i] = End(i)
    OBVIOUS
  <2> HIDE DEF ends
  <2>4. ASSUME NEW x \in Range(ends)
        PROVE  \E e \in Range(edges) : x \in {e.source, e.target}
    BY <2>1, <2>3 DEF Range
  <2>5. ASSUME NEW e \in Range(edges)
        PROVE  e.source \in Range(ends) /\ e.target \in Range(ends)
    <3>1. PICK j \in 1..n : e = edges[j]
      BY <1>1
    <3>2. PICK i \in 1..(2 * n), k \in 1..(2 * n) : End(i) = edges[j].source /\ End(k) = edges[j].target
      BY <2>2
    <3>3. QED
      BY <2>3, <3>1, <3>2 DEF Range
  <2>6. QED
    BY <2>4, <2>5
<1> HIDE DEF ends
<1>6. Listed(overlay) \in Seq(Nat) /\ Range(Listed(overlay)) = NodesOf(overlay)
  BY <1>2, <1>4, <1>5, ConcatRange DEF NodesOf, edges
<1>7. IsFiniteSet(NodesOf(overlay)) /\ NodesOf(overlay) \subseteq Nat
  BY <1>6, RangeIsFinite
<1>8. \A e \in Range(edges) : e.source \in NodesOf(overlay) /\ e.target \in NodesOf(overlay)
  BY DEF NodesOf, edges
<1>9. QED
  BY <1>6, <1>7, <1>8 DEF IsGraph, edges


\* What an analysis finds.
LEMMA OverlayOrder ==
    ASSUME NEW overlay, overlay.nodes \in Seq(Nat), overlay.edges \in Seq(Link)
    PROVE  /\ IsDag(overlay) <=> Acyclic(NodesOf(overlay), Range(overlay.edges))
           /\ IsDag(overlay) => /\ Range(OrderOf(overlay)) = NodesOf(overlay)
                                /\ Sorted(NodesOf(overlay), overlay.edges, OrderOf(overlay))
<1> DEFINE nodes == NodesOf(overlay)
           edges == overlay.edges
<1>1. nodes \in SUBSET Nat /\ edges \in Seq(Link) /\ IsGraph(nodes, Range(edges))
  BY ListedNodes
<1> HIDE DEF nodes, edges
<1>2. /\ Len(Drain(edges, nodes)) = Cardinality(nodes) <=> Acyclic(nodes, Range(edges))
      /\ Len(Drain(edges, nodes)) = Cardinality(nodes) => Range(Drain(edges, nodes)) = nodes
      /\ Sorted(nodes, edges, Drain(edges, nodes))
  BY <1>1, DrainIsRight
<1>3. QED
  BY <1>2 DEF nodes, edges, IsDag, OrderOf

\* The order of a DAG holds each node once, sources first, and no other
\* overlay is called one.
LEMMA OrderHolds ==
    ASSUME NEW overlay, overlay.nodes \in Seq(Nat), overlay.edges \in Seq(Link)
    PROVE  OrderIsRight(overlay)
<1> DEFINE nodes == NodesOf(overlay)
           edges == overlay.edges
           s     == OrderOf(overlay)
           found == Analysis(overlay)
<1>1. IsGraph(nodes, Range(edges))
  BY ListedNodes
<1>2. IsDag(overlay) <=> Acyclic(nodes, Range(edges))
  BY OverlayOrder
<1>3. found.isDag = IsDag(overlay)
  BY DEF Analysis
<1>4. ASSUME IsDag(overlay)
      PROVE  /\ Range(s) = nodes /\ IsInjective(s)
             /\ \A e \in Range(edges) : \E i, j \in DOMAIN s : i < j /\ s[i] = e.source /\ s[j] = e.target
  <2>1. Range(s) = nodes /\ Sorted(nodes, edges, s)
    BY <1>4, OverlayOrder
  <2>2. s \in Seq(nodes)
    BY <2>1 DEF Sorted
  <2> HIDE DEF s, nodes, edges
  <2>3. Len(s) \in Nat /\ DOMAIN s = 1..Len(s)
    BY <2>2
  <2>4. ASSUME NEW e \in Range(edges)
        PROVE  \E i, j \in DOMAIN s : i < j /\ s[i] = e.source /\ s[j] = e.target
    <3>1. e.target \in Range(s)
      BY <1>1, <2>1 DEF IsGraph
    <3>2. PICK j \in DOMAIN s : s[j] = e.target
      BY <3>1 DEF Range
    <3>3. QED
      BY <2>1, <2>3, <3>2 DEF Sorted
  <2>5. QED
    BY <2>1, <2>4 DEF Sorted
<1>5. IsDag(overlay) => found.order = s
  BY DEF Analysis
<1> HIDE DEF found, s, nodes, edges
<1>6. found.isDag <=> Acyclic(nodes, Range(edges))
  BY <1>2, <1>3
<1>7. Acyclic(nodes, Range(edges)) \in BOOLEAN /\ IsDag(overlay) \in BOOLEAN
  BY DEF Acyclic, IsDag
<1>8. found.isDag = Acyclic(nodes, Range(edges))
  BY <1>2, <1>3, <1>7
<1>9. QED
  BY <1>3, <1>4, <1>5, <1>8 DEF OrderIsRight, found, nodes, edges

\* The loops of an overlay, and what else is reported.
LEMMA CyclesShape ==
    ASSUME NEW overlay, overlay.nodes \in Seq(Nat), overlay.edges \in Seq(Link)
    PROVE  /\ \A c \in Cycles(overlay) : IsLoop(overlay.edges, c) /\ Range(c) \subseteq NodesOf(overlay)
           /\ ~IsDag(overlay) => Cycles(overlay) # {}
<1> DEFINE nodes == NodesOf(overlay)
           edges == overlay.edges
           roots == Listed(overlay)
           found == CyclesFrom(edges, roots)
<1>1. edges \in Seq(Link) /\ roots \in Seq(Nat) /\ IsGraph(nodes, Range(edges)) /\ Range(roots) = nodes
  BY ListedNodes
<1>2. Cycles(overlay) = Range(found)
  BY DEF Cycles
<1>3. IsDag(overlay) <=> Acyclic(nodes, Range(edges))
  BY OverlayOrder
<1> HIDE DEF edges, roots
<1>4. /\ \A c \in Range(found) : IsLoop(edges, c)
      /\ found = <<>> <=> Acyclic(nodes, Range(edges))
      /\ found \in Seq(Seq(Nat))
  <2>1. IsGraph(Range(roots), Range(edges))
    BY <1>1
  <2>2. QED
    BY <1>1, <2>1, CyclesHold
<1> HIDE DEF nodes, found
<1>5. ASSUME NEW c \in Range(found)
      PROVE  Range(c) \subseteq nodes
  BY <1>1, <1>4, LoopReturns
<1>6. found # <<>> => Range(found) # {}
  <2>1. found # <<>> => 1 \in 1..Len(found)
    BY <1>4
  <2>2. \A i \in 1..Len(found) : found[i] \in Range(found)
    BY <1>4, SeqShape
  <2>3. QED
    BY <2>1, <2>2
<1>7. QED
  BY <1>2, <1>3, <1>4, <1>5, <1>6 DEF nodes, edges

\* An overlay that is no DAG shows a cycle, and each it shows is one.
LEMMA CyclesReal ==
    ASSUME NEW overlay, overlay.nodes \in Seq(Nat), overlay.edges \in Seq(Link)
    PROVE  CyclesAreReal(overlay)
<1> DEFINE found == Analysis(overlay)
<1>1. /\ \A c \in Cycles(overlay) : IsLoop(overlay.edges, c)
      /\ ~IsDag(overlay) => Cycles(overlay) # {}
  BY CyclesShape
<1>2. found.isDag = IsDag(overlay) /\ found.cycles = IF IsDag(overlay) THEN {} ELSE Cycles(overlay)
  BY DEF Analysis
<1> HIDE DEF found
<1>3. ASSUME NEW c \in found.cycles
      PROVE  /\ Len(c) > 1 /\ Head(c) = Last(c)
             /\ \A i \in 1..(Len(c) - 1) :
                   \E e \in Range(overlay.edges) : e.source = c[i] /\ e.target = c[i + 1]
  <2>1. IsLoop(overlay.edges, c)
    BY <1>1, <1>2, <1>3
  <2>2. c \in Seq(Nat) /\ Len(c) > 1 /\ c[1] = c[Len(c)]
    BY <2>1 DEF IsLoop
  <2>3. Head(c) = c[1] /\ Last(c) = c[Len(c)]
    BY <2>2 DEF Last
  <2>4. QED
    BY <2>1, <2>2, <2>3 DEF IsLoop, Arc
<1>4. QED
  BY <1>1, <1>2, <1>3 DEF CyclesAreReal, found

\* What is stored names cells, and no node of it reaches itself.
LEMMA StoredHolds ==
    ASSUME NEW cells \in SUBSET Nat, NEW input \in Overlay, AddOverlay(cells, input).stored
    PROVE  LET stored == AddOverlay(cells, input)
           IN  /\ stored.nodes \in Seq(Nat) /\ stored.edges \in Seq(Link)
               /\ NodesOf(stored) \subseteq cells /\ IsDag(stored)
<1> DEFINE refs == Range(input.nodes) \cup UNION {{e.source, e.target} : e \in Range(input.edges)}
           nodes == [i \in DOMAIN input.nodes |-> Resolved(cells, input.nodes[i])]
           edges == [i \in DOMAIN input.edges |->
                       [input.edges[i] EXCEPT !.source = Resolved(cells, @), !.target = Resolved(cells, @)]]
           candidate == [stored |-> TRUE, nodes |-> nodes, edges |-> edges]
           stored == AddOverlay(cells, input)
<1>1. ~(\E ref \in refs : Resolved(cells, ref) \notin cells) /\ IsDag(candidate) /\ stored = candidate
  <2>1. stored = IF (\E ref \in refs : Resolved(cells, ref) \notin cells) \/ ~IsDag(candidate) THEN Refused
                 ELSE candidate
    BY Zenon DEF AddOverlay
  <2>2. ~Refused.stored
    BY DEF Refused
  <2> HIDE DEF refs, candidate
  <2>3. QED
    BY <2>1, <2>2
<1>2. stored.nodes = nodes /\ stored.edges = edges /\ IsDag(stored)
  <2> HIDE DEF nodes, edges, stored
  <2>1. candidate.nodes = nodes /\ candidate.edges = edges
    OBVIOUS
  <2>2. QED
    BY <1>1, <2>1, Zenon
<1> HIDE DEF stored
<1>3. input.nodes \in Seq(Nat) /\ input.edges \in Seq(Link)
  BY DEF Overlay
<1> DEFINE n == Len(input.nodes)
           m == Len(input.edges)
<1>4. /\ n \in Nat /\ DOMAIN input.nodes = 1..n /\ m \in Nat /\ DOMAIN input.edges = 1..m
      /\ \A i \in 1..n : input.nodes[i] \in refs
      /\ \A i \in 1..m : /\ input.edges[i] \in Link
                         /\ input.edges[i].source \in refs /\ input.edges[i].target \in refs
  <2>1. n \in Nat /\ DOMAIN input.nodes = 1..n
    BY <1>3
  <2>2. /\ m \in Nat /\ DOMAIN input.edges = 1..m
        /\ \A i \in 1..m : input.edges[i] \in Link /\ input.edges[i] \in Range(input.edges)
    BY <1>3, LinksShape
  <2>3. \A i \in 1..n : input.nodes[i] \in Range(input.nodes)
    <3> HIDE DEF n
    <3> QED BY <2>1 DEF Range
  <2> HIDE DEF n, m
  <2>4. QED
    BY <2>1, <2>2, <2>3
<1> HIDE DEF refs, n, m
<1>5. \A i \in 1..n : nodes[i] \in cells
  BY <1>1, <1>4
<1>6. \A i \in 1..m : edges[i] \in Link /\ edges[i].source \in cells /\ edges[i].target \in cells
  <2>1. SUFFICES ASSUME NEW i \in 1..m
                 PROVE  edges[i] \in Link /\ edges[i].source \in cells /\ edges[i].target \in cells
    OBVIOUS
  <2>2. Resolved(cells, input.edges[i].source) \in cells /\ Resolved(cells, input.edges[i].target) \in cells
    BY <1>1, <1>4
  <2>3. edges[i] = [input.edges[i] EXCEPT !.source = Resolved(cells, @), !.target = Resolved(cells, @)]
    BY <1>4
  <2> HIDE DEF edges
  <2>4. QED
    BY <1>4, <2>2, <2>3 DEF Link
<1>7. DOMAIN nodes = 1..n /\ DOMAIN edges = 1..m
  BY <1>4
<1>8. nodes \in [1..n -> cells] /\ edges \in [1..m -> Link]
  BY <1>4, <1>5, <1>6
<1> HIDE DEF nodes, edges
<1>9. nodes \in Seq(Nat) /\ edges \in Seq(Link)
  <2>1. nodes \in [1..n -> Nat]
    BY <1>7, <1>8
  <2>2. QED
    BY <1>4, <1>8, <2>1, FunctionIsSeq
<1>10. NodesOf(stored) \subseteq cells
  <2>1. Range(nodes) \subseteq cells
    BY <1>5, <1>7 DEF Range
  <2>2. \A e \in Range(edges) : e.source \in cells /\ e.target \in cells
    BY <1>6, <1>7 DEF Range
  <2>3. QED
    BY <1>2, <2>1, <2>2 DEF NodesOf
<1>11. QED
  BY <1>2, <1>9, <1>10 DEF stored

\* Fewer edges close no more loops, and nodes without edges none.
LEMMA AcyclicMore ==
    ASSUME NEW few, NEW less, IsGraph(few, less), NEW nodes, NEW edges, IsGraph(nodes, edges), less \subseteq edges,
           Acyclic(nodes, edges)
    PROVE  Acyclic(few, less)
<1>1. SUFFICES ASSUME NEW x \in few
               PROVE  x \notin Beyond(few, less, x)
  BY AcyclicIs
<1>2. Beyond(few, less, x) \subseteq Beyond(nodes, edges, x)
  <2>1. \A e \in less : e.source = x \/ e.source \in Beyond(nodes, edges, x) => e.target \in Beyond(nodes, edges, x)
    BY BeyondHolds
  <2>2. QED
    BY <2>1, BeyondHolds
<1>3. x \notin Beyond(nodes, edges, x)
  <2>1. Beyond(nodes, edges, x) \subseteq nodes
    BY BeyondHolds
  <2>2. QED
    BY <2>1, AcyclicIs
<1>4. QED
  BY <1>2, <1>3

\* A sequence of some is a sequence of more.
LEMMA WiderSeq ==
    ASSUME NEW S, NEW T, S \subseteq T, NEW s \in Seq(S)
    PROVE  s \in Seq(T)
<1>1. Len(s) \in Nat /\ s \in [1..Len(s) -> S]
  OBVIOUS
<1> DEFINE n == Len(s)
<1> HIDE DEF n
<1>2. n \in Nat /\ s \in [1..n -> T]
  BY <1>1 DEF n
<1>3. QED
  BY <1>2, FunctionIsSeq

\* A finite set is listed once each.
LEMMA SetListed ==
    ASSUME NEW S, IsFiniteSet(S)
    PROVE  SetToSeq(S) \in Seq(S) /\ Range(SetToSeq(S)) = S
<1> DEFINE n == Cardinality(S)
           f == SetToSeq(S)
<1>1. n \in Nat /\ \E g : g \in Bijection(1..n, S)
  BY FS_CardinalityType DEF ExistsBijection
<1>2. \E g \in [1..n -> S] : IsInjective(g)
  BY <1>1 DEF Bijection, Injection, IsInjective
<1>3. f \in [1..n -> S] /\ IsInjective(f)
  BY <1>2 DEF SetToSeq
<1> HIDE DEF f
<1>4. f \in Injection(1..n, S)
  BY <1>3 DEF Injection, IsInjective
<1>5. Cardinality(1..n) = n
  BY <1>1, FS_Interval
<1>6. f \in Surjection(1..n, S)
  BY <1>4, <1>5, FS_Injection
<1>7. Range(f) = S
  BY <1>3, <1>6 DEF Surjection, Range
<1> HIDE DEF n
<1>8. QED
  BY <1>1, <1>3, <1>7, FunctionIsSeq DEF f

\* What the eval follows, and what it finds of it.
LEMMA FollowedHolds ==
    ASSUME NEW active \in Seq(Nat), NEW edges \in Seq(Link)
    PROVE  LET keys    == Range(Examined(active))
               between == {e \in Range(edges) : e.label = "depends_on" /\ {e.source, e.target} \subseteq keys}
           IN  /\ IsGraph(keys, between) /\ keys \subseteq Range(active)
               /\ DependsOnAcyclic(active, edges) <=> Acyclic(keys, between)
<1> DEFINE roots == Examined(active)
           keys == Range(roots)
           between == {e \in Range(edges) : e.label = "depends_on" /\ {e.source, e.target} \subseteq keys}
           at == {i \in DOMAIN edges : /\ edges[i].label = "depends_on"
                                       /\ {edges[i].source, edges[i].target} \subseteq keys}
           followed == Followed(keys, edges)
<1>1. roots \in Seq(Nat) /\ keys \subseteq Range(active) /\ IsFiniteSet(keys)
  <2>1. roots \in Seq(Nat) /\ keys \subseteq Range(active)
    BY FirstFewHolds, ExaminedAssumption DEF Examined
  <2> HIDE DEF roots
  <2>2. QED
    BY <2>1, RangeIsFinite
<1>2. DependsOnAcyclic(active, edges) <=> CyclesFrom(followed, roots) = <<>>
  BY DEF DependsOnAcyclic
<1> HIDE DEF roots, keys
<1>3. /\ followed \in Seq(Link)
      /\ \A x : x \in Range(followed) <=> \E i \in 1..Len(edges) : i \in at /\ x = edges[i]
  <2> HIDE DEF at
  <2>1. followed = Kept(edges, at)
    BY DEF Followed, at
  <2> HIDE DEF followed
  <2>2. QED
    BY <2>1, KeptHolds
<1> HIDE DEF followed
<1>4. Range(followed) = between
  <2>1. DOMAIN edges = 1..Len(edges) /\ \A e : e \in Range(edges) <=> \E i \in 1..Len(edges) : e = edges[i]
    BY LinksShape
  <2>2. QED
    BY <1>3, <2>1
<1>5. IsGraph(keys, between)
  BY <1>1 DEF IsGraph
<1> HIDE DEF between
<1>6. CyclesFrom(followed, roots) = <<>> <=> Acyclic(keys, between)
  <2>1. IsGraph(Range(roots), Range(followed))
    BY <1>4, <1>5 DEF keys
  <2>2. QED
    BY <1>1, <1>3, <1>4, <2>1, CyclesHold DEF keys
<1>7. QED
  BY <1>1, <1>2, <1>5, <1>6 DEF between, keys, roots

\* The eval finds the cycles between the cells it examines, and no others.
LEMMA EvalHolds ==
    ASSUME NEW active \in Seq(Nat), NEW edges \in Seq(Link)
    PROVE  EvalFindsCycles(active, edges)
<1> DEFINE Among(keys) == {e \in Range(edges) : e.label = "depends_on" /\ {e.source, e.target} \subseteq keys}
           few == Range(Examined(active))
           all == Range(active)
<1>1. /\ IsGraph(few, Among(few)) /\ few \subseteq all
      /\ DependsOnAcyclic(active, edges) <=> Acyclic(few, Among(few))
  BY FollowedHolds
<1>2. IsGraph(all, Among(all))
  BY RangeIsFinite DEF IsGraph
<1>3. Among(few) \subseteq Among(all)
  BY <1>1
<1> HIDE DEF Among, few, all
<1>4. Acyclic(all, Among(all)) => Acyclic(few, Among(few))
  BY <1>1, <1>2, <1>3, AcyclicMore
<1>5. Acyclic(few, Among(few)) \in BOOLEAN /\ DependsOnAcyclic(active, edges) \in BOOLEAN
  BY DEF Acyclic, DependsOnAcyclic
<1>6. DependsOnAcyclic(active, edges) = Acyclic(few, Among(few))
  BY <1>1, <1>5
<1>7. QED
  BY <1>1, <1>4, <1>6 DEF EvalFindsCycles, Among, few, all

\* What is stored has no cycle, neither as an overlay nor for the eval.
LEMMA StoredAcyclic ==
    ASSUME NEW cells \in SUBSET Nat, IsFiniteSet(cells), NEW input \in Overlay
    PROVE  StoredIsAcyclic(cells, input)
<1> DEFINE stored == AddOverlay(cells, input)
           nodes == NodesOf(stored)
           edges == stored.edges
<1>1. SUFFICES ASSUME stored.stored
               PROVE  /\ nodes \subseteq cells /\ Acyclic(nodes, Range(edges))
                      /\ EdgeTargetsResolve(SetToSeq(cells), cells, edges)
                      /\ DependsOnAcyclic(SetToSeq(cells), edges)
  BY DEF StoredIsAcyclic
<1>2. stored.nodes \in Seq(Nat) /\ edges \in Seq(Link) /\ nodes \subseteq cells /\ IsDag(stored)
  BY <1>1, StoredHolds
<1> HIDE DEF stored
<1>3. IsGraph(nodes, Range(edges)) /\ Acyclic(nodes, Range(edges))
  BY <1>2, ListedNodes, OverlayOrder
<1>4. EdgeTargetsResolve(SetToSeq(cells), cells, edges)
  <2>1. \A e \in Range(edges) : e.target \in cells
    BY <1>2, <1>3 DEF IsGraph
  <2> HIDE DEF edges
  <2>2. QED
    BY <2>1 DEF EdgeTargetsResolve, Dangling, Resolved
<1> HIDE DEF nodes, edges
<1>5. DependsOnAcyclic(SetToSeq(cells), edges)
  <2> DEFINE active == SetToSeq(cells)
             keys == Range(Examined(active))
             between == {e \in Range(edges) : e.label = "depends_on" /\ {e.source, e.target} \subseteq keys}
  <2>0. active \in Seq(Nat)
    <3>1. active \in Seq(cells)
      BY SetListed
    <3> HIDE DEF active
    <3>2. QED
      BY <3>1, WiderSeq
  <2> HIDE DEF active
  <2>1. IsGraph(keys, between) /\ (DependsOnAcyclic(active, edges) <=> Acyclic(keys, between))
    BY <1>2, <2>0, FollowedHolds
  <2>2. between \subseteq Range(edges)
    OBVIOUS
  <2> HIDE DEF between, keys
  <2>3. QED
    BY <1>3, <2>1, <2>2, AcyclicMore DEF active
<1>6. QED
  BY <1>2, <1>3, <1>4, <1>5

\* No cycle is stored, and the eval fails exactly for a cell of the examined
\* ones that depends on itself among them (CyclesAreRefused), for any overlay,
\* whatever cells are active and however many of them are examined.
THEOREM ReadingFilings == Spec => []CyclesAreRefused
<1>1. Asked => CyclesAreRefused
  <2>1. SUFFICES ASSUME Asked, About("filing")
                 PROVE  /\ StoredIsAcyclic(Cells, question.input)
                        /\ \A active \in SetToAllKPermutations(Cells) :
                              EvalFindsCycles(active, question.input.edges)
    BY DEF CyclesAreRefused
  <2>2. question.input \in Filings
    BY <2>1 DEF Asked, About, Raised
  <2>3. question.input \in Overlay /\ Cells \in SUBSET Nat /\ IsFiniteSet(Cells)
    BY <2>2, OverlaysAssumption
  <2>4. question.input.edges \in Seq(Link)
    BY <2>3 DEF Overlay
  <2>5. ASSUME NEW active \in SetToAllKPermutations(Cells)
        PROVE  EvalFindsCycles(active, question.input.edges)
    <3>1. PICK some \in SUBSET Cells : active \in [1..Cardinality(some) -> some]
      BY DEF SetToAllKPermutations, SetToSeqs
    <3>2. Cardinality(some) \in Nat
      BY <2>3, FS_Subset, FS_CardinalityType
    <3>3. active \in [1..Cardinality(some) -> Nat]
      BY <2>3, <3>1
    <3>4. active \in Seq(Nat)
      BY <3>2, <3>3, FunctionIsSeq
    <3>5. QED
      BY <2>4, <3>4, EvalHolds
  <2>6. QED
    BY <2>3, <2>5, StoredAcyclic
<1>2. QED
  BY <1>1, AlwaysAsked, PTL

-----------------------------------------------------------------------------
(* Overlays: the paths between two nodes *)

SeenOn(edges, from, path) == {from} \cup {edges[path[i]].target : i \in DOMAIN path}
EndOf(edges, from, path)  == IF path = <<>> THEN from ELSE edges[path[Len(path)]].target
OnOf(edges, from, path) ==
    {i \in DOMAIN edges : /\ edges[i].source = EndOf(edges, from, path)
                          /\ edges[i].target \notin SeenOn(edges, from, path)}
Longer(edges, from, set) == set \cup UNION {{Append(p, i) : i \in OnOf(edges, from, p)} : p \in set}

PathsTo(edges, from, h) ==
    /\ PathsFrom(edges, from) = h[MaxDepth] /\ h[0] = {<<>>}
    /\ \A i \in 1..MaxDepth : h[i] = Longer(edges, from, h[i - 1])

\* A longer path is one of before, or one of them and an edge that goes on.
LEMMA LongerStays ==
    ASSUME NEW edges \in Seq(Link), NEW from, NEW set \in SUBSET Seq(1..Len(edges))
    PROVE  /\ Longer(edges, from, set) \in SUBSET Seq(1..Len(edges))
           /\ \A q : q \in Longer(edges, from, set) <=>
                        q \in set \/ \E p \in set : \E i \in OnOf(edges, from, p) : q = Append(p, i)
<1>1. \A q : q \in Longer(edges, from, set) <=>
                q \in set \/ \E p \in set : \E i \in OnOf(edges, from, p) : q = Append(p, i)
  BY DEF Longer
<1>2. \A p : OnOf(edges, from, p) \subseteq 1..Len(edges)
  BY LinksShape DEF OnOf
<1>3. ASSUME NEW p \in set, NEW i \in OnOf(edges, from, p)
      PROVE  Append(p, i) \in Seq(1..Len(edges))
  BY <1>2
<1>4. \A q \in Longer(edges, from, set) : q \in Seq(1..Len(edges))
  <2>1. SUFFICES ASSUME NEW q \in Longer(edges, from, set)
                 PROVE  q \in Seq(1..Len(edges))
    OBVIOUS
  <2>2. CASE q \in set
    BY <2>2
  <2>3. CASE q \notin set
    <3>1. PICK p \in set : \E i \in OnOf(edges, from, p) : q = Append(p, i)
      BY <1>1, <2>1, <2>3
    <3>2. QED
      BY <1>3, <3>1
  <2>4. QED
    BY <2>2, <2>3
<1>5. QED
  BY <1>1, <1>4

\* The paths exist as a function of how long they may be.
LEMMA PathsRecursion ==
    ASSUME NEW edges \in Seq(Link), NEW from
    PROVE  \E h : PathsTo(edges, from, h)
<1> DEFINE n == MaxDepth
           S == SUBSET Seq(1..Len(edges))
           step == [x \in S \X (1..n) |-> Longer(edges, from, x[1])]
           Fits(h) == h = [i \in 0..n |-> IF i = 0 THEN {<<>>} ELSE Longer(edges, from, h[i - 1])]
           out == CHOOSE h : Fits(h)
<1>0. n \in Nat
  BY DEF MaxDepth
<1>7. PathsFrom(edges, from) = out[n]
  BY DEF PathsFrom, Longer, OnOf, SeenOn, EndOf
<1> HIDE DEF n
<1>1. step \in [S \X (1..n) -> S]
  BY LongerStays
<1>2. {<<>>} \in S
  OBVIOUS
<1> HIDE DEF S
<1>3. PICK h : h \in [0..n -> S] /\ h[0] = {<<>>} /\ \A i \in 1..n : h[i] = step[<<h[i - 1], i>>]
  <2> HIDE DEF step
  <2>1. \E h : Follows(S, {<<>>}, n, step, h)
    BY <1>0, <1>1, <1>2, Recursion
  <2>2. QED
    BY <2>1 DEF Follows
<1>4. ASSUME NEW i \in 0..n
      PROVE  h[i] = IF i = 0 THEN {<<>>} ELSE Longer(edges, from, h[i - 1])
  <2>1. CASE i = 0
    BY <1>3, <2>1
  <2>2. CASE i # 0
    <3>1. i \in 1..n /\ h[i - 1] \in S
      BY <1>0, <1>3, <2>2
    <3>2. step[<<h[i - 1], i>>] = Longer(edges, from, h[i - 1])
      BY <3>1
    <3> HIDE DEF step
    <3>3. QED
      BY <1>3, <2>2, <3>1, <3>2
  <2>3. QED
    BY <2>1, <2>2
<1> HIDE DEF step
<1>5. Fits(h)
  BY <1>3, <1>4
<1>6. Fits(out)
  <2> HIDE DEF Fits
  <2> QED BY <1>5
<1> HIDE DEF out
<1>8. \A i \in 0..n : out[i] = IF i = 0 THEN {<<>>} ELSE Longer(edges, from, out[i - 1])
  BY <1>6
<1>9. out[0] = {<<>>} /\ \A i \in 1..n : out[i] = Longer(edges, from, out[i - 1])
  <2>1. 0 \in 0..n /\ \A i \in 1..n : i \in 0..n /\ i # 0
    BY <1>0
  <2>2. QED
    BY <1>8, <2>1, Zenon
<1>10. QED
  BY <1>7, <1>9 DEF PathsTo, n

\* A trail from a node: each edge begins where the one before it ends.
Trail(edges, from, t) ==
    /\ t \in Seq(1..Len(edges)) /\ (t # <<>> => edges[t[1]].source = from)
    /\ \A i \in 1..(Len(t) - 1) : edges[t[i]].target = edges[t[i + 1]].source

\* Every node of a trail reaches where the trail goes on to.
LEMMA TrailAhead ==
    ASSUME NEW nodes, NEW edges \in Seq(Link), IsGraph(nodes, Range(edges)), NEW from, NEW t,
           Trail(edges, from, t), NEW m \in 1..Len(t)
    PROVE  /\ edges[t[m]].target \in nodes
           /\ edges[t[m]].target \in Beyond(nodes, Range(edges), from)
           /\ \A j \in 1..(m - 1) : edges[t[m]].target \in Beyond(nodes, Range(edges), edges[t[j]].target)
<1> DEFINE Tip(k) == edges[t[k]].target
           R(x) == Beyond(nodes, Range(edges), x)
           n == Len(t)
           Good(k) == Tip(k) \in R(from) /\ \A j \in 1..(k - 1) : Tip(k) \in R(Tip(j))
           T == {k \in Nat : k + 1 <= n => Good(k + 1)}
<1>1. /\ n \in Nat /\ \A k \in 1..n : t[k] \in 1..Len(edges)
      /\ n # 0 => edges[t[1]].source = from
      /\ \A k \in 1..(n - 1) : Tip(k) = edges[t[k + 1]].source
  <2>1. t \in Seq(1..Len(edges)) /\ (t # <<>> => edges[t[1]].source = from)
    BY DEF Trail
  <2>2. n \in Nat /\ (n # 0 => t # <<>>) /\ \A k \in 1..n : t[k] \in 1..Len(edges)
    BY <2>1
  <2>3. \A k \in 1..(n - 1) : Tip(k) = edges[t[k + 1]].source
    BY DEF Trail
  <2>4. QED
    BY <2>1, <2>2, <2>3
<1>2. \A k \in 1..n : edges[t[k]] \in Range(edges)
  BY <1>1, LinksShape
<1>3. \A x : \A e \in Range(edges) : e.source = x \/ e.source \in R(x) => e.target \in R(x)
  BY BeyondHolds
<1>4. \A k \in 1..n : Tip(k) \in nodes
  BY <1>2 DEF IsGraph
<1> HIDE DEF R, n
<1>5. 0 \in T
  <2>1. SUFFICES ASSUME 0 + 1 <= n
                 PROVE  Good(0 + 1)
    BY DEF T
  <2>2. Tip(1) \in R(from)
    BY <1>1, <1>2, <1>3, <2>1
  <2> HIDE DEF Tip
  <2>3. QED
    BY <2>2
<1>6. ASSUME NEW k \in Nat, k \in T
      PROVE  k + 1 \in T
  <2>1. SUFFICES ASSUME (k + 1) + 1 <= n
                 PROVE  Good((k + 1) + 1)
    <3> HIDE DEF Good
    <3> QED BY DEF T
  <2> DEFINE a == k + 1
             b == (k + 1) + 1
  <2>2. a \in 1..(n - 1) /\ a + 1 = b /\ b \in 1..n /\ b = a + 1 /\ a \in Nat
    BY <1>1, <2>1
  <2>3. Good(a)
    <3> HIDE DEF Good
    <3> QED BY <1>1, <1>6, <2>1
  <2> HIDE DEF a, b
  <2>4. edges[t[b]] \in Range(edges) /\ edges[t[b]].source = Tip(a)
    BY <1>1, <1>2, <2>2
  <2>5. \A x : Tip(a) = x \/ Tip(a) \in R(x) => Tip(b) \in R(x)
    BY <1>3, <2>4
  <2> HIDE DEF Tip
  <2>6. ASSUME NEW j \in 1..(b - 1)
        PROVE  Tip(b) \in R(Tip(j))
    <3>1. j = a \/ j \in 1..(a - 1)
      BY <2>2
    <3>2. QED
      BY <2>3, <2>5, <3>1
  <2>7. Good(b)
    BY <2>3, <2>5, <2>6
  <2>8. QED
    BY <2>7 DEF b
<1>7. Good(m)
  <2>1. Nat \subseteq T
    <3> HIDE DEF T
    <3> QED BY <1>5, <1>6, Induction
  <2>2. PICK k \in Nat : k + 1 = m
    <3>1. m - 1 \in Nat /\ (m - 1) + 1 = m
      OBVIOUS
    <3>2. QED
      BY <3>1
  <2> HIDE DEF Good
  <2>3. k \in T /\ k + 1 <= n
    BY <1>1, <2>1, <2>2 DEF n
  <2>4. QED
    BY <2>2, <2>3
<1>8. QED
  BY <1>4, <1>7 DEF R, n

\* In an acyclic graph the simple paths are the trails: none comes back.
LEMMA PathsAreTrails ==
    ASSUME NEW nodes, NEW edges \in Seq(Link), IsGraph(nodes, Range(edges)), Acyclic(nodes, Range(edges)),
           NEW from
    PROVE  \A t : t \in PathsFrom(edges, from) <=> Trail(edges, from, t) /\ Len(t) <= MaxDepth
<1> DEFINE n == MaxDepth
           D == 1..Len(edges)
           Upto(k) == {t \in Seq(D) : Trail(edges, from, t) /\ Len(t) <= k}
<1>1. PICK h : PathsTo(edges, from, h)
  BY PathsRecursion
<1>2. PathsFrom(edges, from) = h[n] /\ h[0] = {<<>>} /\ \A i \in 1..n : h[i] = Longer(edges, from, h[i - 1])
  BY <1>1 DEF PathsTo
<1>3. n \in Nat
  BY DEF MaxDepth
<1> HIDE DEF n
<1> DEFINE T == {k \in Nat : k <= n => h[k] = Upto(k)}
<1>4. 0 \in T
  <2>1. Trail(edges, from, <<>>)
    BY DEF Trail
  <2>2. \A t \in Seq(D) : Len(t) <= 0 => t = <<>>
    OBVIOUS
  <2>3. Upto(0) = {<<>>}
    <3>1. <<>> \in Seq(D) /\ Len(<<>>) <= 0
      OBVIOUS
    <3> HIDE DEF D
    <3>2. QED
      BY <2>1, <2>2, <3>1
  <2> HIDE DEF Upto
  <2>4. QED
    BY <1>2, <2>3
<1>5. ASSUME NEW k \in Nat, k \in T
      PROVE  k + 1 \in T
  <2>1. SUFFICES ASSUME k + 1 <= n
                 PROVE  h[k + 1] = Upto(k + 1)
    <3> HIDE DEF Upto
    <3> QED BY DEF T
  <2>2. k + 1 \in 1..n /\ h[k] = Upto(k) /\ h[k + 1] = Longer(edges, from, h[(k + 1) - 1]) /\ (k + 1) - 1 = k
    <3> HIDE DEF Upto
    <3>1. k + 1 \in 1..n /\ (k + 1) - 1 = k /\ k <= n
      BY <1>3, <2>1
    <3>2. QED
      BY <1>2, <1>5, <3>1
  <2>3. h[k + 1] = Longer(edges, from, Upto(k))
    <3> HIDE DEF Upto
    <3> QED BY <2>2
  <2>4. \A q : q \in Longer(edges, from, Upto(k)) <=>
                  q \in Upto(k) \/ \E p \in Upto(k) : \E i \in OnOf(edges, from, p) : q = Append(p, i)
    <3>1. Upto(k) \in SUBSET Seq(1..Len(edges))
      OBVIOUS
    <3> HIDE DEF Upto
    <3>2. QED
      BY <3>1, LongerStays
  <2>5. ASSUME NEW p \in Upto(k), NEW i \in OnOf(edges, from, p)
        PROVE  Append(p, i) \in Upto(k + 1)
    <3>1. p \in Seq(D) /\ Trail(edges, from, p) /\ Len(p) \in Nat /\ Len(p) <= k
      BY <2>5
    <3>2. i \in D /\ edges[i].source = EndOf(edges, from, p)
      BY <2>5, LinksShape DEF OnOf
    <3> DEFINE q == Append(p, i)
               m == Len(p)
    <3>3. /\ q \in Seq(D) /\ Len(q) = m + 1 /\ q[m + 1] = i
          /\ \A j \in 1..m : q[j] = p[j]
      BY <3>1, <3>2
    <3> HIDE DEF q, m
    <3>4. q # <<>> => edges[q[1]].source = from
      <4>1. CASE m = 0
        <5>1. p = <<>>
          BY <3>1, <4>1 DEF m
        <5>2. QED
          BY <3>2, <3>3, <4>1, <5>1 DEF EndOf
      <4>2. CASE m # 0
        <5>1. p # <<>> /\ 1 \in 1..m
          BY <3>1, <4>2 DEF m
        <5>2. QED
          BY <3>1, <3>3, <5>1 DEF Trail
      <4>3. QED
        BY <4>1, <4>2
    <3>5. ASSUME NEW j \in 1..(Len(q) - 1)
          PROVE  edges[q[j]].target = edges[q[j + 1]].source
      <4>0. m \in Nat /\ j \in 1..m
        BY <3>1, <3>3 DEF m
      <4>1. CASE j = m
        <5>1. p # <<>>
          BY <3>1, <4>0 DEF m
        <5>2. edges[i].source = edges[p[m]].target
          BY <3>2, <5>1 DEF EndOf, m
        <5>3. QED
          BY <3>3, <4>0, <4>1, <5>2
      <4>2. CASE j \in 1..(m - 1)
        <5>1. j + 1 \in 1..m
          BY <4>0, <4>2
        <5>2. edges[p[j]].target = edges[p[j + 1]].source
          BY <3>1, <4>2 DEF Trail, m
        <5>3. QED
          BY <3>3, <4>0, <5>1, <5>2
      <4>3. QED
        BY <4>0, <4>1, <4>2
    <3>6. Trail(edges, from, q)
      BY <3>3, <3>4, <3>5 DEF Trail
    <3>7. q \in Upto(k + 1)
      BY <3>1, <3>3, <3>6 DEF m
    <3>8. QED
      BY <3>7 DEF q
  <2>6. ASSUME NEW q \in Upto(k + 1), q \notin Upto(k)
        PROVE  \E p \in Upto(k) : \E i \in OnOf(edges, from, p) : q = Append(p, i)
    <3>1. q \in Seq(D) /\ Trail(edges, from, q) /\ Len(q) = k + 1
      BY <2>6
    <3> DEFINE p == SubSeq(q, 1, k)
               i == q[k + 1]
    <3>2. /\ p \in Seq(D) /\ Len(p) = k /\ i \in D /\ q = Append(p, i)
          /\ \A j \in 1..k : p[j] = q[j]
      BY <3>1
    <3> HIDE DEF p, i
    <3>3. Trail(edges, from, p)
      <4>1. p # <<>> => 1 \in 1..k
        BY <3>2
      <4>2. ASSUME NEW j \in 1..(Len(p) - 1)
            PROVE  edges[p[j]].target = edges[p[j + 1]].source
        <5>1. j \in 1..k /\ j + 1 \in 1..k /\ j \in 1..(Len(q) - 1)
          BY <3>1, <3>2
        <5>2. QED
          BY <3>1, <3>2, <5>1 DEF Trail
      <4>3. q # <<>>
        BY <3>1
      <4>4. QED
        BY <3>1, <3>2, <4>1, <4>2, <4>3 DEF Trail
    <3>4. edges[i].source = EndOf(edges, from, p)
      <4>1. CASE k = 0
        <5>1. p = <<>>
          BY <3>2, <4>1
        <5>2. q # <<>>
          BY <3>1
        <5>3. k + 1 = 1
          BY <4>1
        <5>4. i = q[1]
          BY <5>3 DEF i
        <5>5. QED
          BY <3>1, <5>1, <5>2, <5>4 DEF Trail, EndOf
      <4>2. CASE k # 0
        <5>1. k \in 1..(Len(q) - 1) /\ p # <<>>
          BY <3>1, <3>2, <4>2
        <5>2. QED
          BY <3>1, <3>2, <4>2, <5>1 DEF Trail, EndOf, i
      <4>3. QED
        BY <4>1, <4>2
    <3>5. edges[i].target \notin SeenOn(edges, from, p)
      <4> DEFINE R(x) == Beyond(nodes, Range(edges), x)
                 x == edges[i].target
      <4>1. k + 1 \in 1..Len(q) /\ (k + 1) - 1 = k
        BY <3>1
      <4>2. x \in nodes /\ x \in R(from) /\ \A j \in 1..k : x \in R(edges[q[j]].target)
        <5>1. /\ edges[q[k + 1]].target \in nodes
              /\ edges[q[k + 1]].target \in Beyond(nodes, Range(edges), from)
              /\ \A j \in 1..((k + 1) - 1) : edges[q[k + 1]].target \in Beyond(nodes, Range(edges), edges[q[j]].target)
          BY <3>1, <4>1, TrailAhead
        <5>2. QED
          BY <4>1, <5>1 DEF i
      <4>3. x \notin R(x)
        BY <4>2, AcyclicIs
      <4> HIDE DEF R, x
      <4>4. x # from /\ \A j \in 1..k : x # edges[p[j]].target
        BY <3>2, <4>2, <4>3
      <4>5. DOMAIN p = 1..k
        BY <3>2
      <4>6. QED
        BY <4>4, <4>5 DEF SeenOn, x
    <3>6. p \in Upto(k) /\ i \in OnOf(edges, from, p)
      BY <3>2, <3>3, <3>4, <3>5, LinksShape DEF OnOf
    <3>7. QED
      BY <3>2, <3>6
  <2>7. Upto(k) \subseteq Upto(k + 1)
    OBVIOUS
  <2> HIDE DEF Upto, D
  <2>8. \A q \in Longer(edges, from, Upto(k)) : q \in Upto(k + 1)
    <3>1. SUFFICES ASSUME NEW q \in Longer(edges, from, Upto(k)), q \notin Upto(k)
                   PROVE  q \in Upto(k + 1)
      BY <2>7
    <3>2. PICK p \in Upto(k) : \E i \in OnOf(edges, from, p) : q = Append(p, i)
      BY <2>4, <3>1
    <3>3. QED
      BY <2>5, <3>2
  <2>9. \A q \in Upto(k + 1) : q \in Longer(edges, from, Upto(k))
    BY <2>4, <2>6
  <2>10. QED
    BY <2>3, <2>8, <2>9
<1>6. h[n] = Upto(n)
  <2>1. n \in T
    <3> HIDE DEF T
    <3> QED BY <1>3, <1>4, <1>5, Induction
  <2> HIDE DEF Upto
  <2>2. QED
    BY <1>3, <2>1
<1>7. QED
  BY <1>2, <1>6 DEF Trail, n

\* There are only so many lists of numbers up to n that are no longer than k.
ListsUpto(n, k) == {t \in Seq(1..n) : Len(t) <= k}

\* Each list one longer is a list and a number.
LEMMA ListsAreFinite ==
    ASSUME NEW n \in Nat, NEW most \in Nat
    PROVE  IsFiniteSet(ListsUpto(n, most))
<1> DEFINE F(k) == ListsUpto(n, k)
           T == {k \in Nat : IsFiniteSet(F(k))}
<1>1. 0 \in T
  <2>1. \A t \in Seq(1..n) : Len(t) <= 0 => t = <<>>
    OBVIOUS
  <2>2. F(0) \subseteq {<<>>}
    BY <2>1 DEF ListsUpto
  <2>3. IsFiniteSet({<<>>})
    BY FS_Singleton
  <2> HIDE DEF F
  <2>4. QED
    BY <2>2, <2>3, FS_Subset
<1>2. ASSUME NEW k \in Nat, k \in T
      PROVE  k + 1 \in T
  <2> DEFINE A == F(k)
             B == F(k + 1)
             P2 == A \X (0..n)
             f == [x \in P2 |-> IF x[2] = 0 THEN x[1] ELSE Append(x[1], x[2])]
  <2>1. IsFiniteSet(A) /\ IsFiniteSet(0..n)
    <3> HIDE DEF A, F
    <3>1. IsFiniteSet(F(k))
      BY <1>2
    <3>2. QED
      BY <3>1, FS_Interval DEF A
  <2>2. IsFiniteSet(P2)
    <3> HIDE DEF A
    <3> QED BY <2>1, FS_Product
  <2>3. ASSUME NEW a \in A, NEW i \in 0..n
        PROVE  <<a, i>> \in P2 /\ f[<<a, i>>] = IF i = 0 THEN a ELSE Append(a, i)
    <3> HIDE DEF A
    <3> QED OBVIOUS
  <2>4. ASSUME NEW a \in A, NEW i \in 0..n
        PROVE  (IF i = 0 THEN a ELSE Append(a, i)) \in B
    <3>1. a \in Seq(1..n) /\ Len(a) \in Nat /\ Len(a) <= k
      BY DEF ListsUpto
    <3>2. CASE i = 0
      BY <3>1, <3>2 DEF ListsUpto
    <3>3. CASE i # 0
      <4>1. i \in 1..n
        BY <3>3
      <4>2. Append(a, i) \in Seq(1..n) /\ Len(Append(a, i)) = Len(a) + 1
        BY <3>1, <4>1
      <4>3. QED
        BY <3>1, <3>3, <4>2 DEF ListsUpto
    <3>4. QED
      BY <3>2, <3>3
  <2>5. ASSUME NEW b \in B
        PROVE  \E a \in A : \E i \in 0..n : b = IF i = 0 THEN a ELSE Append(a, i)
    <3>1. b \in Seq(1..n) /\ Len(b) \in Nat /\ Len(b) <= k + 1
      BY DEF ListsUpto
    <3>2. CASE Len(b) <= k
      <4>1. b \in A
        BY <3>1, <3>2 DEF ListsUpto
      <4> HIDE DEF A
      <4>2. QED
        BY <4>1
    <3>3. CASE Len(b) = k + 1
      <4> DEFINE a == SubSeq(b, 1, k)
                 i == b[k + 1]
      <4>1. a \in Seq(1..n) /\ Len(a) = k /\ i \in 1..n /\ b = Append(a, i)
        BY <3>1, <3>3
      <4> HIDE DEF a, i
      <4>2. a \in A /\ i \in 0..n /\ i # 0
        BY <4>1 DEF ListsUpto
      <4> HIDE DEF A
      <4>3. QED
        BY <4>1, <4>2
    <3>4. QED
      BY <3>1, <3>2, <3>3
  <2> HIDE DEF A, B
  <2>6. f \in [P2 -> B]
    <3>1. ASSUME NEW x \in P2
          PROVE  f[x] \in B
      <4>1. PICK a \in A, i \in 0..n : x = <<a, i>>
        OBVIOUS
      <4> HIDE DEF f
      <4>2. QED
        BY <2>3, <2>4, <4>1
    <3> HIDE DEF P2
    <3>2. QED
      BY <3>1
  <2>7. \A b \in B : \E x \in P2 : f[x] = b
    <3> HIDE DEF f, P2
    <3>1. SUFFICES ASSUME NEW b \in B
                   PROVE  \E x \in P2 : f[x] = b
      OBVIOUS
    <3>2. PICK a \in A : \E i \in 0..n : b = IF i = 0 THEN a ELSE Append(a, i)
      BY <2>5
    <3>3. PICK i \in 0..n : b = IF i = 0 THEN a ELSE Append(a, i)
      BY <3>2
    <3>4. <<a, i>> \in P2 /\ f[<<a, i>>] = b
      BY <2>3, <3>3
    <3>5. QED
      BY <3>4
  <2>8. f \in Surjection(P2, B)
    <3> HIDE DEF f, P2
    <3> QED BY <2>6, <2>7 DEF Surjection
  <2>9. IsFiniteSet(B)
    <3> HIDE DEF f, P2
    <3> QED BY <2>2, <2>8, FS_Surjection
  <2>10. QED
    <3>1. IsFiniteSet(F(k + 1))
      BY <2>9 DEF B
    <3> HIDE DEF F
    <3>2. QED
      BY <3>1
<1>3. Nat \subseteq T
  <2> HIDE DEF T
  <2> QED BY <1>1, <1>2, Induction
<1> HIDE DEF F
<1>4. QED
  BY <1>3 DEF F

\* More than one: two that differ.
LEMMA Several ==
    ASSUME NEW S, IsFiniteSet(S)
    PROVE  Cardinality(S) > 1 <=> \E a, b \in S : a # b
<1>1. Cardinality(S) \in Nat
  BY FS_CardinalityType
<1>2. Cardinality(S) = 0 <=> S = {}
  BY FS_EmptySet
<1>3. Cardinality(S) = 1 <=> \E x : S = {x}
  BY FS_Singleton
<1>4. CASE \E a, b \in S : a # b
  <2>1. Cardinality(S) # 0 /\ Cardinality(S) # 1
    BY <1>2, <1>3, <1>4
  <2>2. QED
    BY <1>1, <1>4, <2>1
<1>5. CASE ~\E a, b \in S : a # b
  <2>1. S = {} \/ \E x : S = {x}
    BY <1>5
  <2>2. Cardinality(S) = 0 \/ Cardinality(S) = 1
    BY <1>2, <1>3, <2>1, Zenon
  <2>3. ~(Cardinality(S) > 1)
    BY <1>1, <2>2
  <2>4. QED
    BY <1>5, <2>3
<1>6. QED
  BY <1>4, <1>5

\* The paths from one node to another, what they say, and the witnesses.
PathsOf(edges, from, to) ==
    {p \in PathsFrom(edges, from) : p # <<>> /\ edges[p[Len(p)]].target = to}
SignsOf(edges, from, to) == {Signature(edges, p) : p \in PathsOf(edges, from, to)}
StoryOf(edges, from, to) ==
    [from |-> from, to |-> to, signatures |-> SignsOf(edges, from, to),
     paths |-> Cardinality(PathsOf(edges, from, to)),
     concern |-> <<Cardinality(SignsOf(edges, from, to)), Max({2, Cardinality(PathsOf(edges, from, to))})>>]

\* A witness is the story of two nodes that more than one signature connects.
LEMMA WitnessesAre ==
    ASSUME NEW overlay
    PROVE  \A w : w \in Witnesses(overlay) <=>
              \E from, to \in NodesOf(overlay) :
                 /\ w = StoryOf(overlay.edges, from, to)
                 /\ Cardinality(SignsOf(overlay.edges, from, to)) > 1
<1>1. \A from, to : /\ StoryOf(overlay.edges, from, to).signatures = SignsOf(overlay.edges, from, to)
  BY Zenon DEF StoryOf
<1>2. Witnesses(overlay) =
        {w \in {StoryOf(overlay.edges, from, to) : from \in NodesOf(overlay), to \in NodesOf(overlay)} :
           Cardinality(w.signatures) > 1}
  BY DEF Witnesses, StoryOf, SignsOf, PathsOf
<1>3. QED
  BY <1>1, <1>2

\* What two nodes are witnessed for: two paths that say different things.
LEMMA SignsDiffer ==
    ASSUME NEW nodes, NEW edges \in Seq(Link), IsGraph(nodes, Range(edges)), Acyclic(nodes, Range(edges)),
           NEW from, NEW to
    PROVE  Cardinality(SignsOf(edges, from, to)) > 1 <=>
              \E p, q \in PathsOf(edges, from, to) : Signature(edges, p) # Signature(edges, q)
<1> DEFINE paths == PathsOf(edges, from, to)
           signs == SignsOf(edges, from, to)
           f == [p \in paths |-> Signature(edges, p)]
<1>1. IsFiniteSet(paths)
  <2>1. Len(edges) \in Nat /\ MaxDepth \in Nat
    BY LinksShape DEF MaxDepth
  <2>2. \A p \in paths : p \in Seq(1..Len(edges)) /\ Len(p) <= MaxDepth
    BY PathsAreTrails DEF PathsOf, Trail
  <2>3. paths \subseteq ListsUpto(Len(edges), MaxDepth)
    BY <2>2 DEF ListsUpto
  <2> HIDE DEF paths
  <2>4. QED
    BY <2>1, <2>3, ListsAreFinite, FS_Subset
<1>2. signs = {Signature(edges, p) : p \in paths}
  BY DEF SignsOf
<1> HIDE DEF paths, signs
<1>3. f \in Surjection(paths, signs)
  BY <1>2 DEF Surjection
<1> HIDE DEF f
<1>4. IsFiniteSet(signs)
  BY <1>1, <1>3, FS_Surjection
<1>5. Cardinality(signs) > 1 <=> \E a, b \in signs : a # b
  BY <1>4, Several
<1>6. (\E a, b \in signs : a # b) <=> \E p, q \in paths : Signature(edges, p) # Signature(edges, q)
  BY <1>2
<1>7. QED
  BY <1>5, <1>6 DEF paths, signs

\* The trails of a graph, of up to six edges, by the nodes they lead from and to.
TrailsOf(edges) ==
    {t \in SeqOf(DOMAIN edges, MaxDepth) \ {<<>>} :
        \A i \in 1..(Len(t) - 1) : edges[t[i]].target = edges[t[i + 1]].source}
ApartOf(edges) ==
    {p \in TrailsOf(edges) \X TrailsOf(edges) :
        /\ edges[Head(p[1])].source = edges[Head(p[2])].source
        /\ edges[Last(p[1])].target = edges[Last(p[2])].target
        /\ Signature(edges, p[1]) # Signature(edges, p[2])}

\* The paths from a node to another are the trails between them.
LEMMA TrailsAre ==
    ASSUME NEW nodes, NEW edges \in Seq(Link), IsGraph(nodes, Range(edges)), Acyclic(nodes, Range(edges))
    PROVE  /\ \A t \in TrailsOf(edges) : edges[Head(t)].source \in nodes /\ edges[Last(t)].target \in nodes
           /\ \A from, to : \A t : t \in PathsOf(edges, from, to) <=>
                 t \in TrailsOf(edges) /\ edges[Head(t)].source = from /\ edges[Last(t)].target = to
<1> DEFINE D == 1..Len(edges)
<1>1. DOMAIN edges = D /\ \A i \in D : edges[i].source \in nodes /\ edges[i].target \in nodes
  BY LinksShape DEF IsGraph
<1>2. \A t : t \in SeqOf(D, MaxDepth) <=> t \in Seq(D) /\ Len(t) <= MaxDepth
  <2> HIDE DEF D
  <2>1. MaxDepth \in Nat
    BY DEF MaxDepth
  <2>2. ASSUME NEW t \in SeqOf(D, MaxDepth)
        PROVE  t \in Seq(D) /\ Len(t) <= MaxDepth
    <3>1. PICK m \in 0..MaxDepth : t \in [1..m -> D]
      BY DEF SeqOf
    <3>2. m \in Nat /\ m <= MaxDepth
      BY <2>1
    <3>3. t \in Seq(D)
      BY <3>1, <3>2, FunctionIsSeq
    <3>4. Len(t) = m
      BY <3>1, <3>2, <3>3
    <3>5. QED
      BY <3>2, <3>3, <3>4
  <2>3. ASSUME NEW t \in Seq(D), Len(t) <= MaxDepth
        PROVE  t \in SeqOf(D, MaxDepth)
    <3>1. Len(t) \in 0..MaxDepth /\ t \in [1..Len(t) -> D]
      BY <2>1, <2>3
    <3>2. QED
      BY <3>1 DEF SeqOf
  <2>4. QED
    BY <2>2, <2>3
<1>3. \A t \in Seq(D) : t # <<>> => /\ Head(t) = t[1] /\ Last(t) = t[Len(t)]
                                    /\ t[1] \in D /\ t[Len(t)] \in D
  <2> HIDE DEF D
  <2> QED BY DEF Last
<1>4. \A t : t \in TrailsOf(edges) <=>
                /\ t \in Seq(D) /\ Len(t) <= MaxDepth /\ t # <<>>
                /\ \A i \in 1..(Len(t) - 1) : edges[t[i]].target = edges[t[i + 1]].source
  <2> HIDE DEF D
  <2> QED BY <1>1, <1>2 DEF TrailsOf
<1>5. ASSUME NEW from, NEW to, NEW t
      PROVE  t \in PathsOf(edges, from, to) <=>
                t \in TrailsOf(edges) /\ edges[Head(t)].source = from /\ edges[Last(t)].target = to
  <2>1. t \in PathsOf(edges, from, to) <=>
           Trail(edges, from, t) /\ Len(t) <= MaxDepth /\ t # <<>> /\ edges[t[Len(t)]].target = to
    BY PathsAreTrails DEF PathsOf
  <2>2. Trail(edges, from, t) <=>
           /\ t \in Seq(D) /\ (t # <<>> => edges[t[1]].source = from)
           /\ \A i \in 1..(Len(t) - 1) : edges[t[i]].target = edges[t[i + 1]].source
    BY DEF Trail
  <2> HIDE DEF D
  <2>3. QED
    BY <1>3, <1>4, <2>1, <2>2
<1> HIDE DEF D
<1>6. QED
  BY <1>1, <1>3, <1>4, <1>5

\* Trails are apart if they connect the same nodes and say different things.
LEMMA ApartAre ==
    ASSUME NEW edges
    PROVE  \A p : p \in ApartOf(edges) <=>
              \E s, t \in TrailsOf(edges) :
                 /\ p = <<s, t>> /\ edges[Head(s)].source = edges[Head(t)].source
                 /\ edges[Last(s)].target = edges[Last(t)].target
                 /\ Signature(edges, s) # Signature(edges, t)
BY DEF ApartOf

\* What is witnessed is what two trails that say different things connect.
LEMMA WitnessesReal ==
    ASSUME NEW overlay, overlay.nodes \in Seq(Nat), overlay.edges \in Seq(Link)
    PROVE  WitnessesAreReal(overlay)
<1> DEFINE edges == overlay.edges
           nodes == NodesOf(overlay)
           found == Analysis(overlay)
           pairs == {<<w.from, w.to>> : w \in found.witnesses}
           ends  == {<<edges[Head(p[1])].source, edges[Last(p[1])].target>> : p \in ApartOf(edges)}
<1>1. edges \in Seq(Link) /\ IsGraph(nodes, Range(edges))
  BY ListedNodes
<1>2. /\ IsDag(overlay) <=> Acyclic(nodes, Range(edges))
  BY OverlayOrder
<1>3. /\ found.isDag = IsDag(overlay)
      /\ found.witnesses = IF IsDag(overlay) THEN Witnesses(overlay) ELSE {}
      /\ found.cycles = IF IsDag(overlay) THEN {} ELSE Cycles(overlay)
  BY DEF Analysis
<1>4. \A w : w \in Witnesses(overlay) <=>
         \E from, to \in nodes : w = StoryOf(edges, from, to) /\ Cardinality(SignsOf(edges, from, to)) > 1
  BY WitnessesAre
<1>5. \A from, to : StoryOf(edges, from, to).from = from /\ StoryOf(edges, from, to).to = to
  BY Zenon DEF StoryOf
<1> HIDE DEF edges, nodes, found
<1>6. ASSUME found.isDag
      PROVE  pairs = ends
  <2>1. Acyclic(nodes, Range(edges)) /\ found.witnesses = Witnesses(overlay)
    BY <1>2, <1>3, <1>6
  <2>2. /\ \A t \in TrailsOf(edges) : edges[Head(t)].source \in nodes /\ edges[Last(t)].target \in nodes
        /\ \A from, to : \A t : t \in PathsOf(edges, from, to) <=>
              t \in TrailsOf(edges) /\ edges[Head(t)].source = from /\ edges[Last(t)].target = to
    BY <1>1, <2>1, TrailsAre
  <2>3. \A from, to : Cardinality(SignsOf(edges, from, to)) > 1 <=>
           \E p, q \in PathsOf(edges, from, to) : Signature(edges, p) # Signature(edges, q)
    BY <1>1, <2>1, SignsDiffer
  <2>4. ASSUME NEW from \in nodes, NEW to \in nodes,
               NEW p \in PathsOf(edges, from, to), NEW q \in PathsOf(edges, from, to),
               Signature(edges, p) # Signature(edges, q)
        PROVE  <<from, to>> \in ends
    <3>1. /\ p \in TrailsOf(edges) /\ edges[Head(p)].source = from /\ edges[Last(p)].target = to
          /\ q \in TrailsOf(edges) /\ edges[Head(q)].source = from /\ edges[Last(q)].target = to
      BY <2>2
    <3>2. <<p, q>> \in ApartOf(edges)
      BY <2>4, <3>1, ApartAre
    <3>3. <<p, q>>[1] = p
      OBVIOUS
    <3>4. QED
      BY <3>1, <3>2, <3>3
  <2>5. ASSUME NEW s \in TrailsOf(edges), NEW t \in TrailsOf(edges),
               edges[Head(s)].source = edges[Head(t)].source,
               edges[Last(s)].target = edges[Last(t)].target,
               Signature(edges, s) # Signature(edges, t)
        PROVE  <<edges[Head(s)].source, edges[Last(s)].target>> \in pairs
    <3> DEFINE from == edges[Head(s)].source
               to == edges[Last(s)].target
    <3>1. from \in nodes /\ to \in nodes
      BY <2>2
    <3>2. s \in PathsOf(edges, from, to) /\ t \in PathsOf(edges, from, to)
      BY <2>2, <2>5
    <3> HIDE DEF from, to
    <3>3. StoryOf(edges, from, to) \in found.witnesses
      BY <1>4, <2>1, <2>3, <2>5, <3>1, <3>2
    <3>4. <<from, to>> \in pairs
      BY <1>5, <3>3
    <3>5. QED
      BY <3>4 DEF from, to
  <2>6. pairs \subseteq ends
    <3>1. SUFFICES ASSUME NEW w \in found.witnesses
                   PROVE  <<w.from, w.to>> \in ends
      OBVIOUS
    <3>2. PICK from \in nodes, to \in nodes :
             w = StoryOf(edges, from, to) /\ Cardinality(SignsOf(edges, from, to)) > 1
      BY <1>4, <2>1, <3>1
    <3>3. PICK p \in PathsOf(edges, from, to), q \in PathsOf(edges, from, to) :
             Signature(edges, p) # Signature(edges, q)
      BY <2>3, <3>2
    <3> HIDE DEF ends
    <3>4. <<from, to>> \in ends
      BY <2>4, <3>3
    <3>5. QED
      BY <1>5, <3>2, <3>4
  <2>7. ends \subseteq pairs
    <3>1. SUFFICES ASSUME NEW p \in ApartOf(edges)
                   PROVE  <<edges[Head(p[1])].source, edges[Last(p[1])].target>> \in pairs
      OBVIOUS
    <3>2. PICK s \in TrailsOf(edges), t \in TrailsOf(edges) :
             /\ p = <<s, t>> /\ edges[Head(s)].source = edges[Head(t)].source
             /\ edges[Last(s)].target = edges[Last(t)].target
             /\ Signature(edges, s) # Signature(edges, t)
      BY <3>1, ApartAre
    <3>3. p[1] = s
      BY <3>2
    <3> HIDE DEF pairs
    <3>4. QED
      BY <2>5, <3>2, <3>3
  <2>8. QED
    BY <2>6, <2>7
<1>7. ASSUME NEW f \in Filed(found)
      PROVE  f.concerns \subseteq nodes
  <2>1. \A w \in found.witnesses : w.from \in nodes /\ w.to \in nodes
    BY <1>3, <1>4, <1>5
  <2>2. \A c \in found.cycles : Range(c) \subseteq nodes
    BY <1>3, CyclesShape DEF nodes
  <2>3. \/ f.concerns = {}
        \/ \E w \in found.witnesses : f.concerns = {w.from, w.to}
        \/ \E c \in found.cycles : f.concerns = Range(c)
    BY DEF Filed
  <2>4. QED
    BY <2>1, <2>2, <2>3
<1>8. QED
  BY <1>6, <1>7 DEF WitnessesAreReal, ApartOf, TrailsOf, found, edges, nodes

\* What is said of an overlay is true of it (OverlaysAreRight), for any
\* overlay: whether it is a DAG, its order, its cycles, the nodes where trails
\* with different labels meet, and what is filed of all this.
THEOREM ReadingOverlays == Spec => []OverlaysAreRight
<1>1. Asked => OverlaysAreRight
  <2>1. SUFFICES ASSUME Asked, About("overlay")
                 PROVE  /\ OrderIsRight(question.overlay)
                        /\ CyclesAreReal(question.overlay)
                        /\ WitnessesAreReal(question.overlay)
    BY DEF OverlaysAreRight
  <2>2. question.overlay \in Graphs
    BY <2>1 DEF Asked, About, Raised
  <2>3. question.overlay \in Overlay
    BY <2>2, OverlaysAssumption
  <2>4. question.overlay.nodes \in Seq(Nat) /\ question.overlay.edges \in Seq(Link)
    BY <2>3 DEF Overlay
  <2>5. QED
    BY <2>4, OrderHolds, CyclesReal, WitnessesReal
<1>2. QED
  BY <1>1, AlwaysAsked, PTL
=============================================================================
