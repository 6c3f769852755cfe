-------------------------------- MODULE Reads --------------------------------
(***************************************************************************)
(* The read surfaces that list cells: subgraphs (src/src/subgraph.ts),     *)
(* pages (pages.ts), diffs (diff.ts), value series (deltas.ts) and the     *)
(* semantic index (semantic.ts).  None of them writes a cell.              *)
(*                                                                         *)
(* A store is a sequence of cells, the key of a cell is its place in it.   *)
(* A time is a text: its place in the order of texts, whether it parses    *)
(* and to what.  A filter is a record, and a set it asks for that is empty *)
(* asks for nothing.                                                       *)
(***************************************************************************)
EXTENDS Lists, SequencesExt, FiniteSetsExt

Families == {"topics", "entities", "lifecycle", "quality", "subject"}

Time   == [text : Int, parses : BOOLEAN, at : Int]
Entry  == [status : STRING, kind : STRING, project : STRING, createdAt : Time, updatedAt : Time,
           tags : [Families -> SUBSET STRING], lineage : Seq(Nat), supersedes : Seq(Nat),
           value : Int, words : SUBSET Nat]
Filter == [kinds : SUBSET STRING, project : STRING, since : SUBSET Time, limit : Nat,
           tags : [Families -> SUBSET STRING]]

\* toISOString(): such texts are in the order of their times.
ISO(at) == [text |-> at, parses |-> TRUE, at |-> at]
IsISO(time) == time = ISO(time.at)

FirstOnes(s, limit) == SubSeq(s, 1, Min({limit, Len(s)}))
LastOnes(s, limit)  == SubSeq(s, Max({1, Len(s) - limit + 1}), Len(s))

\* Some cells in the order of their keys, and some of those that are listed.
InKeyOrder(cells, these) == Kept([k \in DOMAIN cells |-> k], these)
Those(keys, these)       == Kept(keys, {i \in DOMAIN keys : keys[i] \in these})

LastFirst(cells, keys) == ByRank(keys, [i \in DOMAIN keys |-> cells[keys[i]].updatedAt.at])
KeyFirst(keys)         == ByRank(keys, [i \in DOMAIN keys |-> -keys[i]])

\* Newest first, of equals the smaller key: by the times, and as SQL orders
\* their texts.
NewestFirst(cells, keys) == LastFirst(cells, KeyFirst(keys))
TextsFirst(cells, keys)  ==
    LET sorted == KeyFirst(keys) IN ByRank(sorted, [i \in DOMAIN sorted |-> cells[sorted[i]].updatedAt.text])

SeedByStatus(cells) == InKeyOrder(cells, {k \in DOMAIN cells : cells[k].status = "active"})

-----------------------------------------------------------------------------
(* subgraphCells() *)

HasTagFamilies(filter)           == \E f \in Families : filter.tags[f] # {}
MatchesTagFamilies(cell, filter) == \A f \in Families : filter.tags[f] \subseteq cell.tags[f]

InScope(cell, filter) ==
    /\ filter.project # "any" => cell.project = filter.project
    /\ filter.kinds # {} => cell.kind \in filter.kinds

\* Texts are compared in SQL, and times where a since that does not parse lets
\* everything pass.
SinceText(cell, filter) == \A t \in filter.since : cell.updatedAt.text >= t.text
Since(cell, filter)     == \A t \in filter.since : t.parses => cell.updatedAt.at >= t.at

\* What is asked of SQL: its limit comes before the tags are looked at, and
\* so it is left out where there are any.
ActiveWhere(cells, filter) ==
    TextsFirst(cells, InKeyOrder(cells, {k \in DOMAIN cells :
        cells[k].status = "active" /\ InScope(cells[k], filter) /\ SinceText(cells[k], filter)}))

Tagged(cells, filter, keys) ==
    Those(keys, {k \in DOMAIN cells : MatchesTagFamilies(cells[k], filter)})

LimitFirst(cells, filter) ==   \* mutant
    FirstOnes(Tagged(cells, filter, FirstOnes(ActiveWhere(cells, filter), filter.limit)), filter.limit)
SubgraphBySql(cells, filter) ==
    IF HasTagFamilies(filter)
    THEN FirstOnes(NewestFirst(cells, Tagged(cells, filter, ActiveWhere(cells, filter))), filter.limit)
    ELSE FirstOnes(ActiveWhere(cells, filter), filter.limit)

\* The same over a store without SQL, such as a union of graphs.
SubgraphByHand(cells, filter) ==
    LET candidates == NewestFirst(cells, Those(SeedByStatus(cells),
                          {k \in DOMAIN cells : InScope(cells[k], filter) /\ Since(cells[k], filter)}))
    IN  FirstOnes(IF HasTagFamilies(filter)
                  THEN NewestFirst(cells, Tagged(cells, filter, candidates)) ELSE candidates,
                  filter.limit)

-----------------------------------------------------------------------------
(* getRecallPage() *)

PageKinds == [reflections |-> {"ref"}, objectives |-> {"obj", "tsk", "rsk"},
              workbench |-> {"hyp", "bel", "rsk"}, witnesses |-> {"obs"}, handoffs |-> {"obs"},
              metrics |-> {"ver", "bel"}, profile |-> {"bel"}]

SelectPage(cells, page, keys) ==
    Those(keys, {k \in DOMAIN cells :
        /\ cells[k].kind \in PageKinds[page]
        /\ page = "handoffs" => cells[k].tags.lifecycle \cap {"handoff", "session"} # {}
        /\ page = "profile"  => cells[k].tags.entities # {}})

\* One topic of those asked for is enough here; ties stay as they came.
ApplyFilter(cells, filter, keys) ==
    FirstOnes(LastFirst(cells, Those(keys, {k \in DOMAIN cells :
                  /\ filter.project # "any" => cells[k].project = filter.project
                  /\ filter.tags.topics # {} => cells[k].tags.topics \cap filter.tags.topics # {}
                  /\ Since(cells[k], filter)})),
              filter.limit)

SeedByProject(cells, filter) == ActiveWhere(cells, [filter EXCEPT !.kinds = {}])

RecallPage(cells, page, filter) ==
    ApplyFilter(cells, filter, SelectPage(cells, page,
        IF filter.project # "any" THEN SeedByProject(cells, filter) ELSE SeedByStatus(cells)))

\* buildPageIndex(): how many active cells there are of each kind.
KindCounts(cells) ==
    LET active == SeedByStatus(cells)
    IN  [kind \in {cells[k].kind : k \in Range(active)} |->
            Cardinality({k \in Range(active) : cells[k].kind = kind})]

-----------------------------------------------------------------------------
(* diffStore() *)

\* parseSince(): whatever the form of the time that is asked for, the diff
\* gets it as toISOString() writes it; if it does not parse, there is no diff.
ParseSince(time) == ISO(time.at)

DiffStore(cells, filter, since) ==
    LET scoped   == InKeyOrder(cells, {k \in DOMAIN cells : InScope(cells[k], filter)})
        retired  == {k \in DOMAIN cells : cells[k].status = "superseded"}
        new      == Those(scoped, {k \in DOMAIN cells : cells[k].createdAt.at >= since.at})
        updated  == Those(scoped, {k \in DOMAIN cells : /\ cells[k].createdAt.at < since.at
                                                        /\ cells[k].updatedAt.at >= since.at})
        Event(k) == LET old == Those(cells[k].supersedes, retired)
                    IN  [i \in DOMAIN old |-> [old |-> old[i], new |-> k]]
    IN  [new        |-> FirstOnes(ByRank(new, [i \in DOMAIN new |-> cells[new[i]].createdAt.at]), filter.limit),
         updated    |-> FirstOnes(LastFirst(cells, updated), filter.limit),
         supersedes |-> FirstOnes(FlattenSeq([i \in DOMAIN new |-> Event(new[i])]), filter.limit)]

-----------------------------------------------------------------------------
(* valueSeries() *)

NoValue == -1

\* What is on top of the queue is read, and the ancestors it names are queued.
NextReading(cells, walk) ==
    LET key  == Last(walk.queue)
        rest == Front(walk.queue)
        read == Append(walk.seen, key)
    IN  IF walk.queue = <<>> THEN walk
        ELSE IF key \in Range(walk.seen) THEN [walk EXCEPT !.queue = rest]
        ELSE [seen  |-> read,
              queue |-> rest \o Those(cells[key].lineage, DOMAIN cells \ Range(read))]

\* A cell and every ancestor its lineage leads to: a step for the head, and
\* at most one for each ancestor a cell names.
LineageOf(cells, head) ==
    LET most == 1 + Total([k \in DOMAIN cells |-> Len(cells[k].lineage)])
        walk[n \in 0..most] == IF n = 0 THEN [seen |-> <<>>, queue |-> <<head>>]
                               ELSE NextReading(cells, walk[n - 1])
    IN  walk[most].seen

LineageOfHead(cells, key) ==   \* mutant
    Those(LineageOf(cells, key), {key} \cup Range(cells[key].lineage))
LineageReadings(cells, key) == LineageOf(cells, key)
TopicReadings(cells, topic) == InKeyOrder(cells, {k \in DOMAIN cells : topic \in cells[k].tags.topics})

ValueSeries(cells, keys, limit) ==
    LET valued  == Those(keys, {k \in DOMAIN cells : cells[k].value # NoValue})
        ordered == LastOnes(ByRank(valued, [i \in DOMAIN valued |-> -cells[valued[i]].createdAt.text]), limit)
    IN  [i \in DOMAIN ordered |->
           [key   |-> ordered[i], value |-> cells[ordered[i]].value,
            delta |-> IF i = 1 THEN NoValue ELSE cells[ordered[i]].value - cells[ordered[i - 1]].value]]

-----------------------------------------------------------------------------
(* The semantic index: what a text is embedded by, and how like two        *)
(* embedded texts are.  Backends differ in the length of their vectors,    *)
(* and each call that embeds a text has a backend of its own: one that the *)
(* HTTP backend does not answer falls back to the hash.                    *)

Backends == {"hash", "http"}

Likeness(a, b) == IF a \cup b = {} THEN 0 ELSE (100 * Cardinality(a \cap b)) \div Cardinality(a \cup b)

\* An index is a function from the keys that have a vector to its backend.
IndexCell(index, key, backend) == [k \in DOMAIN index \cup {key} |-> IF k = key THEN backend ELSE index[k]]

\* "embedded" says by which backend the text of a cell was embedded.
Reindex(cells, index, onlyMissing, embedded) ==
    LET upTo[n \in 0..Len(cells)] ==
            IF n = 0 THEN index
            ELSE IF onlyMissing /\ n \in DOMAIN index THEN upTo[n - 1]
            ELSE IndexCell(upTo[n - 1], n, embedded[n])
    IN  upTo[Len(cells)]

\* Whatever has a vector is stored: no cell is ever deleted.
SemanticSearch(cells, index, words, backend, limit, minScore) ==
    LET Score(k) == Likeness(words, cells[k].words)
        near     == InKeyOrder(cells, {k \in DOMAIN index : index[k] = backend /\ Score(k) >= minScore})
    IN  FirstOnes(ByRank(near, [i \in DOMAIN near |-> Score(near[i])]), limit)

-----------------------------------------------------------------------------
(* Properties *)

\* Where all times are written as toISOString() does.  A caller may ask since
\* when in another form, and rows of an old database keep theirs: then a text
\* may come before another that parses to an earlier time.
UpdatesInISO(cells) == \A k \in DOMAIN cells : IsISO(cells[k].updatedAt)
TimesInISO(cells, filter) == UpdatesInISO(cells) /\ \A t \in filter.since : IsISO(t)

\* "Both paths must produce identical results": a subgraph is the same
\* whether SQL or the reader narrows it down, as long as texts and times are
\* in the same order.
SubgraphPathsAgree(cells, filter) ==
    TimesInISO(cells, filter) => SubgraphBySql(cells, filter) = SubgraphByHand(cells, filter)

\* A page that SQL narrows down to a project lists what it would list over
\* all active cells, where times are in this form and no two cells were
\* updated at one time.
PageSeedsAgree(cells, filter) ==
    TimesInISO(cells, filter) /\ (\A k, m \in DOMAIN cells : cells[k].updatedAt = cells[m].updatedAt => k = m) =>
        \A page \in DOMAIN PageKinds :
            RecallPage(cells, page, filter) =
                ApplyFilter(cells, filter, SelectPage(cells, page, SeedByStatus(cells)))

\* The diff and the subgraph agree on what changed since the time that the
\* diff asks for: the active cells of the one are the cells of the other, each
\* of them once.
ChangesAgree(cells, filter) ==
    \A t \in filter.since : t.parses /\ UpdatesInISO(cells) =>
    LET since == ParseSince(t)
        whole == [filter EXCEPT !.limit = Len(cells), !.since = {since}, !.tags = [f \in Families |-> {}]]
        diff  == DiffStore(cells, whole, since)
    IN  /\ {k \in Range(diff.new \o diff.updated) : cells[k].status = "active"} =
             Range(SubgraphBySql(cells, whole))
        /\ IsInjective(diff.new \o diff.updated)

\* A series holds every reading from which its head descends, and the
\* changes it lists add up to the change from its first to its last value.
SeriesIsWhole(cells, key) ==
    LET series   == LineageReadings(cells, key)
        readings == Range(series)
        rows     == ValueSeries(cells, series, Len(cells))
        changes  == Total([i \in 1..(Len(rows) - 1) |-> rows[i + 1].delta])
    IN  /\ key \in readings
        /\ \A k \in readings : \A a \in Range(cells[k].lineage) : a \in DOMAIN cells => a \in readings
        /\ {r.key : r \in Range(rows)} = {k \in readings : cells[k].value # NoValue}
        /\ rows # <<>> => changes = Last(rows).value - Head(rows).value

\* After a reindex every cell has a vector, and a query finds every cell that
\* says the same whose vector came from the backend that embeds the query, and
\* no other.  So it finds all of them if no call fell back and the index was
\* rebuilt or held none of another backend; a cell whose call fell back is
\* missed, and stays so where only missing cells are added.
IndexCovers(cells, index, onlyMissing, embedded, backend) ==
    LET after    == Reindex(cells, index, onlyMissing, embedded)
        Met(k) == k \in Range(SemanticSearch(cells, after, cells[k].words, backend, Len(cells), 0))
        same     == /\ \A k \in DOMAIN cells : embedded[k] = backend
                    /\ ~onlyMissing \/ \A k \in DOMAIN index : index[k] = backend
    IN  /\ DOMAIN after = DOMAIN cells
        /\ \A k \in DOMAIN cells : Met(k) <=> after[k] = backend
        /\ same => \A k \in DOMAIN cells : Met(k)
=============================================================================
