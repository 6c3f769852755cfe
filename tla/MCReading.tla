------------------------------ MODULE MCReading ------------------------------
(* Small arguments for each of the questions.                               *)
EXTENDS Reading

MCToday == 100

(* Overlays of three nodes with up to three edges, and cells 1 to 3, whose *)
(* handles are 11 to 13.                                                   *)
MCCells == 1..3
Edges(nodes, labels) == [source : nodes, target : nodes, label : labels]
UpTo(n, edges) == UNION {[1..k -> edges] : k \in 0..n}
MCGraphs == {[nodes |-> <<3, 1>>, edges |-> es] : es \in UpTo(3, Edges(MCCells, {"r"}))}
            \cup {[nodes |-> <<1>>, edges |-> es] : es \in UpTo(2, Edges(MCCells, {"r", "s"}))}
MCFilings == {[nodes |-> ns, edges |-> es] :
                ns \in {<<1, 12>>, <<4>>}, es \in UpTo(2, Edges({1, 2, 11, 12}, {"depends_on"}))}
             \cup {[nodes |-> <<>>, edges |-> es] :
                es \in UpTo(3, [source : {1, 2, 3, 13}, target : {2, 3}, label : {"depends_on"}])}

(* Two graphs of up to two cells, whose keys share a prefix and whose       *)
(* handles look like keys.                                                  *)
Key(graph, core) == [graph |-> graph, core |-> core]
Shelf(key, handle, edges, score) ==
    [key |-> key, handle |-> handle, status |-> "active", edges |-> edges, score |-> score]
One == {{}} \cup {{Shelf(Key(Bare, <<1, 1, 1>>), <<9, s>>, es, s)} :
                    s \in {1, 2}, es \in {{}, {[relation |-> "supports", target |-> Key(Bare, <<1, 1, 2>>)]}}}
Two == {{}} \cup {{Shelf(Key(g, <<1, 1, 2>>), <<9, 1>>, {}, s)} : g \in {Bare, "old"}, s \in {NoMatch, 0, 3}}
StoresOf(g) == {[graph |-> g, cells |-> a \cup b, bundles |-> bs] :
                  a \in One, b \in Two,
                  bs \in {{}, {[id |-> 1, members |-> {Key(Bare, <<1, 1, 2>>)}, at |-> 1]}}}
MCUnions     == {<<x, y>> : x \in StoresOf("home"), y \in StoresOf("app")}
MCReferences == {Key(g, c) : g \in {Bare, "home", "app"}, c \in {<<1>>, <<1, 1>>, <<1, 1, 2>>, <<9, 1>>}}

(* Four cells, a line of readings of which the third has another project.  *)
NoTags == [f \in Families |-> {}]
Reading4(k, status, updated, topics, lineage) ==
    [status |-> status, kind |-> IF k % 2 = 1 THEN "bel" ELSE "obs", project |-> IF k = 3 THEN "p2" ELSE "p1",
     createdAt |-> ISO(10 * k), updatedAt |-> updated,
     tags |-> [NoTags EXCEPT !.topics = topics, !.lifecycle = IF k = 2 THEN {"handoff"} ELSE {},
                             !.entities = IF k = 1 THEN {"e"} ELSE {}],
     lineage |-> lineage, supersedes |-> SelectSeq(lineage, LAMBDA a : a # 9),
     value |-> IF k = 2 THEN NoValue ELSE (7 * k) % 5, words |-> {k, 7}]
Offset == [text |-> 48, parses |-> TRUE, at |-> 42]   \* a later text of an earlier time
Row(k, states, topics) ==
    {Reading4(k, s, u, t, <<IF k = 1 THEN 9 ELSE k - 1>>) :
        s \in states, t \in topics,
        u \in {ISO(10 * k), ISO(42 + k)} \cup (IF k = 2 THEN {Offset} ELSE {})}
MCTables  == LET states == {"active", "superseded"}
             IN  {<<a, b, c, d>> : a \in Row(1, states, {{}, {"x"}}), b \in Row(2, states, {{}, {"x"}}),
                                   c \in Row(3, states, {{"x"}}), d \in Row(4, {"active"}, {{}})}
MCFilters == {[kinds |-> ks, project |-> p, since |-> s, limit |-> 2, tags |-> [NoTags EXCEPT !.topics = t]] :
                ks \in {{}, {"bel"}}, p \in {"any", "p1"}, s \in {{}, {ISO(20)}, {ISO(43)}, {Offset}, {[Offset EXCEPT !.parses = FALSE]}}, t \in {{}, {"x"}}}
MCIndexes == {<<>>} \cup [{2} -> Backends]

(* Six cells that support, contradict, depend on and guard one another.     *)
Edge(r, t) == [relation |-> r, target |-> t]
Usual == [status |-> "active", kind |-> "bel", edges |-> <<>>, conf |-> 60, effective |-> 60,
          uncertainty |-> 40, concern |-> 0, origin |-> "llm", producer |-> "a", signed |-> FALSE,
          unverified |-> FALSE, quality |-> 50, updatedAt |-> 90, stability |-> "stable", expires |-> 0,
          reverify |-> 0, review |-> FALSE, refs |-> <<>>, programs |-> <<>>, wellFormed |-> FALSE, match |-> 0]
Believed == {[Usual EXCEPT !.match = 5, !.edges = es] :
               es \in {<<Edge("contradicts", 2)>>, <<>>,
                       <<Edge("depends_on", 3), Edge("supports", 4), Edge("concerns", 2)>>}}
Doubted  == {[Usual EXCEPT !.match = m, !.effective = 10, !.programs = <<5, 6>>, !.refs = <<1, 0, 3>>,
                           !.updatedAt = 20, !.edges = <<Edge("supports", 9)>>] : m \in {0, 3}}
Overdue  == {[Usual EXCEPT !.kind = "tsk", !.status = s, !.reverify = 95, !.stability = "volatile",
                           !.updatedAt = 10, !.match = 2,
                           !.edges = <<Edge("concerns", 1), Edge("derived_from", 5)>>] :
               s \in {"active", "superseded"}}
Busy     == {[Usual EXCEPT !.kind = kd, !.match = m, !.expires = 50, !.review = TRUE,
                           !.edges = <<Edge("depends_on", 1), Edge("depends_on", 2), Edge("depends_on", 3),
                                       Edge("supports", 1), Edge("supports", 2), Edge("concerns", 1),
                                       Edge("contradicts", 2)>>] : kd \in {"rsk", "ref"}, m \in {0, 4}}
Guard    == {[Usual EXCEPT !.kind = "prg", !.wellFormed = w, !.unverified = TRUE, !.quality = 10,
                           !.edges = <<Edge("supports", 6)>>] : w \in BOOLEAN}
Guess    == {[Usual EXCEPT !.kind = "hyp", !.stability = "ephemeral", !.edges = es] :
               es \in {<<>>, <<Edge("contradicts", 3)>>}}
MCMemories == {<<a, b, c, d, e, f>> : a \in Believed, b \in Doubted, c \in Overdue, d \in Busy,
                                      e \in Guard, f \in Guess}
MCRequests == {[limit |-> l, depth |-> d, budget |-> b, conflicts |-> TRUE, parameters |-> TRUE,
                health |-> h, actions |-> h] : l \in {2, 5}, d \in {1, 9}, b \in {20, 200}, h \in BOOLEAN}

(* Four beliefs, one of them superseded, that bear on one another.          *)
Bears(r, t, w) == [relation |-> r, target |-> t, weight |-> w]
Bearings(k) == {<<>>} \cup {<<Bears("supports", t, 80)>> : t \in (1..4) \ {k}}
               \cup {<<Bears("contradicts", t, -100)>> : t \in {(k % 4) + 1}}
               \cup {<<Bears("supports", (k % 4) + 1, 80), Bears("contradicts", ((k + 1) % 4) + 1, -100)>>}
Scored(k, edges) ==
    [status |-> IF k = 4 THEN "superseded" ELSE "active", conf |-> 30 + 15 * k, calibration |-> 90,
     effective |-> 50, currencyC0 |-> 100, currency |-> 80, salienceSeed |-> 50, salience |-> 50,
     updatedAt |-> 10 * k, salientAt |-> IF k = 2 THEN 50 ELSE 0,
     stability |-> IF k = 3 THEN "ephemeral" ELSE "volatile", pinned |-> k = 1,
     producer |-> IF k = 2 THEN "b" ELSE "a", edges |-> edges]
MCBeliefs == {<<Scored(1, a), Scored(2, b), Scored(3, c), Scored(4, d)>> :
                a \in Bearings(1), b \in Bearings(2), c \in Bearings(3), d \in Bearings(4)}

(* Lines of every form, with texts of up to three characters, and netlists *)
(* of up to three lines.                                                    *)
Titles == UNION {[1..n -> {Quote, Backslash, Hash, Newline, LetterN}] : n \in 0..3}
Config(k, v) == [key |-> k, value |-> v]
MCLines ==
    {[form |-> "cell", handle |-> "c1", title |-> t, fields |-> <<[field |-> "conf", number |-> 3]>>] : t \in Titles}
    \cup {[form |-> "body", title |-> t] : t \in Titles}
    \cup {[form |-> "wire", signal |-> "eff", target |-> "c1", direction |-> d, inputs |-> i] :
            d \in {"none", "<", ">"}, i \in {<<>>, <<"in">>}}
    \cup {[form |-> "edge", sourced |-> b, source |-> IF b THEN "c1" ELSE "none", relation |-> "supports",
           direction |-> d, target |-> "c2", weight |-> 1] : b \in BOOLEAN, d \in {"<", ">"}}
    \cup {[form |-> "set", style |-> s, addr |-> "watch.delta", value |-> "v"] : s \in {"eq", "setp"}}
    \cup {[form |-> "schedule", op |-> "watch", config |-> c] : c \in {<<>>, <<Config("delta", "1")>>}}
Titled(h, t) == [form |-> "cell", handle |-> h, title |-> t, fields |-> <<>>]
Leads(source, relation, target) ==
    [form |-> "edge", sourced |-> source # <<>>, source |-> source, relation |-> relation, target |-> target]
Parts ==
    {Titled(<<"h1">>, <<"n">>), Titled(<<"h2">>, <<"o">>), [form |-> "body", title |-> <<"n", "n">>],
     Leads(<<>>, "supports", <<"old">>), Leads(<<>>, "supersedes", <<"old">>), Leads(<<"h1">>, "supports", <<"lost">>),
     [form |-> "schedule", op |-> "watch", config |-> <<>>],
     [form |-> "schedule", op |-> "watch", config |-> <<Config("delta", "1"), Config("limit", "2")>>],
     [form |-> "schedule", op |-> "derive", config |-> <<>>],
     [form |-> "set", addr |-> <<"param", "watch", "delta">>, value |-> "9"],
     [form |-> "set", addr |-> <<"flag", <<"old">>, "pinned">>, value |-> "true"],
     [form |-> "set", addr |-> <<"flag", <<"old">>, "pinned">>, value |-> "false"],
     [form |-> "wire"]}
MCNetlists == UNION {[1..n -> Parts] : n \in 1..3}

(* Nothing but a cell, and with programs: one, and two of one operation.    *)
Old == [key |-> 1, handle |-> <<"old">>, content |-> << <<"o">>, <<"o">> >>, status |-> "active",
        edges |-> <<>>, flags |-> {}, op |-> "none", params |-> {}]
Watch(k, title) == [Old EXCEPT !.key = k, !.handle = <<"w">>, !.content = << <<title>>, <<title>> >>, !.op = "watch"]
MCLoaded == {<<Old>>, <<Old, Watch(2, "w1")>>, <<Watch(1, "w1"), [Old EXCEPT !.key = 2], Watch(3, "w2")>>}

(* Programs over two tasks, whose scores change from run to run.            *)
Task(k, n) == [key |-> k, effective |-> n, conf |-> n, concern |-> 0, uncertainty |-> k + n,
               topics |-> {}, actor |-> "a", currency |-> n, flags |-> {}, work |-> <<>>]
Members == {{}, {Task(1, 10)}, {Task(1, 10), Task(2, 12)}, {Task(1, 14), Task(2, 4)}}
MCSpecs  == {[schema |-> "recall.program.v1", op |-> "watch", measure |-> m, delta |-> d, window |-> w,
              streak |-> 2, limit |-> l] :
               m \in {"effective", "member_count"}, d \in {1, 300}, w \in {2, 3}, l \in {1, 2}}
MCRounds == UNION {[1..n -> Members] : n \in 1..4}
=============================================================================
