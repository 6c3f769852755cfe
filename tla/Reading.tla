------------------------------- MODULE Reading -------------------------------
(***************************************************************************)
(* The pure parts of the system, each asked one question.  What is read    *)
(* from a store, what is computed of it and what is refused by it depend   *)
(* on the arguments alone, so a behaviour is a single step: a topic is     *)
(* given, a question of it is chosen, and the invariants say what the      *)
(* answer has to be.                                                       *)
(***************************************************************************)
EXTENDS Overlays, Federation, Reads, Packet, Confidence, Netlist

P == INSTANCE Programs

CONSTANTS
    Graphs,        \* overlays: nodes, and edges with labels
    Cells,         \* the keys an overlay may name
    Filings,       \* overlays that name cells by key and by handle
    Unions,        \* sequences of stores
    References,    \* what a caller may call a cell
    Limits,        \* how many hits it may ask for
    Tables,        \* stores that are listed
    Filters,       \* what they are narrowed down to
    Indexes,       \* semantic indexes: keys to backends
    Memories,      \* stores of which a packet is compiled
    Requests,      \* the options of the packet
    Beliefs,       \* stores whose scores are recomputed
    Lines,         \* nodes of a netlist, one by one
    Netlists,      \* netlists
    Loaded,        \* the stores they are loaded into
    Specs,         \* standing programs
    Rounds,        \* the members of a program, run after run
    Today          \* the day all of this happens

ASSUME UnionsAssumption ==
    /\ \A u \in Unions : IsUnion(u)
    /\ \A r \in References : IsKey(r)
    /\ Limits \subseteq Nat

ASSUME OverlaysAssumption ==
    /\ Graphs \subseteq Overlay /\ Filings \subseteq Overlay
    /\ Cells \subseteq Nat /\ IsFiniteSet(Cells)

\* A program says what it measures and how much of it it keeps, and what it
\* measures is a number.
ASSUME ProgramsAssumption ==
    /\ \A s \in Specs : /\ s = [f \in DOMAIN s |-> s[f]]
                        /\ {"op", "measure", "delta", "window", "streak", "limit"} \subseteq DOMAIN s
                        /\ s.window \in Nat \ {0}
    /\ \A r \in Rounds : DOMAIN r = 1..Len(r) /\ Len(r) \in Nat
    /\ \A s \in Specs, r \in Rounds : \A i \in DOMAIN r :
          P!Measured(s.measure, r[i]) \in Int \ {P!None}

\* What is stored of times parses, no cell is older than its last change, and
\* what has a vector is stored.
ASSUME TablesAssumption ==
    /\ Tables \subseteq Seq(Entry) /\ Filters \subseteq Filter
    /\ \A t \in Tables : \A k \in DOMAIN t :
          /\ t[k].createdAt.parses /\ t[k].updatedAt.parses /\ t[k].createdAt.at <= t[k].updatedAt.at
          /\ IsFiniteSet(t[k].words)
    /\ \A t \in Tables, x \in Indexes : DOMAIN x \subseteq DOMAIN t

ASSUME MemoriesAssumption == Memories \subseteq Seq(Cell)

ASSUME BeliefsAssumption == Beliefs \subseteq Seq(Belief)

VARIABLE question

Topics == {"overlay", "filing", "union", "listing", "packet", "belief", "line", "netlist", "program"}

About(topic) == question.of = topic
Raised(topic) == question = [of |-> "nothing", topic |-> topic]

Init == \E topic \in Topics : Raised(topic)

AskOverlay == Raised("overlay") /\ \E g \in Graphs  : question' = [of |-> "overlay", overlay |-> g]
AskFiling  == Raised("filing")  /\ \E f \in Filings : question' = [of |-> "filing", input |-> f]
AskUnion   == Raised("union")   /\ \E u \in Unions  : question' = [of |-> "union", union |-> u]
AskListing == Raised("listing") /\ \E t \in Tables  : question' = [of |-> "listing", cells |-> t]
AskPacket  == Raised("packet")  /\ \E m \in Memories, r \in Requests :
                                      question' = [of |-> "packet", cells |-> m, opts |-> r]
AskBelief  == Raised("belief")  /\ \E b \in Beliefs  : question' = [of |-> "belief", cells |-> b]
AskLine    == Raised("line")    /\ \E n \in Lines    : question' = [of |-> "line", node |-> n]
AskNetlist == Raised("netlist") /\ \E n \in Netlists : question' = [of |-> "netlist", nodes |-> n]
AskProgram == Raised("program") /\ \E s \in Specs, r \in Rounds :
                                      question' = [of |-> "program", spec |-> s, rounds |-> r]

Next == \/ AskOverlay \/ AskFiling \/ AskUnion \/ AskListing \/ AskPacket
        \/ AskBelief \/ AskLine \/ AskNetlist \/ AskProgram

Spec == Init /\ [][Next]_question

-----------------------------------------------------------------------------
(* The invariants.  Each asks one thing of an answer, and its parts, which  *)
(* are stated in the modules of the code they are about, what that means   *)
(* for each of the functions that give it.                                 *)

\* What is said of an overlay is true of it: whether it is a DAG, its order,
\* the cycles it is reported to have and the risks that are filed for them,
\* and where paths with different labels meet (analyzeDagOverlay()).
OverlaysAreRight ==
    About("overlay") =>
        /\ OrderIsRight(question.overlay)
        /\ CyclesAreReal(question.overlay)
        /\ WitnessesAreReal(question.overlay)

\* No cycle is stored, however an overlay names its cells (addDagOverlay()),
\* and the eval finds those that depends_on edges form between the first active
\* cells, and reports no other (dependsOnAcyclic()).
CyclesAreRefused ==
    About("filing") =>
        /\ StoredIsAcyclic(Cells, question.input)
        /\ \A active \in SetToAllKPermutations(Cells) : EvalFindsCycles(active, question.input.edges)

\* Several graphs read as one: what they show is what its key and a prefix of
\* it lead to, and a search loses no hit to the cut of a single graph
\* (FederatedReadStore, resolveCell()).
UnionsReadAsOne ==
    About("union") =>
        /\ ExpandsTo(question.union)
        /\ \A r \in References : PrefixMeansOne(question.union, r)
        /\ \A l \in Limits : MergeKeepsBest(question.union, l)

\* The ways to select cells agree where times are written in one form: by SQL
\* and by hand (subgraphCells()), from the cells of a project and from all
\* (getRecallPage()), and by what changed since a day (diffStore()).
SelectionsAgree ==
    About("listing") => \A f \in Filters :
        /\ SubgraphPathsAgree(question.cells, f)
        /\ PageSeedsAgree(question.cells, f)
        /\ ChangesAgree(question.cells, f)

\* What is looked up is there: every reading of a lineage in its series
\* (valueSeries()), and after a reindex every cell that says what the query
\* says and was embedded as the query was (reindexSemantic(), semanticSearch()).
LookupsMissNothing ==
    About("listing") =>
        /\ \A k \in DOMAIN question.cells : SeriesIsWhole(question.cells, k)
        /\ \A x \in Indexes, missing \in BOOLEAN, b \in Backends :
              \A embedded \in [DOMAIN question.cells -> Backends] :
                 IndexCovers(question.cells, x, missing, embedded, b)

\* A belief is under pressure exactly if a challenge of it is reported, as far
\* as the cells go that are looked at for challenges (analyzeMemory()).
PressureIsReported == About("packet") => PressureIsFound(question.cells, Today)

\* A packet tells all it can: the graph around its hits up to its depth
\* (walkAuthoredGraph()), and, however small its budget, what challenges them;
\* it is only over its budget if nothing else can be taken out (trimPacket()).
PacketsTellAll ==
    About("packet") => PacketTellsAll(question.cells, question.opts, Today)

\* Scores hold still: repeated ticks come to rest and never compound a decay
\* (tick(), recompute()), and no actor gains by being corrected
\* (calibrationFactor()).
ScoresHold ==
    About("belief") =>
        /\ TickSettles(question.cells, Today)
        /\ \A k \in DOMAIN question.cells :
              /\ NeverCompounds(question.cells, k, Today - 40, Today)
              /\ CorrectionNeverRewards(question.cells, k)

\* A netlist means one graph: its lines parse back to the nodes they were
\* rendered from (parseNetlist()), and loading it again changes nothing, if it
\* says nothing twice and supersedes nothing it declares (loadNetlist()).
NetlistsHold ==
    /\ About("line")    => RenderedParses(question.node)
    /\ About("netlist") => \A s \in Loaded : LoadsOnce(s, question.nodes)

\* A program remembers what it saw, over every history (executeProgram()).
ProgramsRemember == About("program") => P!RunsRemember(question.spec, question.rounds)
=============================================================================
