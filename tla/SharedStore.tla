----------------------------- MODULE SharedStore -----------------------------
(***************************************************************************)
(* The processes that share one graph: command line calls, MCP servers,    *)
(* stop hooks and the maintenance pass all open the same SQLite file       *)
(* (src/src/store.ts, src/src/db.ts).  No call is a transaction: every SQL *)
(* statement commits on its own, a cell is written back whole, and put()   *)
(* is a row REPLACE, a DELETE of the cell's edges and one INSERT per edge. *)
(* A step here is one statement that writes, or the reads between two of   *)
(* them; a process may be killed between any two.                          *)
(*                                                                         *)
(* Three calls are modelled: admit() (see Admission for its checks),       *)
(* touchSalience() and the operator's tick().                              *)
(*                                                                         *)
(* Abstracted: an edge names its target by key, another cell than its own  *)
(* (Admission has handles, and cells that name themselves).  Of a score    *)
(* there is the evidence it has counted, and not with what weight: that is *)
(* the confidence of the cells it comes from, which Admission follows to   *)
(* when they were read.                                                    *)
(***************************************************************************)
EXTENDS Naturals

CONSTANTS Procs,        \* the processes
          Keys,         \* keys of cells
          NoKey,        \* not a key: the process is not admitting a cell
          Contents,     \* kind, title and body of a cell, as one value
          TitleOf,      \* the kind and title in it, its content key
          Bundles,      \* ids of hyperedges
          Proposals,    \* what writers may submit
          Calls,        \* the calls processes make
          Overlap,      \* the calls that may run while another of them does
          MaxOps,       \* bound: calls started
          MaxCrashes    \* bound: processes killed

Relations  == {"supports", "contradicts", "depends_on", "supersedes"}
Evidential == {"supports", "contradicts"}
Link       == [rel : Relations, to : Keys]
Edge       == [from : Keys, rel : Relations, to : Keys]
Evidence   == [from : Keys, rel : Evidential]
Proposal   == [content : Contents, links : SUBSET Link, bundles : SUBSET Bundles]

\* A row of the cells table, and the cell a process holds in memory.  The field
\* counted is the evidence its confidence was last computed from.
Row  == [content : Contents, status : {"active", "superseded"},
         lineage : SUBSET Keys, counted : SUBSET Evidence]
Cell == [key : Keys, row : Row, links : SUBSET Link]

ASSUME SharedAssumption ==
    /\ NoKey \notin Keys
    /\ Proposals \subseteq Proposal
    /\ MaxOps \in Nat /\ MaxCrashes \in Nat
    /\ Calls \subseteq {"admit", "touch", "tick"}
    /\ Overlap \subseteq Calls

VARIABLES rows,     \* the cells table
          edges,    \* the edges table
          bundles,  \* the members of each hyperedge
          proc,     \* where each process is, and what it holds in memory
          ops,      \* calls started
          crashes   \* processes killed

vars == <<rows, edges, bundles, proc, ops, crashes>>

-----------------------------------------------------------------------------
(* Reading the store *)

IsActive(k) == rows[k].status = "active"

\* store.get(): the row, then the edges it is the source of.
Read(k) == [key   |-> k,
            row   |-> rows[k],
            links |-> {l \in Link : [from |-> k, rel |-> l.rel, to |-> l.to] \in edges}]

\* Mutant: every relation counts as evidence.
IncomingAny(k) == {[from |-> e.from, rel |-> e.rel] : e \in {x \in edges : x.to = k}}

\* neighborMass(): the evidence stored for k, from cells that exist.
Incoming(k) == {x \in Evidence : /\ x.from \in DOMAIN rows
                                 /\ [from |-> x.from, rel |-> x.rel, to |-> k] \in edges}

\* Mutant: the confidence is written back as it was read.
NotRecounted(k) == Read(k)

\* The cell k, read and with its confidence recomputed.
Recounted(k) == [Read(k) EXCEPT !.row.counted = Incoming(k)]

-----------------------------------------------------------------------------
(* Processes *)

Phases == {"idle", "row", "clear", "link", "join", "member", "supersede",
           "weigh", "finish", "tick"}

\* What a process holds: the call it is in (key, row and links of the cell it
\* admits), the work left in that call, and the put() it is in the middle of.
Local == [pc : Phases, call : Calls \cup {"none"},
          key : Keys \cup {NoKey}, lineage : SUBSET Keys, prop : Proposals \cup {NoKey},
          joins : SUBSET Bundles, bundle : Bundles \cup {NoKey}, members : SUBSET Keys,
          supersedes : SUBSET Keys, weighs : SUBSET Keys, final : BOOLEAN,
          queue : SUBSET Cell,
          out : Cell \cup {NoKey}, left : SUBSET Link]

Rest == [pc |-> "idle", call |-> "none", key |-> NoKey, lineage |-> {}, prop |-> NoKey,
         joins |-> {}, bundle |-> NoKey, members |-> {}, supersedes |-> {}, weighs |-> {},
         final |-> FALSE, queue |-> {}, out |-> NoKey, left |-> {}]

\* Mutant: the cells to supersede are demoted before the new one is put.
PuttingLate(l, c) ==
    IF c.key = l.key /\ l.supersedes # {} THEN [l EXCEPT !.pc = "supersede"]
    ELSE [l EXCEPT !.pc = "row", !.out = c, !.left = c.links]

\* A process about to put the cell c.
Putting(l, c) == [l EXCEPT !.pc = "row", !.out = c, !.left = c.links]

\* Where a process goes when a put is done: the next thing its call does.
Resume(l) ==
    IF l.joins # {} THEN [l EXCEPT !.pc = "join", !.out = NoKey]
    ELSE IF l.supersedes # {} THEN [l EXCEPT !.pc = "supersede", !.out = NoKey]
    ELSE IF l.weighs # {} THEN [l EXCEPT !.pc = "weigh", !.out = NoKey]
    ELSE IF l.final THEN [l EXCEPT !.pc = "finish", !.out = NoKey]
    ELSE IF l.queue # {} THEN [l EXCEPT !.pc = "tick", !.out = NoKey]
    ELSE Rest

\* A call starts alone, or together with calls it may overlap.
MayStart(s, call) ==
    /\ call \in Calls
    /\ proc[s].pc = "idle"
    /\ ops < MaxOps
    /\ \A o \in Procs : proc[o].pc # "idle" => {call, proc[o].call} \subseteq Overlap

Becomes(s, l) == proc' = [proc EXCEPT ![s] = l]

\* Mutant: the edges of a cell are stored with its lineage, on the second put.
BuiltBare(k, p, lineage, counted) ==
    [key |-> k, links |-> IF lineage = {} THEN {} ELSE p.links,
     row |-> [content |-> p.content, status |-> "active",
              lineage |-> lineage, counted |-> counted]]

\* The cell admit() builds from a proposal.
Built(k, p, lineage, counted) ==
    [key |-> k, links |-> p.links,
     row |-> [content |-> p.content, status |-> "active",
              lineage |-> lineage, counted |-> counted]]

-----------------------------------------------------------------------------
(* put(), a statement at a time *)

PutRow(s) ==
    LET c == proc[s].out IN
    /\ proc[s].pc = "row"
    /\ rows' = [k \in DOMAIN rows \cup {c.key} |-> IF k = c.key THEN c.row ELSE rows[k]]
    /\ Becomes(s, [proc[s] EXCEPT !.pc = "clear"])
    /\ UNCHANGED <<edges, bundles, ops, crashes>>

PutClear(s) ==
    /\ proc[s].pc = "clear"
    /\ edges' = {e \in edges : e.from # proc[s].out.key}
    /\ Becomes(s, IF proc[s].left = {} THEN Resume(proc[s])
                  ELSE [proc[s] EXCEPT !.pc = "link"])
    /\ UNCHANGED <<rows, bundles, ops, crashes>>

PutLink(s) ==
    /\ proc[s].pc = "link"
    /\ \E l \in proc[s].left :
          /\ edges' = edges \cup {[from |-> proc[s].out.key, rel |-> l.rel, to |-> l.to]}
          /\ LET now == [proc[s] EXCEPT !.left = @ \ {l}] IN
             Becomes(s, IF now.left = {} THEN Resume(now) ELSE now)
    /\ UNCHANGED <<rows, bundles, ops, crashes>>

-----------------------------------------------------------------------------
(* admit() *)

\* Mutant: only the targets to supersede are looked up.
TargetsUnchecked(p) == \A l \in p.links : l.rel = "supersedes" => l.to \in DOMAIN rows

\* Every edge of the proposal has a stored target.
TargetsStored(p) == \A l \in p.links : l.to \in DOMAIN rows

\* Mutant: a key may come back once its cell is stored.
Repeated(k) == \A o \in Procs : proc[o].key # k

\* findByContentKey(): LIMIT 1, so any one of these may come back.
SameTitle(p) == {c \in DOMAIN rows : IsActive(c) /\ TitleOf[rows[c].content] = TitleOf[p.content]}

\* randomUUID(): a key nothing has.
Unused(k) == k \notin DOMAIN rows /\ \A o \in Procs : proc[o].key # k

\* The checks pass: every target is stored, and the active cell of this title
\* that is found, if any, says something else.  A call whose checks fail writes nothing and is not modelled.
BeginAdmit(s, p, k) ==
    /\ MayStart(s, "admit")
    /\ TargetsStored(p)
    /\ SameTitle(p) = {} \/ \E c \in SameTitle(p) : rows[c].content # p.content
    /\ Unused(k)
    /\ Becomes(s, Putting([Rest EXCEPT
          !.call = "admit", !.key = k, !.prop = p, !.final = TRUE, !.joins = p.bundles,
          !.supersedes = {l.to : l \in {x \in p.links : x.rel = "supersedes"}},
          !.weighs = {l.to : l \in {x \in p.links : x.rel \in Evidential}}],
          Built(k, p, {}, {})))
    /\ ops' = ops + 1
    /\ UNCHANGED <<rows, edges, bundles, crashes>>

\* getHyperedge() reads the members of a bundle, putHyperedge() writes them back
\* with the new one.
JoinRead(s) ==
    /\ proc[s].pc = "join"
    /\ \E b \in proc[s].joins :
          Becomes(s, [proc[s] EXCEPT !.pc = "member", !.bundle = b,
                                     !.members = bundles[b], !.joins = @ \ {b}])
    /\ UNCHANGED <<rows, edges, bundles, ops, crashes>>

\* Mutant: the new member is written over the others.
JoinAlone(s) ==
    /\ proc[s].pc = "member"
    /\ bundles' = [bundles EXCEPT ![proc[s].bundle] = {proc[s].key}]
    /\ Becomes(s, Resume([proc[s] EXCEPT !.bundle = NoKey, !.members = {}]))
    /\ UNCHANGED <<rows, edges, ops, crashes>>

JoinWrite(s) ==
    /\ proc[s].pc = "member"
    /\ bundles' = [bundles EXCEPT ![proc[s].bundle] = proc[s].members \cup {proc[s].key}]
    /\ Becomes(s, Resume([proc[s] EXCEPT !.bundle = NoKey, !.members = {}]))
    /\ UNCHANGED <<rows, edges, ops, crashes>>

\* Mutant: a target joins the lineage whatever its status.
SupersedeAny(s) ==
    /\ proc[s].pc = "supersede"
    /\ \E t \in proc[s].supersedes :
          Becomes(s, Putting([proc[s] EXCEPT !.supersedes = @ \ {t}, !.lineage = @ \cup {t}],
                             [Read(t) EXCEPT !.row.status = "superseded"]))
    /\ UNCHANGED <<rows, edges, bundles, ops, crashes>>

\* The next supersedes edge: an active target is written back superseded and
\* joins the lineage, one that is not active is left alone.
Supersede(s) ==
    /\ proc[s].pc = "supersede"
    /\ \E t \in proc[s].supersedes :
          LET now == [proc[s] EXCEPT !.supersedes = @ \ {t}] IN
          Becomes(s, IF IsActive(t)
                     THEN Putting([now EXCEPT !.lineage = @ \cup {t}],
                                  [Read(t) EXCEPT !.row.status = "superseded"])
                     ELSE Resume(now))
    /\ UNCHANGED <<rows, edges, bundles, ops, crashes>>

\* The next target of evidence has its confidence recomputed.
Weigh(s) ==
    /\ proc[s].pc = "weigh"
    /\ \E t \in proc[s].weighs :
          Becomes(s, Putting([proc[s] EXCEPT !.weighs = @ \ {t}], Recounted(t)))
    /\ UNCHANGED <<rows, edges, bundles, ops, crashes>>

\* The new cell is put again, with its lineage and its own confidence.
Finish(s) ==
    /\ proc[s].pc = "finish"
    /\ Becomes(s, Putting([proc[s] EXCEPT !.final = FALSE],
                          Built(proc[s].key, proc[s].prop, proc[s].lineage,
                                Incoming(proc[s].key))))
    /\ UNCHANGED <<rows, edges, bundles, ops, crashes>>

-----------------------------------------------------------------------------
(* touchSalience() and tick() *)

\* Only the salience of the cell changes, which nothing here reads.
BeginTouch(s, k) ==
    /\ MayStart(s, "touch")
    /\ Becomes(s, Putting([Rest EXCEPT !.call = "touch"], Read(k)))
    /\ ops' = ops + 1
    /\ UNCHANGED <<rows, edges, bundles, crashes>>

\* tick() reads every active cell and recomputes it from what it read ...
BeginTick(s) ==
    /\ MayStart(s, "tick")
    /\ Becomes(s, Resume([Rest EXCEPT
          !.call = "tick",
          !.queue = {Recounted(k) : k \in {c \in DOMAIN rows : IsActive(c)}}]))
    /\ ops' = ops + 1
    /\ UNCHANGED <<rows, edges, bundles, crashes>>

\* ... then puts them back one after the other.
TickNext(s) ==
    /\ proc[s].pc = "tick"
    /\ \E c \in proc[s].queue :
          Becomes(s, Putting([proc[s] EXCEPT !.queue = @ \ {c}], c))
    /\ UNCHANGED <<rows, edges, bundles, ops, crashes>>

-----------------------------------------------------------------------------
\* The process is killed, or a statement throws (SQLITE_BUSY, a full disk) and
\* the call with it: what it held is lost, what it committed stays.
Crash(s) ==
    /\ proc[s].pc # "idle"
    /\ crashes < MaxCrashes
    /\ crashes' = crashes + 1
    /\ Becomes(s, Rest)
    /\ UNCHANGED <<rows, edges, bundles, ops>>

Init ==
    /\ rows = [k \in {} |-> {}]
    /\ edges = {}
    /\ bundles = [b \in Bundles |-> {}]
    /\ proc = [s \in Procs |-> Rest]
    /\ ops = 0
    /\ crashes = 0

Begin(s) ==
    \/ \E p \in Proposals, k \in Keys : BeginAdmit(s, p, k)
    \/ \E k \in DOMAIN rows : BeginTouch(s, k)
    \/ BeginTick(s)

Continue(s) ==
    \/ PutRow(s) \/ PutClear(s) \/ PutLink(s)
    \/ JoinRead(s) \/ JoinWrite(s)
    \/ Supersede(s) \/ Weigh(s) \/ Finish(s)
    \/ TickNext(s)

Next == \E s \in Procs : Begin(s) \/ Continue(s) \/ Crash(s)

Spec == Init /\ [][Next]_vars

-----------------------------------------------------------------------------
(* Properties *)

TypeOK ==
    /\ DOMAIN rows \subseteq Keys
    /\ \A k \in DOMAIN rows : rows[k] \in Row
    /\ edges \subseteq Edge
    /\ bundles \in [Bundles -> SUBSET Keys]
    /\ proc \in [Procs -> Local]
    /\ ops \in 0..MaxOps
    /\ crashes \in 0..MaxCrashes

Idle == \A s \in Procs : proc[s].pc = "idle"

\* However the processes interleave and whichever are killed, a cell is never
\* lost and what it says never changes: every write-back carries the content
\* that was read.
NothingLost ==
    [][\A k \in DOMAIN rows : k \in DOMAIN rows' /\ rows'[k].content = rows[k].content]_rows

\* However the processes interleave and whichever are killed, an edge that is
\* stored joins two stored cells, and a bundle has stored members only.
EdgesAnchored ==
    /\ \A e \in edges : e.from \in DOMAIN rows /\ e.to \in DOMAIN rows
    /\ \A b \in Bundles : bundles[b] \subseteq DOMAIN rows

\* When calls take turns, as long as none was killed, the confidence of every
\* cell has counted all evidence stored for it, and nothing else, and the lineage matches
\* the edges.  The weight it gave the evidence may be behind: see Admission.
SettledStore ==
    Idle /\ crashes = 0 =>
            \A k \in DOMAIN rows :
               /\ rows[k].counted = Incoming(k)
               /\ \A t \in rows[k].lineage :
                     [from |-> k, rel |-> "supersedes", to |-> t] \in edges

\* However the processes interleave and whichever are killed, a cell is only
\* ever retired for a newer one that is stored: admit() stores first, and
\* demotes after.
RetiredForNewer ==
    \A t \in DOMAIN rows :
       ~IsActive(t) => \E k \in DOMAIN rows, p \in Proposals :
                          /\ p.content = rows[k].content
                          /\ [rel |-> "supersedes", to |-> t] \in p.links

\* When calls take turns and one of them was killed, a superseded cell can
\* still be traced to its successor, by the lineage or by the edges stored.
SuccessorTraceable ==
    Idle => \A t \in DOMAIN rows :
       ~IsActive(t) => \E k \in DOMAIN rows :
                          \/ t \in rows[k].lineage
                          \/ [from |-> k, rel |-> "supersedes", to |-> t] \in edges

\* A bundle keeps the members that joined it.
MembersKept == [][\A b \in Bundles : bundles[b] \subseteq bundles'[b]]_bundles

\* The writes of a call that is under way count when its last put commits.
Uncommitted(s) == proc[s].key # NoKey /\ (proc[s].final \/ proc[s].pc = "row")
Underway       == {s \in Procs : Uncommitted(s)}

recorded == [k \in DOMAIN rows \ {proc[s].key : s \in Underway} |->
                [content  |-> rows[k].content,
                 current  |-> IsActive(k) \/ \E s \in Underway : k \in proc[s].lineage,
                 replaces |-> rows[k].lineage]]

M == INSTANCE Memory WITH Ids <- Keys, Content <- Contents, memory <- recorded

\* Calls that take turns implement the memory Recall promises, although no call
\* is a transaction: every step but a kill records an entry or shows nothing.
TurnsImplementMemory == M!Init /\ [][crashes' = crashes => M!Next]_recorded

\* What the operator's comment says of its ticks ("concurrent or repeated cycles
\* are always safe"), for the status of cells: a superseded cell stays so.
TicksKeepStatus ==
    [][\A k \in DOMAIN rows : ~IsActive(k) => ~IsActive(k)']_rows
=============================================================================
