# A TLA+ project for Recall

Recall keeps the memory of coding agents as a graph of typed *cells* in SQLite.
Agents write through an admission gate, an *operator* recomputes scores at the
end of every turn, and hooks in the agent's session insist that something was
written. No process is in charge: command line calls, MCP servers, hooks and a
scheduled maintenance pass open the same database file and the same small state
files, and none of them takes a lock or opens a transaction around a call. This
project models what that can do to the memory.

Paths below are relative to the repository; `src/x.ts` is the TypeScript file of
that name in its source directory. Check a run with
`tlc -config MCSharedStore_turns.cfg MCSharedStore`, a proof with
`tlapm SharedStoreProofs.tla`. `PROJECT.json` lists the runs, the mutants, the
source lines every definition stands for, the hazards and the theorems.

## 1. Inventory

| Component | State it keeps | Operations | Hard behaviour | Correct when |
|---|---|---|---|---|
| Admission gate (`admission.ts`, `template.ts`, `build.ts`, `hyperedges.ts`, `mass.ts`) | none of its own; writes the store | `admit`, `addHyperedge` | one write changes several cells (demotions, recomputed confidence, bundles); references by key or by a handle that can collide; the duplicate check ends a call half-way through what was asked | nothing dangles; lineage is a chain; confidence counts the evidence |
| Cell store (`store.ts`, `db.ts`) | tables cells, edges, hyperedges, dag_overlays, semantic_vectors, program_runs, eval_runs, operator_runs | `put`, `get`, `getByHandle`, `active`, `neighbors`, `findByContentKey`, `touchSalience`, `putHyperedge`, ... | a put is several statements, each committed alone; every writer writes whole cells back from what it read | no cell or edge is lost |
| Operator (`operator.ts`, `scores.ts`) | operator_runs | `tick`, `runOperatorCycle` | a tick puts a snapshot back while others write; ticks feed on the result of ticks | a tick changes scores and nothing else |
| Turn write gate (`prompt-hook.ts`, `receipt-hook.ts`, `stop-hook.ts`, `stop.ts`) | a marker file per session | one process per hook event: stamp, receipt, stop | hooks run concurrently on one file; writes are not atomic; turns are interrupted; hooks time out | a turn is closed by its own writes, and can be closed |
| Standing programs (`programs.ts`) | props.lastRun of prg cells, program_runs | `runStandingPrograms`, `runProgramCell`, nine operations | a run reads, computes, then writes cells back in several puts; one throwing program | a program remembers what it saw; what it says is recorded, and said once |
| Derivation (`derivation.ts`) | none | `deriveAdmit`, keys of programs, evals, health, overlays | the same key derived again after its cell was superseded, or by two processes at once | a derivation is stored once until it is corrected; history is not overwritten |
| Maintenance and evals (`maintain.ts`, `evals.ts`) | eval_runs | `maintainStore`, `maintainAll`, the evals of the graph | a leg or a whole graph fails | the other legs still run; every pass ends |
| Imports (`adapters.ts`, `local-import.ts`, `migrate.ts`) | fingerprints in props.import | `importItems`, `importCellArchive`, `rehydrateHyperedges`, `migrate` | re-import of changed, expired and reordered records; a kill between two puts; dry runs | one version of a record is active; bundles have stored members unless they came without; what was retired stays so |
| Routing and registry (`routing.ts`, `resolve.ts`) | projects table, one file per graph | `registerProject`, `listProjects`, the migration, routes | processes that look a name up and then insert it; a migration killed half-way | projects never share a graph, none is given the router's own, none is lost, the closest one is found |
| Federated reads (`federated-store.ts`, `cell-context.ts`, `references.ts`) | none | read-only `Store` over several graphs, references and prefixes | same key or handle in several graphs; limits per member | what is shown is what its key leads to |
| DAG overlays (`dag.ts`) | dag_overlays | analyse, add, file risks | cells named by key and by handle | order, cycles and witnesses agree with the edges; no cycle is stored |
| Confidence and calibration (`scores.ts`, `mass.ts`, `actors.ts`, `calibration.ts`) | scores of cells | recompute, decay, factor of an author | scores are computed from scores, tick after tick | they come to rest; decay never compounds; corrections cost |
| Read-loop hook (`integrations/claude/hooks/recall-session-start.py`) | a state file per session | dig gate at stop | a single-shot reminder | it reminds once per turn |
| Secrets and screening (`secrets.ts`, `firewall.ts`) | none | classify text | - | - |
| Retrieval and packets (`retrieval.ts`, `compile.ts`, `pages.ts`, `subgraph.ts`) | none | rank, walk, surface, trim | budgets and caps; one selection written twice, over texts and over times | what challenges a hit is told |
| Analysis and netlist (`analysis.ts`, `netlist.ts`, `address.ts`) | none | pressure, findings; parse, render, load | the graph is walked in two directions, one of them capped; text in quotes; lines that change what later lines find | both walks agree; a netlist loads once |
| Semantic index, diff, deltas (`semantic.ts`, `diff.ts`, `deltas.ts`) | semantic_vectors | reindex, search, diff, series | vectors of an earlier backend, and of one fallen back to call by call; lineage with several ancestors | what is missed is known |
| MCP server, command line, service, configuration sync, Python helpers | settings files | dispatch and file I/O | - | - |

### How the components interact

    agent --recall_write--> MCP server --> admission gate --> cell store (SQLite)
      |                                        ^                  ^   ^
      | PostToolUse: receipt hook --\          |                  |   |
      | prompt: prompt hook --------+--> marker file              |   |
      | stop: stop hook -------------/   reads the store, then runs the operator
                                         cycle: tick --------------/   |
                                         programs --> deriveAdmit -----/
    launchd/systemd --> maintenance pass --> operator, evals, health, reindex

Every arrow into the store is a process of its own, and calls overlap: an agent
has several write calls in flight, its stop hook ticks while another session of
the same project writes, and the maintenance pass does not wait for either.
`docs/integrations.md` says of the hooks that hosts launch matching hooks
concurrently, so that no handler can depend on their order.

### What is hard to test here

`PROJECT.json` lists each hazard at its line. The main ones: a snapshot put back
over newer rows (`operator.ts`), a put taken apart by a reader or a kill
(`store.ts`), a write killed between the successor and the demotion, and then
repeated (`admission.ts`), evidence named by handle, two receipt hooks on one
marker, a stamp that comes before an old receipt, a program whose baseline moves
on before its run is recorded (`programs.ts`), a key that two passes find free
(`derivation.ts`), an index read before the first of many writes (`adapters.ts`),
a registry file that exists before its rows do (`routing.ts`).

## 2. Plan

Modules in the order they were written, all of which exist; `A <- B` says that B
extends, implements or instantiates A.

1. `Memory` (abstract) <- `MemoryProofs`.
2. `Admission` (implements `Memory`) <- `MCAdmission`, `AdmissionProofs`.
3. `SharedStore` (the same writes, statement by statement, among other processes;
   implements `Memory` when calls take turns) <- `MCSharedStore`,
   `SharedStoreProofs`.
4. `TurnGate` <- `MCTurnGate`, `TurnGateProofs`.
5. `Programs` (functions) <- `Cycle` (the operator cycle and the maintenance pass,
   with `deriveAdmit()`) <- `MCCycle`, `CycleProofs`.
6. `Ingest` <- `MCIngest`, `IngestProofs`.
7. `Registry` <- `Routes` <- `MCRegistry`, `RegistryProofs`.
8. The pure parts: `Overlays`, `Federation`, `Reads`, `Health` <- `Packet`,
   `Confidence`, `Netlist` (filter, sort and sum from `Lists`), and `Programs`
   again, asked by `Reading` <- `MCReading`, `ReadingProofs`.

Left: a theorem about netlists, and one about packets below the cap of their walk
(section 5); liveness of `TurnGate`, which needs an agent that keeps attesting, and two
hooks that do not mix their writes; the read-loop hook; an abstract
specification for `Ingest` (a map from records to their current text).

## 3. What each module models

### Memory

What Recall promises, with no word of how: entries with a content that never
changes; recording an entry may replace current ones; a replaced entry is kept
and has one successor. Variable `memory`, action `Record`.

### Admission

`admit()` and `addHyperedge()` against a store nobody else is writing, one call
a step. `cells` is the cells table joined with the edges table, `bundles` the
hyperedges, `reply` the answer of the last write. The four actions are the four
ways a call can end: `Reject` (schema, template, calibration, or a reference
that does not resolve), `Deduplicate` (answered with the active cell of the same
title and body, nothing written), `Store` (everything from `buildCell()` to the
last put: bundles, demotions, lineage, recomputed evidence), `AddHyperedge`.
References resolve as `store.get(r) ?? store.getByHandle(r)`, to any of the
cells that share a handle (`Lookup`), and `findByContentKey()` is a choice among
the same-titled active cells (its query says LIMIT 1).

The edges of a write are walked in their order, after its first put. A supersedes
edge is resolved when its turn comes, with the new cell in the table: each demoted
cell is put again, which moves its row to the end of the table, behind the cells a
handle finds first. So what a handle leads to depends on what the edges before it
demoted (`Found`, `Demoted`, `Settlements`), and the new cell itself may come
first: it then lists itself in its lineage and is active all the same, for the
last put says so. It takes a handle that the new cell shares with one that an
earlier edge demoted, or a caller that fixes the key of the cell and names it.
`Memory` knows of no entry that replaces itself: the refinement takes the cell's
own key out of its lineage, and `SupersedeTakesHold` speaks of the other targets.

Abstracted: a title stands for a content key, kind included. Schema, template
and calibration are one Boolean of a proposal, since a proposal that fails any of
them is refused before anything is written. Numbers of scores are left out; what
is kept is what they were computed *from* (`weighed`). `neighborMass()` weighs
each piece of evidence by the effective confidence of the cell it comes from, and
`admit()` recomputes the targets of the new evidence only, in the order of the
edges. So a piece carries what its source had counted when it was read (`then`):
when B supports A and somebody contradicts B, B is scored again and A is not, and
A's confidence is behind until a write about A or a tick comes by.
`EvidenceWeighed` says that this is all it can be: every piece filed under a
cell's key is counted, once, by one reading of its source, that was never ahead of
the source. (One step back is followed; what the source of a source had counted is
not.) An evidence edge is read by `store.get()` only, an edge stored with a handle
is not found by `neighbors()`: both as in the code.

### SharedStore

The same `admit()`, `touchSalience()` and `tick()`, by any number of processes,
a statement at a time. `rows`, `edges` and `bundles` are the tables; `proc[s]` is
the call a process is in and all it holds in memory. `PutRow`, `PutClear`,
`PutLink` are the REPLACE, the DELETE and one INSERT of `put()`; `Resume` is what
the call does next: bundles (`JoinRead`, `JoinWrite`), supersessions
(`Supersede`), evidence (`Weigh`), the second put with the lineage (`Finish`);
`BeginTick` is the snapshot, `TickNext` the next cell of it. The reads between
two statements belong to the step before the write that uses them, so a cell
that a process holds is stale as soon as another process moves. `Crash` is a
kill, or a statement that throws (busy, full disk) and ends the call.

`Overlap` names the calls that may run at the same time: `{}` makes processes
take turns. Targets are keys of other cells (handles and cells that name
themselves are `Admission`'s subject); a call whose checks fail writes nothing and
is no step. Of a score a row keeps the evidence counted (`counted`, set by
`Recounted`), and not with which weight, so what is proved here is that all
evidence is counted; what that leaves open is `Admission`'s subject. A call may
begin beside an active cell of its title and body if the one cell that LIMIT 1
returns is another of the title (`BeginAdmit`, `TitleOf`).

### TurnGate

One session. `marker` is the marker file, `session` the process that runs the
turn (prompt hook, agent, stop hook: one after the other), `calls` the write
calls with the receipt hook of each, `cells` when each cell was stored, `closed`
what the stop hook decided for each turn. `writeFileSync` is two steps: opening
empties the file (`StampOpen`, `ReceiptOpen`, `CloseOpen`), writing fills it;
`Filled` says what two writers leave when their writes mix. Readers find no JSON
in between and behave as for a missing file. Faults, bounded by `MaxFaults`: a
stamp that fails, a receipt hook that is killed, a store that does not open.
`TurnIds` says whether events carry a turn id (the hooks accept either). The user
may start a turn before the old one was stopped.

What is assumed of the host, which is not in the repository: the prompt hook
ends before the agent works, and stop comes when the write calls of this turn and
their hooks are done; hooks of an *interrupted* turn may still be running. The
operator cycle after a release is `SharedStore`'s tick and then `Cycle`.

What closes a turn, the repository tells in two ways. `receipt-hook.ts` says that
acknowledged write calls do, which is what the Stop hook does
(`verifiedTurnWrites` of `stop-hook.ts`) and what `ClosedByOwnTurn` and
`AmbientNeverCounts` are about. The headers of `stop.ts`, `stop-hook.ts` and
`prompt-hook.ts` say that any cell created since the stamp does, "decided by the
store, not a write-path marker": run `turn_any_cell` shows that it does not.

### Programs, Cycle

`Programs` has the nine operations of a standing program as functions of its
members and of the output of its last run (`Execute`), and the selection of the
members (`Selections`: where a limit cuts a list that is not ordered, any cut).
Scores are in units of 0.05 and outputs in thousandths, rounded as the code does.

`Cycle` is what the stop hook and the background service run: `Start` reads the
day and the list of programs, `Run` selects members and executes, `Persist`,
`Attach`, `Record`, `Derive`, `Admit` are the writes that follow, one step each,
and `Pulse` is the daily leg of the evals and of health. What a process read is
in `pass[s].read` and is put back as it was. `Fail` is a leg that throws (caught
by `maintainStore()`), `Kill` a process that dies. `Learn`, `Retire` and `Midnight`
are what everybody else does meanwhile. A derivation is named by what was derived,
as `derivationHash()` does; a fresh key is one more. A run's witness holds the id
of the run, an eval's its time, health's the counts of the store, so the gate's
content check never finds them again: it is not modelled here. The gate refuses a
witness whose concern names no stored cell (`Refused`); `Unheard` are the runs of
programs whose concern names none that people wrote, which may meet that fate.

### Ingest

A record has a ref and a text, a cell's key is both (`importCellKey()`). `Begin`
reads the items of an export, the records that have a text in any order
(`Exports`, `Items`), and the index of active versions (`Index`); `TakeItem` is one
item with its outcome (`Outcome`: unchanged, rejected, duplicate, create,
supersede) and the put; `Demote` a supersession; `Reattach` the bundles
afterwards. A dry run of the same items goes side by side (`Foreseen`): it takes
the same decisions over the graph as it was at the start, which it never writes.
The cap on the versions one item replaces (`MAX_PRIOR_VERSIONS`) is left out: it
takes as many imports killed before their demotions to reach it. `ExportCells` and
`ExportBundles` are the two statements of an export: what is written in between is
missing from its cells and may be in its bundles. `Restore` puts an archive back,
or what is left of it after somebody cut cells out by hand
(`docs/import-export.md` describes it), and `Migrate` the rows and the bundles of
an old database with their statuses, one cell, then one bundle a step (`BeginPut`,
`PutCell`, `PutBundle`). Neither looks for the members of a bundle: `loose` records
that one named a cell that was neither there nor brought along (`Covered`). `Edit`
and `Expire` change the source, `Write` and `Fresh` the graph, `Kill` ends a
process between two writes.

### Registry, Routes

A call lists or registers; unless there is a registry file it migrates the older
table first (`BeginCall`, `Open`, `MigrateRow`), then names its project (`Name`) and
inserts it (`Insert`, refused on a conflict). A caller may name the file of its
graph (`recall init --db`), and nothing checks it: any file, the home graph's and
the registry's among them (`ChosenFiles`). `Routes` reads the table: the owner of
a directory, and the graphs of the machine with their names.

### Overlays, Federation, Reads, Health, Packet, Confidence, Netlist, Lists; Reading

The pure functions, each module about the source files its header names. They
keep control (orders, early ends, limits, caps, fallbacks) and abstract data: exponential
and hyperbolic functions are tables, likeness of texts is shared words, a line of
a packet is what it says and of which keys. `Reading` asks them: a topic, then a
question from a finite set of inputs; each invariant compares the answer with a
reference definition, or two functions with one another. `Lists` has what the code does with arrays
everywhere: filter, stable sort by rank, sum. They, the depth-first walks of
`Overlays` and the loops of the other modules are recursive functions over a count
of steps, so that theorems can be about them.

* The eval of `depends_on` edges looks at the first `ACTIVE_CAP` active cells and
  the findings of health at the first `ANALYZED_POOL_CAP`, both 1000 in the code
  and constants here (`Overlays`, `Health`).
* A reference to a union resolves to a cell, to nothing, or is refused because its
  prefix is ambiguous (`Federation.Resolve`). Members of a union may answer with any
  of equally good hits, and each scores by its own: bm25 over its own texts, or a
  backend of its own. The merge takes the best by these scores, and that is all
  that is claimed of it: one store with all the cells would rank them otherwise.
* A time is a text: its place among texts, whether it parses, and to what
  (`Reads.Time`). SQL compares texts, `subgraph.ts` and `pages.ts` parse.
* Each text of a reindex, and each query, is embedded by the backend that is asked
  for or, if that call fails, by the hash (`Reads.Reindex`, `semanticSearch()`).
* A netlist is loaded into a list of rows that puts reorder, through the checks of
  the gate: references, the active cell of the title, supersession (`Admitted`).

## 4. Runs

Bounds are small because the cases are: a race needs two processes and one cell
to race for, a lineage can fork with three cells, a receipt lost needs two calls
(three to leave a torn file), an old stamp two turns, a version in between two
edits of a record.

| Run | Asks | Bounds |
|---|---|---|
| admission | Can a sequence of calls make a reference dangle, leave evidence out of a confidence, leave a superseded cell active, or fork a lineage? Does the gate implement `Memory`? | 3 keys, two of which share a handle, 2 titles, 2 bodies, 1 bundle; proposals with each sort of edge, to keys and handles, with two edges to the same cell, by key and by a handle the new cell may share, with a watcher, ill-formed |
| store_turns | No call is a transaction: do calls that take turns still implement `Memory`, and do confidence, lineage, edges and bundles agree between calls? After one kill anywhere, can a superseded cell be traced to its successor? | 2 processes, 3 keys, 5 calls, 1 kill |
| store_interleaved | With any overlap and a kill: is a cell lost, does an edge dangle, is a cell retired before its successor is stored? | 2 processes, 3 keys, 3 calls, 1 kill |
| turn_ids | With turn ids, concurrent receipts, interrupts and a fault: is a turn closed only by its own stamp, and by a new cell of its own calls? | 2 turns, 2 calls, 2 cells, 2 instants, 1 fault; cells and calls are interchangeable, so TLC reduces by symmetry |
| cycle | Is every stored witness of a recorded run, every recorded trip witnessed, no derivation stored twice, nothing retired brought back by a pass, and does every pass end having run what was due? | 2 processes, 2 passes, a program that witnesses whatever has its topic and one that is malformed and comes last, one change from outside, one break, 2 fresh keys |
| ingest | Are two versions of a record active? Does a dry run say what the import does? Does a bundle come to lack a member, other than by what it was brought with? Does what was retired come back? | 2 records with 2 texts and one the gate refuses, listed in either order, one bundle, 3 edits, writes or exports, 3 imports, restores or migrations, 1 kill, an old database of two rows and a bundle of one of them and of a cell that is gone |
| registry | Do two projects share a graph, is one given the router's own, is one lost by the migration, is a directory routed to another graph than the closest? | 2 processes, 3 calls, nested and separate roots, 3 names of which two are the router's own, two files a caller may choose, the home graph's among them, 1 kill |
| reading | Are the pure algorithms right on every small input? | see `MCReading`: overlays of 3 nodes and 3 edges, unions of 2 graphs, stores of 4 cells with a time in another form, packets over 6 cells, texts of 3 characters, netlists of 3 lines over 3 stores, histories of 4 runs; caps of 2 and 3 cells, so that both are met |

The largest, `ingest`, has 1.2 million distinct states, `registry` 0.6 million,
`reading` twenty thousand questions, most of which several functions answer.

Four runs are counterexamples to what the repository says of itself:

| Run | The repository says | TLC shows |
|---|---|---|
| admission_evidence | a dangling evidence target is rejected "so it cannot leave the trust surface inert" (`admission.ts`) | evidence whose target is a handle is accepted and never weighed |
| store_tick_status | "concurrent or repeated cycles are always safe" (`operator.ts`) | a tick makes a superseded cell active again |
| turn_any_cell | "the Stop hook checks whether any cell was created at/after it" (`stop.ts`) | a cell that no acknowledged write call of the turn stored does not close it |
| ingest_flip | "each new version points back at the version it replaced, and only the newest version is active" (`docs/import-export.md`) | a record that goes from A to B and back to A is skipped as unchanged, and B stays active |

**Fairness.** Only `Cycle` assumes any: weak fairness of each process's `Step`. A
pass is one synchronous call of a single-threaded process, and nothing in it
waits for another process (SQLite's busy timeout throws, which is `Fail`), so
unless it is killed it goes on. Passes need not start.

**Deadlock** is not checked: a store with its keys used, its calls made, a session
whose turns are over, a question that was answered really stop.

**Mutants.** For each property of a passing run PROJECT.json names a mutant: an
operator next to the one it replaces, changed as a plausible bug would change it
(evidence recomputed before the edges are stored, a limit applied before the last
filter, the turn of a marker not compared, a decay that goes on from the decayed
value). TLC finds the property violated in each.

### Conditions, and what lies outside of them

Some properties carry a precondition because the code does not promise more. What
TLC shows without it:

* Two identical active cells can be stored: of several cells with one title the
  gate compares one (`store.ts`, LIMIT 1). A write answered as a duplicate
  demotes nothing, also if it was to supersede (`admission.ts`). Of two ticks at
  once, one can delete the edges of a cell for good (`store.ts`, `put()`).
  `SettledStore` needs that no call was killed, and `SuccessorTraceable` that at
  most one was: a second kill can take the edge from which the successor is told.
* Where hook events carry no turn id, a stamp that fails leaves a marker that
  releases the next turn, and an interrupted turn's receipt hook writes the old
  marker over the new stamp. Three receipts at once can leave a marker that is no
  JSON, with which even the attestation the gate asks for is refused until the
  next prompt.
* `TripsWitnessed` needs that nothing breaks: the baseline is stored before the
  run is recorded and witnessed, and a kill in between loses the trip. It leaves
  out programs whose concern names no cell that people wrote (`Unheard`): the gate
  refuses their witness unless a cell has come to have that key. A program
  without a target selects its own witnesses, so each cycle finds something new
  to say (`stop-hook.ts` calls the derive cycle idempotent). `RetiredStays` needs
  that nobody writes during a pass.
* `OneVersion` needs that no import was killed between put and demotion, and no
  archive restored over it. A record twice in one export leaves two active
  cells. A changed text that equals another active cell leaves the old version
  active. `DryRunPredicts` needs that nobody else writes, and that no text of the
  batch is another item's or another record's current one: a dry run does not see
  what the import itself stores and demotes.
* `MembersLanded` leaves out bundles that came without a member: in an old database,
  in an archive cut down by hand, or in one whose export read the bundles after a
  cell was written that its list of cells has not. Restores and migrations put
  bundles unchecked, where `addHyperedge()` refuses them. (An export that read the
  bundles first would close the last gap: no cell is ever deleted.)
* `ProjectsApart` says that the router gives no project a file of its own. A caller
  that names one gets it: `recall init --db` with the home graph's path registers a
  project that shares the home graph. The property tells such a project by its name,
  from which the router makes another file.
* `MigrationKeepsAll` needs a migration that is neither killed nor overtaken: a
  killed one is never resumed, and a registration that takes a name first makes
  INSERT OR IGNORE drop the old row.
* `ScoresHold`: ticks come to rest where no cell bears on itself; a correction
  costs its actor unless the cell itself contradicted another of the same actor.
* `NetlistsHold`: a rendered line parses back unless its text has a hash after an
  odd number of quotes. `unquotedHash()` toggles on escaped quotes too, so the
  line of a cell titled `say "#1"` is cut off inside the title, although
  `netlist.ts` calls the round trip byte-identical for any text `render.ts`
  produces. A netlist loads once under three conditions, each of which TLC shows to
  be needed. A parameter is set after the line that schedules its program; before
  it, the setting is lost at the first load only. Titles are apart, in the netlist
  and among active cells: the gate compares with one cell of a title, and of two
  programs of one operation the later puts decide which is found. And no cell
  supersedes one that the netlist declares as well: what is demoted is no duplicate
  to the gate, and the second load admits it anew. What is left out of the claim is
  the order of the rows, which every put changes.
* `LookupsMissNothing`: a search finds what was embedded by the backend its own
  query was embedded by. Where an HTTP backend fails or is late, each call falls back
  to the hash on its own, so one reindex may leave vectors of both, a search passes
  over those of the other, and `onlyMissing` never replaces them: only a reindex of
  everything does. (A search tells vectors apart by their length. A model of 256
  dimensions, the length of the hash's, would be compared with the hash's vectors;
  the model has backends of different lengths only.)
* `SelectionsAgree`: the SQL way compares the texts of times and the other parses
  them, so they agree where both the stored times and `since` are as `toISOString()`
  writes them. A `since` with an offset is selected by its text in one and by its
  instant in the other; one that does not parse selects by its text in one and lets
  everything pass in the other. The program writes all times so itself, but a
  migration keeps the old database's, and a `since` of a caller is passed on as it
  is, except by `diffStore()`, whose `since` is parsed and rewritten first. The seeds
  of a page agree where, moreover, no two cells changed at one instant, as ties stay
  in the order of the seed. Stored times are taken to parse.
* `PressureIsReported` and `CyclesAreRefused` end at the caps of 1000 cells:
  `beliefPressure()` counts challenges of all cells, findings name those of the first
  `ANALYZED_POOL_CAP`, so above the cap a belief may be under pressure that no finding
  explains; and the eval passes over a cycle that leaves the first `ACTIVE_CAP`.
* `UnionsReadAsOne`: the merge is by the scores of the members, each of which ranks by
  its own texts and backend; a single store with all the cells may rank and cut
  otherwise. Keys that carry a graph from an old export are not found in
  a union. A store that holds a bare key, and the same key qualified with the
  store's own name, shows two cells under one key; `IsUnion` leaves it out.
* A packet may exceed its budget: conflicts and standing programs are never
  trimmed. The daily health observation concerns cells, and the next analysis
  counts that as a contradiction.

## 5. Theorems

Proved by TLAPS for all values of the constants, under the named assumptions of
the modules (which TLC evaluates in the runs), and from nothing else.

* `MemoryProofs`: types, and `MemoryHistory`: in the abstract memory nothing that
  was replaced is lost, no entry has two successors, and lineage is well founded.
* `AdmissionProofs`: `AdmissionType`; `AdmissionRefsResolve` (nothing dangles),
  `AdmissionEvidenceWeighed` (confidence counts all direct evidence, by readings
  that may be old, and never newer than their sources),
  `AdmissionSupersedeTakesHold`; `AdmissionImplementsMemory` (a write that is stored
  is `Record`, with the *other* cells it demoted as what it replaces, every other
  step stutters); `AdmissionLineage`, which then follows from `MemoryHistory`:
  lineage does not fork and has no cycle but that of a cell that lists itself. The
  inductive invariant is the conjunction of these properties with the type
  invariant. The supersession half needs that a supersedes edge ends up with a
  stored key: what it finds depends on the cells demoted before it, but whichever it
  finds is demoted, unless it is the new cell itself. The evidence half needs that
  what a cell has counted only grows, and that a fresh key has no edges yet.
* `SharedStoreProofs`: `SharedType`, `SharedEdgesAnchored`, `SharedRetiredForNewer`,
  `SharedNothingLost`, for any number of processes that overlap in any way and are
  killed anywhere. None of them is inductive, because a process writes back what it
  read long ago. The invariant `IInv` adds what makes that harmless: each cell a
  process carries is stored, with this content, this or an older status, and edges
  to stored cells (`Kept`); the work left in a call concerns stored cells (`Plan`);
  the one cell that may be carried before it is stored is the new one of an
  `admit()`, in its first put (`First`, `Place`); no two calls draw the same key
  (`Apart`). Since no step ever removes a row, a cell once kept stays so, whatever
  the others do. When calls take turns (`Overlap = {}`, the only assumption), for
  any number of processes and calls: `TurnsMembersKept` and
  `TurnsImplementTheMemory` with any kills, which the refinement leaves out as
  steps; `TurnsTraceSuccessor` while there was at most one; `TurnsSettleStore` while
  there was none; and, with `MemoryHistory`, `TurnsLineage`. Inside a call the
  tables are half written, so the invariant (`TInv`) speaks of the tables as they
  will read once the put under way is done: the rows with the one about to be
  written (`Seen`), the edges with those left to insert (`Whole`). The REPLACE, the
  DELETE and the INSERTs of a put leave these two unchanged, every other step of a
  call changes them as a whole. `Fit` says how far the put is: it either opens the
  key of the new cell or rewrites a cell with what is stored. `Book` says what the
  call still owes: what a tick has read is what is stored; the new cell is active
  with the edges of its proposal, the cells of its lineage are demoted, and its row
  names them with the last put only. `Clean` (no kill yet) and `Traced` (one at
  most) say that all else is right. After one kill a demoted cell may be named by
  its successor's edge only; a second kill, between the DELETE and the INSERTs of a
  later put of that successor, takes the edge away, and `Traced` is lost. In the
  refinement every step stutters but the row statement of an admission's last put,
  which is `Record`: the new row and its lineage appear together.
* `TurnGateProofs`: `TurnType`, `TurnAmbientNeverCounts`, and with turn ids
  `TurnClosedByOwnTurn` and `TurnCountedAreNew`, for any number of turns, calls,
  faults and interrupts. The invariant follows the marker through the hooks: the
  file and each copy of it that a hook will write over the file carry the start of
  the turn they are stamped for, and ids that answered calls of that turn
  (`Honest`). The turn comparison of the receipt hook is what preserves it; a
  hook that overwrites a newer stamp leaves an honest marker of the wrong turn,
  which the stop hook's own comparison refuses.
* `IngestProofs`: `IngestOneVersion`, `IngestDryRunPredicts`,
  `IngestMembersLanded` and `IngestMigrationKeepsRetired`, for any records, texts,
  bundles, edits, imports, kills and old databases. The invariant follows a batch
  through its loop: its books name the item behind each key they hold (`Books`);
  what landed is stored (`Landing`); a version that was active at the start is
  about to be demoted where the batch stored another (`Versions`); and the books
  of the dry run are those of the import, because the graph has changed only by
  what the batch did, and with distinct texts no later item can tell
  (`Foresight`). A restore or a migration holds no row that was retired as anything
  else. An invariant of its own, `Bundled`, is about bundles: as long as nothing came
  loose, the members of those stored are stored, and the members of those that a put
  has yet to write are stored or in the cells it writes first. With it a kill
  anywhere in a put is harmless.
* `RegistryProofs`: `RegistryApart` and `RegistryKeepsAll`, for any number of
  processes, kills and any old table without conflicts of its own. The invariant
  adds what a process holds between reading and inserting: rows of the old table
  (`Carried`), or a project whose file is none of the router's own or the one its
  caller named; that
  nothing is registered before there is a file (`NothingYet`); and that only old
  rows are, while an undisturbed migration is under way (`OnlyLegacy`). That two
  processes cannot insert one name is the unique columns' doing, not the lookup's.
  `RegistryRoutes`: in every table these processes can leave, a directory is routed
  to the project whose root is nearest above it, and the graphs of the machine are
  listed once each, under names of their own. That names are told apart at all
  rests on their length: each try at a longer name of a graph appends to it.
* `CycleProofs`: `CycleWitnessHasRun`, `CycleOneWitness`, `CycleRetiredStays` and
  `CycleTripsWitnessed`, for any programs, processes and faults. The invariant follows what a pass
  carries (`PassOK`): cells it read were stored and are drawn under a key of
  their derivation (`Drawn`: the pinned key, or a fresh one once the pinned cell
  was superseded), and a job to derive is in the ledger. `Quiet` says that, as
  long as nobody overlapped, what a pass is about to put back is what is stored.
  `Trips` adds that a recorded run is in the hands of a pass until its witness is
  stored; the theorem assumes `DerivedKeysApart`, that no cell people wrote has the
  key of a derivation, which is a hash: `deriveAdmit()` takes an active cell under
  that key for the witness and does not look at it.

* `ReadingProofs`: the pure algorithms for every input, not the small ones TLC asks
  about. `ReadingUnions`: whatever a union shows under a key, handle or prefix is
  what that leads to, a prefix that two keys share is refused, and the best hits of
  each member's best are the best of all, by the members' scores. `ReadingPrograms`:
  after any series of runs a window holds the last readings, and tells what the
  whole series tells. `ReadingScores`: ticks settle a memory in which no cell bears
  on itself, after as many ticks as there are cells; decay does not compound; a
  correction never raises the confidence in its author. `ReadingPressure`: what is
  under pressure is reported, and only that, for any cap on the cells looked at.
  `ReadingSelections`: two ways to select a subgraph, to seed a page and to say what
  changed agree, for times as `toISOString()` writes them. `ReadingLookups`: a
  series follows a lineage however it branches, and whichever calls of a reindex
  fall back, a search finds exactly what was embedded as it was. `ReadingOverlays`:
  an overlay is called a DAG exactly if it is one, with an order that is one, cycles
  that are cycles and witnesses that are what two different trails connect.
  `ReadingFilings`: no cycle is stored, and the eval fails exactly for cycles among
  the active cells it looks at, for any cap on them.

  The library's induction theorems are of no use to the provers here (they take
  operators), so `ReadingProofs` and `RegistryProofs` start from `Induction`, about
  sets: a set that holds 0 and all successors holds all numbers, by the pigeonhole
  principle. With it, a function that is defined recursively over a count of steps
  is shown to exist (`...Recursion`), then to have its properties step by step. For
  ticks, the count is of cells that are not yet behind what bears on them: each
  tick leaves fewer. For selections, distinct keys that are sorted by a strict
  order have one arrangement (`OneOrder`), so that two lists with the same members
  are the same list. For a lineage, each step of the walk sees one more cell, or is
  done.

  For overlays, "reaches" is a number of steps, as many as there are nodes; a step
  that adds no node is the last (`ReachedCloses`), so what a node reaches is the least
  set that edges do not leave (`BeyondHolds`). Where no node is ready and some are
  left, one of them reaches itself: otherwise each has one before it that reaches
  more (`StuckLoops`). A depth-first walk that has reported nothing has visited nodes
  from which no edge leads to others, none of them on a loop (`Clear`); its stack
  is a path without repetition, so that it is never deeper than there are nodes
  and the bound of `Visit` is never met (`VisitHolds`). In a DAG every trail is a
  simple path, for what it comes to is reached from all it passed (`TrailAhead`), so
  `collectPaths()` leaves out nothing but what is longer than six edges.

Assumptions on inputs are those of the code: overlays are finite lists of nodes and
edges, values that are measured are
numbers, an index has vectors of stored cells only, cells have the fields of their
type, no cell is older than its last change, and the table of old projects does not
name the home graph's file.

Only model-checked:

* `PacketsTellAll`: the walk of a packet is cut off at a number of cells, and a
  packet with more hits than that does leave challenges out; the property holds
  below the cap.
* `NetlistsHold`: scanners over characters, and two loads compared line by line; no
  counterexample stands in the way of a proof, only its length. (A block with an edge
  to a handle that leads nowhere is refused, and a second load refuses it again, as
  no line of a netlist can give a new cell its handle.)
* `PassesDeliver`: liveness, with ENABLED.

What calls that overlap, or two kills, do to confidence, lineage and members has
no theorem because it does not hold (section 4).

## 6. Not modelled

* The read-loop hook (a reminder in a state file of one session; it writes
  nothing to the memory and refuses a stop once), the Python helpers (read-only).
* Dispatch: MCP server and command line; each call is one process of
  `SharedStore`, `Cycle`, `Ingest` or `Registry`.
* Agent configuration sync and the background service: files of settings and
  units, written from templates.
* Parts of modelled files: the list of new hyperedges of a diff; the cap on versions
  one import replaces; what a search does with vectors of one length from two models.
* Text: secrets and screening set a label and never refuse a write; the matching
  of full text search, embeddings, parsers of export formats and the wording of
  packets are represented by what they yield.
* Housekeeping of the store: pruning of ledgers that are only displayed, storage
  statistics, schema upgrades; the loop of the maintenance pass over graphs that
  share nothing.
