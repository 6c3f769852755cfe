------------------------------- MODULE Ingest -------------------------------
(***************************************************************************)
(* Memory that comes from elsewhere: the importers of other systems and of *)
(* the home graph (importItems(), src/src/adapters.ts and local-import.ts),*)
(* archives, and the migration of an old database (migrate.ts).            *)
(*                                                                         *)
(* A record of a source has an identity, its ref, and a text that the      *)
(* source may change.  Its fingerprint is both together, and the cell it   *)
(* becomes is stored under a key derived from the fingerprint: so a key is *)
(* a pair of a ref and a text here.  An importer reads the source and an   *)
(* index of the graph once, and then writes cell after cell; a step is one *)
(* write, and the process may be killed between any two.                   *)
(***************************************************************************)
EXTENDS Naturals, Sequences, FiniteSets, SequencesExt

CONSTANTS Refs,        \* identities of the records of the source
          Texts,       \* what a record, or a cell, can say
          Refusable,   \* texts the gate refuses whatever the graph holds
          Initial,     \* what a record says at first; "" for nothing usable
          Bundles,     \* bundles of records in the source, as sets of refs
          Own,         \* the ref of cells that agents wrote themselves
          Old,         \* the rows of an old database: for each key a status
          OldBundles,  \* and its bundles: for each the keys it names, rows or not
          MaxEdits,    \* bound: changes of the source, writes and exports
          MaxRuns,     \* bound: imports and restores started
          MaxKills     \* bound: processes killed

Keys == ((Refs \cup {Own}) \X Texts) \cup DOMAIN Old

Statuses == {"active", "superseded", "annexed"}

VARIABLES source,    \* what each record says now, and which of them have expired
          cells,     \* the local graph, a partial function from keys
          joined,    \* the local bundles: for each the keys it joins
          export,    \* an export under way: the cells it has read
          archive,   \* the last archive that was exported
          work,      \* where the import is, and what it holds in memory
          done,      \* the last import that ended undisturbed: what it read, and its report
          edits, runs, kills,
          restored,  \* an archive or an old database was put into the graph
          loose      \* and one of its bundles named what is neither there nor in it

vars == <<source, cells, joined, export, archive, work, done, edits, runs, kills,
          restored, loose>>

\* The keys of an old database are random: no cell written since has one.
ASSUME IngestAssumption ==
    /\ IsFiniteSet(Refs) /\ Own \notin Refs
    /\ Refusable \subseteq Texts /\ Initial \subseteq Texts \cup {""}
    /\ \A k \in DOMAIN Old : k = <<Own, k[2]>> /\ k[2] \notin Texts
    /\ MaxEdits \in Nat /\ MaxRuns \in Nat /\ MaxKills \in Nat

Active == {k \in DOMAIN cells : cells[k] = "active"}

Put(store, k, cell) == [j \in DOMAIN store \cup {k} |-> IF j = k THEN cell ELSE store[j]]

-----------------------------------------------------------------------------
(* The records of a source *)

\* Records without a text are dropped first; the others come in any order.
Exports == SetToSeqs({r \in Refs : source.text[r] # ""})

\* A fact that follows an expired one supersedes it too (Zep).
Item(order, i) ==
    [ref |-> order[i], text |-> source.text[order[i]],
     closes |-> IF i > 1 /\ order[i - 1] \in source.expired THEN {order[i - 1]} ELSE {}]

Items(order) == [i \in 1..Len(order) |-> Item(order, i)]

KeyOf(item) == <<item.ref, item.text>>

-----------------------------------------------------------------------------
(* importItems() *)

\* The index that is read before the first item: active cells by ref.
Index == [r \in Refs |-> {k \in Active : k[1] = r}]

\* The versions an item replaces: those of its ref that the index holds, those
\* of the refs it closes, and what this batch stored for these.  (The cap,
\* MAX_PRIOR_VERSIONS, takes a thousand imports that were killed to reach.)
PriorsOfClosed(item, acc) ==   \* mutant
    (UNION {acc.index[r] : r \in item.closes})
      \cup {acc.admitted[r] : r \in item.closes \cap DOMAIN acc.admitted}
Priors(item, acc) ==
    (UNION {acc.index[r] : r \in {item.ref} \cup item.closes})
      \cup {acc.admitted[r] : r \in item.closes \cap DOMAIN acc.admitted}

\* What becomes of an item.
Outcome(item, acc, store) ==
    IF KeyOf(item) \in acc.seen \cup DOMAIN store THEN "unchanged"
    ELSE IF item.text \in Refusable THEN "rejected"
    ELSE IF \E k \in DOMAIN store : store[k] = "active" /\ k[2] = item.text
         THEN "duplicate"
    ELSE IF Priors(item, acc) = {} THEN "create" ELSE "supersede"

Stores(outcome) == outcome \in {"create", "supersede"}

\* What the batch remembers of an item.
NotedAsSeen(item, acc, outcome) ==   \* mutant
    [acc EXCEPT !.report = Append(@, outcome),
        !.seen = IF outcome \in {"unchanged", "rejected"} THEN @ ELSE @ \cup {KeyOf(item)}]
Noted(item, acc, outcome) ==
    [acc EXCEPT !.report = Append(@, outcome),
        !.seen = IF outcome \in {"unchanged", "rejected"} THEN @ ELSE @ \cup {KeyOf(item)},
        !.admitted = IF Stores(outcome) THEN Put(@, item.ref, KeyOf(item)) ELSE @]

NoIndex == [r \in Refs |-> {}]
Blank(index) == [index |-> index, seen |-> {}, admitted |-> [r \in {} |-> {}], report |-> <<>>]

Nothing == [k \in {} |-> {}]
Rest == [pc |-> "idle", items |-> <<>>, acc |-> Blank(NoIndex), demote |-> {}, base |-> Nothing,
         dry |-> Blank(NoIndex), alone |-> TRUE, put |-> Nothing, join |-> Nothing]

NotYet == [items |-> <<>>, report |-> <<>>, predicted |-> <<>>, index |-> NoIndex]

Begin(order) ==
    /\ work.pc = "idle" /\ runs < MaxRuns
    /\ work' = [Rest EXCEPT !.pc = "items", !.items = Items(order), !.base = cells,
                            !.acc = Blank(Index), !.dry = Blank(Index)]
    /\ runs' = runs + 1
    /\ UNCHANGED <<source, cells, joined, export, archive, done, edits, kills,
                   restored, loose>>

\* Where the batch is: the items with an outcome, and the one that comes next.
Taken    == Len(work.acc.report)
NextItem == work.items[Taken + 1]

\* What a dry run of the same items, started at the same moment, makes of the
\* next one: the same decisions, over the graph as it was, which it never writes.
ForeseenForgetful ==   \* mutant
    NotedAsSeen(NextItem, work.dry, Outcome(NextItem, work.dry, work.base))
Foreseen == Noted(NextItem, work.dry, Outcome(NextItem, work.dry, work.base))

\* The next item is decided on, and stored if it is new; admit() stores the
\* cell first and demotes what it supersedes afterwards.
TakeItem ==
    /\ work.pc = "items" /\ Taken < Len(work.items) /\ work.demote = {}
    /\ LET outcome == Outcome(NextItem, work.acc, cells)
           stores  == Stores(outcome)
       IN  /\ work' = [work EXCEPT !.acc = Noted(NextItem, @, outcome), !.dry = Foreseen,
                                   !.demote = IF stores THEN Priors(NextItem, work.acc) ELSE {}]
           /\ cells' = IF stores THEN Put(cells, KeyOf(NextItem), "active") ELSE cells
    /\ UNCHANGED <<source, joined, export, archive, done, edits, runs, kills,
                   restored, loose>>

Demote ==
    /\ work.pc = "items"
    /\ \E k \in work.demote :
          /\ cells' = [cells EXCEPT ![k] = "superseded"]
          /\ work' = [work EXCEPT !.demote = @ \ {k}]
    /\ UNCHANGED <<source, joined, export, archive, done, edits, runs, kills,
                   restored, loose>>

-----------------------------------------------------------------------------
(* Bundles come along when all their members landed (local-import.ts) *)

LandedAny(outcome) == outcome # "rejected"   \* mutant
Landed(outcome) == Stores(outcome) \/ outcome = "unchanged"

\* Where the records of a bundle landed.
Rejoined(refs) ==
    {KeyOf(work.items[i]) : i \in {j \in DOMAIN work.items :
        Landed(work.acc.report[j]) /\ work.items[j].ref \in refs}}

\* A bundle that was joined before is left as it is; no property
\* relates two bundles, so one step stands for storing them all.
Reattach ==
    LET whole == {refs \in Bundles : refs = {k[1] : k \in Rejoined(refs)}}
    IN  /\ work.pc = "items" /\ Taken = Len(work.items) /\ work.demote = {}
        /\ joined' = [refs \in DOMAIN joined \cup whole |->
                        IF refs \in DOMAIN joined THEN joined[refs] ELSE Rejoined(refs)]
        /\ work' = Rest
        /\ done' = IF work.alone
                    THEN [items |-> work.items, report |-> work.acc.report,
                          predicted |-> work.dry.report, index |-> work.acc.index]
                    ELSE NotYet
        /\ UNCHANGED <<source, cells, export, archive, edits, runs, kills,
                       restored, loose>>

-----------------------------------------------------------------------------
(* Archives and the old database *)

\* exportCellArchive() reads the cells and then the bundles, at any moment of
\* what other processes do.  An export that is killed leaves nothing: the next
\* one starts anew.
NoExport == [open |-> FALSE, cells |-> Nothing]

ExportCells ==
    /\ edits < MaxEdits
    /\ export' = [open |-> TRUE, cells |-> cells]
    /\ edits' = edits + 1
    /\ UNCHANGED <<source, cells, joined, archive, work, done, runs, kills,
                   restored, loose>>

ExportBundles ==
    /\ export.open
    /\ archive' = [cells |-> export.cells, joined |-> joined]
    /\ export' = NoExport
    /\ UNCHANGED <<source, cells, joined, work, done, edits, runs, kills,
                   restored, loose>>

\* What an old row becomes.
MigratedAsActive(status) == "active"   \* mutant
Migrated(status) ==
    CASE status = "superseded"            -> "superseded"
      [] status \in {"annexed", "archived"} -> "annexed"
      [] OTHER                            -> "active"

\* What is put brings along, or finds, every cell its bundles name.
Covered(put, join) ==
    \A b \in DOMAIN join : join[b] \subseteq DOMAIN put \cup DOMAIN cells

BeginPut(put, join) ==
    /\ work.pc = "idle" /\ runs < MaxRuns
    /\ put # Nothing \/ join # Nothing
    /\ work' = [Rest EXCEPT !.pc = "put", !.put = put, !.join = join]
    /\ restored' = TRUE
    /\ loose' = (loose \/ ~Covered(put, join))
    /\ runs' = runs + 1
    /\ UNCHANGED <<source, cells, joined, export, archive, done, edits, kills>>

\* An archive may be cut down by hand to some of its cells.
Restore ==
    \E kept \in SUBSET DOMAIN archive.cells :
       BeginPut(Restrict(archive.cells, kept), archive.joined)

\* Neither looks for the members of a bundle.
Migrate == BeginPut([k \in DOMAIN Old |-> Migrated(Old[k])], OldBundles)

\* Cell after cell, each over what the graph has under its key, and then
\* bundle after bundle.
PutCell ==
    /\ work.pc = "put"
    /\ \E k \in DOMAIN work.put :
          /\ cells' = Put(cells, k, work.put[k])
          /\ work' = [work EXCEPT !.put = Restrict(@, DOMAIN @ \ {k})]
    /\ UNCHANGED <<source, joined, export, archive, done, edits, runs, kills,
                   restored, loose>>

CellsFirst == work.put = Nothing

PutBundle ==
    /\ work.pc = "put" /\ CellsFirst
    /\ \E refs \in DOMAIN work.join :
          /\ joined' = Put(joined, refs, work.join[refs])
          /\ work' = [work EXCEPT !.join = Restrict(@, DOMAIN @ \ {refs})]
    /\ UNCHANGED <<source, cells, export, archive, done, edits, runs, kills,
                   restored, loose>>

EndPut ==
    /\ work.pc = "put" /\ work.put = Nothing /\ work.join = Nothing
    /\ work' = Rest
    /\ UNCHANGED <<source, cells, joined, export, archive, done, edits, runs, kills,
                   restored, loose>>

-----------------------------------------------------------------------------
(* Everybody else *)

Elsewhere ==
    /\ edits < MaxEdits
    /\ edits' = edits + 1
    /\ UNCHANGED <<archive, runs, kills, restored>>

Edit(r, text) ==
    /\ source.text[r] # text
    /\ source' = [source EXCEPT !.text[r] = text]
    /\ Elsewhere
    /\ UNCHANGED <<cells, joined, export, work, done, loose>>

Expire(r) ==
    /\ r \notin source.expired
    /\ source' = [source EXCEPT !.expired = @ \cup {r}]
    /\ Elsewhere
    /\ UNCHANGED <<cells, joined, export, work, done, loose>>

\* An agent writes a cell of its own; content that is already there is not
\* stored twice.
Write(text) ==
    /\ <<Own, text>> \notin DOMAIN cells
    /\ \A k \in Active : k[2] # text
    /\ text \notin Refusable
    /\ cells' = Put(cells, <<Own, text>>, "active")
    /\ work' = [work EXCEPT !.alone = work.pc = "idle"]
    /\ Elsewhere
    /\ UNCHANGED <<source, joined, export, done, loose>>

\* Another machine: an empty graph, and the archive at hand.
Fresh ==
    /\ work.pc = "idle" /\ cells # Nothing
    /\ cells' = Nothing /\ joined' = Nothing /\ done' = NotYet
    /\ export' = NoExport /\ loose' = FALSE
    /\ Elsewhere
    /\ UNCHANGED <<source, work>>

Kill ==
    /\ work.pc # "idle" /\ kills < MaxKills
    /\ work' = Rest
    /\ kills' = kills + 1
    /\ UNCHANGED <<source, cells, joined, export, archive, done, edits, runs,
                   restored, loose>>
-----------------------------------------------------------------------------
Init ==
    /\ source \in [text : [Refs -> Initial], expired : {{}}]
    /\ cells = Nothing /\ joined = Nothing
    /\ export = NoExport /\ archive = [cells |-> Nothing, joined |-> Nothing]
    /\ work = Rest /\ done = NotYet
    /\ edits = 0 /\ runs = 0 /\ kills = 0
    /\ restored = FALSE /\ loose = FALSE

Next ==
    \/ \E order \in Exports : Begin(order)
    \/ TakeItem \/ Demote \/ Reattach
    \/ ExportCells \/ ExportBundles \/ Restore \/ Migrate \/ PutCell \/ PutBundle \/ EndPut
    \/ \E r \in Refs, text \in Texts : Edit(r, text)
    \/ \E r \in Refs : Expire(r)
    \/ \E text \in Texts : Write(text)
    \/ Fresh \/ Kill

Spec == Init /\ [][Next]_vars
-----------------------------------------------------------------------------
(* Properties *)

\* However a record and what closes it change between imports, and in whatever
\* order the export lists them, no import that was left to end leaves two
\* versions of a record active: each new version supersedes those before it.
OneVersion ==
    work.pc = "idle" /\ kills = 0 /\ ~restored =>
       \A j, k \in Active : j[1] = k[1] /\ j[1] # Own => j = k

\* A dry run says what the import then does, as long as nobody else writes and
\* no text of the batch is also that of another item or of a record's
\* current version: it decides over a graph that the batch does not change.
Distinct(items, index) ==
    \A i \in DOMAIN items :
       /\ \A j \in DOMAIN items \ {i} : items[j].text # items[i].text
       /\ \A r \in Refs : \A k \in index[r] : k[2] = items[i].text => r = items[i].ref

DryRunPredicts ==
    Distinct(done.items, done.index) => done.predicted = done.report

\* A bundle names a cell that is not stored only if it came so: in an old
\* database, or in an archive that was cut down by hand or whose export read the
\* cells before some member was written, put where the cell was missing.  An
\* import joins only what landed, and a put that is killed has stored its cells.
MembersLanded == ~loose => \A b \in DOMAIN joined : joined[b] \subseteq DOMAIN cells

\* What was retired in the old database does not come back to life, whatever
\* is imported, restored or migrated over it.
MigrationKeepsRetired ==
    \A k \in DOMAIN Old \cap DOMAIN cells :
       Old[k] \in {"superseded", "annexed", "archived"} => cells[k] # "active"

\* Of a record that keeps changing, the newest version is the active one: what
\* an import that nothing disturbed stored or found unchanged is active.
NewestActive ==
    work.pc = "idle" /\ kills = 0 /\ ~restored /\ source.expired = {} =>
       \A i \in DOMAIN done.items :
          Landed(done.report[i]) => KeyOf(done.items[i]) \in Active
=============================================================================
