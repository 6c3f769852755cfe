----------------------------- MODULE IngestProofs -----------------------------
(***************************************************************************)
(* Theorems about Ingest, for any records, texts, bundles, edits, imports, *)
(* restores and kills, and any old database.                               *)
(*                                                                         *)
(* The invariant follows a batch through its loop.  Its books say what     *)
(* became of each item so far (Books); what it stored is in the graph      *)
(* (Landing); the versions it replaced are demoted or about to be          *)
(* (Versions); and the books of a dry run that started with it are the     *)
(* same, because the graph has only changed by what the batch itself did,  *)
(* and no item can tell (Foresight).                                       *)
(* Bundles have an invariant of their own, which rests on this one: until  *)
(* a bundle comes that names what is not there, those stored name stored   *)
(* cells, and those still to be put name no others but the cells that are  *)
(* put first (Bundled).                                                    *)
(***************************************************************************)
EXTENDS Ingest, FiniteSetTheorems, TLAPS

WorkFields == {"pc", "items", "acc", "demote", "base", "dry", "alone", "put", "join"}
BookFields == {"index", "seen", "admitted", "report"}
DoneFields == {"items", "report", "predicted", "index"}
Outcomes   == {"unchanged", "rejected", "duplicate", "create", "supersede"}
RetiredOld == {k \in DOMAIN Old : Old[k] \in {"superseded", "annexed", "archived"}}
Records    == [ref : Refs, text : Texts, closes : SUBSET Refs]

\* An export lists a record at most once.
ItemsOK(items) ==
    /\ items \in Seq(Records)
    /\ \A i, j \in DOMAIN items : items[i].ref = items[j].ref => i = j

\* The items with an outcome that stored a cell.
StoredBy(items, b) == {j \in DOMAIN b.report : Stores(b.report[j])}

\* The books of a batch say what became of each item so far.
Books(items, b) ==
    /\ DOMAIN b = BookFields
    /\ b.report \in Seq(Outcomes)
    /\ Len(b.report) <= Len(items)
    /\ \A r \in Refs : \A k \in b.index[r] : k \in Keys /\ k[1] = r
    /\ \A j \in DOMAIN b.report :
          b.report[j] \notin {"unchanged", "rejected"} => KeyOf(items[j]) \in b.seen
    /\ \A k \in b.seen : \E j \in DOMAIN b.report : k = KeyOf(items[j])
    /\ \A r \in DOMAIN b.admitted : \E j \in StoredBy(items, b) :
          r = items[j].ref /\ b.admitted[r] = KeyOf(items[j])

\* What landed is in the graph.
Landing(items, b, store) ==
    \A j \in DOMAIN b.report : Landed(b.report[j]) => KeyOf(items[j]) \in DOMAIN store

\* An active version was active when the batch began or comes from the batch;
\* where both would be, the former is about to be demoted.
Versions(items, b, demote, store) ==
    /\ \A r \in Refs : \A j, k \in b.index[r] : j = k
    /\ \A k \in DOMAIN store : store[k] = "active" /\ k[1] # Own =>
          \/ k \in b.index[k[1]]
          \/ \E j \in StoredBy(items, b) : k = KeyOf(items[j])
    /\ \A j \in StoredBy(items, b) : \A k \in b.index[items[j].ref] :
          k \in DOMAIN store /\ store[k] = "active" => k \in demote

\* The graph has changed by what the batch did, and by nothing else.
Foresight(items, b, demote, base, store) ==
    /\ \A k \in DOMAIN store :
          k \in DOMAIN base \/ \E j \in StoredBy(items, b) : k = KeyOf(items[j])
    /\ \A k \in DOMAIN base :
          /\ k \in DOMAIN store
          /\ \/ store[k] = base[k]
             \/ store[k] = "superseded" /\ \E r \in Refs : k \in b.index[r]
    /\ \A j \in StoredBy(items, b) : KeyOf(items[j]) \notin DOMAIN base
    /\ \A k \in demote : \/ \E r \in Refs : k \in b.index[r]
                         \/ \E j \in StoredBy(items, b) : k = KeyOf(items[j])

\* What a process that imports holds.
Batch(w, store) ==
    /\ ItemsOK(w.items)
    /\ Books(w.items, w.acc)
    /\ Landing(w.items, w.acc, store)
    /\ w.alone => /\ Foresight(w.items, w.acc, w.demote, w.base, store)
                  /\ Distinct(w.items, w.acc.index) => w.dry = w.acc

\* Rows that stay retired.
Retires(store) == \A k \in RetiredOld \cap DOMAIN store : store[k] # "active"

WorkOK(w, store) ==
    /\ DOMAIN w = WorkFields
    /\ w.pc \in {"idle", "items", "put"}
    /\ w.pc = "items" => Batch(w, store)
    /\ w.pc = "put" => DOMAIN w.put \subseteq Keys /\ Retires(w.put)

SingleVersions(store) ==
    \A j, k \in DOMAIN store :
       store[j] = "active" /\ store[k] = "active" /\ j[1] = k[1] /\ j[1] # Own => j = k

OneAtATime(w, store) ==
    /\ w.pc = "idle" => SingleVersions(store)
    /\ w.pc = "items" => Versions(w.items, w.acc, w.demote, store)

IInv ==
    /\ source \in [text : [Refs -> Texts \cup {""}], expired : SUBSET Refs]
    /\ DOMAIN cells \subseteq Keys /\ Retires(cells)
    /\ DOMAIN export.cells \subseteq Keys /\ Retires(export.cells)
    /\ DOMAIN archive.cells \subseteq Keys /\ Retires(archive.cells)
    /\ WorkOK(work, cells)
    /\ DryRunPredicts
    /\ kills \in Nat
    /\ work.pc = "put" => restored
    /\ kills = 0 /\ ~restored => OneAtATime(work, cells)

-----------------------------------------------------------------------------
(* Keys, records and partial functions *)

\* A key is a pair of a ref and a text; those of an old database are agents'.
LEMMA KeyParts ==
    ASSUME NEW k \in Keys
    PROVE  k = <<k[1], k[2]>> /\ k[1] \in Refs \cup {Own}
<1>1. CASE k \in (Refs \cup {Own}) \X Texts
  BY <1>1
<1>2. CASE k \in DOMAIN Old
  <2>1. PICK t : k = <<Own, t>>
    BY <1>2, IngestAssumption
  <2>2. QED
    BY <2>1
<1>3. QED
  BY <1>1, <1>2 DEF Keys

\* The key of an item names its record, and no old database has it.
LEMMA ItemKey ==
    ASSUME NEW item \in Records
    PROVE  /\ KeyOf(item) \in Keys
           /\ KeyOf(item)[1] = item.ref /\ KeyOf(item)[2] = item.text
           /\ item.ref \in Refs /\ item.ref # Own
           /\ KeyOf(item) \notin DOMAIN Old
  BY IngestAssumption DEF Keys, KeyOf, Records

\* Two items of an export have different keys.
LEMMA KeysApart ==
    ASSUME NEW items, ItemsOK(items), NEW i \in DOMAIN items, NEW j \in DOMAIN items,
           items[i].ref = items[j].ref \/ KeyOf(items[i]) = KeyOf(items[j])
    PROVE  i = j
  BY DEF ItemsOK, KeyOf

LEMMA PutEffect ==
    ASSUME NEW store, NEW k, NEW cell
    PROVE  /\ DOMAIN Put(store, k, cell) = DOMAIN store \cup {k}
           /\ Put(store, k, cell)[k] = cell
           /\ \A j \in DOMAIN store : j # k => Put(store, k, cell)[j] = store[j]
  BY DEF Put

LEMMA NothingEmpty == DOMAIN Nothing = {}
  BY DEF Nothing

LEMMA ListOf ==
    ASSUME NEW S, NEW n \in Nat, NEW f \in [1..n -> S]
    PROVE  /\ f \in Seq(S) /\ Len(f) = n /\ DOMAIN f = 1..n
           /\ \A i \in 1..n : f[i] \in S /\ (i > 1 => i - 1 \in 1..n)
  OBVIOUS

\* What an item adds to the books.
LEMMA NotedEffect ==
    ASSUME NEW b, DOMAIN b = BookFields, NEW item, NEW o
    PROVE  /\ DOMAIN Noted(item, b, o) = BookFields
           /\ Noted(item, b, o).index = b.index
           /\ Noted(item, b, o).report = Append(b.report, o)
           /\ o \in {"unchanged", "rejected"} => Noted(item, b, o).seen = b.seen
           /\ o \notin {"unchanged", "rejected"} =>
                 Noted(item, b, o).seen = b.seen \cup {KeyOf(item)}
           /\ Stores(o) => Noted(item, b, o).admitted = Put(b.admitted, item.ref, KeyOf(item))
           /\ ~Stores(o) => Noted(item, b, o).admitted = b.admitted
  BY DEF Noted, BookFields

\* Every export is a list of records that each occur once.
LEMMA ExportItems ==
    ASSUME source \in [text : [Refs -> Texts \cup {""}], expired : SUBSET Refs],
           NEW order \in Exports
    PROVE  ItemsOK(Items(order))
<1> DEFINE S == {r \in Refs : source.text[r] # ""}
<1>1. IsFiniteSet(S)
  BY IngestAssumption, FS_Subset
<1>2. Cardinality(S) \in Nat
  BY <1>1, FS_CardinalityType
<1>3. order \in [1..Cardinality(S) -> S] /\ \A i, j \in DOMAIN order : order[i] = order[j] => i = j
  BY DEF Exports, SetToSeqs
<1> HIDE DEF S
<1>4. order \in Seq(S) /\ Len(order) = Cardinality(S) /\ DOMAIN order = 1..Len(order)
     /\ \A i \in 1..Len(order) : order[i] \in S /\ (i > 1 => i - 1 \in 1..Len(order))
  BY <1>2, <1>3, ListOf
<1>l. Len(order) \in Nat
  BY <1>2, <1>4
<1>r. ASSUME NEW i \in 1..Len(order)
      PROVE  order[i] \in Refs /\ source.text[order[i]] \in Texts
  <2>1. order[i] \in S
    BY <1>4
  <2>2. QED
    BY <2>1 DEF S
<1>5. ASSUME NEW i \in 1..Len(order)
      PROVE  Item(order, i) \in Records
  <2>1. i > 1 => i - 1 \in 1..Len(order)
    BY <1>4
  <2>2. QED
    BY <1>r, <2>1 DEF Item, Records
<1>6. \A i \in 1..Len(order) : Item(order, i).ref = order[i]
  BY DEF Item
<1>7. Items(order) \in Seq(Records)
  <2>1. Items(order) \in [1..Len(order) -> Records]
    BY <1>5 DEF Items
  <2>2. QED
    BY <1>2, <1>4, <2>1, ListOf
<1>8. ASSUME NEW i \in DOMAIN Items(order), NEW j \in DOMAIN Items(order),
             Items(order)[i].ref = Items(order)[j].ref
      PROVE  i = j
  <2>1. i \in 1..Len(order) /\ j \in 1..Len(order)
    BY DEF Items
  <2>2. order[i] = order[j]
    BY <1>6, <1>8, <2>1 DEF Items
  <2>3. QED
    BY <1>3, <1>4, <2>1, <2>2
<1>9. QED
  BY <1>7, <1>8 DEF ItemsOK

-----------------------------------------------------------------------------
(* One item of a batch *)

\* What an item becomes is one of five outcomes, and a stored one is new.
LEMMA OutcomeShape ==
    ASSUME NEW item, NEW b, NEW store
    PROVE  /\ Outcome(item, b, store) \in Outcomes
           /\ Outcome(item, b, store) = "unchanged" <=> KeyOf(item) \in b.seen \cup DOMAIN store
           /\ Stores(Outcome(item, b, store)) => KeyOf(item) \notin b.seen \cup DOMAIN store
  BY DEF Outcome, Outcomes, Stores

LEMMA ItemAt ==
    ASSUME NEW items, ItemsOK(items), NEW n \in DOMAIN items
    PROVE  items[n] \in Records
  BY DEF ItemsOK

\* The books c are the books b and the outcome o of the item n.
OneMore(items, b, n, o, c) ==
    /\ Books(items, c)
    /\ n \in DOMAIN items /\ n \notin DOMAIN b.report
    /\ DOMAIN c.report = DOMAIN b.report \cup {n} /\ c.report[n] = o
    /\ \A j \in DOMAIN b.report : c.report[j] = b.report[j] /\ j \in DOMAIN items
    /\ Stores(o) => StoredBy(items, c) = StoredBy(items, b) \cup {n}
    /\ ~Stores(o) => StoredBy(items, c) = StoredBy(items, b)

\* The books after one more item.
LEMMA BooksKept ==
    ASSUME NEW items, ItemsOK(items), NEW b, Books(items, b), Len(b.report) < Len(items),
           NEW o \in Outcomes, NEW n, n = Len(b.report) + 1, NEW c, c = Noted(items[n], b, o)
    PROVE  OneMore(items, b, n, o, c)
<1> DEFINE item == items[n]
<1>0. DOMAIN b = BookFields
  BY DEF Books
<1> HIDE DEF item
<1>1. /\ DOMAIN c = BookFields /\ c.index = b.index /\ c.report = Append(b.report, o)
      /\ o \in {"unchanged", "rejected"} => c.seen = b.seen
      /\ o \notin {"unchanged", "rejected"} => c.seen = b.seen \cup {KeyOf(item)}
      /\ Stores(o) => c.admitted = Put(b.admitted, item.ref, KeyOf(item))
      /\ ~Stores(o) => c.admitted = b.admitted
  BY <1>0, NotedEffect DEF item
<1>2. b.report \in Seq(Outcomes) /\ n \in DOMAIN items
  BY DEF Books, ItemsOK
<1>3. /\ c.report \in Seq(Outcomes) /\ Len(c.report) = n
      /\ DOMAIN c.report = DOMAIN b.report \cup {n} /\ n \notin DOMAIN b.report
      /\ c.report[n] = o
      /\ \A j \in DOMAIN b.report : c.report[j] = b.report[j]
  BY <1>1, <1>2
<1>4. Len(c.report) <= Len(items) /\ \A j \in DOMAIN b.report : j \in DOMAIN items
  BY <1>2, <1>3 DEF ItemsOK, Books
<1>5. /\ Stores(o) => StoredBy(items, c) = StoredBy(items, b) \cup {n}
      /\ ~Stores(o) => StoredBy(items, c) = StoredBy(items, b)
  BY <1>3 DEF StoredBy
<1>6. \A j \in DOMAIN c.report :
         c.report[j] \notin {"unchanged", "rejected"} => KeyOf(items[j]) \in c.seen
  BY <1>1, <1>3 DEF Books, item
<1>7. \A k \in c.seen : \E j \in DOMAIN c.report : k = KeyOf(items[j])
  BY <1>1, <1>3 DEF Books, item
<1>8. \A r \in DOMAIN c.admitted : \E j \in StoredBy(items, c) :
         r = items[j].ref /\ c.admitted[r] = KeyOf(items[j])
  <2>1. CASE Stores(o)
    <3>1. n \in StoredBy(items, c) /\ StoredBy(items, b) \subseteq StoredBy(items, c)
      BY <1>5, <2>1
    <3>2. c.admitted = Put(b.admitted, item.ref, KeyOf(item))
      BY <1>1, <2>1
    <3>3. \A r \in DOMAIN c.admitted :
             \/ r = item.ref /\ c.admitted[r] = KeyOf(item)
             \/ r \in DOMAIN b.admitted /\ c.admitted[r] = b.admitted[r]
      BY <3>2 DEF Put
    <3>4. \A r \in DOMAIN b.admitted : \E j \in StoredBy(items, b) :
             r = items[j].ref /\ b.admitted[r] = KeyOf(items[j])
      BY DEF Books
    <3>5. ASSUME NEW r \in DOMAIN c.admitted
          PROVE  \E j \in StoredBy(items, c) : r = items[j].ref /\ c.admitted[r] = KeyOf(items[j])
      <4>1. CASE r = item.ref /\ c.admitted[r] = KeyOf(item)
        BY <3>1, <4>1 DEF item
      <4>2. CASE r \in DOMAIN b.admitted /\ c.admitted[r] = b.admitted[r]
        BY <3>1, <3>4, <4>2
      <4>3. QED
        BY <3>3, <4>1, <4>2
    <3>6. QED
      BY <3>5
  <2>2. CASE ~Stores(o)
    BY <1>1, <1>5, <2>2 DEF Books
  <2>3. QED
    BY <2>1, <2>2
<1>9. Books(items, c)
  BY <1>1, <1>3, <1>4, <1>6, <1>7, <1>8 DEF Books
<1>10. QED
  BY <1>2, <1>3, <1>4, <1>5, <1>9 DEF OneMore

\* The dry run and the import agree on an item: what the batch stored is
\* remembered, has other texts, and what it demoted has the text of its own
\* record only, whose key neither stores again.
LEMMA SameOutcome ==
    ASSUME NEW items, ItemsOK(items), NEW b, Books(items, b),
           NEW n \in DOMAIN items, n \notin DOMAIN b.report,
           DOMAIN b.report \subseteq DOMAIN items,
           NEW base, NEW store, Foresight(items, b, {}, base, store), Distinct(items, b.index)
    PROVE  Outcome(items[n], b, base) = Outcome(items[n], b, store)
<1> DEFINE item == items[n]
<1>0. item \in Records
  BY ItemAt
<1>1. KeyOf(item) \in DOMAIN base <=> KeyOf(item) \in DOMAIN store
  <2>1. \A j \in StoredBy(items, b) : KeyOf(item) # KeyOf(items[j])
    BY KeysApart DEF StoredBy
  <2>2. QED
    BY <2>1 DEF Foresight
<1>2. ASSUME KeyOf(item) \notin DOMAIN base, NEW k \in DOMAIN store,
             store[k] = "active", k[2] = item.text
      PROVE  k \in DOMAIN base /\ base[k] = "active"
  <2>1. \A j \in StoredBy(items, b) : KeyOf(items[j])[2] # item.text
    <3>1. \A j \in StoredBy(items, b) : j \in DOMAIN items /\ j # n
      BY DEF StoredBy
    <3>2. \A j \in DOMAIN items : KeyOf(items[j])[2] = items[j].text
      BY DEF KeyOf
    <3>3. QED
      BY <3>1, <3>2 DEF Distinct
  <2>2. QED
    BY <1>2, <2>1 DEF Foresight
<1>3. ASSUME KeyOf(item) \notin DOMAIN base, NEW k \in DOMAIN base,
             base[k] = "active", k[2] = item.text
      PROVE  k \in DOMAIN store /\ store[k] = "active"
  <2>1. ASSUME NEW r \in Refs, k \in b.index[r]
        PROVE  FALSE
    <3>1. r = item.ref
      BY <1>3, <2>1 DEF Distinct
    <3>2. k \in Keys /\ k[1] = r
      BY <2>1 DEF Books
    <3>3. k = KeyOf(item)
      BY <1>3, <3>1, <3>2, KeyParts DEF KeyOf
    <3>4. QED
      BY <1>3, <3>3
  <2>2. QED
    BY <1>3, <2>1 DEF Foresight
<1> HIDE DEF item
<1>4. QED
  BY <1>1, <1>2, <1>3 DEF Outcome, item

\* The decision on an item, and what it is stored over: nothing that was there.
LEMMA TakeEffect ==
    ASSUME IInv, TakeItem
    PROVE  LET o == Outcome(NextItem, work.acc, cells)
           IN  /\ Batch(work, cells) /\ work.demote = {} /\ Len(work.acc.report) < Len(work.items)
               /\ DOMAIN work' = WorkFields /\ work'.pc = "items" /\ work'.items = work.items
               /\ work'.acc = Noted(NextItem, work.acc, o)
               /\ work'.dry = Noted(NextItem, work.dry, Outcome(NextItem, work.dry, work.base))
               /\ Stores(o) => work'.demote = Priors(NextItem, work.acc)
               /\ ~Stores(o) => work'.demote = {}
               /\ work'.base = work.base /\ work'.alone = work.alone
               /\ KeyOf(NextItem) \in Keys /\ KeyOf(NextItem)[1] # Own
               /\ KeyOf(NextItem) \notin DOMAIN Old
               /\ Stores(o) => /\ KeyOf(NextItem) \notin DOMAIN cells
                               /\ DOMAIN cells' = DOMAIN cells \cup {KeyOf(NextItem)}
                               /\ \A k \in DOMAIN cells : cells'[k] = cells[k]
               /\ ~Stores(o) => cells' = cells
<1> DEFINE o == Outcome(NextItem, work.acc, cells)
<1>1. DOMAIN work = WorkFields /\ work.pc = "items" /\ Batch(work, cells)
  BY DEF TakeItem, IInv, WorkOK
<1>2. work.demote = {} /\ Len(work.acc.report) < Len(work.items)
  BY DEF TakeItem, Taken
<1>3. NextItem \in Records
  <2>1. Len(work.acc.report) + 1 \in DOMAIN work.items
    BY <1>1, <1>2 DEF Batch, Books, ItemsOK
  <2>2. QED
    BY <1>1, <2>1, ItemAt DEF Batch, NextItem, Taken
<1>4. work' = [work EXCEPT !.acc = Noted(NextItem, @, o), !.dry = Foreseen,
                           !.demote = IF Stores(o) THEN Priors(NextItem, work.acc) ELSE {}]
  BY DEF TakeItem
<1>5. cells' = IF Stores(o) THEN Put(cells, KeyOf(NextItem), "active") ELSE cells
  BY DEF TakeItem
<1> HIDE DEF o
<1>6. /\ DOMAIN work' = WorkFields /\ work'.pc = "items" /\ work'.items = work.items
      /\ work'.acc = Noted(NextItem, work.acc, o)
      /\ work'.dry = Foreseen
      /\ work'.base = work.base /\ work'.alone = work.alone
      /\ Stores(o) => work'.demote = Priors(NextItem, work.acc)
      /\ ~Stores(o) => work'.demote = {}
  BY <1>1, <1>4 DEF WorkFields
<1>7. Stores(o) => KeyOf(NextItem) \notin DOMAIN cells
  BY OutcomeShape DEF o
<1>8. Stores(o) => /\ DOMAIN cells' = DOMAIN cells \cup {KeyOf(NextItem)}
                   /\ \A k \in DOMAIN cells : cells'[k] = cells[k]
  BY <1>5, <1>7 DEF Put
<1>9. KeyOf(NextItem) \in Keys /\ KeyOf(NextItem)[1] # Own /\ KeyOf(NextItem) \notin DOMAIN Old
  BY <1>3, ItemKey
<1>10. QED
  BY <1>1, <1>2, <1>5, <1>6, <1>7, <1>8, <1>9 DEF o, Foreseen

\* What an item replaces was in the index or was stored by the batch.
LEMMA PriorsFrom ==
    ASSUME NEW item, NEW b, NEW k \in Priors(item, b)
    PROVE  \/ \E r \in {item.ref} \cup item.closes : k \in b.index[r]
           \/ \E r \in DOMAIN b.admitted : k = b.admitted[r]
  BY DEF Priors

\* Taking an item leaves a batch in order.
LEMMA TakeKeepsBatch ==
    ASSUME IInv, TakeItem
    PROVE  Batch(work', cells')
<1> DEFINE b == work.acc
           n == Len(b.report) + 1
           o == Outcome(NextItem, b, cells)
           c == Noted(NextItem, b, o)
<1>e. /\ Batch(work, cells) /\ work.demote = {} /\ Len(b.report) < Len(work.items)
      /\ work'.items = work.items /\ work'.acc = c
      /\ work'.dry = Noted(NextItem, work.dry, Outcome(NextItem, work.dry, work.base))
      /\ Stores(o) => work'.demote = Priors(NextItem, b)
      /\ ~Stores(o) => work'.demote = {}
      /\ work'.base = work.base /\ work'.alone = work.alone
      /\ Stores(o) => /\ KeyOf(NextItem) \notin DOMAIN cells
                      /\ DOMAIN cells' = DOMAIN cells \cup {KeyOf(NextItem)}
                      /\ \A k \in DOMAIN cells : cells'[k] = cells[k]
      /\ ~Stores(o) => cells' = cells
  BY TakeEffect
<1>i. NextItem = work.items[n]
  BY DEF NextItem, Taken
<1>o. o \in Outcomes /\ (o = "unchanged" <=> KeyOf(NextItem) \in b.seen \cup DOMAIN cells)
  BY OutcomeShape
<1>d. ItemsOK(work.items) /\ Books(work.items, b) /\ Landing(work.items, b, cells)
  BY <1>e DEF Batch
<1>b. /\ Books(work.items, c)
      /\ n \in DOMAIN work.items /\ DOMAIN c.report = DOMAIN b.report \cup {n}
      /\ c.report[n] = o /\ n \notin DOMAIN b.report
      /\ \A j \in DOMAIN b.report : c.report[j] = b.report[j] /\ j \in DOMAIN work.items
      /\ Stores(o) => StoredBy(work.items, c) = StoredBy(work.items, b) \cup {n}
      /\ ~Stores(o) => StoredBy(work.items, c) = StoredBy(work.items, b)
  <2>1. c = Noted(work.items[n], b, o)
    BY <1>i
  <2> HIDE DEF b, c, o
  <2>2. ItemsOK(work.items) /\ Books(work.items, b) /\ o \in Outcomes
    BY <1>d, <1>o
  <2>3. Len(b.report) < Len(work.items) /\ n = Len(b.report) + 1
    BY <1>e DEF n
  <2> HIDE DEF n
  <2>4. OneMore(work.items, b, n, o, c)
    BY <2>1, <2>2, <2>3, BooksKept
  <2>5. QED
    BY <2>4 DEF OneMore
<1>x. c.index = b.index
  BY <1>d, NotedEffect DEF Books
<1> HIDE DEF b, n, o, c
<1>1. Landing(work.items, c, cells')
  <2>1. Landed(o) => KeyOf(NextItem) \in DOMAIN cells'
    <3>1. KeyOf(NextItem) \notin b.seen
      BY <1>b, <1>d, <1>i, KeysApart DEF Books
    <3>2. QED
      BY <1>e, <1>o, <3>1 DEF Landed
  <2>2. DOMAIN cells \subseteq DOMAIN cells'
    BY <1>e
  <2>3. QED
    BY <1>b, <1>d, <1>i, <2>1, <2>2 DEF Landing
<1>2. ASSUME work.alone
      PROVE  /\ Foresight(work.items, c, work'.demote, work.base, cells')
             /\ Distinct(work.items, c.index) => work'.dry = c
  <2>0. Foresight(work.items, b, {}, work.base, cells)
    BY <1>2, <1>e DEF Batch, b
  <2>1. ASSUME ~Stores(o)
        PROVE  Foresight(work.items, c, work'.demote, work.base, cells')
    <3>1. StoredBy(work.items, c) = StoredBy(work.items, b)
      BY <1>b, <2>1
    <3>2. cells' = cells /\ work'.demote = {}
      BY <1>e, <2>1
    <3>3. QED
      BY <1>x, <2>0, <3>1, <3>2 DEF Foresight
  <2>2. ASSUME Stores(o)
        PROVE  Foresight(work.items, c, work'.demote, work.base, cells')
    <3>1. n \in StoredBy(work.items, c) /\ StoredBy(work.items, c) = StoredBy(work.items, b) \cup {n}
      BY <1>b, <2>2
    <3>2. \A k \in DOMAIN cells' :
             k \in DOMAIN work.base \/ \E j \in StoredBy(work.items, c) : k = KeyOf(work.items[j])
      BY <1>e, <1>i, <2>0, <2>2, <3>1 DEF Foresight
    <3>3. \A k \in DOMAIN work.base :
             /\ k \in DOMAIN cells'
             /\ \/ cells'[k] = work.base[k]
                \/ cells'[k] = "superseded" /\ \E r \in Refs : k \in c.index[r]
      BY <1>e, <1>x, <2>0, <2>2 DEF Foresight
    <3>4. \A j \in StoredBy(work.items, c) : KeyOf(work.items[j]) \notin DOMAIN work.base
      BY <1>e, <1>i, <2>0, <2>2, <3>1 DEF Foresight
    <3>5. \A k \in work'.demote : \/ \E r \in Refs : k \in c.index[r]
                                  \/ \E j \in StoredBy(work.items, c) : k = KeyOf(work.items[j])
      <4>1. NextItem.ref \in Refs /\ NextItem.closes \subseteq Refs
        BY <1>b, <1>d, <1>i, ItemAt DEF Records
      <4>2. \A r \in DOMAIN b.admitted : \E j \in StoredBy(work.items, b) :
               b.admitted[r] = KeyOf(work.items[j])
        BY <1>d DEF Books
      <4>3. work'.demote = Priors(NextItem, b)
        BY <1>e, <2>2
      <4>4. ASSUME NEW k \in Priors(NextItem, b)
            PROVE  \/ \E r \in Refs : k \in b.index[r]
                   \/ \E j \in StoredBy(work.items, b) : k = KeyOf(work.items[j])
        BY <4>1, <4>2, PriorsFrom
      <4>5. QED
        BY <1>x, <3>1, <4>3, <4>4
    <3>6. QED
      BY <3>2, <3>3, <3>4, <3>5 DEF Foresight
  <2>3. Distinct(work.items, c.index) => work'.dry = c
    <3>1. ASSUME Distinct(work.items, b.index)
          PROVE  work.dry = b /\ Outcome(NextItem, b, work.base) = o
      <4>1. work.dry = b
        BY <1>2, <1>e, <3>1 DEF Batch, b
      <4>2. DOMAIN b.report \subseteq DOMAIN work.items
        BY <1>b
      <4>3. QED
        BY <1>b, <1>d, <1>i, <2>0, <3>1, <4>1, <4>2, SameOutcome DEF o
    <3>2. QED
      BY <1>e, <1>x, <3>1 DEF c
  <2>4. QED
    BY <2>1, <2>2, <2>3
<1>3. QED
  BY <1>1, <1>2, <1>b, <1>d, <1>e DEF Batch

\* Taking an item: what it replaces is to be demoted next.
LEMMA TakeKeepsVersions ==
    ASSUME IInv, TakeItem, Versions(work.items, work.acc, work.demote, cells)
    PROVE  Versions(work'.items, work'.acc, work'.demote, cells')
<1> DEFINE b == work.acc
           n == Len(b.report) + 1
           o == Outcome(NextItem, b, cells)
           c == Noted(NextItem, b, o)
<1>e. /\ Batch(work, cells) /\ work.demote = {} /\ Len(b.report) < Len(work.items)
      /\ work'.items = work.items /\ work'.acc = c
      /\ Stores(o) => work'.demote = Priors(NextItem, b)
      /\ ~Stores(o) => work'.demote = {}
      /\ Stores(o) => /\ KeyOf(NextItem) \notin DOMAIN cells
                      /\ DOMAIN cells' = DOMAIN cells \cup {KeyOf(NextItem)}
                      /\ \A k \in DOMAIN cells : cells'[k] = cells[k]
      /\ ~Stores(o) => cells' = cells
  BY TakeEffect
<1>d. ItemsOK(work.items) /\ Books(work.items, b)
  BY <1>e DEF Batch
<1>i. NextItem = work.items[n] /\ n = Len(b.report) + 1
  BY DEF NextItem, Taken
<1>o. o \in Outcomes
  BY OutcomeShape
<1> HIDE DEF n, o
<1>b. /\ n \in DOMAIN work.items /\ n \notin DOMAIN b.report
      /\ \A j \in DOMAIN b.report : j \in DOMAIN work.items
      /\ Stores(o) => StoredBy(work.items, c) = StoredBy(work.items, b) \cup {n}
      /\ ~Stores(o) => StoredBy(work.items, c) = StoredBy(work.items, b)
  <2>1. c = Noted(work.items[n], b, o) /\ Len(b.report) < Len(work.items)
    BY <1>e, <1>i
  <2> HIDE DEF b, c
  <2>2. OneMore(work.items, b, n, o, c)
    BY <1>d, <1>i, <1>o, <2>1, BooksKept
  <2>3. QED
    BY <2>2 DEF OneMore
<1>x. c.index = b.index
  BY <1>d, NotedEffect DEF Books
<1> HIDE DEF b, c
<1>v. Versions(work.items, b, {}, cells)
  BY <1>e DEF b
<1>1. CASE ~Stores(o)
  BY <1>1, <1>b, <1>e, <1>x, <1>v DEF Versions
<1>2. CASE Stores(o)
  <2>1. n \in StoredBy(work.items, c) /\ StoredBy(work.items, c) = StoredBy(work.items, b) \cup {n}
    BY <1>b, <1>2
  <2>2. ASSUME NEW k \in DOMAIN cells', cells'[k] = "active", k[1] # Own
        PROVE  \/ k \in c.index[k[1]]
               \/ \E j \in StoredBy(work.items, c) : k = KeyOf(work.items[j])
    BY <1>2, <1>e, <1>i, <1>x, <1>v, <2>1, <2>2 DEF Versions
  <2>3. ASSUME NEW j \in StoredBy(work.items, c), NEW k \in c.index[work.items[j].ref],
               k \in DOMAIN cells', cells'[k] = "active"
        PROVE  k \in work'.demote
    <3>r. /\ work.items[n].ref \in Refs
          /\ \A i \in StoredBy(work.items, b) : i \in DOMAIN work.items /\ work.items[i].ref \in Refs
      BY <1>b, <1>d, ItemAt DEF Records, StoredBy
    <3>1. CASE j = n
      BY <1>2, <1>e, <1>i, <1>x, <2>3, <3>1 DEF Priors
    <3>2. CASE j \in StoredBy(work.items, b)
      <4>1. k[1] = work.items[j].ref
        BY <1>d, <1>x, <2>3, <3>2, <3>r DEF Books
      <4>2. k # KeyOf(NextItem)
        BY <1>b, <1>d, <1>i, <3>2, <3>r, <4>1, KeysApart DEF KeyOf, StoredBy
      <4>3. k \in DOMAIN cells /\ cells[k] = "active"
        BY <1>2, <1>e, <2>3, <4>2
      <4>4. QED
        BY <1>v, <1>x, <2>3, <3>2, <4>3 DEF Versions
    <3>3. QED
      BY <2>1, <3>1, <3>2
  <2>4. \A r \in Refs : \A j, k \in c.index[r] : j = k
    BY <1>v, <1>x DEF Versions
  <2>5. QED
    BY <1>e, <2>2, <2>3, <2>4 DEF Versions
<1>3. QED
  BY <1>1, <1>2

\* What the graph gains, it gains for good, and as a version that is new.
LEMMA TakeItemKeeps ==
    ASSUME IInv, TakeItem
    PROVE  IInv'
<1> DEFINE o == Outcome(NextItem, work.acc, cells)
<1>1. /\ DOMAIN work' = WorkFields /\ work'.pc = "items"
      /\ KeyOf(NextItem) \in Keys /\ KeyOf(NextItem) \notin DOMAIN Old
      /\ Stores(o) => /\ DOMAIN cells' = DOMAIN cells \cup {KeyOf(NextItem)}
                      /\ \A k \in DOMAIN cells : cells'[k] = cells[k]
      /\ ~Stores(o) => cells' = cells
  BY TakeEffect
<1>2. UNCHANGED <<source, joined, export, archive, done, kills, restored>> /\ work.pc = "items"
  BY DEF TakeItem
<1>3. DOMAIN cells \subseteq DOMAIN cells' /\ DOMAIN cells' \subseteq Keys
  BY <1>1 DEF IInv
<1>4. Retires(cells')
  BY <1>1 DEF IInv, Retires, RetiredOld
<1>5. WorkOK(work', cells')
  BY <1>1, TakeKeepsBatch DEF WorkOK
<1>6. kills' = 0 /\ ~restored' => OneAtATime(work', cells')
  BY <1>1, <1>2, TakeKeepsVersions DEF IInv, OneAtATime
<1>7. DryRunPredicts'
  BY <1>2 DEF IInv, DryRunPredicts
<1>8. QED
  BY <1>1, <1>2, <1>3, <1>4, <1>5, <1>6, <1>7 DEF IInv

-----------------------------------------------------------------------------
(* The other steps *)

LEMMA RestOK ==
    ASSUME NEW store
    PROVE  DOMAIN Rest = WorkFields /\ Rest.pc = "idle" /\ WorkOK(Rest, store)
<1>1. DOMAIN Rest = WorkFields /\ Rest.pc = "idle"
  BY DEF Rest, WorkFields
<1>2. QED
  BY <1>1 DEF WorkOK

LEMMA NothingEver == Distinct(NotYet.items, NotYet.index) => NotYet.predicted = NotYet.report
  BY DEF NotYet

\* A batch begins with empty books.
LEMMA BlankBooks ==
    ASSUME NEW items, ItemsOK(items), NEW index, NEW store,
           \A r \in Refs : \A k \in index[r] : k \in Keys /\ k[1] = r
    PROVE  /\ Books(items, Blank(index)) /\ Blank(index).index = index
           /\ Landing(items, Blank(index), store)
           /\ StoredBy(items, Blank(index)) = {}
<1> DEFINE b == Blank(index)
<1>1. /\ DOMAIN b = BookFields /\ b.index = index /\ b.seen = {} /\ b.report = <<>>
      /\ DOMAIN b.admitted = {}
  BY DEF Blank, BookFields
<1>2. Len(items) \in Nat
  BY DEF ItemsOK
<1> HIDE DEF b
<1>3. b.report \in Seq(Outcomes) /\ Len(b.report) = 0 /\ DOMAIN b.report = {}
  BY <1>1
<1>4. Books(items, b)
  BY <1>1, <1>2, <1>3 DEF Books
<1>5. QED
  BY <1>1, <1>3, <1>4 DEF Landing, StoredBy, b

\* An import begins with what is in the graph and in the source.
LEMMA BeginKeeps ==
    ASSUME IInv, NEW order \in Exports, Begin(order)
    PROVE  IInv'
<1>1. UNCHANGED <<source, cells, joined, export, archive, done, kills, restored>> /\ work.pc = "idle"
  BY DEF Begin
<1>2. /\ DOMAIN work' = WorkFields /\ work'.pc = "items" /\ work'.items = Items(order)
      /\ work'.base = cells /\ work'.acc = Blank(Index) /\ work'.dry = Blank(Index)
      /\ work'.demote = {}
  BY DEF Begin, Rest, WorkFields
<1>3. ItemsOK(Items(order))
  BY ExportItems DEF IInv
<1>4. \A r \in Refs : \A k \in Index[r] : k \in Keys /\ k[1] = r
  BY DEF Index, Active, IInv
<1> DEFINE b == Blank(Index)
<1>5. Books(Items(order), b) /\ b.index = Index /\ Landing(Items(order), b, cells)
         /\ StoredBy(Items(order), b) = {}
  BY <1>3, <1>4, BlankBooks
<1> HIDE DEF b
<1>6. Foresight(Items(order), b, {}, cells, cells)
  BY <1>5 DEF Foresight
<1>7. Batch(work', cells')
  BY <1>1, <1>2, <1>3, <1>5, <1>6 DEF Batch, b
<1>8. ASSUME SingleVersions(cells)
      PROVE  Versions(Items(order), b, {}, cells)
  <2>1. \A r \in Refs : \A k \in Index[r] : k \in DOMAIN cells /\ cells[k] = "active" /\ k[1] = r
    BY DEF Index, Active
  <2>2. ASSUME NEW r \in Refs, NEW j \in Index[r], NEW k \in Index[r]
        PROVE  j = k
    <3>1. j[1] = r /\ k[1] = r /\ r # Own
      BY <2>1, IngestAssumption
    <3>2. QED
      BY <1>8, <2>1, <3>1 DEF SingleVersions
  <2>3. \A k \in DOMAIN cells : cells[k] = "active" /\ k[1] # Own => k \in Index[k[1]]
    BY KeyParts DEF Index, Active, IInv
  <2>4. QED
    BY <1>5, <2>2, <2>3 DEF Versions
<1>9. kills' = 0 /\ ~restored' => OneAtATime(work', cells')
  BY <1>1, <1>2, <1>8 DEF IInv, OneAtATime, b
<1>10. WorkOK(work', cells')
  BY <1>2, <1>7 DEF WorkOK
<1>11. DryRunPredicts'
  BY <1>1 DEF IInv, DryRunPredicts
<1>12. QED
  BY <1>1, <1>2, <1>9, <1>10, <1>11 DEF IInv

\* What is demoted was not in the graph that the batch began with, or the
\* index had it.
LEMMA DemoteKeeps ==
    ASSUME IInv, Demote
    PROVE  IInv'
<1>1. PICK k \in work.demote : /\ cells' = [cells EXCEPT ![k] = "superseded"]
                               /\ work' = [work EXCEPT !.demote = @ \ {k}]
  BY DEF Demote
<1>2. UNCHANGED <<source, joined, export, archive, done, kills, restored>> /\ work.pc = "items"
  BY DEF Demote
<1>3. DOMAIN work = WorkFields /\ Batch(work, cells)
  BY <1>2 DEF IInv, WorkOK
<1>4. /\ DOMAIN work' = WorkFields /\ work'.pc = "items" /\ work'.items = work.items
      /\ work'.acc = work.acc /\ work'.dry = work.dry /\ work'.base = work.base
      /\ work'.alone = work.alone /\ work'.demote = work.demote \ {k}
  BY <1>1, <1>2, <1>3 DEF WorkFields
<1>5. /\ DOMAIN cells' = DOMAIN cells
      /\ \A c \in DOMAIN cells : cells'[c] = IF c = k THEN "superseded" ELSE cells[c]
  BY <1>1
<1> DEFINE items == work.items
           b == work.acc
<1> HIDE DEF items, b
<1>6. Foresight(items, b, work.demote, work.base, cells)
         => Foresight(items, b, work.demote \ {k}, work.base, cells')
  BY <1>5 DEF Foresight
<1>7. Batch(work', cells')
  <2>1. Landing(items, b, cells')
    BY <1>3, <1>5 DEF Batch, Landing, items, b
  <2>2. QED
    BY <1>3, <1>4, <1>6, <2>1 DEF Batch, items, b
<1>8. Versions(items, b, work.demote, cells) => Versions(items, b, work.demote \ {k}, cells')
  BY <1>5 DEF Versions
<1>9. kills' = 0 /\ ~restored' => OneAtATime(work', cells')
  BY <1>2, <1>4, <1>8 DEF IInv, OneAtATime, items, b
<1>10. WorkOK(work', cells') /\ Retires(cells')
  BY <1>4, <1>5, <1>7 DEF WorkOK, IInv, Retires
<1>11. DryRunPredicts'
  BY <1>2 DEF IInv, DryRunPredicts
<1>12. QED
  BY <1>2, <1>4, <1>5, <1>9, <1>10, <1>11 DEF IInv

\* An import ends: its versions are single, and its report was foreseen.
LEMMA ReattachKeeps ==
    ASSUME IInv, Reattach
    PROVE  IInv'
<1>1. UNCHANGED <<source, cells, export, archive, kills, restored>> /\ work.pc = "items"
         /\ work.demote = {} /\ Taken = Len(work.items) /\ work' = Rest
  BY DEF Reattach
<1>2. Batch(work, cells)
  BY <1>1 DEF IInv, WorkOK
<1>3. DryRunPredicts'
  <2>1. CASE ~work.alone
    <3>1. done' = NotYet
      BY <2>1 DEF Reattach
    <3>2. QED
      BY <3>1, NothingEver DEF DryRunPredicts
  <2>2. CASE work.alone
    <3>1. /\ done'.items = work.items /\ done'.report = work.acc.report
          /\ done'.predicted = work.dry.report /\ done'.index = work.acc.index
      BY <2>2 DEF Reattach
    <3>2. QED
      BY <1>2, <2>2, <3>1 DEF Batch, DryRunPredicts
  <2>3. QED
    BY <2>1, <2>2
<1>6. ASSUME Versions(work.items, work.acc, {}, cells)
      PROVE  SingleVersions(cells)
  <2> SUFFICES ASSUME NEW j \in DOMAIN cells, NEW k \in DOMAIN cells,
                      cells[j] = "active", cells[k] = "active", j[1] = k[1], j[1] # Own
               PROVE  j = k
    BY DEF SingleVersions
  <2> DEFINE old(x) == x \in work.acc.index[x[1]]
             new(x, i) == i \in StoredBy(work.items, work.acc) /\ x = KeyOf(work.items[i])
  <2>1. /\ old(j) \/ \E i : new(j, i)
        /\ old(k) \/ \E i : new(k, i)
    BY <1>6 DEF Versions
  <2>2. j[1] \in Refs
    BY KeyParts DEF IInv
  <2>3. \A i \in StoredBy(work.items, work.acc) : i \in DOMAIN work.items
    BY <1>2 DEF StoredBy, Batch, Books, ItemsOK
  <2>4. CASE old(j) /\ old(k)
    BY <1>6, <2>2, <2>4 DEF Versions
  <2>5. ASSUME NEW i, new(j, i), old(k)
        PROVE  FALSE
    <3>1. work.items[i].ref = k[1]
      BY <2>5 DEF KeyOf
    <3>2. QED
      BY <1>6, <2>5, <3>1 DEF Versions
  <2>6. ASSUME NEW i, new(k, i), old(j)
        PROVE  FALSE
    <3>1. work.items[i].ref = j[1]
      BY <2>6 DEF KeyOf
    <3>2. QED
      BY <1>6, <2>6, <3>1 DEF Versions
  <2>7. ASSUME NEW h, NEW i, new(j, h), new(k, i)
        PROVE  j = k
    <3>1. work.items[h].ref = work.items[i].ref
      BY <2>7 DEF KeyOf
    <3>2. h = i
      BY <1>2, <2>3, <2>7, <3>1, KeysApart DEF Batch
    <3>3. QED
      BY <2>7, <3>2
  <2>8. QED
    BY <2>1, <2>4, <2>5, <2>6, <2>7
<1>7. kills' = 0 /\ ~restored' => OneAtATime(work', cells')
  BY <1>1, <1>6, RestOK DEF IInv, OneAtATime
<1>8. QED
  BY <1>1, <1>3, <1>7, RestOK DEF IInv

\* An archive is a copy of the graph at a moment, its cells at an earlier one.
LEMMA ExportKeeps ==
    ASSUME IInv, ExportCells \/ ExportBundles
    PROVE  IInv'
<1>1. UNCHANGED <<source, cells, joined, work, done, kills, restored>>
  BY DEF ExportCells, ExportBundles
<1>2. DOMAIN NoExport.cells \subseteq Keys /\ Retires(NoExport.cells)
  BY NothingEmpty DEF NoExport, Retires
<1>3. /\ export'.cells \in {cells, NoExport.cells}
      /\ archive'.cells \in {archive.cells, export.cells}
  BY DEF ExportCells, ExportBundles, NoExport
<1>4. QED
  BY <1>1, <1>2, <1>3 DEF IInv, DryRunPredicts

\* A restore puts cells of an archive, a migration the rows of an old database,
\* of which none comes back to life.
LEMMA BeginPutKeeps ==
    ASSUME IInv, NEW put, NEW join, BeginPut(put, join),
           DOMAIN put \subseteq Keys, Retires(put)
    PROVE  IInv'
<1>1. UNCHANGED <<source, cells, joined, export, archive, done, kills>> /\ restored' = TRUE
  BY DEF BeginPut
<1>2. DOMAIN work' = WorkFields /\ work'.pc = "put" /\ work'.put = put
  BY DEF BeginPut, Rest, WorkFields
<1>3. WorkOK(work', cells')
  BY <1>2 DEF WorkOK
<1>4. QED
  BY <1>1, <1>2, <1>3 DEF IInv, DryRunPredicts

LEMMA RestoreKeeps ==
    ASSUME IInv, Restore
    PROVE  IInv'
<1>1. PICK kept \in SUBSET DOMAIN archive.cells :
         BeginPut(Restrict(archive.cells, kept), archive.joined)
  BY DEF Restore
<1> DEFINE put == Restrict(archive.cells, kept)
<1>2. DOMAIN put = kept /\ \A k \in kept : put[k] = archive.cells[k]
  BY DEF Restrict
<1>3. DOMAIN put \subseteq Keys /\ Retires(put)
  BY <1>2 DEF IInv, Retires
<1> HIDE DEF put
<1>4. BeginPut(put, archive.joined)
  BY <1>1 DEF put
<1>5. QED
  BY <1>3, <1>4, BeginPutKeeps

LEMMA MigrateKeeps ==
    ASSUME IInv, Migrate
    PROVE  IInv'
<1> DEFINE put == [k \in DOMAIN Old |-> Migrated(Old[k])]
<1>1. DOMAIN put \subseteq Keys
  BY DEF Keys
<1>2. Retires(put)
  <2> SUFFICES ASSUME NEW k \in RetiredOld PROVE put[k] # "active"
    BY DEF Retires
  <2>1. k \in DOMAIN Old /\ Old[k] \in {"superseded", "annexed", "archived"}
    BY DEF RetiredOld
  <2>2. Migrated(Old[k]) # "active"
    BY <2>1 DEF Migrated
  <2>3. QED
    BY <2>1, <2>2
<1>3. BeginPut(put, OldBundles)
  BY DEF Migrate
<1> HIDE DEF put
<1>4. QED
  BY <1>1, <1>2, <1>3, BeginPutKeeps

\* A cell is put over what the graph has under its key.
LEMMA PutCellKeeps ==
    ASSUME IInv, PutCell
    PROVE  IInv'
<1>1. PICK k \in DOMAIN work.put :
         /\ cells' = Put(cells, k, work.put[k])
         /\ work' = [work EXCEPT !.put = Restrict(@, DOMAIN @ \ {k})]
  BY DEF PutCell
<1>2. UNCHANGED <<source, joined, export, archive, done, kills, restored>> /\ work.pc = "put"
  BY DEF PutCell
<1>3. DOMAIN work = WorkFields /\ DOMAIN work.put \subseteq Keys /\ Retires(work.put) /\ restored
  BY <1>2 DEF IInv, WorkOK
<1> DEFINE rest == Restrict(work.put, DOMAIN work.put \ {k})
<1>4. DOMAIN work' = WorkFields /\ work'.pc = "put" /\ work'.put = rest
  BY <1>1, <1>2, <1>3 DEF WorkFields
<1>5. DOMAIN rest = DOMAIN work.put \ {k} /\ \A c \in DOMAIN rest : rest[c] = work.put[c]
  BY DEF Restrict
<1> HIDE DEF rest
<1>6. /\ DOMAIN cells' = DOMAIN cells \cup {k}
      /\ \A c \in DOMAIN cells' : cells'[c] = IF c = k THEN work.put[k] ELSE cells[c]
  BY <1>1 DEF Put
<1>7. Retires(cells') /\ Retires(rest)
  BY <1>3, <1>5, <1>6 DEF IInv, Retires
<1>8. DOMAIN cells' \subseteq Keys
  BY <1>3, <1>6 DEF IInv
<1>9. WorkOK(work', cells')
  BY <1>3, <1>4, <1>5, <1>7, <1>8 DEF WorkOK
<1>10. QED
  BY <1>2, <1>3, <1>4, <1>7, <1>8, <1>9 DEF IInv, DryRunPredicts

LEMMA PutBundleKeeps ==
    ASSUME IInv, PutBundle
    PROVE  IInv'
<1>1. UNCHANGED <<source, cells, export, archive, done, kills, restored>> /\ work.pc = "put"
  BY DEF PutBundle
<1>2. DOMAIN work = WorkFields
  BY DEF IInv, WorkOK
<1>3. DOMAIN work' = WorkFields /\ work'.pc = "put" /\ work'.put = work.put
  BY <1>1, <1>2 DEF PutBundle, WorkFields
<1>4. WorkOK(work', cells')
  BY <1>1, <1>3 DEF IInv, WorkOK
<1>5. QED
  BY <1>1, <1>3, <1>4 DEF IInv, DryRunPredicts

LEMMA EndPutKeeps ==
    ASSUME IInv, EndPut
    PROVE  IInv'
<1>1. UNCHANGED <<source, cells, joined, export, archive, done, kills, restored>> /\ work' = Rest
         /\ work.pc = "put"
  BY DEF EndPut
<1>2. restored
  BY <1>1 DEF IInv
<1>3. QED
  BY <1>1, <1>2, RestOK DEF IInv, DryRunPredicts

\* A source that changes disturbs nothing that is under way.
LEMMA SourceKeeps ==
    ASSUME IInv, NEW r \in Refs,
           (\E text \in Texts : Edit(r, text)) \/ Expire(r)
    PROVE  IInv'
<1>1. UNCHANGED <<cells, joined, export, archive, work, done, kills, restored>>
  BY DEF Edit, Expire, Elsewhere
<1>2. source' \in [text : [Refs -> Texts \cup {""}], expired : SUBSET Refs]
  <2>0. source \in [text : [Refs -> Texts \cup {""}], expired : SUBSET Refs]
    BY DEF IInv
  <2>1. ASSUME NEW text \in Texts, Edit(r, text)
        PROVE  source' \in [text : [Refs -> Texts \cup {""}], expired : SUBSET Refs]
    BY <2>0, <2>1 DEF Edit
  <2>2. ASSUME Expire(r)
        PROVE  source' \in [text : [Refs -> Texts \cup {""}], expired : SUBSET Refs]
    BY <2>0, <2>2 DEF Expire
  <2>3. QED
    BY <2>1, <2>2
<1>3. QED
  BY <1>1, <1>2 DEF IInv, DryRunPredicts

\* What an agent writes is new, is nobody's version, and ends the hope that an
\* import under way is undisturbed.
LEMMA WriteKeeps ==
    ASSUME IInv, NEW text \in Texts, Write(text)
    PROVE  IInv'
<1> DEFINE k == <<Own, text>>
<1>1. UNCHANGED <<source, joined, export, archive, done, kills, restored>> /\ k \notin DOMAIN cells
         /\ cells' = Put(cells, k, "active") /\ work' = [work EXCEPT !.alone = work.pc = "idle"]
  BY DEF Write, Elsewhere
<1>2. k \in Keys /\ k[1] = Own /\ k \notin DOMAIN Old
  BY IngestAssumption DEF Keys
<1> HIDE DEF k
<1>3. /\ DOMAIN cells' = DOMAIN cells \cup {k} /\ cells'[k] = "active"
      /\ \A c \in DOMAIN cells : cells'[c] = cells[c]
  BY <1>1 DEF Put
<1>4. /\ DOMAIN work' = WorkFields /\ work'.pc = work.pc /\ work'.items = work.items
      /\ work'.acc = work.acc /\ work'.demote = work.demote /\ work'.put = work.put
      /\ (work'.pc # "idle" => ~work'.alone)
  BY <1>1 DEF IInv, WorkOK, WorkFields
<1>5. Retires(cells') /\ DOMAIN cells \subseteq DOMAIN cells' /\ DOMAIN cells' \subseteq Keys
  BY <1>2, <1>3 DEF IInv, Retires, RetiredOld
<1>6. work.pc = "items" => Batch(work', cells')
  BY <1>4, <1>5 DEF IInv, WorkOK, Batch, Landing
<1>7. WorkOK(work', cells')
  BY <1>4, <1>5, <1>6 DEF IInv, WorkOK
<1>8. ASSUME work.pc = "items", Versions(work.items, work.acc, work.demote, cells)
      PROVE  Versions(work.items, work.acc, work.demote, cells')
  <2>1. Books(work.items, work.acc) /\ ItemsOK(work.items)
    BY <1>8 DEF IInv, WorkOK, Batch
  <2>2. \A j \in StoredBy(work.items, work.acc) : work.items[j].ref \in Refs
    <3>1. \A j \in StoredBy(work.items, work.acc) : j \in DOMAIN work.items
      BY <2>1 DEF Books, ItemsOK, StoredBy
    <3>2. \A j \in DOMAIN work.items : work.items[j] \in Records
      BY <2>1, ItemAt
    <3>3. QED
      BY <3>1, <3>2 DEF Records
  <2>3. \A j \in StoredBy(work.items, work.acc) : k \notin work.acc.index[work.items[j].ref]
    BY <1>2, <2>1, <2>2, IngestAssumption DEF Books
  <2>4. QED
    BY <1>2, <1>3, <1>8, <2>3 DEF Versions
<1>9. SingleVersions(cells) => SingleVersions(cells')
  BY <1>2, <1>3 DEF SingleVersions
<1>10. kills' = 0 /\ ~restored' => OneAtATime(work', cells')
  BY <1>1, <1>4, <1>8, <1>9 DEF IInv, OneAtATime
<1>11. QED
  BY <1>1, <1>4, <1>5, <1>7, <1>10 DEF IInv, DryRunPredicts

LEMMA FreshKeeps ==
    ASSUME IInv, Fresh
    PROVE  IInv'
<1>1. UNCHANGED <<source, archive, work, kills, restored>> /\ work.pc = "idle"
         /\ cells' = Nothing /\ export'.cells = Nothing /\ done' = NotYet
  BY DEF Fresh, NoExport, Elsewhere
<1>2. DOMAIN cells' = {} /\ DOMAIN export'.cells = {}
  BY <1>1, NothingEmpty
<1>3. Retires(cells') /\ Retires(export'.cells) /\ SingleVersions(cells')
  BY <1>2 DEF Retires, SingleVersions
<1>4. WorkOK(work', cells') /\ OneAtATime(work', cells')
  BY <1>1, <1>3 DEF IInv, WorkOK, OneAtATime
<1>5. DryRunPredicts'
  BY <1>1, NothingEver DEF DryRunPredicts
<1>6. QED
  BY <1>1, <1>2, <1>3, <1>4, <1>5 DEF IInv

LEMMA KillKeeps ==
    ASSUME IInv, Kill
    PROVE  IInv'
<1>1. UNCHANGED <<source, cells, joined, export, archive, done, restored>> /\ work' = Rest
         /\ kills' = kills + 1
  BY DEF Kill
<1>n. kills \in Nat
  BY DEF IInv
<1>2. kills' \in Nat /\ kills' # 0
  BY <1>1, <1>n
<1>3. QED
  BY <1>1, <1>2, RestOK DEF IInv, DryRunPredicts

LEMMA InitHolds == Init => IInv
<1> SUFFICES ASSUME Init PROVE IInv
  OBVIOUS
<1>1. /\ cells = Nothing /\ work = Rest /\ done = NotYet /\ kills = 0 /\ restored = FALSE
      /\ export.cells = Nothing /\ archive.cells = Nothing
  BY DEF Init, NoExport
<1>2. source \in [text : [Refs -> Texts \cup {""}], expired : SUBSET Refs]
  <2>1. source \in [text : [Refs -> Initial], expired : {{}}]
    BY DEF Init
  <2>2. QED
    BY <2>1, IngestAssumption
<1>4. Retires(Nothing) /\ SingleVersions(Nothing) /\ DOMAIN Nothing \subseteq Keys
  BY NothingEmpty DEF Retires, SingleVersions
<1>5. DryRunPredicts
  BY <1>1, NothingEver DEF DryRunPredicts
<1>6. QED
  BY <1>1, <1>2, <1>4, <1>5, RestOK DEF IInv, OneAtATime

\* Every step keeps the invariant.
LEMMA StepKeeps ==
    ASSUME IInv, [Next]_vars
    PROVE  IInv'
<1>1. CASE UNCHANGED vars
  BY <1>1 DEF vars, IInv, DryRunPredicts
<1>2. CASE Next
  BY <1>2, BeginKeeps, TakeItemKeeps, DemoteKeeps, ReattachKeeps, ExportKeeps, RestoreKeeps,
     MigrateKeeps, PutCellKeeps, PutBundleKeeps, EndPutKeeps, SourceKeeps, WriteKeeps,
     FreshKeeps, KillKeeps DEF Next
<1>3. QED
  BY <1>1, <1>2

LEMMA IngestInvariant == Spec => []IInv
  BY InitHolds, StepKeeps, PTL DEF Spec

-----------------------------------------------------------------------------
(* Bundles and their members *)

Anchored(join, keys) == \A b \in DOMAIN join : join[b] \subseteq keys

\* Unless a bundle came loose, members are stored, or still to be put before it.
Bundled ==
    ~loose => /\ Anchored(joined, DOMAIN cells)
              /\ work.pc = "put" => Anchored(work.join, DOMAIN cells \cup DOMAIN work.put)

\* An import joins what landed.
LEMMA ReattachAnchors ==
    ASSUME IInv, Bundled, Reattach
    PROVE  Bundled'
<1>1. UNCHANGED <<cells, loose>> /\ work.pc = "items" /\ Taken = Len(work.items) /\ work' = Rest
  BY DEF Reattach
<1>2. Batch(work, cells)
  BY <1>1 DEF IInv, WorkOK
<1>3. \A refs : Rejoined(refs) \subseteq DOMAIN cells
  BY <1>1, <1>2 DEF Rejoined, Batch, Books, Landing, Taken, ItemsOK
<1>4. ~loose => Anchored(joined', DOMAIN cells')
  BY <1>1, <1>3 DEF Reattach, Bundled, Anchored
<1>5. QED
  BY <1>1, <1>4 DEF Bundled, Rest

\* What begins to be put has the members of its bundles along, or is loose.
LEMMA BeginPutAnchors ==
    ASSUME Bundled, NEW put, NEW join, BeginPut(put, join)
    PROVE  Bundled'
<1>1. UNCHANGED <<cells, joined>> /\ loose' = (loose \/ ~Covered(put, join))
         /\ work' = [Rest EXCEPT !.pc = "put", !.put = put, !.join = join]
  BY DEF BeginPut
<1>2. work'.put = put /\ work'.join = join
  BY <1>1 DEF Rest
<1>3. QED
  BY <1>1, <1>2 DEF Bundled, Anchored, Covered

\* A cell that is put takes its key from what is to come to what is there.
LEMMA PutCellAnchors ==
    ASSUME IInv, Bundled, PutCell
    PROVE  Bundled'
<1>1. PICK k \in DOMAIN work.put :
         /\ cells' = Put(cells, k, work.put[k])
         /\ work' = [work EXCEPT !.put = Restrict(@, DOMAIN @ \ {k})]
  BY DEF PutCell
<1>2. UNCHANGED <<joined, loose>> /\ work.pc = "put"
  BY DEF PutCell
<1>3. DOMAIN work = WorkFields
  BY DEF IInv, WorkOK
<1> DEFINE rest == Restrict(work.put, DOMAIN work.put \ {k})
<1>4. work'.join = work.join /\ work'.put = rest
  BY <1>1, <1>3 DEF WorkFields
<1>5. DOMAIN rest = DOMAIN work.put \ {k}
  BY DEF Restrict
<1> HIDE DEF rest
<1>6. DOMAIN cells' = DOMAIN cells \cup {k}
  BY <1>1 DEF Put
<1>7. DOMAIN cells' \cup DOMAIN rest = DOMAIN cells \cup DOMAIN work.put
  BY <1>1, <1>5, <1>6
<1>8. QED
  BY <1>2, <1>4, <1>6, <1>7 DEF Bundled, Anchored

\* A bundle is put when the cells are there.
LEMMA PutBundleAnchors ==
    ASSUME IInv, Bundled, PutBundle
    PROVE  Bundled'
<1>1. PICK b \in DOMAIN work.join :
         /\ joined' = Put(joined, b, work.join[b])
         /\ work' = [work EXCEPT !.join = Restrict(@, DOMAIN @ \ {b})]
  BY DEF PutBundle
<1>2. UNCHANGED <<cells, loose>> /\ work.pc = "put" /\ work.put = Nothing
  BY DEF PutBundle, CellsFirst
<1>3. DOMAIN work = WorkFields
  BY DEF IInv, WorkOK
<1> DEFINE rest == Restrict(work.join, DOMAIN work.join \ {b})
<1>4. work'.put = work.put /\ work'.join = rest
  BY <1>1, <1>3 DEF WorkFields
<1>5. DOMAIN rest \subseteq DOMAIN work.join /\ \A r \in DOMAIN rest : rest[r] = work.join[r]
  BY DEF Restrict
<1> HIDE DEF rest
<1>6. ASSUME ~loose
      PROVE  Anchored(work.join, DOMAIN cells)
  BY <1>2, <1>6, NothingEmpty DEF Bundled
<1>7. ASSUME ~loose
      PROVE  Anchored(joined', DOMAIN cells)
  BY <1>1, <1>6, <1>7 DEF Put, Bundled, Anchored
<1>8. QED
  BY <1>2, <1>4, <1>5, <1>6, <1>7 DEF Bundled, Anchored

\* Nobody takes a cell away, except with all the bundles of the graph.
LEMMA BundledKept ==
    ASSUME IInv, Bundled, [Next]_vars
    PROVE  Bundled'
<1>1. ASSUME UNCHANGED <<joined, loose>>, DOMAIN cells \subseteq DOMAIN cells',
             work'.pc = "put" => UNCHANGED <<work.pc, work.put, work.join>>
      PROVE  Bundled'
  BY <1>1 DEF Bundled, Anchored
<1>2. CASE UNCHANGED vars
  BY <1>1, <1>2 DEF vars
<1>3. ASSUME NEW order \in Exports, Begin(order)
      PROVE  Bundled'
  BY <1>1, <1>3 DEF Begin, Rest
<1>4. CASE TakeItem
  <2>1. DOMAIN cells \subseteq DOMAIN cells'
    BY <1>4 DEF TakeItem, Put
  <2>2. UNCHANGED <<joined, loose>> /\ work'.pc = "items"
    BY <1>4, TakeEffect DEF TakeItem
  <2>3. QED
    BY <1>1, <2>1, <2>2
<1>5. CASE Demote
  <2>1. PICK k \in work.demote : /\ cells' = [cells EXCEPT ![k] = "superseded"]
                                 /\ work' = [work EXCEPT !.demote = @ \ {k}]
    BY <1>5 DEF Demote
  <2>2. UNCHANGED <<joined, loose>> /\ work'.pc = work.pc /\ work.pc = "items"
    BY <1>5, <2>1 DEF Demote, IInv, WorkOK, WorkFields
  <2>3. QED
    BY <1>1, <2>1, <2>2
<1>6. CASE ExportCells \/ ExportBundles
  BY <1>1, <1>6 DEF ExportCells, ExportBundles
<1>7. CASE Restore \/ Migrate
  BY <1>7, BeginPutAnchors DEF Restore, Migrate
<1>8. CASE EndPut \/ Kill
  BY <1>1, <1>8 DEF EndPut, Kill, Rest
<1>9. ASSUME NEW r \in Refs, (\E text \in Texts : Edit(r, text)) \/ Expire(r)
      PROVE  Bundled'
  BY <1>1, <1>9 DEF Edit, Expire
<1>10. ASSUME NEW text \in Texts, Write(text)
       PROVE  Bundled'
  <2>1. DOMAIN cells \subseteq DOMAIN cells'
    BY <1>10 DEF Write, Put
  <2>2. /\ UNCHANGED <<joined, loose>> /\ DOMAIN work = WorkFields
        /\ work' = [work EXCEPT !.alone = work.pc = "idle"]
    BY <1>10 DEF Write, IInv, WorkOK
  <2>3. work'.pc = work.pc /\ work'.put = work.put /\ work'.join = work.join
    BY <2>2 DEF WorkFields
  <2>4. QED
    BY <1>1, <2>1, <2>2, <2>3
<1>11. CASE Fresh
  <2>1. DOMAIN joined' = {} /\ work' = work /\ work.pc = "idle"
    BY <1>11, NothingEmpty DEF Fresh
  <2>2. QED
    BY <2>1 DEF Bundled, Anchored
<1>12. QED
  BY <1>2, <1>3, <1>4, <1>5, <1>6, <1>7, <1>8, <1>9, <1>10, <1>11, ReattachAnchors,
     PutCellAnchors, PutBundleAnchors DEF Next

-----------------------------------------------------------------------------
(* The theorems *)

\* Imports that were left to end leave one active version of each record, in
\* whatever order the exports list them and however the source changes.
THEOREM IngestOneVersion == Spec => []OneVersion
<1>1. IInv => OneVersion
  BY DEF IInv, OneAtATime, SingleVersions, OneVersion, Active
<1>2. QED
  BY <1>1, IngestInvariant, PTL

\* A dry run, which decides over a graph it does not change, foretells the
\* report of the import that does change it, item by item.
THEOREM IngestDryRunPredicts == Spec => []DryRunPredicts
<1>1. IInv => DryRunPredicts
  BY DEF IInv
<1>2. QED
  BY <1>1, IngestInvariant, PTL

\* A bundle names what is not stored only if it came so with an archive or an
\* old database: an import joins what landed, a restore stores cells first, and
\* a kill between any two of their writes leaves no bundle without its members.
THEOREM IngestMembersLanded == Spec => []MembersLanded
<1>1. Init => Bundled
  BY NothingEmpty DEF Init, Bundled, Anchored, Rest
<1>2. IInv /\ Bundled /\ [Next]_vars => Bundled'
  BY BundledKept
<1>3. Bundled => MembersLanded
  BY DEF Bundled, Anchored, MembersLanded
<1>4. QED
  BY <1>1, <1>2, <1>3, IngestInvariant, PTL DEF Spec

\* No import, restore or migration revives what the old database retired.
THEOREM IngestMigrationKeepsRetired == Spec => []MigrationKeepsRetired
<1>1. IInv => MigrationKeepsRetired
  BY DEF IInv, Retires, RetiredOld, MigrationKeepsRetired
<1>2. QED
  BY <1>1, IngestInvariant, PTL
===============================================================================
