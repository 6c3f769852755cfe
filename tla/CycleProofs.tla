----------------------------- MODULE CycleProofs -----------------------------
(***************************************************************************)
(* Proofs about the operator cycle and the maintenance pass, for any       *)
(* number of processes, programs, cells and passes, however they           *)
(* interleave, fail and are killed.                                        *)
(***************************************************************************)
EXTENDS Cycle, TLAPS

Base == Sources \cup Progs

CellFields == {"key", "kind", "status", "topics", "entities", "effective", "programs",
               "derived", "links", "last"}
PassFields == {"pc", "legs", "call", "day", "list", "ran", "todo", "prog", "read",
               "members", "output", "job", "key"}
LegLists == {<<>>, <<"programs">>, <<"programs", "eval", "health">>,
             <<"eval", "health">>, <<"health">>}

-----------------------------------------------------------------------------
(* The inductive invariant.  Its parts take the ledger and the retired keys *)
(* as parameters: both only grow, and what held of a cell when a pass read  *)
(* it still holds when the pass writes it back.                             *)

\* k is the key of the derivation d, or a key of its own drawn after the cell
\* under the key of d was superseded.
Drawn(d, k, R) == \E n \in Nat : k = Key(d, n) /\ (n # 0 => Pinned(d) \in R)

CellAt(k, c, L, R) ==
    /\ DOMAIN c = CellFields
    /\ c.status # "active" => k \in R
    /\ k \in Base => c.derived = Nobody
    /\ k \notin Base => /\ Drawn(c.derived, k, R)
                        /\ c.derived.of \in Progs => c.derived \in L

\* What a process holds: cells that were stored as it read them, a derivation
\* that the ledger holds, and a key that suits it.
PassOK(r, D, L, R) ==
    /\ DOMAIN r = PassFields
    /\ r.legs \in LegLists
    /\ r.pc # "idle" => r.legs # <<>>
    /\ r.todo \subseteq Progs
    /\ r.pc = "idle" => DOMAIN r.read = {}
    /\ \A k \in DOMAIN r.read : k \in D /\ CellAt(k, r.read[k], L, R)
    /\ r.pc \in {"persist", "attach"} => r.prog \in DOMAIN r.read
                                         /\ r.members \subseteq DOMAIN r.read
    /\ r.pc \in {"derive", "put"} /\ r.job.of \in Progs => r.job \in L
    /\ r.pc = "put" => r.key \notin Base /\ Drawn(r.job, r.key, R)

\* Nothing a process holds is out of date.
Quiet(r, store) ==
    /\ \A k \in DOMAIN r.read : r.read[k].status = store[k].status
    /\ r.pc = "put" => r.key \notin DOMAIN store

CellsOK(store, L, R) ==
    Base \subseteq DOMAIN store /\ \A k \in DOMAIN store : CellAt(k, store[k], L, R)

IInv ==
    /\ CellsOK(cells, ledger, retired)
    /\ pass = [s \in Passers |-> pass[s]]
    /\ \A s \in Passers : PassOK(pass[s], DOMAIN cells, ledger, retired)
    /\ ~overlapped => \A s \in Passers : Quiet(pass[s], cells)

-----------------------------------------------------------------------------
LEMMA CellGrows ==
    ASSUME NEW k, NEW c, NEW L, NEW R, NEW L2, NEW R2,
           CellAt(k, c, L, R), L \subseteq L2, R \subseteq R2
    PROVE  CellAt(k, c, L2, R2)
  BY DEF CellAt, Drawn

LEMMA PassGrows ==
    ASSUME NEW r, NEW D, NEW L, NEW R, NEW D2, NEW L2, NEW R2,
           PassOK(r, D, L, R), D \subseteq D2, L \subseteq L2, R \subseteq R2
    PROVE  PassOK(r, D2, L2, R2)
<1>1. \A k \in DOMAIN r.read : k \in D2 /\ CellAt(k, r.read[k], L2, R2)
  BY CellGrows DEF PassOK
<1>2. r.pc = "put" => Drawn(r.job, r.key, R2)
  BY DEF PassOK, Drawn
<1>3. QED
  BY <1>1, <1>2 DEF PassOK

\* A process that carries nothing: between passes, and at the start of a leg.
Clear(r) ==
    /\ DOMAIN r = PassFields
    /\ r.legs \in LegLists
    /\ r.pc # "idle" => r.legs # <<>>
    /\ DOMAIN r.read = {} /\ r.todo \subseteq Progs
    /\ r.pc \in {"idle", "programs", "eval", "health"}

LEMMA ClearIsOK ==
    ASSUME NEW r, NEW D, NEW L, NEW R, NEW store, Clear(r)
    PROVE  PassOK(r, D, L, R) /\ Quiet(r, store)
  BY DEF Clear, PassOK, Quiet

LEMMA TailsOfLegs ==
    ASSUME NEW legs \in LegLists, legs # <<>>
    PROVE  \/ Tail(legs) = <<>>
           \/ /\ Tail(legs) \in LegLists /\ Tail(legs) # <<>>
              /\ Head(Tail(legs)) \in {"programs", "eval", "health"}
<1>1. CASE legs = <<"programs">> \/ legs = <<"health">>
  BY <1>1
<1>2. CASE legs = <<"programs", "eval", "health">>
  <2>1. Tail(legs) = <<"eval", "health">>
    BY <1>2
  <2>2. QED
    BY <2>1 DEF LegLists
<1>3. CASE legs = <<"eval", "health">>
  <2>1. Tail(legs) = <<"health">>
    BY <1>3
  <2>2. QED
    BY <2>1 DEF LegLists
<1>4. QED
  BY <1>1, <1>2, <1>3 DEF LegLists

LEMMA RestIsClear == Clear(Rest)
  BY DEF Clear, Rest, LegLists, PassFields

\* The end of a leg: what is held in memory is forgotten.
LEMMA NextLegClears ==
    ASSUME NEW s \in Passers, NEW D, NEW L, NEW R, PassOK(pass[s], D, L, R), Busy(s), NextLeg(s)
    PROVE  \E to : pass' = [pass EXCEPT ![s] = to] /\ Clear(to)
<1> DEFINE left == LegsLeft(s)
           kept == [Rest EXCEPT !.call = pass[s].call, !.day = pass[s].day,
                                !.list = pass[s].list, !.ran = pass[s].ran]
           to   == IF left = <<>> THEN kept
                   ELSE [kept EXCEPT !.pc = Head(left), !.legs = left]
<1>1. pass' = [pass EXCEPT ![s] = to]
  BY DEF NextLeg, Goes
<1>2. \/ left = <<>>
      \/ left \in LegLists /\ left # <<>> /\ Head(left) \in {"programs", "eval", "health"}
  <2>1. pass[s].legs \in LegLists /\ pass[s].legs # <<>>
    BY DEF PassOK, Busy
  <2>2. left = Tail(pass[s].legs)
    BY DEF LegsLeft
  <2>3. QED
    BY <2>1, <2>2, TailsOfLegs
<1>3. Clear(kept) /\ kept.pc = "idle"
  BY DEF Clear, Rest, LegLists, PassFields
<1> HIDE DEF kept, left
<1>4. Clear(to)
  BY <1>2, <1>3 DEF Clear, PassFields
<1>5. QED
  BY <1>1, <1>4

\* A step of a pass: the tables grow, and what the others hold stays in order.
LEMMA StepKeeps ==
    ASSUME IInv, NEW s \in Passers, NEW to, pass' = [pass EXCEPT ![s] = to],
           Disturbs(s),
           DOMAIN cells \subseteq DOMAIN cells', ledger \subseteq ledger',
           retired \subseteq retired',
           CellsOK(cells', ledger', retired'),
           PassOK(to, DOMAIN cells', ledger', retired'),
           ~overlapped => Quiet(to, cells')
    PROVE  IInv'
<1>1. /\ pass' = [t \in Passers |-> pass'[t]]
      /\ pass'[s] = to
      /\ \A t \in Passers : t # s => pass'[t] = pass[t]
  BY DEF IInv
<1>2. \A t \in Passers : PassOK(pass'[t], DOMAIN cells', ledger', retired')
  <2>1. ASSUME NEW t \in Passers, t # s
        PROVE  PassOK(pass[t], DOMAIN cells', ledger', retired')
    BY PassGrows DEF IInv
  <2>2. QED
    BY <2>1, <1>1
<1>3. ASSUME ~overlapped', NEW t \in Passers
      PROVE  Quiet(pass'[t], cells')
  <2>1. ~overlapped /\ \A u \in Passers \ {s} : ~Busy(u)
    BY <1>3 DEF Disturbs
  <2>2. CASE t = s
    BY <2>1, <2>2, <1>1
  <2>3. CASE t # s
    <3>1. pass[t].pc = "idle" /\ DOMAIN pass[t].read = {}
      BY <2>1, <2>3 DEF Busy, IInv, PassOK
    <3>2. QED
      BY <3>1, <2>3, <1>1 DEF Quiet
  <2>4. QED
    BY <2>2, <2>3
<1>4. QED
  BY <1>1, <1>2, <1>3 DEF IInv

\* A step after which a process carries nothing.
LEMMA ClearKeeps ==
    ASSUME IInv, NEW s \in Passers, NEW to, pass' = [pass EXCEPT ![s] = to],
           Disturbs(s), Clear(to), UNCHANGED <<cells, ledger, retired>>
    PROVE  IInv'
<1>1. /\ PassOK(to, DOMAIN cells', ledger', retired')
      /\ Quiet(to, cells')
      /\ CellsOK(cells', ledger', retired')
  BY ClearIsOK DEF IInv
<1>2. QED
  BY <1>1, StepKeeps

LEMMA StartKeeps ==
    ASSUME IInv, NEW s \in Passers, NEW call \in DOMAIN Calls, Start(s, call)
    PROVE  IInv'
<1> DEFINE to == [Rest EXCEPT !.pc = "programs", !.legs = Calls[call], !.call = call,
                              !.day = today, !.list = Standing, !.todo = Standing]
<1>1. Calls[call] \in LegLists /\ Calls[call] # <<>>
  BY DEF Calls, LegLists
<1>2. Clear(to)
  BY <1>1 DEF Clear, Rest, PassFields, Standing
<1> HIDE DEF to
<1>3. QED
  <2>1. pass' = [pass EXCEPT ![s] = to]
    BY DEF Start, Goes, to
  <2>2. QED
    BY <2>1, <1>2, ClearKeeps DEF Start

LEMMA NextLegKeeps ==
    ASSUME IInv, NEW s \in Passers, Busy(s), NextLeg(s), Disturbs(s),
           UNCHANGED <<cells, ledger, retired>>
    PROVE  IInv'
<1>1. PassOK(pass[s], DOMAIN cells, ledger, retired)
  BY DEF IInv
<1>2. PICK to : pass' = [pass EXCEPT ![s] = to] /\ Clear(to)
  BY <1>1, NextLegClears
<1>3. QED
  BY <1>2, ClearKeeps

\* Members are cells that are stored.
LEMMA SelectionsStored ==
    ASSUME NEW store, NEW program, NEW target, NEW members \in Selections(store, program, target)
    PROVE  members \subseteq DOMAIN store
<1>1. Candidates(store, program, target) \subseteq DOMAIN store
  BY DEF Candidates
<1>2. QED
  BY <1>1 DEF Selections, kSubset

LEMMA RunKeeps ==
    ASSUME IInv, NEW s \in Passers, Run(s)
    PROVE  IInv'
<1>1. /\ pass[s].pc = "programs" /\ Disturbs(s)
      /\ UNCHANGED <<cells, ledger, retired>>
      /\ PassOK(pass[s], DOMAIN cells, ledger, retired)
  BY DEF Run, IInv
<1>2. PICK p \in pass[s].todo :
         IF ~WellFormed(Script[p].spec) THEN NextLeg(s)
         ELSE \E members \in Selections(cells, cells[p], Script[p].target) :
                Goes(s, [pass[s] EXCEPT
                   !.pc = "persist", !.todo = @ \ {p}, !.prog = p,
                   !.read = [k \in members \cup {p} |-> cells[k]],
                   !.members = {k \in members : p \notin cells[k].programs},
                   !.output = Execute(Script[p].spec, {cells[k] : k \in members},
                                      cells[p].last)])
  BY DEF Run
<1>3. CASE ~WellFormed(Script[p].spec)
  BY <1>1, <1>2, <1>3, NextLegKeeps DEF Busy
<1>4. CASE WellFormed(Script[p].spec)
  <2>1. PICK members \in Selections(cells, cells[p], Script[p].target) :
           Goes(s, [pass[s] EXCEPT
                   !.pc = "persist", !.todo = @ \ {p}, !.prog = p,
                   !.read = [k \in members \cup {p} |-> cells[k]],
                   !.members = {k \in members : p \notin cells[k].programs},
                   !.output = Execute(Script[p].spec, {cells[k] : k \in members},
                                      cells[p].last)])
    BY <1>2, <1>4
  <2> DEFINE read == [k \in members \cup {p} |-> cells[k]]
             some == {k \in members : p \notin cells[k].programs}
             out  == Execute(Script[p].spec, {cells[k] : k \in members}, cells[p].last)
             to   == [pass[s] EXCEPT !.pc = "persist", !.todo = @ \ {p}, !.prog = p,
                                     !.read = read, !.members = some, !.output = out]
  <2>2. pass' = [pass EXCEPT ![s] = to]
    BY <2>1 DEF Goes
  <2>3. /\ DOMAIN read = members \cup {p} /\ some \subseteq DOMAIN read
        /\ \A k \in DOMAIN read : read[k] = cells[k]
    OBVIOUS
  <2> HIDE DEF read, some, out
  <2>4. /\ DOMAIN to = PassFields
        /\ to.pc = "persist" /\ to.todo = pass[s].todo \ {p} /\ to.prog = p
        /\ to.read = read /\ to.members = some /\ to.legs = pass[s].legs
    BY <1>1 DEF PassOK, PassFields
  <2> HIDE DEF to
  <2>5. members \cup {p} \subseteq DOMAIN cells
    <3>1. p \in Progs
      BY <1>1 DEF PassOK
    <3>2. QED
      BY <3>1, SelectionsStored DEF IInv, CellsOK, Base
  <2>6. \A k \in DOMAIN to.read : k \in DOMAIN cells /\ CellAt(k, to.read[k], ledger, retired)
    BY <2>3, <2>4, <2>5 DEF IInv, CellsOK
  <2>7. PassOK(to, DOMAIN cells', ledger', retired')
    BY <1>1, <2>3, <2>4, <2>6 DEF PassOK
  <2>8. Quiet(to, cells')
    BY <1>1, <2>3, <2>4 DEF Quiet
  <2>9. CellsOK(cells', ledger', retired')
    BY <1>1 DEF IInv
  <2>10. QED
    BY <1>1, <2>2, <2>7, <2>8, <2>9, StepKeeps
<1>5. QED
  BY <1>3, <1>4

LEMMA EndProgramsKeeps ==
    ASSUME IInv, NEW s \in Passers, EndPrograms(s)
    PROVE  IInv'
  BY NextLegKeeps DEF EndPrograms, Busy

\* A process writes back a cell it read, with the same status and derivation.
LEMMA WriteBack ==
    ASSUME IInv, NEW s \in Passers, NEW to, pass' = [pass EXCEPT ![s] = to],
           Disturbs(s), UNCHANGED <<ledger, retired>>,
           NEW p \in DOMAIN pass[s].read, NEW cell,
           cells' = [cells EXCEPT ![p] = cell],
           DOMAIN cell = CellFields,
           cell.status = pass[s].read[p].status, cell.derived = pass[s].read[p].derived,
           DOMAIN to = PassFields, to.legs = pass[s].legs, to.read = pass[s].read,
           to.todo = pass[s].todo, to.prog = pass[s].prog, to.pc = "attach",
           to.members \subseteq pass[s].members, pass[s].pc \in {"persist", "attach"}
    PROVE  IInv'
<1>1. /\ PassOK(pass[s], DOMAIN cells, ledger, retired)
      /\ CellsOK(cells, ledger, retired)
  BY DEF IInv
<1>2. p \in DOMAIN cells /\ CellAt(p, pass[s].read[p], ledger, retired)
  BY <1>1 DEF PassOK
<1>3. CellAt(p, cell, ledger, retired)
  BY <1>2 DEF CellAt
<1>4. /\ DOMAIN cells' = DOMAIN cells /\ cells'[p] = cell
      /\ \A k \in DOMAIN cells : k # p => cells'[k] = cells[k]
  BY <1>2
<1>5. CellsOK(cells', ledger', retired')
  BY <1>1, <1>3, <1>4 DEF CellsOK
<1>6. PassOK(to, DOMAIN cells', ledger', retired')
  BY <1>1, <1>4 DEF PassOK
<1>7. ~overlapped => Quiet(to, cells')
  <2>1. SUFFICES ASSUME ~overlapped
                 PROVE  \A k \in DOMAIN to.read : to.read[k].status = cells'[k].status
    BY DEF Quiet
  <2>2. \A k \in DOMAIN pass[s].read :
           k \in DOMAIN cells /\ pass[s].read[k].status = cells[k].status
    BY <2>1, <1>1 DEF IInv, Quiet, PassOK
  <2>3. QED
    BY <2>2, <1>4
<1>8. QED
  BY <1>4, <1>5, <1>6, <1>7, StepKeeps

LEMMA PersistKeeps ==
    ASSUME IInv, NEW s \in Passers, Persist(s)
    PROVE  IInv'
<1> DEFINE p    == pass[s].prog
           cell == [pass[s].read[p] EXCEPT !.last = pass[s].output]
           to   == [pass[s] EXCEPT !.pc = "attach"]
<1>1. PassOK(pass[s], DOMAIN cells, ledger, retired) /\ pass[s].pc = "persist"
  BY DEF IInv, Persist
<1>2. p \in DOMAIN pass[s].read /\ CellAt(p, pass[s].read[p], ledger, retired)
  BY <1>1 DEF PassOK
<1>3. /\ DOMAIN cell = CellFields
      /\ cell.status = pass[s].read[p].status /\ cell.derived = pass[s].read[p].derived
  BY <1>2 DEF CellAt, CellFields
<1>4. /\ DOMAIN to = PassFields /\ to.legs = pass[s].legs /\ to.read = pass[s].read
      /\ to.todo = pass[s].todo /\ to.prog = p /\ to.pc = "attach"
      /\ to.members = pass[s].members
  BY <1>1 DEF PassOK, PassFields
<1>5. /\ cells' = [cells EXCEPT ![p] = cell] /\ pass' = [pass EXCEPT ![s] = to]
      /\ Disturbs(s) /\ UNCHANGED <<ledger, retired>>
  BY DEF Persist, Goes
<1> HIDE DEF p, cell, to
<1>6. QED
  BY <1>1, <1>2, <1>3, <1>4, <1>5, WriteBack DEF p

LEMMA AttachKeeps ==
    ASSUME IInv, NEW s \in Passers, Attach(s)
    PROVE  IInv'
<1>1. /\ PassOK(pass[s], DOMAIN cells, ledger, retired) /\ pass[s].pc = "attach"
      /\ Disturbs(s) /\ UNCHANGED <<ledger, retired>>
  BY DEF IInv, Attach
<1>2. PICK k \in pass[s].members :
         /\ cells' = [cells EXCEPT ![k] =
                         [pass[s].read[k] EXCEPT !.programs = @ \cup {pass[s].prog}]]
         /\ Goes(s, [pass[s] EXCEPT !.members = @ \ {k}])
  BY DEF Attach
<1> DEFINE cell == [pass[s].read[k] EXCEPT !.programs = @ \cup {pass[s].prog}]
           to   == [pass[s] EXCEPT !.members = @ \ {k}]
<1>3. k \in DOMAIN pass[s].read /\ CellAt(k, pass[s].read[k], ledger, retired)
  BY <1>1 DEF PassOK
<1>4. /\ DOMAIN cell = CellFields
      /\ cell.status = pass[s].read[k].status /\ cell.derived = pass[s].read[k].derived
  BY <1>3 DEF CellAt, CellFields
<1>5. /\ DOMAIN to = PassFields /\ to.legs = pass[s].legs /\ to.read = pass[s].read
      /\ to.todo = pass[s].todo /\ to.prog = pass[s].prog /\ to.pc = "attach"
      /\ to.members \subseteq pass[s].members
  BY <1>1 DEF PassOK, PassFields
<1>6. cells' = [cells EXCEPT ![k] = cell] /\ pass' = [pass EXCEPT ![s] = to]
  BY <1>2 DEF Goes
<1> HIDE DEF cell, to
<1>7. QED
  BY <1>1, <1>3, <1>4, <1>5, <1>6, WriteBack

LEMMA RecordKeeps ==
    ASSUME IInv, NEW s \in Passers, Record(s)
    PROVE  IInv'
<1> DEFINE run == [of |-> pass[s].prog, output |-> pass[s].output]
           to  == [pass[s] EXCEPT !.ran = @ \cup {pass[s].prog},
                       !.pc  = IF run.output.witness THEN "derive" ELSE "programs",
                       !.job = IF run.output.witness THEN run ELSE Nobody]
<1>1. /\ PassOK(pass[s], DOMAIN cells, ledger, retired) /\ pass[s].pc = "attach"
      /\ CellsOK(cells, ledger, retired)
      /\ Disturbs(s) /\ UNCHANGED <<cells, retired>>
      /\ ledger' = ledger \cup {run} /\ pass' = [pass EXCEPT ![s] = to]
  BY DEF IInv, Record, Goes, LedgerWith
<1>2. /\ DOMAIN to = PassFields /\ to.legs = pass[s].legs /\ to.read = pass[s].read
      /\ to.todo = pass[s].todo /\ to.pc \in {"derive", "programs"}
      /\ to.pc = "derive" => to.job = run
  BY <1>1 DEF PassOK, PassFields
<1> HIDE DEF run, to
<1>3. CellsOK(cells', ledger', retired')
  BY <1>1, CellGrows DEF CellsOK
<1>4. PassOK(pass[s], DOMAIN cells', ledger', retired')
  BY <1>1, PassGrows
<1>5. PassOK(to, DOMAIN cells', ledger', retired')
  BY <1>1, <1>2, <1>4 DEF PassOK
<1>6. ~overlapped => Quiet(to, cells')
  BY <1>1, <1>2 DEF IInv, Quiet
<1>7. QED
  BY <1>1, <1>3, <1>5, <1>6, StepKeeps

LEMMA PulseKeeps ==
    ASSUME IInv, NEW s \in Passers, Pulse(s)
    PROVE  IInv'
<1> DEFINE job == Daily(pass[s].pc, pass[s].day)
           to  == [pass[s] EXCEPT !.pc = "derive", !.job = job]
<1>1. /\ PassOK(pass[s], DOMAIN cells, ledger, retired) /\ pass[s].pc \in {"eval", "health"}
      /\ CellsOK(cells, ledger, retired)
      /\ Disturbs(s) /\ UNCHANGED <<cells, ledger, retired>>
      /\ pass' = [pass EXCEPT ![s] = to]
  BY DEF IInv, Pulse, Goes
<1>2. job.of \notin Progs
  BY <1>1, CycleAssumption DEF Daily, Legs
<1> HIDE DEF job
<1>3. /\ DOMAIN to = PassFields /\ to.legs = pass[s].legs /\ to.read = pass[s].read
      /\ to.todo = pass[s].todo /\ to.pc = "derive" /\ to.job = job
  BY <1>1 DEF PassOK, PassFields
<1> HIDE DEF to
<1>4. PassOK(to, DOMAIN cells', ledger', retired')
  BY <1>1, <1>2, <1>3 DEF PassOK
<1>5. ~overlapped => Quiet(to, cells')
  BY <1>1, <1>3 DEF IInv, Quiet
<1>6. QED
  BY <1>1, <1>4, <1>5, StepKeeps

-----------------------------------------------------------------------------
(* deriveAdmit() *)

\* A witness that is dealt with leaves a process with what it had read, or
\* with nothing.
LEMMA DerivedTo ==
    ASSUME NEW s \in Passers, NEW D, NEW L, NEW R, PassOK(pass[s], D, L, R), Busy(s), Derived(s)
    PROVE  \E to : /\ pass' = [pass EXCEPT ![s] = to]
                   /\ PassOK(to, D, L, R) /\ to.pc # "put"
                   /\ to.read = pass[s].read \/ DOMAIN to.read = {}
<1>1. CASE Head(pass[s].legs) = "programs"
  <2> DEFINE to == [pass[s] EXCEPT !.pc = "programs", !.job = Nobody, !.key = Nobody]
  <2>1. pass' = [pass EXCEPT ![s] = to]
    BY <1>1 DEF Derived, Goes
  <2>2. /\ DOMAIN to = PassFields /\ to.legs = pass[s].legs /\ to.read = pass[s].read
        /\ to.todo = pass[s].todo /\ to.pc = "programs"
    BY DEF PassOK, PassFields
  <2> HIDE DEF to
  <2>3. PassOK(to, D, L, R)
    BY <2>2 DEF PassOK, Busy
  <2>4. QED
    BY <2>1, <2>2, <2>3
<1>2. CASE Head(pass[s].legs) # "programs"
  <2>1. PICK to : pass' = [pass EXCEPT ![s] = to] /\ Clear(to)
    BY <1>2, NextLegClears DEF Derived
  <2>2. PassOK(to, D, L, R) /\ to.pc # "put" /\ DOMAIN to.read = {}
    BY <2>1, ClearIsOK DEF Clear
  <2>3. QED
    BY <2>1, <2>2
<1>3. QED
  BY <1>1, <1>2

\* A key that is free for a derivation: a second key is only drawn once the
\* cell under the first was superseded.
LEMMA FreeKeysDrawn ==
    ASSUME CellsOK(cells, ledger, retired), NEW d, NEW k \in FreeKeys(d),
           ~(Pinned(d) \in DOMAIN cells /\ cells[Pinned(d)].status = "active")
    PROVE  k \notin DOMAIN cells /\ k \notin Base /\ Drawn(d, k, retired)
<1>1. CASE Pinned(d) \notin DOMAIN cells
  <2>1. k = Key(d, 0) /\ k \notin DOMAIN cells
    BY <1>1 DEF FreeKeys, Pinned
  <2>2. QED
    BY <2>1 DEF Drawn, CellsOK
<1>2. CASE Pinned(d) \in DOMAIN cells
  <2>1. Pinned(d) \in retired
    BY <1>2 DEF CellsOK, CellAt
  <2>2. PICK n \in 1..MaxFresh : k = Key(d, n) /\ k \notin DOMAIN cells
    BY <1>2 DEF FreeKeys
  <2>3. n \in Nat
    BY <2>2, CycleAssumption
  <2>4. Drawn(d, k, retired)
    BY <2>1, <2>2, <2>3 DEF Drawn
  <2>5. QED
    BY <2>2, <2>4 DEF CellsOK
<1>3. QED
  BY <1>1, <1>2

LEMMA DeriveKeeps ==
    ASSUME IInv, NEW s \in Passers, Derive(s)
    PROVE  IInv'
<1> DEFINE d == pass[s].job
<1>1. /\ PassOK(pass[s], DOMAIN cells, ledger, retired) /\ pass[s].pc = "derive"
      /\ CellsOK(cells, ledger, retired)
      /\ Disturbs(s) /\ UNCHANGED <<cells, ledger, retired>>
  BY DEF IInv, Derive
<1>2. CASE Pinned(d) \in DOMAIN cells /\ cells[Pinned(d)].status = "active"
  <2>1. PICK to : /\ pass' = [pass EXCEPT ![s] = to]
                  /\ PassOK(to, DOMAIN cells, ledger, retired) /\ to.pc # "put"
                  /\ to.read = pass[s].read \/ DOMAIN to.read = {}
    BY <1>1, <1>2, DerivedTo DEF Derive, Busy
  <2>2. ~overlapped => Quiet(to, cells')
    BY <1>1, <2>1 DEF IInv, Quiet
  <2>3. QED
    BY <1>1, <2>1, <2>2, StepKeeps
<1>3. CASE ~(Pinned(d) \in DOMAIN cells /\ cells[Pinned(d)].status = "active")
  <2>1. PICK k \in FreeKeys(d) : Goes(s, [pass[s] EXCEPT !.pc = "put", !.key = k])
    BY <1>3 DEF Derive
  <2>2. k \notin DOMAIN cells /\ k \notin Base /\ Drawn(d, k, retired)
    BY <1>1, <1>3, FreeKeysDrawn
  <2> DEFINE to == [pass[s] EXCEPT !.pc = "put", !.key = k]
  <2>3. pass' = [pass EXCEPT ![s] = to]
    BY <2>1 DEF Goes
  <2>4. /\ DOMAIN to = PassFields /\ to.legs = pass[s].legs /\ to.read = pass[s].read
        /\ to.todo = pass[s].todo /\ to.pc = "put" /\ to.job = d /\ to.key = k
    BY <1>1 DEF PassOK, PassFields
  <2> HIDE DEF to
  <2>5. PassOK(to, DOMAIN cells', ledger', retired')
    BY <1>1, <2>2, <2>4 DEF PassOK
  <2>6. ~overlapped => Quiet(to, cells')
    BY <1>1, <2>2, <2>4 DEF IInv, Quiet
  <2>7. QED
    BY <1>1, <2>3, <2>5, <2>6, StepKeeps
<1>4. QED
  BY <1>2, <1>3

LEMMA AdmitKeeps ==
    ASSUME IInv, NEW s \in Passers, Admit(s)
    PROVE  IInv'
<1> DEFINE d == pass[s].job
           k == pass[s].key
<1>1. /\ PassOK(pass[s], DOMAIN cells, ledger, retired) /\ pass[s].pc = "put"
      /\ CellsOK(cells, ledger, retired)
      /\ Disturbs(s) /\ UNCHANGED <<ledger, retired>> /\ Derived(s)
      /\ cells' = IF Refused(d) THEN cells
                  ELSE [j \in DOMAIN cells \cup {k} |->
                           IF j = k THEN Witness(d, k) ELSE cells[j]]
  BY DEF IInv, Admit
<1>2. /\ DOMAIN cells \subseteq DOMAIN cells'
      /\ \A j \in DOMAIN cells' : \/ j \in DOMAIN cells /\ cells'[j] = cells[j]
                                  \/ j = k /\ cells'[j] = Witness(d, k)
      /\ \A j \in DOMAIN cells : j # k => cells'[j] = cells[j]
  BY <1>1
<1>3. CellAt(k, Witness(d, k), ledger, retired)
  <2>1. /\ DOMAIN Witness(d, k) = CellFields
        /\ Witness(d, k).status = "active" /\ Witness(d, k).derived = d
    BY DEF Witness, Plain, CellFields
  <2>2. /\ k \notin Base /\ Drawn(d, k, retired)
        /\ d.of \in Progs => d \in ledger
    BY <1>1 DEF PassOK
  <2>3. QED
    BY <2>1, <2>2 DEF CellAt
<1>4. CellsOK(cells', ledger', retired')
  BY <1>1, <1>2, <1>3 DEF CellsOK
<1>5. PICK to : /\ pass' = [pass EXCEPT ![s] = to]
                /\ PassOK(to, DOMAIN cells, ledger, retired) /\ to.pc # "put"
                /\ to.read = pass[s].read \/ DOMAIN to.read = {}
  BY <1>1, DerivedTo DEF Busy
<1>6. PassOK(to, DOMAIN cells', ledger', retired')
  BY <1>1, <1>2, <1>5, PassGrows
<1>7. ~overlapped => Quiet(to, cells')
  <2>1. SUFFICES ASSUME ~overlapped, to.read = pass[s].read
                 PROVE  \A j \in DOMAIN to.read : to.read[j].status = cells'[j].status
    BY <1>5 DEF Quiet
  <2>2. \A j \in DOMAIN pass[s].read :
           j \in DOMAIN cells /\ pass[s].read[j].status = cells[j].status
    BY <2>1, <1>1 DEF IInv, Quiet, PassOK
  <2>3. k \notin DOMAIN cells
    BY <2>1, <1>1 DEF IInv, Quiet
  <2>4. QED
    BY <2>1, <2>2, <2>3, <1>2
<1>8. QED
  BY <1>1, <1>2, <1>4, <1>5, <1>6, <1>7, StepKeeps

-----------------------------------------------------------------------------
(* Failures, and everybody else *)

LEMMA BreakKeeps ==
    ASSUME IInv, NEW s \in Passers, Fail(s) \/ Kill(s)
    PROVE  IInv'
<1>1. CASE Fail(s)
  BY <1>1, NextLegKeeps DEF Fail
<1>2. CASE Kill(s)
  BY <1>2, RestIsClear, ClearKeeps DEF Kill, Goes
<1>3. QED
  BY <1>1, <1>2

\* A change from outside keeps the derivations of cells; it may retire one,
\* and then nothing is said of what a process holds.
LEMMA OutsideKeeps ==
    ASSUME IInv, Elsewhere, UNCHANGED pass,
           DOMAIN cells' = DOMAIN cells, retired \subseteq retired',
           \A k \in DOMAIN cells :
              /\ DOMAIN cells'[k] = CellFields /\ cells'[k].derived = cells[k].derived
              /\ cells'[k].status # cells[k].status => k \in retired'
    PROVE  IInv'
<1>1. CellsOK(cells', ledger', retired')
  <2>1. ASSUME NEW k \in DOMAIN cells
        PROVE  CellAt(k, cells'[k], ledger, retired')
    <3>1. CellAt(k, cells[k], ledger, retired')
      BY CellGrows DEF IInv, CellsOK
    <3>2. QED
      BY <3>1 DEF CellAt
  <2>2. QED
    BY <2>1 DEF CellsOK, IInv, Elsewhere
<1>2. \A s \in Passers : PassOK(pass'[s], DOMAIN cells', ledger', retired')
  BY PassGrows DEF IInv, Elsewhere
<1>3. ASSUME ~overlapped', NEW s \in Passers
      PROVE  Quiet(pass'[s], cells')
  <2>1. pass[s].pc = "idle" /\ PassOK(pass[s], DOMAIN cells, ledger, retired)
    BY <1>3 DEF Elsewhere, Busy, IInv
  <2>2. QED
    BY <2>1 DEF PassOK, Quiet
<1>4. QED
  BY <1>1, <1>2, <1>3 DEF IInv

LEMMA EventKeeps ==
    ASSUME IInv,
           \/ \E k \in Sources, level \in Levels : Learn(k, level)
           \/ \E k \in DOMAIN cells : Retire(k)
           \/ Midnight
    PROVE  IInv'
<1>1. \A k \in DOMAIN cells : DOMAIN cells[k] = CellFields
  BY DEF IInv, CellsOK, CellAt
<1>2. CASE \E k \in Sources, level \in Levels : Learn(k, level)
  <2>1. PICK k \in Sources, level \in Levels : Learn(k, level)
    BY <1>2
  <2>2. cells' = [cells EXCEPT ![k].effective = level] /\ Elsewhere /\ UNCHANGED <<pass, retired>>
    BY <2>1 DEF Learn, Elsewhere
  <2>3. \A j \in DOMAIN cells :
           /\ DOMAIN cells'[j] = CellFields /\ cells'[j].derived = cells[j].derived
           /\ cells'[j].status = cells[j].status
    BY <1>1, <2>2 DEF CellFields
  <2>4. QED
    BY <2>2, <2>3, OutsideKeeps
<1>3. CASE \E k \in DOMAIN cells : Retire(k)
  <2>1. PICK k \in DOMAIN cells : Retire(k)
    BY <1>3
  <2>2. /\ cells' = [cells EXCEPT ![k].status = "superseded"]
        /\ retired' = retired \cup {k} /\ Elsewhere /\ UNCHANGED pass
    BY <2>1 DEF Retire, Elsewhere
  <2>3. \A j \in DOMAIN cells :
           /\ DOMAIN cells'[j] = CellFields /\ cells'[j].derived = cells[j].derived
           /\ cells'[j].status # cells[j].status => j = k
    BY <1>1, <2>2 DEF CellFields
  <2>4. QED
    BY <2>2, <2>3, OutsideKeeps
<1>4. CASE Midnight
  <2>1. Elsewhere /\ UNCHANGED <<cells, retired, pass>>
    BY <1>4 DEF Midnight, Elsewhere
  <2>2. QED
    BY <1>1, <2>1, OutsideKeeps
<1>5. QED
  BY <1>2, <1>3, <1>4

-----------------------------------------------------------------------------
LEMMA CycleInvariant == Spec => []IInv
<1>1. Init => IInv
  <2>1. SUFFICES ASSUME Init
                 PROVE  IInv
    OBVIOUS
  <2>2. /\ DOMAIN cells = Base /\ retired = {}
        /\ \A k \in Base : DOMAIN cells[k] = CellFields /\ cells[k].status = "active"
                           /\ cells[k].derived = Nobody
    BY <2>1 DEF Init, Base, Plain, CellFields
  <2>3. CellsOK(cells, ledger, retired)
    BY <2>2 DEF CellsOK, CellAt
  <2>4. /\ pass = [s \in Passers |-> pass[s]]
        /\ \A s \in Passers : pass[s] = Rest
    BY <2>1 DEF Init
  <2>5. QED
    BY <2>3, <2>4, RestIsClear, ClearIsOK DEF IInv
<1>2. IInv /\ [Next]_vars => IInv'
  <2>1. SUFFICES ASSUME IInv, [Next]_vars
                 PROVE  IInv'
    OBVIOUS
  <2>2. CASE UNCHANGED vars
    BY <2>1, <2>2 DEF vars, IInv
  <2>3. CASE Next
    <3>1. ASSUME NEW s \in Passers, NEW call \in DOMAIN Calls, Start(s, call)
          PROVE  IInv'
      BY <2>1, <3>1, StartKeeps
    <3>2. ASSUME NEW s \in Passers, Step(s)
          PROVE  IInv'
      BY <2>1, <3>2, RunKeeps, EndProgramsKeeps, PersistKeeps, AttachKeeps, RecordKeeps,
         PulseKeeps, DeriveKeeps, AdmitKeeps DEF Step
    <3>3. ASSUME NEW s \in Passers, Fail(s) \/ Kill(s)
          PROVE  IInv'
      BY <2>1, <3>3, BreakKeeps
    <3>4. QED
      BY <2>1, <2>3, <3>1, <3>2, <3>3, EventKeeps DEF Next
  <2>4. QED
    BY <2>1, <2>2, <2>3
<1>3. QED
  BY <1>1, <1>2, PTL DEF Spec

\* Whatever overlaps, fails or is killed, a stored witness of a program
\* answers a run of the ledger (runProgramCell() records before it derives).
THEOREM CycleWitnessHasRun == Spec => []WitnessHasRun
<1>1. IInv => WitnessHasRun
  BY DEF IInv, WitnessHasRun, CellsOK, CellAt
<1>2. QED
  BY <1>1, CycleInvariant, PTL

\* Whatever overlaps, fails or is killed, a derivation has a second cell only
\* after the first was superseded (deriveAdmit()).
THEOREM CycleOneWitness == Spec => []OneWitness
<1>1. IInv => OneWitness
  <2>1. SUFFICES ASSUME IInv, NEW j \in DOMAIN cells, NEW k \in DOMAIN cells,
                        cells[j].derived = cells[k].derived, cells[j].derived # Nobody, j # k
                 PROVE  Pinned(cells[j].derived) \in retired
    BY DEF OneWitness
  <2> DEFINE d == cells[j].derived
  <2>2. Drawn(d, j, retired) /\ Drawn(d, k, retired)
    BY <2>1 DEF IInv, CellsOK, CellAt
  <2>3. PICK m \in Nat : j = Key(d, m) /\ (m # 0 => Pinned(d) \in retired)
    BY <2>2 DEF Drawn
  <2>4. PICK n \in Nat : k = Key(d, n) /\ (n # 0 => Pinned(d) \in retired)
    BY <2>2 DEF Drawn
  <2>5. m # 0 \/ n # 0
    BY <2>1, <2>3, <2>4
  <2>6. QED
    BY <2>3, <2>4, <2>5
<1>2. QED
  BY <1>1, CycleInvariant, PTL

\* A cell that is put back, by a process nobody disturbed, has the status it
\* is stored with.
LEMMA PutBackAsStored ==
    ASSUME IInv, ~overlapped, NEW s \in Passers, NEW p \in DOMAIN pass[s].read, NEW cell,
           cells' = [cells EXCEPT ![p] = cell], cell.status = pass[s].read[p].status,
           NEW k \in DOMAIN cells
    PROVE  cells'[k].status = cells[k].status
  BY DEF IInv, Quiet

\* As long as nobody writes while a pass is under way, no pass brings a
\* superseded cell back (programs put whole cells back, and deriveAdmit()
\* leaves a retired occupant of its key alone).
THEOREM CycleRetiredStays == Spec => RetiredStays
<1> DEFINE Stays == ~overlapped' => \A k \in DOMAIN cells :
                       cells[k].status = "superseded" => cells'[k].status = "superseded"
<1> HIDE DEF Stays
<1>1. IInv /\ Next => Stays
  <2>1. SUFFICES ASSUME IInv, Next, ~overlapped', NEW k \in DOMAIN cells,
                        cells[k].status = "superseded"
                 PROVE  cells'[k].status = "superseded"
    BY DEF Stays
  <2>2. ~overlapped
    BY <2>1 DEF Next, Step, Start, Run, EndPrograms, Persist, Attach, Record, Pulse, Derive,
                Admit, Fail, Kill, Learn, Retire, Midnight, Disturbs, Elsewhere
  <2>3. ASSUME NEW s \in Passers, Persist(s)
        PROVE  cells'[k].status = "superseded"
    <3> DEFINE p    == pass[s].prog
               cell == [pass[s].read[p] EXCEPT !.last = pass[s].output]
    <3>1. p \in DOMAIN pass[s].read /\ CellAt(p, pass[s].read[p], ledger, retired)
      BY <2>1, <2>3 DEF IInv, PassOK, Persist
    <3>2. cell.status = pass[s].read[p].status /\ cells' = [cells EXCEPT ![p] = cell]
      BY <2>3, <3>1 DEF Persist, CellAt, CellFields
    <3> HIDE DEF p, cell
    <3>3. QED
      BY <2>1, <2>2, <3>1, <3>2, PutBackAsStored
  <2>4. ASSUME NEW s \in Passers, Attach(s)
        PROVE  cells'[k].status = "superseded"
    <3>1. PICK p \in pass[s].members :
             cells' = [cells EXCEPT ![p] =
                          [pass[s].read[p] EXCEPT !.programs = @ \cup {pass[s].prog}]]
      BY <2>4 DEF Attach
    <3> DEFINE cell == [pass[s].read[p] EXCEPT !.programs = @ \cup {pass[s].prog}]
    <3>2. p \in DOMAIN pass[s].read /\ CellAt(p, pass[s].read[p], ledger, retired)
      BY <2>1, <2>4 DEF IInv, PassOK, Attach
    <3>3. cell.status = pass[s].read[p].status /\ cells' = [cells EXCEPT ![p] = cell]
      BY <3>1, <3>2 DEF CellAt, CellFields
    <3> HIDE DEF cell
    <3>4. QED
      BY <2>1, <2>2, <3>2, <3>3, PutBackAsStored
  <2>5. ASSUME NEW s \in Passers, Admit(s)
        PROVE  cells'[k].status = "superseded"
    <3>1. pass[s].key # k
      BY <2>1, <2>2, <2>5 DEF IInv, Quiet, Admit
    <3>2. QED
      BY <2>1, <2>5, <3>1 DEF Admit
  <2>6. ASSUME NEW j \in DOMAIN cells, Retire(j)
        PROVE  cells'[k].status = "superseded"
    BY <2>1, <2>6 DEF Retire, IInv, CellsOK, CellAt, CellFields
  <2>7. ASSUME NEW j \in Sources, NEW level \in Levels, Learn(j, level)
        PROVE  cells'[k].status = "superseded"
    BY <2>1, <2>7 DEF Learn, IInv, CellsOK, CellAt, CellFields
  <2>8. CASE UNCHANGED cells
    BY <2>1, <2>8
  <2>9. ASSUME NEW s \in Passers, (\E call \in DOMAIN Calls : Start(s, call)) \/ Fail(s) \/ Kill(s)
        PROVE  UNCHANGED cells
    BY <2>9 DEF Start, Fail, Kill
  <2>10. ASSUME NEW s \in Passers, Step(s), ~(Persist(s) \/ Attach(s) \/ Admit(s))
         PROVE  UNCHANGED cells
    BY <2>10 DEF Step, Run, EndPrograms, Record, Pulse, Derive
  <2>11. Midnight => UNCHANGED cells
    BY DEF Midnight
  <2>12. QED
    BY <2>1, <2>3, <2>4, <2>5, <2>6, <2>7, <2>8, <2>9, <2>10, <2>11 DEF Next
<1>2. IInv /\ [Next]_vars => [Stays]_vars
  BY <1>1
<1>3. QED
  BY <1>2, CycleInvariant, PTL DEF Spec, RetiredStays, Stays

-----------------------------------------------------------------------------
(* Every trip is witnessed.  Here a key matters: the cell deriveAdmit()     *)
(* finds under the key of a derivation is taken for its witness, so no cell *)
(* that people wrote may have such a key.                                   *)

DerivedKeysApart == \A k \in Base : \A d, n : k # Key(d, n)

UnderWay(r, run) == r.pc \in {"derive", "put"} /\ r.job = run
Witnessed(store, run) == \E k \in DOMAIN store : store[k].derived = run

Told(run) ==
    \/ Unheard(run)
    \/ \E s \in Passers : UnderWay(pass[s], run)
    \/ Witnessed(cells, run)

Trips ==
    /\ breaks \in Nat
    /\ breaks = 0 => \A run \in ledger : run.output.witness => Told(run)

\* A key of a derivation is the key of no other.
LEMMA DrawnOnce ==
    ASSUME NEW k, NEW d, NEW e, NEW R, Drawn(d, k, R), Drawn(e, k, R)
    PROVE  d = e
  BY DEF Drawn, Key

\* A cell that was read is still the witness of the same derivation.
LEMMA ReadDerived ==
    ASSUME IInv, NEW s \in Passers, NEW k \in DOMAIN pass[s].read
    PROVE  /\ k \in DOMAIN cells /\ pass[s].read[k].derived = cells[k].derived
           /\ DOMAIN pass[s].read[k] = CellFields
<1>1. /\ k \in DOMAIN cells /\ CellAt(k, pass[s].read[k], ledger, retired)
      /\ CellAt(k, cells[k], ledger, retired)
  BY DEF IInv, PassOK, CellsOK
<1>2. CASE k \in Base
  BY <1>1, <1>2 DEF CellAt
<1>3. CASE k \notin Base
  BY <1>1, <1>3, DrawnOnce DEF CellAt
<1>4. QED
  BY <1>1, <1>2, <1>3 DEF CellAt

\* A step keeps the trips told if it tells those it records and witnesses, or
\* leaves under way, those that were under way.
LEMMA TripsKept ==
    ASSUME Trips, UNCHANGED breaks,
           \A k \in DOMAIN cells : k \in DOMAIN cells' /\ cells'[k].derived = cells[k].derived,
           \A run \in ledger' : run \in ledger \/ (run.output.witness => Told(run)'),
           \A s \in Passers : \A run : UnderWay(pass[s], run) => Told(run)'
    PROVE  Trips'
<1>1. ASSUME NEW run, Told(run)
      PROVE  Told(run)'
  <2>1. CASE Unheard(run)
    BY <2>1 DEF Told, Unheard
  <2>2. CASE Witnessed(cells, run)
    <3>1. Witnessed(cells', run)
      BY <2>2 DEF Witnessed
    <3>2. QED
      BY <3>1 DEF Told
  <2>3. QED
    BY <1>1, <2>1, <2>2 DEF Told
<1>2. QED
  BY <1>1 DEF Trips

\* A step of one process that tells no run, and drops none.
LEMMA TripsUntouched ==
    ASSUME Trips, IInv, UNCHANGED <<breaks, ledger>>,
           \A k \in DOMAIN cells : k \in DOMAIN cells' /\ cells'[k].derived = cells[k].derived,
           NEW s \in Passers, NEW to, pass' = [pass EXCEPT ![s] = to],
           \A run : UnderWay(pass[s], run) => UnderWay(to, run)
    PROVE  Trips'
<1>1. pass'[s] = to /\ \A t \in Passers \ {s} : pass'[t] = pass[t]
  BY DEF IInv
<1>2. ASSUME NEW t \in Passers, NEW run, UnderWay(pass[t], run)
      PROVE  Told(run)'
  <2>1. UnderWay(pass'[t], run)
    BY <1>1, <1>2
  <2>2. QED
    BY <2>1 DEF Told
<1>3. QED
  BY <1>2, TripsKept

\* Steps that neither record a run nor deal with a witness.
LEMMA QuietStepsTell ==
    ASSUME Trips, IInv, NEW s \in Passers,
           \/ \E call \in DOMAIN Calls : Start(s, call)
           \/ Run(s) \/ EndPrograms(s) \/ Persist(s) \/ Attach(s) \/ Pulse(s)
    PROVE  Trips'
<1>1. pass[s].pc \notin {"derive", "put"} /\ UNCHANGED <<breaks, ledger>>
  <2>1. ASSUME NEW call \in DOMAIN Calls, Start(s, call)
        PROVE  pass[s].pc \notin {"derive", "put"} /\ UNCHANGED <<breaks, ledger>>
    BY <2>1 DEF Start, Busy
  <2>2. CASE Run(s) \/ EndPrograms(s)
    BY <2>2 DEF Run, EndPrograms
  <2>3. CASE Persist(s) \/ Attach(s)
    BY <2>3 DEF Persist, Attach
  <2>4. CASE Pulse(s)
    BY <2>4 DEF Pulse
  <2>5. CASE \E call \in DOMAIN Calls : Start(s, call)
    BY <2>1, <2>5
  <2>6. QED
    BY <2>2, <2>3, <2>4, <2>5
<1>2. \E to : pass' = [pass EXCEPT ![s] = to]
  BY DEF Start, Run, EndPrograms, Persist, Attach, Pulse, NextLeg, Goes
<1>3. \A k \in DOMAIN cells : k \in DOMAIN cells' /\ cells'[k].derived = cells[k].derived
  <2>1. ASSUME Persist(s)
        PROVE  \A k \in DOMAIN cells : k \in DOMAIN cells' /\ cells'[k].derived = cells[k].derived
    <3> DEFINE p    == pass[s].prog
               cell == [pass[s].read[p] EXCEPT !.last = pass[s].output]
    <3>1. p \in DOMAIN pass[s].read
      BY <2>1 DEF IInv, PassOK, Persist
    <3>2. cell.derived = pass[s].read[p].derived
      BY <3>1, ReadDerived DEF CellFields
    <3>3. cells' = [cells EXCEPT ![p] = cell]
      BY <2>1 DEF Persist
    <3> HIDE DEF p, cell
    <3>4. QED
      BY <3>1, <3>2, <3>3, ReadDerived
  <2>2. ASSUME Attach(s)
        PROVE  \A k \in DOMAIN cells : k \in DOMAIN cells' /\ cells'[k].derived = cells[k].derived
    <3>1. PICK p \in pass[s].members :
             cells' = [cells EXCEPT ![p] =
                          [pass[s].read[p] EXCEPT !.programs = @ \cup {pass[s].prog}]]
      BY <2>2 DEF Attach
    <3> DEFINE cell == [pass[s].read[p] EXCEPT !.programs = @ \cup {pass[s].prog}]
    <3>2. p \in DOMAIN pass[s].read
      BY <2>2 DEF IInv, PassOK, Attach
    <3>3. cell.derived = pass[s].read[p].derived /\ cells' = [cells EXCEPT ![p] = cell]
      BY <3>1, <3>2, ReadDerived DEF CellFields
    <3> HIDE DEF cell
    <3>4. QED
      BY <3>2, <3>3, ReadDerived
  <2>3. QED
    BY <2>1, <2>2 DEF Start, Run, EndPrograms, Pulse
<1>4. QED
  BY <1>1, <1>2, <1>3, TripsUntouched DEF UnderWay

\* A run that is recorded is under way in the same step.
LEMMA RecordTells ==
    ASSUME Trips, IInv, NEW s \in Passers, Record(s)
    PROVE  Trips'
<1> DEFINE run == [of |-> pass[s].prog, output |-> pass[s].output]
           to  == [pass[s] EXCEPT !.ran = @ \cup {pass[s].prog},
                       !.pc  = IF run.output.witness THEN "derive" ELSE "programs",
                       !.job = IF run.output.witness THEN run ELSE Nobody]
<1>1. /\ pass[s].pc = "attach" /\ UNCHANGED <<cells, breaks>> /\ ledger' = ledger \cup {run}
      /\ pass' = [pass EXCEPT ![s] = to] /\ DOMAIN pass[s] = PassFields
  BY DEF Record, Goes, LedgerWith, IInv, PassOK
<1>2. run.output.witness => UnderWay(to, run)
  BY <1>1 DEF UnderWay, PassFields
<1> HIDE DEF run, to
<1>3. pass'[s] = to /\ \A t \in Passers \ {s} : pass'[t] = pass[t]
  BY <1>1 DEF IInv
<1>4. ASSUME NEW r, r = run, r.output.witness
      PROVE  Told(r)'
  <2>1. UnderWay(pass'[s], r)
    BY <1>2, <1>3, <1>4
  <2>2. QED
    BY <2>1 DEF Told
<1>5. ASSUME NEW t \in Passers, NEW r, UnderWay(pass[t], r)
      PROVE  Told(r)'
  <2>1. t # s
    BY <1>1, <1>5 DEF UnderWay
  <2>2. UnderWay(pass'[t], r)
    BY <1>3, <1>5, <2>1
  <2>3. QED
    BY <2>2 DEF Told
<1>6. \A r \in ledger' : r \in ledger \/ (r.output.witness => Told(r)')
  BY <1>1, <1>4
<1>7. QED
  BY <1>1, <1>5, <1>6, TripsKept

\* A run whose witness is dealt with is witnessed, or was refused.
LEMMA DealtWith ==
    ASSUME Trips, IInv, NEW s \in Passers, UNCHANGED <<breaks, ledger>>,
           \A k \in DOMAIN cells : k \in DOMAIN cells' /\ cells'[k].derived = cells[k].derived,
           NEW to, pass' = [pass EXCEPT ![s] = to],
           Unheard(pass[s].job) \/ Witnessed(cells', pass[s].job)
    PROVE  Trips'
<1>1. \A t \in Passers \ {s} : pass'[t] = pass[t]
  BY DEF IInv
<1>2. ASSUME NEW t \in Passers, NEW run, UnderWay(pass[t], run)
      PROVE  Told(run)'
  <2>1. CASE t = s
    BY <1>2, <2>1 DEF UnderWay, Told, Unheard
  <2>2. CASE t # s
    <3>1. UnderWay(pass'[t], run)
      BY <1>1, <1>2, <2>2
    <3>2. QED
      BY <3>1 DEF Told
  <2>3. QED
    BY <2>1, <2>2
<1>3. QED
  BY <1>2, TripsKept

LEMMA DeriveTells ==
    ASSUME DerivedKeysApart, Trips, IInv, NEW s \in Passers, Derive(s)
    PROVE  Trips'
<1> DEFINE d == pass[s].job
<1>1. /\ PassOK(pass[s], DOMAIN cells, ledger, retired) /\ pass[s].pc = "derive"
      /\ CellsOK(cells, ledger, retired)
      /\ UNCHANGED <<cells, ledger, retired, breaks>>
  BY DEF IInv, Derive
<1>2. CASE Pinned(d) \in DOMAIN cells /\ cells[Pinned(d)].status = "active"
  <2>1. PICK to : pass' = [pass EXCEPT ![s] = to]
    BY <1>2 DEF Derive, Derived, NextLeg, Goes
  <2>2. Pinned(d) \notin Base
    BY DEF DerivedKeysApart, Pinned
  <2>3. Drawn(cells[Pinned(d)].derived, Pinned(d), retired)
    BY <1>1, <1>2, <2>2 DEF CellsOK, CellAt
  <2>4. Drawn(d, Pinned(d), retired)
    BY DEF Drawn, Pinned
  <2>5. cells[Pinned(d)].derived = d
    BY <2>3, <2>4, DrawnOnce
  <2>6. Witnessed(cells', d)
    BY <1>1, <1>2, <2>5 DEF Witnessed
  <2>7. QED
    BY <1>1, <2>1, <2>6, DealtWith
<1>3. CASE ~(Pinned(d) \in DOMAIN cells /\ cells[Pinned(d)].status = "active")
  <2>1. PICK k \in FreeKeys(d) : Goes(s, [pass[s] EXCEPT !.pc = "put", !.key = k])
    BY <1>3 DEF Derive
  <2> DEFINE to == [pass[s] EXCEPT !.pc = "put", !.key = k]
  <2>2. pass' = [pass EXCEPT ![s] = to]
    BY <2>1 DEF Goes
  <2>3. \A run : UnderWay(pass[s], run) => UnderWay(to, run)
    BY <1>1 DEF PassOK, PassFields, UnderWay
  <2> HIDE DEF to
  <2>4. QED
    BY <1>1, <2>2, <2>3, TripsUntouched
<1>4. QED
  BY <1>2, <1>3

LEMMA AdmitTells ==
    ASSUME Trips, IInv, NEW s \in Passers, Admit(s)
    PROVE  Trips'
<1> DEFINE d == pass[s].job
           k == pass[s].key
<1>1. /\ PassOK(pass[s], DOMAIN cells, ledger, retired) /\ pass[s].pc = "put"
      /\ CellsOK(cells, ledger, retired) /\ UNCHANGED <<ledger, breaks>>
  BY DEF IInv, Admit
<1>2. PICK to : pass' = [pass EXCEPT ![s] = to]
  BY DEF Admit, Derived, NextLeg, Goes
<1>3. CASE Refused(d)
  <2>1. UNCHANGED cells
    BY <1>3 DEF Admit
  <2>2. Unheard(d)
    BY <1>1, <1>3 DEF Refused, Unheard, CellsOK, Base
  <2>3. QED
    BY <1>1, <1>2, <2>1, <2>2, DealtWith
<1>4. CASE ~Refused(d)
  <2>1. cells' = [j \in DOMAIN cells \cup {k} |-> IF j = k THEN Witness(d, k) ELSE cells[j]]
    BY <1>4 DEF Admit
  <2>2. Witness(d, k).derived = d
    BY DEF Witness, Plain
  <2>3. k \in DOMAIN cells => cells[k].derived = d
    <3>1. k \notin Base /\ Drawn(d, k, retired)
      BY <1>1 DEF PassOK
    <3>2. k \in DOMAIN cells => Drawn(cells[k].derived, k, retired)
      BY <1>1, <3>1 DEF CellsOK, CellAt
    <3>3. QED
      BY <3>1, <3>2, DrawnOnce
  <2>4. \A j \in DOMAIN cells : j \in DOMAIN cells' /\ cells'[j].derived = cells[j].derived
    BY <2>1, <2>2, <2>3
  <2>5. Witnessed(cells', d)
    BY <2>1, <2>2 DEF Witnessed
  <2>6. QED
    BY <1>1, <1>2, <2>4, <2>5, DealtWith
<1>5. QED
  BY <1>3, <1>4

\* Nobody else touches what cells witness, or what is under way.
LEMMA EventTells ==
    ASSUME Trips, IInv,
           \/ \E k \in Sources, level \in Levels : Learn(k, level)
           \/ \E k \in DOMAIN cells : Retire(k)
           \/ Midnight
    PROVE  Trips'
<1>1. UNCHANGED <<pass, breaks, ledger>>
  BY DEF Learn, Retire, Midnight, Elsewhere
<1>2. \A k \in DOMAIN cells : DOMAIN cells[k] = CellFields
  BY DEF IInv, CellsOK, CellAt
<1>3. \A k \in DOMAIN cells : k \in DOMAIN cells' /\ cells'[k].derived = cells[k].derived
  BY <1>2 DEF Learn, Retire, Midnight, CellFields
<1>4. \A s \in Passers : \A run : UnderWay(pass[s], run) => Told(run)'
  BY <1>1 DEF Told
<1>5. QED
  BY <1>1, <1>3, <1>4, TripsKept

\* If nothing breaks, every recorded run that has something to witness is
\* witnessed or about to be, whatever passes overlap and whatever is retired
\* between their steps: deriveAdmit() may only skip a witness that is there.
THEOREM CycleTripsWitnessed ==
    ASSUME DerivedKeysApart
    PROVE  Spec => []TripsWitnessed
<1>1. Init => Trips
  <2>1. Init => breaks = 0 /\ ledger = {}
    BY DEF Init
  <2>2. QED
    BY <2>1 DEF Trips
<1>2. Trips /\ IInv /\ [Next]_vars => Trips'
  <2>1. SUFFICES ASSUME Trips, IInv, [Next]_vars
                 PROVE  Trips'
    OBVIOUS
  <2>2. CASE UNCHANGED vars
    BY <2>1, <2>2 DEF vars, Trips, Told, Unheard
  <2>3. ASSUME NEW s \in Passers, Fail(s) \/ Kill(s)
        PROVE  Trips'
    <3>1. breaks \in Nat /\ breaks' = breaks + 1
      BY <2>1, <2>3 DEF Fail, Kill, Trips
    <3>2. breaks' \in Nat /\ breaks' # 0
      BY <3>1
    <3>3. QED
      BY <3>2 DEF Trips
  <2>4. ASSUME NEW s \in Passers, (\E call \in DOMAIN Calls : Start(s, call)) \/ Step(s)
        PROVE  Trips'
    BY <2>1, <2>4, QuietStepsTell, RecordTells, DeriveTells, AdmitTells DEF Step
  <2>5. QED
    BY <2>1, <2>2, <2>3, <2>4, EventTells DEF Next
<1>3. Trips => TripsWitnessed
  BY DEF Trips, TripsWitnessed, Told, UnderWay, Witnessed
<1>4. QED
  BY <1>1, <1>2, <1>3, CycleInvariant, PTL DEF Spec
=============================================================================
