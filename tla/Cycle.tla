-------------------------------- MODULE Cycle --------------------------------
(***************************************************************************)
(* The work Recall does on its own graph: the operator cycle that the stop *)
(* hook runs when it releases a turn, and the maintenance pass of the      *)
(* background service, which adds an eval leg and a health leg             *)
(* (src/src/operator.ts, maintain.ts, programs.ts, derivation.ts and       *)
(* evals.ts).  Both run the standing programs in turn and store what they  *)
(* witness through deriveAdmit(), under a key made of what was derived.    *)
(*                                                                         *)
(* A step is what happens between two writes of a pass, so passes of       *)
(* several processes interleave; a leg may fail and a process be killed    *)
(* between any two steps.  The score tick that opens a cycle is Learn: it  *)
(* is modelled in SharedStore and Confidence.                              *)
(***************************************************************************)
EXTENDS Programs

CONSTANTS Passers,    \* processes that run passes
          Sources,    \* cells people and agents wrote
          Progs,      \* program cells
          Nobody,     \* not a program
          Script,     \* for each program: spec, target, concern, position, created
          Topics,     \* for each source and program: its topics
          Levels,     \* the effective confidences a source can have
          MaxPasses,  \* bound: passes started
          MaxEvents,  \* bound: changes from outside the passes
          MaxBreaks,  \* bound: processes killed and legs that failed
          MaxFresh    \* bound: witnesses stored under keys of their own

Days  == 1..2
Legs  == {"programs", "eval", "health"}
Calls == [hook |-> <<"programs">>, maintain |-> <<"programs", "eval", "health">>]

\* What is derived: a program and its output, or a leg and its day.
Daily(leg, day) == [of |-> leg, output |-> [day |-> day]]

VARIABLES cells,    \* the stored cells, by key
          ledger,   \* the runs program_runs holds, as derivations
          retired,  \* the keys of cells that were superseded
          today,
          pass,     \* where each process is, and what it holds in memory
          passes, events, breaks,
          overlapped   \* somebody wrote while a pass was under way

vars == <<cells, ledger, retired, today, pass, passes, events, breaks, overlapped>>

\* deriveAdmit() pins a witness to its derivation; a later one gets a key of
\* its own.
Key(d, n) == [derived |-> d, fresh |-> n]
PinnedToProgram(d) == Key([of |-> d.of, output |-> NotRun], 0)   \* mutant
Pinned(d) == Key(d, 0)

\* A cell under the key k: the programs attached to it, and, for a program,
\* what it is linked to and the output of its last run.
Plain(k) == [key |-> k, kind |-> "obs", status |-> "active", topics |-> {}, entities |-> {},
             effective |-> 14, programs |-> {}, derived |-> Nobody,
             links |-> {}, last |-> NotRun]

ASSUME CycleAssumption ==
    /\ (Legs \cup {Nobody}) \cap Progs = {}
    /\ DOMAIN Script = Progs
    /\ MaxPasses \in Nat /\ MaxEvents \in Nat /\ MaxBreaks \in Nat /\ MaxFresh \in Nat

-----------------------------------------------------------------------------
(* Standing programs *)

\* Positions count from the start, or, below zero, from the end.
TickEnd == 1000
TickPosition(p) ==
    IF Script[p].position >= 0 THEN Script[p].position ELSE TickEnd + Script[p].position

Ahead(p, q) == \/ TickPosition(p) < TickPosition(q)
               \/ TickPosition(p) = TickPosition(q) /\ Script[p].created < Script[q].created

Standing == {p \in Progs : cells[p].status = "active"}

Rest == [pc |-> "idle", legs |-> <<>>, call |-> "hook", day |-> 1, list |-> {},
         ran |-> {}, todo |-> {}, prog |-> Nobody, read |-> [k \in {} |-> {}],
         members |-> {}, output |-> NotRun, job |-> Nobody, key |-> Nobody]

Busy(s) == pass[s].pc # "idle"
Goes(s, to) == pass' = [pass EXCEPT ![s] = to]
Disturbs(s) == overlapped' = (overlapped \/ \E t \in Passers \ {s} : Busy(t))

\* A pass takes its day and the list of its programs when it starts.
Start(s, call) ==
    /\ ~Busy(s) /\ passes < MaxPasses
    /\ Goes(s, [Rest EXCEPT !.pc = "programs", !.legs = Calls[call], !.call = call,
                            !.day = today, !.list = Standing, !.todo = Standing])
    /\ passes' = passes + 1
    /\ Disturbs(s)
    /\ UNCHANGED <<cells, ledger, retired, today, events, breaks>>

\* The leg is over, whether it was done or it threw.
LegsCutShort(s) == IF pass[s].todo # {} THEN <<>> ELSE Tail(pass[s].legs)   \* mutant
LegsLeft(s) == Tail(pass[s].legs)

NextLeg(s) ==
    LET left == LegsLeft(s)
        kept == [Rest EXCEPT !.call = pass[s].call, !.day = pass[s].day,
                             !.list = pass[s].list, !.ran = pass[s].ran]
    IN  Goes(s, IF left = <<>> THEN kept
                ELSE [kept EXCEPT !.pc = Head(left), !.legs = left])

\* The next program is read again, its members are selected and it runs.  A
\* specification that does not validate throws out of the loop.
Run(s) ==
    /\ pass[s].pc = "programs"
    /\ \E p \in pass[s].todo :
          /\ \A q \in pass[s].todo : ~Ahead(q, p)
          /\ IF ~WellFormed(Script[p].spec) THEN NextLeg(s)
             ELSE \E members \in Selections(cells, cells[p], Script[p].target) :
                    Goes(s, [pass[s] EXCEPT
                       !.pc = "persist", !.todo = @ \ {p}, !.prog = p,
                       !.read = [k \in members \cup {p} |-> cells[k]],
                       !.members = {k \in members : p \notin cells[k].programs},
                       !.output = Execute(Script[p].spec, {cells[k] : k \in members},
                                          cells[p].last)])
    /\ Disturbs(s)
    /\ UNCHANGED <<cells, ledger, retired, today, passes, events, breaks>>

EndPrograms(s) ==
    /\ pass[s].pc = "programs" /\ pass[s].todo = {}
    /\ NextLeg(s)
    /\ Disturbs(s)
    /\ UNCHANGED <<cells, ledger, retired, today, passes, events, breaks>>

\* The program is put back whole, with the run as its new baseline.
Persist(s) ==
    LET p == pass[s].prog
    IN  /\ pass[s].pc = "persist"
        /\ cells' = [cells EXCEPT ![p] = [pass[s].read[p] EXCEPT !.last = pass[s].output]]
        /\ Goes(s, [pass[s] EXCEPT !.pc = "attach"])
        /\ Disturbs(s)
        /\ UNCHANGED <<ledger, retired, today, passes, events, breaks>>

\* Each member that does not list the program is put back whole, one by one.
Attach(s) ==
    LET p == pass[s].prog
    IN  /\ pass[s].pc = "attach"
        /\ \E k \in pass[s].members :
              /\ cells' = [cells EXCEPT ![k] =
                              [pass[s].read[k] EXCEPT !.programs = @ \cup {p}]]
              /\ Goes(s, [pass[s] EXCEPT !.members = @ \ {k}])
        /\ Disturbs(s)
        /\ UNCHANGED <<ledger, retired, today, passes, events, breaks>>

LedgerWithoutTrips(run) == IF run.output.witness THEN ledger ELSE ledger \cup {run}   \* mutant
LedgerWith(run) == ledger \cup {run}

\* The run goes to the ledger, and on to deriveAdmit() if it has a witness.
Record(s) ==
    LET run == [of |-> pass[s].prog, output |-> pass[s].output]
    IN  /\ pass[s].pc = "attach" /\ pass[s].members = {}
        /\ ledger' = LedgerWith(run)
        /\ Goes(s, [pass[s] EXCEPT !.ran = @ \cup {pass[s].prog},
                       !.pc  = IF run.output.witness THEN "derive" ELSE "programs",
                       !.job = IF run.output.witness THEN run ELSE Nobody])
        /\ Disturbs(s)
        /\ UNCHANGED <<cells, retired, today, passes, events, breaks>>

\* The eval leg and the health leg derive one witness a day.
Pulse(s) ==
    /\ pass[s].pc \in {"eval", "health"}
    /\ Goes(s, [pass[s] EXCEPT !.pc = "derive", !.job = Daily(pass[s].pc, pass[s].day)])
    /\ Disturbs(s)
    /\ UNCHANGED <<cells, ledger, retired, today, passes, events, breaks>>

-----------------------------------------------------------------------------
(* deriveAdmit() *)

\* Where a pass goes when its witness is dealt with.
Derived(s) ==
    IF Head(pass[s].legs) = "programs"
    THEN Goes(s, [pass[s] EXCEPT !.pc = "programs", !.job = Nobody, !.key = Nobody])
    ELSE NextLeg(s)

\* A retired cell under the key of the derivation is left alone: the witness
\* gets a key of its own.
NewKeys(d) == {Key(d, n) : n \in 1..MaxFresh} \ DOMAIN cells   \* mutant
Reused(d)  == {Pinned(d)}   \* mutant
FreeKeys(d) ==
    IF Pinned(d) \notin DOMAIN cells THEN {Pinned(d)}
    ELSE {Key(d, n) : n \in 1..MaxFresh} \ DOMAIN cells

\* An active cell under the key is the witness.
Derive(s) ==
    LET d == pass[s].job
    IN  /\ pass[s].pc = "derive"
        /\ IF Pinned(d) \in DOMAIN cells /\ cells[Pinned(d)].status = "active"
           THEN Derived(s)
           ELSE \E k \in FreeKeys(d) : Goes(s, [pass[s] EXCEPT !.pc = "put", !.key = k])
        /\ Disturbs(s)
        /\ UNCHANGED <<cells, ledger, retired, today, passes, events, breaks>>

\* The gate refuses a witness whose concern names no cell.
Refused(d) == d.of \in Progs /\ Script[d.of].concern \notin DOMAIN cells \cup {Nobody}

Witness(d, k) ==
    [Plain(k) EXCEPT !.derived = d, !.topics = IF d.of \in Progs THEN Topics[d.of] ELSE {}]

Admit(s) ==
    LET d == pass[s].job
        k == pass[s].key
    IN  /\ pass[s].pc = "put"
        /\ cells' = IF Refused(d) THEN cells
                    ELSE [j \in DOMAIN cells \cup {k} |->
                             IF j = k THEN Witness(d, k) ELSE cells[j]]
        /\ Derived(s)
        /\ Disturbs(s)
        /\ UNCHANGED <<ledger, retired, today, passes, events, breaks>>

-----------------------------------------------------------------------------
(* Failures, and everybody else *)

\* What a leg throws is caught, and the next leg runs.
Fail(s) ==
    /\ Busy(s) /\ breaks < MaxBreaks
    /\ NextLeg(s)
    /\ breaks' = breaks + 1
    /\ Disturbs(s)
    /\ UNCHANGED <<cells, ledger, retired, today, passes, events>>

Kill(s) ==
    /\ Busy(s) /\ breaks < MaxBreaks
    /\ Goes(s, Rest)
    /\ breaks' = breaks + 1
    /\ Disturbs(s)
    /\ UNCHANGED <<cells, ledger, retired, today, passes, events>>

Elsewhere ==
    /\ events < MaxEvents
    /\ events' = events + 1
    /\ overlapped' = (overlapped \/ \E s \in Passers : Busy(s))
    /\ UNCHANGED <<ledger, pass, passes, breaks>>

\* A tick or new evidence changes the confidence of a source.
Learn(k, level) ==
    /\ cells[k].effective # level
    /\ cells' = [cells EXCEPT ![k].effective = level]
    /\ Elsewhere
    /\ UNCHANGED <<retired, today>>

\* A correction supersedes a cell.
Retire(k) ==
    /\ cells[k].status = "active"
    /\ cells' = [cells EXCEPT ![k].status = "superseded"]
    /\ retired' = retired \cup {k}
    /\ Elsewhere
    /\ UNCHANGED today

Midnight ==
    /\ today + 1 \in Days
    /\ today' = today + 1
    /\ Elsewhere
    /\ UNCHANGED <<cells, retired>>

-----------------------------------------------------------------------------
Init ==
    /\ cells = [k \in Sources \cup Progs |->
                  [Plain(k) EXCEPT !.topics = Topics[k],
                                   !.kind = IF k \in Progs THEN "prg" ELSE "obs"]]
    /\ ledger = {} /\ retired = {}
    /\ today = 1
    /\ pass = [s \in Passers |-> Rest]
    /\ passes = 0 /\ events = 0 /\ breaks = 0
    /\ overlapped = FALSE

Step(s) == \/ Run(s) \/ EndPrograms(s) \/ Persist(s) \/ Attach(s) \/ Record(s)
           \/ Pulse(s) \/ Derive(s) \/ Admit(s)

Next ==
    \/ \E s \in Passers :
          \/ \E call \in DOMAIN Calls : Start(s, call)
          \/ Step(s) \/ Fail(s) \/ Kill(s)
    \/ \E k \in Sources, level \in Levels : Learn(k, level)
    \/ \E k \in DOMAIN cells : Retire(k)
    \/ Midnight

\* A pass is one synchronous call: unless it is killed it goes on.
Spec == Init /\ [][Next]_vars /\ \A s \in Passers : WF_vars(Step(s))
-----------------------------------------------------------------------------
(* Properties *)

\* However passes interleave, fail and are killed, a stored witness of a
\* program answers a run that the ledger holds: runProgramCell() records
\* before it derives.
WitnessHasRun ==
    \A k \in DOMAIN cells :
       cells[k].derived # Nobody /\ cells[k].derived.of \in Progs => cells[k].derived \in ledger

\* If no leg failed and no process was killed, every recorded run that has
\* something to witness is witnessed, or a pass is about to do it: the baseline
\* has moved on, so no later run says it again.  A program whose concern names
\* no cell that people wrote may have its witness refused.
Unheard(run) == run.of \in Progs /\ Script[run.of].concern \notin Sources \cup Progs \cup {Nobody}

TripsWitnessed ==
    breaks = 0 => \A run \in ledger :
       run.output.witness =>
          \/ Unheard(run)
          \/ \E s \in Passers : pass[s].job = run
          \/ \E k \in DOMAIN cells : cells[k].derived = run

\* Two cells of one derivation are only stored once the one under the key of
\* the derivation was superseded: until then re-deriving finds it, even where
\* two passes both found its key free.
OneWitness ==
    \A j, k \in DOMAIN cells :
       cells[j].derived = cells[k].derived /\ cells[j].derived # Nobody /\ j # k
          => Pinned(cells[j].derived) \in retired

\* As long as nobody writes while a pass is under way, no pass brings a
\* superseded cell back: deriveAdmit() leaves a retired occupant of its key
\* alone, and cells are put back as they were just read.
RetiredStays ==
    [][~overlapped' => \A k \in DOMAIN cells :
          cells[k].status = "superseded" => cells'[k].status = "superseded"]_vars

\* Unless something breaks, every pass that starts ends, and delivers: each
\* well formed program behind none that is not has run, and after a
\* maintenance pass both legs have their witness of the day the pass started.
Due(list) == {p \in list : \A q \in list : q = p \/ Ahead(q, p) => WellFormed(Script[q].spec)}

Delivered(s) ==
    /\ Due(pass[s].list) \subseteq pass[s].ran
    /\ pass[s].call = "maintain" =>
          \A leg \in {"eval", "health"} : \E k \in DOMAIN cells :
             cells[k].derived = Daily(leg, pass[s].day)

PassesDeliver ==
    \A s \in Passers : Busy(s) ~> (~Busy(s) /\ (breaks = 0 => Delivered(s)))
=============================================================================
