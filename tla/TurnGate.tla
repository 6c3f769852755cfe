------------------------------ MODULE TurnGate ------------------------------
(***************************************************************************)
(* The write gate of an agent's session: a turn may not end before the     *)
(* agent stored what it learned, or attested that there is nothing to      *)
(* store.  Three short-lived processes share a marker file with no lock:   *)
(*                                                                         *)
(*   the prompt hook   stamps the start of a turn    (src/src/prompt-hook.ts)*)
(*   a receipt hook    adds the cell a write call    (src/src/receipt-hook.ts)*)
(*                     was answered with                                   *)
(*   the stop hook     holds or releases the turn    (src/src/stop-hook.ts) *)
(*                                                                         *)
(* writeFileSync() opens the file, which empties it, and writes it: two    *)
(* steps, between which others see no JSON.  The agent may issue several   *)
(* write calls at once, whose receipt hooks then run concurrently; it is   *)
(* stopped when they are done.  The user may interrupt a turn with a new   *)
(* prompt while receipt hooks of the old turn are still running.           *)
(***************************************************************************)
EXTENDS Naturals, FiniteSets

CONSTANTS Keys,        \* keys of cells
          Calls,       \* the write calls of the session
          Nothing,     \* no cell: the call was not made yet
          TurnIds,     \* do the hook events carry a turn id?
          MaxTurns,    \* bound: turns of the session
          MaxTime,     \* bound: the clock
          MaxFaults    \* bound: stamps that fail, hooks killed, stores that do not open

Turns  == 1..MaxTurns
Time   == 0..MaxTime

\* The marker file, or a copy of it in the memory of a hook.
Marker == [file : {"missing", "torn", "stamped"},
           start : Time, turn : 0..MaxTurns, ids : SUBSET Keys]

NoMarker == [file |-> "missing", start |-> 0, turn |-> 0, ids |-> {}]
Torn     == [file |-> "torn", start |-> 0, turn |-> 0, ids |-> {}]

ASSUME TurnAssumption ==
    /\ MaxTurns \in Nat /\ MaxTime \in Nat /\ MaxFaults \in Nat
    /\ TurnIds \in BOOLEAN
    /\ Nothing \notin Keys

VARIABLES clock,
          cells,    \* when each stored cell was created: a partial function on Keys
          marker,   \* the marker file of the session
          turn,     \* the turn the session is in; 0 before the first
          began,    \* the time each turn's prompt hook took
          session,  \* where the prompt hook, the agent or the stop hook is
          calls,    \* the write calls, and the receipt hook of each
          closed,   \* how each turn ended
          faults

vars == <<clock, cells, marker, turn, began, session, calls, closed, faults>>

-----------------------------------------------------------------------------
Session == [pc : {"idle", "stamp", "stamping", "working", "stop", "close", "closing"},
            attest : BOOLEAN,    \* the last message ends with NO_WRITE_RECEIPT
            seen : Marker]

Call == [pc : {"none", "answered", "holding", "filling", "done", "killed"},
         turn : 0..MaxTurns, id : Keys \cup {Nothing}, seen : Marker]

\* "open", ungated, or the closure the stop hook records.
Closure == [kind : {"open", "ungated", "write", "no-write"},
            ids : SUBSET Keys, stamp : 0..MaxTurns]

Unused  == [pc |-> "none", turn |-> 0, id |-> Nothing, seen |-> NoMarker]
Open    == [kind |-> "open", ids |-> {}, stamp |-> 0]
Ungated == [kind |-> "ungated", ids |-> {}, stamp |-> 0]

Readable == marker.file = "stamped"

\* Mutant: the turn of the marker is not compared.
AnyTurn(t) == TRUE

\* The event of turn t belongs to the turn of the marker, as far as a hook can
\* tell: without turn ids every event does.
SameTurn(t) == ~TurnIds \/ marker.turn = t

\* What writing m leaves in the opened file.  When another hook wrote a longer
\* text since, its end remains and the whole is no JSON; texts of one turn are
\* as long as they have ids.
Filled(m) ==
    IF ~Readable THEN {m}
    ELSE IF marker.turn # m.turn THEN {m, Torn}
    ELSE IF Cardinality(marker.ids) > Cardinality(m.ids) THEN {Torn}
    ELSE {m}

Faulty == faults < MaxFaults /\ faults' = faults + 1

Goes(pc) == session' = [session EXCEPT !.pc = pc]
CallGoes(i, pc) == calls' = [calls EXCEPT ![i].pc = pc]

-----------------------------------------------------------------------------
(* The prompt hook *)

\* A prompt starts a turn, and interrupts the one the agent works on; its hook
\* takes the time.
Prompt ==
    /\ turn < MaxTurns
    /\ session.pc \in {"idle", "working"}
    /\ turn' = turn + 1
    /\ began' = [began EXCEPT ![turn + 1] = clock]
    /\ session' = [session EXCEPT !.pc = "stamp", !.attest = FALSE]
    /\ UNCHANGED <<clock, cells, marker, calls, closed, faults>>

\* The marker cannot be opened: the hook gives up and the turn goes on.
StampFail ==
    /\ session.pc = "stamp"
    /\ Faulty
    /\ Goes("working")
    /\ UNCHANGED <<clock, cells, marker, turn, began, calls, closed>>

StampOpen ==
    /\ session.pc = "stamp"
    /\ marker' = Torn
    /\ Goes("stamping")
    /\ UNCHANGED <<clock, cells, turn, began, calls, closed, faults>>

StampFill ==
    /\ session.pc = "stamping"
    /\ marker' \in Filled([file |-> "stamped", start |-> began[turn], turn |-> turn, ids |-> {}])
    /\ session' = [session EXCEPT !.pc = "working"]
    /\ UNCHANGED <<clock, cells, turn, began, calls, closed, faults>>

-----------------------------------------------------------------------------
(* Write calls and receipt hooks *)

\* Mutant: a refused write has a receipt too, with no cell in it.
WriteRefused(i, k) ==
    /\ session.pc = "working"
    /\ calls[i].pc = "none"
    /\ calls' = [calls EXCEPT ![i].pc = "answered", ![i].turn = turn]
    /\ UNCHANGED <<clock, cells, marker, turn, began, session, closed, faults>>

\* recall_write is answered: with a new cell, or, for a duplicate, with the one
\* already stored.  A refused write has no receipt.
Write(i, k) ==
    /\ session.pc = "working"
    /\ calls[i].pc = "none"
    /\ cells' = IF k \in DOMAIN cells THEN cells
                ELSE [x \in DOMAIN cells \cup {k} |-> IF x = k THEN clock ELSE cells[x]]
    /\ calls' = [calls EXCEPT ![i] = [pc |-> "answered", turn |-> turn, id |-> k,
                                      seen |-> NoMarker]]
    /\ UNCHANGED <<clock, marker, turn, began, session, closed, faults>>

\* Some other process stores a cell: an import, the operator, another session.
Ambient(k) ==
    /\ k \notin DOMAIN cells
    /\ cells' = [x \in DOMAIN cells \cup {k} |-> IF x = k THEN clock ELSE cells[x]]
    /\ UNCHANGED <<clock, marker, turn, began, session, calls, closed, faults>>

\* The receipt hook reads the marker: a missing or unreadable one, or one of
\* another turn, ends it.
ReceiptDrop(i) ==
    /\ calls[i].pc = "answered"
    /\ ~Readable \/ ~SameTurn(calls[i].turn)
    /\ CallGoes(i, "done")
    /\ UNCHANGED <<clock, cells, marker, turn, began, session, closed, faults>>

ReceiptRead(i) ==
    /\ calls[i].pc = "answered"
    /\ Readable /\ SameTurn(calls[i].turn)
    /\ calls' = [calls EXCEPT ![i].pc = "holding",
                              ![i].seen = [marker EXCEPT !.ids = @ \cup {calls[i].id}]]
    /\ UNCHANGED <<clock, cells, marker, turn, began, session, closed, faults>>

ReceiptOpen(i) ==
    /\ calls[i].pc = "holding"
    /\ marker' = Torn
    /\ CallGoes(i, "filling")
    /\ UNCHANGED <<clock, cells, turn, began, session, closed, faults>>

ReceiptFill(i) ==
    /\ calls[i].pc = "filling"
    /\ marker' \in Filled(calls[i].seen)
    /\ calls' = [calls EXCEPT ![i].pc = "done", ![i].seen = NoMarker]
    /\ UNCHANGED <<clock, cells, turn, began, session, closed, faults>>

\* The hook is killed, by its timeout for one.
ReceiptKilled(i) ==
    /\ calls[i].pc \in {"answered", "holding", "filling"}
    /\ Faulty
    /\ calls' = [calls EXCEPT ![i].pc = "killed", ![i].seen = NoMarker]
    /\ UNCHANGED <<clock, cells, marker, turn, began, session, closed>>

-----------------------------------------------------------------------------
(* The stop hook *)

\* The agent stops, with or without the no-write receipt as its last words,
\* once the calls of the turn and their hooks are done.
Stop(attest) ==
    /\ session.pc = "working"
    /\ \A i \in Calls : calls[i].turn = turn => calls[i].pc \in {"done", "killed"}
    /\ session' = [session EXCEPT !.pc = "stop", !.attest = attest]
    /\ UNCHANGED <<clock, cells, marker, turn, began, calls, closed, faults>>

\* There is no store, or it does not open: the turn is released.
StopUngated ==
    /\ session.pc = "stop"
    /\ Faulty
    /\ closed' = [closed EXCEPT ![turn] = Ungated]
    /\ Goes("idle")
    /\ UNCHANGED <<clock, cells, marker, turn, began, calls>>

\* Mutant: a cell counts whenever it was created.
AnyAge(m) == {k \in m.ids : k \in DOMAIN cells}

\* Mutant: every cell stored since the stamp counts, whoever stored it.
AnyCell(m) == {k \in DOMAIN cells : cells[k] >= m.start}

\* verifiedTurnWrites(): the attributed cells stored since the stamp.
Verified(m) == {k \in m.ids : k \in DOMAIN cells /\ cells[k] >= m.start}

\* The turn may end: it is the marker's, and it has a write or an attestation.
Releases ==
    /\ Readable
    /\ SameTurn(turn)
    /\ Verified(marker) # {} \/ session.attest

StopHold ==
    /\ session.pc = "stop"
    /\ ~Releases
    /\ Goes("working")
    /\ UNCHANGED <<clock, cells, marker, turn, began, calls, closed, faults>>

\* The decision is taken, and the closure recorded in the marker.
StopRelease ==
    /\ session.pc = "stop"
    /\ Releases
    /\ closed' = [closed EXCEPT ![turn] =
                    [kind  |-> IF Verified(marker) # {} THEN "write" ELSE "no-write",
                     ids   |-> Verified(marker),
                     stamp |-> marker.turn]]
    /\ session' = [session EXCEPT !.pc = "close", !.seen = marker]
    /\ UNCHANGED <<clock, cells, marker, turn, began, calls, faults>>

CloseOpen ==
    /\ session.pc = "close"
    /\ marker' = Torn
    /\ Goes("closing")
    /\ UNCHANGED <<clock, cells, turn, began, calls, closed, faults>>

CloseFill ==
    /\ session.pc = "closing"
    /\ marker' \in Filled(session.seen)
    /\ session' = [session EXCEPT !.pc = "idle", !.seen = NoMarker]
    /\ UNCHANGED <<clock, cells, turn, began, calls, closed, faults>>

-----------------------------------------------------------------------------
Tick ==
    /\ clock < MaxTime
    /\ clock' = clock + 1
    /\ UNCHANGED <<cells, marker, turn, began, session, calls, closed, faults>>

Init ==
    /\ clock = 0
    /\ cells = [k \in {} |-> 0]
    /\ marker = NoMarker
    /\ turn = 0
    /\ began = [t \in Turns |-> 0]
    /\ session = [pc |-> "idle", attest |-> FALSE, seen |-> NoMarker]
    /\ calls = [i \in Calls |-> Unused]
    /\ closed = [t \in Turns |-> Open]
    /\ faults = 0

Next ==
    \/ Prompt \/ StampFail \/ StampOpen \/ StampFill
    \/ \E i \in Calls :
          \/ \E k \in Keys : Write(i, k)
          \/ ReceiptDrop(i) \/ ReceiptRead(i) \/ ReceiptOpen(i) \/ ReceiptFill(i)
          \/ ReceiptKilled(i)
    \/ \E k \in Keys : Ambient(k)
    \/ \E attest \in BOOLEAN : Stop(attest)
    \/ StopUngated \/ StopHold \/ StopRelease \/ CloseOpen \/ CloseFill
    \/ Tick

Spec == Init /\ [][Next]_vars

-----------------------------------------------------------------------------
(* Properties *)

TypeOK ==
    /\ clock \in Time
    /\ DOMAIN cells \subseteq Keys /\ \A k \in DOMAIN cells : cells[k] \in Time
    /\ marker \in Marker
    /\ turn \in 0..MaxTurns
    /\ began \in [Turns -> Time]
    /\ session \in Session
    /\ calls \in [Calls -> Call]
    /\ closed \in [Turns -> Closure]
    /\ faults \in 0..MaxFaults

\* The cells the write calls of turn t were answered with.
Answered(t) == {calls[i].id : i \in {j \in Calls : calls[j].turn = t}}

\* However the hooks interleave, whichever fail and whatever is stored around
\* them, the gate releases a turn on its own stamp only, and a write it counts
\* is a cell that answered a write call of that very turn.
ClosedByOwnTurn ==
    \A t \in Turns :
       closed[t].kind \in {"write", "no-write"} =>
          closed[t].stamp = t /\ closed[t].ids \subseteq Answered(t)

\* A write that is counted was created after its turn began: a write answered
\* with an older cell, as its duplicate, does not release a turn.
CountedAreNew ==
    \A t \in Turns : \A k \in closed[t].ids : cells[k] >= began[t]

\* With or without turn ids, a write that is counted is a cell that answered a
\* write call of the session: ambient writes never count, as the header of the
\* receipt hook says, and against the headers below.
AmbientNeverCounts ==
    \A t \in Turns : closed[t].ids \subseteq UNION {Answered(u) : u \in Turns}

\* What the headers of stop.ts, the stop hook and the prompt hook say of the gate
\* ("decided by the store, not a write-path marker", "any cell created at/after
\* turnStart"): a cell stored since the stamp ends the turn, whoever stored it.
AnyNewCellReleases ==
    /\ session.pc = "stop" /\ Readable /\ SameTurn(turn)
    /\ \E k \in DOMAIN cells : cells[k] >= marker.start
    => Releases
=============================================================================
