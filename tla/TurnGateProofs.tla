--------------------------- MODULE TurnGateProofs ---------------------------
(***************************************************************************)
(* Theorems about TurnGate, for any number of cells, calls, turns, faults  *)
(* and interrupts.                                                         *)
(*                                                                         *)
(* The invariant follows the marker through the hooks: the file, and every *)
(* copy of it a hook is about to write over the file, carries the time its *)
(* turn began and only ids that answered write calls (Honest).  With turn  *)
(* ids these are calls of the marker's own turn; without them a hook cannot*)
(* tell turns apart, and all that remains is that they are calls of the    *)
(* session (Sources).  That is enough for what a closure counts.           *)
(***************************************************************************)
EXTENDS TurnGate, TLAPS

\* The cells a marker of turn t may list.
Sources(t) == IF TurnIds THEN Answered(t) ELSE UNION {Answered(u) : u \in Turns}

Honest(m) ==
    m.file = "stamped" =>
       /\ m.turn \in 1..turn
       /\ m.start = began[m.turn]
       /\ m.ids \subseteq Sources(m.turn)

\* A receipt hook carries the marker it read, with the cell of its call added.
HookOK(c) ==
    /\ c.pc = "none" => c.turn = 0
    /\ c.pc # "none" => c.turn \in Turns /\ c.id \in Keys
    /\ c.pc \in {"holding", "filling"} => Honest(c.seen)

SessionOK ==
    /\ session.pc # "idle" => turn \in Turns
    /\ session.pc \in {"close", "closing"} => Honest(session.seen)

\* What a closure c of turn t counts.
Counts(t, c) ==
    /\ t > turn => c = Open
    /\ c.kind \in {"open", "ungated"} => c.ids = {}
    /\ c.kind \in {"write", "no-write"} =>
          /\ c.ids \subseteq UNION {Answered(u) : u \in Turns}
          /\ c.ids \subseteq DOMAIN cells
          /\ TurnIds => /\ c.stamp = t
                        /\ c.ids \subseteq Answered(t)
                        /\ \A k \in c.ids : cells[k] >= began[t]

IInv ==
    /\ TypeOK
    /\ Honest(marker)
    /\ \A i \in Calls : HookOK(calls[i])
    /\ SessionOK
    /\ \A t \in Turns : Counts(t, closed[t])

-----------------------------------------------------------------------------
(* What every step leaves as it was *)

\* A call keeps its turn and its cell once it was answered.
CallsKept ==
    \A i \in Calls : calls[i].turn # 0 => calls'[i].turn = calls[i].turn /\ calls'[i].id = calls[i].id

\* Nothing the markers and the closures speak of is taken back.
Kept ==
    /\ turn' \in Nat /\ turn <= turn' /\ turn' <= turn + 1
    /\ \A t \in 1..turn : began'[t] = began[t]
    /\ \A k \in DOMAIN cells : k \in DOMAIN cells' /\ cells'[k] = cells[k]
    /\ CallsKept

\* A step that assigns none of turn, began, cells and calls keeps all of them.
LEMMA QuietKept ==
    ASSUME TypeOK, UNCHANGED <<turn, began, cells, calls>>
    PROVE  Kept
  BY TurnAssumption DEF TypeOK, Kept, CallsKept, Turns

\* What was answered in a turn remains so.
LEMMA AnsweredGrows ==
    ASSUME Kept, NEW t \in Turns
    PROVE  Answered(t) \subseteq Answered(t)'
  <1>1. SUFFICES ASSUME NEW i \in Calls, calls[i].turn = t
                 PROVE  calls[i].id \in Answered(t)'
    BY DEF Answered
  <1>2. calls'[i].turn = t /\ calls'[i].id = calls[i].id
    BY <1>1, TurnAssumption DEF Kept, CallsKept, Turns
  <1> QED
    BY <1>2 DEF Answered

LEMMA SourcesGrow ==
    ASSUME Kept, NEW t \in Turns
    PROVE  /\ Sources(t) \subseteq Sources(t)'
           /\ UNION {Answered(u) : u \in Turns} \subseteq UNION {Answered(u)' : u \in Turns}
  <1>1. \A u \in Turns : Answered(u) \subseteq Answered(u)'
    BY AnsweredGrows
  <1>2. UNION {Answered(u) : u \in Turns} \subseteq UNION {Answered(u)' : u \in Turns}
    BY <1>1
  <1> QED
    BY <1>1, <1>2 DEF Sources

\* A marker, in the file or in a hook's memory, remains honest.
LEMMA HonestStays ==
    ASSUME TypeOK, Kept, NEW m \in Marker, Honest(m)
    PROVE  Honest(m)'
  <1>1. SUFFICES ASSUME m.file = "stamped"
                 PROVE  /\ m.turn \in 1..turn'
                        /\ m.start = began'[m.turn]
                        /\ m.ids \subseteq Sources(m.turn)'
    BY DEF Honest
  <1>2. m.turn \in 1..turn /\ m.start = began[m.turn] /\ m.ids \subseteq Sources(m.turn)
    BY <1>1 DEF Honest
  <1>3. m.turn \in Turns
    BY <1>2, TurnAssumption DEF TypeOK, Turns
  <1>4. PICK t \in Turns : t = m.turn
    BY <1>3
  <1>5. Sources(t) \subseteq Sources(t)'
    BY SourcesGrow
  <1> QED
    BY <1>2, <1>4, <1>5, TurnAssumption DEF TypeOK, Kept

\* So does the closure of a turn, as far as it is not rewritten.
LEMMA CountsStays ==
    ASSUME TypeOK, Kept, NEW t \in Turns, NEW c \in Closure, Counts(t, c)
    PROVE  Counts(t, c)'
  <1>1. /\ Answered(t) \subseteq Answered(t)'
        /\ UNION {Answered(u) : u \in Turns} \subseteq UNION {Answered(u)' : u \in Turns}
    BY AnsweredGrows, SourcesGrow
  <1>2. (t > turn => c = Open)'
    BY TurnAssumption DEF Counts, Kept, TypeOK, Turns
  <1>3. (c.kind \in {"open", "ungated"} => c.ids = {})'
    BY DEF Counts
  <1>4. ASSUME c.kind \in {"write", "no-write"}
        PROVE  /\ c.ids \subseteq UNION {Answered(u)' : u \in Turns}
               /\ c.ids \subseteq DOMAIN cells'
               /\ TurnIds => /\ c.stamp = t
                             /\ c.ids \subseteq Answered(t)'
                             /\ \A k \in c.ids : cells'[k] >= began'[t]
    <2>1. c # Open
      BY <1>4 DEF Open
    <2>2. t \in 1..turn
      BY <2>1, TurnAssumption DEF Counts, TypeOK, Turns
    <2> QED
      BY <1>1, <1>4, <2>2 DEF Counts, Kept
  <1> QED
    BY <1>2, <1>3, <1>4 DEF Counts

-----------------------------------------------------------------------------
(* Type correctness *)

LEMMA InitType == Init => TypeOK
  <1>1. NoMarker \in Marker
    BY TurnAssumption DEF NoMarker, Marker, Time
  <1>2. Unused \in Call
    BY <1>1, TurnAssumption DEF Unused, Call
  <1>3. Open \in Closure
    BY TurnAssumption DEF Open, Closure
  <1> QED
    BY <1>1, <1>2, <1>3, TurnAssumption DEF Init, TypeOK, Session, Time, Turns

LEMMA FilledType ==
    ASSUME NEW m \in Marker
    PROVE  Filled(m) \subseteq Marker
  BY TurnAssumption DEF Filled, Torn, Marker, Time

LEMMA FaultyType ==
    ASSUME TypeOK, Faulty
    PROVE  faults' \in 0..MaxFaults
  BY TurnAssumption DEF TypeOK, Faulty

LEMMA StampType ==
    ASSUME TypeOK, SessionOK, Prompt \/ StampFail \/ StampOpen \/ StampFill
    PROVE  TypeOK'
  <1>1. CASE Prompt
    <2>1. turn' \in 0..MaxTurns
      BY <1>1, TurnAssumption DEF Prompt, TypeOK
    <2>2. session' \in Session
      BY <1>1 DEF Prompt, TypeOK, Session
    <2>3. began' \in [Turns -> Time]
      BY <1>1 DEF Prompt, TypeOK
    <2> QED
      BY <1>1, <2>1, <2>2, <2>3 DEF Prompt, TypeOK
  <1>2. CASE StampFail
    <2>1. faults' \in 0..MaxFaults
      BY <1>2, FaultyType DEF StampFail
    <2> QED
      BY <1>2, <2>1 DEF StampFail, Goes, TypeOK, Session
  <1>3. CASE StampOpen
    <2>1. Torn \in Marker
      BY TurnAssumption DEF Torn, Marker, Time
    <2> QED
      BY <1>3, <2>1 DEF StampOpen, Goes, TypeOK, Session
  <1>4. CASE StampFill
    <2> DEFINE m == [file |-> "stamped", start |-> began[turn], turn |-> turn, ids |-> {}]
    <2>1. m \in Marker
      BY <1>4, TurnAssumption DEF StampFill, SessionOK, TypeOK, Marker, Turns
    <2>2. marker' \in Marker
      BY <1>4, <2>1, FilledType DEF StampFill
    <2> QED
      BY <1>4, <2>2 DEF StampFill, TypeOK, Session
  <1> QED
    BY <1>1, <1>2, <1>3, <1>4

\* A call that changes is still a call.
LEMMA OneCall ==
    ASSUME calls \in [Calls -> Call], NEW i \in Calls, NEW c \in Call,
           calls' = [calls EXCEPT ![i] = c]
    PROVE  calls' \in [Calls -> Call]
  OBVIOUS

LEMMA CallType ==
    ASSUME TypeOK, NEW i \in Calls, HookOK(calls[i]),
           \/ \E k \in Keys : Write(i, k)
           \/ ReceiptDrop(i) \/ ReceiptRead(i) \/ ReceiptOpen(i) \/ ReceiptFill(i)
           \/ ReceiptKilled(i)
    PROVE  TypeOK'
  <1>1. NoMarker \in Marker /\ Torn \in Marker
    BY TurnAssumption DEF NoMarker, Torn, Marker, Time
  <1>2. ASSUME NEW k \in Keys, Write(i, k)
        PROVE  TypeOK'
    <2>1. DOMAIN cells' \subseteq Keys /\ \A x \in DOMAIN cells' : cells'[x] \in Time
      BY <1>2 DEF Write, TypeOK
    <2>2. calls' \in [Calls -> Call]
      BY <1>1, <1>2 DEF Write, TypeOK, Call
    <2> QED
      BY <1>2, <2>1, <2>2 DEF Write, TypeOK
  <1>3. CASE ReceiptDrop(i)
    BY <1>3 DEF ReceiptDrop, CallGoes, TypeOK, Call
  <1>4. CASE ReceiptRead(i)
    <2>1. calls[i].id \in Keys
      BY <1>4 DEF ReceiptRead, HookOK
    <2>2. [marker EXCEPT !.ids = @ \cup {calls[i].id}] \in Marker
      BY <2>1 DEF TypeOK, Marker
    <2>3. PICK m \in Marker : m = [marker EXCEPT !.ids = @ \cup {calls[i].id}]
      BY <2>2
    <2>4. PICK c \in Call : c = [calls[i] EXCEPT !.pc = "holding", !.seen = m]
      BY DEF TypeOK, Call
    <2>5. calls' = [calls EXCEPT ![i] = c]
      BY <1>4, <2>3, <2>4 DEF ReceiptRead, TypeOK
    <2>6. calls' \in [Calls -> Call]
      BY <2>5, OneCall DEF TypeOK
    <2> QED
      BY <1>4, <2>6 DEF ReceiptRead, TypeOK
  <1>5. CASE ReceiptOpen(i)
    BY <1>1, <1>5 DEF ReceiptOpen, CallGoes, TypeOK, Call
  <1>6. CASE ReceiptFill(i)
    <2>1. marker' \in Marker
      BY <1>6, FilledType DEF ReceiptFill, TypeOK, Call
    <2>2. PICK c \in Call : c = [calls[i] EXCEPT !.pc = "done", !.seen = NoMarker]
      BY <1>1 DEF TypeOK, Call
    <2>3. calls' = [calls EXCEPT ![i] = c]
      BY <1>6, <2>2 DEF ReceiptFill, TypeOK
    <2>4. calls' \in [Calls -> Call]
      BY <2>3, OneCall DEF TypeOK
    <2> QED
      BY <1>6, <2>1, <2>4 DEF ReceiptFill, TypeOK
  <1>7. CASE ReceiptKilled(i)
    <2>1. faults' \in 0..MaxFaults
      BY <1>7, FaultyType DEF ReceiptKilled
    <2>2. PICK c \in Call : c = [calls[i] EXCEPT !.pc = "killed", !.seen = NoMarker]
      BY <1>1 DEF TypeOK, Call
    <2>3. calls' = [calls EXCEPT ![i] = c]
      BY <1>7, <2>2 DEF ReceiptKilled, TypeOK
    <2>4. calls' \in [Calls -> Call]
      BY <2>3, OneCall DEF TypeOK
    <2> QED
      BY <1>7, <2>1, <2>4 DEF ReceiptKilled, TypeOK
  <1> QED
    BY <1>2, <1>3, <1>4, <1>5, <1>6, <1>7

LEMMA StopType ==
    ASSUME TypeOK, SessionOK,
           \/ \E attest \in BOOLEAN : Stop(attest)
           \/ StopUngated \/ StopHold \/ StopRelease \/ CloseOpen \/ CloseFill
    PROVE  TypeOK'
  <1>1. NoMarker \in Marker /\ Torn \in Marker
    BY TurnAssumption DEF NoMarker, Torn, Marker, Time
  <1>2. ASSUME NEW attest \in BOOLEAN, Stop(attest)
        PROVE  TypeOK'
    BY <1>2 DEF Stop, TypeOK, Session
  <1>3. CASE StopUngated
    <2>1. Ungated \in Closure
      BY TurnAssumption DEF Ungated, Closure
    <2>2. faults' \in 0..MaxFaults
      BY <1>3, FaultyType DEF StopUngated
    <2> QED
      BY <1>3, <2>1, <2>2 DEF StopUngated, Goes, TypeOK, Session
  <1>4. CASE StopHold
    BY <1>4 DEF StopHold, Goes, TypeOK, Session
  <1>5. CASE StopRelease
    <2>1. Verified(marker) \subseteq Keys /\ marker.turn \in 0..MaxTurns
      BY DEF Verified, TypeOK, Marker
    <2>2. closed' \in [Turns -> Closure]
      BY <1>5, <2>1 DEF StopRelease, TypeOK, Closure
    <2> QED
      BY <1>5, <2>2 DEF StopRelease, TypeOK, Session
  <1>6. CASE CloseOpen
    BY <1>1, <1>6 DEF CloseOpen, Goes, TypeOK, Session
  <1>7. CASE CloseFill
    <2>1. marker' \in Marker
      BY <1>7, FilledType DEF CloseFill, TypeOK, Session
    <2> QED
      BY <1>1, <1>7, <2>1 DEF CloseFill, TypeOK, Session
  <1> QED
    BY <1>2, <1>3, <1>4, <1>5, <1>6, <1>7

LEMMA StepType ==
    ASSUME TypeOK, SessionOK, \A i \in Calls : HookOK(calls[i]), Next
    PROVE  TypeOK'
  <1>1. ASSUME NEW k \in Keys, Ambient(k)
        PROVE  TypeOK'
    <2>1. DOMAIN cells' \subseteq Keys /\ \A x \in DOMAIN cells' : cells'[x] \in Time
      BY <1>1 DEF Ambient, TypeOK
    <2> QED
      BY <1>1, <2>1 DEF Ambient, TypeOK
  <1>2. CASE Tick
    BY <1>2, TurnAssumption DEF Tick, TypeOK, Time
  <1> QED
    BY <1>1, <1>2, StampType, CallType, StopType DEF Next

-----------------------------------------------------------------------------
(* What the steps preserve when they do not assign it *)

LEMMA MarkerStays ==
    ASSUME IInv, Kept, marker' = marker
    PROVE  Honest(marker)'
  <1>1. PICK m \in Marker : m = marker
    BY DEF IInv, TypeOK
  <1>2. Honest(m)'
    BY <1>1, HonestStays DEF IInv
  <1> QED
    BY <1>1, <1>2 DEF Honest, Sources, Answered

\* What a hook writes is honest, or torn.
LEMMA FilledHonest ==
    ASSUME IInv, Kept, NEW m \in Marker, Honest(m), marker' \in Filled(m)
    PROVE  Honest(marker)'
  <1>1. marker' = m \/ marker' = Torn
    BY DEF Filled
  <1>2. Honest(m)'
    BY HonestStays DEF IInv
  <1> QED
    BY <1>1, <1>2 DEF Honest, Sources, Answered, Torn

LEMMA TornHonest ==
    ASSUME marker' = Torn
    PROVE  Honest(marker)'
  BY DEF Honest, Torn

LEMMA CallStays ==
    ASSUME IInv, Kept, NEW i \in Calls, calls'[i] = calls[i]
    PROVE  HookOK(calls[i])'
  <1>1. PICK c \in Call : c = calls[i]
    BY DEF IInv, TypeOK
  <1>2. c.pc \in {"holding", "filling"} => Honest(c.seen)'
    <2>1. ASSUME c.pc \in {"holding", "filling"}
          PROVE  Honest(c.seen)
      BY <1>1, <2>1 DEF IInv, HookOK
    <2>2. PICK m \in Marker : m = c.seen
      BY DEF Call
    <2>3. Honest(m) => Honest(m)'
      BY HonestStays DEF IInv
    <2> QED
      BY <2>1, <2>2, <2>3
  <1> QED
    BY <1>1, <1>2 DEF IInv, HookOK, Honest, Sources, Answered

\* A step that moves only the hook of call i, to a pc without a marker.
LEMMA OtherCallsStay ==
    ASSUME IInv, Kept, NEW i \in Calls, NEW c,
           calls' = [calls EXCEPT ![i] = c],
           HookOK(c)'
    PROVE  (\A j \in Calls : HookOK(calls[j]))'
  <1>1. ASSUME NEW j \in Calls
        PROVE  HookOK(calls[j])'
    <2>1. CASE j = i
      <3>1. calls'[j] = c
        BY <2>1 DEF IInv, TypeOK
      <3> QED
        BY <3>1 DEF HookOK, Honest, Sources, Answered
    <2>2. CASE j # i
      BY <2>2, CallStays DEF IInv, TypeOK
    <2> QED
      BY <2>1, <2>2
  <1> QED
    BY <1>1

LEMMA CallsStay ==
    ASSUME IInv, Kept, calls' = calls
    PROVE  (\A i \in Calls : HookOK(calls[i]))'
  BY CallStays

LEMMA SessionStays ==
    ASSUME IInv, Kept, turn' = turn, session' = session
    PROVE  SessionOK'
  <1>1. PICK m \in Marker : m = session.seen
    BY DEF IInv, TypeOK, Session
  <1>2. Honest(m) => Honest(m)'
    BY HonestStays DEF IInv
  <1> QED
    BY <1>1, <1>2 DEF IInv, SessionOK, Honest, Sources, Answered

\* A step to a pc of the session where the stop hook holds no marker.
LEMMA SessionMoves ==
    ASSUME IInv, turn' \in Turns, session'.pc \notin {"close", "closing"}
    PROVE  SessionOK'
  BY DEF SessionOK

LEMMA ClosedStays ==
    ASSUME IInv, Kept, closed' = closed
    PROVE  (\A t \in Turns : Counts(t, closed[t]))'
  <1>1. ASSUME NEW t \in Turns
        PROVE  Counts(t, closed[t])'
    <2>1. PICK c \in Closure : c = closed[t]
      BY DEF IInv, TypeOK
    <2>2. Counts(t, c)'
      BY <2>1, CountsStays DEF IInv
    <2> QED
      BY <2>1, <2>2 DEF Counts, Answered
  <1> QED
    BY <1>1

-----------------------------------------------------------------------------
(* Each action preserves the invariant *)

LEMMA PromptStep ==
    ASSUME IInv, TypeOK', Prompt
    PROVE  IInv'
  <1>1. Kept
    BY TurnAssumption DEF IInv, TypeOK, Prompt, Kept, CallsKept, Turns
  <1>2. Honest(marker)'
    BY <1>1, MarkerStays DEF Prompt
  <1>3. (\A i \in Calls : HookOK(calls[i]))'
    BY <1>1, CallsStay DEF Prompt
  <1>4. SessionOK'
    <2>1. turn' \in Turns
      BY TurnAssumption DEF IInv, TypeOK, Prompt, Turns
    <2>2. session'.pc = "stamp"
      BY DEF IInv, TypeOK, Session, Prompt
    <2> QED
      BY <2>1, <2>2, SessionMoves
  <1>5. (\A t \in Turns : Counts(t, closed[t]))'
    BY <1>1, ClosedStays DEF Prompt
  <1> QED
    BY <1>2, <1>3, <1>4, <1>5 DEF IInv

LEMMA StampStep ==
    ASSUME IInv, TypeOK', StampFail \/ StampOpen \/ StampFill
    PROVE  IInv'
  <1>1. Kept
    BY QuietKept DEF IInv, StampFail, StampOpen, StampFill
  <1>2. Honest(marker)'
    <2>1. CASE StampFail
      BY <1>1, <2>1, MarkerStays DEF StampFail
    <2>2. CASE StampOpen
      BY <2>2, TornHonest DEF StampOpen
    <2>3. CASE StampFill
      <3>1. PICK m \in Marker :
               m = [file |-> "stamped", start |-> began[turn], turn |-> turn, ids |-> {}]
        BY <2>3, TurnAssumption DEF StampFill, IInv, SessionOK, TypeOK, Marker, Turns
      <3>2. m.turn \in 1..turn
        BY <2>3, <3>1, TurnAssumption DEF StampFill, IInv, SessionOK, Turns
      <3>3. Honest(m)
        BY <3>1, <3>2 DEF Honest
      <3> QED
        BY <1>1, <2>3, <3>1, <3>3, FilledHonest DEF StampFill
    <2> QED
      BY <2>1, <2>2, <2>3
  <1>3. (\A i \in Calls : HookOK(calls[i]))'
    BY <1>1, CallsStay DEF StampFail, StampOpen, StampFill
  <1>4. SessionOK'
    <2>1. turn' \in Turns
      BY DEF IInv, SessionOK, StampFail, StampOpen, StampFill
    <2>2. session'.pc \in {"working", "stamping"}
      BY DEF IInv, TypeOK, Session, StampFail, StampOpen, StampFill, Goes
    <2> QED
      BY <2>1, <2>2, SessionMoves
  <1>5. (\A t \in Turns : Counts(t, closed[t]))'
    BY <1>1, ClosedStays DEF StampFail, StampOpen, StampFill
  <1> QED
    BY <1>2, <1>3, <1>4, <1>5 DEF IInv

LEMMA WriteStep ==
    ASSUME IInv, TypeOK', NEW i \in Calls, NEW k \in Keys, Write(i, k)
    PROVE  IInv'
  <1>1. Kept
    <2>1. calls[i].turn = 0
      BY DEF IInv, HookOK, Write
    <2>2. CallsKept
      BY <2>1 DEF IInv, TypeOK, Write, CallsKept
    <2>3. \A x \in DOMAIN cells : x \in DOMAIN cells' /\ cells'[x] = cells[x]
      BY DEF IInv, TypeOK, Write
    <2> QED
      BY <2>2, <2>3, TurnAssumption DEF IInv, TypeOK, Write, Kept
  <1>2. Honest(marker)'
    BY <1>1, MarkerStays DEF Write
  <1>3. (\A j \in Calls : HookOK(calls[j]))'
    <2>1. PICK c : c = [pc |-> "answered", turn |-> turn, id |-> k, seen |-> NoMarker]
      OBVIOUS
    <2>2. turn \in Turns
      BY DEF IInv, SessionOK, Write
    <2>3. HookOK(c)'
      BY <2>1, <2>2 DEF HookOK
    <2> QED
      BY <1>1, <2>1, <2>3, OtherCallsStay DEF Write
  <1>4. SessionOK'
    BY <1>1, SessionStays DEF Write
  <1>5. (\A t \in Turns : Counts(t, closed[t]))'
    BY <1>1, ClosedStays DEF Write
  <1> QED
    BY <1>2, <1>3, <1>4, <1>5 DEF IInv

LEMMA AmbientStep ==
    ASSUME IInv, TypeOK', NEW k \in Keys, Ambient(k)
    PROVE  IInv'
  <1>1. Kept
    <2>1. \A x \in DOMAIN cells : x \in DOMAIN cells' /\ cells'[x] = cells[x]
      BY DEF IInv, TypeOK, Ambient
    <2> QED
      BY <2>1, TurnAssumption DEF IInv, TypeOK, Ambient, Kept, CallsKept
  <1> QED
    BY <1>1, MarkerStays, CallsStay, SessionStays, ClosedStays DEF Ambient, IInv

\* The receipt hook binds the cell to the turn of its own call: here SameTurn
\* is what keeps the ids of two turns apart.
LEMMA ReceiptReadStep ==
    ASSUME IInv, TypeOK', NEW i \in Calls, ReceiptRead(i)
    PROVE  IInv'
  <1>1. Kept
    <2>1. CallsKept
      BY DEF IInv, TypeOK, Call, ReceiptRead, CallsKept
    <2> QED
      BY <2>1, TurnAssumption DEF IInv, TypeOK, ReceiptRead, Kept
  <1>2. PICK m \in Marker : m = [marker EXCEPT !.ids = @ \cup {calls[i].id}]
    BY DEF IInv, HookOK, TypeOK, Marker, ReceiptRead
  <1>3. Honest(m)
    <2>1. calls[i].turn \in Turns
      BY DEF IInv, HookOK, ReceiptRead
    <2>2. calls[i].id \in Answered(calls[i].turn)
      BY DEF Answered
    <2>3. m.turn = marker.turn /\ m.start = marker.start /\ m.ids = marker.ids \cup {calls[i].id}
      BY <1>2 DEF IInv, TypeOK, Marker
    <2>4. TurnIds => marker.turn = calls[i].turn
      BY DEF ReceiptRead, SameTurn
    <2>5. calls[i].id \in Sources(marker.turn)
      BY <2>1, <2>2, <2>4 DEF Sources
    <2>6. /\ marker.turn \in 1..turn
          /\ marker.start = began[marker.turn]
          /\ marker.ids \subseteq Sources(marker.turn)
      BY DEF IInv, Honest, ReceiptRead, Readable
    <2> QED
      BY <2>3, <2>5, <2>6 DEF Honest
  <1>4. (\A j \in Calls : HookOK(calls[j]))'
    <2>1. PICK c : c = [calls[i] EXCEPT !.pc = "holding", !.seen = m]
      OBVIOUS
    <2>2. c.pc = "holding" /\ c.turn = calls[i].turn /\ c.id = calls[i].id /\ c.seen = m
      BY <2>1 DEF IInv, TypeOK, Call
    <2>3. Honest(m)'
      BY <1>1, <1>3, HonestStays DEF IInv
    <2>4. HookOK(c)'
      BY <2>2, <2>3 DEF IInv, HookOK, ReceiptRead
    <2>5. calls' = [calls EXCEPT ![i] = c]
      BY <1>2, <2>1 DEF IInv, TypeOK, Call, ReceiptRead
    <2> QED
      BY <1>1, <2>4, <2>5, OtherCallsStay
  <1> QED
    BY <1>1, <1>4, MarkerStays, SessionStays, ClosedStays DEF ReceiptRead, IInv

LEMMA ReceiptStep ==
    ASSUME IInv, TypeOK', NEW i \in Calls,
           ReceiptDrop(i) \/ ReceiptOpen(i) \/ ReceiptFill(i) \/ ReceiptKilled(i)
    PROVE  IInv'
  <1> USE DEF ReceiptDrop, ReceiptOpen, ReceiptFill, ReceiptKilled, CallGoes
  <1>1. Kept
    <2>1. CallsKept
      BY DEF IInv, TypeOK, Call, CallsKept
    <2> QED
      BY <2>1, TurnAssumption DEF IInv, TypeOK, Kept
  <1>2. Honest(marker)'
    <2>1. CASE marker' = marker
      BY <1>1, <2>1, MarkerStays
    <2>2. CASE marker' = Torn
      BY <2>2, TornHonest
    <2>3. CASE ReceiptFill(i)
      <3>1. PICK m \in Marker : m = calls[i].seen
        BY DEF IInv, TypeOK, Call
      <3>2. Honest(m)
        BY <2>3, <3>1 DEF IInv, HookOK
      <3> QED
        BY <1>1, <2>3, <3>1, <3>2, FilledHonest
    <2> QED
      BY <2>1, <2>2, <2>3
  <1>3. (\A j \in Calls : HookOK(calls[j]))'
    <2>1. ASSUME NEW j \in Calls, j # i
          PROVE  HookOK(calls[j])'
      <3>1. calls'[j] = calls[j]
        BY <2>1 DEF IInv, TypeOK
      <3> QED
        BY <1>1, <3>1, CallStays
    <2>2. HookOK(calls[i])'
      <3>1. CASE ReceiptOpen(i)
        <4>1. PICK m \in Marker : m = calls[i].seen
          BY DEF IInv, TypeOK, Call
        <4>2. Honest(m)
          BY <3>1, <4>1 DEF IInv, HookOK
        <4>3. Honest(m)'
          BY <1>1, <4>2, HonestStays DEF IInv
        <4>4. calls'[i].seen = m /\ calls'[i].pc = "filling" /\ calls'[i].turn = calls[i].turn
              /\ calls'[i].id = calls[i].id
          BY <3>1, <4>1 DEF IInv, TypeOK, Call
        <4> QED
          BY <3>1, <4>3, <4>4 DEF IInv, HookOK, Honest, Sources, Answered
      <3>2. CASE ReceiptDrop(i) \/ ReceiptFill(i) \/ ReceiptKilled(i)
        <4>1. calls'[i].pc \in {"done", "killed"} /\ calls'[i].turn = calls[i].turn
              /\ calls'[i].id = calls[i].id
          BY <3>2 DEF IInv, TypeOK, Call
        <4>2. calls[i].pc # "none"
          BY <3>2
        <4> QED
          BY <4>1, <4>2 DEF IInv, HookOK
      <3> QED
        BY <3>1, <3>2
    <2> QED
      BY <2>1, <2>2
  <1> QED
    BY <1>1, <1>2, <1>3, SessionStays, ClosedStays DEF IInv

\* Steps of the stop hook that record no closure and hold no marker after.
LEMMA StopStep ==
    ASSUME IInv, TypeOK', (\E attest \in BOOLEAN : Stop(attest)) \/ StopHold \/ CloseFill
    PROVE  IInv'
  <1> USE DEF Stop, StopHold, CloseFill, Goes
  <1>1. Kept
    BY QuietKept DEF IInv
  <1>2. Honest(marker)'
    <2>1. CASE marker' = marker
      BY <1>1, <2>1, MarkerStays
    <2>2. CASE CloseFill
      <3>1. PICK m \in Marker : m = session.seen
        BY DEF IInv, TypeOK, Session
      <3>2. Honest(m)
        BY <2>2, <3>1 DEF IInv, SessionOK
      <3> QED
        BY <1>1, <2>2, <3>1, <3>2, FilledHonest
    <2> QED
      BY <2>1, <2>2
  <1>3. SessionOK'
    <2>1. turn' \in Turns
      BY DEF IInv, SessionOK
    <2>2. session'.pc \in {"stop", "working", "idle"}
      BY DEF IInv, TypeOK, Session
    <2> QED
      BY <2>1, <2>2, SessionMoves
  <1> QED
    BY <1>1, <1>2, <1>3, CallsStay, ClosedStays DEF IInv

LEMMA CloseOpenStep ==
    ASSUME IInv, TypeOK', CloseOpen
    PROVE  IInv'
  <1>1. Kept
    BY QuietKept DEF IInv, CloseOpen
  <1>2. Honest(marker)'
    BY TornHonest DEF CloseOpen
  <1>3. SessionOK'
    <2>1. PICK m \in Marker : m = session.seen
      BY DEF IInv, TypeOK, Session
    <2>2. Honest(m)
      BY <2>1 DEF IInv, SessionOK, CloseOpen
    <2>3. Honest(m)'
      BY <1>1, <2>2, HonestStays DEF IInv
    <2>4. session'.seen = m /\ turn' \in Turns
      BY <2>1 DEF IInv, TypeOK, Session, SessionOK, CloseOpen, Goes
    <2> QED
      BY <2>3, <2>4 DEF SessionOK, Honest, Sources, Answered
  <1> QED
    BY <1>1, <1>2, <1>3, CallsStay, ClosedStays DEF IInv, CloseOpen

\* The closures of the other turns when one is recorded.
LEMMA ClosureRecorded ==
    ASSUME IInv, Kept, NEW c \in Closure, turn \in Turns,
           closed' = [closed EXCEPT ![turn] = c],
           \A t \in Turns : t = turn => Counts(t, c)'
    PROVE  (\A t \in Turns : Counts(t, closed[t]))'
  <1>1. ASSUME NEW t \in Turns
        PROVE  Counts(t, closed[t])'
    <2>1. CASE t = turn
      <3>1. closed'[t] = c
        BY <2>1 DEF IInv, TypeOK
      <3> QED
        BY <2>1, <3>1 DEF Counts, Answered
    <2>2. CASE t # turn
      <3>1. PICK d \in Closure : d = closed[t]
        BY DEF IInv, TypeOK
      <3>2. Counts(t, d)'
        BY <3>1, CountsStays DEF IInv
      <3>3. closed'[t] = d
        BY <2>2, <3>1 DEF IInv, TypeOK
      <3> QED
        BY <3>2, <3>3 DEF Counts, Answered
    <2> QED
      BY <2>1, <2>2
  <1> QED
    BY <1>1

LEMMA StopUngatedStep ==
    ASSUME IInv, TypeOK', StopUngated
    PROVE  IInv'
  <1>1. Kept
    BY QuietKept DEF IInv, StopUngated
  <1>2. turn \in Turns
    BY DEF IInv, SessionOK, StopUngated
  <1>3. SessionOK'
    <2>1. turn' \in Turns /\ session'.pc = "idle"
      BY <1>2 DEF IInv, TypeOK, Session, StopUngated, Goes
    <2> QED
      BY <2>1, SessionMoves
  <1>4. (\A t \in Turns : Counts(t, closed[t]))'
    <2>0. Ungated \in Closure
      BY TurnAssumption DEF Ungated, Closure
    <2>1. PICK c \in Closure : c = Ungated
      BY <2>0
    <2>2. ASSUME NEW t \in Turns, t = turn
          PROVE  Counts(t, c)'
      BY <2>1, <2>2, TurnAssumption DEF Counts, Ungated, Turns, StopUngated
    <2> QED
      BY <1>1, <1>2, <2>1, <2>2, ClosureRecorded DEF StopUngated
  <1> QED
    BY <1>1, <1>3, <1>4, MarkerStays, CallsStay DEF IInv, StopUngated

\* Where the gate releases: what it counts is what its marker may list.
LEMMA StopReleaseStep ==
    ASSUME IInv, TypeOK', StopRelease
    PROVE  IInv'
  <1>1. Kept
    BY QuietKept DEF IInv, StopRelease
  <1>2. turn \in Turns
    BY DEF IInv, SessionOK, StopRelease
  <1>3. PICK m \in Marker : m = marker
    BY DEF IInv, TypeOK
  <1>4. /\ Honest(m) /\ m.file = "stamped"
        /\ TurnIds => m.turn = turn
    BY <1>3 DEF IInv, StopRelease, Releases, Readable, SameTurn
  <1>5. SessionOK'
    <2>1. Honest(m)'
      BY <1>1, <1>4, HonestStays DEF IInv
    <2>2. session'.seen = m /\ turn' \in Turns
      BY <1>2, <1>3 DEF IInv, TypeOK, Session, StopRelease
    <2> QED
      BY <2>1, <2>2 DEF SessionOK, Honest, Sources, Answered
  <1>6. (\A t \in Turns : Counts(t, closed[t]))'
    <2> DEFINE how == IF Verified(m) # {} THEN "write" ELSE "no-write"
    <2>1. Verified(m) \subseteq Keys /\ m.turn \in 0..MaxTurns
      BY DEF Verified, Marker
    <2>2. PICK c \in Closure : c = [kind |-> how, ids |-> Verified(m), stamp |-> m.turn]
      <3>1. [kind |-> how, ids |-> Verified(m), stamp |-> m.turn] \in Closure
        BY <2>1 DEF Closure
      <3> QED
        BY <3>1
    <2>3. /\ Verified(m) \subseteq m.ids
          /\ Verified(m) \subseteq DOMAIN cells
          /\ \A k \in Verified(m) : cells[k] >= m.start
      BY DEF Verified
    <2>4. m.ids \subseteq Sources(m.turn) /\ m.turn \in 1..turn /\ m.start = began[m.turn]
      BY <1>4 DEF Honest
    <2>5. m.turn \in Turns
      BY <2>4, <1>2, TurnAssumption DEF Turns
    <2>6. m.ids \subseteq UNION {Answered(u) : u \in Turns}
      BY <2>4, <2>5 DEF Sources
    <2>7. ASSUME NEW t \in Turns, t = turn
          PROVE  Counts(t, c)
      <3>1. c.kind \in {"write", "no-write"} /\ c.ids = Verified(m) /\ c.stamp = m.turn
        BY <2>2
      <3>2. ~(t > turn)
        BY <2>7, TurnAssumption DEF Turns
      <3>3. TurnIds => /\ c.stamp = t
                       /\ c.ids \subseteq Answered(t)
                       /\ \A k \in c.ids : cells[k] >= began[t]
        BY <1>4, <2>3, <2>4, <2>7, <3>1 DEF Sources
      <3> QED
        BY <2>3, <2>6, <3>1, <3>2, <3>3 DEF Counts
    <2>8. ASSUME NEW t \in Turns, t = turn
          PROVE  Counts(t, c)'
      BY <1>1, <2>7, <2>8, CountsStays DEF IInv
    <2>9. closed' = [closed EXCEPT ![turn] = c]
      BY <1>3, <2>2 DEF StopRelease
    <2> QED
      BY <1>1, <1>2, <2>8, <2>9, ClosureRecorded
  <1> QED
    BY <1>1, <1>5, <1>6, MarkerStays, CallsStay DEF IInv, StopRelease

LEMMA TickStep ==
    ASSUME IInv, TypeOK', Tick
    PROVE  IInv'
  <1>1. Kept
    BY QuietKept DEF IInv, Tick
  <1> QED
    BY <1>1, MarkerStays, CallsStay, SessionStays, ClosedStays DEF IInv, Tick

-----------------------------------------------------------------------------
LEMMA InitInvariant == Init => IInv
  <1> SUFFICES ASSUME Init
               PROVE  IInv
    OBVIOUS
  <1>1. TypeOK
    BY InitType
  <1>2. Honest(marker) /\ SessionOK
    BY DEF Init, NoMarker, Honest, SessionOK
  <1>3. \A i \in Calls : HookOK(calls[i])
    BY DEF Init, Unused, HookOK
  <1>4. \A t \in Turns : Counts(t, closed[t])
    BY DEF Init, Open, Counts
  <1> QED
    BY <1>1, <1>2, <1>3, <1>4 DEF IInv

LEMMA StepInvariant == IInv /\ [Next]_vars => IInv'
  <1>1. ASSUME IInv, Next
        PROVE  IInv'
    <2>1. TypeOK'
      BY <1>1, StepType DEF IInv
    <2> QED
      BY <1>1, <2>1, PromptStep, StampStep, WriteStep, AmbientStep, ReceiptReadStep,
         ReceiptStep, StopStep, CloseOpenStep, StopUngatedStep, StopReleaseStep, TickStep
         DEF Next
  <1>2. ASSUME IInv, UNCHANGED vars
        PROVE  IInv'
    <2>1. Kept
      BY <1>2, QuietKept DEF IInv, vars
    <2>2. TypeOK'
      BY <1>2 DEF IInv, TypeOK, vars
    <2> QED
      BY <1>2, <2>1, <2>2, MarkerStays, CallsStay, SessionStays, ClosedStays DEF IInv, vars
  <1> QED
    BY <1>1, <1>2

LEMMA Invariant == Spec => []IInv
  BY InitInvariant, StepInvariant, PTL DEF Spec

\* Whatever the hooks do to the marker file, it and everything made of it keep
\* their types.
THEOREM TurnType == Spec => []TypeOK
  <1>1. IInv => TypeOK
    BY DEF IInv
  <1> QED
    BY <1>1, Invariant, PTL

\* With turn ids or without, no cell an import, the operator or another session
\* stored ever closes a turn: what is counted answered a write call.
THEOREM TurnAmbientNeverCounts == Spec => []AmbientNeverCounts
  <1>1. IInv => AmbientNeverCounts
    BY DEF IInv, AmbientNeverCounts, Counts, TypeOK, Closure
  <1> QED
    BY <1>1, Invariant, PTL

\* With turn ids a turn is only released by its own stamp and its own calls,
\* whatever is interrupted, overwritten or killed.
THEOREM TurnClosedByOwnTurn ==
    ASSUME TurnIds
    PROVE  Spec => []ClosedByOwnTurn
  <1>1. IInv => ClosedByOwnTurn
    BY DEF IInv, ClosedByOwnTurn, Counts
  <1> QED
    BY <1>1, Invariant, PTL

\* With turn ids a write that is counted is as new as the turn it closes.
THEOREM TurnCountedAreNew ==
    ASSUME TurnIds
    PROVE  Spec => []CountedAreNew
  <1>1. IInv => CountedAreNew
    <2>1. SUFFICES ASSUME IInv, NEW t \in Turns, NEW k \in closed[t].ids
                   PROVE  cells[k] >= began[t]
      BY DEF CountedAreNew
    <2> QED
      BY <2>1 DEF IInv, Counts, TypeOK, Closure
  <1> QED
    BY <1>1, Invariant, PTL
=============================================================================
