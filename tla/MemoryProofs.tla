----------------------------- MODULE MemoryProofs -----------------------------
(* What every memory of the abstract specification satisfies. *)
EXTENDS Memory, TLAPS

\* The history invariant: lineages are made of stored entries, an entry is out
\* of date exactly when one successor replaces it, and lineage is well founded.
History == LineageStored /\ ReplacedOnce /\ LineageAcyclic

\* Entries keep their type: keys are ids, contents are contents.
THEOREM MemoryType == Spec => []TypeOK
<1>1. Init => TypeOK
  BY DEF Init, TypeOK
<1>2. TypeOK /\ [Next]_memory => TypeOK'
  <2> SUFFICES ASSUME TypeOK, [Next]_memory
               PROVE  TypeOK'
    OBVIOUS
  <2>1. CASE UNCHANGED memory
    BY <2>1 DEF TypeOK
  <2>2. ASSUME NEW i \in Ids, NEW c \in Content, NEW R \in SUBSET Ids, Record(i, c, R)
        PROVE  TypeOK'
    <3>1. DOMAIN memory' = DOMAIN memory \cup {i}
      BY <2>2 DEF Record
    <3>2. memory'[i] \in Entry
      BY <2>2 DEF Record, Entry
    <3>3. ASSUME NEW j \in DOMAIN memory
          PROVE  memory'[j] \in Entry
      <4>1. memory[j] \in Entry
        BY DEF TypeOK
      <4>2. memory'[j] = IF j \in R THEN [memory[j] EXCEPT !.current = FALSE] ELSE memory[j]
        BY <2>2 DEF Record
      <4>3. QED
        BY <4>1, <4>2 DEF Entry
    <3>4. QED
      BY <3>1, <3>2, <3>3 DEF TypeOK
  <2>3. QED
    BY <2>1, <2>2 DEF Next
<1>3. QED
  BY <1>1, <1>2, PTL DEF Spec

\* Recording an entry keeps the history invariant.
LEMMA RecordKeepsHistory ==
    ASSUME NEW i, NEW c, NEW R, TypeOK, History, Record(i, c, R)
    PROVE  History'
<1> DEFINE D == DOMAIN memory
<1>0. /\ i \notin D
      /\ R \subseteq D
      /\ DOMAIN memory' = D \cup {i}
      /\ memory'[i].replaces = R
      /\ memory'[i].current = TRUE
      /\ i \notin R
      /\ \A j \in D : /\ j # i
                      /\ memory'[j].replaces = memory[j].replaces
                      /\ memory'[j].current <=> memory[j].current /\ j \notin R
      /\ \A j \in R : memory[j].current
  <2>1. /\ i \notin D
        /\ R \subseteq D
        /\ \A j \in R : memory[j].current
        /\ DOMAIN memory' = D \cup {i}
        /\ memory'[i] = [content |-> c, current |-> TRUE, replaces |-> R]
    BY DEF Record, Current
  <2>2. ASSUME NEW j \in D
        PROVE  /\ j # i
               /\ memory'[j].replaces = memory[j].replaces
               /\ memory'[j].current <=> memory[j].current /\ j \notin R
    <3>1. memory'[j] = IF j \in R THEN [memory[j] EXCEPT !.current = FALSE] ELSE memory[j]
      BY <2>1 DEF Record
    <3>2. memory[j] \in Entry
      BY DEF TypeOK
    <3>3. QED
      BY <2>1, <3>1, <3>2 DEF Entry
  <2>3. QED
    BY <2>1, <2>2
<1>1. LineageStored'
  BY <1>0 DEF History, LineageStored
<1>2. ReplacedOnce'
  <2>1. ASSUME NEW j \in D
        PROVE  /\ memory'[j].current <=> \A s \in D \cup {i} : j \notin memory'[s].replaces
               /\ \A s, t \in D \cup {i} :
                     j \in memory'[s].replaces /\ j \in memory'[t].replaces => s = t
    BY <1>0, <2>1 DEF History, ReplacedOnce
  <2>2. \A s \in D \cup {i} : i \notin memory'[s].replaces
    BY <1>0 DEF History, LineageStored
  <2>3. QED
    BY <1>0, <2>1, <2>2 DEF ReplacedOnce
<1>3. LineageAcyclic'
  <2> SUFFICES ASSUME NEW S \in SUBSET (D \cup {i}), S # {}
               PROVE  \E j \in S : memory'[j].replaces \cap S = {}
    BY <1>0 DEF LineageAcyclic
  <2>1. CASE S \ {i} = {}
    BY <1>0, <2>1
  <2>2. CASE S \ {i} # {}
    <3>1. PICK j \in S \ {i} : memory[j].replaces \cap (S \ {i}) = {}
      BY <2>2 DEF History, LineageAcyclic
    <3>2. i \notin memory[j].replaces
      BY <1>0 DEF History, LineageStored
    <3>3. QED
      BY <1>0, <3>1, <3>2
  <2>3. QED
    BY <2>1, <2>2
<1>4. QED
  BY <1>1, <1>2, <1>3 DEF History

\* Lineages never fork, never cycle and never lose an entry.
THEOREM MemoryHistory == Spec => []History
<1>1. Init => History
  BY DEF Init, History, LineageStored, ReplacedOnce, LineageAcyclic
<1>2. TypeOK /\ History /\ [Next]_memory => History'
  <2> SUFFICES ASSUME TypeOK, History, [Next]_memory
               PROVE  History'
    OBVIOUS
  <2>1. CASE UNCHANGED memory
    BY <2>1 DEF History, LineageStored, ReplacedOnce, LineageAcyclic
  <2>2. CASE Next
    BY <2>2, RecordKeepsHistory DEF Next
  <2>3. QED
    BY <2>1, <2>2
<1>3. QED
  BY <1>1, <1>2, MemoryType, PTL DEF Spec
===============================================================================
