------------------------------- MODULE Memory -------------------------------
(***************************************************************************)
(* What Recall promises about its memory, with no word about how the gate, *)
(* the SQLite file or the operator get there.  A memory is a set of        *)
(* entries, each with a content that never changes.  Recording an entry    *)
(* may replace some of the current ones; a replaced entry is kept, stays   *)
(* replaced, and is named by exactly one successor: its lineage.           *)
(*                                                                         *)
(* Admission implements this specification; so does SharedStore when the   *)
(* processes that share the file take turns.                               *)
(***************************************************************************)
CONSTANTS Ids,      \* the keys an entry can have
          Content   \* what an entry can say

VARIABLE memory     \* a partial function: Ids to entries

Entry == [content : Content, current : BOOLEAN, replaces : SUBSET Ids]

Current == {i \in DOMAIN memory : memory[i].current}

-----------------------------------------------------------------------------
Init == memory = [i \in {} |-> {}]

\* Record the content c under the new id i, in place of the entries of R.
Record(i, c, R) ==
    /\ i \notin DOMAIN memory
    /\ R \subseteq Current
    /\ memory' = [j \in DOMAIN memory \cup {i} |->
                     IF j = i
                     THEN [content |-> c, current |-> TRUE, replaces |-> R]
                     ELSE IF j \in R THEN [memory[j] EXCEPT !.current = FALSE]
                     ELSE memory[j]]

Next == \E i \in Ids, c \in Content, R \in SUBSET Ids : Record(i, c, R)

Spec == Init /\ [][Next]_memory

-----------------------------------------------------------------------------
TypeOK ==
    /\ DOMAIN memory \subseteq Ids
    /\ \A i \in DOMAIN memory : memory[i] \in Entry

\* An entry is out of date exactly when a stored entry replaces it, and then
\* one only: a lineage is a chain, it never forks into two successors.
ReplacedOnce ==
    \A i \in DOMAIN memory :
       /\ memory[i].current <=> \A s \in DOMAIN memory : i \notin memory[s].replaces
       /\ \A s, t \in DOMAIN memory :
             i \in memory[s].replaces /\ i \in memory[t].replaces => s = t

\* Every replaced entry is still stored.
LineageStored ==
    \A i \in DOMAIN memory : memory[i].replaces \subseteq DOMAIN memory

\* Lineage is well founded: in every set of entries there is one that replaces
\* none of the others, so a walk down the lineage ends.
LineageAcyclic ==
    \A S \in SUBSET DOMAIN memory :
       S # {} => \E i \in S : memory[i].replaces \cap S = {}
=============================================================================
