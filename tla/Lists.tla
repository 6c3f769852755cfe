-------------------------------- MODULE Lists --------------------------------
(***************************************************************************)
(* What the program does with arrays: filter(), sort() and the like.  They  *)
(* are recursive functions rather than folds, so that proofs can be about  *)
(* them.                                                                   *)
(***************************************************************************)
EXTENDS Integers, Sequences, FiniteSets

\* The members of a sequence at some of its places, in their order.
Kept(s, at) ==
    LET kept[i \in 0..Len(s)] ==
            IF i = 0 THEN <<>>
            ELSE IF i \in at THEN Append(kept[i - 1], s[i]) ELSE kept[i - 1]
    IN  kept[Len(s)]

\* The greatest first; what ranks the same stays as it came.
ByRank(s, rank) ==
    LET Before(j, i) == rank[j] > rank[i] \/ (rank[j] = rank[i] /\ j <= i)
        Place(i)     == Cardinality({j \in 1..Len(s) : Before(j, i)})
        sorted       == [p \in 1..Len(s) |-> s[CHOOSE i \in 1..Len(s) : Place(i) = p]]
    IN  SubSeq(sorted, 1, Len(s))   \* which has TLC sort once

\* slice(0, n)
FirstFew(n, s) == SubSeq(s, 1, IF n < Len(s) THEN n ELSE Len(s))

Total(s) ==
    LET upTo[i \in 0..Len(s)] == IF i = 0 THEN 0 ELSE upTo[i - 1] + s[i]
    IN  upTo[Len(s)]
=============================================================================
