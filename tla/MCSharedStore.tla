---------------------------- MODULE MCSharedStore ----------------------------
(* Small instances of SharedStore for TLC. *)
EXTENDS SharedStore, TLC

CONSTANTS k1, k2, k3, w, x, y, z, bundle

Write(content, links) == [content |-> content, links |-> links, bundles |-> {}]

\* w and x are two texts under one title.
MCTitleOf == [c \in Contents |-> IF c = w THEN x ELSE c]

\* A first cell, and two that supersede it, bear on it, or do both.
MCProposals ==
    {[Write(x, {}) EXCEPT !.bundles = Bundles],
     [Write(y, {[rel |-> "supersedes", to |-> k1], [rel |-> "contradicts", to |-> k1]})
        EXCEPT !.bundles = Bundles],
     Write(w, {[rel |-> "supports", to |-> k1], [rel |-> "supersedes", to |-> k3]}),
     Write(z, {[rel |-> "supersedes", to |-> k1], [rel |-> "supersedes", to |-> k2]})}

\* One cell and one that supersedes it.
PairProposals == {Write(x, {}), Write(y, {[rel |-> "supersedes", to |-> k1]})}
==============================================================================
