----------------------------- MODULE MCAdmission -----------------------------
(* Small instances of Admission for TLC. *)
EXTENDS Admission, TLC

CONSTANTS k1, k2, k3, h1, h2, note, prog, b1, b2

\* k1 and k2 share a handle: the collision four hex digits allow.
MCHandleOf == [k \in Keys |-> IF k \in {k1, k2} THEN h1 ELSE h2]

Write(t, b, es) == [title |-> t, body |-> b, edges |-> es,
                    programs |-> {}, bundles |-> {}, wellFormed |-> TRUE]

On(r, t) == [rel |-> r, to |-> t]

\* One edge of each sort, to a key or to the handle two keys share.
OneEdge == {<<On(r, t)>> : r \in {"supports", "supersedes"}, t \in {k1, h1}}

\* Edges that touch each other: superseding two cells at once, the same cell by
\* key and by the handle the new cell may share, superseding what one also
\* bears on, and bearing on two cells one of which may bear on the other.
TwoEdges == {<<On("supersedes", k1), On("supersedes", k2)>>,
             <<On("supersedes", k1), On("supersedes", h1)>>,
             <<On("supersedes", k2), On("contradicts", k1)>>,
             <<On("contradicts", k2), On("supports", k1)>>,
             <<On("depends_on", k2), On("supersedes", h2)>>}

MCProposals ==
    {Write(note, b1, es) : es \in {<<>>} \cup OneEdge \cup TwoEdges}
      \cup {Write(note, b2, es) : es \in {<<>>} \cup OneEdge}
      \cup {Write(prog, b1, <<>>),
            [Write(note, b2, <<>>) EXCEPT !.programs = {h1}],
            [Write(note, b1, <<>>) EXCEPT !.bundles = Bundles],
            [Write(note, b1, <<>>) EXCEPT !.wellFormed = FALSE]}

MCMemberLists == {{k1}, {h1, k3}}

\* Writes without edges, enough to build a store of same-titled cells.
PlainProposals == {Write(note, b, <<>>) : b \in Bodies}
=============================================================================
