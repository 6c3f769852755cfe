------------------------------ MODULE MCIngest ------------------------------
(* Two records that can say two acceptable things, or one the gate refuses, *)
(* listed in either order, and an old database of two rows and a bundle    *)
(* of one of them and of a cell that it no longer has.                     *)
EXTENDS Ingest, TLC

CONSTANTS r1, r2, agent

MCOld == <<agent, "d">> :> "archived" @@ <<agent, "e">> :> "active"
MCOldBundles == {agent} :> {<<agent, "e">>, <<agent, "gone">>}

MCSymmetry == Permutations({r1, r2})
=============================================================================
