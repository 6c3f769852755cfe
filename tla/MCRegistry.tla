----------------------------- MODULE MCRegistry -----------------------------
(* Two processes register a directory, one inside it and one beside it,     *)
(* where an older layout may have left two projects behind.  They may name  *)
(* the files of the router, or one that a project would be given.           *)
EXTENDS Routes

CONSTANTS c1, c2

Top     == <<"a">>
Inner   == <<"a", "b">>
Beside  == <<"c">>
MCRoots == {Top, Inner, Beside}
MCFiles == {<<"home">>, <<"app">>}
MCTables == {{}, {[root |-> Top, slug |-> <<"home">>, file |-> <<"old-home">>],
                  [root |-> Beside, slug |-> <<"app">>, file |-> <<"app">>]}}
=============================================================================
