-------------------------------- MODULE Routes --------------------------------
(***************************************************************************)
(* What is read from the table of projects: which graph a directory        *)
(* belongs to, and which graphs a read opens (whereProject() and           *)
(* localGraphPaths(), src/src/routing.ts, and the routes of the command    *)
(* line and the server).                                                   *)
(***************************************************************************)
EXTENDS Registry

\* A directory is the sequence of its names; a slug is a name, or a name and
\* what was appended to it.
IsDir(s)  == s = [i \in DOMAIN s |-> s[i]] /\ DOMAIN s = 1..Len(s) /\ Len(s) \in Nat
IsSlug(s) == s = [i \in DOMAIN s |-> s[i]] /\ DOMAIN s \in {1..1, 1..2}

\* The projects of the old layout are like those of the new one.
ASSUME RoutesAssumption ==
    /\ \A root \in Roots : IsDir(root)
    /\ \A table \in LegacyTables :
          /\ IsFiniteSet(table)
          /\ \A p \in table : IsDir(p.root) /\ IsSlug(p.slug)

Above(dir, n) == SubSeq(dir, 1, n)

TopmostOwner(dir) ==   \* mutant
    LET owner[n \in 0..Len(dir)] ==
            LET above == IF n = 0 THEN {} ELSE owner[n - 1]
            IN  IF above # {} THEN above ELSE At(Above(dir, n))
    IN  owner[Len(dir)]
\* From the directory up to the root, until a project is there.
Owner(dir) ==
    LET owner[n \in 0..Len(dir)] ==
            LET here == At(Above(dir, n))
            IN  IF here # {} \/ n = 0 THEN here ELSE owner[n - 1]
    IN  owner[Len(dir)]

Route(dir) ==
    IF Owner(dir) = {} THEN HomeFile ELSE (CHOOSE p \in Owner(dir) : TRUE).file

\* The graphs of the machine, home first; a file is listed once, and a name
\* that was given already is made longer.
Listed(order) ==
    [i \in 1..(Len(order) + 1) |->
        IF i = 1 THEN [graph |-> <<"home">>, path |-> HomeFile, root |-> <<"home">>]
        ELSE [graph |-> order[i - 1].slug, path |-> order[i - 1].file, root |-> order[i - 1].root]]

Fresh(members, out, i) == ~\E j \in DOMAIN out : out[j].path = members[i].path

AddMember(members, out, i) ==
    LET graph == members[i].graph
        taken == \E j \in DOMAIN out : out[j].graph = graph
    IN  IF ~Fresh(members, out, i) THEN out
        ELSE Append(out, [graph |-> IF taken THEN graph \o <<members[i].root, members[i].path>>
                                    ELSE graph,
                          path  |-> members[i].path])

LocalGraphs(order) ==
    LET local[n \in 0..(Len(order) + 1)] ==
            IF n = 0 THEN <<>> ELSE AddMember(Listed(order), local[n - 1], n)
    IN  local[Len(order) + 1]

\* What a read sees: from outside every project all graphs, otherwise one, were
\* it the home graph that the caller named for the project.
GraphsRead(dir) ==
    IF Owner(dir) = {}
    THEN {g.path : g \in Range(LocalGraphs(SetToSeq(projects)))}
    ELSE {Route(dir)}

-----------------------------------------------------------------------------
(* Properties *)

\* A directory belongs to the registered project that is closest above it, and
\* to the home graph if there is none: a read from a project reaches the file
\* registered for it and no other, and one from outside reaches each graph once,
\* under a name of its own, so that the federated store opens.
RoutesAreRight ==
    /\ \A root \in Roots : \A dir \in {root, Append(root, "sub")} :
          LET above == {p \in projects : IsPrefix(p.root, dir)}
          IN  /\ above = {} => Route(dir) = HomeFile
              /\ \A p \in above :
                    (\A q \in above : Len(q.root) <= Len(p.root))
                        => Route(dir) = p.file /\ GraphsRead(dir) = {p.file}
    /\ LET graphs == LocalGraphs(SetToSeq(projects))
       IN  /\ \A i, j \in DOMAIN graphs : i # j =>
                 graphs[i].graph # graphs[j].graph /\ graphs[i].path # graphs[j].path
           /\ {p.file : p \in projects} \subseteq {graphs[i].path : i \in DOMAIN graphs}
=============================================================================
