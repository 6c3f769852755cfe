------------------------------ MODULE Registry ------------------------------
(***************************************************************************)
(* Which graph a directory belongs to (src/src/routing.ts): the table of   *)
(* projects that several processes share, and the migration of the table   *)
(* of an older layout into it.                                             *)
(*                                                                         *)
(* A directory is the sequence of its names.  A slug is <<name>>, or       *)
(* <<name, root>> where a hash of the root was appended; a file has the    *)
(* name of the slug it was made for.  Hashes are taken to be injective.    *)
(***************************************************************************)
EXTENDS Integers, Sequences, FiniteSets, SequencesExt

CONSTANTS
    Callers,        \* the processes
    Roots,          \* directories a caller may register
    Bases,          \* names a caller may ask for, as slugify() leaves them
    ChosenFiles,    \* files a caller may name for a graph: any, the router's own too
    LegacyTables,   \* what the table of the old layout may hold
    MaxCalls,       \* bound on the calls made
    MaxKills        \* bound on the processes killed

\* What makes two projects conflict: the unique columns of the table.
Alike(p, q) == p.root = q.root \/ p.slug = q.slug \/ p.file = q.file

\* The table of the old layout has the same unique columns.
ASSUME LegacyAssumption ==
    \A table \in LegacyTables : \A p, q \in table : Alike(p, q) => p = q

VARIABLES
    projects,   \* the table of projects
    exists,     \* is there a registry file?
    legacy,     \* the table in the home file of the old layout
    calls,      \* what each process is doing
    made,       \* how many calls were made
    killed,     \* how many processes were killed
    disturbed   \* was a migration killed, or overtaken by a registration?

vars == <<projects, exists, legacy, calls, made, killed, disturbed>>

HomeFile     == <<"home">>
RegistryFile == <<"registry">>
Unnamed      == <<>>   \* no file was named

Idle == [does |-> "idle"]

-----------------------------------------------------------------------------
(* Names: uniqueSlug() and the file of a slug *)

Taken(slug, root) ==
    slug = <<"home">> \/ \E p \in projects : p.slug = slug /\ p.root # root

UniqueSlug(base, root) ==
    IF ~Taken(<<base>>, root) THEN <<base>>
    ELSE <<IF base = "home" THEN "project-home" ELSE base, root>>

FileAsSlug(slug) == slug   \* mutant
FileOf(slug) == IF slug = <<"registry">> THEN <<"project-registry">> ELSE slug

At(dir) == {p \in projects : p.root = dir}

-----------------------------------------------------------------------------
(* Calls: registerProject() and listProjects().  Each starts with          *)
(* migrateLegacyRegistry(), unless there is a registry file.               *)

\* What a call does once the registry is there; listing only reads.
BeginUnmigrated(c, call) ==   \* mutant
    /\ calls[c] = Idle /\ made < MaxCalls
    /\ calls' = [calls EXCEPT ![c] =
                   IF ~exists /\ legacy # {} /\ call = Idle
                   THEN [does |-> "open", rows |-> legacy, then |-> call]
                   ELSE call]
    /\ made' = made + 1
    /\ UNCHANGED <<projects, exists, legacy, killed, disturbed>>
BeginCall(c, call) ==
    /\ calls[c] = Idle /\ made < MaxCalls
    /\ calls' = [calls EXCEPT ![c] =
                   IF ~exists /\ legacy # {}
                   THEN [does |-> "open", rows |-> legacy, then |-> call]
                   ELSE call]
    /\ made' = made + 1
    /\ UNCHANGED <<projects, exists, legacy, killed, disturbed>>

Open(c) ==
    /\ calls[c].does = "open"
    /\ exists' = TRUE
    /\ calls' = [calls EXCEPT ![c].does = "migrate"]
    /\ UNCHANGED <<projects, legacy, made, killed, disturbed>>

Conflicts(p) == \E q \in projects : Alike(p, q)

\* INSERT OR IGNORE, one row at a time.
MigrateRow(c) ==
    /\ calls[c].does = "migrate"
    /\ \E p \in calls[c].rows :
          /\ projects' = IF Conflicts(p) THEN projects ELSE projects \cup {p}
          /\ calls' = [calls EXCEPT ![c] = IF calls[c].rows = {p} THEN calls[c].then
                                           ELSE [calls[c] EXCEPT !.rows = @ \ {p}]]
    /\ UNCHANGED <<exists, legacy, made, killed, disturbed>>

\* A root that is registered keeps its project; another one gets a name.
Name(c) ==
    /\ calls[c].does = "register"
    /\ exists' = TRUE
    /\ LET call == calls[c]
           slug == UniqueSlug(call.base, call.root)
       IN  calls' = [calls EXCEPT ![c] =
                       IF At(call.root) # {} THEN Idle
                       ELSE [does |-> "insert",
                             project |-> [root |-> call.root, slug |-> slug,
                                          file |-> IF call.file = Unnamed THEN FileOf(slug)
                                                   ELSE call.file]]]
    /\ UNCHANGED <<projects, legacy, made, killed, disturbed>>

Migrating(c) == calls[c].does \in {"open", "migrate"}

\* The insert throws where the root, the slug or the file is taken by now.
Insert(c) ==
    /\ calls[c].does = "insert"
    /\ projects' = IF Conflicts(calls[c].project) THEN projects
                   ELSE projects \cup {calls[c].project}
    /\ disturbed' = (disturbed \/ \E d \in Callers : Migrating(d))
    /\ calls' = [calls EXCEPT ![c] = Idle]
    /\ UNCHANGED <<exists, legacy, made, killed>>

Kill(c) ==
    /\ calls[c] # Idle /\ killed < MaxKills
    /\ killed' = killed + 1
    /\ disturbed' = (disturbed \/ Migrating(c))
    /\ calls' = [calls EXCEPT ![c] = Idle]
    /\ UNCHANGED <<projects, exists, legacy, made>>

Requests ==
    {Idle} \cup [does : {"register"}, root : Roots, base : Bases,
                 file : ChosenFiles \cup {Unnamed}]

Init ==
    /\ projects = {} /\ exists = FALSE /\ legacy \in LegacyTables
    /\ calls = [c \in Callers |-> Idle]
    /\ made = 0 /\ killed = 0 /\ disturbed = FALSE

Next ==
    \E c \in Callers :
       \/ \E call \in Requests : BeginCall(c, call)
       \/ Open(c) \/ MigrateRow(c) \/ Name(c) \/ Insert(c) \/ Kill(c)

Spec == Init /\ [][Next]_vars

-----------------------------------------------------------------------------
(* Properties *)

\* However processes interleave and are killed, no two projects share a
\* root, a name or a file, and the router gives none the file of the home graph
\* or of the registry itself: a write never lands in the graph of another
\* project, and in those only where the caller named the file.
ProjectsApart ==
    /\ \A p, q \in projects : Alike(p, q) => p = q
    /\ \A p \in projects \ legacy :
          p.file \in {HomeFile, RegistryFile} => p.file # FileOf(p.slug)

\* The migration brings every project of the old layout over, unless it was
\* killed or a registration overtook it: no later call resumes it.
MigrationKeepsAll ==
    exists /\ ~disturbed /\ (\A c \in Callers : ~Migrating(c))
        => legacy \subseteq projects
=============================================================================
