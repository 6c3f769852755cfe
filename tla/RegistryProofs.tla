--------------------------- MODULE RegistryProofs ---------------------------
(***************************************************************************)
(* Proofs about the shared table of projects, for any number of processes, *)
(* directories, names and kills.                                           *)
(***************************************************************************)
EXTENDS Routes, FiniteSetTheorems, SequenceTheorems, TLAPS

-----------------------------------------------------------------------------
(* The inductive invariant *)

\* What a process can be doing: nothing, a registration it was asked for, a
\* migration of the old table, or the insertion of a project whose file, unless
\* it was named, is neither that of the home graph nor that of the registry.
FileKept(p) == p.file \in {HomeFile, RegistryFile} => p.file # FileOf(p.slug)

CallOK(c) ==
    \/ calls[c] \in Requests
    \/ calls[c] \in [does : {"open"}, rows : {legacy}, then : Requests]
    \/ exists /\ calls[c] \in [does : {"migrate"}, rows : SUBSET legacy, then : Requests]
    \/ /\ calls[c].does = "insert"
       /\ FileKept(calls[c].project)
       /\ exists

CallsOK == /\ calls = [c \in Callers |-> calls[c]]
           /\ \A c \in Callers : CallOK(c)

\* Nothing is registered without a registry file; and a registration that
\* starts without one has no old table to bring over.
NothingYet ==
    ~exists => /\ projects = {}
               /\ \A c \in Callers : calls[c].does = "register" => legacy = {}

\* While a migration that nothing overtook is under way, only its own rows
\* are registered.
OnlyLegacy ==
    ~disturbed /\ (\E c \in Callers : Migrating(c)) => projects \subseteq legacy

\* A row of the old table is registered or still in some process's hands.
Carried ==
    exists /\ ~disturbed =>
       \A p \in legacy : \/ p \in projects
                         \/ \E c \in Callers : calls[c].does = "migrate" /\ p \in calls[c].rows

IInv == /\ legacy \in LegacyTables
        /\ CallsOK /\ ProjectsApart
        /\ NothingYet /\ OnlyLegacy /\ Carried

-----------------------------------------------------------------------------
\* Requests start idle or as a registration.
LEMMA RequestDoes ==
    ASSUME NEW call \in Requests
    PROVE  call.does \in {"idle", "register"}
  BY DEF Requests, Idle

\* No name leads to the file of the home graph or of the registry.
LEMMA FileApart ==
    ASSUME NEW base \in Bases, NEW root
    PROVE  FileOf(UniqueSlug(base, root)) \notin {HomeFile, RegistryFile}
<1>1. CASE UniqueSlug(base, root) = <<base>>
  <2>1. base # "home"
    <3>1. SUFFICES ASSUME base = "home"
                   PROVE  FALSE
      OBVIOUS
    <3>2. Taken(<<base>>, root)
      BY <3>1 DEF Taken
    <3>3. Len(UniqueSlug(base, root)) = 2
      BY <3>2 DEF UniqueSlug
    <3>4. QED
      BY <3>3, <1>1
  <2>2. QED
    BY <1>1, <2>1 DEF FileOf, HomeFile, RegistryFile
<1>2. CASE UniqueSlug(base, root) # <<base>>
  <2>1. Len(UniqueSlug(base, root)) = 2
    BY <1>2 DEF UniqueSlug
  <2>2. FileOf(UniqueSlug(base, root)) = UniqueSlug(base, root)
    BY <2>1 DEF FileOf
  <2>3. QED
    BY <2>1, <2>2 DEF HomeFile, RegistryFile
<1>3. QED
  BY <1>1, <1>2

\* What a step does to the others: they go on with the call they were in.
LEMMA OthersKeep ==
    ASSUME CallsOK, NEW c \in Callers, NEW to,
           calls' = [calls EXCEPT ![c] = to]
    PROVE  /\ calls' = [d \in Callers |-> calls'[d]]
           /\ calls'[c] = to
           /\ \A d \in Callers : d # c => calls'[d] = calls[d]
  BY DEF CallsOK

\* Beginning a call registers nothing.
LEMMA BeginKeeps ==
    ASSUME IInv, NEW c \in Callers, NEW call \in Requests, BeginCall(c, call)
    PROVE  IInv'
<1> DEFINE opens == ~exists /\ legacy # {}
           to    == IF opens THEN [does |-> "open", rows |-> legacy, then |-> call] ELSE call
<1>1. /\ calls' = [d \in Callers |-> calls'[d]]
      /\ calls'[c] = to
      /\ \A d \in Callers : d # c => calls'[d] = calls[d]
  BY OthersKeep DEF BeginCall, IInv
<1>2. UNCHANGED <<projects, exists, legacy, disturbed>> /\ calls[c].does = "idle"
  BY DEF BeginCall, Idle
<1>3. call.does \in {"idle", "register"}
  BY RequestDoes
<1>4. CallsOK'
  <2>1. CallOK(c)'
    BY <1>1, <1>2 DEF CallOK, Requests
  <2>2. ASSUME NEW d \in Callers, d # c
        PROVE  CallOK(d)'
    BY <2>2, <1>1, <1>2 DEF CallOK, Requests, IInv, CallsOK
  <2>3. QED
    BY <1>1, <2>1, <2>2 DEF CallsOK
<1>5. ProjectsApart'
  BY <1>2 DEF ProjectsApart, IInv
<1>6. NothingYet'
  BY <1>1, <1>2 DEF NothingYet, IInv
<1>7. OnlyLegacy'
  <2>1. CASE opens
    BY <2>1, <1>2 DEF OnlyLegacy, IInv, NothingYet
  <2>2. CASE ~opens
    BY <2>2, <1>1, <1>2, <1>3 DEF OnlyLegacy, IInv, Migrating
  <2>3. QED
    BY <2>1, <2>2
<1>8. Carried'
  BY <1>1, <1>2 DEF Carried, IInv
<1>9. QED
  BY <1>2, <1>4, <1>5, <1>6, <1>7, <1>8 DEF IInv

\* Opening the registry makes the file, and registers nothing.
LEMMA OpenKeeps ==
    ASSUME IInv, NEW c \in Callers, Open(c)
    PROVE  IInv'
<1> DEFINE to == [calls[c] EXCEPT !.does = "migrate"]
<1>1. /\ calls' = [calls EXCEPT ![c] = to]
      /\ to \in [does : {"migrate"}, rows : {legacy}, then : Requests]
  <2>1. CallOK(c) /\ calls[c].does = "open"
    BY DEF IInv, CallsOK, Open
  <2>2. calls[c] \in [does : {"open"}, rows : {legacy}, then : Requests]
    BY <2>1, RequestDoes DEF CallOK
  <2>3. QED
    BY <2>2 DEF Open
<1> HIDE DEF to
<1>2. /\ calls' = [d \in Callers |-> calls'[d]]
      /\ calls'[c] = to
      /\ \A d \in Callers : d # c => calls'[d] = calls[d]
  BY <1>1, OthersKeep DEF IInv
<1>3. UNCHANGED <<projects, legacy, disturbed>> /\ exists' /\ calls[c].does = "open"
  BY DEF Open
<1>4. CallsOK'
  <2>1. CallOK(c)'
    BY <1>1, <1>2, <1>3 DEF CallOK, Requests
  <2>2. ASSUME NEW d \in Callers, d # c
        PROVE  CallOK(d)'
    BY <2>2, <1>2, <1>3 DEF CallOK, Requests, IInv, CallsOK
  <2>3. QED
    BY <1>2, <2>1, <2>2 DEF CallsOK
<1>5. ProjectsApart'
  BY <1>3 DEF ProjectsApart, IInv
<1>6. NothingYet'
  BY <1>3 DEF NothingYet
<1>7. OnlyLegacy'
  BY <1>3 DEF OnlyLegacy, IInv, Migrating
<1>8. Carried'
  BY <1>1, <1>2, <1>3 DEF Carried
<1>9. QED
  BY <1>3, <1>4, <1>5, <1>6, <1>7, <1>8 DEF IInv

\* A row that conflicts with what is there is there itself, as long as only
\* rows of the old table are: its rows do not conflict with one another.
LEMMA MigrateRowKeeps ==
    ASSUME IInv, NEW c \in Callers, MigrateRow(c)
    PROVE  IInv'
<1>1. PICK p \in calls[c].rows :
        /\ projects' = IF Conflicts(p) THEN projects ELSE projects \cup {p}
        /\ calls' = [calls EXCEPT ![c] = IF calls[c].rows = {p} THEN calls[c].then
                                         ELSE [calls[c] EXCEPT !.rows = @ \ {p}]]
  BY DEF MigrateRow
<1> DEFINE to == IF calls[c].rows = {p} THEN calls[c].then
                 ELSE [calls[c] EXCEPT !.rows = @ \ {p}]
<1>2. /\ calls' = [d \in Callers |-> calls'[d]]
      /\ calls'[c] = to
      /\ \A d \in Callers : d # c => calls'[d] = calls[d]
  BY <1>1, OthersKeep DEF IInv
<1>3. UNCHANGED <<exists, legacy, disturbed>> /\ calls[c].does = "migrate"
  BY DEF MigrateRow
<1>4. calls[c] \in [does : {"migrate"}, rows : SUBSET legacy, then : Requests] /\ exists
  BY <1>3, RequestDoes DEF IInv, CallsOK, CallOK
<1>5. /\ calls[c].rows # {p} =>
            to \in [does : {"migrate"}, rows : {calls[c].rows \ {p}}, then : Requests]
      /\ calls[c].rows = {p} => to \in Requests
  BY <1>4
<1> HIDE DEF to
<1>6. CallsOK'
  <2>1. CallOK(c)'
    BY <1>2, <1>3, <1>4, <1>5 DEF CallOK, Requests
  <2>2. ASSUME NEW d \in Callers, d # c
        PROVE  CallOK(d)'
    BY <2>2, <1>2, <1>3 DEF CallOK, Requests, IInv, CallsOK
  <2>3. QED
    BY <1>2, <2>1, <2>2 DEF CallsOK
<1>7. ProjectsApart'
  BY <1>1, <1>3, <1>4 DEF ProjectsApart, IInv, Conflicts, Alike
<1>8. NothingYet'
  BY <1>3, <1>4 DEF NothingYet
<1>9. OnlyLegacy'
  BY <1>1, <1>3, <1>4 DEF OnlyLegacy, IInv, Migrating
<1>10. ~disturbed => p \in projects'
  <2>1. SUFFICES ASSUME ~disturbed, Conflicts(p)
                 PROVE  p \in projects
    BY <1>1
  <2>2. projects \subseteq legacy
    BY <2>1, <1>3 DEF IInv, OnlyLegacy, Migrating
  <2>3. QED
    BY <2>1, <2>2, <1>4, LegacyAssumption DEF IInv, Conflicts
<1>11. Carried'
  <2>1. SUFFICES ASSUME ~disturbed, NEW q \in legacy, q \notin projects'
                 PROVE  \E d \in Callers : calls'[d].does = "migrate" /\ q \in calls'[d].rows
    BY <1>3 DEF Carried
  <2>2. q \notin projects /\ q # p
    BY <2>1, <1>1, <1>10
  <2>3. PICK d \in Callers : calls[d].does = "migrate" /\ q \in calls[d].rows
    BY <2>1, <2>2, <1>4 DEF IInv, Carried
  <2>4. CASE d = c
    BY <2>2, <2>3, <2>4, <1>2, <1>5
  <2>5. CASE d # c
    BY <2>3, <2>5, <1>2
  <2>6. QED
    BY <2>4, <2>5
<1>12. QED
  BY <1>3, <1>6, <1>7, <1>8, <1>9, <1>11 DEF IInv

\* A name is drawn that leads to no file of the router.
LEMMA NameKeeps ==
    ASSUME IInv, NEW c \in Callers, Name(c)
    PROVE  IInv'
<1> DEFINE call == calls[c]
           slug == UniqueSlug(call.base, call.root)
           to   == IF At(call.root) # {} THEN Idle
                   ELSE [does |-> "insert",
                         project |-> [root |-> call.root, slug |-> slug,
                                      file |-> IF call.file = Unnamed THEN FileOf(slug)
                                               ELSE call.file]]
<1>1. /\ UNCHANGED <<projects, legacy, disturbed>> /\ exists' /\ calls[c].does = "register"
      /\ calls' = [calls EXCEPT ![c] = to]
  BY DEF Name
<1>2. /\ calls' = [d \in Callers |-> calls'[d]]
      /\ calls'[c] = to
      /\ \A d \in Callers : d # c => calls'[d] = calls[d]
  <2> HIDE DEF to
  <2>1. QED
    BY <1>1, OthersKeep DEF IInv
<1>3. call.base \in Bases
  BY <1>1 DEF IInv, CallsOK, CallOK, Requests, Idle
<1>4. to \in Requests \/ (to.does = "insert" /\ FileKept(to.project))
  <2>1. FileOf(slug) \notin {HomeFile, RegistryFile}
    BY <1>3, FileApart
  <2> HIDE DEF slug
  <2>2. QED
    BY <2>1 DEF Requests, FileKept
<1>5. to.does # "migrate" /\ to.does # "open"
  BY DEF Idle
<1> HIDE DEF to
<1>6. CallsOK'
  <2>1. CallOK(c)'
    BY <1>1, <1>2, <1>4 DEF CallOK, Requests
  <2>2. ASSUME NEW d \in Callers, d # c
        PROVE  CallOK(d)'
    BY <2>2, <1>1, <1>2 DEF CallOK, Requests, IInv, CallsOK
  <2>3. QED
    BY <1>2, <2>1, <2>2 DEF CallsOK
<1>7. ProjectsApart'
  BY <1>1 DEF ProjectsApart, IInv
<1>8. NothingYet'
  BY <1>1 DEF NothingYet
<1>9. OnlyLegacy'
  BY <1>1, <1>2, <1>5 DEF OnlyLegacy, IInv, Migrating
<1>10. Carried'
  <2>1. CASE exists
    BY <2>1, <1>1, <1>2 DEF Carried, IInv
  <2>2. CASE ~exists
    BY <2>2, <1>1 DEF Carried, IInv, NothingYet
  <2>3. QED
    BY <2>1, <2>2
<1>11. QED
  BY <1>1, <1>6, <1>7, <1>8, <1>9, <1>10 DEF IInv

\* An insertion is refused on a conflict, so that projects stay apart.
LEMMA InsertKeeps ==
    ASSUME IInv, NEW c \in Callers, Insert(c)
    PROVE  IInv'
<1>1. /\ UNCHANGED <<exists, legacy>> /\ calls[c].does = "insert"
      /\ calls' = [calls EXCEPT ![c] = Idle]
      /\ projects' = IF Conflicts(calls[c].project) THEN projects
                     ELSE projects \cup {calls[c].project}
      /\ disturbed' = (disturbed \/ \E d \in Callers : Migrating(d))
  BY DEF Insert
<1>2. /\ calls' = [d \in Callers |-> calls'[d]]
      /\ calls'[c] = Idle
      /\ \A d \in Callers : d # c => calls'[d] = calls[d]
  BY <1>1, OthersKeep DEF IInv
<1>3. exists /\ FileKept(calls[c].project)
  BY <1>1, RequestDoes DEF IInv, CallsOK, CallOK
<1>4. CallsOK'
  <2>1. CallOK(c)'
    BY <1>2 DEF CallOK, Requests
  <2>2. ASSUME NEW d \in Callers, d # c
        PROVE  CallOK(d)'
    BY <2>2, <1>1, <1>2 DEF CallOK, Requests, IInv, CallsOK
  <2>3. QED
    BY <1>2, <2>1, <2>2 DEF CallsOK
<1>5. ProjectsApart'
  BY <1>1, <1>3 DEF ProjectsApart, IInv, Conflicts, Alike, FileKept
<1>6. NothingYet'
  BY <1>1, <1>3 DEF NothingYet
<1>7. OnlyLegacy'
  BY <1>1, <1>2 DEF OnlyLegacy, Migrating, Idle
<1>8. Carried'
  BY <1>1, <1>2 DEF Carried, IInv
<1>9. QED
  BY <1>1, <1>4, <1>5, <1>6, <1>7, <1>8 DEF IInv

\* A killed call leaves what is registered.
LEMMA KillKeeps ==
    ASSUME IInv, NEW c \in Callers, Kill(c)
    PROVE  IInv'
<1>1. /\ UNCHANGED <<projects, exists, legacy>>
      /\ calls' = [calls EXCEPT ![c] = Idle]
      /\ disturbed' = (disturbed \/ Migrating(c))
  BY DEF Kill
<1>2. /\ calls' = [d \in Callers |-> calls'[d]]
      /\ calls'[c] = Idle
      /\ \A d \in Callers : d # c => calls'[d] = calls[d]
  BY <1>1, OthersKeep DEF IInv
<1>3. CallsOK'
  <2>1. CallOK(c)'
    BY <1>2 DEF CallOK, Requests
  <2>2. ASSUME NEW d \in Callers, d # c
        PROVE  CallOK(d)'
    BY <2>2, <1>1, <1>2 DEF CallOK, Requests, IInv, CallsOK
  <2>3. QED
    BY <1>2, <2>1, <2>2 DEF CallsOK
<1>4. ProjectsApart'
  BY <1>1 DEF ProjectsApart, IInv
<1>5. NothingYet'
  BY <1>1, <1>2 DEF NothingYet, IInv, Idle
<1>6. OnlyLegacy'
  BY <1>1, <1>2 DEF OnlyLegacy, IInv, Migrating, Idle
<1>7. Carried'
  BY <1>1, <1>2 DEF Carried, IInv, Migrating
<1>8. QED
  BY <1>1, <1>3, <1>4, <1>5, <1>6, <1>7 DEF IInv

-----------------------------------------------------------------------------
\* The inductive invariant holds.
LEMMA RegistryInvariant == Spec => []IInv
<1>1. Init => IInv
  <2>1. SUFFICES ASSUME Init
                 PROVE  IInv
    OBVIOUS
  <2>2. \A c \in Callers : calls[c] = Idle
    BY <2>1 DEF Init
  <2>3. CallsOK
    BY <2>1, <2>2 DEF Init, CallsOK, CallOK, Requests
  <2>4. QED
    BY <2>1, <2>2, <2>3 DEF Init, IInv, ProjectsApart, NothingYet, OnlyLegacy, Carried, Idle
<1>2. IInv /\ [Next]_vars => IInv'
  <2>1. SUFFICES ASSUME IInv, [Next]_vars
                 PROVE  IInv'
    OBVIOUS
  <2>2. CASE UNCHANGED vars
    BY <2>1, <2>2 DEF vars, IInv, CallsOK, CallOK, ProjectsApart, NothingYet, OnlyLegacy,
                      Carried, Migrating
  <2>3. CASE Next
    BY <2>1, <2>3, BeginKeeps, OpenKeeps, MigrateRowKeeps, NameKeeps, InsertKeeps, KillKeeps
       DEF Next
  <2>4. QED
    BY <2>1, <2>2, <2>3
<1>3. QED
  BY <1>1, <1>2, PTL DEF Spec

\* However many processes register, migrate and are killed, no two projects
\* share a root, a name or a file, and none has the file of the home graph or of
\* the registry unless a caller named it (registerProject() and its unique
\* columns).
THEOREM RegistryApart == Spec => []ProjectsApart
<1>1. IInv => ProjectsApart
  BY DEF IInv
<1>2. QED
  BY <1>1, RegistryInvariant, PTL

\* A migration that was neither killed nor overtaken by a registration brings
\* every project over (migrateLegacyRegistry()), with any number of processes
\* migrating at once.
THEOREM RegistryKeepsAll == Spec => []MigrationKeepsAll
<1>1. IInv => MigrationKeepsAll
  BY DEF IInv, Carried, MigrationKeepsAll, Migrating
<1>2. QED
  BY <1>1, RegistryInvariant, PTL

-----------------------------------------------------------------------------
(* Induction.  A set that holds 0 and with each number the next one holds   *)
(* all: otherwise, below a number it does not hold, adding one would take   *)
(* finitely many numbers one by one to fewer.                               *)

LEMMA Induction ==
    ASSUME NEW S, 0 \in S, \A n \in Nat : n \in S => n + 1 \in S
    PROVE  Nat \subseteq S
<1>1. SUFFICES ASSUME NEW n \in Nat, n \notin S
               PROVE  FALSE
  OBVIOUS
<1> DEFINE T == {k \in 0..n : k \in S}
           U == T \ {0}
           f == [k \in T |-> k + 1]
<1>2. IsFiniteSet(T)
  BY FS_Interval, FS_Subset, 0 \in Int, n \in Int
<1>3. IsFiniteSet(U) /\ Cardinality(U) = Cardinality(T) - 1 /\ Cardinality(T) \in Nat
  BY <1>2, FS_RemoveElement, FS_CardinalityType, 0 \in T
<1>4. f \in [T -> U]
  BY <1>1
<1>5. Cardinality(U) < Cardinality(T)
  BY <1>3
<1>6. \A x, y \in T : f[x] = f[y] => x = y
  OBVIOUS
<1> HIDE DEF T, U, f
<1>7. QED
  BY <1>2, <1>3, <1>4, <1>5, <1>6, FS_PigeonHole

-----------------------------------------------------------------------------
(* Routes.  What projects are like: directories and names are sequences,    *)
(* and there are finitely many.                                             *)

Sound(p) == IsDir(p.root) /\ IsSlug(p.slug)

RoutesOK == /\ IsFiniteSet(projects)
            /\ \A p \in projects : Sound(p)
            /\ \A c \in Callers : calls[c].does = "insert" => Sound(calls[c].project)

\* Old tables are finite, and their rows sound.
LEMMA LegacySound ==
    ASSUME NEW table \in LegacyTables
    PROVE  IsFiniteSet(table) /\ \A p \in table : Sound(p)
  BY RoutesAssumption DEF Sound

\* Names that are drawn are slugs.
LEMMA NamesSound ==
    ASSUME NEW base, NEW root
    PROVE  IsSlug(UniqueSlug(base, root))
<1>1. ASSUME NEW a, NEW b
      PROVE  IsSlug(<<a>>) /\ IsSlug(<<a, b>>)
  BY DEF IsSlug
<1>2. QED
  BY <1>1 DEF UniqueSlug

\* Every step keeps what routes rely on.
LEMMA RoutesStep ==
    ASSUME IInv, RoutesOK, NEW c \in Callers,
           \/ \E call \in Requests : BeginCall(c, call)
           \/ Open(c) \/ MigrateRow(c) \/ Name(c) \/ Insert(c) \/ Kill(c)
    PROVE  RoutesOK'
<1>1. CASE \E call \in Requests : BeginCall(c, call)
  <2>1. PICK call \in Requests : BeginCall(c, call)
    BY <1>1
  <2>2. call.does # "insert"
    BY RequestDoes
  <2>3. QED
    BY <2>1, <2>2 DEF BeginCall, RoutesOK, IInv, CallsOK
<1>2. CASE Open(c)
  <2>1. \A d \in Callers : calls'[d].does = "insert" => d # c /\ calls'[d] = calls[d]
    BY <1>2, RequestDoes DEF Open, IInv, CallsOK, CallOK
  <2>2. QED
    BY <1>2, <2>1 DEF Open, RoutesOK
<1>3. CASE MigrateRow(c)
  <2>1. PICK p \in calls[c].rows :
          /\ projects' = IF Conflicts(p) THEN projects ELSE projects \cup {p}
          /\ calls' = [calls EXCEPT ![c] = IF calls[c].rows = {p} THEN calls[c].then
                                           ELSE [calls[c] EXCEPT !.rows = @ \ {p}]]
    BY <1>3 DEF MigrateRow
  <2>2. calls[c] \in [does : {"migrate"}, rows : SUBSET legacy, then : Requests]
    BY <1>3, RequestDoes DEF MigrateRow, IInv, CallsOK, CallOK
  <2>3. \A d \in Callers : calls'[d].does = "insert" => d # c /\ calls'[d] = calls[d]
    BY <2>1, <2>2, RequestDoes DEF IInv, CallsOK
  <2>4. Sound(p)
    BY <2>1, <2>2, LegacySound DEF IInv
  <2>5. QED
    BY <2>1, <2>3, <2>4, FS_AddElement DEF RoutesOK
<1>4. CASE Name(c)
  <2>1. PICK project : /\ calls' = [calls EXCEPT ![c] = IF At(calls[c].root) # {} THEN Idle
                                                        ELSE [does |-> "insert", project |-> project]]
                       /\ project = [root |-> calls[c].root, slug |-> UniqueSlug(calls[c].base, calls[c].root),
                                     file |-> IF calls[c].file = Unnamed
                                              THEN FileOf(UniqueSlug(calls[c].base, calls[c].root))
                                              ELSE calls[c].file]
    BY <1>4 DEF Name
  <2>2. calls[c].root \in Roots /\ calls[c].base \in Bases
    BY <1>4 DEF Name, IInv, CallsOK, CallOK, Requests, Idle
  <2>3. Sound(project)
    BY <2>1, <2>2, NamesSound, RoutesAssumption DEF Sound
  <2>4. \A d \in Callers : calls'[d].does = "insert"
          => \/ calls'[d].project = project
             \/ calls'[d] = calls[d]
    BY <2>1 DEF IInv, CallsOK, Idle
  <2>5. QED
    BY <1>4, <2>3, <2>4 DEF Name, RoutesOK
<1>5. CASE Insert(c)
  BY <1>5, FS_AddElement DEF Insert, RoutesOK, IInv, CallsOK, Idle
<1>6. CASE Kill(c)
  BY <1>6 DEF Kill, RoutesOK, IInv, CallsOK, Idle
<1>7. QED
  BY <1>1, <1>2, <1>3, <1>4, <1>5, <1>6

\* What routes rely on holds throughout.
LEMMA RoutesInvariant == Spec => [](IInv /\ RoutesOK)
<1>1. Init => RoutesOK
  BY FS_EmptySet DEF Init, RoutesOK, Idle
<1>2. IInv /\ RoutesOK /\ [Next]_vars => RoutesOK'
  <2>1. SUFFICES ASSUME IInv, RoutesOK, [Next]_vars
                 PROVE  RoutesOK'
    OBVIOUS
  <2>2. CASE UNCHANGED vars
    BY <2>1, <2>2 DEF vars, RoutesOK
  <2>3. CASE Next
    BY <2>1, <2>3, RoutesStep DEF Next
  <2>4. QED
    BY <2>1, <2>2, <2>3
<1>3. QED
  BY <1>1, <1>2, RegistryInvariant, PTL DEF Spec

-----------------------------------------------------------------------------
(* Which graph a directory belongs to *)

\* Going up from a directory, the search stops at the first project it meets.
LEMMA OwnerRecursion ==
    ASSUME NEW dir, Len(dir) \in Nat
    PROVE  \E owner : /\ Owner(dir) = owner[Len(dir)]
                      /\ \A n \in 0..Len(dir) :
                            owner[n] = IF At(Above(dir, n)) # {} \/ n = 0 THEN At(Above(dir, n))
                                       ELSE owner[n - 1]
<1> DEFINE here(n) == At(Above(dir, n))
           Upward(h, k) == h = [n \in 0..k |-> IF here(n) # {} \/ n = 0 THEN here(n) ELSE h[n - 1]]
           S == {k \in Nat : \E h : Upward(h, k)}
<1> HIDE DEF here
<1>1. 0 \in S
  <2>1. Upward([n \in 0..0 |-> here(0)], 0)
    OBVIOUS
  <2>2. QED
    BY <2>1
<1>2. ASSUME NEW k \in Nat, k \in S
      PROVE  k + 1 \in S
  <2>1. PICK h : Upward(h, k)
    BY <1>2
  <2> DEFINE top == IF here(k + 1) # {} THEN here(k + 1) ELSE h[k]
             next == [n \in 0..(k + 1) |-> IF n = k + 1 THEN top ELSE h[n]]
             step == [n \in 0..(k + 1) |-> IF here(n) # {} \/ n = 0 THEN here(n) ELSE next[n - 1]]
  <2>2. ASSUME NEW n \in 0..(k + 1)
        PROVE  next[n] = step[n]
    <3>1. CASE n = k + 1
      BY <3>1
    <3>2. CASE n = 0
      BY <2>1, <3>2
    <3>3. CASE n \in 1..k
      <4>1. n - 1 \in 0..k
        BY <3>3
      <4>2. next[n] = h[n] /\ next[n - 1] = h[n - 1]
        BY <3>3, <4>1
      <4>3. QED
        BY <2>1, <3>3, <4>2
    <3>4. QED
      BY <3>1, <3>2, <3>3
  <2>3. next = step
    BY <2>2
  <2>4. Upward(next, k + 1)
    BY <2>3
  <2> HIDE DEF Upward, next
  <2>5. QED
    BY <2>4
<1>3. Len(dir) \in S
  <2> HIDE DEF S
  <2> QED BY <1>1, <1>2, Induction
<1> DEFINE out == CHOOSE h : Upward(h, Len(dir))
<1>4. Upward(out, Len(dir))
  <2> HIDE DEF Upward
  <2> QED BY <1>3
<1>5. Owner(dir) = out[Len(dir)]
  BY DEF Owner, here
<1> HIDE DEF out
<1>6. \A n \in 0..Len(dir) : out[n] = IF here(n) # {} \/ n = 0 THEN here(n) ELSE out[n - 1]
  BY <1>4
<1>7. QED
  BY <1>5, <1>6 DEF here

\* The owner stands at the closest directory above that has one.
LEMMA OwnerIsClosest ==
    ASSUME NEW dir, Len(dir) \in Nat
    PROVE  /\ (\A n \in 0..Len(dir) : At(Above(dir, n)) = {}) => Owner(dir) = {}
           /\ \A k \in 0..Len(dir) :
                 /\ At(Above(dir, k)) # {}
                 /\ \A n \in (k + 1)..Len(dir) : At(Above(dir, n)) = {}
                 => Owner(dir) = At(Above(dir, k))
<1> DEFINE here(n) == At(Above(dir, n))
<1>1. PICK owner : /\ Owner(dir) = owner[Len(dir)]
                   /\ \A n \in 0..Len(dir) :
                         owner[n] = IF here(n) # {} \/ n = 0 THEN here(n) ELSE owner[n - 1]
  BY OwnerRecursion
<1> HIDE DEF here
<1> DEFINE Closest(m) ==
               /\ (\A n \in 0..m : here(n) = {}) => owner[m] = {}
               /\ \A k \in 0..m : (here(k) # {} /\ \A n \in (k + 1)..m : here(n) = {})
                                     => owner[m] = here(k)
           S == {m \in Nat : m <= Len(dir) => Closest(m)}
<1>2. 0 \in S
  BY <1>1
<1>3. ASSUME NEW m \in Nat, m \in S
      PROVE  m + 1 \in S
  <2>1. SUFFICES ASSUME m + 1 <= Len(dir)
                 PROVE  Closest(m + 1)
    OBVIOUS
  <2>2. Closest(m)
    BY <1>3, <2>1
  <2>3. owner[m + 1] = IF here(m + 1) # {} THEN here(m + 1) ELSE owner[m]
    <3>1. m + 1 \in 0..Len(dir) /\ m + 1 # 0 /\ (m + 1) - 1 = m
      BY <2>1
    <3>2. QED
      BY <1>1, <3>1
  <2>4. (\A n \in 0..(m + 1) : here(n) = {}) => owner[m + 1] = {}
    <3>1. 0..m \subseteq 0..(m + 1) /\ m + 1 \in 0..(m + 1)
      OBVIOUS
    <3>2. QED
      BY <2>2, <2>3, <3>1
  <2>5. ASSUME NEW k \in 0..(m + 1), here(k) # {}, \A n \in (k + 1)..(m + 1) : here(n) = {}
        PROVE  owner[m + 1] = here(k)
    <3>1. CASE k = m + 1
      BY <2>3, <2>5, <3>1
    <3>2. CASE k \in 0..m
      <4>1. (k + 1)..m \subseteq (k + 1)..(m + 1) /\ m + 1 \in (k + 1)..(m + 1)
        BY <3>2
      <4>2. QED
        BY <2>2, <2>3, <2>5, <3>2, <4>1
    <3>3. QED
      BY <3>1, <3>2
  <2>6. QED
    BY <2>4, <2>5
<1>4. Closest(Len(dir))
  <2>1. Nat \subseteq S
    <3> HIDE DEF S
    <3> QED BY <1>2, <1>3, Induction
  <2>2. QED
    BY <2>1
<1>5. QED
  BY <1>1, <1>4 DEF here

\* A project is above a directory if it is registered for a beginning of it.
LEMMA AboveIsPrefix ==
    ASSUME NEW dir, IsDir(dir), NEW p, IsDir(p.root)
    PROVE  /\ IsPrefix(p.root, dir) <=> Len(p.root) \in 0..Len(dir) /\ p.root = Above(dir, Len(p.root))
           /\ \A n \in 0..Len(dir) : p.root = Above(dir, n) => Len(p.root) = n
<1>1. SubSeq(p.root, 1, Len(p.root)) = p.root
  <2>1. SubSeq(p.root, 1, Len(p.root)) = [i \in 1..Len(p.root) |-> p.root[i]]
    BY DEF IsDir
  <2>2. QED
    BY <2>1 DEF IsDir
<1>2. Len(p.root) \in Nat /\ Len(dir) \in Nat
  BY DEF IsDir
<1>3. ASSUME NEW n \in 0..Len(dir), p.root = Above(dir, n)
      PROVE  Len(p.root) = n
  <2> DEFINE S == {dir[i] : i \in 1..Len(dir)}
  <2>1. n \in Int /\ 1 \in Int /\ \A i \in 1..n : dir[i] \in S
    BY <1>2
  <2> HIDE DEF S
  <2>2. Len(SubSeq(dir, 1, n)) = IF 1 <= n THEN n - 1 + 1 ELSE 0
    BY <2>1, SubSeqProperties
  <2>3. QED
    BY <1>2, <1>3, <2>2 DEF Above
<1>4. QED
  BY <1>1, <1>2, <1>3 DEF IsPrefix, Above

\* A directory is routed to the deepest project above it, or home.
LEMMA RoutesLead ==
    ASSUME IInv, RoutesOK, NEW dir, IsDir(dir), NEW above,
           above = {p \in projects : IsPrefix(p.root, dir)}
    PROVE  /\ above = {} => Route(dir) = HomeFile
           /\ \A p \in above : (\A q \in above : Len(q.root) <= Len(p.root))
                 => Route(dir) = p.file /\ Owner(dir) # {}
<1> USE DEF At
<1>1. Len(dir) \in Nat /\ \A p \in projects : IsDir(p.root)
  BY DEF IsDir, RoutesOK, Sound
<1>2. ASSUME NEW p \in projects
      PROVE  /\ p \in above <=> Len(p.root) \in 0..Len(dir) /\ p.root = Above(dir, Len(p.root))
             /\ \A n \in 0..Len(dir) : p.root = Above(dir, n) => Len(p.root) = n
  BY <1>1, AboveIsPrefix
<1>3. CASE above = {}
  <2>1. \A n \in 0..Len(dir) : At(Above(dir, n)) = {}
    BY <1>2, <1>3
  <2>2. Owner(dir) = {}
    BY <1>1, <2>1, OwnerIsClosest
  <2>3. QED
    BY <1>3, <2>2 DEF Route
<1>4. ASSUME NEW p \in above, \A q \in above : Len(q.root) <= Len(p.root)
      PROVE  Route(dir) = p.file /\ Owner(dir) # {}
  <2>1. p \in projects /\ Len(p.root) \in 0..Len(dir) /\ p \in At(Above(dir, Len(p.root)))
    BY <1>2
  <2>2. \A n \in (Len(p.root) + 1)..Len(dir) : At(Above(dir, n)) = {}
    <3>1. SUFFICES ASSUME NEW n \in (Len(p.root) + 1)..Len(dir), NEW q \in At(Above(dir, n))
                   PROVE  FALSE
      OBVIOUS
    <3>2. q \in projects /\ n \in 0..Len(dir) /\ q.root = Above(dir, n)
      BY <2>1, <3>1
    <3>3. Len(q.root) = n /\ q \in above
      BY <1>2, <3>2
    <3>4. QED
      BY <1>4, <2>1, <3>1, <3>3
  <2>3. Owner(dir) = At(Above(dir, Len(p.root)))
    BY <1>1, <2>1, <2>2, OwnerIsClosest
  <2>4. \A q \in Owner(dir) : q = p
    BY <2>1, <2>3 DEF IInv, ProjectsApart, Alike
  <2>5. QED
    BY <2>1, <2>3, <2>4 DEF Route
<1>5. QED
  BY <1>3, <1>4
-----------------------------------------------------------------------------
(* The graphs of the machine *)

\* The list of graphs grows by one member after another.
LEMMA LocalRecursion ==
    ASSUME NEW order, Len(order) \in Nat
    PROVE  \E local : /\ LocalGraphs(order) = local[Len(order) + 1]
                      /\ local[0] = <<>>
                      /\ \A n \in 1..(Len(order) + 1) :
                            local[n] = AddMember(Listed(order), local[n - 1], n)
<1> DEFINE size == Len(order) + 1
           Add(out, n) == AddMember(Listed(order), out, n)
           Local(h, k) == h = [n \in 0..k |-> IF n = 0 THEN <<>> ELSE Add(h[n - 1], n)]
           S == {k \in Nat : \E h : Local(h, k)}
<1> HIDE DEF Add
<1>1. 0 \in S
  <2>1. Local([n \in 0..0 |-> <<>>], 0)
    OBVIOUS
  <2>2. QED
    BY <2>1
<1>2. ASSUME NEW k \in Nat, k \in S
      PROVE  k + 1 \in S
  <2>1. PICK h : Local(h, k)
    BY <1>2
  <2> DEFINE top == Add(h[k], k + 1)
             next == [n \in 0..(k + 1) |-> IF n = k + 1 THEN top ELSE h[n]]
             step == [n \in 0..(k + 1) |-> IF n = 0 THEN <<>> ELSE Add(next[n - 1], n)]
  <2>2. ASSUME NEW n \in 0..(k + 1)
        PROVE  next[n] = step[n]
    <3>1. CASE n = k + 1
      BY <3>1
    <3>2. CASE n = 0
      BY <2>1, <3>2
    <3>3. CASE n \in 1..k
      <4>1. n - 1 \in 0..k
        BY <3>3
      <4>2. next[n] = h[n] /\ next[n - 1] = h[n - 1]
        BY <3>3, <4>1
      <4>3. QED
        BY <2>1, <3>3, <4>2
    <3>4. QED
      BY <3>1, <3>2, <3>3
  <2>3. next = step
    BY <2>2
  <2>4. Local(next, k + 1)
    BY <2>3
  <2> HIDE DEF Local, next
  <2>5. QED
    BY <2>4
<1>3. size \in S
  <2> HIDE DEF S
  <2> QED BY <1>1, <1>2, Induction
<1> DEFINE out == CHOOSE h : Local(h, size)
<1>4. Local(out, size)
  <2> HIDE DEF Local
  <2> QED BY <1>3
<1>5. LocalGraphs(order) = out[size]
  BY DEF LocalGraphs, Add
<1> HIDE DEF out
<1>6. \A n \in 0..size : out[n] = IF n = 0 THEN <<>> ELSE Add(out[n - 1], n)
  BY <1>4
<1>7. QED
  BY <1>5, <1>6 DEF Add

\* Intervals that are equal end alike.
LEMMA SameEnd ==
    ASSUME NEW a \in Nat, NEW b \in Nat, 1..a = 1..b
    PROVE  a = b
<1>1. CASE a < b
  BY <1>1, b \in 1..b
<1>2. CASE b < a
  BY <1>2, a \in 1..a
<1>3. QED
  BY <1>1, <1>2

\* A name made longer by what it belongs to.
Longer(m) == m.graph \o <<m.root, m.path>>

\* A longer name of a member is longer, and ends in its path.
LEMMA NamesGrow ==
    ASSUME NEW m, IsSlug(m.graph)
    PROVE  /\ Len(m.graph) \in 1..2
           /\ Len(Longer(m)) = Len(m.graph) + 2
           /\ Longer(m)[Len(m.graph) + 2] = m.path
<1> DEFINE S == {m.graph[i] : i \in DOMAIN m.graph} \cup {m.root, m.path}
<1>1. m.graph \in Seq(S) /\ Len(m.graph) \in 1..2
  <2>1. PICK n \in {1, 2} : DOMAIN m.graph = 1..n
    BY DEF IsSlug
  <2>2. m.graph \in [1..n -> S]
    BY <2>1 DEF IsSlug
  <2> HIDE DEF S
  <2>3. m.graph \in Seq(S)
    BY <2>2, SeqDef
  <2>4. DOMAIN m.graph = 1..Len(m.graph) /\ Len(m.graph) \in Nat
    BY <2>3, LenProperties
  <2>5. QED
    <3>1. n \in Nat /\ n \in 1..2
      BY <2>1
    <3>2. Len(m.graph) = n
      BY ONLY <2>1, <2>4, <3>1, SameEnd
    <3>3. QED
      BY <2>3, <3>1, <3>2
<1>2. <<m.root, m.path>> \in Seq(S) /\ Len(<<m.root, m.path>>) = 2
  OBVIOUS
<1> HIDE DEF S
<1>3. QED
  BY <1>1, <1>2, ConcatProperties DEF Longer

\* What holds of the list after the first k members.
Names(members, out, k) ==
    /\ DOMAIN out = 1..Len(out) /\ Len(out) \in Nat
    /\ \A i \in DOMAIN out : \E m \in 1..k :
          /\ out[i].path = members[m].path
          /\ out[i].graph \in {members[m].graph, Longer(members[m])}
    /\ \A i, j \in DOMAIN out : i # j => out[i].graph # out[j].graph /\ out[i].path # out[j].path
    /\ \A m \in 1..k : \E i \in DOMAIN out : out[i].path = members[m].path

\* One more member: names stay apart.
LEMMA NamesStep ==
    ASSUME NEW members, NEW k \in Nat, NEW size \in Nat, k + 1 <= size,
           \A m \in 1..size : IsSlug(members[m].graph),
           NEW out, Names(members, out, k),
           NEW next, next = AddMember(members, out, k + 1)
    PROVE  Names(members, next, k + 1)
<1> DEFINE new == members[k + 1]
           taken == \E j \in DOMAIN out : out[j].graph = new.graph
           name == IF taken THEN Longer(new) ELSE new.graph
           entry == [graph |-> name, path |-> new.path]
<1>1. CASE ~Fresh(members, out, k + 1)
  <2>1. next = out
    BY <1>1 DEF AddMember
  <2>2. \E i \in DOMAIN out : out[i].path = new.path
    BY <1>1 DEF Fresh
  <2> HIDE DEF new
  <2>3. /\ DOMAIN out = 1..Len(out) /\ Len(out) \in Nat
        /\ \A i, j \in DOMAIN out : i # j => out[i].graph # out[j].graph /\ out[i].path # out[j].path
    BY DEF Names
  <2>4. ASSUME NEW i \in DOMAIN out
        PROVE  \E m \in 1..(k + 1) : /\ out[i].path = members[m].path
                                     /\ out[i].graph \in {members[m].graph, Longer(members[m])}
    BY 1..k \subseteq 1..(k + 1) DEF Names
  <2>5. ASSUME NEW m \in 1..(k + 1)
        PROVE  \E i \in DOMAIN out : out[i].path = members[m].path
    <3>1. CASE m = k + 1
      BY <2>2, <3>1 DEF new
    <3>2. CASE m \in 1..k
      BY <3>2 DEF Names
    <3>3. QED
      BY <3>1, <3>2
  <2>6. Names(members, out, k + 1)
    BY <2>3, <2>4, <2>5 DEF Names
  <2>7. QED
    BY <2>1, <2>6
<1>2. CASE Fresh(members, out, k + 1)
  <2>1. next = Append(out, entry)
    BY <1>2 DEF AddMember, Longer
  <2>2. \A j \in DOMAIN out : out[j].path # new.path
    BY <1>2 DEF Fresh
  <2>3. \A j \in DOMAIN out : out[j].graph # name
    <3>1. SUFFICES ASSUME NEW j \in DOMAIN out, out[j].graph = name
                   PROVE  FALSE
      OBVIOUS
    <3>2. taken /\ name = Longer(new)
      BY <3>1
    <3>3. PICK m \in 1..k : /\ out[j].path = members[m].path
                            /\ out[j].graph \in {members[m].graph, Longer(members[m])}
      BY <3>1 DEF Names
    <3>4. /\ Len(members[m].graph) \in 1..2
          /\ Len(Longer(members[m])) = Len(members[m].graph) + 2
          /\ Longer(members[m])[Len(members[m].graph) + 2] = members[m].path
      BY NamesGrow, m \in 1..size
    <3>5. /\ Len(new.graph) \in 1..2
          /\ Len(Longer(new)) = Len(new.graph) + 2
          /\ Longer(new)[Len(new.graph) + 2] = new.path
      BY NamesGrow, k + 1 \in 1..size
    <3>6. out[j].graph = Longer(members[m])
      <4> HIDE DEF name, taken, new
      <4>1. Len(out[j].graph) = Len(new.graph) + 2
        BY <3>1, <3>2, <3>5
      <4>2. Len(out[j].graph) # Len(members[m].graph)
        <5>1. \A a, b \in 1..2 : a + 2 # b
          OBVIOUS
        <5>2. QED
          BY ONLY <3>4, <3>5, <4>1, <5>1
      <4>3. QED
        BY <3>3, <4>2
    <3>7. Len(members[m].graph) = Len(new.graph)
      BY <3>1, <3>2, <3>4, <3>5, <3>6
    <3>8. members[m].path = new.path
      BY <3>1, <3>2, <3>4, <3>5, <3>6, <3>7
    <3>9. QED
      BY <2>2, <3>3, <3>8
  <2>4. name \in {new.graph, Longer(new)}
    OBVIOUS
  <2> HIDE DEF name, taken, new
  <2>5. /\ DOMAIN next = 1..Len(next) /\ Len(next) = Len(out) + 1
        /\ DOMAIN out = 1..Len(out) /\ Len(out) \in Nat
        /\ \A i \in DOMAIN out : next[i] = out[i]
        /\ next[Len(out) + 1].graph = name /\ next[Len(out) + 1].path = new.path
    BY <2>1 DEF Names
  <2>6. DOMAIN next = DOMAIN out \cup {Len(out) + 1} /\ Len(out) + 1 \notin DOMAIN out
    <3>1. \A n \in Nat : 1..(n + 1) = 1..n \cup {n + 1} /\ n + 1 \notin 1..n
      OBVIOUS
    <3>2. QED
      BY ONLY <2>5, <3>1
  <2>7. ASSUME NEW i \in DOMAIN next
        PROVE  \E m \in 1..(k + 1) : /\ next[i].path = members[m].path
                                     /\ next[i].graph \in {members[m].graph, Longer(members[m])}
    <3>1. CASE i = Len(out) + 1
      <4>1. k + 1 \in 1..(k + 1) /\ next[i].path = members[k + 1].path
            /\ next[i].graph \in {members[k + 1].graph, Longer(members[k + 1])}
        BY <2>4, <2>5, <3>1 DEF new
      <4>2. QED
        BY <4>1
    <3>2. CASE i \in DOMAIN out
      <4>1. next[i] = out[i]
        BY <2>5, <3>2
      <4>2. PICK m \in 1..k : /\ out[i].path = members[m].path
                              /\ out[i].graph \in {members[m].graph, Longer(members[m])}
        BY <3>2 DEF Names
      <4>3. m \in 1..(k + 1)
        OBVIOUS
      <4>4. QED
        BY <4>1, <4>2, <4>3
    <3>3. QED
      BY <2>6, <3>1, <3>2
  <2>8. ASSUME NEW i \in DOMAIN next, NEW j \in DOMAIN next, i # j
        PROVE  next[i].graph # next[j].graph /\ next[i].path # next[j].path
    <3>1. CASE i \in DOMAIN out /\ j \in DOMAIN out
      <4>1. next[i] = out[i] /\ next[j] = out[j]
        BY <2>5, <3>1
      <4>2. QED
        BY <2>8, <3>1, <4>1 DEF Names
    <3>2. CASE i \in DOMAIN out /\ j = Len(out) + 1
      BY <2>2, <2>3, <2>5, <3>2
    <3>3. CASE i = Len(out) + 1 /\ j \in DOMAIN out
      BY <2>2, <2>3, <2>5, <3>3
    <3>4. QED
      BY <2>6, <2>8, <3>1, <3>2, <3>3
  <2>9. ASSUME NEW m \in 1..(k + 1)
        PROVE  \E i \in DOMAIN next : next[i].path = members[m].path
    <3>1. CASE m = k + 1
      BY <2>5, <2>6, <3>1 DEF new
    <3>2. CASE m \in 1..k
      <4>1. PICK i \in DOMAIN out : out[i].path = members[m].path
        BY <3>2 DEF Names
      <4>2. QED
        BY <2>5, <2>6, <4>1
    <3>3. QED
      BY <3>1, <3>2
  <2>10. DOMAIN next = 1..Len(next) /\ Len(next) \in Nat
    BY <2>5
  <2>11. QED
    BY <2>7, <2>8, <2>9, <2>10 DEF Names
<1>3. QED
  BY <1>1, <1>2

\* The list of graphs names each one apart, and leaves no project out.
LEMMA GraphsListed ==
    ASSUME NEW order, Len(order) \in Nat, \A i \in 1..Len(order) : IsSlug(order[i].slug),
           NEW graphs, graphs = LocalGraphs(order)
    PROVE  /\ \A i, j \in DOMAIN graphs : i # j =>
                 graphs[i].graph # graphs[j].graph /\ graphs[i].path # graphs[j].path
           /\ \A m \in 1..Len(order) : \E i \in DOMAIN graphs : graphs[i].path = order[m].file
<1> DEFINE members == Listed(order)
           size == Len(order) + 1
<1>1. PICK local : /\ graphs = local[size]
                   /\ local[0] = <<>>
                   /\ \A n \in 1..size : local[n] = AddMember(members, local[n - 1], n)
  BY LocalRecursion
<1>2. /\ \A m \in 1..size : IsSlug(members[m].graph)
      /\ \A m \in 1..Len(order) : members[m + 1].path = order[m].file
  <2>1. IsSlug(<<"home">>)
    BY DEF IsSlug
  <2>2. ASSUME NEW m \in 1..size, m # 1
        PROVE  members[m].graph = order[m - 1].slug /\ m - 1 \in 1..Len(order)
    BY <2>2 DEF Listed
  <2>3. members[1].graph = <<"home">>
    BY DEF Listed
  <2>4. \A m \in 1..Len(order) : members[m + 1].path = order[m].file
    BY DEF Listed
  <2> HIDE DEF members
  <2>5. QED
    BY <2>1, <2>2, <2>3, <2>4
<1> HIDE DEF members
<1> DEFINE S == {k \in Nat : k <= size => Names(members, local[k], k)}
<1>3. 0 \in S
  BY <1>1 DEF Names
<1>4. ASSUME NEW k \in Nat, k \in S
      PROVE  k + 1 \in S
  <2>1. SUFFICES ASSUME k + 1 <= size
                 PROVE  Names(members, local[k + 1], k + 1)
    OBVIOUS
  <2>2. Names(members, local[k], k) /\ local[k + 1] = AddMember(members, local[k], k + 1)
    BY <1>1, <1>4, <2>1
  <2>3. size \in Nat
    OBVIOUS
  <2> HIDE DEF size, S
  <2>4. QED
    BY <1>2, <2>1, <2>2, <2>3, NamesStep
<1>5. Names(members, graphs, size)
  <2>1. Nat \subseteq S
    <3> HIDE DEF S
    <3> QED BY <1>3, <1>4, Induction
  <2>2. QED
    BY <1>1, <2>1
<1>6. ASSUME NEW m \in 1..Len(order)
      PROVE  \E i \in DOMAIN graphs : graphs[i].path = order[m].file
  BY <1>2, <1>5 DEF Names
<1>7. QED
  BY <1>5, <1>6 DEF Names

\* A finite set is some sequence.
LEMMA SetInOrder ==
    ASSUME NEW T, IsFiniteSet(T)
    PROVE  /\ Len(SetToSeq(T)) \in Nat
           /\ DOMAIN SetToSeq(T) = 1..Len(SetToSeq(T))
           /\ \A i \in 1..Len(SetToSeq(T)) : SetToSeq(T)[i] \in T
           /\ \A t \in T : \E i \in 1..Len(SetToSeq(T)) : SetToSeq(T)[i] = t
<1> DEFINE n == Cardinality(T)
           f == SetToSeq(T)
<1>1. n \in Nat /\ ExistsBijection(1..n, T)
  BY FS_CardinalityType
<1>2. \E g \in [1..n -> T] : IsInjective(g)
  BY <1>1 DEF ExistsBijection, Bijection, Injection
<1>3. f \in [1..n -> T] /\ IsInjective(f)
  BY <1>2 DEF SetToSeq
<1>4. f \in Injection(1..n, T)
  BY <1>3 DEF Injection
<1>5. Cardinality(1..n) = n
  BY <1>1, FS_Interval
<1> HIDE DEF f, n
<1>6. f \in Surjection(1..n, T)
  BY <1>4, <1>5, FS_Injection DEF n
<1>7. f \in Seq(T)
  BY <1>1, <1>3, SeqDef
<1>8. Len(f) = n
  BY <1>1, <1>3, <1>7, LenProperties
<1>9. QED
  BY <1>1, <1>3, <1>6, <1>8 DEF Surjection, f

\* A directory belongs to the project that is closest above it, a read from it
\* stays in that project's graph, and one from outside every project reaches
\* each graph of the machine once, under a name of its own (whereProject(),
\* localGraphPaths()).
THEOREM RegistryRoutes == Spec => []RoutesAreRight
<1>1. IInv /\ RoutesOK => RoutesAreRight
  <2>1. SUFFICES ASSUME IInv, RoutesOK
                 PROVE  RoutesAreRight
    OBVIOUS
  <2>2. ASSUME NEW root \in Roots, NEW dir \in {root, Append(root, "sub")}
        PROVE  IsDir(dir)
    <3>1. IsDir(root)
      BY RoutesAssumption
    <3>2. IsDir(Append(root, "sub"))
      <4> DEFINE S == {root[i] : i \in DOMAIN root} \cup {"sub"}
      <4>1. root \in Seq(S) /\ "sub" \in S
        <5>1. root \in [1..Len(root) -> S] /\ Len(root) \in Nat
          BY <3>1 DEF IsDir
        <5> HIDE DEF S
        <5>2. QED
          BY <5>1, SeqDef DEF S
      <4> HIDE DEF S
      <4>2. Append(root, "sub") \in Seq(S)
        BY <4>1, AppendProperties
      <4>3. QED
        BY <4>2, LenProperties DEF IsDir
    <3>3. QED
      BY <3>1, <3>2, <2>2
  <2>3. ASSUME NEW root \in Roots, NEW dir \in {root, Append(root, "sub")}, NEW above,
               above = {p \in projects : IsPrefix(p.root, dir)}
        PROVE  /\ above = {} => Route(dir) = HomeFile
               /\ \A p \in above : (\A q \in above : Len(q.root) <= Len(p.root))
                     => Route(dir) = p.file /\ GraphsRead(dir) = {p.file}
    <3>1. /\ above = {} => Route(dir) = HomeFile
          /\ \A p \in above : (\A q \in above : Len(q.root) <= Len(p.root))
                => Route(dir) = p.file /\ Owner(dir) # {}
      BY <2>1, <2>2, <2>3, RoutesLead
    <3>2. QED
      BY <3>1 DEF GraphsRead
  <2> DEFINE order == SetToSeq(projects)
             graphs == LocalGraphs(order)
  <2>4. /\ Len(order) \in Nat
        /\ \A i \in 1..Len(order) : order[i] \in projects
        /\ \A p \in projects : \E i \in 1..Len(order) : order[i] = p
    BY <2>1, SetInOrder DEF RoutesOK
  <2>5. \A i \in 1..Len(order) : IsSlug(order[i].slug)
    BY <2>1, <2>4 DEF RoutesOK, Sound
  <2> HIDE DEF order
  <2>6. /\ \A i, j \in DOMAIN graphs : i # j =>
              graphs[i].graph # graphs[j].graph /\ graphs[i].path # graphs[j].path
        /\ \A m \in 1..Len(order) : \E i \in DOMAIN graphs : graphs[i].path = order[m].file
    BY <2>4, <2>5, GraphsListed
  <2> HIDE DEF graphs
  <2>7. {p.file : p \in projects} \subseteq {graphs[i].path : i \in DOMAIN graphs}
    BY <2>4, <2>6
  <2>8. \A root \in Roots : \A dir \in {root, Append(root, "sub")} :
          LET above == {p \in projects : IsPrefix(p.root, dir)}
          IN  /\ above = {} => Route(dir) = HomeFile
              /\ \A p \in above :
                    (\A q \in above : Len(q.root) <= Len(p.root))
                        => Route(dir) = p.file /\ GraphsRead(dir) = {p.file}
    BY <2>3
  <2>9. QED
    BY <2>6, <2>7, <2>8, Zenon DEF RoutesAreRight, graphs, order
<1>2. QED
  BY <1>1, RoutesInvariant, PTL
=============================================================================
