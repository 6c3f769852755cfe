CONSTANTS
    c1 = c1  c2 = c2
    Callers = {c1, c2}
    Roots <- MCRoots
    Bases = {"app", "home", "registry"}
    ChosenFiles <- MCFiles
    LegacyTables <- MCTables
    MaxCalls = 3
    MaxKills = 1
SPECIFICATION Spec
INVARIANTS
    ProjectsApart
    MigrationKeepsAll
    RoutesAreRight
CHECK_DEADLOCK FALSE
