CONSTANTS
    r1 = r1
    r2 = r2
    agent = agent
    Refs = {r1, r2}
    Texts = {"a", "b", "bad"}
    Refusable = {"bad"}
    Initial = {"", "a"}
    Bundles = {{r1, r2}}
    Own = agent
    Old <- MCOld
    OldBundles <- MCOldBundles
    MaxEdits = 3
    MaxRuns = 3
    MaxKills = 1
SPECIFICATION Spec
SYMMETRY MCSymmetry
INVARIANTS OneVersion  MembersLanded MigrationKeepsRetired
CHECK_DEADLOCK FALSE
