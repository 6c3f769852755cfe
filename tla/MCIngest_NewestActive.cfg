CONSTANTS
    r1 = r1
    r2 = r2
    agent = agent
    Refs = {r1, r2}
    Texts = {"a", "b"}
    Refusable = {}
    Initial = {"", "a"}
    Bundles = {{r1, r2}}
    Own = agent
    Old <- MCOld
    OldBundles <- MCOldBundles
    MaxEdits = 3
    MaxRuns = 3
    MaxKills = 0
SPECIFICATION Spec
SYMMETRY MCSymmetry
INVARIANT NewestActive
CHECK_DEADLOCK FALSE
