CONSTANTS
    k1 = k1  k2 = k2  k3 = k3  w = w  x = x  y = y  z = z  bundle = bundle  NoKey = NoKey
    Procs = {p, q}
    Keys = {k1, k2, k3}
    Contents = {w, x, y, z}
    TitleOf <- MCTitleOf
    Bundles = {bundle}
    Proposals <- PairProposals
    Calls = {"admit", "tick"}
    Overlap = {"admit", "tick"}
    MaxOps = 3
    MaxCrashes = 0
SPECIFICATION Spec
PROPERTY TicksKeepStatus
CHECK_DEADLOCK FALSE
