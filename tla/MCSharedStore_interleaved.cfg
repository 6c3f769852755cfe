CONSTANTS
    k1 = k1  k2 = k2  k3 = k3  w = w  x = x  y = y  z = z  bundle = bundle  NoKey = NoKey
    Procs = {p, q}
    Keys = {k1, k2, k3}
    Contents = {w, x, y, z}
    TitleOf <- MCTitleOf
    Bundles = {bundle}
    Proposals <- MCProposals
    Calls = {"admit", "touch", "tick"}
    Overlap = {"admit", "touch", "tick"}
    MaxOps = 3
    MaxCrashes = 1
SPECIFICATION Spec
INVARIANTS
    EdgesAnchored
    RetiredForNewer
PROPERTY NothingLost
CHECK_DEADLOCK FALSE
