CONSTANTS
    k1 = k1  k2 = k2  k3 = k3  h1 = h1  h2 = h2
    note = note  prog = prog  b1 = b1  b2 = b2  NoKey = NoKey
    Keys = {k1, k2, k3}
    Handles = {h1, h2}
    HandleOf <- MCHandleOf
    Titles = {note, prog}
    ProgramTitles = {prog}
    Bodies = {b1, b2}
    Bundles = {bundle}
    Proposals <- MCProposals
    MemberLists <- MCMemberLists
SPECIFICATION Spec
INVARIANTS
    TypeOK
    RefsResolve
    EvidenceWeighed
    SupersedeTakesHold
    ReplacedOnce
PROPERTY ImplementsMemory
CHECK_DEADLOCK FALSE
