CONSTANTS
    Graphs <- MCGraphs
    Cells <- MCCells
    Filings <- MCFilings
    Unions <- MCUnions
    References <- MCReferences
    Limits = {1, 2, 3}
    Tables <- MCTables
    Filters <- MCFilters
    Indexes <- MCIndexes
    Memories <- MCMemories
    Requests <- MCRequests
    Beliefs <- MCBeliefs
    Lines <- MCLines
    Netlists <- MCNetlists
    Loaded <- MCLoaded
    Specs <- MCSpecs
    Rounds <- MCRounds
    Today <- MCToday
    ACTIVE_CAP = 2
    ANALYZED_POOL_CAP = 3
SPECIFICATION Spec
INVARIANTS
    OverlaysAreRight
    CyclesAreRefused
    UnionsReadAsOne
    SelectionsAgree
    LookupsMissNothing
    PressureIsReported
    PacketsTellAll
    ScoresHold
    NetlistsHold
    ProgramsRemember
CHECK_DEADLOCK FALSE
