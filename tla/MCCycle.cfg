CONSTANTS
    cell = cell  witnesser = witnesser  broken = broken  Nobody = Nobody
    Passers = {s, t}
    Sources = {cell}
    Progs = {witnesser, broken}
    Script <- MCScript
    Topics <- MCTopics
    Levels = {4, 14}
    MaxPasses = 2
    MaxEvents = 1
    MaxBreaks = 1
    MaxFresh = 2
SPECIFICATION Spec
INVARIANTS
    WitnessHasRun
    TripsWitnessed
    OneWitness
PROPERTIES
    RetiredStays
    PassesDeliver
CHECK_DEADLOCK FALSE
