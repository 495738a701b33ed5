SPECIFICATION Spec
CONSTANTS
    Records <- MCRecords
    Trace <- MCTrace
    NoRecord = none
    SpanAge = 10
    TrackAge = 30
    TurnWindow = 60
    StashPerKey = 1
    Exports <- MCExports
    Scenarios <- MCScenarios
    Handlers = {h1, h2}
    Nobody = nobody
    MaxFaults = 1
SYMMETRY Symmetry
INVARIANTS AnsweredIsStored NothingTwice StepTimingIsItsOwn TurnFillsOneRow
CHECK_DEADLOCK FALSE
