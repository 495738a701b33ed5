SPECIFICATION FairSpec
CONSTANTS
    Jobs = {j1, j2}
    None = None
    MaxRestarts = 1
INVARIANTS UsersHaveTheirFile ImportExcludesMigration ImportedWasInspected
PROPERTIES SlotIsFreed OrphansAreRemoved
CHECK_DEADLOCK FALSE
