SPECIFICATION Spec
CONSTANTS
    claude = claude  codex = codex  opus = opus  glm = glm
    r1 = r1  r2 = r2  r3 = r3
    Requests = {r1, r2, r3}
    Clients = {claude, codex}
    ClaudeCode = claude
    ClaudeModels = {opus}
    Codex = codex
    Models = {opus, glm}
    Trace <- MCTrace
    LastDay = 2
    Midnight <- MCMidnight
    Rates = {1, 2}
    Rate0 <- MCRate0
    Chunk = 1
    MaxEdits = 1
    MaxRecomputes = 1
    HourOf <- MCHourOf
    MonthOf <- MCMonthOf
    Buckets = {3}
    MaxSpan = 24
    Minute = 1
    Today = 2
    PageSize = 2
    MaxVisits = 0
INVARIANTS TypeOK   RecomputeReprices
CHECK_DEADLOCK FALSE
