SPECIFICATION Spec
CONSTANTS
    r1 = r1  r2 = r2  c1 = c1  m1 = m1  v1 = v1  v2 = v2  h1 = h1
    Requests = {r1, r2}
    Handlers = {h1}
    Vectors = {v1, v2}
    NoVec = NoVec
    Conversations = {c1}
    Models = {m1}
    ModelOf <- MCModelOf
    Days = {1}
    DayOf <- MCDayOf
    Trace <- MCTrace
    TrackerAge = 1
    SpanTTL = 3
    MaxSpans = 2
    PendingWindow = 3
    ReplayBefore = 3
    ReplayAfter = 0
    AnchorFirst = TRUE
    MaxCopies = 1
    MaxFaults = 0
INVARIANT CompletionChargedOnce
CHECK_DEADLOCK FALSE
