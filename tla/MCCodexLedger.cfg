SPECIFICATION Spec
CONSTANTS
    r1 = r1  r2 = r2  r3 = r3  c1 = c1  m1 = m1
    v1 = v1  v2 = v2  v3 = v3  h1 = h1  h2 = h2
    Requests = {r1, r2}
    Handlers = {h1, h2}
    Vectors = {v1, v2}
    NoVec = NoVec
    Conversations = {c1}
    Models = {m1}
    ModelOf <- MCModelOf
    Days = {1, 2}
    DayOf <- MCDayOf
    Trace <- MCTrace
    TrackerAge = 1
    SpanTTL = 3
    MaxSpans = 1
    PendingWindow = 3
    ReplayBefore = 3
    ReplayAfter = 0
    AnchorFirst = FALSE
    MaxCopies = 2
    MaxFaults = 1
SYMMETRY MCSymmetry
INVARIANTS AggMatchesRows TrackedRowIsItsAnchor TrackerBounded
PROPERTY FinalizedRowsKeep
CHECK_DEADLOCK FALSE
