SPECIFICATION Spec
CONSTANTS
    r1 = r1  r2 = r2  r3 = r3  r4 = r4  s1 = s1  s2 = s2  s3 = s3  h1 = h1  h2 = h2
    Requests = {r1, r2, r3, r4}
    Spans = {s1, s2, s3}
    Handlers = {h1, h2}
    NoTtft = NoTtft
    Own = Own
    Log <- MCLog
    Trace <- MCTrace
    Window = 1
    MaxCopies = 1
    MaxExpired = 1
SYMMETRY MCSymmetry
INVARIANTS SpanFillsOneRow AnsweredSpanKept
PROPERTY FilledStays
CHECK_DEADLOCK FALSE
