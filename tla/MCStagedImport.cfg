SPECIFICATION Spec
CONSTANTS
    k = k  x = x  y = y  r = r
    Identities = {k, x, y, r}
    Keyed = {k}
    Prunable = {r}
    Source <- MCSource
    Bytes <- MCBytes
    BatchBytes = 4
    BatchRows = 3
    MaxBusy = 2
    MaxLive = 3
    MaxRuns = 3
INVARIANTS AggMatchesTarget   
 
CHECK_DEADLOCK FALSE
