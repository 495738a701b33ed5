SPECIFICATION Spec
CONSTANTS
    claude = claude  codex = codex
    o1 = o1  o2 = o2  a1 = a1  n1 = n1  n2 = n2
    p1 = p1  p2 = p2  p3 = p3  Nobody = Nobody
    Procs = {p1, p2, p3}
    Old = {o1, o2}  Archive = {a1}  New = {n1, n2}
    LastDay = 2
    DayOf <- MCDayOf
    Clients = {claude, codex}
    Default = claude
    Codex = codex
    ClientOf <- MCClientOf
    Dates = {"20250805"}  Tags = {"beta"}
    ClaudeWord = "claude"
    Names <- MCNames
    Alphabet <- MCAlphabet
    Overrides <- MCOverrides
    Seed <- MCSeed
    Edits <- MCEdits
    w1 = w1  w2 = w2  s1 = s1  s2 = s2
    Editors = {w1, w2}
    MissLimit = 1
    Shells = {s1, s2}
    Budgets <- MCBudgets
INVARIANTS TypeOK  PricesAreCurrent ShownIsApplied  
SYMMETRY Symmetry
CHECK_DEADLOCK FALSE
