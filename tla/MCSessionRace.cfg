CONSTANTS
    u1 = u1
    c1 = c1
    c2 = c2
    s1 = s1
    Colon_ = Colon_
    Colon <- Colon_
    Uuids = {u1}
    Keys <- MCOneKey
    Callers = {c1, c2}
    Summaries = {s1}
    MaxHistory = 4
    MaxTurns = 3
    Absent = Absent
    None = None
SPECIFICATION Spec
INVARIANT SessionMatchesLog
