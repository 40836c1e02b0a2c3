CONSTANTS
    s1 = s1
    s2 = s2
    Summaries = {s1, s2}
    TriggerAt = 4
    RetainAfter = 2
    MaxAdds = 8
SPECIFICATION Spec
INVARIANTS
    HTypeOK
    HistoryIsSummaryThenRecent
