CONSTANTS
    c1 = c1
    c2 = c2
    NaN = NaN
    Callers = {c1}
    Costs = {1, 3, 4}
    Limit = 10
    MaxCalls = 12
SPECIFICATION Spec
INVARIANTS KillReportsExhaustedSpend SpendWithinOneCall
