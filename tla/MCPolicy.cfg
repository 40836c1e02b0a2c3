CONSTANTS
    NaN = NaN
    NotTool = NotTool
    NoRole = NoRole
    Tiers <- MCTiers
    Budgets <- MCBudgets
    Rules <- default_rules
SPECIFICATION Spec
INVARIANTS CriticalNeverAllowed ExhaustedBudgetDenies
