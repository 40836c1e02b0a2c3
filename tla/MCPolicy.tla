------------------------------ MODULE MCPolicy ------------------------------
(* Model-checking instance of Policy: tiers 0..5 (0 and 5 are legal u8    *)
(* tiers outside BOSS..SENSOR), budgets exhausted, low, full and NaN.      *)
EXTENDS Policy, TLC

MCTiers == 0..5

MCBudgets == {0, 10, 100, NaN}
=============================================================================
