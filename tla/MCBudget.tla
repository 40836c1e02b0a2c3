------------------------------ MODULE MCBudget ------------------------------
(* Model-checking instance of Budget: a limit of 10 and costs 1 and 4, so *)
(* spend lands exactly on the 75%, 90% and 100% boundaries.               *)
EXTENDS Budget, TLC

CONSTANTS c1, c2
=============================================================================
