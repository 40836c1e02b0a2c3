------------------------------ MODULE MCHistory ------------------------------
(* Model-checking instance of History.                                     *)
EXTENDS History, TLC

CONSTANTS s1, s2
=============================================================================
