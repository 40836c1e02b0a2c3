--------------------------- MODULE MCLedgerTamper ---------------------------
(* Model-checking instance of LedgerTamper: one tenant, one caller.        *)
EXTENDS LedgerTamper, TLC

CONSTANTS t1, w1

MCWriterTenant == (w1 :> t1)
=============================================================================
