------------------------------ MODULE MCLedger ------------------------------
(* Model-checking instance of Ledger: two tenants, one caller each.        *)
EXTENDS Ledger, TLC

CONSTANTS t1, t2, w1, w2

MCWriterTenant == (w1 :> t1) @@ (w2 :> t2)

(* Two racing callers on the same tenant.                                  *)
MCRaceWriterTenant == (w1 :> t1) @@ (w2 :> t1)

=============================================================================
