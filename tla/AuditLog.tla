------------------------------ MODULE AuditLog ------------------------------
(***************************************************************************)
(* What the ledger storage promises, stated without blocks, hashes or      *)
(* locks (spec sections 1 and 4.4): each tenant has an append-only         *)
(* history.  A write adds one entry, owned by that tenant, at the end of   *)
(* its history.  Nothing is ever changed, reordered, deduplicated or       *)
(* removed, and no other tenant's history moves.  Module Ledger            *)
(* implements this specification with its store as the history.           *)
(***************************************************************************)
EXTENDS Sequences

CONSTANT Tenants

VARIABLE log   \* tenant -> the entries written for it, oldest first

Init == log = [t \in Tenants |-> << >>]

(* Tenant t's history grows by one entry of tenant t at its end.          *)
Write(t) ==
    LET new == log'[t]
    IN  /\ new # << >>
        /\ new[Len(new)].tenant_id = t
        /\ log' = [log EXCEPT ![t] = Append(@, new[Len(new)])]

Next == \E t \in Tenants : Write(t)

Spec == Init /\ [][Next]_log
=============================================================================
