---------------------------- MODULE LedgerTamper ----------------------------
(***************************************************************************)
(* The ledger of module Ledger, plus an attacker with write access to the  *)
(* backing store (the threat the hash chain exists for, spec section 1).   *)
(* The attacker may rewrite the input digest (a hashed field) of a block   *)
(* that has a successor; the stronger attacker of TSpecAny may also edit   *)
(* any block's action kind (a field the canonical string leaves out) or    *)
(* drop the newest block.  The storage API itself has no such operation.   *)
(***************************************************************************)
EXTENDS Ledger

CONSTANT MaxTampers   \* bound on attacker steps

ASSUME TamperAssumption == MaxTampers \in Nat

VARIABLE tampers      \* attacker steps taken so far

tvars == <<vars, tampers>>

TInit == Init /\ tampers = 0

(* Attacker step: change the store under tenant t, leaving the rest of the *)
(* system alone.                                                          *)
Tamper(t, bs) ==
    /\ tampers < MaxTampers
    /\ store' = [store EXCEPT ![t] = bs]
    /\ tampers' = tampers + 1
    /\ UNCHANGED <<pending, nextId, report, written, reply>>

(* Rewrite the input digest of a block that already has a successor.  (An *)
(* edit of the newest block is sealed into the chain by the next honest    *)
(* append, which hashes the edited head, and can never be detected.)       *)
TamperInput(t) ==
    \E i \in 1..Len(store[t]) - 1, p \in Payloads :
        /\ store[t][i].input_hash # hash_value(p)
        /\ Tamper(t, [store[t] EXCEPT ![i].input_hash = hash_value(p)])

TamperAction(t) ==
    \E i \in 1..Len(store[t]), a \in Actions :
        /\ store[t][i].action # a
        /\ Tamper(t, [store[t] EXCEPT ![i].action = a])

Truncate(t) ==
    /\ store[t] # << >>
    /\ Tamper(t, SubSeq(store[t], 1, Len(store[t]) - 1))

(* Attacker limited to edits of hashed fields of sealed blocks.           *)
TNext ==
    \/ Next /\ UNCHANGED tampers
    \/ \E t \in Tenants : TamperInput(t)

TSpec == TInit /\ [][TNext]_tvars

(* Attacker that may also edit unhashed fields and truncate.               *)
TNextAny ==
    \/ TNext
    \/ \E t \in Tenants : TamperAction(t) \/ Truncate(t)

TSpecAny == TInit /\ [][TNextAny]_tvars

-----------------------------------------------------------------------------
TTypeOK == TypeOK /\ tampers \in 0..MaxTampers

(* The first block of bs whose link is broken.                             *)
FirstBroken(bs) ==
    CHOOSE i \in 1..Len(bs) :
        /\ bs[i].parent_hash # ExpectedParent(bs, i)
        /\ \A j \in 1..i - 1 : bs[j].parent_hash = ExpectedParent(bs, j)

(* What verify_tenant must answer for bs, from the reference definition.   *)
ReferenceReport(bs) ==
    IF IsChain(bs)
    THEN [status |-> "ok", blocks_verified |-> Len(bs), block_id |-> 0]
    ELSE [status |-> "violation", blocks_verified |-> 0,
          block_id |-> bs[FirstBroken(bs)].id]

(* An audit step of tenant t has just produced a new report.               *)
Audited(t) == report'[t] # report[t]

(* verify_tenant agrees with the reference: Ok with the block count        *)
(* exactly when the stored blocks form an intact chain, otherwise the      *)
(* violation names the first block whose parent link is broken.            *)
VerifyAgreesWithReference ==
    [][\A t \in Tenants : Audited(t) => report'[t] = ReferenceReport(store[t])]_tvars

(* Every hashed field of every block but the newest is as appended.       *)
SealedAsWritten(s, w) ==
    \A i \in 1..Len(s) - 1 :
        /\ s[i].id = w[i].id
        /\ s[i].sequence_number = w[i].sequence_number
        /\ s[i].input_hash = w[i].input_hash
        /\ s[i].output_hash = w[i].output_hash
        /\ s[i].parent_hash = w[i].parent_hash

(* Tamper evidence as the hash chain provides it: when verify_tenant      *)
(* reports Ok, no hashed field of a block with a successor was altered.    *)
OkProvesSealedBlocks ==
    [][\A t \in Tenants :
          Audited(t) /\ report'[t].status = "ok"
            => SealedAsWritten(store[t], written[t])]_tvars

(* Spec section 1: a stored sequence can be proved unaltered since it was  *)
(* written: an Ok audit means the blocks are exactly the ones appended.    *)
TamperEvident ==
    [][\A t \in Tenants :
          Audited(t) /\ report'[t].status = "ok" => store[t] = written[t]]_tvars
=============================================================================
