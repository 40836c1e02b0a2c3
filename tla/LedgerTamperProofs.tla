------------------------- MODULE LedgerTamperProofs -------------------------
(***************************************************************************)
(* Proofs about module LedgerTamper: what verify_tenant tells a reader of  *)
(* a store an attacker may edit.  verify_tenant answers as the reference   *)
(* definition of an intact chain says, for any callers and any edits; and  *)
(* with one caller per tenant, an Ok answer proves that no hashed field of *)
(* a block with a successor was rewritten.  The inductive invariant        *)
(* records what the attacker of TSpec can do: the store is what was        *)
(* written except for input digests of blocks that have a successor, and   *)
(* what was written is an intact chain.                                    *)
(***************************************************************************)
EXTENDS LedgerTamper, LedgerProofs, TLAPS

(* Block a is block b with at most its input digest rewritten.            *)
SameButInput(a, b) ==
    /\ a.id = b.id
    /\ a.sequence_number = b.sequence_number
    /\ a.tenant_id = b.tenant_id
    /\ a.action = b.action
    /\ a.output_hash = b.output_hash
    /\ a.parent_hash = b.parent_hash

(* Vec s is history w with at most the input digests of blocks that have  *)
(* a successor rewritten; the newest block is intact.                      *)
Mirrors(s, w) ==
    /\ Len(s) = Len(w)
    /\ \A i \in 1..Len(s) : SameButInput(s[i], w[i])
    /\ s # << >> => s[Len(s)] = w[Len(w)]

StoreMirrorsWritten == \A t \in Tenants : Mirrors(store[t], written[t])

(* What was appended to each tenant forms an intact chain.                 *)
WrittenIntact == \A t \in Tenants : IsChain(written[t])

(* Types, for any callers.                                                 *)
TStoreTypeOK == StoreTypeOK /\ DOMAIN report = Tenants /\ tampers \in 0..MaxTampers

(* The inductive invariant with one caller per tenant.                     *)
TInv ==
    /\ TTypeOK
    /\ IdsCover
    /\ PendingExtendsHead
    /\ WrittenIntact
    /\ StoreMirrorsWritten

-----------------------------------------------------------------------------
(* The attacker's edit of block i's input digest: a Vec of Blocks of the   *)
(* same length, with block i changed in its input digest alone.            *)
LEMMA EditInput ==
    ASSUME NEW bs \in Seq(Blocks), NEW i \in 1..Len(bs), NEW p \in Payloads,
           NEW nb, nb = [bs EXCEPT ![i].input_hash = hash_value(p)]
    PROVE  /\ nb \in Seq(Blocks) /\ Len(nb) = Len(bs)
           /\ \A j \in 1..Len(bs) : j # i => nb[j] = bs[j]
           /\ nb[i].input_hash = hash_value(p)
           /\ SameButInput(nb[i], bs[i])
<1> DEFINE b1 == [bs[i] EXCEPT !.input_hash = hash_value(p)]
<1>0. bs[i] \in Blocks
  BY ElementOfSeq
<1>1. b1 \in Blocks /\ SameButInput(b1, bs[i]) /\ b1.input_hash = hash_value(p)
  BY <1>0 DEF Blocks, PayloadHashes, SameButInput
<1> HIDE DEF b1
<1>2. [bs EXCEPT ![i] = b1] \in Seq(Blocks) /\ Len([bs EXCEPT ![i] = b1]) = Len(bs)
      /\ \A j \in 1..Len(bs) : j # i => [bs EXCEPT ![i] = b1][j] = bs[j]
      /\ [bs EXCEPT ![i] = b1][i] = b1
  BY <1>1, ExceptSeq
<1>3. nb = [bs EXCEPT ![i] = b1]
  BY Zenon DEF b1
<1>. QED  BY <1>1, <1>2, <1>3

(* A Vec that mirrors a history has the history's head hash.             *)
LEMMA MirrorsHead ==
    ASSUME NEW s \in Seq(Blocks), NEW w \in Seq(Blocks), Mirrors(s, w)
    PROVE  HeadHash(s) = HeadHash(w)
<1>1. CASE s = << >>
  <2>1. Len(w) = 0  BY <1>1 DEF Mirrors
  <2>2. w = << >>  BY <2>1, EmptySeq
  <2>. QED  BY <1>1, <2>2 DEF HeadHash
<1>2. CASE s # << >>
  <2>1. Len(w) = Len(s) /\ Len(s) # 0  BY <1>2, EmptySeq DEF Mirrors
  <2>2. w # << >>  BY <2>1, EmptySeq
  <2>. QED  BY <1>2, <2>2 DEF Mirrors, HeadHash
<1>. QED  BY <1>1, <1>2

(* An honest append pushes the same block onto the Vec and the history.   *)
LEMMA MirrorsAppend ==
    ASSUME NEW s \in Seq(Blocks), NEW w \in Seq(Blocks), NEW b \in Blocks,
           Mirrors(s, w)
    PROVE  Mirrors(Append(s, b), Append(w, b))
<1>1. Len(Append(s, b)) = Len(s) + 1 /\ Len(Append(w, b)) = Len(w) + 1
      /\ Append(s, b)[Len(s) + 1] = b /\ Append(w, b)[Len(w) + 1] = b
      /\ (\A i \in 1..Len(s) : Append(s, b)[i] = s[i])
      /\ (\A j \in 1..Len(w) : Append(w, b)[j] = w[j])
  BY AppendProperties
<1>2. Len(s) = Len(w) /\ \A i \in 1..Len(s) : SameButInput(s[i], w[i])
  BY DEF Mirrors
<1>3. \A i \in 1..Len(Append(s, b)) : SameButInput(Append(s, b)[i], Append(w, b)[i])
  BY <1>1, <1>2 DEF SameButInput
<1>4. Append(s, b)[Len(Append(s, b))] = Append(w, b)[Len(Append(w, b))]
  BY <1>1, <1>2
<1>. QED  BY <1>1, <1>2, <1>3, <1>4 DEF Mirrors

(* Rewriting the input digest of a block with a successor keeps the Vec a *)
(* mirror of the history, and keeps its head hash.                        *)
LEMMA MirrorsEdit ==
    ASSUME NEW s \in Seq(Blocks), NEW w \in Seq(Blocks), NEW nb \in Seq(Blocks),
           NEW i \in 1..Len(s) - 1, Mirrors(s, w), Len(nb) = Len(s),
           \A j \in 1..Len(s) : j # i => nb[j] = s[j],
           SameButInput(nb[i], s[i])
    PROVE  Mirrors(nb, w) /\ HeadHash(nb) = HeadHash(s)
<1>1. Len(s) \in Nat /\ Len(s) > 0 /\ Len(s) # i /\ i \in 1..Len(s)
  BY LenProperties
<1>2. nb # << >> /\ s # << >>
  BY <1>1, EmptySeq
<1>3. nb[Len(nb)] = s[Len(s)]
  BY <1>1
<1>4. \A j \in 1..Len(nb) : SameButInput(nb[j], w[j])
  BY <1>1 DEF Mirrors, SameButInput
<1>5. Mirrors(nb, w)
  BY <1>2, <1>3, <1>4 DEF Mirrors
<1>. QED  BY <1>2, <1>3, <1>5 DEF HeadHash

(* An intact Vec mirroring an intact history holds every hashed field of  *)
(* every block with a successor as written: the successor's parent hash    *)
(* digests them, and the attacker left that parent hash alone.            *)
LEMMA MirrorsSealed ==
    ASSUME NEW s \in Seq(Blocks), NEW w \in Seq(Blocks),
           Mirrors(s, w), IsChain(s), IsChain(w)
    PROVE  SealedAsWritten(s, w)
<1> SUFFICES ASSUME NEW i \in 1..Len(s) - 1
             PROVE  s[i].input_hash = w[i].input_hash
  BY DEF SealedAsWritten, Mirrors, SameButInput
<1>1. i + 1 \in 1..Len(s) /\ i + 1 \in 1..Len(w) /\ i + 1 # 1 /\ i \in 1..Len(s)
  BY DEF Mirrors
<1>2. s[i + 1].parent_hash = compute_block_hash(s[i])
      /\ w[i + 1].parent_hash = compute_block_hash(w[i])
  BY <1>1 DEF IsChain, ExpectedParent
<1>3. s[i + 1].parent_hash = w[i + 1].parent_hash
  BY <1>1 DEF Mirrors, SameButInput
<1>4. s[i] \in Blocks /\ w[i] \in Blocks
  BY <1>1 DEF Mirrors
<1>5. s[i].parent_hash \in Seq(CanonicalFields) /\ w[i].parent_hash \in Seq(CanonicalFields)
  BY <1>4 DEF Blocks, Hashes
<1>6. Append(s[i].parent_hash, canonical_string(s[i]))
        = Append(w[i].parent_hash, canonical_string(w[i]))
  BY <1>2, <1>3 DEF compute_block_hash
<1>7. s[i].parent_hash = w[i].parent_hash
  BY <1>1 DEF Mirrors, SameButInput
<1>8. canonical_string(s[i]) = canonical_string(w[i])
  <2> DEFINE q == s[i].parent_hash
  <2>1. Append(q, canonical_string(s[i]))[Len(q) + 1] = canonical_string(s[i])
        /\ Append(q, canonical_string(w[i]))[Len(q) + 1] = canonical_string(w[i])
    BY <1>5, AppendProperties
  <2>. QED  BY <1>6, <1>7, <2>1
<1>. QED  BY <1>8 DEF canonical_string

(* The reference's first broken block is the one verify_chain names.       *)
LEMMA FirstBrokenIs ==
    ASSUME NEW bs \in Seq(Blocks), NEW i \in 1..Len(bs),
           bs[i].parent_hash # ExpectedParent(bs, i),
           \A j \in 1..i - 1 : bs[j].parent_hash = ExpectedParent(bs, j)
    PROVE  FirstBroken(bs) = i
<1> DEFINE f == FirstBroken(bs)
<1>1. f \in 1..Len(bs) /\ bs[f].parent_hash # ExpectedParent(bs, f)
      /\ \A j \in 1..f - 1 : bs[j].parent_hash = ExpectedParent(bs, j)
  BY Zenon DEF FirstBroken
<1>2. ~(f < i) /\ ~(i < f)
  BY <1>1
<1>. QED  BY <1>1, <1>2

(* verify_tenant's report on any Vec of Blocks is the reference report.   *)
LEMMA VerifyIsReference ==
    ASSUME NEW bs \in Seq(Blocks)
    PROVE  [status |-> verify_chain(bs).status,
            blocks_verified |-> IF verify_chain(bs).status = "ok" THEN Len(bs) ELSE 0,
            block_id |-> verify_chain(bs).block_id] = ReferenceReport(bs)
<1>1. CASE IsChain(bs)
  BY <1>1, VerifyIntactOk DEF ReferenceReport
<1>2. CASE ~IsChain(bs)
  <2>1. PICK i \in 1..Len(bs) :
              /\ bs[i].parent_hash # ExpectedParent(bs, i)
              /\ \A j \in 1..i - 1 : bs[j].parent_hash = ExpectedParent(bs, j)
              /\ verify_chain(bs) = Violation(bs[i])
    BY <1>2, VerifyBrokenNamesFirst
  <2>2. FirstBroken(bs) = i
    BY <2>1, FirstBrokenIs
  <2>. QED  BY <1>2, <2>1, <2>2 DEF ReferenceReport, Violation
<1>. QED  BY <1>1, <1>2

-----------------------------------------------------------------------------
LEMMA InitTStoreType == TInit => TStoreTypeOK
BY LedgerAssumption, TamperAssumption DEF TInit, Init, TStoreTypeOK, StoreTypeOK

LEMMA NextTStoreType == TStoreTypeOK /\ [TNext]_tvars => TStoreTypeOK'
<1> SUFFICES ASSUME TStoreTypeOK, [TNext]_tvars PROVE TStoreTypeOK'  OBVIOUS
<1>1. ASSUME Next, UNCHANGED tampers PROVE TStoreTypeOK'
  <2>1. StoreTypeOK'
    BY <1>1, NextStoreType DEF TStoreTypeOK
  <2>2. DOMAIN report' = Tenants
    BY <1>1 DEF Next, BuildBlock, AppendBlock, VerifyTenant, Count, GetBlock, TStoreTypeOK
  <2>. QED  BY <1>1, <2>1, <2>2 DEF TStoreTypeOK
<1>2. ASSUME NEW t \in Tenants, TamperInput(t) PROVE TStoreTypeOK'
  <2>1. PICK i \in 1..Len(store[t]) - 1, p \in Payloads :
              Tamper(t, [store[t] EXCEPT ![i].input_hash = hash_value(p)])
    BY <1>2 DEF TamperInput
  <2> DEFINE nb == [store[t] EXCEPT ![i].input_hash = hash_value(p)]
  <2>2. store[t] \in Seq(Blocks) /\ i \in 1..Len(store[t])
    BY LenProperties DEF TStoreTypeOK, StoreTypeOK
  <2> HIDE DEF nb
  <2>3. nb \in Seq(Blocks)
    BY <2>2, EditInput DEF nb
  <2>4. /\ store' = [store EXCEPT ![t] = nb]
        /\ tampers < MaxTampers /\ tampers' = tampers + 1
        /\ UNCHANGED <<pending, nextId, report, written, reply>>
    BY <2>1, Zenon DEF Tamper, nb
  <2>5. store' \in [Tenants -> Seq(Blocks)]
    BY <2>3, <2>4 DEF TStoreTypeOK, StoreTypeOK
  <2>6. tampers' \in 0..MaxTampers
    BY <2>4, TamperAssumption DEF TStoreTypeOK
  <2>. QED  BY <2>4, <2>5, <2>6 DEF TStoreTypeOK, StoreTypeOK
<1>3. CASE UNCHANGED tvars
  BY <1>3 DEF tvars, vars, TStoreTypeOK, StoreTypeOK
<1>. QED  BY <1>1, <1>2, <1>3 DEF TNext

(* One step of TNext audits as the reference says.                         *)
LEMMA NextAgrees ==
    ASSUME TStoreTypeOK, [TNext]_tvars
    PROVE  \A t \in Tenants : Audited(t) => report'[t] = ReferenceReport(store[t])
<1>1. ASSUME NEW t0 \in Tenants, VerifyTenant(t0)
      PROVE  \A t \in Tenants : Audited(t) => report'[t] = ReferenceReport(store[t])
  <2>1. report'[t0] = ReferenceReport(store[t0])
    BY <1>1, VerifyIsReference DEF VerifyTenant, get_blocks, TStoreTypeOK, StoreTypeOK
  <2>2. \A t \in Tenants : t # t0 => report'[t] = report[t]
    BY <1>1 DEF VerifyTenant, TStoreTypeOK
  <2>. QED  BY <2>1, <2>2 DEF Audited
<1>2. ASSUME UNCHANGED report
      PROVE  \A t \in Tenants : Audited(t) => report'[t] = ReferenceReport(store[t])
  BY <1>2 DEF Audited
<1>3. CASE Next /\ UNCHANGED tampers
  BY <1>1, <1>2, <1>3 DEF Next, BuildBlock, AppendBlock, Count, GetBlock
<1>4. CASE \E t \in Tenants : TamperInput(t)
  BY <1>2, <1>4 DEF TamperInput, Tamper
<1>5. CASE UNCHANGED tvars
  BY <1>2, <1>5 DEF tvars, vars
<1>. QED  BY <1>3, <1>4, <1>5 DEF TNext

(* verify_tenant agrees with the reference definition of an intact chain   *)
(* for any callers and any edits of the attacker: Ok with the block count  *)
(* exactly when the Vec is an intact chain, otherwise the violation names  *)
(* its first block whose parent_hash is not the expected one.              *)
THEOREM VerifyAgreesWithReferenceHolds == TSpec => VerifyAgreesWithReference
<1>1. TStoreTypeOK /\ [TNext]_tvars
        => [\A t \in Tenants : Audited(t) => report'[t] = ReferenceReport(store[t])]_tvars
  BY NextAgrees
<1>. QED  BY InitTStoreType, NextTStoreType, <1>1, PTL DEF TSpec, VerifyAgreesWithReference
-----------------------------------------------------------------------------
(* With one caller per tenant the attacker of TSpec leaves a trace: TInv.  *)

(* The reference report of a Vec no longer than MaxBlocks is well typed.  *)
LEMMA ReferenceReportType ==
    ASSUME NEW bs \in Seq(Blocks), Len(bs) \in 0..MaxBlocks
    PROVE  ReferenceReport(bs) \in Reports
<1>1. CASE IsChain(bs)
  <2>1. ReferenceReport(bs) = [status |-> "ok", blocks_verified |-> Len(bs), block_id |-> 0]
    BY <1>1 DEF ReferenceReport
  <2>. QED  BY <2>1, LedgerAssumption DEF Reports
<1>2. CASE ~IsChain(bs)
  <2>1. PICK i \in 1..Len(bs) :
              /\ bs[i].parent_hash # ExpectedParent(bs, i)
              /\ \A j \in 1..i - 1 : bs[j].parent_hash = ExpectedParent(bs, j)
    BY <1>2, VerifyBrokenNamesFirst
  <2>2. FirstBroken(bs) = i
    BY <2>1, FirstBrokenIs
  <2>3. bs[i].id \in 0..MaxBlocks
    <3>1. bs[i] \in Blocks  BY ElementOfSeq
    <3>. QED  BY <3>1, LedgerAssumption DEF Blocks, Ids
  <2>. QED  BY <1>2, <2>2, <2>3, LedgerAssumption DEF ReferenceReport, Reports
<1>. QED  BY <1>1, <1>2

LEMMA InitTInv == TInit => TInv
<1> SUFFICES ASSUME TInit PROVE TInv  OBVIOUS
<1>1. LInv /\ tampers = 0
  BY InitLInv DEF TInit
<1>2. \A t \in Tenants : store[t] = << >> /\ written[t] = << >>
  BY DEF TInit, Init
<1>3. WrittenIntact /\ StoreMirrorsWritten
  BY <1>2 DEF WrittenIntact, IsChain, StoreMirrorsWritten, Mirrors
<1>. QED  BY <1>1, <1>3, TamperAssumption DEF LInv, IInv, TInv, TTypeOK

(* Replies are well typed while every Vec holds Blocks, at most MaxBlocks. *)
Replies == Blocks \cup {not_found("LedgerBlock", id) : id \in Ids} \cup [count : 0..MaxBlocks]

(* A build or an append keeps TInv, seen apart from the store's type.     *)
LEMMA TWriteStep ==
    ASSUME SerialCallers, TInv, NEW w \in Writers, BuildBlock(w) \/ AppendBlock(w)
    PROVE  /\ UNCHANGED <<report, reply>>
           /\ IdsCover' /\ PendingExtendsHead' /\ WrittenIntact' /\ StoreMirrorsWritten'
<1>1. StoreTypeOK /\ IdsCover /\ PendingExtendsHead
  BY DEF TInv, TTypeOK, TypeOK
<1>2. CASE BuildBlock(w)
  BY <1>1, <1>2, BuildKeepsIdsCover, BuildKeepsPending
     DEF BuildBlock, TInv, WrittenIntact, StoreMirrorsWritten
<1>3. CASE AppendBlock(w)
  <2> DEFINE b == pending[w]
             t == WriterTenant[w]
  <2>1. b \in Blocks /\ b.tenant_id = t /\ t \in Tenants
        /\ b.parent_hash = HeadHash(store[t])
    BY <1>1, <1>3, LedgerAssumption DEF AppendBlock, StoreTypeOK, PendingExtendsHead
  <2>2. store[t] \in Seq(Blocks) /\ written[t] \in Seq(Blocks)
        /\ Mirrors(store[t], written[t]) /\ IsChain(written[t])
    BY <1>1, <2>1 DEF StoreTypeOK, TInv, StoreMirrorsWritten, WrittenIntact
  <2>3. b.parent_hash = HeadHash(written[t])
    BY <2>1, <2>2, MirrorsHead
  <2>4. /\ store' = [store EXCEPT ![t] = Append(store[t], b)]
        /\ written' = [written EXCEPT ![t] = Append(written[t], b)]
        /\ UNCHANGED <<report, reply>>
    BY <1>3, <2>1 DEF AppendBlock
  <2>5. IsChain(Append(written[t], b)) /\ Mirrors(Append(store[t], b), Append(written[t], b))
    BY <2>1, <2>2, <2>3, AppendKeepsChain, MirrorsAppend
  <2>6. WrittenIntact' /\ StoreMirrorsWritten'
    BY <1>1, <2>4, <2>5 DEF StoreTypeOK, TInv, WrittenIntact, StoreMirrorsWritten
  <2>. QED  BY <1>1, <1>3, <2>4, <2>6, AppendKeepsIdsCover, AppendKeepsPending
<1>. QED  BY <1>2, <1>3

(* An audit, a count or a lookup keeps TInv: their answers are well typed. *)
LEMMA TReadStep ==
    ASSUME SerialCallers, TInv,
           \/ \E t \in Tenants : VerifyTenant(t) \/ Count(t)
           \/ \E id \in Ids : GetBlock(id)
    PROVE  /\ report' \in [Tenants -> Reports] /\ reply' \in Replies
           /\ UNCHANGED <<store, pending, nextId, written>>
<1>1. StoreTypeOK /\ IdsCover /\ report \in [Tenants -> Reports] /\ reply \in Replies
  BY DEF TInv, TTypeOK, TypeOK, Replies
<1>2. \A t \in Tenants : store[t] \in Seq(Blocks) /\ Len(store[t]) \in 0..MaxBlocks
  BY <1>1, StoreLenBound DEF StoreTypeOK
<1>3. ASSUME NEW t \in Tenants, VerifyTenant(t)
      PROVE  report' \in [Tenants -> Reports] /\ reply' \in Replies
             /\ UNCHANGED <<store, pending, nextId, written>>
  <2>1. report' = [report EXCEPT ![t] = ReferenceReport(store[t])]
    BY <1>2, <1>3, VerifyIsReference DEF VerifyTenant, get_blocks
  <2>2. ReferenceReport(store[t]) \in Reports
    BY <1>2, ReferenceReportType
  <2>. QED  BY <1>1, <1>3, <2>1, <2>2 DEF VerifyTenant
<1>4. ASSUME NEW t \in Tenants, Count(t)
      PROVE  report' \in [Tenants -> Reports] /\ reply' \in Replies
             /\ UNCHANGED <<store, pending, nextId, written>>
  BY <1>1, <1>2, <1>4 DEF Count, Replies
<1>5. ASSUME NEW id \in Ids, GetBlock(id)
      PROVE  report' \in [Tenants -> Reports] /\ reply' \in Replies
             /\ UNCHANGED <<store, pending, nextId, written>>
  <2>1. \A u \in Tenants : \A i \in 1..Len(store[u]) : store[u][i] \in Blocks
    BY <1>2, ElementOfSeq
  <2>. QED  BY <1>1, <1>5, <2>1 DEF GetBlock, Replies
<1>. QED  BY <1>3, <1>4, <1>5

(* The attacker's rewrite of a sealed input digest keeps TInv, apart from *)
(* the store's type: the Vec keeps its length and head hash.              *)
LEMMA TTamperStep ==
    ASSUME TInv, NEW t \in Tenants, TamperInput(t)
    PROVE  /\ UNCHANGED <<pending, nextId, report, written, reply>>
           /\ tampers' \in 0..MaxTampers
           /\ IdsCover' /\ PendingExtendsHead' /\ WrittenIntact' /\ StoreMirrorsWritten'
<1>1. StoreTypeOK /\ IdsCover /\ PendingExtendsHead /\ StoreMirrorsWritten
      /\ tampers \in 0..MaxTampers
  BY DEF TInv, TTypeOK, TypeOK
<1>2. PICK i \in 1..Len(store[t]) - 1, p \in Payloads :
            Tamper(t, [store[t] EXCEPT ![i].input_hash = hash_value(p)])
  BY DEF TamperInput
<1> DEFINE nb == [store[t] EXCEPT ![i].input_hash = hash_value(p)]
<1>3. store[t] \in Seq(Blocks) /\ written[t] \in Seq(Blocks) /\ i \in 1..Len(store[t])
      /\ Mirrors(store[t], written[t])
  BY <1>1, LenProperties DEF StoreTypeOK, StoreMirrorsWritten
<1>4. /\ nb \in Seq(Blocks) /\ Len(nb) = Len(store[t])
      /\ \A j \in 1..Len(store[t]) : j # i => nb[j] = store[t][j]
      /\ SameButInput(nb[i], store[t][i])
  <2>1. nb = [store[t] EXCEPT ![i].input_hash = hash_value(p)]
    OBVIOUS
  <2> HIDE DEF nb
  <2>. QED  BY <1>3, <2>1, EditInput
<1> HIDE DEF nb
<1>5. Mirrors(nb, written[t]) /\ HeadHash(nb) = HeadHash(store[t])
  BY <1>3, <1>4, MirrorsEdit
<1>6. /\ store' = [store EXCEPT ![t] = nb]
      /\ tampers < MaxTampers /\ tampers' = tampers + 1
      /\ UNCHANGED <<pending, nextId, report, written, reply>>
  BY <1>2, Zenon DEF Tamper, nb
<1>7. \A u \in Tenants : Len(store'[u]) = Len(store[u])
                         /\ HeadHash(store'[u]) = HeadHash(store[u])
  BY <1>1, <1>4, <1>5, <1>6 DEF StoreTypeOK
<1>8. IdsCover'
  BY <1>1, <1>6, <1>7 DEF IdsCover, PendingOf
<1>9. PendingExtendsHead'
  BY <1>1, <1>6, <1>7, LedgerAssumption DEF PendingExtendsHead
<1>10. StoreMirrorsWritten'
  BY <1>1, <1>5, <1>6 DEF StoreMirrorsWritten, StoreTypeOK
<1>11. tampers' \in 0..MaxTampers
  BY <1>1, <1>6, TamperAssumption
<1>. QED  BY <1>6, <1>8, <1>9, <1>10, <1>11 DEF TInv, WrittenIntact

LEMMA NextTInv ==
    ASSUME SerialCallers
    PROVE  TInv /\ [TNext]_tvars => TInv'
<1> SUFFICES ASSUME TInv, [TNext]_tvars PROVE TInv'  OBVIOUS
<1>1. TStoreTypeOK'
  <2>1. TStoreTypeOK
    BY DEF TInv, TTypeOK, TypeOK, TStoreTypeOK
  <2>. QED  BY <2>1, NextTStoreType
<1>2. ASSUME NEW w \in Writers, BuildBlock(w) \/ AppendBlock(w), UNCHANGED tampers
      PROVE  TInv'
  BY <1>1, <1>2, TWriteStep DEF TInv, TTypeOK, TypeOK, TStoreTypeOK
<1>3. ASSUME \/ \E t \in Tenants : VerifyTenant(t) \/ Count(t)
             \/ \E id \in Ids : GetBlock(id),
             UNCHANGED tampers
      PROVE  TInv'
  <2>1. /\ report' \in [Tenants -> Reports] /\ reply' \in Replies
        /\ UNCHANGED <<store, pending, nextId, written>>
    BY <1>3, TReadStep
  <2>3. IdsCover' /\ PendingExtendsHead' /\ WrittenIntact' /\ StoreMirrorsWritten'
    BY <2>1 DEF TInv, IdsCover, PendingOf, PendingExtendsHead, WrittenIntact,
                StoreMirrorsWritten
  <2>. QED  BY <1>1, <1>3, <2>1, <2>3 DEF TInv, TTypeOK, TypeOK, TStoreTypeOK, Replies
<1>4. CASE \E t \in Tenants : TamperInput(t)
  BY <1>1, <1>4, TTamperStep DEF TInv, TTypeOK, TypeOK, TStoreTypeOK
<1>5. CASE UNCHANGED tvars
  BY <1>5 DEF tvars, vars, TInv, TTypeOK, TypeOK, StoreTypeOK, IdsCover, PendingOf,
              PendingExtendsHead, WrittenIntact, StoreMirrorsWritten
<1>. QED  BY <1>2, <1>3, <1>4, <1>5 DEF TNext, Next

(* Against the attacker of TSpec, with callers serialised per tenant,      *)
(* every report and reply stays well typed and the attacker's edits stay  *)
(* within its bound.                                                       *)
LEMMA TTypeCorrect ==
    ASSUME SerialCallers
    PROVE  TSpec => []TTypeOK
BY InitTInv, NextTInv, PTL DEF TSpec, TInv

(* One step of TNext from a TInv state never lets an Ok audit vouch for a  *)
(* block with a successor whose hashed fields were rewritten.              *)
LEMMA NextOkSealed ==
    ASSUME TInv, [TNext]_tvars
    PROVE  \A t \in Tenants :
              Audited(t) /\ report'[t].status = "ok"
                => SealedAsWritten(store[t], written[t])
<1> SUFFICES ASSUME NEW t \in Tenants, Audited(t), report'[t].status = "ok"
             PROVE  SealedAsWritten(store[t], written[t])
  OBVIOUS
<1>1. TStoreTypeOK
  BY DEF TInv, TTypeOK, TypeOK, TStoreTypeOK
<1>2. report'[t] = ReferenceReport(store[t])
  BY <1>1, NextAgrees
<1>3. IsChain(store[t])
  BY <1>2 DEF ReferenceReport
<1>4. store[t] \in Seq(Blocks) /\ written[t] \in Seq(Blocks)
      /\ Mirrors(store[t], written[t]) /\ IsChain(written[t])
  BY DEF TInv, TTypeOK, TypeOK, StoreTypeOK, StoreMirrorsWritten, WrittenIntact
<1>. QED  BY <1>3, <1>4, MirrorsSealed

(* Tamper evidence as far as the hash chain gives it: with callers         *)
(* serialised per tenant, whenever verify_tenant reports Ok, every hashed  *)
(* field of every block that has a successor is as append wrote it, for    *)
(* any rewrites of sealed input digests by the attacker.                   *)
THEOREM OkProvesSealedBlocksHolds ==
    ASSUME SerialCallers
    PROVE  TSpec => OkProvesSealedBlocks
<1>1. TInv /\ [TNext]_tvars
        => [\A t \in Tenants :
               Audited(t) /\ report'[t].status = "ok"
                 => SealedAsWritten(store[t], written[t])]_tvars
  BY NextOkSealed
<1>. QED  BY InitTInv, NextTInv, <1>1, PTL DEF TSpec, OkProvesSealedBlocks

=============================================================================
