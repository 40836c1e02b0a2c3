---------------------------- MODULE LedgerProofs ----------------------------
(***************************************************************************)
(* Proofs about module Ledger: the storage and caller state are well       *)
(* typed, and with callers serialised per tenant every stored chain stays  *)
(* intact.  The inductive invariant adds to IntactChains that a built but  *)
(* not yet appended block carries the current head hash of its tenant: an  *)
(* append then extends an intact chain by a correctly linked block.        *)
(***************************************************************************)
EXTENDS Ledger, SequenceTheorems, WellFoundedInduction, TLAPS

(* Appending to an intact chain a block whose parent is the chain's head   *)
(* hash gives an intact chain.                                             *)
LEMMA AppendKeepsChain ==
    ASSUME NEW bs \in Seq(Blocks), NEW b \in Blocks,
           IsChain(bs), b.parent_hash = HeadHash(bs)
    PROVE  IsChain(Append(bs, b))
<1> DEFINE cs == Append(bs, b)
<1>1. Len(cs) = Len(bs) + 1 /\ cs[Len(bs) + 1] = b
        /\ \A i \in 1..Len(bs) : cs[i] = bs[i]
  BY AppendProperties
<1>2. SUFFICES ASSUME NEW i \in 1..Len(cs)
               PROVE  cs[i].parent_hash = ExpectedParent(cs, i)
  BY DEF IsChain
<1>3. CASE i \in 1..Len(bs)
  <2>1. ExpectedParent(cs, i) = ExpectedParent(bs, i)
    BY <1>1, <1>3 DEF ExpectedParent
  <2>2. QED  BY <1>1, <1>3, <2>1 DEF IsChain
<1>4. CASE i = Len(bs) + 1
  <2>1. CASE Len(bs) = 0
    <3>1. bs = << >>  BY <2>1, EmptySeq
    <3>2. QED  BY <1>1, <1>4, <2>1, <3>1 DEF ExpectedParent, HeadHash
  <2>2. CASE Len(bs) > 0
    <3>1. bs # << >>  BY <2>2, EmptySeq
    <3>2. QED  BY <1>1, <1>4, <2>2, <3>1 DEF ExpectedParent, HeadHash
  <2>3. QED  BY <2>1, <2>2
<1>5. QED  BY <1>1, <1>3, <1>4

(* The parent hash a caller computes is a digest.                          *)
LEMMA HeadHashType ==
    ASSUME NEW bs \in Seq(Blocks)
    PROVE  HeadHash(bs) \in Hashes
<1>1. CASE bs = << >>
  BY <1>1 DEF HeadHash, Genesis, Hashes
<1>2. CASE bs # << >>
  <2>1. bs[Len(bs)] \in Blocks  BY <1>2, EmptySeq
  <2>2. canonical_string(bs[Len(bs)]) \in CanonicalFields
    BY <2>1 DEF Blocks, canonical_string, CanonicalFields
  <2>3. bs[Len(bs)].parent_hash \in Hashes  BY <2>1 DEF Blocks
  <2>4. QED  BY <1>2, <2>2, <2>3 DEF HeadHash, compute_block_hash, Hashes
<1>3. QED  BY <1>1, <1>2

(* The block LedgerBlockBuilder builds is well typed.                      *)
LEMMA BuildType ==
    ASSUME NEW id \in Ids, NEW t \in Tenants, NEW a \in Actions,
           NEW i \in Payloads, NEW o \in Payloads, NEW parent \in Hashes,
           NEW seq \in Nat
    PROVE  build(id, t, a, i, o, parent, seq) \in Blocks
BY DEF build, Blocks, PayloadHashes

-----------------------------------------------------------------------------
(* The storage and caller state stay well typed, whoever writes which      *)
(* tenant: the builder's digests and fresh ids, and append's push.         *)
LEMMA NextStoreType == StoreTypeOK /\ [Next]_vars => StoreTypeOK'
<1> SUFFICES ASSUME StoreTypeOK, [Next]_vars PROVE StoreTypeOK'  OBVIOUS
<1>1. ASSUME NEW w \in Writers, BuildBlock(w) PROVE StoreTypeOK'
  <2> DEFINE t == WriterTenant[w]
             bs == get_blocks(t)
  <2>1. t \in Tenants /\ bs \in Seq(Blocks)
    BY LedgerAssumption DEF StoreTypeOK, get_blocks
  <2>2. PICK a \in Actions, i \in Payloads, o \in Payloads :
          pending' = [pending EXCEPT ![w] =
                        build(nextId, t, a, i, o, HeadHash(bs), Len(bs) + 1)]
    BY <1>1 DEF BuildBlock
  <2>3. nextId \in Ids  BY <1>1 DEF BuildBlock, StoreTypeOK, Ids
  <2>4. build(nextId, t, a, i, o, HeadHash(bs), Len(bs) + 1) \in Blocks
    BY <2>1, <2>3, HeadHashType, BuildType
  <2>5. pending' \in [Writers -> Blocks \cup {NoBlock}]
    BY <2>2, <2>4 DEF StoreTypeOK
  <2>6. nextId' \in 1..MaxBlocks + 1
    BY <1>1, LedgerAssumption DEF BuildBlock, StoreTypeOK
  <2>7. UNCHANGED <<store, written>>
    BY <1>1 DEF BuildBlock
  <2>. QED  BY <2>5, <2>6, <2>7 DEF StoreTypeOK
<1>2. ASSUME NEW w \in Writers, AppendBlock(w) PROVE StoreTypeOK'
  <2> DEFINE b == pending[w]
             t == b.tenant_id
  <2>1. b \in Blocks /\ t \in Tenants
    BY <1>2 DEF AppendBlock, StoreTypeOK, Blocks
  <2>2. store' = [store EXCEPT ![t] = Append(store[t], b)]
          /\ written' = [written EXCEPT ![t] = Append(written[t], b)]
          /\ pending' = [pending EXCEPT ![w] = NoBlock]
          /\ nextId' = nextId
    BY <1>2 DEF AppendBlock
  <2>3. store' \in [Tenants -> Seq(Blocks)]
    BY <2>1, <2>2 DEF StoreTypeOK
  <2>4. written' \in [Tenants -> Seq(Blocks)]
    BY <2>1, <2>2 DEF StoreTypeOK
  <2>5. pending' \in [Writers -> Blocks \cup {NoBlock}]
    BY <2>2 DEF StoreTypeOK
  <2>. QED  BY <2>2, <2>3, <2>4, <2>5 DEF StoreTypeOK
<1>3. ASSUME NEW t \in Tenants, VerifyTenant(t) \/ Count(t) PROVE StoreTypeOK'
  BY <1>3 DEF VerifyTenant, Count, StoreTypeOK
<1>4. ASSUME NEW id \in Ids, GetBlock(id) PROVE StoreTypeOK'
  BY <1>4 DEF GetBlock, StoreTypeOK
<1>5. CASE UNCHANGED vars
  BY <1>5 DEF vars, StoreTypeOK
<1>. QED  BY <1>1, <1>2, <1>3, <1>4, <1>5 DEF Next

-----------------------------------------------------------------------------
(* The inductive invariant.                                                *)
IInv == StoreTypeOK /\ IntactChains /\ PendingExtendsHead

LEMMA InitIInv == Init => IInv
<1> SUFFICES ASSUME Init PROVE IInv  OBVIOUS
<1>1. StoreTypeOK
  BY LedgerAssumption DEF Init, StoreTypeOK
<1>2. IntactChains
  BY DEF Init, IntactChains, IsChain
<1>3. PendingExtendsHead
  BY DEF Init, PendingExtendsHead
<1>4. QED  BY <1>1, <1>2, <1>3 DEF IInv

(* A build leaves every other caller's block as it was and gives its own  *)
(* caller a block on top of the head it read.                              *)
LEMMA BuildKeepsPending ==
    ASSUME StoreTypeOK, PendingExtendsHead, NEW w \in Writers, BuildBlock(w)
    PROVE  PendingExtendsHead'
<1> DEFINE t == WriterTenant[w]
           bs == get_blocks(t)
<1>1. PICK a \in Actions, i \in Payloads, o \in Payloads :
        pending' = [pending EXCEPT ![w] =
                      build(nextId, t, a, i, o, HeadHash(bs), Len(bs) + 1)]
  BY DEF BuildBlock
<1>. QED  BY <1>1 DEF BuildBlock, PendingExtendsHead, build, get_blocks, StoreTypeOK

(* With one caller per tenant, an append moves no other caller's head.     *)
LEMMA AppendKeepsPending ==
    ASSUME SerialCallers, StoreTypeOK, PendingExtendsHead,
           NEW w \in Writers, AppendBlock(w)
    PROVE  PendingExtendsHead'
<1> SUFFICES ASSUME NEW v \in Writers, pending'[v] # NoBlock
             PROVE  /\ pending'[v].tenant_id = WriterTenant[v]
                    /\ pending'[v].parent_hash = HeadHash(store'[WriterTenant[v]])
  BY DEF PendingExtendsHead
<1>1. v # w /\ pending'[v] = pending[v]
  BY DEF AppendBlock, StoreTypeOK
<1>2. WriterTenant[v] # WriterTenant[w] /\ pending[w].tenant_id = WriterTenant[w]
  BY <1>1 DEF SerialCallers, AppendBlock, PendingExtendsHead
<1>3. store'[WriterTenant[v]] = store[WriterTenant[v]]
  BY <1>2, LedgerAssumption DEF AppendBlock, StoreTypeOK
<1>. QED  BY <1>1, <1>3 DEF PendingExtendsHead

LEMMA NextIInv ==
    ASSUME SerialCallers
    PROVE  IInv /\ [Next]_vars => IInv'
<1> SUFFICES ASSUME IInv, [Next]_vars PROVE IInv'  OBVIOUS
<1> USE DEF IInv
<1>1. ASSUME NEW w \in Writers, BuildBlock(w) PROVE IInv'
  <2> DEFINE t == WriterTenant[w]
             bs == get_blocks(t)
  <2>1. t \in Tenants /\ bs \in Seq(Blocks)
    BY LedgerAssumption DEF StoreTypeOK, get_blocks
  <2>2. PICK a \in Actions, i \in Payloads, o \in Payloads :
          pending' = [pending EXCEPT ![w] =
                        build(nextId, t, a, i, o, HeadHash(bs), Len(bs) + 1)]
    BY <1>1 DEF BuildBlock
  <2>3. nextId \in Ids  BY <1>1 DEF BuildBlock, StoreTypeOK, Ids
  <2>4. build(nextId, t, a, i, o, HeadHash(bs), Len(bs) + 1) \in Blocks
    BY <2>1, <2>3, HeadHashType, BuildType
  <2>5. StoreTypeOK'
    BY <1>1, NextStoreType DEF Next
  <2>6. IntactChains'
    BY <1>1 DEF BuildBlock, IntactChains
  <2>7. PendingExtendsHead'
    BY <1>1, BuildKeepsPending
  <2>8. QED  BY <2>5, <2>6, <2>7
<1>2. ASSUME NEW w \in Writers, AppendBlock(w) PROVE IInv'
  <2> DEFINE b == pending[w]
             t == WriterTenant[w]
  <2>1. b \in Blocks /\ t \in Tenants
    BY <1>2, LedgerAssumption DEF AppendBlock, StoreTypeOK
  <2>2. b.tenant_id = t /\ b.parent_hash = HeadHash(store[t])
    BY <1>2 DEF AppendBlock, PendingExtendsHead
  <2>3. store' = [store EXCEPT ![t] = Append(store[t], b)]
    BY <1>2, <2>2 DEF AppendBlock
  <2>4. StoreTypeOK'
    BY <1>2, NextStoreType DEF Next
  <2>5. IsChain(Append(store[t], b))
    BY <2>1, <2>2, AppendKeepsChain DEF StoreTypeOK, IntactChains
  <2>6. IntactChains'
    BY <2>3, <2>5 DEF IntactChains, StoreTypeOK
  <2>7. PendingExtendsHead'
    BY <1>2, AppendKeepsPending
  <2>8. QED  BY <2>4, <2>6, <2>7
<1>3. ASSUME NEW t \in Tenants, VerifyTenant(t) \/ Count(t) PROVE IInv'
  <2>1. StoreTypeOK'  BY <1>3, NextStoreType DEF Next
  <2>. QED  BY <1>3, <2>1 DEF VerifyTenant, Count, IntactChains, PendingExtendsHead
<1>4. ASSUME NEW id \in Ids, GetBlock(id) PROVE IInv'
  <2>1. StoreTypeOK'  BY <1>4, NextStoreType DEF Next
  <2>. QED  BY <1>4, <2>1 DEF GetBlock, IntactChains, PendingExtendsHead
<1>5. CASE UNCHANGED vars
  BY <1>5 DEF vars, StoreTypeOK, IntactChains, PendingExtendsHead
<1>6. QED  BY <1>1, <1>2, <1>3, <1>4, <1>5 DEF Next

(* The storage and caller state stay well typed in every behaviour, with   *)
(* any number of callers per tenant: the builder's digests and fresh ids,  *)
(* and append's push onto the Vec of the block's own tenant.               *)
THEOREM StoreTypeCorrect == Spec => []StoreTypeOK
<1>1. Init => StoreTypeOK
  BY LedgerAssumption DEF Init, StoreTypeOK
<1>. QED  BY <1>1, NextStoreType, PTL DEF Spec

(* Hash-chain continuity (spec section 4.3): if no two callers write the   *)
(* same tenant, every tenant's stored blocks always form an intact chain,  *)
(* for any number of tenants, callers and blocks.                          *)
THEOREM IntactChainsHold ==
    ASSUME SerialCallers
    PROVE  Spec => []IntactChains
BY InitIInv, NextIInv, PTL DEF Spec, IInv
(* A non-empty set of naturals has a least element (from the            *)
(* well-foundedness of < on Nat).                                         *)
LEMMA NatMin == ASSUME NEW T \in SUBSET Nat, T # {} PROVE \E m \in T : \A k \in T : m <= k
<1>1. PICK x \in T : \A y \in T : ~(<<y, x>> \in OpToRel(<, Nat))
  BY NatLessThanWellFounded, WFMin
<1>2. \A y \in T : y < x => <<y, x>> \in OpToRel(<, Nat)
  BY DEF OpToRel
<1>3. \A y \in T : ~(y < x)
  BY <1>1, <1>2, Zenon
<1>. QED  BY <1>3

(* verify_chain's loop, named: window (bs[j-1], bs[j]) fails its check.  *)
Broken(bs, j) == bs[j].parent_hash # compute_block_hash(bs[j - 1])
(* verify_chain's two answers.                                            *)
Violation(b) == [status |-> "violation", block_id |-> b.id]
ChainOk == [status |-> "ok", block_id |-> 0]
(* The defining equation of the recursive function windows of            *)
(* verify_chain, and the function itself.                                  *)
WindowsDef(bs, w, i) ==
    IF i > Len(bs) THEN ChainOk
    ELSE IF Broken(bs, i) THEN Violation(bs[i]) ELSE w[i + 1]
Windows(bs) == CHOOSE w : w = [i \in 2..Len(bs) + 1 |-> WindowsDef(bs, w, i)]
(* The first failing window from i on, and windows in closed form: the    *)
(* violation of the first failing window from i, or Ok when there is none. *)
FirstFrom(bs, i) ==
    CHOOSE j \in i..Len(bs) : Broken(bs, j) /\ \A k \in i..j - 1 : ~Broken(bs, k)
Closed(bs) ==
    [i \in 2..Len(bs) + 1 |->
        IF \E j \in i..Len(bs) : Broken(bs, j) THEN Violation(bs[FirstFrom(bs, i)])
        ELSE ChainOk]

(* verify_chain unfolded: empty, genesis check, then window 2 onwards.    *)
LEMMA VerifyUnfold ==
    ASSUME NEW bs
    PROVE  verify_chain(bs) = IF bs = << >> THEN ChainOk
                              ELSE IF bs[1].parent_hash # Genesis THEN Violation(bs[1])
                              ELSE Windows(bs)[2]
BY Zenon DEF verify_chain, ChainOk, Violation, Windows, WindowsDef, Broken

(* The first failing window from i exists when one does.                 *)
LEMMA FirstFromProps ==
    ASSUME NEW bs \in Seq(Blocks), NEW i \in Nat, \E j \in i..Len(bs) : Broken(bs, j)
    PROVE  /\ FirstFrom(bs, i) \in i..Len(bs)
           /\ Broken(bs, FirstFrom(bs, i))
           /\ \A k \in i..FirstFrom(bs, i) - 1 : ~Broken(bs, k)
<1> DEFINE T == {j \in i..Len(bs) : Broken(bs, j)}
<1>1. T \in SUBSET Nat /\ T # {}
  BY LenProperties
<1>2. PICK m \in T : \A k \in T : m <= k
  BY <1>1, NatMin
<1>3. m \in i..Len(bs) /\ Broken(bs, m) /\ \A k \in i..m - 1 : ~Broken(bs, k)
  BY <1>2, LenProperties
<1>. QED  BY <1>3 DEF FirstFrom

(* Past a passing window, the first failing one is the same.             *)
LEMMA FirstFromStep ==
    ASSUME NEW bs \in Seq(Blocks), NEW i \in Nat, i + 1 <= Len(bs) + 1, ~Broken(bs, i),
           \E j \in i..Len(bs) : Broken(bs, j)
    PROVE  /\ \E j \in i + 1..Len(bs) : Broken(bs, j)
           /\ FirstFrom(bs, i) = FirstFrom(bs, i + 1)
<1>1. \E j \in i + 1..Len(bs) : Broken(bs, j)
  BY LenProperties
<1> DEFINE a == FirstFrom(bs, i)
           b == FirstFrom(bs, i + 1)
<1>2. a \in i..Len(bs) /\ Broken(bs, a) /\ \A k \in i..a - 1 : ~Broken(bs, k)
  BY FirstFromProps
<1>3. b \in i + 1..Len(bs) /\ Broken(bs, b) /\ \A k \in i + 1..b - 1 : ~Broken(bs, k)
  BY <1>1, FirstFromProps
<1>4. a # i
  BY <1>2
<1>5. ~(a < b) /\ ~(b < a)
  BY <1>2, <1>3, <1>4, LenProperties
<1>. QED  BY <1>1, <1>2, <1>3, <1>5, LenProperties

(* The closed form solves windows' defining equation ...                 *)
LEMMA ClosedSolves ==
    ASSUME NEW bs \in Seq(Blocks)
    PROVE  Closed(bs) = [i \in 2..Len(bs) + 1 |-> WindowsDef(bs, Closed(bs), i)]
<1> DEFINE N == Len(bs)
           C == Closed(bs)
<1>0. N \in Nat
  BY LenProperties
<1> SUFFICES ASSUME NEW i \in 2..N + 1 PROVE C[i] = WindowsDef(bs, C, i)
  BY DEF Closed
<1>1. CASE i = N + 1
  <2>1. ~\E j \in i..N : Broken(bs, j)
    BY <1>0, <1>1
  <2>. QED  BY <1>0, <1>1, <2>1 DEF Closed, WindowsDef
<1>2. CASE i <= N /\ Broken(bs, i)
  <2>1. FirstFrom(bs, i) \in i..N /\ \A k \in i..FirstFrom(bs, i) - 1 : ~Broken(bs, k)
    BY <1>0, <1>2, FirstFromProps
  <2>2. FirstFrom(bs, i) = i
    BY <1>2, <2>1
  <2>3. C[i] = Violation(bs[i])
    BY <1>0, <1>2, <2>2 DEF Closed
  <2>. QED  BY <1>0, <1>2, <2>3 DEF WindowsDef
<1>3. CASE i <= N /\ ~Broken(bs, i)
  <2>1. WindowsDef(bs, C, i) = C[i + 1]
    BY <1>0, <1>3 DEF WindowsDef
  <2>2. CASE \E j \in i..N : Broken(bs, j)
    <3>1. (\E j \in i + 1..N : Broken(bs, j)) /\ FirstFrom(bs, i) = FirstFrom(bs, i + 1)
      BY <1>0, <1>3, <2>2, FirstFromStep
    <3>. QED  BY <1>0, <1>3, <2>1, <2>2, <3>1 DEF Closed
  <2>3. CASE ~\E j \in i..N : Broken(bs, j)
    <3>1. ~\E j \in i + 1..N : Broken(bs, j)
      BY <1>0, <2>3
    <3>. QED  BY <1>0, <1>3, <2>1, <2>3, <3>1 DEF Closed
  <2>. QED  BY <2>2, <2>3
<1>. QED  BY <1>0, <1>1, <1>2, <1>3

(* ... and is its only solution: where another one first differed, going *)
(* down from the end, both would equal the same window check.             *)
LEMMA SolutionUnique ==
    ASSUME NEW bs \in Seq(Blocks), NEW f,
           f = [i \in 2..Len(bs) + 1 |-> WindowsDef(bs, f, i)]
    PROVE  f = Closed(bs)
<1> DEFINE N == Len(bs)
           C == Closed(bs)
<1>0. N \in Nat
  BY LenProperties
<1>1. C = [i \in 2..N + 1 |-> WindowsDef(bs, C, i)]
  BY ClosedSolves
<1> HIDE DEF C
<1>2. \A i \in 2..N + 1 : f[i] = C[i]
  <2> DEFINE T == {d \in 0..N - 1 : f[N + 1 - d] # C[N + 1 - d]}
  <2>0. T \in SUBSET Nat
    BY <1>0
  <2> SUFFICES ASSUME T # {} PROVE FALSE
    <3>1. ASSUME NEW i \in 2..N + 1, f[i] # C[i] PROVE N + 1 - i \in T
      BY <1>0, <3>1
    <3>. QED  BY <3>1
  <2>1. PICK m \in T : \A k \in T : m <= k
    BY <2>0, NatMin
  <2>2. m \in 0..N - 1 /\ f[N + 1 - m] # C[N + 1 - m]
    BY <2>1
  <2>3. CASE m = 0
    <3>1. f[N + 1] = ChainOk /\ C[N + 1] = ChainOk
      BY <1>0, <1>1 DEF WindowsDef
    <3>. QED  BY <2>2, <2>3, <3>1
  <2>4. CASE m > 0
    <3>0. N + 1 - m \in 2..N + 1 /\ N + 2 - m \in 2..N + 1 /\ m - 1 \in 0..N - 1
      BY <1>0, <2>2, <2>4
    <3>1. ~(m - 1 \in T)
      <4>1. ~(m <= m - 1)
        BY <2>2
      <4>. QED  BY <2>1, <4>1
    <3>2. f[N + 2 - m] = C[N + 2 - m]
      <4>1. N + 1 - (m - 1) = N + 2 - m
        BY <1>0, <2>2
      <4>. QED  BY <3>0, <3>1, <4>1
    <3>3. f[N + 1 - m] = WindowsDef(bs, f, N + 1 - m) /\ C[N + 1 - m] = WindowsDef(bs, C, N + 1 - m)
      BY <1>1, <3>0, Zenon
    <3>4. WindowsDef(bs, f, N + 1 - m) = WindowsDef(bs, C, N + 1 - m)
      <4>1. N + 1 - m + 1 = N + 2 - m
        BY <1>0, <2>2
      <4>. QED  BY <1>0, <2>2, <2>4, <3>2, <4>1 DEF WindowsDef
    <3>. QED  BY <2>2, <3>3, <3>4
  <2>. QED  BY <2>3, <2>4
<1>3. f = [i \in 2..N + 1 |-> f[i]] /\ C = [i \in 2..N + 1 |-> C[i]]
  BY <1>1, Zenon
<1>. QED  BY <1>2, <1>3, Zenon DEF C

(* So windows is the closed form.                                        *)
LEMMA WindowsIsClosed ==
    ASSUME NEW bs \in Seq(Blocks)
    PROVE  Windows(bs) = Closed(bs)
<1>1. \E w : w = [i \in 2..Len(bs) + 1 |-> WindowsDef(bs, w, i)]
  BY ClosedSolves
<1>2. Windows(bs) = [i \in 2..Len(bs) + 1 |-> WindowsDef(bs, Windows(bs), i)]
  BY <1>1, Zenon DEF Windows
<1>. QED  BY <1>2, SolutionUnique

(* A broken chain makes verify_chain name its first broken link: the      *)
(* first block whose parent_hash is not the expected one.                 *)
LEMMA VerifyBrokenNamesFirst ==
    ASSUME NEW bs \in Seq(Blocks), ~IsChain(bs)
    PROVE  \E i \in 1..Len(bs) :
              /\ bs[i].parent_hash # ExpectedParent(bs, i)
              /\ \A j \in 1..i - 1 : bs[j].parent_hash = ExpectedParent(bs, j)
              /\ verify_chain(bs) = Violation(bs[i])
<1> DEFINE N == Len(bs)
<1>0. N \in Nat
  BY LenProperties
<1>1. N >= 1 /\ bs # << >>
  BY <1>0, EmptySeq DEF IsChain
<1>2. \A j \in 2..N : (bs[j].parent_hash # ExpectedParent(bs, j)) <=> Broken(bs, j)
  BY DEF ExpectedParent, Broken
<1>3. CASE bs[1].parent_hash # Genesis
  <2>1. verify_chain(bs) = Violation(bs[1])
    BY <1>1, <1>3, VerifyUnfold
  <2>. QED  BY <1>1, <1>3, <2>1 DEF ExpectedParent
<1>4. CASE bs[1].parent_hash = Genesis
  <2>1. verify_chain(bs) = Closed(bs)[2]
    BY <1>1, <1>4, VerifyUnfold, WindowsIsClosed
  <2>2. \E j \in 2..N : Broken(bs, j)
    <3>1. PICK j \in 1..N : bs[j].parent_hash # ExpectedParent(bs, j)
      BY DEF IsChain
    <3>2. j # 1
      BY <1>4, <3>1 DEF ExpectedParent
    <3>. QED  BY <1>0, <1>2, <3>1, <3>2
  <2> DEFINE i == FirstFrom(bs, 2)
  <2>3. i \in 2..N /\ Broken(bs, i) /\ \A k \in 2..i - 1 : ~Broken(bs, k)
    BY <2>2, FirstFromProps
  <2>4. Closed(bs)[2] = Violation(bs[i])
    BY <1>0, <1>1, <2>2 DEF Closed
  <2>5. ASSUME NEW j \in 1..i - 1 PROVE bs[j].parent_hash = ExpectedParent(bs, j)
    <3>1. CASE j = 1
      BY <1>4, <3>1 DEF ExpectedParent
    <3>2. CASE j # 1
      <4>1. j \in 2..N /\ j \in 2..i - 1
        BY <1>0, <2>3, <3>2
      <4>. QED  BY <1>2, <2>3, <4>1
    <3>. QED  BY <3>1, <3>2
  <2>6. i \in 1..N /\ bs[i].parent_hash # ExpectedParent(bs, i)
    BY <1>2, <2>3
  <2>. QED  BY <2>1, <2>4, <2>5, <2>6
<1>. QED  BY <1>3, <1>4
(* verify_chain answers Ok for an intact chain: the genesis check passes  *)
(* and no window fails.                                                    *)
LEMMA VerifyIntactOk ==
    ASSUME NEW bs \in Seq(Blocks), IsChain(bs)
    PROVE  verify_chain(bs) = [status |-> "ok", block_id |-> 0]
<1>1. CASE bs = << >>
  BY <1>1, VerifyUnfold DEF ChainOk
<1>2. CASE bs # << >>
  <2>1. Len(bs) \in Nat /\ Len(bs) >= 1
    BY <1>2, LenProperties, EmptySeq
  <2>2. bs[1].parent_hash = Genesis
    BY <2>1 DEF IsChain, ExpectedParent
  <2>3. ~\E j \in 2..Len(bs) : Broken(bs, j)
    BY <2>1 DEF IsChain, ExpectedParent, Broken
  <2>4. Closed(bs)[2] = ChainOk
    BY <2>1, <2>3 DEF Closed
  <2>. QED  BY <1>2, <2>2, <2>4, VerifyUnfold, WindowsIsClosed DEF ChainOk
<1>. QED  BY <1>1, <1>2

-----------------------------------------------------------------------------
(* Whether a caller of tenant t holds a built, unappended block.           *)
PendingOf(t) == IF \E w \in Writers : WriterTenant[w] = t /\ pending[w] # NoBlock
                THEN 1 ELSE 0

(* Every stored or pending block of a tenant drew its own id from          *)
(* LedgerBlockId::new(), so a tenant's Vec never holds more than MaxBlocks.*)
IdsCover == \A t \in Tenants : Len(store[t]) + PendingOf(t) <= nextId - 1

(* The inductive invariant of the audit: the chains are intact, so every   *)
(* verify_tenant so far answered Ok, with a count the ids bound.           *)
LInv == IInv /\ TypeOK /\ IdsCover /\ AuditNeverFalseAlarm

LEMMA InitLInv == Init => LInv
<1> SUFFICES ASSUME Init PROVE LInv  OBVIOUS
<1>1. IInv
  BY InitIInv
<1>2. TypeOK
  BY LedgerAssumption DEF Init, TypeOK, StoreTypeOK, Reports, NoReport, NoReply
<1>3. IdsCover
  <2>1. \A t \in Tenants : PendingOf(t) = 0
    BY DEF Init, PendingOf
  <2>2. \A t \in Tenants : Len(store[t]) = 0
    BY DEF Init
  <2>3. nextId = 1
    BY DEF Init
  <2>4. ASSUME NEW t \in Tenants PROVE Len(store[t]) + PendingOf(t) <= nextId - 1
    <3>1. Len(store[t]) = 0 /\ PendingOf(t) = 0
      BY <2>1, <2>2
    <3>. QED  BY <2>3, <3>1
  <2>. QED  BY <2>4 DEF IdsCover
<1>4. AuditNeverFalseAlarm
  BY DEF Init, AuditNeverFalseAlarm, NoReport
<1>. QED  BY <1>1, <1>2, <1>3, <1>4 DEF LInv

(* A tenant's Vec is never longer than MaxBlocks.                         *)
LEMMA StoreLenBound ==
    ASSUME StoreTypeOK, IdsCover, NEW t \in Tenants
    PROVE  Len(store[t]) \in 0..MaxBlocks
<1>1. store[t] \in Seq(Blocks) /\ nextId \in 1..MaxBlocks + 1
  BY DEF StoreTypeOK
<1>2. PendingOf(t) \in {0, 1}
  BY DEF PendingOf
<1>3. Len(store[t]) \in Nat /\ Len(store[t]) + PendingOf(t) <= nextId - 1
  BY <1>1, LenProperties DEF IdsCover
<1>. QED  BY <1>1, <1>2, <1>3, LedgerAssumption

(* A build takes a fresh id for the one block its caller now holds.       *)
LEMMA BuildKeepsIdsCover ==
    ASSUME SerialCallers, StoreTypeOK, IdsCover, NEW w \in Writers, BuildBlock(w)
    PROVE  IdsCover'
<1> DEFINE t == WriterTenant[w]
<1>1. t \in Tenants /\ pending[w] = NoBlock /\ nextId' = nextId + 1
      /\ UNCHANGED store
  BY LedgerAssumption DEF BuildBlock
<1>2. \A v \in Writers : v # w => pending'[v] = pending[v]
  BY DEF BuildBlock, StoreTypeOK
<1>3. PendingOf(t) = 0
  BY <1>1 DEF PendingOf, SerialCallers
<1>4. \A u \in Tenants : u # t => PendingOf(u)' = PendingOf(u)
  BY <1>2 DEF PendingOf
<1>5. \A u \in Tenants : PendingOf(u)' \in {0, 1}
  BY DEF PendingOf
<1>6. \A u \in Tenants : Len(store[u]) \in Nat /\ nextId \in Nat
  BY LenProperties DEF StoreTypeOK
<1>. QED  BY <1>1, <1>3, <1>4, <1>5, <1>6 DEF IdsCover

(* An append moves its caller's one block from pending into the Vec.      *)
LEMMA AppendKeepsIdsCover ==
    ASSUME SerialCallers, StoreTypeOK, IdsCover, PendingExtendsHead,
           NEW w \in Writers, AppendBlock(w)
    PROVE  IdsCover'
<1> DEFINE b == pending[w]
           t == WriterTenant[w]
<1>1. b \in Blocks /\ b # NoBlock /\ b.tenant_id = t /\ t \in Tenants
  BY LedgerAssumption DEF AppendBlock, StoreTypeOK, PendingExtendsHead
<1>2. /\ store' = [store EXCEPT ![t] = Append(store[t], b)]
      /\ pending' = [pending EXCEPT ![w] = NoBlock]
      /\ UNCHANGED nextId
  BY <1>1 DEF AppendBlock
<1>3. PendingOf(t) = 1 /\ PendingOf(t)' = 0
  BY <1>1, <1>2 DEF PendingOf, SerialCallers, StoreTypeOK
<1>4. \A u \in Tenants : u # t => PendingOf(u)' = PendingOf(u) /\ store'[u] = store[u]
  BY <1>2 DEF PendingOf, StoreTypeOK
<1>5. Len(store'[t]) = Len(store[t]) + 1
  BY <1>1, <1>2, AppendProperties DEF StoreTypeOK
<1>6. \A u \in Tenants : Len(store[u]) \in Nat
  BY LenProperties DEF StoreTypeOK
<1>. QED  BY <1>2, <1>3, <1>4, <1>5, <1>6 DEF IdsCover

LEMMA NextLInv ==
    ASSUME SerialCallers
    PROVE  LInv /\ [Next]_vars => LInv'
<1> SUFFICES ASSUME LInv, [Next]_vars PROVE LInv'  OBVIOUS
<1>1. IInv'
  BY NextIInv DEF LInv
<1>2. StoreTypeOK'
  BY NextStoreType DEF LInv, IInv
<1>3. ASSUME NEW w \in Writers, BuildBlock(w)
      PROVE  report' \in [Tenants -> Reports] /\ IdsCover' /\ AuditNeverFalseAlarm'
             /\ reply' = reply
  <2>1. UNCHANGED <<report, reply>>
    BY <1>3 DEF BuildBlock
  <2>7. IdsCover'
    BY <1>3, BuildKeepsIdsCover DEF LInv, IInv
  <2>. QED  BY <2>1, <2>7 DEF LInv, TypeOK, AuditNeverFalseAlarm
<1>4. ASSUME NEW w \in Writers, AppendBlock(w)
      PROVE  report' \in [Tenants -> Reports] /\ IdsCover' /\ AuditNeverFalseAlarm'
             /\ reply' = reply
  <2>2. UNCHANGED <<report, reply>>
    BY <1>4 DEF AppendBlock
  <2>7. IdsCover'
    BY <1>4, AppendKeepsIdsCover DEF LInv, IInv
  <2>. QED  BY <2>2, <2>7 DEF LInv, TypeOK, AuditNeverFalseAlarm
<1>5. ASSUME NEW t \in Tenants, VerifyTenant(t)
      PROVE  report' \in [Tenants -> Reports] /\ IdsCover' /\ AuditNeverFalseAlarm'
             /\ reply' = reply
  <2>1. verify_chain(store[t]) = [status |-> "ok", block_id |-> 0]
    BY VerifyIntactOk DEF LInv, IInv, StoreTypeOK, IntactChains
  <2>2. report' = [report EXCEPT ![t] = [status |-> "ok", blocks_verified |-> Len(store[t]),
                                         block_id |-> 0]]
    BY <1>5, <2>1 DEF VerifyTenant, get_blocks
  <2>3. Len(store[t]) \in 0..MaxBlocks
    BY StoreLenBound, Zenon DEF LInv, IInv
  <2>4. UNCHANGED <<store, pending, nextId>>
    BY <1>5 DEF VerifyTenant
  <2>5. report' \in [Tenants -> Reports]
    <3>1. [status |-> "ok", blocks_verified |-> Len(store[t]), block_id |-> 0] \in Reports
      BY <2>3, LedgerAssumption DEF Reports
    <3>. QED  BY <2>2, <3>1 DEF LInv, TypeOK
  <2>6. IdsCover'
    BY <2>4 DEF LInv, IdsCover, PendingOf
  <2>7. AuditNeverFalseAlarm'
    BY <2>2 DEF LInv, TypeOK, AuditNeverFalseAlarm
  <2>. QED  BY <1>5, <2>5, <2>6, <2>7 DEF VerifyTenant
<1>6. ASSUME NEW t \in Tenants, Count(t)
      PROVE  reply' \in [count : 0..MaxBlocks] /\ UNCHANGED <<store, pending, nextId, report>>
  <2>1. Len(store[t]) \in 0..MaxBlocks
    BY StoreLenBound, Zenon DEF LInv, IInv
  <2>. QED  BY <1>6, <2>1 DEF Count
<1>7. ASSUME NEW id \in Ids, GetBlock(id)
      PROVE  reply' \in Blocks \cup {not_found("LedgerBlock", i) : i \in Ids}
             /\ UNCHANGED <<store, pending, nextId, report>>
  <2>1. \A u \in Tenants : \A i \in 1..Len(store[u]) : store[u][i] \in Blocks
    BY DEF LInv, IInv, StoreTypeOK
  <2>. QED  BY <1>7, <2>1 DEF GetBlock
<1>8. ASSUME UNCHANGED <<store, pending, nextId, report>>
      PROVE  IdsCover' /\ AuditNeverFalseAlarm' /\ report' \in [Tenants -> Reports]
  BY <1>8 DEF LInv, TypeOK, IdsCover, PendingOf, AuditNeverFalseAlarm
<1>9. TypeOK /\ reply' = reply => reply' \in Blocks \cup {not_found("LedgerBlock", i) : i \in Ids}
                                           \cup [count : 0..MaxBlocks]
  BY DEF TypeOK
<1>10. CASE UNCHANGED vars
  BY <1>1, <1>2, <1>8, <1>9, <1>10 DEF vars, LInv, TypeOK
<1>. QED  BY <1>1, <1>2, <1>3, <1>4, <1>5, <1>6, <1>7, <1>8, <1>9, <1>10 DEF Next, LInv, TypeOK

(* Every report and reply of the ledger is well typed when callers are     *)
(* serialised per tenant: verify_tenant's count and count's length never   *)
(* exceed MaxBlocks, since each block drew a fresh id.                     *)
THEOREM TypeCorrect ==
    ASSUME SerialCallers
    PROVE  Spec => []TypeOK
BY InitLInv, NextLInv, PTL DEF Spec, LInv

(* No false alarm: with callers serialised per tenant, verify_tenant never *)
(* reports a LedgerIntegrityViolation, since every chain it walks is       *)
(* intact and verify_chain answers Ok for an intact chain.                 *)
THEOREM AuditNeverFalseAlarmHolds ==
    ASSUME SerialCallers
    PROVE  Spec => []AuditNeverFalseAlarm
BY InitLInv, NextLInv, PTL DEF Spec, LInv

-----------------------------------------------------------------------------
(* One step of the storage, seen through the store alone, is a step of    *)
(* AuditLog or leaves the store as it was.                                 *)
LEMMA NextRefines ==
    StoreTypeOK /\ [Next]_vars => [AL!Next]_store
<1> SUFFICES ASSUME StoreTypeOK, [Next]_vars PROVE [AL!Next]_store  OBVIOUS
<1>1. ASSUME NEW w \in Writers, AppendBlock(w) PROVE AL!Next
  <2> DEFINE b == pending[w]
             t == b.tenant_id
             new == Append(store[t], b)
  <2>1. b \in Blocks /\ t \in Tenants /\ store[t] \in Seq(Blocks)
    BY <1>1 DEF AppendBlock, StoreTypeOK, Blocks
  <2>2. store' = [store EXCEPT ![t] = new]
    BY <1>1 DEF AppendBlock
  <2>3. store'[t] = new
    BY <2>1, <2>2 DEF StoreTypeOK
  <2>4. new # << >> /\ new[Len(new)] = b
    BY <2>1, AppendProperties, EmptySeq
  <2>5. AL!Write(t)
    BY <2>2, <2>3, <2>4 DEF AL!Write
  <2>. QED  BY <2>1, <2>5 DEF AL!Next
<1>2. CASE \E w \in Writers : BuildBlock(w)
  BY <1>2 DEF BuildBlock
<1>3. CASE \E t \in Tenants : VerifyTenant(t) \/ Count(t)
  BY <1>3 DEF VerifyTenant, Count
<1>4. CASE \E id \in Ids : GetBlock(id)
  BY <1>4 DEF GetBlock
<1>5. CASE UNCHANGED vars
  BY <1>5 DEF vars
<1>. QED  BY <1>1, <1>2, <1>3, <1>4, <1>5 DEF Next

(* The in-memory storage implements its contract (spec 4.4): with any      *)
(* number of callers per tenant, racing or not, every tenant's stored Vec  *)
(* only grows by one block of that tenant at its end, and no other Vec     *)
(* moves; nothing is rewritten, reordered or removed.                      *)
THEOREM ImplementsAuditLogHolds == Spec => ImplementsAuditLog
<1>1. Init => AL!Init
  BY DEF Init, AL!Init
<1>2. []StoreTypeOK /\ [][Next]_vars => [][AL!Next]_store
  BY NextRefines, PTL
<1>. QED  BY <1>1, <1>2, StoreTypeCorrect, PTL DEF Spec, ImplementsAuditLog, AL!Spec
=============================================================================
