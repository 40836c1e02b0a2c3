------------------------------- MODULE Ledger -------------------------------
(***************************************************************************)
(* The tenant-isolated, hash-chained audit ledger of aether-ledger:        *)
(*   - InMemoryLedgerStorage (storage.rs): a map tenant -> Vec<LedgerBlock> *)
(*     behind one RwLock; append pushes, get_blocks clones;                *)
(*   - LedgerBlockBuilder::build (block.rs) and compute_block_hash         *)
(*     (chain.rs) used by a caller to extend a tenant's chain;             *)
(*   - LedgerVerifier::verify_tenant (verify.rs) running verify_chain      *)
(*     (chain.rs) over a snapshot of a tenant's blocks.                    *)
(* Every storage operation takes the lock for its whole body, so each is   *)
(* one atomic step.  A caller (spec section 5) reads the head with         *)
(* get_blocks, builds the next block, and appends it in a later step: the  *)
(* lock is released in between, which is where concurrent callers race.    *)
(***************************************************************************)
EXTENDS Naturals, Sequences

CONSTANTS
    Tenants,      \* TenantId values (opaque)
    Writers,      \* callers that build and append blocks
    WriterTenant, \* the tenant each caller writes for
    Actions,      \* LedgerAction kinds (not hashed)
    Payloads,     \* serde_json::Value payloads, including Null
    MaxBlocks,    \* bound on LedgerBlockId::new() calls, i.e. on blocks built
    NoBlock       \* a caller holding no built block

ASSUME LedgerAssumption ==
    /\ WriterTenant \in [Writers -> Tenants]
    /\ MaxBlocks \in Nat

(***************************************************************************)
(* Digests.  SHA-256 is modelled by what the code relies on: it is         *)
(* injective on its input.  hash_value(v) is a value determined by the     *)
(* payload alone; compute_block_hash(b) digests the canonical string       *)
(* "{id}|{seq}|{input_hash}|{output_hash}|{parent_hash}", so it is an      *)
(* injective function of those five fields and nothing else: we represent  *)
(* it as the parent digest extended by the other four.  The genesis hash   *)
(* ("0" x 64) is the empty digest, different from every computed one.      *)
(***************************************************************************)
(* LedgerBlockId::new() draws a fresh v4 UUID; the ids are numbered in  *)
(* the order they are drawn.                                              *)
Ids == 1..MaxBlocks

hash_value(p) == [sha256_of |-> p]

PayloadHashes == {hash_value(p) : p \in Payloads}

CanonicalFields == [id : Ids, seq : Nat, input_hash : PayloadHashes,
                    output_hash : PayloadHashes]

Hashes == Seq(CanonicalFields)

Genesis == << >>

(* Seeded fault: the canonical string formats output_hash where input_hash *)
(* belongs (a copy-paste slip), so the input digest is not chained.        *)
canonical_string_output_twice(b) ==
    [id |-> b.id, seq |-> b.sequence_number, input_hash |-> b.output_hash,
     output_hash |-> b.output_hash]

canonical_string(b) == [id |-> b.id, seq |-> b.sequence_number,
                        input_hash |-> b.input_hash,
                        output_hash |-> b.output_hash]

compute_block_hash(b) == Append(b.parent_hash, canonical_string(b))

(* A LedgerBlock, keeping the fields hashing, storage or verification read *)
(* plus the unhashed action kind.                                          *)
Blocks == [id : Ids, sequence_number : Nat, tenant_id : Tenants,
           action : Actions, input_hash : PayloadHashes,
           output_hash : PayloadHashes, parent_hash : Hashes]

VARIABLES
    store,    \* InMemoryLedgerStorage.blocks: tenant -> Vec<LedgerBlock>
    pending,  \* the block a caller has built and not yet appended
    nextId,   \* next fresh LedgerBlockId
    report,   \* last result of verify_tenant per tenant
    written,  \* history: every block ever appended, per tenant, as appended
    reply     \* result of the last get_block or count call

vars == <<store, pending, nextId, report, written, reply>>

(* Results of verify_tenant: Ok(VerificationReport) or the block id of a   *)
(* LedgerIntegrityViolation.                                               *)
Reports == [status : {"none", "ok", "violation"},
            blocks_verified : 0..MaxBlocks, block_id : 0..MaxBlocks]

NoReport == [status |-> "none", blocks_verified |-> 0, block_id |-> 0]

NoReply == [count |-> 0]

(* AetherError::not_found(resource, id): the NotFound variant.            *)
not_found(resource, id) == [code |-> "NotFound", resource |-> resource, id |-> id]

(* get_blocks: the tenant's Vec as stored (empty when the key is absent).  *)
get_blocks(t) == store[t]

(* The parent_hash a caller gives the next block: genesis for an empty     *)
(* chain, else compute_block_hash of the last block get_blocks returned.   *)
HeadHash(bs) == IF bs = << >> THEN Genesis ELSE compute_block_hash(bs[Len(bs)])

(* Seeded faults in build: the parent hash is dropped for genesis; the    *)
(* payloads are stored undigested.                                         *)
build_genesis_parent(id, t, a, i, o, parent, seq) ==
    [id |-> id, sequence_number |-> seq, tenant_id |-> t, action |-> a,
     input_hash |-> hash_value(i), output_hash |-> hash_value(o),
     parent_hash |-> Genesis]

build_raw_payload(id, t, a, i, o, parent, seq) ==
    [id |-> id, sequence_number |-> seq, tenant_id |-> t, action |-> a,
     input_hash |-> i, output_hash |-> hash_value(o), parent_hash |-> parent]

(* LedgerBlockBuilder::new(...).input(i).output(o).build()                 *)
build(id, t, a, i, o, parent, seq) ==
    [id |-> id, sequence_number |-> seq, tenant_id |-> t, action |-> a,
     input_hash |-> hash_value(i), output_hash |-> hash_value(o),
     parent_hash |-> parent]

(* Seeded faults in verify_chain: each window hashes the current block    *)
(* instead of the previous one; the windows start one pair late.           *)
verify_chain_hash_curr(bs) ==
    LET ok == [status |-> "ok", block_id |-> 0]
        violation(b) == [status |-> "violation", block_id |-> b.id]
        windows[i \in 2..Len(bs) + 1] ==
            IF i > Len(bs) THEN ok
            ELSE IF bs[i].parent_hash # compute_block_hash(bs[i])
                 THEN violation(bs[i])
                 ELSE windows[i + 1]
    IN  IF bs = << >> THEN ok
        ELSE IF bs[1].parent_hash # Genesis THEN violation(bs[1])
        ELSE windows[2]

verify_chain_skip_first_window(bs) ==
    LET ok == [status |-> "ok", block_id |-> 0]
        violation(b) == [status |-> "violation", block_id |-> b.id]
        windows[i \in 2..Len(bs) + 2] ==
            IF i > Len(bs) THEN ok
            ELSE IF bs[i].parent_hash # compute_block_hash(bs[i - 1])
                 THEN violation(bs[i])
                 ELSE windows[i + 1]
    IN  IF bs = << >> THEN ok
        ELSE IF bs[1].parent_hash # Genesis THEN violation(bs[1])
        ELSE windows[3]

(* verify_chain: empty is Ok; the first parent must be genesis; then each  *)
(* window (prev, curr) in order, returning at the first mismatch.          *)
verify_chain(bs) ==
    LET ok == [status |-> "ok", block_id |-> 0]
        violation(b) == [status |-> "violation", block_id |-> b.id]
        windows[i \in 2..Len(bs) + 1] ==
            IF i > Len(bs) THEN ok
            ELSE IF bs[i].parent_hash # compute_block_hash(bs[i - 1])
                 THEN violation(bs[i])
                 ELSE windows[i + 1]
    IN  IF bs = << >> THEN ok
        ELSE IF bs[1].parent_hash # Genesis THEN violation(bs[1])
        ELSE windows[2]

-----------------------------------------------------------------------------
Init ==
    /\ store = [t \in Tenants |-> << >>]
    /\ pending = [w \in Writers |-> NoBlock]
    /\ nextId = 1
    /\ report = [t \in Tenants |-> NoReport]
    /\ written = [t \in Tenants |-> << >>]
    /\ reply = NoReply

(* A caller reads its tenant's blocks (get_blocks, under the read lock)    *)
(* and builds the next block: sequence number count + 1, parent the head's *)
(* chain hash, a fresh id, digests of its input and output payloads.       *)
BuildBlock(w) ==
    LET t  == WriterTenant[w]
        bs == get_blocks(t)
    IN  /\ pending[w] = NoBlock
        /\ nextId <= MaxBlocks
        /\ \E a \in Actions, i \in Payloads, o \in Payloads :
              pending' = [pending EXCEPT ![w] =
                            build(nextId, t, a, i, o, HeadHash(bs), Len(bs) + 1)]
        /\ nextId' = nextId + 1
        /\ UNCHANGED <<store, report, written, reply>>

(* Seeded fault in append: the write rebuilds the map with the written   *)
(* tenant's Vec only.                                                      *)
AppendBlock_rebuild_map(w) ==
    LET b == pending[w]
    IN  /\ b # NoBlock
        /\ store' = [t \in Tenants |->
                       IF t = b.tenant_id THEN Append(store[t], b) ELSE << >>]
        /\ written' = [written EXCEPT ![b.tenant_id] = Append(@, b)]
        /\ pending' = [pending EXCEPT ![w] = NoBlock]
        /\ UNCHANGED <<nextId, report, reply>>

(* append: under the write lock, push the block onto the Vec keyed by its  *)
(* own tenant_id; nothing about the chain is checked.                      *)
AppendBlock(w) ==
    LET b == pending[w]
    IN  /\ b # NoBlock
        /\ store' = [store EXCEPT ![b.tenant_id] = Append(@, b)]
        /\ written' = [written EXCEPT ![b.tenant_id] = Append(@, b)]
        /\ pending' = [pending EXCEPT ![w] = NoBlock]
        /\ UNCHANGED <<nextId, report, reply>>

(* get_block: under the read lock, search every tenant's Vec for the id;  *)
(* the first hit is returned, not_found when there is none.  HashMap       *)
(* iteration order is unspecified, so any hit may come first.              *)
GetBlock(id) ==
    LET hits == UNION {{store[t][i] : i \in 1..Len(store[t])} : t \in Tenants}
        found == {b \in hits : b.id = id}
    IN  /\ IF found = {} THEN reply' = not_found("LedgerBlock", id)
           ELSE \E b \in found : reply' = b
        /\ UNCHANGED <<store, pending, nextId, report, written>>

(* count: the length of the tenant's Vec, 0 when the key is absent.       *)
Count(t) ==
    /\ reply' = [count |-> Len(store[t])]
    /\ UNCHANGED <<store, pending, nextId, report, written>>

(* verify_tenant: snapshot with get_blocks, count it, run verify_chain;    *)
(* Ok carries the count, a broken chain surfaces as the violation error.   *)
VerifyTenant(t) ==
    LET bs == get_blocks(t)
        r  == verify_chain(bs)
    IN  /\ report' = [report EXCEPT ![t] =
                        [status |-> r.status,
                         blocks_verified |-> IF r.status = "ok" THEN Len(bs) ELSE 0,
                         block_id |-> r.block_id]]
        /\ UNCHANGED <<store, pending, nextId, written, reply>>

Next ==
    \/ \E w \in Writers : BuildBlock(w) \/ AppendBlock(w)
    \/ \E t \in Tenants : VerifyTenant(t) \/ Count(t)
    \/ \E id \in Ids : GetBlock(id)

Spec == Init /\ [][Next]_vars

-----------------------------------------------------------------------------
(* Callers are serialised per tenant: no two callers write one tenant.     *)
(* Spec section 5 makes this the callers' duty; storage does not check it. *)
SerialCallers ==
    \A w1, w2 \in Writers : WriterTenant[w1] = WriterTenant[w2] => w1 = w2

(* The parent hash block i of a chain must carry.                          *)
ExpectedParent(bs, i) == IF i = 1 THEN Genesis ELSE compute_block_hash(bs[i - 1])

(* Reference definition of an intact chain (spec section 4.3).             *)
IsChain(bs) == \A i \in 1..Len(bs) : bs[i].parent_hash = ExpectedParent(bs, i)

(* Types of the storage and caller state, and of the audit reports.       *)
StoreTypeOK ==
    /\ store \in [Tenants -> Seq(Blocks)]
    /\ pending \in [Writers -> Blocks \cup {NoBlock}]
    /\ nextId \in 1..MaxBlocks + 1
    /\ written \in [Tenants -> Seq(Blocks)]

TypeOK ==
    /\ StoreTypeOK
    /\ report \in [Tenants -> Reports]
    /\ reply \in Blocks \cup {not_found("LedgerBlock", id) : id \in Ids}
                \cup [count : 0..MaxBlocks]

(* A built block not yet appended extends the head its caller read.       *)
PendingExtendsHead ==
    \A w \in Writers :
        pending[w] # NoBlock =>
            /\ pending[w].tenant_id = WriterTenant[w]
            /\ pending[w].parent_hash = HeadHash(store[WriterTenant[w]])

(* Hash-chain continuity: every tenant's stored blocks form an intact      *)
(* chain from genesis.  Breaking it takes a caller reading the head, and   *)
(* another append to that tenant landing before the caller's own append.   *)
IntactChains == \A t \in Tenants : IsChain(store[t])

(* No false alarm: verify_tenant never reports an integrity violation for  *)
(* a ledger nobody tampered with (the chain is checked window by window    *)
(* against the hash of the block before).                                  *)
AuditNeverFalseAlarm == \A t \in Tenants : report[t].status # "violation"

(* The storage keeps its contract (spec 4.4 and the non-goals of section   *)
(* 1): seen through the store alone, every behaviour is one of AuditLog,   *)
(* where a tenant's history only ever grows by one entry of that tenant at *)
(* its end and no other tenant's history moves.                            *)
AL == INSTANCE AuditLog WITH log <- store

ImplementsAuditLog == AL!Spec
=============================================================================
