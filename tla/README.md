# Formal models of AETHER-OS

TLA+ models of the Rust crates in `src/crates/`. The TLC runs check them on
small instances, and TLAPS proves them for every value of the constants.

## The system

| Crate | Part | State |
|---|---|---|
| aether-core | Domain types: ids, `LedgerBlock`, `BlockHash::genesis`, `canonical_string`, tenant, tool and memory types | none |
| aether-ledger | `LedgerBlockBuilder`; `compute_block_hash` and `verify_chain`; `InMemoryLedgerStorage`; `LedgerVerifier::verify_tenant` | `RwLock<HashMap<tenant, Vec<LedgerBlock>>>` |
| aether-policy | `PolicyEngine` with the default rules, evaluated first match wins | the rule list (fixed) |
| aether-session | `SessionManager` (`get_or_create`, `add_user_turn`, `set_summary`, `remove`, `history_len`, `len`); `SessionKey` display and parse; `ConversationHistory`; `SummaryPolicy` | `DashMap<key string, Session>` |
| aether-budget | `CostTracker`, `BudgetLimiter::check`, `BudgetAlert` | usage per tenant |

How the parts interact:

- A caller builds each audited action into a `LedgerBlock`. Its parent hash and sequence number come from the tenant's current chain, which the caller reads with `get_blocks`.
- The caller then `append`s the block.
- An auditor runs `verify_tenant`. It takes a snapshot of the blocks and re-hashes the chain.
- Each storage call holds the lock for its whole body. Between reading the head and appending, though, the lock is released.

## Modules

- **Ledger** models storage, the builder, the chain hash, `verify_chain` and `verify_tenant`.
  - `store` is the map.
  - `pending[w]` is the block caller `w` has built but not yet appended.
  - `nextId` is the next fresh block id.
  - `report` holds the last audit result.
  - `written` is a history variable: the blocks as they were appended.
  - Actions:
    - `BuildBlock(w)` reads the head with `get_blocks` and then calls `build`.
    - `AppendBlock(w)` is `append`.
    - `VerifyTenant(t)` is `verify_tenant`.
  - SHA-256 is modelled as injective.
    - `compute_block_hash(b)` is the parent digest extended by the block's id, sequence number and two payload digests. These are exactly the fields of `canonical_string`.
    - Genesis is the empty digest.
  - `verify_chain` keeps its early returns. The window loop is a recursive function.
  - `GetBlock(id)` and `Count(t)` are `get_block` and `count`; their result goes to `reply`. `get_block` searches the tenants in `HashMap` order, which is unspecified, so any tenant's hit may come first; a miss is `AetherError::not_found("LedgerBlock", id)`.
  - No fairness is assumed. Whether a caller that has built a block goes on to append it is up to the caller, which is not in the repository, so no liveness property is stated.
- **AuditLog** is the abstract specification of storage: each tenant has an append-only history, a write adds one entry of that tenant at its end, and nothing else ever changes. Ledger implements it under the mapping `log <- store` (`AL == INSTANCE AuditLog WITH log <- store`).
- **LedgerTamper** adds an attacker with write access to the backing store.
  - `TSpec` only allows rewriting a hashed field of a block that has a successor.
  - `TSpecAny` also allows editing the unhashed action field and dropping the newest block.
- **LedgerProofs**, **LedgerTamperProofs**, **BudgetProofs**, **PolicyProofs**, **HistoryProofs**, **SessionKeysProofs** and **SessionProofs** hold the TLAPS proofs. Each extends the module it proves things about.
- **MCLedger** and **MCLedgerTamper** are the model-checking instances.

## Runs

| Run | Checks | Expected result |
|---|---|---|
| `ledger_serial` (MCLedger.cfg) | With 2 tenants and one caller each: `TypeOK`, `IntactChains` and `AuditNeverFalseAlarm` hold; `ImplementsAuditLog` (the refinement: `AL!Spec` as a property) holds. | pass, about 134K states |
| `ledger_race_fork` (MCLedgerRace.cfg) | With two callers on one tenant, `IntactChains` holds. | violation: both read the empty chain and both append, so the chain forks |
| `ledger_tamper` (MCLedgerTamper.cfg) | `VerifyAgreesWithReference`: `verify_tenant` returns Ok with the block count exactly when the chain meets the reference definition `IsChain`, and otherwise names the first broken block. `OkProvesSealedBlocks`: when the audit returns Ok, no hashed field of a sealed block was changed. | pass |

Bounds:

- `MaxBlocks = 3` allows a chain of 3 blocks. That is enough for the second window of the loop and for an edit of a block in the middle of the chain.
- Two payloads make the digests differ.
- Two actions make the unhashed field matter in the tamper runs; `ledger_serial` uses one, since the action kind is read by no property there and a second one doubles the states.
- `MaxTampers = 2` allows two edits, or an edit and a later append.
- `MaxBlocks` caps `LedgerBlockId::new()`, so behaviours end.

## Findings

1. **Storage does not check the chain.** Callers that are not serialised fork the chain.
2. **The hash chain does not detect every change.** It does not detect truncation, edits of the newest block (the next append seals them), or edits of unhashed fields, so an Ok audit does not prove what spec §1 says (the stored sequence is the one written). `TamperEvident` states spec §1; `MCLedgerTamperEvident.cfg` (attacker `TSpecAny`) reproduces the counterexample — append, truncate, audit Ok. It is kept out of the run list, which is full; `ledger_tamper` shows what an Ok audit does prove.

## Proofs (LedgerProofs)

- `StoreTypeCorrect` proves `Spec => []StoreTypeOK` for any number of callers. The lemma `NextStoreType` has one case per action (build, append, audit, count, get_block).
- `ImplementsAuditLogHolds` proves `Spec => ImplementsAuditLog`, i.e. that Ledger implements AuditLog for any callers. `Init` maps to `AL!Init`; the lemma `NextRefines` shows that under `StoreTypeOK` every step is an `AL!Write` of the appended block's tenant (append) or leaves `store` unchanged (every other action). The last step combines these with `StoreTypeCorrect` by PTL.
- `IntactChainsHold` proves `Spec => []IntactChains`. It assumes `SerialCallers`: at most one caller writes each tenant. Spec §5 makes that the callers' job.

`IntactChainsHold` rests on the inductive invariant `IInv == StoreTypeOK /\ IntactChains /\ PendingExtendsHead`.

- The extra conjunct, `PendingExtendsHead`, is needed because `AppendBlock` keeps the chain intact only if the block being appended carries the hash of the current head.
- `SerialCallers` ensures that an append by one caller never moves the head another caller has read.
- The lemma `AppendKeepsChain` proves that appending a block whose parent is the head keeps `IsChain`.

`TypeCorrect` (`Spec => []TypeOK`) and `AuditNeverFalseAlarmHolds` (`Spec => []AuditNeverFalseAlarm`) also assume `SerialCallers`. They rest on `LInv == IInv /\ TypeOK /\ IdsCover /\ AuditNeverFalseAlarm`:

- `IdsCover` says a tenant's stored blocks plus its caller's pending block number at most `nextId - 1`: each drew its own fresh id. This bounds every `Len(store[t])` by `MaxBlocks` (`StoreLenBound`), which the count in a report or a `count` reply needs. `BuildKeepsIdsCover` and `AppendKeepsIdsCover` are its two steps; a second caller of one tenant could hold a second pending block, so they need `SerialCallers` too.
- `AuditNeverFalseAlarm` follows from `IntactChains` and `VerifyIntactOk`.

**What `verify_chain` computes.** The window loop is a recursive function, `windows[i] == IF ... ELSE windows[i + 1]`, i.e. a `CHOOSE` of the function that satisfies that equation. The proof does not use induction with an operator parameter, which the provers cannot instantiate:

- `Closed(bs)` writes the answer in closed form with `FirstFrom(bs, i)`, the first broken window at or after `i` (a `CHOOSE` over a finite set of integers). `ClosedSolves` shows it satisfies the equation.
- `SolutionUnique` shows that any two solutions agree. It takes the least index where they differ, using `WFMin` and `NatLessThanWellFounded` of WellFoundedInduction (lemma `NatMin`).
- So `windows` is `Closed` (`WindowsIsClosed`). This gives `VerifyIntactOk` (Ok on an intact chain) and `VerifyBrokenNamesFirst` (otherwise the violation names the first block whose parent hash is not the expected one).

## Proofs (LedgerTamperProofs)

- `VerifyAgreesWithReferenceHolds` proves `TSpec => VerifyAgreesWithReference` for any callers and any edits of the attacker. Each audit step's report is `ReferenceReport` of the Vec it read (`VerifyIsReference`, from the two `verify_chain` lemmas above and `FirstBrokenIs`). It needs only the store's type (`TStoreTypeOK`).
- `OkProvesSealedBlocksHolds` (`TSpec => OkProvesSealedBlocks`) assumes `SerialCallers`. Its inductive invariant `TInv` holds:
  - `TTypeOK`, `IdsCover` and `PendingExtendsHead`;
  - `WrittenIntact`: the history of what was appended is an intact chain. The attacker breaks `IntactChains` of the store, so the honest chain is tracked in `written` instead.
  - `StoreMirrorsWritten`: each Vec has its history's length, and its blocks agree with the history's in every field but the input digest. The newest block is untouched.

  An append keeps both: the store and the history have the same head hash (`MirrorsHead`), so the block extends both (`AppendKeepsChain`, `MirrorsAppend`). An edit keeps the Vec's length and head hash, because it touches a block with a successor (`MirrorsEdit`). A violation report names a block of the Vec, so its id is in `1..MaxBlocks` (`ReferenceReportType`).
- `OkProvesSealedBlocks` then follows step by step (`NextOkSealed`). An Ok audit means the Vec is an intact chain. Each block's successor has the parent hash append wrote. That hash is `Append(parent, canonical_string(block))` on both sides, so the canonical fields are equal, the input digest included (`MirrorsSealed`).

## Proofs (BudgetProofs)

`SpendWithinOneCallHolds` proves `Spec => []SpendWithinOneCall` under two assumptions:

- `SingleCaller`: one caller charges the tenant. With two callers the property fails (run `budget_concurrent_overshoot`).
- `Limit \in Int`: a NaN limit is left out. With a NaN limit `check` never kills, so there is no bound to prove.

The inductive invariant is `IInv`:

- the type of the state;
- `charged = usage.total_cost_usd`: the tracker has seen every call made;
- a caller at `"calling"` passed a check that saw spend below the limit;
- the property itself.

The third conjunct is what `Record` needs. Without it, nothing ties the cost a record adds to a check that saw room under the limit. The lemma `AllowedBelowLimit` shows that a check that does not kill saw `spent < Limit`. It splits on `Limit <= 0` (the fraction is 0) and `Limit > 0` (the clamped fraction is 0 once spent reaches the limit).

Two modelling choices serve the proof:

- The f64 NaN is a flag `nan` of the fraction record, not a value compared with numbers.
- `check` and `alert_type` are IF chains, which is the first-match order of the code. A CASE with overlapping guards would choose arbitrarily.

`KillReportsExhaustedSpendHolds` proves `Spec => []KillReportsExhaustedSpend` under `SingleCaller`, for every limit, NaN and non-positive ones included. Its inductive invariant `AInv` adds to the type and the property that a caller between the two reads inside `check` read the spend still recorded: with one caller no record can land in between. The lemma `DecisionKillsExhausted` says that when both reads see the same spend, a kill reports that spend and it is at least the limit (or the limit is not positive). With two callers the property fails (run `budget_stale_spent`).

## Proofs (PolicyProofs)

`DefaultRulesSafe` proves `Spec => [](CriticalNeverAllowed /\ ExhaustedBudgetDenies)` when `Rules = default_rules`. It holds for every value of `Tiers` and `Budgets`, NaN included.

- The lemma `FirstMatchDecides` says that `decide` returns the decision of the first matching rule. It holds for any rule list.
- `ExhaustedDecided`: the budget rule is first and matches a fraction of 0.
- `CriticalDenied`: either the budget rule or `critical-tool-deny-agent` is the first match, and both deny.

The two properties are inductive as they stand, because each `Evaluate` step overwrites the whole state. The corollary `ExhaustedBudgetDeniesHolds` states `Spec => []ExhaustedBudgetDenies` alone, as the run `policy_default_rules` checks it.

## Proofs (HistoryProofs)

`HistorySafe` proves `Spec => []HistoryIsSummaryThenRecent` for every policy with `trigger_at_messages > retain_after`, every `MaxAdds` and every set of summary texts. It assumes only `HistoryAssumption` (the constants are naturals) and that inequality.

`HistoryIsSummaryThenRecent` is not inductive as it stands: `IsSuffix` forgets where the suffix starts, and a step needs the messages to be `Added` records (never System) to know that a cut removes only the summary. The inductive invariant `IInv` therefore says:

- `messages` is a sequence of added messages and summary messages, and `added` a sequence of added messages;
- for some `k`, `Recent(messages)` is `SubSeq(added, k + 1, Len(added))`.

The argument has one lemma per kind of step:

- `AddStep` covers the three adds. The new message goes to the end of both sequences, with the same `k` (`RecentAppend`).
- `TruncateStep` covers `truncate_to_last(n)`. Cutting from position `Len - n + 1 >= 2` leaves only added messages, a suffix of `added` (`RecentDrop`). The history is then its own `Recent` part (`RecentNoSummary`).
- `SummarizeStep` covers the summariser. Because the length is at least the trigger and the trigger exceeds `retain_after`, the drain starts at position 2 or later, so the old summary is always cleared. `Recent` of the new history is exactly the drained part.

`SubSeqIsSuffix` turns the invariant into `IsSuffix`; it goes through `Reverse` with `ReverseProperties`. The inequality is needed: without it the invariant fails, as the History paragraph below says.

`HistoryTypeCorrect` proves `Spec => []HTypeOK` for every policy: the type is inductive as it stands.

## Proofs (SessionProofs)

`SessionMatchesLogHolds` proves `Spec => []SessionMatchesLog` under two assumptions. `SingleCaller` says one caller drives the manager; with two, an update is lost (run `session_lost_update`). `KeysPrintApart` says the keys in use print to different strings; keys that print alike share an entry (run `session_key_collision`). `AbsentAssumption`, an assumption of Session, says the marker for a missing entry is not a session.

The inductive invariant `SInv` adds to the type and the property:

- a key whose entry is absent has no summary in the log;
- a caller about to insert (after its `get` missed) targets a key whose entry is still absent. With one caller nothing can insert in between.

`AddUserTurnStep` is the heart of the proof. `add_user_turn` appends two messages and truncates to `max_history`. `TruncateIsNewest` and `NewestConcat` show that the result is `Newest` of the log with the new turn appended. There is one lemma per action, and `QuietStep` covers the reads.

`StoredKeyParsesHolds` proves `Spec => []StoredKeyParses` for any number of callers. Its one assumption, `KeysWellFormed`, says every key in use is a `Key` of two UUIDs, a channel with no ':' and any peer id. The two keys of `MCSession` satisfy it. The channel is needed: with a colon in it, `splitn(8)` cuts inside the channel (run `session_key_collision` builds such keys). The proof has two parts:

- The inductive invariant `KInv` holds however the callers interleave. It says every stored session's key prints to the string it is stored under, plus the types the steps read. `get_or_create`'s insert stores a fresh session of its own target, and `add_user_turn` and `set_summary` change a session's history or summary but never its key. TLC checked `KInv` on `MCSession` with two callers before it was proved.
- `KeyParses` applies `ParsePrinted` of SessionKeysProofs to each key in use.

## Proofs (SessionKeysProofs)

`ParsePrinted` proves `parse(to_string(Key(t, a, ch, p))) = << Key(t, a, ch, p) >>` for UUIDs t and a, any peer id p, and any channel ch holding no ':'. It needs `TextAssumption` of SessionKeys: ':' is none of the literal words and no UUID prints as it. The proof follows `splitn` as written:

- `KeyText` gives the printed key symbol by symbol.
- `KeyColons` shows that its colons, up to the one before the peer id, are at positions `KeyCuts(ch)` = 2, 4, 6, 8, 10, 11+|ch| and 13+|ch|.
- `splitn` finds the k-th colon as the colon with k-1 colons before it. `EnumCard`, `BelowPos` and `KthIsPos` show that this is the k-th of those positions, through `FS_Bijection`, `FS_CountingElements` and `FS_Subset`.
- `SplitnCuts` unfolds `splitn(8, _)` once there are 7 colons or more. `SubSeqIs` reads each of the eight parts back.

## Policy (module Policy, MCPolicy)

The engine has no state. The model is the stream of `evaluate` calls.

- **State.** `ctx`, `decision` and `result` are the last context, the decision made for it, and `Ok` or the error kind.
- **Action.** `Evaluate(c)` is `evaluate`, which calls `decide` and then `denial_error`.
- **`decide`.** Returns the first rule whose condition `matches`, or `default-deny` when none does. It is written over the set of matching indices, which has the same meaning as the loop with its early return.
- **`matches`.** One case per `RuleCondition` in `evaluate_rule`.
- **Contexts.** Only what a rule reads:
  - agent tier, in 0..5, since `AgentTier` is a bare u8;
  - user role, or none;
  - budget fraction, from {0, 0.10, 1.0, NaN};
  - approval flag;
  - tool access level, or `NotTool` for the agent, workflow and memory resources.

  Each run covers all 1,200 contexts.

| Run | Result | What it checks |
|---|---|---|
| `policy_default_rules` | pass | `CriticalNeverAllowed`; `ExhaustedBudgetDenies` (fraction 0 is denied by `budget-exhausted-deny`) |
| `policy_documented_gates` (MCPolicyDocumented.cfg) | violation | `DefaultRulesAsDocumented`, the two gates the rule comments promise. A tier 3 agent calling a PROTECTED tool is allowed by `public-tool-allow-all`, against "PROTECTED tools require Tier <= 2"; and no default rule reads `restricted_approved`, so an approved agent is denied RESTRICTED tools. The state TLC reports is the second: tier 0, budget 10, approved, a RESTRICTED tool, denied. The first breaks the other conjunct, `ProtectedRequiresTier2` (TLC checking that conjunct alone reports a tier 3 agent allowed a PROTECTED tool). |

## Session (modules SessionKeys, ConversationHistory, Session, History)

- **SessionKeys** models `SessionKey` (keys.rs) and the id newtypes' `Display`/`FromStr` (ids.rs).
  - A string is a sequence of symbols: the separator `Colon` or a word without ':' (a literal such as "peer", a piece of user text, or a printed UUID). Splitting looks only at `Colon`, which is all `splitn` reads.
  - `to_string` is `Display`: "tenant:{t}:agent:{a}:channel:{channel}:peer:{peer}".
  - `splitn(n, s)` splits at the first n - 1 colons; `parse` is `SessionKey::parse` (8 parts, the four literals, both ids parse). `Some(k)` is `<< k >>`, `None` is `<< >>`.
- **ConversationHistory** holds `add_user`, `add_assistant`, `add_tool_result`, `truncate_to_last`, `replace_with_summary` (with `saturating_sub` and the summary header) and `SummaryPolicy` as operators on a sequence of `MemoryMessage` records. Session and History both use them.
- **Session** is `SessionManager`.
  - `sessions` is the `DashMap`, indexed by the key *string* `to_string(k)`, as the code indexes it; each entry is a `Session` or `Absent`.
  - A message is its role and, as content, the number of the turn that wrote it.
  - A `Session` record keeps its `key`, as the code's does.
  - `pc` and `target` track a caller that is inside `get_or_create`; `ret` is the clone it returned; `read` is what `history_len` or `len` returned.
  - `get_or_create` takes two steps, because the shard lock is released between `get` and `insert`: `GetOrCreateHit` / `GetOrCreateMiss`, then `GetOrCreateInsert`. `add_user_turn` (entry lock held: create if absent, `add_user`, `add_assistant`, count, truncate), `set_summary`, `remove`, `history_len` and `len` are one step each.
  - Ghost variables `log` (turns added per `SessionKey` since its last removal) and `sumLog` (last summary set) record what should be stored.
- **History** drives one `ConversationHistory` the way summary.rs describes it: user, assistant and tool messages are added, a caller may truncate, and whenever `should_summarize` holds the summariser calls `replace_with_summary(s, retain_after)`. The n-th message added has content `<< n >>`; the ghost `added` keeps every message added. No code in the repository calls the summariser yet, so this is the use the policy documents.

Bounds. Session: 2 keys, `max_history = 4`, 3 turns (the third turn truncates 6 messages to 4); one key's peer id is "x:peer". History: the tests' ratio trigger > retain + 1 at trigger 4, retain 2, 8 messages, two summary texts, truncation to 0..4 — enough for three summarisations in a row and a truncation that cuts the summary.

| Run | Result | What it checks |
|---|---|---|
| `session_serial` (MCSession.cfg) | pass, 1 caller | `SessionMatchesLog`: the stored history is the newest `max_history` messages of the logged turns, and the summary is the last one set; stated without `truncate_to_last`. `StoredKeyParses`: parsing the map key a session is stored under gives back the `SessionKey` it was created for; one of the two keys has ':' in its peer id, which `splitn(8)` keeps in the last part. |
| `session_lost_update` (MCSessionRace.cfg) | violation | Caller A misses on the lookup. Caller B's `add_user_turn` then creates the session and adds a turn. A's insert replaces it with an empty session. |
| `session_key_collision` (MCSessionCollide.cfg) | violation | Keys with channel "x:peer:x", peer "x" and channel "x", peer "x:peer:x" print alike, so one `add_user_turn` shows up in both peers' sessions. |
| `history_summary` (MCHistory.cfg) | pass | `HistoryIsSummaryThenRecent`: the history is at most one System summary, at its front, then a suffix of the messages added, in order and without gaps. |

`HistoryIsSummaryThenRecent` fails for a policy with `trigger_at_messages <= retain_after` (tried with 2 / 3): `replace_with_summary` then keeps the earlier summary behind the new one, and summaries stack. No policy in the code is configured that way, and nothing rejects one. For every policy with trigger above retain, `HistorySafe` proves the property.

## Budget (module Budget, MCBudget)

- **State.**
  - `usage` holds the tenant's `TenantUsage`: the cost and the number of calls. Token counters are left out because nothing reads them.
  - `charged` is a ghost variable: the total cost of the calls actually made.
- **Callers.** They follow the protocol that `check` documents (check before each call), then record the call's cost.
- **`check`.** It reads `usage` twice, and the two reads are separate steps:
  - `CheckUsage`: the `spent` read;
  - `CheckFraction`: the read inside `budget_remaining_fraction`, followed by the thresholds.
  - The outcome carries what the code reports: Kill (`BudgetExceeded`) carries the spend of the first read; Degrade and Alert carry the remaining fraction of the second read, which their text prints as a percentage; Allow carries nothing.
- **Numbers.**
  - Money is integer cents.
  - The f64 quotients are compared as exact rationals, which is exact at the boundaries tested.
  - NaN is a model value, and every comparison with it is false.
  - f64 rounding in long sums is not modelled.
- **Bounds.** Limit 10, costs {1, 3, 4}. These make the spend land exactly on the 75%, 90% and 100% boundaries.

| Run | Result | What it checks |
|---|---|---|
| `budget_serial` | pass | `SpendWithinOneCall`: the true spend exceeds the limit by less than one call. `KillReportsExhaustedSpend`: every `BudgetExceeded` reports a spend that `BudgetAlert::new` classes as Exhausted, for spend landing exactly on the limit too. |
| `budget_concurrent_overshoot` | violation | Two callers overshoot the limit. |
| `budget_stale_spent` | violation | `KillReportsExhaustedSpend`. Because of the two reads, `check` reports `BudgetExceeded` with a spend below the limit: in TLC's trace, one caller's first read sees 0, the other caller's records bring the spend to 10, and the second read kills with spent 0. |

## Observed but not given a run

The project has at most 12 runs, so these are recorded as hazards or notes:

- **Tamper evidence (spec §1).** See finding 2: `MCLedgerTamperEvident.cfg` reproduces it.
- **`AlwaysDeny`.** It is documented as an "always-false sentinel", but `evaluate_rule` treats it as matching every context.
- **`turns_since_summary`.** Documented as a count since the last summary, but `set_summary` never resets it. Nothing reads it, so no behaviour depends on it.
- **NaN limit.** A NaN `limit_usd` makes `check` return Allow, because every threshold comparison is false. A limit <= 0 kills instead. A NaN budget fraction also skips `budget-exhausted-deny` in the policy engine.
- **Odd `max_history`.** Truncation then splits a turn, so the history starts with an assistant reply. `SessionMatchesLog` only states that the newest messages are kept.
- **Integrity error detail (spec §7).** Spec §7 asks a chain-integrity violation to carry the block's sequence number and the expected and actual hash. The first-block error of `verify_chain` carries only a reason text, and `AetherError::context()` gives no structured context for `LedgerIntegrityViolation`.

## What stays with TLC

- Liveness: the project states none. The only candidate, that a built block is eventually appended, rests on the callers, which are outside the repository. TLAPS could not prove liveness or reason about ENABLED here anyway.
- The violation runs: the lost update and the key collision in Session, the two-caller runs of Ledger and Budget, the documented gates of Policy (`policy_documented_gates`), and `TamperEvident` against the `TSpecAny` attacker. They are counterexamples, not theorems.
- The theorems assume what their runs assume: serial or single callers. What happens with racing callers beyond the counterexamples is only model-checked, on the instances of the runs.

## Mutants

Each property of a passing run is shown to catch a plausible bug in the code it is about. The seeded faults are defined next to the operators they replace (`*_genesis_parent`, `decide_last_match`, `check_kill_on_degrade`, `Record_overwrite`, and so on).

## Not modelled

- Lock poisoning: nothing panics under these locks, so `append` and the reads never take their error path.
- In aether-core: `ErrorCode`, `ErrorEnvelope` and `AetherError::code`/`context` (a fixed mapping of variants, no state), tenant tiers and quotas, tool definitions, `ToolDefinition::validate` and results, memory tiers and scopes. They are data and constructors with no state, no concurrency and no caller in the modelled crates beyond what is listed above (`not_found`, the id newtypes, `MemoryMessage`).

## Plan for later work

- A proof that `verify_tenant` under `TSpecAny` still answers as the reference (`VerifyAgreesWithReferenceHolds` covers only `TSpec`; `VerifyIsReference` already holds for any Vec).
- A proof that the two seeded `verify_chain` faults differ from the reference, to go with their mutant runs.
