------------------------------- MODULE Budget -------------------------------
(***************************************************************************)
(* Budget enforcement of aether-budget: CostTracker (tracker.rs), a map    *)
(* tenant -> TenantUsage behind an RwLock; BudgetLimiter::check            *)
(* (limiter.rs), which callers run before each tool or LLM call and which  *)
(* reads the usage twice, once itself and once inside                      *)
(* budget_remaining_fraction; BudgetAlert::new (alerts.rs), which          *)
(* classifies a spend.  Callers check, make the call if not killed, and    *)
(* record its cost; each lock-holding call is one atomic step.             *)
(*                                                                         *)
(* Abstractions: one tenant (usage is keyed by tenant and never crosses    *)
(* keys); token counters are left out (nothing reads them); dollars are    *)
(* integers (cents) and the f64 quotients are compared as exact rationals; *)
(* the limit may be NaN, the f64 value every comparison is false on.       *)
(***************************************************************************)
EXTENDS Integers

CONSTANTS
    Callers,   \* concurrent callers charging the tenant
    Costs,     \* LlmCost::cost_usd values of single calls
    Limit,     \* limit_usd the callers pass to check
    NaN,       \* the f64 NaN
    MaxCalls   \* bound on recorded calls

ASSUME BudgetAssumption ==
    /\ Costs \subseteq Nat \ {0}
    /\ Limit \in Int \cup {NaN}
    /\ NaN \notin Int
    /\ MaxCalls \in Nat

(* Thresholds on the remaining fraction, as num / den.                    *)
KILL_THRESHOLD == [num |-> 0, den |-> 1]
DEGRADE_THRESHOLD == [num |-> 10, den |-> 100]
ALERT_THRESHOLD == [num |-> 25, den |-> 100]

(* budget_remaining_fraction: 0 for a limit <= 0; otherwise              *)
(* (limit - spent) / limit clamped to [0, 1], as num / den; a NaN limit   *)
(* gives a NaN fraction (NaN <= 0.0 is false and NaN.clamp(..) is NaN).   *)
budget_remaining_fraction(spent, limit) ==
    IF limit = NaN THEN [nan |-> TRUE, num |-> 0, den |-> 1]
    ELSE IF limit <= 0 THEN [nan |-> FALSE, num |-> 0, den |-> 1]
    ELSE [nan |-> FALSE,
          num |-> IF limit - spent < 0 THEN 0
                  ELSE IF limit - spent > limit THEN limit ELSE limit - spent,
          den |-> limit]

(* f64 "fraction <= threshold": false for NaN.                            *)
FracLe(f, t) == ~f.nan /\ f.num * t.den <= t.num * f.den

(* Seeded fault: the kill branch is tested against the degrade threshold. *)
check_kill_on_degrade(spent, f) ==
    IF FracLe(f, DEGRADE_THRESHOLD) THEN [action |-> "Kill", spent |-> spent]
    ELSE IF FracLe(f, ALERT_THRESHOLD) THEN [action |-> "Alert", remaining |-> f]
    ELSE [action |-> "Allow"]

(* The outcome of check from the usage it read (spent) and the fraction   *)
(* budget_remaining_fraction computed: the thresholds are tried in order  *)
(* and the first one reached returns.  Kill is the BudgetExceeded error,  *)
(* the only outcome that reports spent; Degrade and Alert report the      *)
(* share spent, (1 - f) * 100, in their text, so they carry f; Allow      *)
(* carries nothing.                                                        *)
check(spent, f) ==
    IF FracLe(f, KILL_THRESHOLD) THEN [action |-> "Kill", spent |-> spent]
    ELSE IF FracLe(f, DEGRADE_THRESHOLD) THEN [action |-> "Degrade", remaining |-> f]
    ELSE IF FracLe(f, ALERT_THRESHOLD) THEN [action |-> "Alert", remaining |-> f]
    ELSE [action |-> "Allow"]

(* BudgetAlert::new: pct = spent / limit * 100 capped at 100 for a limit  *)
(* > 0, else 100; Exhausted from 100%, Critical from 90%, else Warning.   *)
(* pct >= p is compared as spent * 100 >= p * limit.                       *)
alert_type(spent, limit) ==
    LET pctAtLeast(p) == IF limit # NaN /\ limit > 0
                         THEN spent * 100 >= p * limit ELSE TRUE
    IN  IF pctAtLeast(100) THEN "Exhausted"
        ELSE IF pctAtLeast(90) THEN "Critical"
        ELSE "Warning"

-----------------------------------------------------------------------------
VARIABLES
    usage,     \* TenantUsage: [total_cost_usd, total_calls]
    pc,        \* caller: "idle", "fraction" (usage read), "calling"
    spentRead, \* the total_cost_usd check read in its first get_usage
    result,    \* the last outcome of check, per caller
    charged    \* ghost: the cost of every call made

vars == <<usage, pc, spentRead, result, charged>>

NoResult == [action |-> "none"]

Init ==
    /\ usage = [total_cost_usd |-> 0, total_calls |-> 0]
    /\ pc = [c \in Callers |-> "idle"]
    /\ spentRead = [c \in Callers |-> 0]
    /\ result = [c \in Callers |-> NoResult]
    /\ charged = 0

(* check, first read: get_usage under the read lock.                      *)
CheckUsage(c) ==
    /\ pc[c] = "idle"
    /\ usage.total_calls < MaxCalls
    /\ spentRead' = [spentRead EXCEPT ![c] = usage.total_cost_usd]
    /\ pc' = [pc EXCEPT ![c] = "fraction"]
    /\ UNCHANGED <<usage, result, charged>>

(* check, second read: budget_remaining_fraction reads the usage again,   *)
(* then the thresholds decide; a caller not killed goes on to its call.    *)
CheckFraction(c) ==
    LET r == check(spentRead[c],
                   budget_remaining_fraction(usage.total_cost_usd, Limit))
    IN  /\ pc[c] = "fraction"
        /\ result' = [result EXCEPT ![c] = r]
        /\ pc' = [pc EXCEPT ![c] = IF r.action = "Kill" THEN "idle" ELSE "calling"]
        /\ UNCHANGED <<usage, spentRead, charged>>

(* Seeded fault: record assigns the cost instead of adding it.           *)
Record_overwrite(c) ==
    /\ pc[c] = "calling"
    /\ \E cost \in Costs :
          /\ usage' = [total_cost_usd |-> cost,
                       total_calls |-> usage.total_calls + 1]
          /\ charged' = charged + cost
    /\ pc' = [pc EXCEPT ![c] = "idle"]
    /\ UNCHANGED <<spentRead, result>>

(* The caller makes its call, incurring its cost, and records it: under   *)
(* the write lock, add the cost and count the call.                       *)
Record(c) ==
    /\ pc[c] = "calling"
    /\ \E cost \in Costs :
          /\ usage' = [total_cost_usd |-> usage.total_cost_usd + cost,
                       total_calls |-> usage.total_calls + 1]
          /\ charged' = charged + cost
    /\ pc' = [pc EXCEPT ![c] = "idle"]
    /\ UNCHANGED <<spentRead, result>>

Next == \E c \in Callers : CheckUsage(c) \/ CheckFraction(c) \/ Record(c)

Spec == Init /\ [][Next]_vars

-----------------------------------------------------------------------------
(* The limit stops spending, measured by what the calls really cost and  *)
(* not by the tracker: every call is let through by a check that saw      *)
(* spend below the limit, so the total stays below the limit plus one     *)
(* call's cost, and nothing is spent when the limit is not positive.      *)
(* Overshooting takes checks of several callers that all run before any   *)
(* of their records.                                                       *)
SpendWithinOneCall ==
    Limit \in Int => charged = 0 \/ \E x \in Costs : charged < Limit + x

(* BudgetExceeded reports an exhausted spend: when check kills, the spend  *)
(* it puts in the error is one BudgetAlert::new classes as Exhausted.     *)
(* It fails when the two reads of usage inside check see different spend: *)
(* a record landing between them kills on the second read while the      *)
(* error carries the first.                                                *)
KillReportsExhaustedSpend ==
    \A c \in Callers :
        result[c].action = "Kill" => alert_type(result[c].spent, Limit) = "Exhausted"
=============================================================================
