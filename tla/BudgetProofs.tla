---------------------------- MODULE BudgetProofs ----------------------------
(***************************************************************************)
(* Proofs about module Budget with a single caller charging the tenant:   *)
(* it cannot spend past its limit by more than one call                   *)
(* (SpendWithinOneCall, for a numeric limit), and a kill always reports   *)
(* a spend the alert classes as Exhausted (KillReportsExhaustedSpend).    *)
(* With two callers both fail: runs budget_concurrent_overshoot and      *)
(* budget_stale_spent.                                                     *)
(***************************************************************************)
EXTENDS Budget, TLAPS

(* One caller: the precondition of the theorem.                           *)
SingleCaller == \A c, d \in Callers : c = d

(* Types of the state the argument reads.                                 *)
BTypeOK ==
    /\ usage \in [total_cost_usd : Nat, total_calls : Nat]
    /\ pc \in [Callers -> {"idle", "fraction", "calling"}]
    /\ spentRead \in [Callers -> Nat]
    /\ charged \in Nat

(* The inductive invariant: the tracker has seen every call made, and a   *)
(* caller between check and record was let through below the limit.      *)
IInv ==
    /\ BTypeOK
    /\ charged = usage.total_cost_usd
    /\ \A c \in Callers : pc[c] = "calling" => usage.total_cost_usd < Limit
    /\ SpendWithinOneCall

(* check lets a call through only when the spend it read is below the     *)
(* limit: for a limit <= 0, or spend at or past it, the remaining         *)
(* fraction is 0 and the kill threshold is reached.                      *)
LEMMA AllowedBelowLimit ==
    ASSUME NEW s, NEW total \in Nat, Limit \in Int,
           check(s, budget_remaining_fraction(total, Limit)).action # "Kill"
    PROVE  total < Limit
<1> DEFINE f == budget_remaining_fraction(total, Limit)
<1>1. ~FracLe(f, KILL_THRESHOLD)
  BY DEF check
<1>2. Limit # NaN
  BY BudgetAssumption
<1>3. CASE Limit <= 0
  <2>1. f = [nan |-> FALSE, num |-> 0, den |-> 1]
    BY <1>2, <1>3 DEF budget_remaining_fraction
  <2>2. FracLe(f, KILL_THRESHOLD)
    BY <2>1 DEF FracLe, KILL_THRESHOLD
  <2>. QED  BY <1>1, <2>2
<1>4. CASE Limit > 0
  <2>1. f = [nan |-> FALSE,
             num |-> IF Limit - total < 0 THEN 0
                     ELSE IF Limit - total > Limit THEN Limit ELSE Limit - total,
             den |-> Limit]
    BY <1>2, <1>4 DEF budget_remaining_fraction
  <2>2. SUFFICES ASSUME total >= Limit PROVE FALSE
    OBVIOUS
  <2>3. f.num = 0
    BY <2>1, <2>2, <1>4
  <2>4. FracLe(f, KILL_THRESHOLD)
    BY <2>1, <2>3, <1>4 DEF FracLe, KILL_THRESHOLD
  <2>. QED  BY <1>1, <2>4
<1>. QED  BY <1>3, <1>4

LEMMA InitIInv == Init => IInv
BY BudgetAssumption DEF Init, IInv, BTypeOK, SpendWithinOneCall

LEMMA NextIInv ==
    ASSUME SingleCaller, Limit \in Int
    PROVE  IInv /\ [Next]_vars => IInv'
<1> SUFFICES ASSUME IInv, [Next]_vars PROVE IInv'
  OBVIOUS
<1>1. ASSUME NEW c \in Callers, CheckUsage(c) PROVE IInv'
  BY <1>1 DEF CheckUsage, IInv, BTypeOK, SpendWithinOneCall
<1>2. ASSUME NEW c \in Callers, CheckFraction(c) PROVE IInv'
  <2> DEFINE r == check(spentRead[c],
                        budget_remaining_fraction(usage.total_cost_usd, Limit))
  <2>1. r.action # "Kill" => usage.total_cost_usd < Limit
    BY AllowedBelowLimit DEF IInv, BTypeOK
  <2>2. pc' = [pc EXCEPT ![c] = IF r.action = "Kill" THEN "idle" ELSE "calling"]
    BY <1>2 DEF CheckFraction
  <2>3. UNCHANGED <<usage, spentRead, charged>>
    BY <1>2 DEF CheckFraction
  <2>4. (\A d \in Callers : pc'[d] = "calling" => usage'.total_cost_usd < Limit)
    BY <2>1, <2>2, <2>3 DEF IInv, BTypeOK
  <2>5. BTypeOK'
    BY <2>2, <2>3 DEF IInv, BTypeOK
  <2>. QED  BY <2>3, <2>4, <2>5 DEF IInv, SpendWithinOneCall
<1>3. ASSUME NEW c \in Callers, Record(c) PROVE IInv'
  <2>1. PICK cost \in Costs :
            /\ usage' = [total_cost_usd |-> usage.total_cost_usd + cost,
                         total_calls |-> usage.total_calls + 1]
            /\ charged' = charged + cost
    BY <1>3 DEF Record
  <2>2. pc' = [pc EXCEPT ![c] = "idle"] /\ pc[c] = "calling"
    BY <1>3 DEF Record
  <2>3. usage.total_cost_usd < Limit
    BY <2>2 DEF IInv
  <2>4. cost \in Nat
    BY BudgetAssumption
  <2>5. BTypeOK'
    BY <1>3, <2>1, <2>2, <2>4 DEF Record, IInv, BTypeOK
  <2>6. charged' = usage'.total_cost_usd
    BY <2>1, <2>4 DEF IInv, BTypeOK
  <2>7. \A d \in Callers : pc'[d] # "calling"
    BY <2>2 DEF SingleCaller, IInv, BTypeOK
  <2>8. charged' < Limit + cost
    BY <2>1, <2>3, <2>4 DEF IInv, BTypeOK
  <2>. QED  BY <2>5, <2>6, <2>7, <2>8 DEF IInv, SpendWithinOneCall
<1>4. CASE UNCHANGED vars
  BY <1>4 DEF vars, IInv, BTypeOK, SpendWithinOneCall
<1>. QED  BY <1>1, <1>2, <1>3, <1>4 DEF Next

(* A single caller that checks before every call and records after it     *)
(* never spends more than one call past a numeric limit                   *)
(* (BudgetLimiter::check with CostTracker::record).                        *)
THEOREM SpendWithinOneCallHolds ==
    ASSUME SingleCaller, Limit \in Int
    PROVE  Spec => []SpendWithinOneCall
<1>1. Init => IInv
  BY InitIInv
<1>2. IInv /\ [Next]_vars => IInv'
  BY NextIInv
<1>3. IInv => SpendWithinOneCall
  BY DEF IInv
<1>. QED  BY <1>1, <1>2, <1>3, PTL DEF Spec

-----------------------------------------------------------------------------
(* KillReportsExhaustedSpend for one caller.                               *)

(* The decision check reaches when both of its reads of the usage see the *)
(* same spend s.                                                           *)
Decision(s) == check(s, budget_remaining_fraction(s, Limit))

(* When the spend check reports is the spend its fraction was computed   *)
(* from, a kill reports that spend and BudgetAlert::new classes it as    *)
(* Exhausted: the kill threshold is reached exactly from 100% spent, and  *)
(* for a limit <= 0 both sides give up at once.                           *)
LEMMA DecisionKillsExhausted ==
    ASSUME NEW s \in Nat, Decision(s).action = "Kill"
    PROVE  Decision(s).spent = s /\ alert_type(s, Limit) = "Exhausted"
<1> DEFINE f == budget_remaining_fraction(s, Limit)
<1>1. FracLe(f, KILL_THRESHOLD) /\ Decision(s).spent = s
  <2>1. ~FracLe(f, KILL_THRESHOLD) => Decision(s).action # "Kill"
    BY DEF Decision, check
  <2>. QED  BY <2>1 DEF Decision, check
<1>2. CASE Limit = NaN
  <2>1. f.nan
    BY <1>2 DEF budget_remaining_fraction
  <2>. QED  BY <1>1, <2>1 DEF FracLe
<1>3. CASE Limit # NaN /\ Limit <= 0
  <2>1. Limit \in Int
    BY <1>3, BudgetAssumption
  <2>. QED  BY <1>1, <1>3, <2>1 DEF alert_type
<1>4. CASE Limit # NaN /\ Limit > 0
  <2>1. Limit \in Int
    BY <1>4, BudgetAssumption
  <2>2. f.num = (IF Limit - s < 0 THEN 0 ELSE Limit - s) /\ f.den = Limit
    <3>1. f = [nan |-> FALSE,
               num |-> IF Limit - s < 0 THEN 0
                       ELSE IF Limit - s > Limit THEN Limit ELSE Limit - s,
               den |-> Limit]
      BY <1>4, <2>1 DEF budget_remaining_fraction
    <3>. QED  BY <3>1, <2>1
  <2>3. s >= Limit
    BY <1>1, <1>4, <2>1, <2>2 DEF FracLe, KILL_THRESHOLD
  <2>4. alert_type(s, Limit) =
            IF s * 100 >= 100 * Limit THEN "Exhausted"
            ELSE IF s * 100 >= 90 * Limit THEN "Critical" ELSE "Warning"
    BY <1>4, <2>1 DEF alert_type
  <2>. QED  BY <1>1, <2>1, <2>3, <2>4
<1>. QED  BY <1>2, <1>3, <1>4, BudgetAssumption

(* The inductive invariant: a caller between the two reads of check sees  *)
(* in its first read the spend the second read will see (no one else      *)
(* records in between), and every kill reported so far is exhausted.      *)
AInv ==
    /\ BTypeOK
    /\ DOMAIN result = Callers
    /\ \A c \in Callers : pc[c] = "fraction" => spentRead[c] = usage.total_cost_usd
    /\ KillReportsExhaustedSpend

LEMMA InitAInv == Init => AInv
BY DEF Init, AInv, BTypeOK, NoResult, KillReportsExhaustedSpend

LEMMA NextAInv ==
    ASSUME SingleCaller
    PROVE  AInv /\ [Next]_vars => AInv'
<1> SUFFICES ASSUME AInv, [Next]_vars PROVE AInv'
  OBVIOUS
<1>1. ASSUME NEW c \in Callers, CheckUsage(c) PROVE AInv'
  <2>1. \A d \in Callers : d = c
    BY DEF SingleCaller
  <2>. QED
    BY <1>1, <2>1 DEF CheckUsage, AInv, BTypeOK, KillReportsExhaustedSpend
<1>2. ASSUME NEW c \in Callers, CheckFraction(c) PROVE AInv'
  <2> DEFINE r == Decision(spentRead[c])
  <2>1. \A d \in Callers : d = c
    BY DEF SingleCaller
  <2>2. spentRead[c] = usage.total_cost_usd /\ spentRead[c] \in Nat
    BY <1>2 DEF CheckFraction, AInv, BTypeOK
  <2>3. result' = [result EXCEPT ![c] = r]
        /\ pc' = [pc EXCEPT ![c] = IF r.action = "Kill" THEN "idle" ELSE "calling"]
        /\ UNCHANGED <<usage, spentRead, charged>>
    BY <1>2, <2>2 DEF CheckFraction, Decision
  <2>4. r.action = "Kill" => alert_type(r.spent, Limit) = "Exhausted"
    BY <2>2, DecisionKillsExhausted
  <2>5. BTypeOK' /\ DOMAIN result' = Callers
    BY <2>3 DEF AInv, BTypeOK
  <2>6. \A d \in Callers : pc'[d] # "fraction"
    BY <2>1, <2>3 DEF AInv, BTypeOK
  <2>7. result'[c] = r
    BY <2>3 DEF AInv
  <2>8. KillReportsExhaustedSpend'
    BY <2>1, <2>4, <2>7 DEF KillReportsExhaustedSpend
  <2>. QED  BY <2>5, <2>6, <2>8 DEF AInv
<1>3. ASSUME NEW c \in Callers, Record(c) PROVE AInv'
  <2>1. \A d \in Callers : d = c
    BY DEF SingleCaller
  <2>2. PICK cost \in Costs :
            /\ usage' = [total_cost_usd |-> usage.total_cost_usd + cost,
                         total_calls |-> usage.total_calls + 1]
            /\ charged' = charged + cost
    BY <1>3 DEF Record
  <2>3. cost \in Nat
    BY BudgetAssumption
  <2>4. pc' = [pc EXCEPT ![c] = "idle"] /\ UNCHANGED <<spentRead, result>>
    BY <1>3 DEF Record
  <2>5. BTypeOK'
    BY <2>2, <2>3, <2>4 DEF AInv, BTypeOK
  <2>6. \A d \in Callers : pc'[d] # "fraction"
    BY <2>1, <2>4 DEF AInv, BTypeOK
  <2>. QED  BY <2>4, <2>5, <2>6 DEF AInv, KillReportsExhaustedSpend
<1>4. CASE UNCHANGED vars
  BY <1>4 DEF vars, AInv, BTypeOK, KillReportsExhaustedSpend
<1>. QED  BY <1>1, <1>2, <1>3, <1>4 DEF Next

(* With one caller, the BudgetExceeded error BudgetLimiter::check returns *)
(* always reports a spend BudgetAlert::new classes as Exhausted, for      *)
(* every limit, NaN and non-positive ones included: the two reads of the  *)
(* usage inside check cannot see different spend.                         *)
THEOREM KillReportsExhaustedSpendHolds ==
    ASSUME SingleCaller
    PROVE  Spec => []KillReportsExhaustedSpend
<1>1. Init => AInv
  BY InitAInv
<1>2. AInv /\ [Next]_vars => AInv'
  BY NextAInv
<1>3. AInv => KillReportsExhaustedSpend
  BY DEF AInv
<1>. QED  BY <1>1, <1>2, <1>3, PTL DEF Spec
=============================================================================
