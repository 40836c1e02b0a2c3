---------------------------- MODULE PolicyProofs ----------------------------
(***************************************************************************)
(* Proofs about PolicyEngine with the default rule list, for every        *)
(* context: a CRITICAL tool is never allowed, and an exhausted budget is  *)
(* always denied by budget-exhausted-deny.  Both rest on the first-match  *)
(* lemma: decide returns the decision of the first matching rule.         *)
(***************************************************************************)
EXTENDS Policy, TLAPS

(* decide returns the decision of rule k when rule k matches and no rule  *)
(* before it does.                                                         *)
LEMMA FirstMatchDecides ==
    ASSUME NEW rules, NEW c,
           NEW k \in 1..Len(rules),
           matches(rules[k].condition, c),
           \A j \in 1..k - 1 : ~matches(rules[j].condition, c)
    PROVE  decide(rules, c) = decision_of(rules[k])
<1> DEFINE hits == {i \in 1..Len(rules) : matches(rules[i].condition, c)}
<1>1. k \in hits
  OBVIOUS
<1>2. \A j \in hits : k <= j
  BY SMT
<1>3. \A i \in hits : (\A j \in hits : i <= j) => i = k
  BY <1>1, <1>2, SMT
<1>4. (CHOOSE i \in hits : \A j \in hits : i <= j) = k
  BY <1>1, <1>2, <1>3, Zenon
<1>. QED  BY <1>1, <1>4 DEF decide

(* The conditions of the first two default rules.                         *)
LEMMA DefaultRulesShape ==
    /\ Len(default_rules) = 5
    /\ default_rules[1].condition = [kind |-> "BudgetAbove", arg |-> 0]
    /\ default_rules[2].condition = [kind |-> "ToolAccessLevel", arg |-> Critical]
    /\ decision_of(default_rules[1]) =
         [effect |-> "Deny", matched_rule |-> "budget-exhausted-deny"]
    /\ decision_of(default_rules[2]).effect = "Deny"
BY DEF default_rules, decision_of, Critical

(* Under the default rules, a context with fraction 0 is decided by       *)
(* budget-exhausted-deny.                                                  *)
LEMMA ExhaustedDecided ==
    ASSUME NEW c \in Contexts, c.budget = 0
    PROVE  decide(default_rules, c) =
             [effect |-> "Deny", matched_rule |-> "budget-exhausted-deny"]
<1>1. matches(default_rules[1].condition, c)
  BY DefaultRulesShape, PolicyAssumption DEF matches, F64Le
<1>. QED  BY <1>1, DefaultRulesShape, FirstMatchDecides

(* Under the default rules, a CRITICAL tool context is denied.            *)
LEMMA CriticalDenied ==
    ASSUME NEW c \in Contexts, c.access = Critical
    PROVE  decide(default_rules, c).effect = "Deny"
<1>1. CASE matches(default_rules[1].condition, c)
  BY <1>1, DefaultRulesShape, FirstMatchDecides
<1>2. CASE ~matches(default_rules[1].condition, c)
  <2>1. matches(default_rules[2].condition, c)
    BY DefaultRulesShape, PolicyAssumption DEF matches, Critical, AccessLevels
  <2>2. \A j \in 1..2 - 1 : ~matches(default_rules[j].condition, c)
    BY <1>2
  <2>. QED  BY <2>1, <2>2, DefaultRulesShape, FirstMatchDecides
<1>. QED  BY <1>1, <1>2

(* The two properties as one invariant.                                   *)
PInv == CriticalNeverAllowed /\ ExhaustedBudgetDenies

LEMMA InitPInv == Init => PInv
BY PolicyAssumption DEF Init, PInv, CriticalNeverAllowed, ExhaustedBudgetDenies,
   NoContext, Critical, AccessLevels

LEMMA NextPInv ==
    ASSUME Rules = default_rules
    PROVE  PInv /\ [Next]_vars => PInv'
<1> SUFFICES ASSUME PInv, [Next]_vars PROVE PInv'
  OBVIOUS
<1>1. ASSUME NEW c \in Contexts, Evaluate(c) PROVE PInv'
  <2>1. ctx' = c /\ decision' = decide(default_rules, c)
    BY <1>1 DEF Evaluate
  <2>2. result' = IF decision'.effect = "Allow" THEN "Ok" ELSE denial_error(c)
    BY <1>1, <2>1 DEF Evaluate
  <2>3. result' # "none"
    BY <2>2 DEF denial_error
  <2>4. CriticalNeverAllowed'
    BY <2>1, <2>2, CriticalDenied DEF CriticalNeverAllowed, denial_error
  <2>5. ExhaustedBudgetDenies'
    BY <2>1, ExhaustedDecided DEF ExhaustedBudgetDenies
  <2>. QED  BY <2>4, <2>5 DEF PInv
<1>2. CASE UNCHANGED vars
  BY <1>2 DEF vars, PInv, CriticalNeverAllowed, ExhaustedBudgetDenies
<1>. QED  BY <1>1, <1>2 DEF Next

(* With the default rules, evaluate never allows a CRITICAL tool and      *)
(* denies every request on an exhausted budget, whatever the tier, role,  *)
(* approval and resource (PolicyEngine::decide over default_rules).       *)
THEOREM DefaultRulesSafe ==
    ASSUME Rules = default_rules
    PROVE  Spec => [](CriticalNeverAllowed /\ ExhaustedBudgetDenies)
<1>1. Init => PInv
  BY InitPInv
<1>2. PInv /\ [Next]_vars => PInv'
  BY NextPInv
<1>. QED  BY <1>1, <1>2, PTL DEF Spec, PInv

(* With the default rules, a request made on an exhausted budget (the      *)
(* fraction budget_remaining_fraction reports is 0) is always denied by    *)
(* budget-exhausted-deny, the first rule PolicyEngine::decide tries,       *)
(* before any allow rule can match.                                        *)
COROLLARY ExhaustedBudgetDeniesHolds ==
    ASSUME Rules = default_rules
    PROVE  Spec => []ExhaustedBudgetDenies
BY DefaultRulesSafe, PTL
=============================================================================
