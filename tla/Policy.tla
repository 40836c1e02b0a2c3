------------------------------- MODULE Policy -------------------------------
(***************************************************************************)
(* PolicyEngine of aether-policy (engine.rs, rules.rs, evaluation.rs).     *)
(* The engine holds a fixed rule list and no other state; a caller hands   *)
(* it an EvaluationContext and receives a decision (decide) or a Result    *)
(* (evaluate).  The model is the stream of evaluations: each step is one   *)
(* call of evaluate on a context drawn from a small set, and the state is  *)
(* the last context, decision and error.                                   *)
(*                                                                         *)
(* Data abstraction: tool, agent and task ids are left out (no rule reads  *)
(* them); a resource is its tool access level, or NotTool for the Agent,   *)
(* Workflow and Memory resources; budget fractions are hundredths, plus    *)
(* NaN, the f64 value every comparison is false on; rule ids and reasons   *)
(* are strings kept only to tell rules apart.                              *)
(***************************************************************************)
EXTENDS Integers, Sequences, FiniteSets

CONSTANTS
    Rules,        \* the engine's rule list: default_rules() or with_rules(..)
    Tiers,        \* AgentTier values (u8) callers may pass
    Budgets,      \* budget_remaining_fraction values, in hundredths, or NaN
    NaN,          \* the f64 NaN
    NotTool,      \* extract_tool_access of a non-tool resource (None)
    NoRole        \* user_role = None

(* ToolAccessLevel: Public < Protected < Restricted < Critical.           *)
Public == 0
Protected == 1
Restricted == 2
Critical == 3
AccessLevels == {Public, Protected, Restricted, Critical}

(* UserRole: Viewer < Developer < Admin < Owner.                          *)
Roles == 0..3

(* RuleCondition, with its one argument (or 0 when it has none).          *)
ConditionKinds == {"AgentTierMinimum", "ToolAccessLevel", "BudgetAbove",
                   "UserRoleMinimum", "RestrictedApproved", "AlwaysAllow",
                   "AlwaysDeny"}

Conditions == [kind : ConditionKinds, arg : Int]

PolicyRules == [id : STRING, condition : Conditions,
                effect : {"Allow", "Deny"}]

ASSUME PolicyAssumption ==
    /\ Rules \in Seq(PolicyRules)
    /\ Tiers \subseteq 0..255
    /\ Budgets \subseteq Int \cup {NaN}
    /\ NaN \notin Int
    /\ NotTool \notin AccessLevels

(* An EvaluationContext, reduced to what the rules and denial_error read. *)
Contexts == [tier : Tiers, role : Roles \cup {NoRole}, budget : Budgets,
             approved : BOOLEAN, access : AccessLevels \cup {NotTool}]

(* f64 "<=": false whenever an operand is NaN.                             *)
F64Le(x, y) == x # NaN /\ y # NaN /\ x <= y

(* default_rules(): most restrictive first, first match wins.             *)
default_rules ==
    << [id |-> "budget-exhausted-deny",
        condition |-> [kind |-> "BudgetAbove", arg |-> 0], effect |-> "Deny"],
       [id |-> "critical-tool-deny-agent",
        condition |-> [kind |-> "ToolAccessLevel", arg |-> Critical],
        effect |-> "Deny"],
       [id |-> "restricted-tool-requires-approval",
        condition |-> [kind |-> "ToolAccessLevel", arg |-> Restricted],
        effect |-> "Deny"],
       [id |-> "protected-tool-tier-2-minimum",
        condition |-> [kind |-> "AgentTierMinimum", arg |-> 2],
        effect |-> "Allow"],
       [id |-> "public-tool-allow-all",
        condition |-> [kind |-> "AlwaysAllow", arg |-> 0], effect |-> "Allow"] >>

(* Seeded fault: the budget gate compares with "<", so a budget of        *)
(* exactly the threshold passes.                                           *)
matches_strict_budget(c, ctx) ==
    CASE c.kind = "BudgetAbove"        -> ctx.budget # NaN /\ ctx.budget < c.arg
      [] c.kind = "ToolAccessLevel"    -> ctx.access # NotTool /\ ctx.access >= c.arg
      [] c.kind = "AgentTierMinimum"   -> ctx.tier <= c.arg
      [] c.kind = "RestrictedApproved" -> ctx.approved
      [] c.kind = "UserRoleMinimum"    -> ctx.role # NoRole /\ ctx.role >= c.arg
      [] c.kind \in {"AlwaysAllow", "AlwaysDeny"} -> TRUE

(* The match of evaluate_rule: whether condition c holds of ctx.          *)
matches(c, ctx) ==
    CASE c.kind = "BudgetAbove"        -> F64Le(ctx.budget, c.arg)
      [] c.kind = "ToolAccessLevel"    -> ctx.access # NotTool /\ ctx.access >= c.arg
      [] c.kind = "AgentTierMinimum"   -> ctx.tier <= c.arg
      [] c.kind = "RestrictedApproved" -> ctx.approved
      [] c.kind = "UserRoleMinimum"    -> ctx.role # NoRole /\ ctx.role >= c.arg
      [] c.kind \in {"AlwaysAllow", "AlwaysDeny"} -> TRUE

(* The decision a matching rule yields (PolicyDecision::allow / deny).    *)
decision_of(r) == [effect |-> r.effect, matched_rule |-> r.id]

DefaultDeny == [effect |-> "Deny", matched_rule |-> "default-deny"]

(* Seeded fault: the loop keeps going and the last matching rule wins.    *)
decide_last_match(rules, ctx) ==
    LET hits == {i \in 1..Len(rules) : matches(rules[i].condition, ctx)}
    IN  IF hits = {} THEN DefaultDeny
        ELSE decision_of(rules[CHOOSE i \in hits : \A j \in hits : j <= i])

(* decide: the first rule (in list order) whose condition matches, else   *)
(* the fail-safe default deny.                                             *)
decide(rules, ctx) ==
    LET hits == {i \in 1..Len(rules) : matches(rules[i].condition, ctx)}
    IN  IF hits = {} THEN DefaultDeny
        ELSE decision_of(rules[CHOOSE i \in hits : \A j \in hits : i <= j])

(* denial_error: ToolAccessDenied for a tool resource, Forbidden else.    *)
denial_error(ctx) ==
    IF ctx.access # NotTool THEN "ToolAccessDenied" ELSE "Forbidden"

-----------------------------------------------------------------------------
VARIABLES
    ctx,       \* the context of the last evaluate call
    decision,  \* the decision decide returned for it
    result     \* evaluate's result: "Ok" or the error kind

vars == <<ctx, decision, result>>

NoContext == [tier |-> 0, role |-> NoRole, budget |-> 0, approved |-> FALSE,
              access |-> NotTool]

Init ==
    /\ ctx = NoContext
    /\ decision = DefaultDeny
    /\ result = "none"

(* evaluate: decide, then turn a deny into the matching error.            *)
Evaluate(c) ==
    LET d == decide(Rules, c)
    IN  /\ ctx' = c
        /\ decision' = d
        /\ result' = IF d.effect = "Allow" THEN "Ok" ELSE denial_error(c)

Next == \E c \in Contexts : Evaluate(c)

Spec == Init /\ [][Next]_vars

-----------------------------------------------------------------------------
(* Results are "none" until the first call.                               *)
(* A CRITICAL tool is never allowed to an agent, whatever its tier,       *)
(* approval or budget: rule order must put a deny before both allows.     *)
CriticalNeverAllowed ==
    ctx.access = Critical => result # "Ok"

(* An exhausted budget (fraction 0) denies every request, tool or not,    *)
(* before any allow rule is reached.                                       *)
ExhaustedBudgetDenies ==
    result # "none" /\ ctx.budget = 0 => decision = [effect |-> "Deny",
                                  matched_rule |-> "budget-exhausted-deny"]

(* rules.rs: "PROTECTED tools require Tier <= 2 agents".                   *)
ProtectedRequiresTier2 ==
    ctx.access = Protected /\ result = "Ok" => ctx.tier <= 2

(* tool.rs / rules.rs: RESTRICTED tools are for pre-approved agents: an   *)
(* approved agent with budget left may call one.                           *)
RestrictedApprovedAllowed ==
    ctx.access = Restricted /\ ctx.approved /\ ctx.budget \in Int
        /\ ctx.budget > 0 => result = "Ok"

(* The two access-level gates the default rules document: PROTECTED tools *)
(* only for tier 1 and 2 agents, RESTRICTED tools for approved agents     *)
(* with budget left.  A call that breaks either is the rule list at odds  *)
(* with its own comments.                                                  *)
DefaultRulesAsDocumented ==
    ProtectedRequiresTier2 /\ RestrictedApprovedAllowed
=============================================================================
