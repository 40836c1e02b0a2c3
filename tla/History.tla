------------------------------- MODULE History -------------------------------
(***************************************************************************)
(* One ConversationHistory driven the way summary.rs describes it: the     *)
(* conversation appends user, assistant and tool messages; a caller may    *)
(* truncate it; and whenever SummaryPolicy::should_summarize holds for its *)
(* length, the summariser replaces it with a summary and the newest        *)
(* retain_after messages (replace_with_summary).                           *)
(*                                                                         *)
(* Texts are sequences of words, as in SessionKeys: the content of the    *)
(* n-th message added is the one-word text << n >>, so every message is    *)
(* distinct; added is a ghost holding every message added, oldest first.   *)
(***************************************************************************)
EXTENDS Naturals, Sequences, SequencesExt, ConversationHistory

CONSTANTS
    TriggerAt,   \* SummaryPolicy::trigger_at_messages
    RetainAfter, \* SummaryPolicy::retain_after
    Summaries,   \* summary texts the summariser may produce
    MaxAdds      \* bound on the messages added

ASSUME HistoryAssumption ==
    /\ TriggerAt \in Nat /\ RetainAfter \in Nat /\ MaxAdds \in Nat

policy == Policy(TriggerAt, RetainAfter)

VARIABLES
    messages,    \* ConversationHistory::messages
    added        \* ghost: every message added, oldest first

vars == <<messages, added>>

(* ConversationHistory::new: no messages.                                 *)
Init ==
    /\ messages = << >>
    /\ added = << >>

(* The content of the next message, and the ghost's record of it.        *)
NextContent == << Len(added) + 1 >>

Record(role) == added' = Append(added, Msg(role, NextContent))

(* add_user, add_assistant, add_tool_result with the next content.        *)
AddUser ==
    /\ Len(added) < MaxAdds
    /\ messages' = add_user(messages, NextContent)
    /\ Record("User")

AddAssistant ==
    /\ Len(added) < MaxAdds
    /\ messages' = add_assistant(messages, NextContent)
    /\ Record("Assistant")

AddToolResult ==
    /\ Len(added) < MaxAdds
    /\ messages' = add_tool_result(messages, NextContent)
    /\ Record("Tool")

(* truncate_to_last(n) for a caller's bound n.                            *)
TruncateToLast(n) ==
    /\ messages' = truncate_to_last(messages, n)
    /\ UNCHANGED added

(* The summariser: once should_summarize holds for the length, replace    *)
(* the history with the summary and the newest retain_after messages.     *)
Summarize(s) ==
    /\ should_summarize(policy, Len(messages))
    /\ messages' = replace_with_summary(messages, s, policy.retain_after)
    /\ UNCHANGED added

Next ==
    \/ AddUser \/ AddAssistant \/ AddToolResult
    \/ \E n \in 0..TriggerAt : TruncateToLast(n)
    \/ \E s \in Summaries : Summarize(s)

Spec == Init /\ [][Next]_vars

-----------------------------------------------------------------------------
Added == [role : Roles \ {"System"}, content : {<< n >> : n \in 1..MaxAdds}]

SummaryMsgs == {Msg("System", SummaryText(s)) : s \in Summaries}

HTypeOK ==
    /\ messages \in Seq(Added \cup SummaryMsgs)
    /\ added \in Seq(Added)

(* The messages of history m after its leading summary, if it has one.   *)
Recent(m) == IF m # << >> /\ m[1].role = "System" THEN Tail(m) ELSE m

(* A history is at most one System summary, at its front, followed by the *)
(* newest messages added, in the order they were added, none missing in   *)
(* between.  Breaking it takes a summary followed by more messages and a  *)
(* second summary: a drain that keeps the wrong end, or that keeps the    *)
(* earlier summary behind the new one, which replace_with_summary does    *)
(* whenever the history is no longer than retain_after.                   *)
HistoryIsSummaryThenRecent == IsSuffix(Recent(messages), added)
=============================================================================
