------------------------- MODULE ConversationHistory -------------------------
(***************************************************************************)
(* ConversationHistory and SummaryPolicy of aether-session (history.rs,    *)
(* summary.rs) as operators on a history, the Vec<MemoryMessage> it wraps. *)
(* A message is its role and its content; contents are whatever values the *)
(* caller passes.  SessionManager (module Session) and the summariser      *)
(* (module History) both build on these.                                   *)
(***************************************************************************)
EXTENDS Naturals, Sequences

(* MessageRole (memory.rs).                                                *)
Roles == {"System", "User", "Assistant", "Tool"}

(* MemoryMessage { role, content }.                                       *)
Msg(r, c) == [role |-> r, content |-> c]

(* add_user, add_assistant, add_tool_result: push one message.            *)
add_user(h, c) == Append(h, Msg("User", c))

add_assistant(h, c) == Append(h, Msg("Assistant", c))

(* Seeded fault: a tool result pushed with the System role.              *)
add_tool_result_as_system(h, c) == Append(h, Msg("System", c))

add_tool_result(h, c) == Append(h, Msg("Tool", c))

(* Seeded fault: truncation drops one message too many.                   *)
truncate_to_last_drop_extra(h, n) ==
    IF Len(h) > n THEN SubSeq(h, Len(h) - n + 2, Len(h)) ELSE h

(* truncate_to_last: when longer than n, drain the oldest len - n.        *)
truncate_to_last(h, n) ==
    IF Len(h) > n THEN SubSeq(h, Len(h) - n + 1, Len(h)) ELSE h

(* usize::saturating_sub.                                                  *)
saturating_sub(a, b) == IF a > b THEN a - b ELSE 0

(* The content format! gives a summary: a fixed header, then the text.    *)
SummaryText(summary) == << "[Summary of earlier conversation]", summary >>

(* Seeded fault: the drain keeps the oldest keep_last messages instead of *)
(* the newest.                                                             *)
replace_with_summary_keep_oldest(h, summary, keep_last) ==
    LET keep == saturating_sub(Len(h), keep_last)
    IN  << Msg("System", SummaryText(summary)) >> \o SubSeq(h, 1, Len(h) - keep)

(* replace_with_summary: drain the newest keep_last messages (all of them *)
(* when fewer), clear the rest, push the System summary, then extend with *)
(* the drained ones.                                                       *)
replace_with_summary(h, summary, keep_last) ==
    LET keep == saturating_sub(Len(h), keep_last)
    IN  << Msg("System", SummaryText(summary)) >> \o SubSeq(h, keep + 1, Len(h))

(* SummaryPolicy { trigger_at_messages, retain_after } and its Default.   *)
Policy(trigger, retain) == [trigger_at_messages |-> trigger, retain_after |-> retain]

DefaultPolicy == Policy(40, 10)

(* should_summarize: the history has reached the trigger.                 *)
should_summarize(p, history_len) == history_len >= p.trigger_at_messages
=============================================================================
