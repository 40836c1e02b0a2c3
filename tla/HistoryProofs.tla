---------------------------- MODULE HistoryProofs ----------------------------
(***************************************************************************)
(* Proofs about module History: for every summary policy whose trigger     *)
(* lies above its retain count, the history stays an optional summary      *)
(* followed by the newest messages added.                                   *)
(***************************************************************************)
EXTENDS History, SequenceTheorems, TLAPS

(* The messages a history may hold.                                        *)
Msgs == Added \cup SummaryMsgs

(* Recent(m) is the tail of the messages added from position k + 1 on.    *)
RecentFrom(m, k) == Recent(m) = SubSeq(added, k + 1, Len(added))

(* The inductive invariant: the types, and Recent(messages) is a suffix of *)
(* added, written with its starting point.                                 *)
IInv ==
    /\ messages \in Seq(Msgs)
    /\ added \in Seq(Added)
    /\ \E k \in 0..Len(added) : RecentFrom(messages, k)

(* A message added is never a summary.                                     *)
LEMMA AddedNotSystem ==
    ASSUME NEW m \in Added
    PROVE  m.role # "System"
BY DEF Added, Roles

(* A summary message is a System message.                                  *)
LEMMA SummaryIsSystem ==
    ASSUME NEW m \in SummaryMsgs
    PROVE  m.role = "System"
BY DEF SummaryMsgs, Msg

(* A history whose first message is not a summary is its own Recent part. *)
LEMMA RecentNoSummary ==
    ASSUME NEW m \in Seq(Msgs), m = << >> \/ m[1] \in Added
    PROVE  Recent(m) = m
BY AddedNotSystem DEF Recent

(* Dropping the first j - 1 elements of a suffix of a leaves a suffix of  *)
(* a that starts j - 1 places later.                                       *)
LEMMA SuffixDrop ==
    ASSUME NEW S, NEW a \in Seq(S), NEW k \in 0..Len(a),
           NEW j \in 1..Len(a) - k + 1
    PROVE  SubSeq(SubSeq(a, k + 1, Len(a)), j, Len(a) - k) = SubSeq(a, k + j, Len(a))
<1>1. SubSeq(a, k + 1, Len(a)) \in Seq(S) /\ Len(SubSeq(a, k + 1, Len(a))) = Len(a) - k
  BY SubSeqProperties
<1>. QED
  BY <1>1, SMT

(* The tail of a history from position j on is the tail of its Tail from *)
(* position j - 1 on.                                                      *)
LEMMA DropThroughTail ==
    ASSUME NEW S, NEW s \in Seq(S), s # << >>, NEW j \in 2..Len(s) + 1
    PROVE  SubSeq(s, j, Len(s)) = SubSeq(Tail(s), j - 1, Len(s) - 1)
<1>1. Tail(s) = SubSeq(s, 2, Len(s))
  BY TailIsSubSeq
<1>. QED
  BY <1>1, SMT

(* Cutting a history from position j >= 2 on (truncate_to_last cutting,  *)
(* or replace_with_summary draining) leaves messages added, in a suffix   *)
(* of added: the cut removes the leading summary, if there is one.        *)
LEMMA RecentDrop ==
    ASSUME NEW ms \in Seq(Msgs), added \in Seq(Added),
           NEW k \in 0..Len(added), RecentFrom(ms, k),
           NEW j \in 2..Len(ms) + 1
    PROVE  /\ SubSeq(ms, j, Len(ms)) \in Seq(Added)
           /\ \E k2 \in 0..Len(added) :
                 SubSeq(ms, j, Len(ms)) = SubSeq(added, k2 + 1, Len(added))
<1> DEFINE d == SubSeq(ms, j, Len(ms))
<1>1. Len(SubSeq(added, k + 1, Len(added))) = Len(added) - k
  BY SubSeqProperties
<1>2. \E k2 \in 0..Len(added) : d = SubSeq(added, k2 + 1, Len(added))
  <2>1. CASE ms # << >> /\ ms[1].role = "System"
    <3>1. Tail(ms) = SubSeq(added, k + 1, Len(added))
      BY <2>1 DEF RecentFrom, Recent
    <3>2. Len(ms) - 1 = Len(added) - k
      BY <3>1, <1>1, <2>1, HeadTailProperties
    <3>3. d = SubSeq(Tail(ms), j - 1, Len(ms) - 1)
      BY <2>1, DropThroughTail
    <3>4. d = SubSeq(added, k + j - 1, Len(added))
      BY <3>1, <3>2, <3>3, SuffixDrop
    <3>5. k + j - 2 \in 0..Len(added) /\ (k + j - 2) + 1 = k + j - 1
      BY <3>2
    <3>. QED
      BY <3>4, <3>5
  <2>2. CASE ~(ms # << >> /\ ms[1].role = "System")
    <3>1. ms = SubSeq(added, k + 1, Len(added))
      BY <2>2 DEF RecentFrom, Recent
    <3>2. d = SubSeq(added, k + j, Len(added))
      BY <3>1, <1>1, SuffixDrop
    <3>3. k + j - 1 \in 0..Len(added) /\ (k + j - 1) + 1 = k + j
      BY <3>1, <1>1
    <3>. QED
      BY <3>2, <3>3
  <2>. QED
    BY <2>1, <2>2
<1>3. \A k2 \in 0..Len(added) : SubSeq(added, k2 + 1, Len(added)) \in Seq(Added)
  BY SubSeqProperties
<1>. QED
  BY <1>2, <1>3

(* Appending to a suffix of a gives the suffix of Append(a, m) that starts *)
(* at the same place.                                                      *)
LEMMA AppendSuffix ==
    ASSUME NEW S, NEW a \in Seq(S), NEW k \in 0..Len(a), NEW m \in S
    PROVE  Append(SubSeq(a, k + 1, Len(a)), m) = SubSeq(Append(a, m), k + 1, Len(a) + 1)
BY SMT

(* An add keeps Recent a suffix of added from the same starting point: the *)
(* new message goes to the end of both.                                     *)
LEMMA RecentAppend ==
    ASSUME NEW ms \in Seq(Msgs), added \in Seq(Added),
           NEW k \in 0..Len(added), RecentFrom(ms, k), NEW m \in Added
    PROVE  Recent(Append(ms, m)) = SubSeq(Append(added, m), k + 1, Len(added) + 1)
<1>1. m.role # "System"
  BY AddedNotSystem
<1>2. Append(SubSeq(added, k + 1, Len(added)), m) = SubSeq(Append(added, m), k + 1, Len(added) + 1)
  BY AppendSuffix
<1>3. CASE ms = << >>
  <2>1. Recent(Append(ms, m)) = Append(ms, m)
    BY <1>1, <1>3 DEF Recent
  <2>2. Recent(ms) = ms
    BY <1>3 DEF Recent
  <2>. QED
    BY <1>2, <2>1, <2>2 DEF RecentFrom
<1>4. CASE ms # << >> /\ ms[1].role = "System"
  <2>1. Append(ms, m)[1] = ms[1] /\ Append(ms, m) # << >>
    BY <1>4
  <2>2. Tail(Append(ms, m)) = Append(Tail(ms), m)
    BY <1>4, HeadTailAppend
  <2>3. Recent(Append(ms, m)) = Append(Recent(ms), m)
    BY <1>4, <2>1, <2>2 DEF Recent
  <2>. QED
    BY <1>2, <2>3 DEF RecentFrom
<1>5. CASE ms # << >> /\ ms[1].role # "System"
  <2>1. Append(ms, m)[1] = ms[1] /\ Append(ms, m) # << >>
    BY <1>5
  <2>2. Recent(Append(ms, m)) = Append(Recent(ms), m)
    BY <1>5, <2>1 DEF Recent
  <2>. QED
    BY <1>2, <2>2 DEF RecentFrom
<1>. QED
  BY <1>3, <1>4, <1>5

(* Reverse(s) is a sequence of the same elements, read from the end.     *)
LEMMA ReverseProperties ==
    ASSUME NEW S, NEW s \in Seq(S)
    PROVE  /\ Reverse(s) \in Seq(S)
           /\ Len(Reverse(s)) = Len(s)
           /\ \A i \in 1..Len(s) : Reverse(s)[i] = s[(Len(s) - i) + 1]
<1>1. \A i \in 1..Len(s) : s[(Len(s) - i) + 1] \in S
  BY ElementOfSeq, LenProperties
<1>2. [i \in 1..Len(s) |-> s[(Len(s) - i) + 1]] \in Seq(S)
  BY <1>1, LenProperties, IsASeq
<1>. QED
  BY <1>2, LenProperties DEF Reverse

(* A SubSeq that runs to the end of a is a suffix of a (SequencesExt's    *)
(* IsSuffix, stated through Reverse).                                      *)
LEMMA SubSeqIsSuffix ==
    ASSUME NEW S, NEW a \in Seq(S), NEW k \in 0..Len(a)
    PROVE  IsSuffix(SubSeq(a, k + 1, Len(a)), a)
<1> DEFINE b == SubSeq(a, k + 1, Len(a))
<1>1. b \in Seq(S) /\ Len(b) = Len(a) - k /\ \A i \in 1..Len(b) : b[i] = a[k + i]
  BY SubSeqProperties
<1>2. /\ Reverse(b) \in Seq(S) /\ Len(Reverse(b)) = Len(b)
      /\ \A i \in 1..Len(b) : Reverse(b)[i] = b[(Len(b) - i) + 1]
      /\ Reverse(a) \in Seq(S) /\ Len(Reverse(a)) = Len(a)
      /\ \A i \in 1..Len(a) : Reverse(a)[i] = a[(Len(a) - i) + 1]
  BY <1>1, ReverseProperties
<1>3. Reverse(b) \in Seq(S) /\ Len(Reverse(b)) = Len(b)
      /\ Reverse(a) \in Seq(S) /\ Len(Reverse(a)) = Len(a)
  BY <1>1, <1>2
<1>4. \A i \in 1..Len(b) : Reverse(b)[i] = Reverse(a)[i]
  <2> SUFFICES ASSUME NEW i \in 1..Len(b) PROVE Reverse(b)[i] = Reverse(a)[i]
    OBVIOUS
  <2>1. (Len(b) - i) + 1 \in 1..Len(b) /\ k + ((Len(b) - i) + 1) = (Len(a) - i) + 1
    BY <1>1
  <2>2. Reverse(b)[i] = a[(Len(a) - i) + 1]
    BY <1>1, <1>2, <2>1
  <2>3. i \in 1..Len(a)
    BY <1>1
  <2>. QED
    BY <1>2, <2>2, <2>3
<1>5. SubSeq(Reverse(b), 1, Len(b)) = Reverse(b)
  BY <1>3, SubSeqFull
<1>6. SubSeq(Reverse(a), 1, Len(b)) \in Seq(S)
      /\ Len(SubSeq(Reverse(a), 1, Len(b))) = Len(b)
      /\ \A i \in 1..Len(b) : SubSeq(Reverse(a), 1, Len(b))[i] = Reverse(a)[i]
  BY <1>1, <1>3, SubSeqProperties
<1>7. SubSeq(Reverse(a), 1, Len(b)) = Reverse(b)
  BY <1>3, <1>4, <1>6, SeqEqual
<1>. QED
  BY <1>1, <1>3, <1>5, <1>7 DEF IsSuffix, IsPrefix

(* The initial, empty history satisfies the invariant from position 0.    *)
LEMMA InitIInv ==
    Init => IInv
<1> SUFFICES ASSUME Init PROVE IInv
  OBVIOUS
<1>1. Recent(messages) = << >> /\ SubSeq(added, 1, Len(added)) = << >>
  BY DEF Init, Recent
<1>2. messages \in Seq(Msgs) /\ added \in Seq(Added) /\ 0 \in 0..Len(added)
  BY EmptySeq DEF Init
<1>3. RecentFrom(messages, 0)
  BY <1>1 DEF RecentFrom
<1>. QED
  BY <1>2, <1>3 DEF IInv

(* add_user, add_assistant and add_tool_result push the next message to   *)
(* the end of the history and of added alike.                              *)
LEMMA AddStep ==
    ASSUME IInv, NEW r \in Roles \ {"System"}, Len(added) < MaxAdds,
           messages' = Append(messages, Msg(r, NextContent)),
           added' = Append(added, Msg(r, NextContent))
    PROVE  IInv'
<1> DEFINE m == Msg(r, NextContent)
<1>1. m \in Added
  BY HistoryAssumption DEF Added, Msg, NextContent, IInv
<1>2. messages' \in Seq(Msgs) /\ added' \in Seq(Added) /\ Len(added') = Len(added) + 1
  BY <1>1, AppendProperties DEF IInv, Msgs
<1>3. PICK k \in 0..Len(added) : RecentFrom(messages, k)
  BY DEF IInv
<1>4. Recent(messages') = SubSeq(added', k + 1, Len(added'))
  BY <1>1, <1>2, <1>3, RecentAppend DEF IInv
<1>5. k \in 0..Len(added')
  BY <1>2
<1>. QED
  BY <1>2, <1>4, <1>5 DEF IInv, RecentFrom

(* truncate_to_last(n) keeps the newest n messages, all of them added      *)
(* messages once the leading summary, if any, is cut away.                 *)
LEMMA TruncateStep ==
    ASSUME IInv, NEW n \in Nat, TruncateToLast(n)
    PROVE  IInv'
<1>1. CASE Len(messages) > n
  <2> DEFINE j == Len(messages) - n + 1
  <2>1. messages' = SubSeq(messages, j, Len(messages)) /\ added' = added
    BY <1>1 DEF TruncateToLast, truncate_to_last
  <2>2. j \in 2..Len(messages) + 1
    BY <1>1 DEF IInv
  <2>3. PICK k \in 0..Len(added) : RecentFrom(messages, k)
    BY DEF IInv
  <2>4. /\ messages' \in Seq(Added)
        /\ \E k2 \in 0..Len(added) : messages' = SubSeq(added, k2 + 1, Len(added))
    BY <2>1, <2>2, <2>3, RecentDrop DEF IInv
  <2>5. messages' \in Seq(Msgs) /\ (messages' = << >> \/ messages'[1] \in Added)
    BY <2>4, SeqMonotonic, ElementOfSeq DEF Msgs
  <2>6. Recent(messages') = messages'
    BY <2>5, RecentNoSummary
  <2>. QED
    BY <2>1, <2>4, <2>5, <2>6 DEF IInv, RecentFrom
<1>2. CASE ~(Len(messages) > n)
  BY <1>2 DEF TruncateToLast, truncate_to_last, IInv, RecentFrom
<1>. QED
  BY <1>1, <1>2

(* Summarising, which the policy allows only at trigger_at_messages or     *)
(* more messages, drains more than retain_after of them when the trigger   *)
(* lies above retain_after: so the earlier summary, at the front, is       *)
(* always among the messages cleared, and the new one leads the history.   *)
LEMMA SummarizeStep ==
    ASSUME RetainAfter < TriggerAt, IInv, NEW s \in Summaries, Summarize(s)
    PROVE  IInv'
<1> DEFINE L == Len(messages)
           keep == L - RetainAfter
           d == SubSeq(messages, keep + 1, L)
           sm == Msg("System", SummaryText(s))
<1>1. L \in Nat /\ L >= TriggerAt
  BY LenProperties DEF Summarize, should_summarize, policy, Policy, IInv
<1>2. saturating_sub(L, RetainAfter) = keep /\ keep + 1 \in 2..L + 1
  BY <1>1, HistoryAssumption DEF saturating_sub
<1>3. messages' = << sm >> \o d /\ added' = added
  BY <1>2 DEF Summarize, replace_with_summary, policy, Policy
<1>4. PICK k \in 0..Len(added) : RecentFrom(messages, k)
  BY DEF IInv
<1>5. /\ d \in Seq(Added)
      /\ \E k2 \in 0..Len(added) : d = SubSeq(added, k2 + 1, Len(added))
  BY <1>2, <1>4, RecentDrop DEF IInv
<1>6. sm \in Msgs /\ sm.role = "System"
  BY DEF SummaryMsgs, Msg, Msgs
<1>7. d \in Seq(Msgs) /\ << sm >> \in Seq(Msgs)
  BY <1>5, <1>6, SeqMonotonic DEF Msgs
<1>8. messages' \in Seq(Msgs)
  BY <1>3, <1>7, ConcatProperties
<1>9. Recent(<< sm >> \o d) = d
  <2> DEFINE mp == << sm >> \o d
  <2>1. /\ mp \in Seq(Msgs) /\ Len(mp) = 1 + Len(d) /\ Len(d) \in Nat
        /\ \A i \in 1..1 + Len(d) : mp[i] = IF i <= 1 THEN sm ELSE d[i - 1]
    BY <1>7, ConcatProperties, LenProperties
  <2>2. mp # << >> /\ mp[1] = sm
    BY <2>1
  <2>3. /\ Tail(mp) \in Seq(Msgs) /\ Len(Tail(mp)) = Len(d)
        /\ \A i \in 1..Len(d) : Tail(mp)[i] = d[i]
    BY <2>1, <2>2, HeadTailProperties
  <2>4. Tail(mp) = d
    BY <1>7, <2>3, SeqEqual
  <2>. QED
    BY <1>6, <2>2, <2>4 DEF Recent
<1>. QED
  BY <1>3, <1>5, <1>8, <1>9 DEF IInv, RecentFrom

(* Every step of History keeps the invariant, given a trigger above the   *)
(* retain count.                                                           *)
LEMMA NextIInv ==
    ASSUME RetainAfter < TriggerAt, IInv, [Next]_vars
    PROVE  IInv'
<1>1. CASE AddUser
  BY <1>1, AddStep DEF AddUser, add_user, Record, Roles
<1>2. CASE AddAssistant
  BY <1>2, AddStep DEF AddAssistant, add_assistant, Record, Roles
<1>3. CASE AddToolResult
  BY <1>3, AddStep DEF AddToolResult, add_tool_result, Record, Roles
<1>4. CASE \E n \in 0..TriggerAt : TruncateToLast(n)
  BY <1>4, TruncateStep
<1>5. CASE \E s \in Summaries : Summarize(s)
  BY <1>5, SummarizeStep
<1>6. CASE UNCHANGED vars
  BY <1>6 DEF IInv, RecentFrom, vars
<1>. QED
  BY <1>1, <1>2, <1>3, <1>4, <1>5, <1>6 DEF Next

(* replace_with_summary never leaves an earlier summary behind the new    *)
(* one and no caller's truncation or push reorders or loses a message in  *)
(* the middle: for every policy with trigger_at_messages above             *)
(* retain_after, every history reached is at most one leading summary     *)
(* followed by the newest messages added, in order.                        *)
THEOREM HistorySafe ==
    ASSUME RetainAfter < TriggerAt
    PROVE  Spec => []HistoryIsSummaryThenRecent
<1>1. Init => IInv
  BY InitIInv
<1>2. IInv /\ [Next]_vars => IInv'
  BY NextIInv
<1>3. IInv => HistoryIsSummaryThenRecent
  <2> SUFFICES ASSUME IInv PROVE HistoryIsSummaryThenRecent
    OBVIOUS
  <2>1. PICK k \in 0..Len(added) : RecentFrom(messages, k)
    BY DEF IInv
  <2>. QED
    BY <2>1, SubSeqIsSuffix DEF IInv, RecentFrom, HistoryIsSummaryThenRecent
<1>. QED
  BY <1>1, <1>2, <1>3, PTL DEF Spec

-----------------------------------------------------------------------------
(* HTypeOK is inductive on its own, whatever the policy.                   *)

(* The message an add pushes is an added message while the bound holds.   *)
LEMMA NextMessageAdded ==
    ASSUME added \in Seq(Added), Len(added) < MaxAdds, NEW r \in Roles \ {"System"}
    PROVE  Msg(r, NextContent) \in Added
BY HistoryAssumption DEF Added, Msg, NextContent

LEMMA NextHTypeOK ==
    ASSUME HTypeOK, [Next]_vars
    PROVE  HTypeOK'
<1>1. ASSUME NEW r \in Roles \ {"System"}, Len(added) < MaxAdds,
             messages' = Append(messages, Msg(r, NextContent)),
             added' = Append(added, Msg(r, NextContent))
      PROVE  HTypeOK'
  <2>1. Msg(r, NextContent) \in Added
    BY <1>1, NextMessageAdded DEF HTypeOK
  <2>. QED  BY <1>1, <2>1, AppendProperties DEF HTypeOK
<1>2. CASE AddUser
  BY <1>1, <1>2 DEF AddUser, add_user, Record, Roles, HTypeOK
<1>3. CASE AddAssistant
  BY <1>1, <1>3 DEF AddAssistant, add_assistant, Record, Roles, HTypeOK
<1>4. CASE AddToolResult
  BY <1>1, <1>4 DEF AddToolResult, add_tool_result, Record, Roles, HTypeOK
<1>5. ASSUME NEW n \in 0..TriggerAt, TruncateToLast(n) PROVE HTypeOK'
  <2>1. CASE Len(messages) > n
    <3>1. messages' = SubSeq(messages, Len(messages) - n + 1, Len(messages))
      BY <1>5, <2>1 DEF TruncateToLast, truncate_to_last, HTypeOK
    <3>. QED  BY <1>5, <2>1, <3>1, SubSeqProperties, HistoryAssumption DEF TruncateToLast, HTypeOK
  <2>2. CASE ~(Len(messages) > n)
    BY <1>5, <2>2 DEF TruncateToLast, truncate_to_last, HTypeOK
  <2>. QED  BY <2>1, <2>2 DEF HTypeOK
<1>6. ASSUME NEW s \in Summaries, Summarize(s) PROVE HTypeOK'
  <2> DEFINE keep == saturating_sub(Len(messages), RetainAfter)
             sm == Msg("System", SummaryText(s))
  <2>1. keep \in 0..Len(messages)
    BY HistoryAssumption DEF saturating_sub, HTypeOK
  <2>2. messages' = << sm >> \o SubSeq(messages, keep + 1, Len(messages))
        /\ added' = added
    BY <1>6 DEF Summarize, replace_with_summary, policy, Policy, HTypeOK
  <2>3. SubSeq(messages, keep + 1, Len(messages)) \in Seq(Added \cup SummaryMsgs)
    BY <2>1, SubSeqProperties DEF HTypeOK
  <2>4. << sm >> \in Seq(Added \cup SummaryMsgs)
    BY DEF SummaryMsgs, HTypeOK
  <2>. QED  BY <2>2, <2>3, <2>4, ConcatProperties DEF HTypeOK
<1>7. CASE UNCHANGED vars
  BY <1>7 DEF vars, HTypeOK
<1>. QED  BY <1>2, <1>3, <1>4, <1>5, <1>6, <1>7 DEF Next, HTypeOK

(* Whatever the policy, ConversationHistory only ever holds the user,      *)
(* assistant and tool messages added and System summaries: a tool result   *)
(* is never pushed as a System message, and no truncation or drain makes  *)
(* up a message.                                                           *)
THEOREM HistoryTypeCorrect ==
    Spec => []HTypeOK
<1>1. Init => HTypeOK
  BY EmptySeq DEF Init, HTypeOK
<1>2. HTypeOK /\ [Next]_vars => HTypeOK'
  BY NextHTypeOK
<1>. QED  BY <1>1, <1>2, PTL DEF Spec
=============================================================================
