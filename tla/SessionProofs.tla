---------------------------- MODULE SessionProofs ----------------------------
(***************************************************************************)
(* Proof that SessionManager loses no update when one caller drives it    *)
(* and the keys in use print to distinct strings: SessionMatchesLog holds  *)
(* in every reachable state.  (Two callers break it: session_lost_update;  *)
(* keys that print alike break it: session_key_collision.)                 *)
(***************************************************************************)
EXTENDS Session, SessionKeysProofs, SequenceTheorems, TLAPS

(* One caller: the manager's calls never interleave.                     *)
SingleCaller == \A c, d \in Callers : c = d

(* Display is injective on the keys in use, so each key has its own entry. *)
KeysPrintApart == \A k1, k2 \in Keys : to_string(k1) = to_string(k2) => k1 = k2

(* The user and assistant messages one turn appends.                       *)
TurnMsgs(n) == << [role |-> "User", content |-> n], [role |-> "Assistant", content |-> n] >>

(* The messages a log of turns wrote.                                     *)
LEMMA LogMessagesType ==
    ASSUME NEW l \in Seq(Turns)
    PROVE  LogMessages(l) \in Seq(Messages) /\ Len(LogMessages(l)) = 2 * Len(l)
<1>1. Len(l) \in Nat /\ \A j \in 1..Len(l) : l[j] \in Turns
  BY LenProperties, ElementOfSeq
<1>2. \A i \in 1..2 * Len(l) : (i + 1) \div 2 \in 1..Len(l)
  BY <1>1
<1>. QED  BY <1>1, <1>2 DEF LogMessages, Messages

(* The messages of a log grow by the turn's two messages when the log      *)
(* grows by the turn.                                                      *)
LEMMA LogMessagesAppend ==
    ASSUME NEW l \in Seq(Turns), NEW n \in Turns
    PROVE  LogMessages(Append(l, n)) = LogMessages(l) \o TurnMsgs(n)
<1> DEFINE L == Len(l)
<1>1. L \in Nat /\ Len(Append(l, n)) = L + 1
      /\ \A j \in 1..L : Append(l, n)[j] = l[j] /\ Append(l, n)[L + 1] = n
  BY AppendProperties, LenProperties
<1>2. LogMessages(l) \in Seq(Messages) /\ Len(LogMessages(l)) = 2 * L
  BY <1>1 DEF LogMessages, Messages
<1>3. TurnMsgs(n) \in Seq(Messages) /\ Len(TurnMsgs(n)) = 2
  BY DEF TurnMsgs, Messages
<1>4. /\ LogMessages(l) \o TurnMsgs(n) \in Seq(Messages)
      /\ Len(LogMessages(l) \o TurnMsgs(n)) = 2 * L + 2
      /\ \A i \in 1..2 * L + 2 : (LogMessages(l) \o TurnMsgs(n))[i] =
            IF i <= 2 * L THEN LogMessages(l)[i] ELSE TurnMsgs(n)[i - 2 * L]
  <2>1. /\ LogMessages(l) \o TurnMsgs(n) \in Seq(Messages)
        /\ Len(LogMessages(l) \o TurnMsgs(n)) = Len(LogMessages(l)) + Len(TurnMsgs(n))
        /\ \A i \in 1..Len(LogMessages(l)) + Len(TurnMsgs(n)) :
              (LogMessages(l) \o TurnMsgs(n))[i] =
                 IF i <= Len(LogMessages(l)) THEN LogMessages(l)[i]
                 ELSE TurnMsgs(n)[i - Len(LogMessages(l))]
    BY <1>2, <1>3, ConcatProperties
  <2>. QED  BY <1>2, <1>3, <2>1
<1>5. LogMessages(Append(l, n)) \in Seq(Messages) /\ Len(LogMessages(Append(l, n))) = 2 * L + 2
  BY <1>1, AppendProperties DEF LogMessages, Messages
<1>6. ASSUME NEW i \in 1..2 * L + 2
      PROVE  LogMessages(Append(l, n))[i] = (LogMessages(l) \o TurnMsgs(n))[i]
  <2>1. (i + 1) \div 2 \in 1..L + 1 /\ ((i + 1) \div 2 <= L <=> i <= 2 * L)
    BY <1>1
  <2>2. CASE i <= 2 * L
    <3>1. (i + 1) \div 2 \in 1..L
      BY <2>1, <2>2
    <3>. QED  BY <1>1, <1>4, <2>2, <3>1 DEF LogMessages
  <2>3. CASE i = 2 * L + 1
    <3>1. (i + 1) \div 2 = L + 1 /\ i % 2 = 1
      BY <1>1, <2>3
    <3>. QED  BY <1>1, <1>4, <2>3, <3>1 DEF LogMessages, TurnMsgs
  <2>4. CASE i = 2 * L + 2
    <3>1. (i + 1) \div 2 = L + 1 /\ i % 2 = 0
      BY <1>1, <2>4
    <3>2. (LogMessages(l) \o TurnMsgs(n))[i] = [role |-> "Assistant", content |-> n]
      BY <1>1, <1>4, <2>4 DEF TurnMsgs
    <3>3. LogMessages(Append(l, n))[i] = [role |-> "Assistant", content |-> n]
      BY <1>1, <2>4, <3>1 DEF LogMessages
    <3>. QED  BY <3>2, <3>3
  <2>5. i <= 2 * L \/ i = 2 * L + 1 \/ i = 2 * L + 2
    BY <1>1
  <2>. QED  BY <2>2, <2>3, <2>4, <2>5
<1>. QED  BY <1>4, <1>5, <1>6, SeqEqual

(* How many messages Newest(m, n) keeps.                                   *)
Kept(m, n) == IF Len(m) < n THEN Len(m) ELSE n

(* Newest(m, n) is the last Kept(m, n) elements of m, in order.           *)
LEMMA NewestProperties ==
    ASSUME NEW S, NEW m \in Seq(S), NEW n \in Nat
    PROVE  /\ Newest(m, n) \in Seq(S)
           /\ Len(Newest(m, n)) = Kept(m, n)
           /\ \A i \in 1..Kept(m, n) : Newest(m, n)[i] = m[Len(m) - Kept(m, n) + i]
<1> DEFINE k == Kept(m, n)
<1>1. Len(m) \in Nat /\ k \in Nat /\ k <= Len(m)
  BY LenProperties DEF Kept
<1>2. ASSUME NEW i \in 1..k PROVE m[Len(m) - k + i] \in S
  <2>1. Len(m) - k + i \in 1..Len(m)
    BY <1>1
  <2>. QED  BY <2>1, ElementOfSeq
<1>3. Newest(m, n) = [i \in 1..k |-> m[Len(m) - k + i]]
  BY DEF Newest, Kept
<1>4. [i \in 1..k |-> m[Len(m) - k + i]] \in Seq(S)
  BY <1>1, <1>2, IsASeq
<1>. QED  BY <1>1, <1>3, <1>4

(* add_user_turn's "truncate only when longer than max_history" keeps     *)
(* exactly the newest max_history messages.                                *)
LEMMA TruncateIsNewest ==
    ASSUME NEW S, NEW h \in Seq(S), NEW n \in Nat
    PROVE  (IF Len(h) > n THEN truncate_to_last(h, n) ELSE h) = Newest(h, n)
<1>1. /\ Newest(h, n) \in Seq(S)
      /\ Len(Newest(h, n)) = Kept(h, n)
      /\ \A i \in 1..Kept(h, n) : Newest(h, n)[i] = h[Len(h) - Kept(h, n) + i]
  BY NewestProperties
<1>0. Len(h) \in Nat
  BY LenProperties
<1>2. CASE Len(h) > n
  <2>1. /\ SubSeq(h, Len(h) - n + 1, Len(h)) \in Seq(S)
        /\ Len(SubSeq(h, Len(h) - n + 1, Len(h))) = n
        /\ \A i \in 1..n : SubSeq(h, Len(h) - n + 1, Len(h))[i] = h[Len(h) - n + i]
    BY <1>2, SubSeqProperties, LenProperties
  <2>2. Kept(h, n) = n
    BY <1>0, <1>2 DEF Kept
  <2>3. SubSeq(h, Len(h) - n + 1, Len(h)) = Newest(h, n)
    BY <1>1, <2>1, <2>2, SeqEqual
  <2>. QED  BY <1>2, <2>3 DEF truncate_to_last
<1>3. CASE ~(Len(h) > n)
  <2>1. Kept(h, n) = Len(h)
    BY <1>0, <1>3 DEF Kept
  <2>2. h = Newest(h, n)
    BY <1>1, <2>1, SeqEqual
  <2>. QED  BY <1>3, <2>2
<1>. QED  BY <1>2, <1>3

(* Keeping the newest n, appending, and keeping the newest n again keeps  *)
(* the same as appending and then keeping the newest n: a truncation never *)
(* loses a message a later truncation would have kept.                     *)
LEMMA NewestConcat ==
    ASSUME NEW S, NEW m \in Seq(S), NEW x \in Seq(S), NEW n \in Nat
    PROVE  Newest(Newest(m, n) \o x, n) = Newest(m \o x, n)
<1> DEFINE a == Newest(m, n)
<1>1. CASE Len(m) <= n
  <2>1. a = m
    BY <1>1, TruncateIsNewest
  <2>. QED  BY <2>1
<1>2. CASE Len(m) > n
  <2>0. Len(x) \in Nat /\ Len(m) \in Nat
    BY LenProperties
  <2>1. a \in Seq(S) /\ Len(a) = n /\ \A i \in 1..n : a[i] = m[Len(m) - n + i]
    <3>1. Kept(m, n) = n
      BY <1>2, <2>0 DEF Kept
    <3>2. /\ Newest(m, n) \in Seq(S)
          /\ Len(Newest(m, n)) = Kept(m, n)
          /\ \A i \in 1..Kept(m, n) : Newest(m, n)[i] = m[Len(m) - Kept(m, n) + i]
      BY NewestProperties
    <3>. QED  BY <3>1, <3>2
  <2>2. /\ a \o x \in Seq(S) /\ Len(a \o x) = n + Len(x)
        /\ \A i \in 1..n + Len(x) : (a \o x)[i] = IF i <= n THEN a[i] ELSE x[i - n]
    <3>1. /\ a \o x \in Seq(S) /\ Len(a \o x) = Len(a) + Len(x)
          /\ \A i \in 1..Len(a) + Len(x) :
                (a \o x)[i] = IF i <= Len(a) THEN a[i] ELSE x[i - Len(a)]
      BY <2>1, ConcatProperties
    <3>. QED  BY <2>1, <3>1
  <2>3. /\ m \o x \in Seq(S) /\ Len(m \o x) = Len(m) + Len(x)
        /\ \A i \in 1..Len(m) + Len(x) :
              (m \o x)[i] = IF i <= Len(m) THEN m[i] ELSE x[i - Len(m)]
    BY ConcatProperties
  <2>4. Kept(a \o x, n) = n /\ Kept(m \o x, n) = n
    BY <1>2, <2>0, <2>2, <2>3 DEF Kept
  <2>5. /\ Newest(a \o x, n) \in Seq(S) /\ Len(Newest(a \o x, n)) = n
        /\ \A i \in 1..n : Newest(a \o x, n)[i] = (a \o x)[Len(x) + i]
    <3>1. /\ Newest(a \o x, n) \in Seq(S) /\ Len(Newest(a \o x, n)) = Kept(a \o x, n)
          /\ \A i \in 1..Kept(a \o x, n) :
                Newest(a \o x, n)[i] = (a \o x)[Len(a \o x) - Kept(a \o x, n) + i]
      BY <2>2, NewestProperties
    <3>. QED  BY <2>0, <2>2, <2>4, <3>1
  <2>6. /\ Newest(m \o x, n) \in Seq(S) /\ Len(Newest(m \o x, n)) = n
        /\ \A i \in 1..n : Newest(m \o x, n)[i] = (m \o x)[Len(m) + Len(x) - n + i]
    <3>1. /\ Newest(m \o x, n) \in Seq(S) /\ Len(Newest(m \o x, n)) = Kept(m \o x, n)
          /\ \A i \in 1..Kept(m \o x, n) :
                Newest(m \o x, n)[i] = (m \o x)[Len(m \o x) - Kept(m \o x, n) + i]
      BY <2>3, NewestProperties
    <3>2. Len(m \o x) - Kept(m \o x, n) = Len(m) + Len(x) - n
      BY <2>0, <2>3, <2>4
    <3>. QED  BY <2>4, <3>1, <3>2
  <2>7. ASSUME NEW i \in 1..n
        PROVE  (a \o x)[Len(x) + i] = (m \o x)[Len(m) + Len(x) - n + i]
    <3>1. Len(x) + i \in 1..n + Len(x) /\ Len(m) + Len(x) - n + i \in 1..Len(m) + Len(x)
      BY <1>2, <2>0
    <3>2. CASE Len(x) + i <= n
      <4>1. (a \o x)[Len(x) + i] = m[Len(m) - n + Len(x) + i]
        BY <2>1, <2>2, <3>1, <3>2
      <4>2. (m \o x)[Len(m) + Len(x) - n + i] = m[Len(m) - n + Len(x) + i]
        BY <2>0, <2>3, <3>1, <3>2
      <4>. QED  BY <4>1, <4>2
    <3>3. CASE Len(x) + i > n
      <4>1. (a \o x)[Len(x) + i] = x[Len(x) + i - n]
        BY <2>2, <3>1, <3>3
      <4>2. (m \o x)[Len(m) + Len(x) - n + i] = x[Len(x) + i - n]
        BY <2>0, <2>3, <3>1, <3>3
      <4>. QED  BY <4>1, <4>2
    <3>4. Len(x) + i <= n \/ Len(x) + i > n
      BY <2>0
    <3>. QED  BY <3>2, <3>3, <3>4
  <2>8. \A i \in 1..n : Newest(a \o x, n)[i] = Newest(m \o x, n)[i]
    BY <2>5, <2>6, <2>7
  <2>. QED  BY <2>5, <2>6, <2>8, SeqEqual
<1>. QED  BY <1>1, <1>2, LenProperties

(* add_user_turn's new history: the stored newest max_history messages of *)
(* the log, the turn's two messages pushed, and the truncation, are the   *)
(* newest max_history messages of the log with the turn appended.          *)
LEMMA TurnHistory ==
    ASSUME NEW l \in Seq(Turns), NEW n \in Turns
    PROVE  LET h == add_assistant(add_user(Newest(LogMessages(l), MaxHistory), n), n)
           IN  (IF Len(h) > MaxHistory THEN truncate_to_last(h, MaxHistory) ELSE h)
                  = Newest(LogMessages(Append(l, n)), MaxHistory)
<1> DEFINE old == Newest(LogMessages(l), MaxHistory)
           h == add_assistant(add_user(old, n), n)
<1>1. MaxHistory \in Nat
  BY SessionAssumption
<1>2. LogMessages(l) \in Seq(Messages)
  BY LogMessagesType
<1>3. old \in Seq(Messages)
  BY <1>1, <1>2, NewestProperties
<1>4. TurnMsgs(n) \in Seq(Messages)
  BY DEF TurnMsgs, Messages
<1>5. h = old \o TurnMsgs(n)
  BY <1>3 DEF add_assistant, add_user, Msg, TurnMsgs
<1>6. h \in Seq(Messages)
  BY <1>3, <1>4, <1>5, ConcatProperties
<1>7. (IF Len(h) > MaxHistory THEN truncate_to_last(h, MaxHistory) ELSE h) = Newest(h, MaxHistory)
  BY <1>1, <1>6, TruncateIsNewest
<1>8. Newest(old \o TurnMsgs(n), MaxHistory) = Newest(LogMessages(l) \o TurnMsgs(n), MaxHistory)
  BY <1>1, <1>2, <1>4, NewestConcat
<1>9. LogMessages(Append(l, n)) = LogMessages(l) \o TurnMsgs(n)
  BY LogMessagesAppend
<1>. QED  BY <1>5, <1>7, <1>8, <1>9

-----------------------------------------------------------------------------
(* Types of the state the argument reads.                                 *)
STypeOK ==
    /\ sessions \in [KeyStrings -> Sessions \cup {Absent}]
    /\ pc \in [Callers -> {"idle", "insert"}]
    /\ DOMAIN target = Callers
    /\ nextTurn \in 1..MaxTurns + 1
    /\ log \in [Keys -> Seq(Turns)]
    /\ sumLog \in [Keys -> Summaries \cup {None}]

(* The inductive invariant: SessionMatchesLog, an absent key has no       *)
(* summary logged either, and a caller between get_or_create's lookup and *)
(* its insert still sees its key absent.                                   *)
SInv ==
    /\ STypeOK
    /\ SessionMatchesLog
    /\ \A k \in Keys : sessions[to_string(k)] = Absent => sumLog[k] = None
    /\ \A c \in Callers :
          pc[c] = "insert" => target[c] \in Keys /\ sessions[to_string(target[c])] = Absent

(* A fresh session holds what an empty log and no summary call for.       *)
LEMMA NewSessionMatches ==
    ASSUME NEW k \in Keys
    PROVE  /\ NewSession(k) \in Sessions /\ NewSession(k) # Absent
           /\ NewSession(k).history = Newest(LogMessages(<< >>), MaxHistory)
           /\ NewSession(k).summary = None /\ NewSession(k).key = k
<1>1. NewSession(k) \in Sessions
  BY DEF NewSession, Sessions
<1>2. LogMessages(<< >>) = << >>
  BY DEF LogMessages
<1>3. Newest(<< >>, MaxHistory) = << >>
  BY SessionAssumption DEF Newest
<1>. QED  BY <1>1, <1>2, <1>3, AbsentAssumption DEF NewSession

(* Steps that leave the sessions, the callers' places and the ghosts      *)
(* alone (a hit, history_len, len) keep the invariant.                     *)
LEMMA QuietStep ==
    ASSUME SInv, UNCHANGED <<sessions, pc, target, nextTurn, log, sumLog>>
    PROVE  SInv'
BY DEF SInv, STypeOK, SessionMatchesLog

LEMMA InitSInv == Init => SInv
<1> SUFFICES ASSUME Init PROVE SInv
  OBVIOUS
<1>1. \A k \in Keys : to_string(k) \in KeyStrings
  BY DEF KeyStrings
<1>3. STypeOK
  <2>1. MaxTurns \in Nat
    BY SessionAssumption
  <2>. QED  BY <2>1 DEF Init, STypeOK
<1>. QED  BY <1>1, <1>3 DEF Init, SInv, SessionMatchesLog

(* add_user_turn's update of a session, done one field at a time: a       *)
(* Session with a new history and the counter advanced is a Session.       *)
TurnEntry(s, x) == [s EXCEPT !.history = x, !.turns_since_summary = @ + 1]

LEMMA TurnUpdate ==
    ASSUME NEW s \in Sessions, NEW x \in Seq(Messages)
    PROVE  /\ TurnEntry(s, x) \in Sessions
           /\ TurnEntry(s, x).history = x /\ TurnEntry(s, x).summary = s.summary
           /\ TurnEntry(s, x).key = s.key
<1> DEFINE s1 == [s EXCEPT !.history = x]
<1>1. s1 \in Sessions /\ s1.history = x /\ s1.summary = s.summary /\ s1.key = s.key
  BY DEF Sessions
<1> HIDE DEF s1
<1>2. [s1 EXCEPT !.turns_since_summary = s1.turns_since_summary + 1] \in Sessions
      /\ [s1 EXCEPT !.turns_since_summary = s1.turns_since_summary + 1].history = x
      /\ [s1 EXCEPT !.turns_since_summary = s1.turns_since_summary + 1].summary = s.summary
      /\ [s1 EXCEPT !.turns_since_summary = s1.turns_since_summary + 1].key = s.key
  BY <1>1 DEF Sessions
<1>. QED  BY <1>2 DEF s1, TurnEntry

(* set_summary's update of a session is a Session with the history kept.  *)
LEMMA SummaryUpdate ==
    ASSUME NEW s \in Sessions, NEW sm \in Summaries
    PROVE  /\ [s EXCEPT !.summary = sm] \in Sessions
           /\ [s EXCEPT !.summary = sm].history = s.history
           /\ [s EXCEPT !.summary = sm].summary = sm
           /\ [s EXCEPT !.summary = sm].key = s.key
BY DEF Sessions

(* add_user_turn: the entry of k gets the newest max_history messages of   *)
(* its log with the turn appended, and no other key's entry moves because  *)
(* the keys print apart.                                                   *)
LEMMA AddUserTurnStep ==
    ASSUME SingleCaller, KeysPrintApart, SInv,
           NEW c \in Callers, NEW k \in Keys, AddUserTurn(c, k)
    PROVE  SInv'
<1> DEFINE ks == to_string(k)
           s == IF sessions[ks] = Absent THEN NewSession(k) ELSE sessions[ks]
           h == add_assistant(add_user(s.history, nextTurn), nextTurn)
           nh == IF Len(h) > MaxHistory THEN truncate_to_last(h, MaxHistory) ELSE h
           ns == [s EXCEPT !.history = nh, !.turns_since_summary = @ + 1]
<1>1. ks \in KeyStrings
  BY DEF KeyStrings
<1>2. /\ sessions' = [sessions EXCEPT ![ks] = ns]
      /\ nextTurn' = nextTurn + 1
      /\ log' = [log EXCEPT ![k] = Append(@, nextTurn)]
      /\ UNCHANGED <<pc, target, sumLog>>
      /\ nextTurn \in Turns /\ pc[c] = "idle"
  BY DEF AddUserTurn, Turns, SInv, STypeOK
<1>3. log[k] \in Seq(Turns) /\ sessions[ks] \in Sessions \cup {Absent}
  BY <1>1 DEF SInv, STypeOK
<1>4. s \in Sessions /\ s.history = Newest(LogMessages(log[k]), MaxHistory)
      /\ s.summary = sumLog[k]
  <2>1. CASE sessions[ks] = Absent
    <3>1. log[k] = << >> /\ sumLog[k] = None
      BY <2>1 DEF SInv, SessionMatchesLog
    <3>. QED  BY <2>1, <3>1, NewSessionMatches
  <2>2. CASE sessions[ks] # Absent
    BY <1>3, <2>2 DEF SInv, SessionMatchesLog
  <2>. QED  BY <2>1, <2>2
<1>5. log'[k] = Append(log[k], nextTurn) /\ log'[k] \in Seq(Turns)
  BY <1>2, <1>3, AppendProperties DEF SInv, STypeOK
<1>6. nh = Newest(LogMessages(log'[k]), MaxHistory)
  BY <1>2, <1>3, <1>4, <1>5, TurnHistory
<1>7. nh \in Seq(Messages)
  BY <1>5, <1>6, LogMessagesType, NewestProperties, SessionAssumption
<1>8. ns \in Sessions /\ ns # Absent /\ ns.summary = sumLog[k]
      /\ ns.history = Newest(LogMessages(log'[k]), MaxHistory)
  <2>1. ns = TurnEntry(s, nh)
    BY Zenon DEF TurnEntry
  <2>2. TurnEntry(s, nh) \in Sessions /\ TurnEntry(s, nh).history = nh
        /\ TurnEntry(s, nh).summary = s.summary
    BY <1>4, <1>7, TurnUpdate
  <2>. QED  BY <1>4, <1>6, <2>1, <2>2, AbsentAssumption
<1> HIDE DEF ns
<1>9. \A k2 \in Keys : k2 # k => to_string(k2) # ks
  BY DEF KeysPrintApart
<1>10. STypeOK'
  <2>1. sessions' \in [KeyStrings -> Sessions \cup {Absent}]
    BY <1>1, <1>2, <1>8 DEF SInv, STypeOK
  <2>2. log' \in [Keys -> Seq(Turns)]
    BY <1>2, <1>5 DEF SInv, STypeOK
  <2>3. nextTurn' \in 1..MaxTurns + 1
    BY <1>2, SessionAssumption DEF Turns
  <2>. QED  BY <1>2, <2>1, <2>2, <2>3 DEF SInv, STypeOK
<1>11. SessionMatchesLog'
  <2> SUFFICES ASSUME NEW k2 \in Keys
               PROVE  LET s2 == sessions'[to_string(k2)]
                      IN  IF s2 = Absent THEN log'[k2] = << >>
                          ELSE /\ s2.history = Newest(LogMessages(log'[k2]), MaxHistory)
                               /\ s2.summary = sumLog'[k2]
    BY DEF SessionMatchesLog
  <2>1. CASE k2 = k
    <3>1. sessions'[to_string(k2)] = ns
      BY <1>1, <1>2, <2>1 DEF SInv, STypeOK
    <3>. QED  BY <1>2, <1>8, <2>1, <3>1
  <2>2. CASE k2 # k
    <3>1. to_string(k2) \in KeyStrings /\ to_string(k2) # ks
      BY <1>9, <2>2 DEF KeyStrings
    <3>2. sessions'[to_string(k2)] = sessions[to_string(k2)] /\ log'[k2] = log[k2]
      BY <1>2, <2>2, <3>1 DEF SInv, STypeOK
    <3>. QED  BY <1>2, <3>2 DEF SInv, SessionMatchesLog
  <2>. QED  BY <2>1, <2>2
<1>12. \A k2 \in Keys : sessions'[to_string(k2)] = Absent => sumLog'[k2] = None
  BY <1>2, <1>8, <1>9 DEF SInv
<1>13. \A d \in Callers : pc'[d] # "insert"
  BY <1>2 DEF SingleCaller
<1>. QED  BY <1>10, <1>11, <1>12, <1>13 DEF SInv

(* set_summary on a present entry: the summary is what was last set, the *)
(* history stays.                                                          *)
LEMMA SetSummaryStep ==
    ASSUME SingleCaller, KeysPrintApart, SInv,
           NEW c \in Callers, NEW k \in Keys, NEW sm \in Summaries, SetSummary(c, k, sm)
    PROVE  SInv'
<1> DEFINE ks == to_string(k)
           ns == [sessions[ks] EXCEPT !.summary = sm]
<1>1. ks \in KeyStrings
  BY DEF KeyStrings
<1>2. sessions[ks] \in Sessions
  BY <1>1 DEF SetSummary, SInv, STypeOK
<1>3. /\ sessions' = [sessions EXCEPT ![ks] = ns]
      /\ sumLog' = [sumLog EXCEPT ![k] = sm]
      /\ UNCHANGED <<pc, target, nextTurn, log>>
      /\ pc[c] = "idle"
  BY Zenon DEF SetSummary
<1>4. ns \in Sessions /\ ns # Absent /\ ns.summary = sm
      /\ ns.history = Newest(LogMessages(log[k]), MaxHistory)
  <2>1. sessions[ks].history = Newest(LogMessages(log[k]), MaxHistory)
    BY <1>2, AbsentAssumption DEF SInv, SessionMatchesLog
  <2>. QED  BY <1>2, <2>1, SummaryUpdate, AbsentAssumption
<1> HIDE DEF ns
<1>5. \A k2 \in Keys : k2 # k => to_string(k2) \in KeyStrings /\ to_string(k2) # ks
  BY DEF KeysPrintApart, KeyStrings
<1>6. STypeOK'
  BY <1>1, <1>3, <1>4 DEF SInv, STypeOK
<1>7. \A k2 \in Keys : /\ sessions'[to_string(k2)] = IF k2 = k THEN ns ELSE sessions[to_string(k2)]
                       /\ sumLog'[k2] = IF k2 = k THEN sm ELSE sumLog[k2]
  BY <1>1, <1>3, <1>5 DEF SInv, STypeOK
<1>8. SessionMatchesLog'
  BY <1>3, <1>4, <1>7 DEF SInv, SessionMatchesLog
<1>9. \A k2 \in Keys : sessions'[to_string(k2)] = Absent => sumLog'[k2] = None
  BY <1>4, <1>7 DEF SInv
<1>10. \A d \in Callers : pc'[d] # "insert"
  BY <1>3 DEF SingleCaller
<1>. QED  BY <1>6, <1>8, <1>9, <1>10 DEF SInv

(* remove: the entry, its log and its summary are gone together.          *)
LEMMA RemoveStep ==
    ASSUME SingleCaller, KeysPrintApart, SInv,
           NEW c \in Callers, NEW k \in Keys, Remove(c, k)
    PROVE  SInv'
<1> DEFINE ks == to_string(k)
<1>1. ks \in KeyStrings
  BY DEF KeyStrings
<1>2. \A k2 \in Keys : k2 # k => to_string(k2) \in KeyStrings /\ to_string(k2) # ks
  BY DEF KeysPrintApart, KeyStrings
<1>3. \A k2 \in Keys : /\ sessions'[to_string(k2)] = IF k2 = k THEN Absent ELSE sessions[to_string(k2)]
                       /\ log'[k2] = IF k2 = k THEN << >> ELSE log[k2]
                       /\ sumLog'[k2] = IF k2 = k THEN None ELSE sumLog[k2]
  BY <1>1, <1>2 DEF Remove, SInv, STypeOK
<1>4. STypeOK'
  BY <1>1, SessionAssumption DEF Remove, SInv, STypeOK
<1>5. SessionMatchesLog'
  BY <1>3 DEF SInv, SessionMatchesLog
<1>6. \A d \in Callers : pc'[d] # "insert"
  BY DEF Remove, SingleCaller
<1>. QED  BY <1>3, <1>4, <1>5, <1>6 DEF SInv

(* get_or_create's lookup misses: the caller goes on to insert, its key   *)
(* absent.                                                                 *)
LEMMA MissStep ==
    ASSUME SInv, NEW c \in Callers, NEW k \in Keys, GetOrCreateMiss(c, k)
    PROVE  SInv'
<1>1. STypeOK'
  BY DEF GetOrCreateMiss, ghosts, SInv, STypeOK
<1>. QED  BY <1>1 DEF GetOrCreateMiss, ghosts, SInv, STypeOK, SessionMatchesLog

(* get_or_create's insert: with one caller nothing landed on the key since *)
(* the lookup, so the fresh session replaces no turn and no summary.       *)
LEMMA InsertStep ==
    ASSUME SingleCaller, KeysPrintApart, SInv, NEW c \in Callers, GetOrCreateInsert(c)
    PROVE  SInv'
<1> DEFINE k == target[c]
           ks == to_string(k)
<1>1. k \in Keys /\ sessions[ks] = Absent
  BY DEF GetOrCreateInsert, SInv
<1>2. ks \in KeyStrings
  BY <1>1 DEF KeyStrings
<1>3. log[k] = << >> /\ sumLog[k] = None
  BY <1>1 DEF SInv, SessionMatchesLog
<1>4. NewSession(k) \in Sessions /\ NewSession(k) # Absent
      /\ NewSession(k).history = Newest(LogMessages(log[k]), MaxHistory)
      /\ NewSession(k).summary = sumLog[k]
  BY <1>1, <1>3, NewSessionMatches
<1>5. \A k2 \in Keys : sessions'[to_string(k2)] = IF k2 = k THEN NewSession(k) ELSE sessions[to_string(k2)]
  BY <1>1, <1>2 DEF GetOrCreateInsert, KeysPrintApart, KeyStrings, SInv, STypeOK
<1>6. STypeOK'
  BY <1>2, <1>4 DEF GetOrCreateInsert, SInv, STypeOK
<1>7. SessionMatchesLog'
  BY <1>4, <1>5 DEF GetOrCreateInsert, SInv, SessionMatchesLog
<1>8. \A k2 \in Keys : sessions'[to_string(k2)] = Absent => sumLog'[k2] = None
  BY <1>4, <1>5 DEF GetOrCreateInsert, SInv
<1>9. \A d \in Callers : pc'[d] # "insert"
  BY DEF GetOrCreateInsert, SingleCaller, SInv, STypeOK
<1>. QED  BY <1>6, <1>7, <1>8, <1>9 DEF SInv

(* Every step of the manager keeps the inductive invariant.               *)
LEMMA NextSInv ==
    ASSUME SingleCaller, KeysPrintApart
    PROVE  SInv /\ [Next]_vars => SInv'
<1> SUFFICES ASSUME SInv, [Next]_vars PROVE SInv'
  OBVIOUS
<1>1. ASSUME NEW c \in Callers, GetOrCreateInsert(c) PROVE SInv'
  BY <1>1, InsertStep
<1>2. ASSUME NEW c \in Callers, SessionCount(c) PROVE SInv'
  BY <1>2, QuietStep DEF SessionCount, ghosts
<1>3. ASSUME NEW c \in Callers, NEW k \in Keys, GetOrCreateHit(c, k) PROVE SInv'
  BY <1>3, QuietStep DEF GetOrCreateHit, ghosts
<1>4. ASSUME NEW c \in Callers, NEW k \in Keys, GetOrCreateMiss(c, k) PROVE SInv'
  BY <1>4, MissStep
<1>5. ASSUME NEW c \in Callers, NEW k \in Keys, AddUserTurn(c, k) PROVE SInv'
  BY <1>5, AddUserTurnStep
<1>6. ASSUME NEW c \in Callers, NEW k \in Keys, Remove(c, k) PROVE SInv'
  BY <1>6, RemoveStep
<1>7. ASSUME NEW c \in Callers, NEW k \in Keys, HistoryLen(c, k) PROVE SInv'
  BY <1>7, QuietStep DEF HistoryLen, ghosts
<1>8. ASSUME NEW c \in Callers, NEW k \in Keys, NEW sm \in Summaries, SetSummary(c, k, sm)
      PROVE SInv'
  BY <1>8, SetSummaryStep
<1>9. CASE UNCHANGED vars
  BY <1>9, QuietStep DEF vars
<1>. QED  BY <1>1, <1>2, <1>3, <1>4, <1>5, <1>6, <1>7, <1>8, <1>9 DEF Next

(* No lost update, for one caller and keys that print apart: every stored *)
(* session holds the newest max_history messages of the turns added with  *)
(* its key since it was last removed, and the summary last set since.     *)
THEOREM SessionMatchesLogHolds ==
    ASSUME SingleCaller, KeysPrintApart
    PROVE  Spec => []SessionMatchesLog
<1>1. Init => SInv
  BY InitSInv
<1>2. SInv /\ [Next]_vars => SInv'
  BY NextSInv
<1>3. SInv => SessionMatchesLog
  BY DEF SInv
<1>. QED  BY <1>1, <1>2, <1>3, PTL DEF Spec

-----------------------------------------------------------------------------
(* StoredKeyParses, for any number of callers.  It rests on two facts:    *)
(* every session is stored under the string its own key prints to (an    *)
(* inductive invariant, KInv, kept by every step whatever the callers do)  *)
(* and parse reads back what Display printed (ParsePrinted).               *)

(* The keys in use are keys whose channel holds no ':' (a peer id may);   *)
(* the ids are UUIDs.                                                      *)
KeysWellFormed ==
    \E S : /\ Alphabet(S) /\ Uuids \subseteq S
           /\ \A k \in Keys : \E t, a \in Uuids, ch, p \in Seq(S) :
                 NoColon(ch) /\ k = Key(t, a, ch, p)

(* The inductive invariant: the types the steps read, a caller between   *)
(* get_or_create's lookup and insert holds a key, and every stored         *)
(* session's key prints to the string it is stored under.                  *)
KInv ==
    /\ sessions \in [KeyStrings -> Sessions \cup {Absent}]
    /\ pc \in [Callers -> {"idle", "insert"}]
    /\ DOMAIN target = Callers
    /\ nextTurn \in Nat \ {0}
    /\ \A c \in Callers : pc[c] = "insert" => target[c] \in Keys
    /\ \A ks \in KeyStrings : sessions[ks] # Absent => to_string(sessions[ks].key) = ks

LEMMA InitKInv == Init => KInv
<1> SUFFICES ASSUME Init PROVE KInv
  OBVIOUS
<1>. QED  BY DEF Init, KInv

(* Steps that leave sessions, pc, target and the turn counter alone.      *)
LEMMA KQuietStep ==
    ASSUME KInv, UNCHANGED <<sessions, pc, target, nextTurn>>
    PROVE  KInv'
BY DEF KInv

(* get_or_create's lookup misses: the caller holds its key for the insert. *)
LEMMA KMissStep ==
    ASSUME KInv, NEW c \in Callers, NEW k \in Keys, GetOrCreateMiss(c, k)
    PROVE  KInv'
BY DEF GetOrCreateMiss, ghosts, KInv

(* get_or_create's insert stores a fresh session of the caller's key under *)
(* that key's string, whatever other callers did since the lookup.        *)
LEMMA KInsertStep ==
    ASSUME KInv, NEW c \in Callers, GetOrCreateInsert(c)
    PROVE  KInv'
<1> DEFINE k == target[c]
           ks == to_string(k)
<1>1. k \in Keys /\ ks \in KeyStrings
  BY DEF GetOrCreateInsert, KInv, KeyStrings
<1>2. NewSession(k) \in Sessions /\ NewSession(k) # Absent /\ NewSession(k).key = k
  BY <1>1, NewSessionMatches
<1>3. sessions' = [sessions EXCEPT ![ks] = NewSession(k)]
      /\ pc' = [pc EXCEPT ![c] = "idle"] /\ UNCHANGED <<target, nextTurn>>
  BY DEF GetOrCreateInsert
<1>. QED  BY <1>1, <1>2, <1>3 DEF KInv

(* set_summary changes the summary of a stored session, not its key.      *)
LEMMA KSetSummaryStep ==
    ASSUME KInv, NEW c \in Callers, NEW k \in Keys, NEW sm \in Summaries, SetSummary(c, k, sm)
    PROVE  KInv'
<1> DEFINE ks == to_string(k)
           ns == [sessions[ks] EXCEPT !.summary = sm]
<1>1. ks \in KeyStrings /\ sessions[ks] \in Sessions
  BY DEF SetSummary, KInv, KeyStrings
<1>2. ns \in Sessions /\ ns # Absent /\ ns.key = sessions[ks].key
  BY <1>1, SummaryUpdate, AbsentAssumption
<1>3. sessions' = [sessions EXCEPT ![ks] = ns] /\ UNCHANGED <<pc, target, nextTurn>>
  BY Zenon DEF SetSummary
<1>4. to_string(ns.key) = ks
  BY <1>1, <1>2, AbsentAssumption DEF KInv
<1> HIDE DEF ns
<1>. QED  BY <1>1, <1>2, <1>3, <1>4 DEF KInv

(* remove leaves the entry absent.                                        *)
LEMMA KRemoveStep ==
    ASSUME KInv, NEW c \in Callers, NEW k \in Keys, Remove(c, k)
    PROVE  KInv'
<1>1. to_string(k) \in KeyStrings
  BY DEF KeyStrings
<1>. QED  BY <1>1 DEF Remove, KInv


(* add_user_turn stores, under the key's string, the session found there  *)
(* or a fresh one of the key, with a new history: the key field stays.    *)
LEMMA KAddUserTurnStep ==
    ASSUME KInv, NEW c \in Callers, NEW k \in Keys, AddUserTurn(c, k)
    PROVE  KInv'
<1> DEFINE ks == to_string(k)
           s == IF sessions[ks] = Absent THEN NewSession(k) ELSE sessions[ks]
           h == add_assistant(add_user(s.history, nextTurn), nextTurn)
           nh == IF Len(h) > MaxHistory THEN truncate_to_last(h, MaxHistory) ELSE h
           ns == [s EXCEPT !.history = nh, !.turns_since_summary = @ + 1]
<1>1. ks \in KeyStrings
  BY DEF KeyStrings
<1>2. /\ sessions' = [sessions EXCEPT ![ks] = ns]
      /\ nextTurn' = nextTurn + 1
      /\ UNCHANGED <<pc, target>>
      /\ nextTurn \in Turns
  BY DEF AddUserTurn, Turns, KInv
<1>3. s \in Sessions /\ to_string(s.key) = ks
  <2>1. CASE sessions[ks] = Absent
    BY <2>1, NewSessionMatches
  <2>2. CASE sessions[ks] # Absent
    BY <1>1, <2>2 DEF KInv
  <2>. QED  BY <2>1, <2>2
<1>4. s.history \in Seq(Messages) /\ TurnMsgs(nextTurn) \in Seq(Messages)
  BY <1>2, <1>3 DEF Sessions, TurnMsgs, Messages
<1>5. h = s.history \o TurnMsgs(nextTurn)
  BY <1>4 DEF add_assistant, add_user, Msg, TurnMsgs
<1>6. h \in Seq(Messages)
  BY <1>4, <1>5, ConcatProperties
<1>7. nh \in Seq(Messages)
  <2>1. MaxHistory \in Nat
    BY SessionAssumption
  <2>2. nh = Newest(h, MaxHistory)
    BY <1>6, <2>1, TruncateIsNewest
  <2>. QED  BY <1>6, <2>1, <2>2, NewestProperties
<1>8. ns \in Sessions /\ ns # Absent /\ ns.key = s.key
  <2>1. ns = TurnEntry(s, nh)
    BY Zenon DEF TurnEntry
  <2>2. TurnEntry(s, nh) \in Sessions /\ TurnEntry(s, nh).key = s.key
    BY <1>3, <1>7, TurnUpdate
  <2>. QED  BY <2>1, <2>2, AbsentAssumption
<1> HIDE DEF ns, s
<1>. QED  BY <1>1, <1>2, <1>3, <1>8 DEF KInv

(* Every step keeps KInv, however the callers interleave.                 *)
LEMMA NextKInv == KInv /\ [Next]_vars => KInv'
<1> SUFFICES ASSUME KInv, [Next]_vars PROVE KInv'
  OBVIOUS
<1>1. ASSUME NEW c \in Callers, GetOrCreateInsert(c) PROVE KInv'
  BY <1>1, KInsertStep
<1>2. ASSUME NEW c \in Callers, SessionCount(c) PROVE KInv'
  BY <1>2, KQuietStep DEF SessionCount, ghosts
<1>3. ASSUME NEW c \in Callers, NEW k \in Keys, GetOrCreateHit(c, k) PROVE KInv'
  BY <1>3, KQuietStep DEF GetOrCreateHit, ghosts
<1>4. ASSUME NEW c \in Callers, NEW k \in Keys, GetOrCreateMiss(c, k) PROVE KInv'
  BY <1>4, KMissStep
<1>5. ASSUME NEW c \in Callers, NEW k \in Keys, AddUserTurn(c, k) PROVE KInv'
  BY <1>5, KAddUserTurnStep
<1>6. ASSUME NEW c \in Callers, NEW k \in Keys, Remove(c, k) PROVE KInv'
  BY <1>6, KRemoveStep
<1>7. ASSUME NEW c \in Callers, NEW k \in Keys, HistoryLen(c, k) PROVE KInv'
  BY <1>7, KQuietStep DEF HistoryLen, ghosts
<1>8. ASSUME NEW c \in Callers, NEW k \in Keys, NEW sm \in Summaries, SetSummary(c, k, sm)
      PROVE KInv'
  BY <1>8, KSetSummaryStep
<1>9. CASE UNCHANGED vars
  BY <1>9, KQuietStep DEF vars
<1>. QED  BY <1>1, <1>2, <1>3, <1>4, <1>5, <1>6, <1>7, <1>8, <1>9 DEF Next

(* Every key in use parses back from its printed form.                    *)
LEMMA KeyParses ==
    ASSUME KeysWellFormed, NEW k \in Keys
    PROVE  parse(to_string(k)) = << k >>
<1>1. PICK S : /\ Alphabet(S) /\ Uuids \subseteq S
               /\ \A k2 \in Keys : \E t, a \in Uuids, ch, p \in Seq(S) :
                     NoColon(ch) /\ k2 = Key(t, a, ch, p)
  BY DEF KeysWellFormed
<1>2. PICK t \in Uuids, a \in Uuids, ch \in Seq(S), p \in Seq(S) : NoColon(ch) /\ k = Key(t, a, ch, p)
  BY <1>1
<1>3. t \in Uuids \cap S /\ a \in Uuids \cap S /\ Alphabet(S) /\ NoColon(ch)
  BY <1>1, <1>2
<1>4. parse(to_string(Key(t, a, ch, p))) = << Key(t, a, ch, p) >>
  BY <1>3, ParsePrinted
<1>. QED  BY <1>2, <1>4

(* A stored session can be found again from its map entry, for any number *)
(* of callers: get_or_create and add_user_turn store each session under    *)
(* its own key's string, and parse reads that string back to the key.     *)
THEOREM StoredKeyParsesHolds ==
    ASSUME KeysWellFormed
    PROVE  Spec => []StoredKeyParses
<1>1. Init => KInv
  BY InitKInv
<1>2. KInv /\ [Next]_vars => KInv'
  BY NextKInv
<1>3. KInv => StoredKeyParses
  <2> SUFFICES ASSUME KInv, NEW ks \in KeyStrings, sessions[ks] # Absent
               PROVE  parse(ks) = << sessions[ks].key >>
    BY DEF StoredKeyParses
  <2>1. sessions[ks].key \in Keys /\ to_string(sessions[ks].key) = ks
    BY DEF KInv, Sessions
  <2>. QED  BY <2>1, KeyParses
<1>. QED  BY <1>1, <1>2, <1>3, PTL DEF Spec

=============================================================================
