------------------------------- MODULE Session -------------------------------
(***************************************************************************)
(* SessionManager of aether-session (manager.rs, history.rs).  Sessions    *)
(* live in a DashMap keyed by the session key string; each map operation   *)
(* locks the key's shard for its own duration only.  get_or_create looks  *)
(* the key up, releases the shard, and inserts a fresh session in a second *)
(* step; add_user_turn holds the entry for its whole body.  Concurrent     *)
(* callers (the bot's request handlers) interleave these steps.            *)
(*                                                                         *)
(* A message is its role and, as content, the number of the turn that     *)
(* wrote it; a summary is a model value.                                   *)
(***************************************************************************)
EXTENDS Naturals, Sequences, SessionKeys, ConversationHistory

CONSTANTS
    Keys,        \* SessionKey values callers pass
    Callers,     \* concurrent callers of the manager
    Summaries,   \* summary texts
    MaxHistory,  \* SessionManager::max_history
    MaxTurns,    \* bound on add_user_turn calls
    Absent,      \* no entry for the key
    None         \* Option::None

ASSUME SessionAssumption ==
    /\ MaxHistory \in Nat
    /\ MaxTurns \in Nat
    /\ None \notin Summaries

Turns == 1..MaxTurns

Messages == [role : {"User", "Assistant"}, content : Turns]

Sessions == [key : Keys, history : Seq(Messages), summary : Summaries \cup {None},
             turns_since_summary : Nat]

(* The map's "no entry" is not a Session.                                 *)
ASSUME AbsentAssumption == Absent \notin Sessions

(* The DashMap's keys: key.to_string() of every key callers pass.         *)
KeyStrings == {to_string(k) : k \in Keys}

(* Session::new(key): the key, empty history, no summary, counter 0.      *)
NewSession(k) == [key |-> k, history |-> << >>, summary |-> None, turns_since_summary |-> 0]

VARIABLES
    sessions,    \* the DashMap: key string -> Session, or Absent
    pc,          \* caller's place in get_or_create: "idle" or "insert"
    target,      \* key of the caller's get_or_create in progress
    ret,         \* the clone get_or_create last returned to the caller
    nextTurn,    \* content of the next turn (ghost)
    log,         \* ghost: turns added with the key since it was last removed
    sumLog,      \* ghost: summary last set with the key since it was removed
    read         \* what the caller's last history_len or len call returned

vars == <<sessions, pc, target, ret, nextTurn, log, sumLog, read>>

Init ==
    /\ sessions = [ks \in KeyStrings |-> Absent]
    /\ pc = [c \in Callers |-> "idle"]
    /\ target = [c \in Callers |-> CHOOSE k \in Keys : TRUE]
    /\ ret = [c \in Callers |-> None]
    /\ nextTurn = 1
    /\ log = [k \in Keys |-> << >>]
    /\ sumLog = [k \in Keys |-> None]
    /\ read = [c \in Callers |-> 0]

ghosts == <<nextTurn, log, sumLog>>

(* get_or_create, first step: look the key up; a hit returns its clone.   *)
GetOrCreateHit(c, k) ==
    /\ pc[c] = "idle"
    /\ sessions[to_string(k)] # Absent
    /\ ret' = [ret EXCEPT ![c] = sessions[to_string(k)]]
    /\ UNCHANGED <<sessions, pc, target, ghosts, read>>

(* A miss releases the shard and goes on to build a new session.          *)
GetOrCreateMiss(c, k) ==
    /\ pc[c] = "idle"
    /\ sessions[to_string(k)] = Absent
    /\ pc' = [pc EXCEPT ![c] = "insert"]
    /\ target' = [target EXCEPT ![c] = k]
    /\ UNCHANGED <<sessions, ret, ghosts, read>>

(* Second step: insert the new session, replacing whatever is there now.  *)
GetOrCreateInsert(c) ==
    /\ pc[c] = "insert"
    /\ sessions' = [sessions EXCEPT ![to_string(target[c])] = NewSession(target[c])]
    /\ ret' = [ret EXCEPT ![c] = NewSession(target[c])]
    /\ pc' = [pc EXCEPT ![c] = "idle"]
    /\ UNCHANGED <<target, nextTurn, log, sumLog, read>>

(* add_user_turn: under the entry lock, create the session if absent,     *)
(* append the user and assistant messages, count the turn, and truncate   *)
(* to max_history when the history has grown past it.                     *)
AddUserTurn(c, k) ==
    LET s == IF sessions[to_string(k)] = Absent THEN NewSession(k) ELSE sessions[to_string(k)]
        h == add_assistant(add_user(s.history, nextTurn), nextTurn)
    IN  /\ pc[c] = "idle"
        /\ nextTurn <= MaxTurns
        /\ sessions' = [sessions EXCEPT ![to_string(k)] =
              [s EXCEPT !.history = IF Len(h) > MaxHistory
                                    THEN truncate_to_last(h, MaxHistory) ELSE h,
                        !.turns_since_summary = @ + 1]]
        /\ nextTurn' = nextTurn + 1
        /\ log' = [log EXCEPT ![k] = Append(@, nextTurn)]
        /\ UNCHANGED <<pc, target, ret, sumLog, read>>

(* set_summary: only an existing session gets the summary.               *)
SetSummary(c, k, sm) ==
    /\ pc[c] = "idle"
    /\ sessions[to_string(k)] # Absent
    /\ sessions' = [sessions EXCEPT ![to_string(k)].summary = sm]
    /\ sumLog' = [sumLog EXCEPT ![k] = sm]
    /\ UNCHANGED <<pc, target, ret, nextTurn, log, read>>

(* remove: drop the entry, if any.                                        *)
Remove(c, k) ==
    /\ pc[c] = "idle"
    /\ sessions' = [sessions EXCEPT ![to_string(k)] = Absent]
    /\ log' = [log EXCEPT ![k] = << >>]
    /\ sumLog' = [sumLog EXCEPT ![k] = None]
    /\ UNCHANGED <<pc, target, ret, nextTurn, read>>

(* history_len: the stored history's length, 0 when the key is absent.   *)
HistoryLen(c, k) ==
    LET s == sessions[to_string(k)]
    IN  /\ pc[c] = "idle"
        /\ read' = [read EXCEPT ![c] = IF s = Absent THEN 0 ELSE Len(s.history)]
        /\ UNCHANGED <<sessions, pc, target, ret, ghosts>>

(* len: the number of entries in the DashMap.                            *)
SessionCount(c) ==
    /\ pc[c] = "idle"
    /\ read' = [read EXCEPT ![c] = Cardinality({ks \in KeyStrings : sessions[ks] # Absent})]
    /\ UNCHANGED <<sessions, pc, target, ret, ghosts>>

Next ==
    \/ \E c \in Callers :
          \/ GetOrCreateInsert(c)
          \/ SessionCount(c)
          \/ \E k \in Keys :
                \/ GetOrCreateHit(c, k)
                \/ GetOrCreateMiss(c, k)
                \/ AddUserTurn(c, k)
                \/ Remove(c, k)
                \/ HistoryLen(c, k)
                \/ \E sm \in Summaries : SetSummary(c, k, sm)

Spec == Init /\ [][Next]_vars

-----------------------------------------------------------------------------
(* The messages the turns of a log wrote, oldest first.                   *)
LogMessages(l) ==
    [i \in 1..2 * Len(l) |->
        [role |-> IF i % 2 = 1 THEN "User" ELSE "Assistant",
         content |-> l[(i + 1) \div 2]]]

(* The newest n messages of m, stated without truncate_to_last.          *)
Newest(m, n) ==
    LET kept == IF Len(m) < n THEN Len(m) ELSE n
    IN  [i \in 1..kept |-> m[Len(m) - kept + i]]

(* No lost update: a stored session holds exactly the newest max_history  *)
(* messages of every turn added since the key was last removed, and the   *)
(* last summary set since then; an absent key has had no turn since.      *)
(* Breaking it takes get_or_create's lookup missing, another caller's     *)
(* add_user_turn or set_summary landing, and the stale insert after it.   *)
SessionMatchesLog ==
    \A k \in Keys :
        LET s == sessions[to_string(k)]
        IN  IF s = Absent
            THEN log[k] = << >>
            ELSE /\ s.history = Newest(LogMessages(log[k]), MaxHistory)
                 /\ s.summary = sumLog[k]

(* A stored session can be found again from its map entry: parsing the    *)
(* DashMap key a session is stored under gives back the SessionKey the    *)
(* session was created for.  It needs Display and parse to agree on every *)
(* key in use (a colon in a peer id is fine, splitn(8) keeps the rest of   *)
(* the string together) and get_or_create and add_user_turn to store each *)
(* new session under its own key's string.                                 *)
StoredKeyParses ==
    \A ks \in KeyStrings :
        sessions[ks] # Absent => parse(ks) = << sessions[ks].key >>
=============================================================================
