----------------------------- MODULE SessionKeys -----------------------------
(***************************************************************************)
(* SessionKey of aether-session (keys.rs): its Display, which is the       *)
(* string SessionManager keys its DashMap by, and SessionKey::parse.  The  *)
(* ids inside it print and parse through the define_id! newtypes of        *)
(* aether-core (ids.rs).                                                   *)
(*                                                                         *)
(* Text abstraction: a string is a sequence of symbols, each either the    *)
(* separator Colon or a word that contains no ':' (a literal such as       *)
(* "peer", a piece of user text, or the printed form of one UUID).         *)
(* Splitting on ':' looks at Colon only, and two segments are equal when   *)
(* their words are, which is all splitn and the comparisons read.          *)
(***************************************************************************)
EXTENDS Naturals, Sequences, FiniteSets

CONSTANTS
    Colon,     \* the ':' character
    Uuids      \* the UUIDs ids are drawn from

(* define_id! Display: the hyphenated UUID, which holds no ':'.           *)
uuid_text(u) == << u >>

(* define_id! FromStr (Uuid::parse_str): a segment that is the printed     *)
(* form of a UUID gives that UUID, anything else an error (NoUuid).        *)
NoUuid == "NoUuid"

(* ':' is none of the literal words and no UUID prints as it; the error   *)
(* of parse_str is not a UUID.                                             *)
ASSUME TextAssumption ==
    /\ Colon \notin Uuids \cup {"tenant", "agent", "channel", "peer"}
    /\ NoUuid \notin Uuids

parse_uuid(seg) ==
    IF \E u \in Uuids : seg = uuid_text(u)
    THEN CHOOSE u \in Uuids : seg = uuid_text(u)
    ELSE NoUuid

(* SessionKey { tenant_id, agent_id, channel, peer_id }.                  *)
Key(t, a, ch, p) == [tenant_id |-> t, agent_id |-> a, channel |-> ch, peer_id |-> p]

(* Display: "tenant:{tenant_id}:agent:{agent_id}:channel:{channel}:peer:{peer_id}". *)
to_string(k) ==
    << "tenant", Colon >> \o uuid_text(k.tenant_id) \o
    << Colon, "agent", Colon >> \o uuid_text(k.agent_id) \o
    << Colon, "channel", Colon >> \o k.channel \o
    << Colon, "peer", Colon >> \o k.peer_id

(* str::splitn(n, ':'): split at the first n - 1 colons; the last part is  *)
(* the rest of the string, colons included.                                *)
splitn(n, s) ==
    LET colons == {i \in 1..Len(s) : s[i] = Colon}
        cuts   == IF Cardinality(colons) < n - 1 THEN Cardinality(colons) ELSE n - 1
        \* position of the k-th colon, with a virtual one at 0
        at(k)  == IF k = 0 THEN 0
                  ELSE CHOOSE i \in colons :
                           Cardinality({j \in colons : j < i}) = k - 1
    IN  [k \in 1..cuts + 1 |->
            IF k <= cuts THEN SubSeq(s, at(k - 1) + 1, at(k) - 1)
            ELSE SubSeq(s, at(cuts) + 1, Len(s))]

(* Seeded fault: parse splits at every colon, so a peer id holding ':'     *)
(* makes more than 8 parts.                                                *)
parse_split_all(s) ==
    LET parts == splitn(Len(s) + 1, s)
    IN  IF Len(parts) # 8 THEN << >>
        ELSE IF \/ parts[1] # << "tenant" >> \/ parts[3] # << "agent" >>
                \/ parts[5] # << "channel" >> \/ parts[7] # << "peer" >>
             THEN << >>
        ELSE IF parse_uuid(parts[2]) = NoUuid \/ parse_uuid(parts[4]) = NoUuid
             THEN << >>
        ELSE << Key(parse_uuid(parts[2]), parse_uuid(parts[4]), parts[6], parts[8]) >>

(* SessionKey::parse: Some(key), written << key >>, or None, written << >>, *)
(* when there are not 8 parts, a literal is wrong, or an id does not parse. *)
parse(s) ==
    LET parts == splitn(8, s)
    IN  IF Len(parts) # 8 THEN << >>
        ELSE IF \/ parts[1] # << "tenant" >> \/ parts[3] # << "agent" >>
                \/ parts[5] # << "channel" >> \/ parts[7] # << "peer" >>
             THEN << >>
        ELSE IF parse_uuid(parts[2]) = NoUuid \/ parse_uuid(parts[4]) = NoUuid
             THEN << >>
        ELSE << Key(parse_uuid(parts[2]), parse_uuid(parts[4]), parts[6], parts[8]) >>

=============================================================================
