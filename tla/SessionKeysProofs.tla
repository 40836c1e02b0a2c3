-------------------------- MODULE SessionKeysProofs --------------------------
(***************************************************************************)
(* Proof that SessionKey::parse reads back what Display printed, for every *)
(* key whose channel holds no ':' (the peer id may hold any).  splitn(8)   *)
(* cuts at the k-th colon, which it finds by counting the colons before a  *)
(* position; the lemmas below show that in a printed key the first seven   *)
(* colons are the six separators around the literals and the one before   *)
(* the peer id, so the eight parts are the fields as printed.             *)
(***************************************************************************)
EXTENDS SessionKeys, SequenceTheorems, FiniteSetTheorems, TLAPS

(* The positions of ':' in string s.                                       *)
ColonsOf(s) == {i \in 1..Len(s) : s[i] = Colon}

(* The members of X below position i.                                      *)
Below(X, i) == {j \in X : j < i}

(* splitn's position of the k-th colon of s, with a virtual one at 0.     *)
ColonAt(s, k) ==
    IF k = 0 THEN 0
    ELSE CHOOSE i \in ColonsOf(s) : Cardinality(Below(ColonsOf(s), i)) = k - 1

(* n strictly increasing positions of X make a set of n members.          *)
LEMMA EnumCard ==
    ASSUME NEW X \in SUBSET Int, NEW N \in Nat, NEW pos \in [1..N -> Int], \A m \in 1..N : pos[m] \in X,
           \A m1, m2 \in 1..N : m1 < m2 => pos[m1] < pos[m2],
           NEW n \in 0..N
    PROVE  /\ IsFiniteSet({pos[m] : m \in 1..n})
           /\ Cardinality({pos[m] : m \in 1..n}) = n
<1> DEFINE T == {pos[m] : m \in 1..n}
           f == [m \in 1..n |-> pos[m]]
<1>1. f \in Bijection(1..n, T)
  <2>1. \A m1, m2 \in 1..n : f[m1] = f[m2] => m1 = m2
    <3> SUFFICES ASSUME NEW m1 \in 1..n, NEW m2 \in 1..n, m1 # m2
                 PROVE  f[m1] # f[m2]
      OBVIOUS
    <3>1. m1 < m2 \/ m2 < m1  OBVIOUS
    <3>. QED  BY <3>1
  <2>. QED  BY <2>1 DEF Bijection, Injection, Surjection, IsInjective
<1>2. ExistsBijection(1..n, T)
  BY <1>1 DEF ExistsBijection
<1>3. IsFiniteSet(1..n)
  BY FS_Interval
<1>. QED  BY <1>2, <1>3, FS_CountingElements, FS_Bijection

(* With pos enumerating the members of X up to pos[N] in increasing order, *)
(* pos[k] has exactly k - 1 members of X below it.                         *)
LEMMA BelowPos ==
    ASSUME NEW X \in SUBSET Int, NEW N \in Nat, NEW pos \in [1..N -> Int], \A m \in 1..N : pos[m] \in X,
           \A m1, m2 \in 1..N : m1 < m2 => pos[m1] < pos[m2],
           \A j \in X : j <= pos[N] => \E m \in 1..N : j = pos[m],
           NEW k \in 1..N
    PROVE  /\ \A j \in X : j < pos[k] => \E m \in 1..k - 1 : j = pos[m]
           /\ Cardinality(Below(X, pos[k])) = k - 1
<1>1. \A j \in X : j < pos[k] => \E m \in 1..k - 1 : j = pos[m]
  <2> SUFFICES ASSUME NEW j \in X, j < pos[k] PROVE \E m \in 1..k - 1 : j = pos[m]
    OBVIOUS
  <2>1. pos[k] <= pos[N]
    <3>1. CASE k = N  BY <3>1
    <3>2. CASE k < N  BY <3>2
    <3>. QED  BY <3>1, <3>2
  <2>2. PICK m \in 1..N : j = pos[m]
    BY <2>1
  <2>3. ~(m >= k)
    <3>1. CASE m = k  BY <2>2, <3>1
    <3>2. CASE m > k  BY <2>2, <3>2
    <3>. QED  BY <3>1, <3>2
  <2>. QED  BY <2>2, <2>3
<1>2. Below(X, pos[k]) = {pos[m] : m \in 1..k - 1}
  <2>1. \A m \in 1..k - 1 : pos[m] \in X /\ pos[m] < pos[k]
    OBVIOUS
  <2>. QED  BY <1>1, <2>1 DEF Below
<1>3. k - 1 \in 0..N
  OBVIOUS
<1>4. Cardinality({pos[m] : m \in 1..k - 1}) = k - 1
  BY <1>3, EnumCard
<1>. QED  BY <1>1, <1>2, <1>4

(* ... and no other member of X has k - 1 members of X below it.          *)
LEMMA KthIsPos ==
    ASSUME NEW X \in SUBSET Int, IsFiniteSet(X), NEW N \in Nat,
           NEW pos \in [1..N -> Int], \A m \in 1..N : pos[m] \in X,
           \A m1, m2 \in 1..N : m1 < m2 => pos[m1] < pos[m2],
           \A j \in X : j <= pos[N] => \E m \in 1..N : j = pos[m],
           NEW k \in 1..N
    PROVE  (CHOOSE i \in X : Cardinality(Below(X, i)) = k - 1) = pos[k]
<1>1. \A q \in 1..N : Cardinality(Below(X, pos[q])) = q - 1
  BY BelowPos
<1>2. ASSUME NEW i \in X, Cardinality(Below(X, i)) = k - 1 PROVE i = pos[k]
  <2>0. pos[k] \in X /\ i \in Int /\ pos[k] \in Int
    OBVIOUS
  <2>1. CASE i < pos[k]
    <3>1. i \in Below(X, pos[k])
      BY <2>1 DEF Below
    <3>2. \A j \in X : j < pos[k] => \E m \in 1..k - 1 : j = pos[m]
      BY BelowPos
    <3>3. PICK m \in 1..k - 1 : i = pos[m]
      BY <2>1, <3>2
    <3>4. Cardinality(Below(X, i)) = m - 1
      BY <1>1, <3>3
    <3>. QED  BY <1>2, <3>4
  <2>2. CASE pos[k] < i
    <3> DEFINE B == Below(X, pos[k])
               Bi == Below(X, i)
    <3>1. B \cup {pos[k]} \subseteq Bi
      <4>1. ASSUME NEW j \in X, j < pos[k] PROVE j < i
        BY <2>0, <2>2, <4>1
      <4>2. pos[k] < i
        BY <2>2
      <4>. QED  BY <2>0, <4>1, <4>2 DEF Below, B, Bi
    <3>2. B \in SUBSET X /\ Bi \in SUBSET X /\ pos[k] \notin B
      BY <2>0 DEF Below, B, Bi
    <3> HIDE DEF B, Bi
    <3>3. IsFiniteSet(B) /\ IsFiniteSet(Bi)
      BY <3>2, FS_Subset
    <3>4. Cardinality(B) = k - 1
      BY <1>1 DEF B
    <3>5. Cardinality(B \cup {pos[k]}) = k
      <4>1. Cardinality(B \cup {pos[k]})
              = IF pos[k] \in B THEN Cardinality(B) ELSE Cardinality(B) + 1
        BY <3>3, FS_AddElement
      <4>. QED  BY <3>2, <3>4, <4>1
    <3>6. B \cup {pos[k]} \in SUBSET Bi
      BY <3>1
    <3>7. Cardinality(B \cup {pos[k]}) <= Cardinality(Bi)
      BY <3>3, <3>6, FS_Subset
    <3>. QED  BY <1>2, <3>5, <3>7 DEF Bi
  <2>3. CASE i = pos[k]
    BY <2>3
  <2>. QED  BY <2>0, <2>1, <2>2, <2>3
<1>3. pos[k] \in X /\ Cardinality(Below(X, pos[k])) = k - 1
  BY <1>1
<1>. QED  BY <1>2, <1>3

-----------------------------------------------------------------------------
(* The printed key, as the fields and separators it is made of.           *)
KeyHead(t, a) == << "tenant", Colon, t, Colon, "agent", Colon, a, Colon, "channel", Colon >>

PeerTag == << Colon, "peer", Colon >>

(* An alphabet holding the separator and the literal words.                *)
Alphabet(S) == {Colon, "tenant", "agent", "channel", "peer"} \subseteq S

LEMMA HeadConcat ==
    ASSUME NEW S, Alphabet(S), NEW t \in S, NEW a \in S
    PROVE  << "tenant", Colon >> \o uuid_text(t) \o << Colon, "agent", Colon >> \o uuid_text(a)
             \o << Colon, "channel", Colon >> = KeyHead(t, a)
<1>0. /\ << "tenant", Colon >> \in Seq(S) /\ << t >> \in Seq(S) /\ << "tenant", Colon, t >> \in Seq(S)
      /\ << Colon, "agent", Colon >> \in Seq(S) /\ << "tenant", Colon, t, Colon, "agent", Colon >> \in Seq(S)
      /\ << a >> \in Seq(S) /\ << "tenant", Colon, t, Colon, "agent", Colon, a >> \in Seq(S)
      /\ << Colon, "channel", Colon >> \in Seq(S) /\ KeyHead(t, a) \in Seq(S)
  BY DEF Alphabet, KeyHead
<1>1. << "tenant", Colon >> \o << t >> = << "tenant", Colon, t >>
  <2>1. /\ << "tenant", Colon >> \o << t >> \in Seq(S)
        /\ Len(<< "tenant", Colon >> \o << t >>) = 3
        /\ \A i \in 1..3 : (<< "tenant", Colon >> \o << t >>)[i] = << "tenant", Colon, t >>[i]
    BY <1>0, ConcatProperties DEF KeyHead
  <2>. QED  BY <1>0, <2>1, SeqEqual DEF KeyHead
<1>2. << "tenant", Colon, t >> \o << Colon, "agent", Colon >> = << "tenant", Colon, t, Colon, "agent", Colon >>
  <2>1. /\ << "tenant", Colon, t >> \o << Colon, "agent", Colon >> \in Seq(S)
        /\ Len(<< "tenant", Colon, t >> \o << Colon, "agent", Colon >>) = 6
        /\ \A i \in 1..6 : (<< "tenant", Colon, t >> \o << Colon, "agent", Colon >>)[i] = << "tenant", Colon, t, Colon, "agent", Colon >>[i]
    BY <1>0, ConcatProperties DEF KeyHead
  <2>. QED  BY <1>0, <2>1, SeqEqual DEF KeyHead
<1>3. << "tenant", Colon, t, Colon, "agent", Colon >> \o << a >> = << "tenant", Colon, t, Colon, "agent", Colon, a >>
  <2>1. /\ << "tenant", Colon, t, Colon, "agent", Colon >> \o << a >> \in Seq(S)
        /\ Len(<< "tenant", Colon, t, Colon, "agent", Colon >> \o << a >>) = 7
        /\ \A i \in 1..7 : (<< "tenant", Colon, t, Colon, "agent", Colon >> \o << a >>)[i] = << "tenant", Colon, t, Colon, "agent", Colon, a >>[i]
    BY <1>0, ConcatProperties DEF KeyHead
  <2>2. Len(<< "tenant", Colon, t, Colon, "agent", Colon, a >>) = 7
    OBVIOUS
  <2>. QED  BY <1>0, <2>1, <2>2, SeqEqual DEF KeyHead
<1>4. << "tenant", Colon, t, Colon, "agent", Colon, a >> \o << Colon, "channel", Colon >> = KeyHead(t, a)
  <2>1. /\ << "tenant", Colon, t, Colon, "agent", Colon, a >> \o << Colon, "channel", Colon >> \in Seq(S)
        /\ Len(<< "tenant", Colon, t, Colon, "agent", Colon, a >> \o << Colon, "channel", Colon >>) = 10
        /\ \A i \in 1..10 : (<< "tenant", Colon, t, Colon, "agent", Colon, a >> \o << Colon, "channel", Colon >>)[i] = KeyHead(t, a)[i]
    BY <1>0, ConcatProperties DEF KeyHead
  <2>2. Len(KeyHead(t, a)) = 10
    BY DEF KeyHead
  <2>. QED  BY <1>0, <2>1, <2>2, SeqEqual
<1>. QED  BY <1>1, <1>2, <1>3, <1>4 DEF uuid_text


(* Display of a key, character by character: the head, the channel,      *)
(* ":peer:", the peer id.                                                  *)
PrintedAs(txt, t, a, ch, p) ==
    /\ Len(txt) = 13 + Len(ch) + Len(p)
    /\ \A i \in 1..10 : txt[i] = KeyHead(t, a)[i]
    /\ \A j \in 1..Len(ch) : txt[10 + j] = ch[j]
    /\ \A j \in 1..3 : txt[10 + Len(ch) + j] = PeerTag[j]
    /\ \A j \in 1..Len(p) : txt[13 + Len(ch) + j] = p[j]

LEMMA KeyText ==
    ASSUME NEW S, Alphabet(S), NEW t \in S, NEW a \in S, NEW ch \in Seq(S), NEW p \in Seq(S)
    PROVE  /\ to_string(Key(t, a, ch, p)) = ((KeyHead(t, a) \o ch) \o PeerTag) \o p
           /\ to_string(Key(t, a, ch, p)) \in Seq(S)
           /\ PrintedAs(to_string(Key(t, a, ch, p)), t, a, ch, p)
<1> DEFINE H == KeyHead(t, a)
           hc == H \o ch
           hcp == hc \o PeerTag
           txt == hcp \o p
<1>0. << "tenant", Colon >> \o uuid_text(t) \o << Colon, "agent", Colon >> \o uuid_text(a)
        \o << Colon, "channel", Colon >> = H
  BY HeadConcat
<1>1. to_string(Key(t, a, ch, p)) = txt
  BY <1>0 DEF to_string, Key, PeerTag
<1>2. H \in Seq(S) /\ Len(H) = 10 /\ PeerTag \in Seq(S) /\ Len(PeerTag) = 3
  BY DEF Alphabet, KeyHead, PeerTag
<1> HIDE DEF H
<1>3. hc \in Seq(S) /\ Len(hc) = 10 + Len(ch)
      /\ \A i \in 1..10 + Len(ch) : hc[i] = IF i <= 10 THEN H[i] ELSE ch[i - 10]
  <2>1. hc \in Seq(S) /\ Len(hc) = Len(H) + Len(ch)
        /\ \A i \in 1..Len(H) + Len(ch) : hc[i] = IF i <= Len(H) THEN H[i] ELSE ch[i - Len(H)]
    BY <1>2, ConcatProperties DEF hc
  <2>. QED  BY <1>2, <2>1
<1>4. hcp \in Seq(S) /\ Len(hcp) = 13 + Len(ch)
      /\ \A i \in 1..13 + Len(ch) : hcp[i] = IF i <= 10 + Len(ch) THEN hc[i] ELSE PeerTag[i - 10 - Len(ch)]
  <2>1. hcp \in Seq(S) /\ Len(hcp) = Len(hc) + Len(PeerTag)
        /\ \A i \in 1..Len(hc) + Len(PeerTag) :
              hcp[i] = IF i <= Len(hc) THEN hc[i] ELSE PeerTag[i - Len(hc)]
    BY <1>2, <1>3, ConcatProperties DEF hcp
  <2>. QED  BY <1>2, <1>3, <2>1
<1>5. txt \in Seq(S) /\ Len(txt) = 13 + Len(ch) + Len(p)
      /\ \A i \in 1..13 + Len(ch) + Len(p) : txt[i] = IF i <= 13 + Len(ch) THEN hcp[i] ELSE p[i - 13 - Len(ch)]
  <2>1. txt \in Seq(S) /\ Len(txt) = Len(hcp) + Len(p)
        /\ \A i \in 1..Len(hcp) + Len(p) : txt[i] = IF i <= Len(hcp) THEN hcp[i] ELSE p[i - Len(hcp)]
    <3>1. hcp \in Seq(S)  BY <1>4
    <3>. QED  BY <3>1, ConcatProperties DEF txt
  <2>. QED  BY <1>4, <2>1
<1>6. txt = ((KeyHead(t, a) \o ch) \o PeerTag) \o p
  BY DEF txt, hcp, hc, H
<1> HIDE DEF txt, hc, hcp
<1>7. \A i \in 1..10 : txt[i] = KeyHead(t, a)[i]
  BY <1>3, <1>4, <1>5 DEF H
<1>0a. Len(ch) \in Nat /\ Len(p) \in Nat
  BY LenProperties
<1>8. \A j \in 1..Len(ch) : txt[10 + j] = ch[j]
  BY <1>0a, <1>3, <1>4, <1>5
<1>9. \A j \in 1..3 : txt[10 + Len(ch) + j] = PeerTag[j]
  BY <1>4, <1>5
<1>10. \A j \in 1..Len(p) : txt[13 + Len(ch) + j] = p[j]
  BY <1>0a, <1>5
<1>. QED  BY <1>1, <1>5, <1>6, <1>7, <1>8, <1>9, <1>10 DEF PrintedAs


(* SubSeq under a name of its own, so that the provers leave the slices   *)
(* of splitn's result unexpanded until a step asks for them.               *)
Segment(s, m, n) == SubSeq(s, m, n)

(* With at least n - 1 colons, splitn(n, s) cuts at each of the first     *)
(* n - 1 of them.                                                          *)
LEMMA SplitnCuts ==
    ASSUME NEW s, NEW n \in Nat \ {0},
           Cardinality(ColonsOf(s)) \in Nat, Cardinality(ColonsOf(s)) >= n - 1
    PROVE  splitn(n, s) =
             [k \in 1..n |-> IF k <= n - 1 THEN Segment(s, ColonAt(s, k - 1) + 1, ColonAt(s, k) - 1)
                             ELSE Segment(s, ColonAt(s, n - 1) + 1, Len(s))]
<1>1. ~(Cardinality(ColonsOf(s)) < n - 1)
  OBVIOUS
<1>. QED  BY <1>1 DEF splitn, ColonAt, ColonsOf, Below, Segment


(* The separators of a printed key up to the one before the peer id.      *)
KeyCuts(ch) == << 2, 4, 6, 8, 10, 11 + Len(ch), 13 + Len(ch) >>

(* A channel with no ':' in it.                                            *)
NoColon(ch) == \A j \in 1..Len(ch) : ch[j] # Colon

(* In a printed key whose channel holds no ':', the colons up to the one  *)
(* before the peer id are exactly the seven separators, in order.         *)
LEMMA KeyColons ==
    ASSUME NEW S, Alphabet(S), NEW t \in Uuids \cap S, NEW a \in Uuids \cap S,
           NEW ch \in Seq(S), NoColon(ch), NEW p \in Seq(S)
    PROVE  LET txt == to_string(Key(t, a, ch, p))
               pos == KeyCuts(ch)
           IN  /\ pos \in [1..7 -> Int]
               /\ \A m \in 1..7 : pos[m] \in ColonsOf(txt)
               /\ \A m1, m2 \in 1..7 : m1 < m2 => pos[m1] < pos[m2]
               /\ \A j \in ColonsOf(txt) : j <= pos[7] => \E m \in 1..7 : j = pos[m]
<1> DEFINE txt == to_string(Key(t, a, ch, p))
           pos == KeyCuts(ch)
           Lc == Len(ch)
<1>1. /\ Len(txt) = 13 + Lc + Len(p)
      /\ \A i \in 1..10 : txt[i] = KeyHead(t, a)[i]
      /\ \A j \in 1..Lc : txt[10 + j] = ch[j]
      /\ \A j \in 1..3 : txt[10 + Lc + j] = PeerTag[j]
  <2>1. PrintedAs(txt, t, a, ch, p)  BY KeyText
  <2>. QED  BY <2>1 DEF PrintedAs
<1>2. Lc \in Nat /\ Len(p) \in Nat
  BY LenProperties
<1>3. /\ Colon \notin {t, a, "tenant", "agent", "channel", "peer"}
  BY TextAssumption
<1>4. \A i \in 1..10 : KeyHead(t, a)[i] = Colon <=> i \in {2, 4, 6, 8, 10}
  BY <1>3 DEF KeyHead
<1>5. PeerTag[1] = Colon /\ PeerTag[2] # Colon /\ PeerTag[3] = Colon
  BY <1>3 DEF PeerTag
<1> HIDE DEF txt
<1>6. pos \in [1..7 -> Int] /\ \A m1, m2 \in 1..7 : m1 < m2 => pos[m1] < pos[m2]
  BY <1>2 DEF KeyCuts
<1>7. \A m \in 1..7 : pos[m] \in ColonsOf(txt)
  <2>1. \A i \in {2, 4, 6, 8, 10} : txt[i] = Colon
    BY <1>1, <1>4
  <2>2. txt[11 + Lc] = Colon /\ txt[13 + Lc] = Colon
    BY <1>1, <1>2, <1>5
  <2>. QED  BY <1>1, <1>2, <2>1, <2>2 DEF KeyCuts, ColonsOf
<1>8. \A j \in ColonsOf(txt) : j <= pos[7] => \E m \in 1..7 : j = pos[m]
  <2> SUFFICES ASSUME NEW j \in ColonsOf(txt), j <= 13 + Lc
               PROVE  \E m \in 1..7 : j = pos[m]
    BY DEF KeyCuts
  <2>1. j \in 1..13 + Lc /\ txt[j] = Colon
    BY <1>1, <1>2 DEF ColonsOf
  <2>2. CASE j <= 10
    BY <1>1, <1>4, <2>1, <2>2 DEF KeyCuts
  <2>3. CASE 10 < j /\ j <= 10 + Lc
    <3>1. txt[j] = ch[j - 10]
      <4>1. j - 10 \in 1..Lc /\ 10 + (j - 10) = j  BY <1>2, <2>1, <2>3
      <4>2. txt[10 + (j - 10)] = ch[j - 10]  BY <1>1, <4>1
      <4>. QED  BY <4>1, <4>2
    <3>2. ch[j - 10] # Colon
      BY <1>2, <2>1, <2>3 DEF NoColon
    <3>. QED  BY <2>1, <3>1, <3>2
  <2>4. CASE j = 12 + Lc
    BY <1>1, <1>2, <1>5, <2>1, <2>4
  <2>5. CASE j = 11 + Lc \/ j = 13 + Lc
    BY <1>2, <2>5 DEF KeyCuts
  <2>. QED  BY <1>2, <2>1, <2>2, <2>3, <2>4, <2>5
<1>. QED  BY <1>6, <1>7, <1>8 DEF txt


(* s holds q from position m on.                                         *)
HoldsAt(s, q, m) == \A j \in 1..Len(q) : s[m - 1 + j] = q[j]

(* The slice of s from m that is as long as q, when s holds q there.      *)
LEMMA SubSeqIs ==
    ASSUME NEW S, NEW s, NEW q \in Seq(S), NEW m \in Int, HoldsAt(s, q, m)
    PROVE  SubSeq(s, m, m + Len(q) - 1) = q
<1>1. Len(q) \in Nat /\ q = [j \in 1..Len(q) |-> q[j]]
  BY LenProperties
<1>2. SubSeq(s, m, m + Len(q) - 1) = [j \in 1..Len(q) |-> s[m - 1 + j]]
  BY <1>1 DEF HoldsAt
<1>. QED  BY <1>1, <1>2 DEF HoldsAt


(* The printed form of one UUID parses back to it.                         *)
LEMMA ParseUuidText ==
    ASSUME NEW u \in Uuids
    PROVE  parse_uuid(uuid_text(u)) = u /\ parse_uuid(uuid_text(u)) # NoUuid
<1>1. \A v \in Uuids : uuid_text(u) = uuid_text(v) => v = u
  BY DEF uuid_text
<1>. QED  BY <1>1, TextAssumption DEF parse_uuid

(* SessionKey::parse reads back what Display printed, when the channel     *)
(* holds no ':' (the peer id may hold any: it is the rest of the string). *)
LEMMA ParsePrinted ==
    ASSUME NEW S, Alphabet(S), NEW t \in Uuids \cap S, NEW a \in Uuids \cap S,
           NEW ch \in Seq(S), NoColon(ch), NEW p \in Seq(S)
    PROVE  parse(to_string(Key(t, a, ch, p))) = << Key(t, a, ch, p) >>
<1> DEFINE txt == to_string(Key(t, a, ch, p))
           pos == KeyCuts(ch)
           X == ColonsOf(txt)
           Lc == Len(ch)
<1>0. t \in S /\ a \in S
  OBVIOUS
<1>0b. to_string(Key(t, a, ch, p)) \in Seq(S) /\ PrintedAs(to_string(Key(t, a, ch, p)), t, a, ch, p)
  BY <1>0, KeyText
<1>1. /\ txt \in Seq(S)
      /\ Len(txt) = 13 + Lc + Len(p)
      /\ \A i \in 1..10 : txt[i] = KeyHead(t, a)[i]
      /\ \A j \in 1..Lc : txt[10 + j] = ch[j]
      /\ \A j \in 1..3 : txt[10 + Lc + j] = PeerTag[j]
      /\ \A j \in 1..Len(p) : txt[13 + Lc + j] = p[j]
  BY <1>0b DEF txt, Lc, PrintedAs
<1>2. Lc \in Nat /\ Len(p) \in Nat
  BY LenProperties DEF Lc
<1>3. /\ pos \in [1..7 -> Int]
      /\ \A m \in 1..7 : pos[m] \in X
      /\ \A m1, m2 \in 1..7 : m1 < m2 => pos[m1] < pos[m2]
      /\ \A j \in X : j <= pos[7] => \E m \in 1..7 : j = pos[m]
  BY <1>0, KeyColons DEF txt, pos, X
<1> HIDE DEF txt, pos, Lc
<1>4. X \in SUBSET Int /\ IsFiniteSet(X)
  <2>1. X \subseteq 1..Len(txt)
    BY DEF X, ColonsOf
  <2>2. IsFiniteSet(1..Len(txt))
    BY FS_Interval
  <2>3. IsFiniteSet(X)
    BY <2>1, <2>2, FS_Subset
  <2>. QED  BY <2>1, <2>3
<1> HIDE DEF X
<1>5. \A k \in 1..7 : ColonAt(txt, k) = pos[k]
  <2> SUFFICES ASSUME NEW k \in 1..7 PROVE ColonAt(txt, k) = pos[k]
    OBVIOUS
  <2>1. (CHOOSE i \in X : Cardinality(Below(X, i)) = k - 1) = pos[k]
    <3>1. 7 \in Nat  OBVIOUS
    <3>. QED  BY <1>3, <1>4, <3>1, KthIsPos, Zenon
  <2>2. ColonAt(txt, k) = CHOOSE i \in ColonsOf(txt) : Cardinality(Below(ColonsOf(txt), i)) = k - 1
    <3>1. k # 0  OBVIOUS
    <3>. QED  BY <3>1 DEF ColonAt
  <2>. QED  BY <2>1, <2>2, Zenon DEF X
<1>6. Cardinality(X) \in Nat /\ Cardinality(X) >= 8 - 1
  <2>1. IsFiniteSet({pos[m] : m \in 1..7}) /\ Cardinality({pos[m] : m \in 1..7}) = 7
    <3>1. 7 \in Nat /\ 7 \in 0..7  OBVIOUS
    <3>. QED  BY <1>3, <1>4, <3>1, EnumCard, Zenon
  <2>2. {pos[m] : m \in 1..7} \subseteq X
    BY <1>3
  <2>. QED  BY <1>4, <2>1, <2>2, FS_Subset, FS_CardinalityType
<1> DEFINE parts == splitn(8, txt)
<1>7. parts = [k \in 1..8 |-> IF k <= 8 - 1 THEN Segment(txt, ColonAt(txt, k - 1) + 1, ColonAt(txt, k) - 1)
                              ELSE Segment(txt, ColonAt(txt, 8 - 1) + 1, Len(txt))]
  <2>1. 8 \in Nat \ {0}  OBVIOUS
  <2>. QED  BY <1>6, <2>1, SplitnCuts, Zenon DEF parts, X
<1>8. /\ ColonAt(txt, 0) = 0
      /\ ColonAt(txt, 1) = 2 /\ ColonAt(txt, 2) = 4 /\ ColonAt(txt, 3) = 6
      /\ ColonAt(txt, 4) = 8 /\ ColonAt(txt, 5) = 10
      /\ ColonAt(txt, 6) = 11 + Lc /\ ColonAt(txt, 7) = 13 + Lc
  <2>1. ColonAt(txt, 0) = 0  BY DEF ColonAt
  <2>. QED  BY <1>5, <2>1 DEF pos, KeyCuts, Lc
<1> HIDE DEF parts
(* One symbol of txt, as a one-symbol slice.                               *)
<1>9. ASSUME NEW m \in 1..Len(txt), NEW x \in S, txt[m] = x PROVE SubSeq(txt, m, m) = << x >>
  <2>1. << x >> \in Seq(S) /\ Len(<< x >>) = 1 /\ HoldsAt(txt, << x >>, m) /\ m \in Int
    BY <1>9 DEF HoldsAt
  <2>2. SubSeq(txt, m, m + Len(<< x >>) - 1) = << x >>
    BY <2>1, SubSeqIs, Zenon
  <2>. QED  BY <2>1, <2>2
<1>10. /\ parts[1] = << "tenant" >> /\ parts[2] = uuid_text(t)
       /\ parts[3] = << "agent" >> /\ parts[4] = uuid_text(a)
       /\ parts[5] = << "channel" >> /\ parts[7] = << "peer" >>
  <2>1. /\ parts[1] = SubSeq(txt, 1, 1) /\ parts[2] = SubSeq(txt, 3, 3)
        /\ parts[3] = SubSeq(txt, 5, 5) /\ parts[4] = SubSeq(txt, 7, 7)
        /\ parts[5] = SubSeq(txt, 9, 9) /\ parts[7] = SubSeq(txt, 12 + Lc, 12 + Lc)
    <3>0. /\ parts[1] = Segment(txt, 1, 1) /\ parts[2] = Segment(txt, 3, 3)
          /\ parts[3] = Segment(txt, 5, 5) /\ parts[4] = Segment(txt, 7, 7)
          /\ parts[5] = Segment(txt, 9, 9) /\ parts[7] = Segment(txt, 12 + Lc, 12 + Lc)
      <4>1. \A k \in 1..7 : parts[k] = Segment(txt, ColonAt(txt, k - 1) + 1, ColonAt(txt, k) - 1)
        BY <1>7
      <4>. QED  BY <1>2, <1>8, <4>1
    <3>. QED  BY <3>0, Zenon DEF Segment
  <2>2. /\ txt[1] = "tenant" /\ txt[3] = t /\ txt[5] = "agent" /\ txt[7] = a
        /\ txt[9] = "channel" /\ txt[12 + Lc] = "peer"
    <3>1. txt[10 + Lc + 2] = PeerTag[2]  BY <1>1
    <3>. QED  BY <1>1, <1>2, <3>1 DEF KeyHead, PeerTag
  <2>3. {1, 3, 5, 7, 9, 12 + Lc} \subseteq 1..Len(txt)
    BY <1>1, <1>2
  <2>4. {"tenant", "agent", "channel", "peer", t, a} \subseteq S
    BY <1>0 DEF Alphabet
  <2>. QED  BY <1>9, <2>1, <2>2, <2>3, <2>4 DEF uuid_text
<1>11. parts[6] = ch /\ parts[8] = p
  <2>1. /\ parts[6] = SubSeq(txt, 11, 11 + Len(ch) - 1)
        /\ parts[8] = SubSeq(txt, 14 + Lc, 14 + Lc + Len(p) - 1)
    <3>1. parts[6] = Segment(txt, ColonAt(txt, 5) + 1, ColonAt(txt, 6) - 1)
      BY <1>7
    <3>2. parts[8] = Segment(txt, ColonAt(txt, 7) + 1, Len(txt))
      BY <1>7
    <3>3. /\ parts[6] = Segment(txt, 11, 11 + Len(ch) - 1)
          /\ parts[8] = Segment(txt, 14 + Lc, 14 + Lc + Len(p) - 1)
      BY <1>1, <1>2, <1>8, <3>1, <3>2 DEF Lc
    <3>. QED  BY <3>3, Zenon DEF Segment
  <2>2. HoldsAt(txt, ch, 11) /\ HoldsAt(txt, p, 14 + Lc) /\ 14 + Lc \in Int /\ 11 \in Int
    BY <1>1, <1>2 DEF HoldsAt, Lc
  <2>3. SubSeq(txt, 11, 11 + Len(ch) - 1) = ch
    BY <2>2, SubSeqIs, Zenon
  <2>4. SubSeq(txt, 14 + Lc, 14 + Lc + Len(p) - 1) = p
    BY <2>2, SubSeqIs, Zenon
  <2>. QED  BY <2>1, <2>3, <2>4
<1>12. Len(parts) = 8
  BY <1>7
<1>13. parse_uuid(uuid_text(t)) = t /\ parse_uuid(uuid_text(t)) # NoUuid
       /\ parse_uuid(uuid_text(a)) = a /\ parse_uuid(uuid_text(a)) # NoUuid
  BY ParseUuidText
<1>. QED  BY <1>10, <1>11, <1>12, <1>13 DEF parse, parts, txt

=============================================================================
