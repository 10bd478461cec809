--------------------------- MODULE PutSync_proofs ---------------------------
(***************************************************************************)
(* Proofs about the writes of the database client, for any number of       *)
(* writes, listens and broken connections.                                 *)
(*                                                                         *)
(* Two invariants.  SyncInv holds whatever the server does: LinkInv, what  *)
(* can be on the wire in which state of the connection; PutInv, the        *)
(* unanswered writes are the last ones made, and a connection carries them *)
(* in order, answers first; AckInv, what was acknowledged; CountInv, the   *)
(* count of listens.  AcceptInv is about the time before the first denial: *)
(* ListInv, every listen is asked for or active; OrderInv, the answers     *)
(* come in order, and none waits without a listen under way; FreshInv, how *)
(* data, answers and the cache keep pace.                                  *)
(***************************************************************************)
EXTENDS PutSync, SequenceTheorems, FiniteSetTheorems, SetMaxima

Kinds    == {"auth", "put", "listen", "data", "revoked"}
Messages == [kind : Kinds, about : 0..MaxPuts \cup Specs, ok : BOOLEAN]

\* The writes up to Low are answered; those up to Top have left the client's
\* queue on this connection.
Low == Len(reported) + Len(putsToAck)
Top == putCounter - Len(requests)

Sent(i, kind) == i \in 1..Len(replies) /\ replies[i].kind = kind

ListReply(i) == Sent(i, "listen") /\ replies[i].about \in ListSpecs

LinkInv ==
    /\ link = "down" =>
          replies = <<>> /\ loading = None /\ active = {} /\ unacked = 0
    /\ link = "authenticating" /\ ~authed => replies = <<>> /\ active = {}
    /\ link = "authenticating" /\ authed => Sent(1, "auth")
    /\ \A i \in 1..Len(replies) : replies[i].kind = "auth" => link = "authenticating" /\ i = 1
    /\ link # "connected" =>
          requests = <<>> /\ \A i \in 1..Len(replies) : replies[i].kind # "put"

\* What a message is about.
AboutInv ==
    \A i \in 1..Len(replies) :
        /\ replies[i].kind = "data" => replies[i].about \in 0..MaxPuts
        /\ replies[i].kind \in {"listen", "revoked"} => replies[i].about \in Specs

PutInv ==
    /\ Low <= Top
    /\ outstanding = Low + 1 .. putCounter
    /\ \A r \in Answered : r.put <= Low
    /\ \A i \in 1..Len(requests) : requests[i] = Top + i
    /\ \A i \in 1..Len(replies) :
          replies[i].kind = "put" => replies[i].about \in Low + 1 .. Top
    /\ \A i, j \in 1..Len(replies) :
          replies[i].kind = "put" /\ replies[j].kind = "put" /\ i < j =>
              replies[i].about < replies[j].about
    /\ link = "connected" =>
          \A p \in Low + 1 .. Top :
              \E i \in 1..Len(replies) : replies[i].kind = "put" /\ replies[i].about = p

AckInv ==
    /\ \A r \in Answered : r.ok => value >= r.put /\ r.put \in stored
    /\ \A i \in 1..Len(replies) : replies[i].kind = "put" /\ replies[i].ok =>
          value >= replies[i].about /\ replies[i].about \in stored

CountInv == IsFiniteSet(Unanswered(loading)) /\ CountIsExact

SyncInv == PutSyncTypeOK /\ LinkInv /\ AboutInv /\ PutInv /\ AckInv /\ CountInv

-----------------------------------------------------------------------------
(* Sequences.                                                              *)

\* The client takes the first message.
Popped ==
    /\ Len(replies') = Len(replies) - 1
    /\ \A i \in 1..Len(replies') : replies'[i] = replies[i + 1]

LEMMA TypedSeqs ==
    ASSUME PutSyncTypeOK
    PROVE  /\ replies \in Seq(Messages) /\ requests \in Seq(1..MaxPuts)
           /\ Len(replies) \in Nat /\ Len(requests) \in Nat
           /\ Len(reported) \in Nat /\ Len(putsToAck) \in Nat
           /\ DOMAIN replies = 1..Len(replies)
           /\ \A i \in 1..Len(replies) : replies[i] \in Messages
           /\ \A i \in 1..Len(requests) : requests[i] \in 1..MaxPuts
           /\ \A i \in 1..Len(reported) : reported[i] \in Results
           /\ \A i \in 1..Len(putsToAck) : putsToAck[i] \in Results
  BY LenProperties DEF PutSyncTypeOK, Messages, Kinds

LEMMA HandlePops ==
    ASSUME PutSyncTypeOK, NEW kind, Handle(kind)
    PROVE  /\ Popped /\ replies' \in Seq(Messages)
           /\ Len(replies) \in Nat /\ Len(replies) > 0
           /\ Head(replies) = replies[1] /\ replies[1].kind = kind
           /\ replies[1] \in Messages
<1>1. replies \in Seq(Messages) /\ replies # <<>>
  BY TypedSeqs DEF Handle
<1>2. Len(replies) \in Nat \ {0}
  BY <1>1, EmptySeq
<1>3. Head(replies) = replies[1]
  BY <1>1
<1>4. QED
  BY <1>1, <1>2, <1>3, HeadTailProperties, TypedSeqs DEF Handle, Popped

\* The server sends one message, or two.
Pushed(m) ==
    /\ Len(replies') = Len(replies) + 1
    /\ \A i \in 1..Len(replies) : replies'[i] = replies[i]
    /\ replies'[Len(replies) + 1] = m

PushedBoth(d, m) ==
    /\ Len(replies') = Len(replies) + 2
    /\ \A i \in 1..Len(replies) : replies'[i] = replies[i]
    /\ replies'[Len(replies) + 1] = d /\ replies'[Len(replies) + 2] = m

LEMMA PushOne ==
    ASSUME PutSyncTypeOK, NEW m \in Messages, replies' = Append(replies, m)
    PROVE  Pushed(m) /\ replies' \in Seq(Messages)
  BY TypedSeqs, AppendProperties DEF Pushed

LEMMA PushAfter ==
    ASSUME PutSyncTypeOK, NEW m \in Messages, NEW d \in Messages
    PROVE  /\ replies' = replies \o <<>> \o <<m>> =>
                 Pushed(m) /\ replies' \in Seq(Messages)
           /\ replies' = replies \o <<d>> \o <<m>> =>
                 PushedBoth(d, m) /\ replies' \in Seq(Messages)
<1>1. replies \in Seq(Messages)
  BY TypedSeqs
<1>2. replies \o <<>> = replies /\ replies \o <<m>> = Append(replies, m)
  BY <1>1, ConcatEmptySeq, AppendIsConcat
<1>3. replies \o <<d>> = Append(replies, d) /\ Append(replies, d) \in Seq(Messages)
  BY <1>1, AppendIsConcat, AppendProperties
<1>4. Append(replies, d) \o <<m>> = Append(Append(replies, d), m)
  BY <1>3, AppendIsConcat
<1>5. ASSUME replies' = Append(Append(replies, d), m)
      PROVE  PushedBoth(d, m) /\ replies' \in Seq(Messages)
  <2> DEFINE q == Append(replies, d)
  <2>1. /\ Len(q) = Len(replies) + 1 /\ q[Len(replies) + 1] = d
        /\ \A i \in 1..Len(replies) : q[i] = replies[i]
    BY <1>1, AppendProperties
  <2>2. /\ replies' \in Seq(Messages)
        /\ Len(replies') = Len(q) + 1 /\ replies'[Len(q) + 1] = m
        /\ \A i \in 1..Len(q) : replies'[i] = q[i]
    BY <1>3, <1>5, AppendProperties
  <2>3. Len(replies) \in Nat
    BY <1>1, LenProperties
  <2> HIDE DEF q
  <2>4. QED
    BY <2>1, <2>2, <2>3 DEF PushedBoth
<1>6. QED
  BY <1>2, <1>3, <1>4, <1>5, PushOne

\* Numbers that increase from within an interval as long as they are fill it.
LEMMA InOrderIsInterval ==
    ASSUME NEW a \in Nat, NEW b \in Nat, a <= b
    PROVE  /\ InOrder(a + 1 .. b) \in [1..b - a -> a + 1 .. b]
           /\ \A i \in 1..b - a : InOrder(a + 1 .. b)[i] = a + i
<1> DEFINE n == b - a
           S == a + 1 .. b
           q == InOrder(S)
<1>1. n \in Nat /\ Cardinality(S) = n
  <2>1. a + 1 \in Int /\ b \in Int
    OBVIOUS
  <2>2. Cardinality(a + 1 .. b) = IF a + 1 > b THEN 0 ELSE b - (a + 1) + 1
    BY <2>1, FS_Interval, Zenon
  <2>3. QED
    BY <2>2
<1>2. \E f \in [1..n -> S] : \A i, j \in 1..n : i < j => f[i] < f[j]
  <2>1. [i \in 1..n |-> a + i] \in [1..n -> S]
    OBVIOUS
  <2>2. \A i, j \in 1..n : i < j => [k \in 1..n |-> a + k][i] < [k \in 1..n |-> a + k][j]
    OBVIOUS
  <2>3. QED
    BY <2>1, <2>2
<1>3. q \in [1..n -> S] /\ \A i, j \in 1..n : i < j => q[i] < q[j]
  BY <1>1, <1>2 DEF InOrder
<1> HIDE DEF q
<1>4. \A i \in 1..n : q[i] >= a + i
  <2> DEFINE T == {i \in 1..n : q[i] < a + i}
  <2>1. SUFFICES ASSUME T # {} PROVE FALSE
    <3>1. \A i \in 1..n : q[i] \in Nat
      BY <1>1, <1>3
    <3>2. QED
      BY <1>1, <3>1
  <2>2. PICK m \in T : \A x \in T : m <= x
    <3>1. T \subseteq Nat
      OBVIOUS
    <3> HIDE DEF T
    <3>2. QED
      BY <2>1, <3>1, LeastExists
  <2>3. CASE m = 1
    BY <1>1, <1>3, <2>2, <2>3
  <2>4. CASE m # 1
    <3>1. m - 1 \in 1..n /\ m - 1 \notin T
      BY <1>1, <2>2, <2>4
    <3>2. q[m - 1] >= a + (m - 1) /\ q[m - 1] < q[m]
      BY <1>1, <1>3, <2>2, <3>1
    <3>3. QED
      BY <1>1, <1>3, <2>2, <3>1, <3>2
  <2>5. QED
    BY <2>3, <2>4
<1>5. \A i \in 1..n : q[i] <= a + i
  <2> DEFINE T == {i \in 1..n : q[i] > a + i}
  <2>1. SUFFICES ASSUME T # {} PROVE FALSE
    <3>1. \A i \in 1..n : q[i] \in Nat
      BY <1>1, <1>3
    <3>2. QED
      BY <1>1, <3>1
  <2>2. PICK m \in T : \A x \in T : x <= m
    <3>1. T \subseteq Nat /\ \A x \in T : x <= n
      OBVIOUS
    <3> HIDE DEF T
    <3>2. QED
      BY <1>1, <2>1, <3>1, GreatestExists
  <2>3. CASE m = n
    BY <1>1, <1>3, <2>2, <2>3
  <2>4. CASE m # n
    <3>1. m + 1 \in 1..n /\ m + 1 \notin T
      BY <1>1, <2>2, <2>4
    <3>2. q[m + 1] <= a + (m + 1) /\ q[m] < q[m + 1]
      BY <1>1, <1>3, <2>2, <3>1
    <3>3. QED
      BY <1>1, <1>3, <2>2, <3>1, <3>2
  <2>5. QED
    BY <2>3, <2>4
<1>6. \A i \in 1..n : q[i] = a + i
  <2>1. \A i \in 1..n : q[i] \in Nat
    BY <1>1, <1>3
  <2>2. QED
    BY <1>1, <1>4, <1>5, <2>1
<1>7. QED
  BY <1>3, <1>6 DEF q

-----------------------------------------------------------------------------
(* Counting listens.                                                       *)

LEMMA OneMore ==
    ASSUME NEW S, IsFiniteSet(S), NEW x, x \notin S
    PROVE  IsFiniteSet(S \cup {x}) /\ Cardinality(S \cup {x}) = Cardinality(S) + 1
  BY FS_AddElement

LEMMA UnansweredIs ==
    ASSUME NEW l \in [Specs -> Nat], NEW x
    PROVE  x \in Unanswered(l) <=> \E s \in Specs : \E n \in 1..l[s] : x = <<s, n>>
  BY DEF Unanswered

LEMMA AskedOnce ==
    ASSUME NEW l \in [Specs -> Nat], IsFiniteSet(Unanswered(l)), NEW s \in Specs,
           NEW k \in [Specs -> Nat], k = [l EXCEPT ![s] = l[s] + 1]
    PROVE  /\ IsFiniteSet(Unanswered(k))
           /\ Cardinality(Unanswered(k)) = Cardinality(Unanswered(l)) + 1
<1>1. <<s, l[s] + 1>> \notin Unanswered(l)
  BY UnansweredIs
<1>2. Unanswered(k) = Unanswered(l) \cup {<<s, l[s] + 1>>}
  <2>1. ASSUME NEW x \in Unanswered(k) PROVE x \in Unanswered(l) \cup {<<s, l[s] + 1>>}
    <3>1. PICK t \in Specs : \E n \in 1..k[t] : x = <<t, n>>
      BY <2>1, UnansweredIs
    <3>2. PICK n \in 1..k[t] : x = <<t, n>>
      BY <3>1
    <3>3. n \in 1..l[t] \/ (t = s /\ n = l[s] + 1)
      BY <3>2
    <3>4. QED
      BY <3>2, <3>3, UnansweredIs
  <2>2. ASSUME NEW x \in Unanswered(l) \cup {<<s, l[s] + 1>>} PROVE x \in Unanswered(k)
    <3>1. CASE x = <<s, l[s] + 1>>
      <4>1. l[s] + 1 \in 1..k[s]
        OBVIOUS
      <4>2. QED
        BY <3>1, <4>1, UnansweredIs
    <3>2. CASE x \in Unanswered(l)
      <4>1. PICK t \in Specs : \E n \in 1..l[t] : x = <<t, n>>
        BY <3>2, UnansweredIs
      <4>2. PICK n \in 1..l[t] : x = <<t, n>>
        BY <4>1
      <4>3. n \in 1..k[t]
        BY <4>2
      <4>4. QED
        BY <4>2, <4>3, UnansweredIs
    <3>3. QED
      BY <2>2, <3>1, <3>2
  <2>3. QED
    BY <2>1, <2>2
<1>3. /\ IsFiniteSet(Unanswered(l) \cup {<<s, l[s] + 1>>})
      /\ Cardinality(Unanswered(l) \cup {<<s, l[s] + 1>>}) = Cardinality(Unanswered(l)) + 1
  BY <1>1, OneMore
<1>4. QED
  BY <1>2, <1>3

LEMMA AnsweredOnce ==
    ASSUME NEW l \in [Specs -> Nat], IsFiniteSet(Unanswered(l)), NEW s \in Specs, l[s] > 0,
           NEW k \in [Specs -> Nat], k = [l EXCEPT ![s] = l[s] - 1]
    PROVE  /\ IsFiniteSet(Unanswered(k))
           /\ Cardinality(Unanswered(l)) = Cardinality(Unanswered(k)) + 1
<1>1. Unanswered(k) \subseteq Unanswered(l)
  <2>1. SUFFICES ASSUME NEW x \in Unanswered(k) PROVE x \in Unanswered(l)
    OBVIOUS
  <2>2. PICK t \in Specs : \E n \in 1..k[t] : x = <<t, n>>
    BY <2>1, UnansweredIs
  <2>3. PICK n \in 1..k[t] : x = <<t, n>>
    BY <2>2
  <2>4. n \in 1..l[t]
    BY <2>3
  <2>5. QED
    BY <2>3, <2>4, UnansweredIs
<1>2. IsFiniteSet(Unanswered(k))
  BY <1>1, FS_Subset
<1>3. l = [k EXCEPT ![s] = k[s] + 1]
  <2>1. k[s] = l[s] - 1 /\ k[s] + 1 = l[s] /\ \A t \in Specs \ {s} : k[t] = l[t]
    OBVIOUS
  <2>2. QED
    BY <2>1, Zenon
<1>4. QED
  BY <1>2, <1>3, AskedOnce

LEMMA AskedAgain ==
    ASSUME NEW l \in [Specs -> Nat], IsFiniteSet(Unanswered(l)), NEW W \in SUBSET Specs,
           NEW k \in [Specs -> Nat],
           k = [s \in Specs |-> l[s] + IF s \in W THEN 1 ELSE 0]
    PROVE  /\ IsFiniteSet(Unanswered(k)) /\ Cardinality(W) \in Nat
           /\ Cardinality(Unanswered(k)) = Cardinality(Unanswered(l)) + Cardinality(W)
<1> DEFINE new == {<<s, l[s] + 1>> : s \in W}
           f == [s \in W |-> <<s, l[s] + 1>>]
<1>1. IsFiniteSet(W) /\ Cardinality(W) \in Nat
  BY PutSyncAssumption, FS_Subset, FS_CardinalityType
<1>2. IsFiniteSet(new) /\ Cardinality(new) = Cardinality(W)
  <2>1. f \in Bijection(W, new)
    <3>1. f \in [W -> new]
      OBVIOUS
    <3>2. \A a, b \in W : f[a] = f[b] => a = b
      OBVIOUS
    <3>3. \A t \in new : \E s \in W : f[s] = t
      OBVIOUS
    <3>4. DOMAIN f = W
      OBVIOUS
    <3> HIDE DEF f, new
    <3>5. QED
      BY <3>1, <3>2, <3>3, <3>4 DEF Bijection, Injection, Surjection, IsInjective
  <2>2. ExistsBijection(W, new)
    BY <2>1 DEF ExistsBijection
  <2> HIDE DEF new
  <2>3. QED
    BY <1>1, <2>2, FS_Bijection
<1>3. Unanswered(l) \cap new = {}
  BY UnansweredIs
<1>4. Unanswered(k) = Unanswered(l) \cup new
  <2>1. ASSUME NEW x \in Unanswered(k) PROVE x \in Unanswered(l) \cup new
    <3>1. PICK t \in Specs : \E n \in 1..k[t] : x = <<t, n>>
      BY <2>1, UnansweredIs
    <3>2. PICK n \in 1..k[t] : x = <<t, n>>
      BY <3>1
    <3>3. n \in 1..l[t] \/ (t \in W /\ n = l[t] + 1)
      BY <3>2
    <3>4. QED
      BY <3>2, <3>3, UnansweredIs
  <2>2. ASSUME NEW x \in Unanswered(l) PROVE x \in Unanswered(k)
    <3>1. PICK t \in Specs : \E n \in 1..l[t] : x = <<t, n>>
      BY <2>2, UnansweredIs
    <3>2. PICK n \in 1..l[t] : x = <<t, n>>
      BY <3>1
    <3>3. n \in 1..k[t]
      BY <3>2
    <3>4. QED
      BY <3>2, <3>3, UnansweredIs
  <2>3. ASSUME NEW s \in W PROVE <<s, l[s] + 1>> \in Unanswered(k)
    <3>1. l[s] + 1 \in 1..k[s]
      OBVIOUS
    <3>2. QED
      BY <3>1, UnansweredIs
  <2>4. QED
    BY <2>1, <2>2, <2>3
<1> HIDE DEF new
<1>5. /\ IsFiniteSet(Unanswered(l) \cup new)
      /\ Cardinality(Unanswered(l) \cup new) =
            Cardinality(Unanswered(l)) + Cardinality(new) - Cardinality(Unanswered(l) \cap new)
  BY <1>2, FS_Union, Zenon
<1>6. Cardinality(Unanswered(l) \cap new) = 0 /\ Cardinality(Unanswered(l)) \in Nat
  BY <1>3, FS_EmptySet, FS_CardinalityType
<1>7. Cardinality(Unanswered(l) \cup new) = Cardinality(Unanswered(l)) + Cardinality(W)
  BY <1>1, <1>2, <1>5, <1>6
<1>8. QED
  BY <1>1, <1>4, <1>5, <1>7

LEMMA ListenRepliesFinite ==
    ASSUME PutSyncTypeOK
    PROVE  /\ IsFiniteSet(ListenReplies(replies))
           /\ Cardinality(ListenReplies(replies)) \in Nat
           /\ ListenReplies(replies) = {i \in 1..Len(replies) : replies[i].kind = "listen"}
<1>1. ListenReplies(replies) = {i \in 1..Len(replies) : replies[i].kind = "listen"}
  BY TypedSeqs DEF ListenReplies
<1>2. IsFiniteSet(1..Len(replies))
  BY TypedSeqs, FS_Interval
<1>3. QED
  BY <1>1, <1>2, FS_Subset, FS_CardinalityType

LEMMA CountPushed ==
    ASSUME PutSyncTypeOK, NEW m, Pushed(m), replies' \in Seq(Messages)
    PROVE  Cardinality(ListenReplies(replies')) =
               Cardinality(ListenReplies(replies)) + IF m.kind = "listen" THEN 1 ELSE 0
<1>1. ListenReplies(replies') = {i \in 1..Len(replies') : replies'[i].kind = "listen"}
  BY LenProperties DEF ListenReplies
<1>2. CASE m.kind = "listen"
  <2>1. ListenReplies(replies') = ListenReplies(replies) \cup {Len(replies) + 1}
    <3>1. /\ Len(replies) \in Nat /\ Len(replies') = Len(replies) + 1
          /\ replies'[Len(replies) + 1].kind = "listen"
          /\ \A i \in 1..Len(replies) : replies'[i] = replies[i]
      BY <1>2, TypedSeqs DEF Pushed
    <3>2. 1..Len(replies') = 1..Len(replies) \cup {Len(replies) + 1}
      BY <3>1
    <3>3. ListenReplies(replies) = {i \in 1..Len(replies) : replies[i].kind = "listen"}
      BY ListenRepliesFinite
    <3>4. Len(replies) + 1 \in ListenReplies(replies')
      BY <1>1, <3>1, <3>2
    <3>5. \A i \in 1..Len(replies) : i \in ListenReplies(replies') <=> i \in ListenReplies(replies)
      BY <1>1, <3>1, <3>2, <3>3
    <3>6. QED
      BY <1>1, <3>2, <3>3, <3>4, <3>5
  <2>2. Len(replies) + 1 \notin ListenReplies(replies)
    BY ListenRepliesFinite, TypedSeqs
  <2>3. Cardinality(ListenReplies(replies')) = Cardinality(ListenReplies(replies)) + 1
    BY <2>1, <2>2, ListenRepliesFinite, OneMore, Zenon
  <2>4. QED
    BY <1>2, <2>3
<1>3. CASE m.kind # "listen"
  <2>1. ListenReplies(replies') = ListenReplies(replies)
    BY <1>1, <1>3, ListenRepliesFinite, TypedSeqs DEF Pushed
  <2>2. QED
    BY <1>3, <2>1, ListenRepliesFinite
<1>4. QED
  BY <1>2, <1>3

LEMMA CountPushedBoth ==
    ASSUME PutSyncTypeOK, NEW d, d.kind = "data", NEW m, PushedBoth(d, m),
           replies' \in Seq(Messages)
    PROVE  Cardinality(ListenReplies(replies')) =
               Cardinality(ListenReplies(replies)) + IF m.kind = "listen" THEN 1 ELSE 0
<1>1. ListenReplies(replies') = {i \in 1..Len(replies') : replies'[i].kind = "listen"}
  BY LenProperties DEF ListenReplies
<1>2. 1..Len(replies') = 1..Len(replies) \cup {Len(replies) + 1, Len(replies) + 2}
  BY TypedSeqs DEF PushedBoth
<1>3. CASE m.kind = "listen"
  <2>1. ListenReplies(replies') = ListenReplies(replies) \cup {Len(replies) + 2}
    BY <1>1, <1>2, <1>3, ListenRepliesFinite, Zenon DEF PushedBoth
  <2>2. Len(replies) + 2 \notin ListenReplies(replies)
    BY ListenRepliesFinite, TypedSeqs
  <2>3. Cardinality(ListenReplies(replies')) = Cardinality(ListenReplies(replies)) + 1
    BY <2>1, <2>2, ListenRepliesFinite, OneMore, Zenon
  <2>4. QED
    BY <1>3, <2>3
<1>4. CASE m.kind # "listen"
  <2>1. ListenReplies(replies') = ListenReplies(replies)
    BY <1>1, <1>2, <1>4, ListenRepliesFinite, Zenon DEF PushedBoth
  <2>2. QED
    BY <1>4, <2>1, ListenRepliesFinite
<1>5. QED
  BY <1>3, <1>4

LEMMA CountPopped ==
    ASSUME PutSyncTypeOK, Popped, replies' \in Seq(Messages), Len(replies) > 0
    PROVE  /\ Cardinality(ListenReplies(replies')) \in Nat
           /\ Cardinality(ListenReplies(replies)) =
                  Cardinality(ListenReplies(replies'))
                  + IF replies[1].kind = "listen" THEN 1 ELSE 0
<1> DEFINE R == ListenReplies(replies)
           Q == ListenReplies(replies')
           f == [i \in Q |-> i + 1]
<1>1. Q = {i \in 1..Len(replies') : replies'[i].kind = "listen"}
  BY LenProperties DEF ListenReplies
<1>2. /\ IsFiniteSet(R) /\ Cardinality(R) \in Nat
      /\ R = {i \in 1..Len(replies) : replies[i].kind = "listen"}
  BY ListenRepliesFinite
<1>3. Len(replies) \in Nat
  BY TypedSeqs
<1>4. IsFiniteSet(Q) /\ Cardinality(Q) \in Nat
  <2>1. Len(replies') \in Nat /\ IsFiniteSet(1..Len(replies'))
    BY LenProperties, FS_Interval
  <2>2. QED
    BY <1>1, <2>1, FS_Subset, FS_CardinalityType
<1>5. f \in Bijection(Q, R \ {1})
  <2> HIDE DEF R, Q
  <2>1. f \in [Q -> R \ {1}]
    BY <1>1, <1>2, <1>3 DEF Popped
  <2>2. \A a, b \in Q : f[a] = f[b] => a = b
    BY <1>1
  <2>3. ASSUME NEW t \in R \ {1} PROVE \E s \in Q : f[s] = t
    <3>1. t - 1 \in Q /\ f[t - 1] = t
      BY <1>1, <1>2, <1>3 DEF Popped
    <3>2. QED
      BY <3>1
  <2>4. DOMAIN f = Q
    OBVIOUS
  <2> HIDE DEF f
  <2>5. QED
    BY <2>1, <2>2, <2>3, <2>4 DEF Bijection, Injection, Surjection, IsInjective
<1>6. Cardinality(R \ {1}) = Cardinality(Q)
  <2>1. ExistsBijection(Q, R \ {1})
    BY <1>5 DEF ExistsBijection
  <2> HIDE DEF R, Q
  <2>2. QED
    BY <1>4, <2>1, FS_Bijection
<1>7. 1 \in R <=> replies[1].kind = "listen"
  BY <1>2, <1>3
<1> HIDE DEF R, Q
<1>8. Cardinality(R \ {1}) = IF 1 \in R THEN Cardinality(R) - 1 ELSE Cardinality(R)
  BY <1>2, FS_RemoveElement
<1>9. QED
  BY <1>2, <1>4, <1>6, <1>7, <1>8 DEF R, Q

-----------------------------------------------------------------------------
(* The client's bookkeeping.                                               *)

LEMMA AnsweredIs ==
    ASSUME reported \in Seq(Results), putsToAck \in Seq(Results)
    PROVE  Answered = {reported[i] : i \in 1..Len(reported)}
                      \cup {putsToAck[i] : i \in 1..Len(putsToAck)}
  BY RangeEquality DEF Answered

\* The numbers the invariants speak of are numbers.
LEMMA Numbers ==
    ASSUME PutSyncTypeOK
    PROVE  /\ Len(replies) \in Nat /\ Len(requests) \in Nat
           /\ Len(reported) \in Nat /\ Len(putsToAck) \in Nat
           /\ Low \in Nat /\ Top \in Int /\ putCounter \in Nat /\ MaxPuts \in Nat
           /\ value \in Nat
           /\ \A r \in Answered : r.put \in Nat
<1>1. \A r \in Answered : r \in Results
  BY RangeOfSeq DEF Answered, PutSyncTypeOK
<1>2. \A r \in Answered : r.put \in Nat
  BY <1>1, PutSyncAssumption DEF Results
<1>3. /\ Len(replies) \in Nat /\ Len(requests) \in Nat
      /\ Len(reported) \in Nat /\ Len(putsToAck) \in Nat
  BY TypedSeqs
<1>4. putCounter \in Nat /\ MaxPuts \in Nat /\ value \in Nat
  BY PutSyncAssumption DEF PutSyncTypeOK
<1>5. QED
  BY <1>2, <1>3, <1>4 DEF Low, Top

\* A result is added to one of the lists.
LEMMA ResultAdded ==
    ASSUME PutSyncTypeOK, NEW r \in Results,
           \/ reported' = Append(reported, r) /\ UNCHANGED putsToAck
           \/ putsToAck' = Append(putsToAck, r) /\ UNCHANGED reported
    PROVE  /\ reported' \in Seq(Results) /\ putsToAck' \in Seq(Results)
           /\ Low' = Low + 1 /\ Answered' = Answered \cup {r}
<1>1. reported \in Seq(Results) /\ putsToAck \in Seq(Results)
  BY DEF PutSyncTypeOK
<1>2. reported' \in Seq(Results) /\ putsToAck' \in Seq(Results)
  <2>1. Append(reported, r) \in Seq(Results) /\ Append(putsToAck, r) \in Seq(Results)
    BY <1>1, AppendProperties
  <2>2. QED
    BY <1>1, <2>1, Zenon
<1>3. Low' = Low + 1
  <2>1. Len(reported) \in Nat /\ Len(putsToAck) \in Nat
    BY <1>1, LenProperties
  <2>2. \/ Len(reported') = Len(reported) + 1 /\ Len(putsToAck') = Len(putsToAck)
        \/ Len(putsToAck') = Len(putsToAck) + 1 /\ Len(reported') = Len(reported)
    BY <1>1, AppendProperties
  <2>3. QED
    BY <2>1, <2>2 DEF Low
<1>4. ASSUME NEW q \in Seq(Results) PROVE Range(Append(q, r)) = Range(q) \cup {r}
  <2> DEFINE a == Append(q, r)
  <2>1. /\ a \in Seq(Results) /\ Len(a) = Len(q) + 1 /\ a[Len(q) + 1] = r
        /\ \A i \in 1..Len(q) : a[i] = q[i]
    BY AppendProperties
  <2>2. Len(q) \in Nat
    BY LenProperties
  <2>3. 1..Len(a) = 1..Len(q) \cup {Len(q) + 1}
    BY <2>1, <2>2
  <2>4. Range(q) = {q[i] : i \in 1..Len(q)}
    BY RangeEquality
  <2> HIDE DEF a
  <2>5. Range(a) = {a[i] : i \in 1..Len(a)}
    BY <2>1, RangeEquality
  <2>6. Range(a) = Range(q) \cup {r}
    <3>1. ASSUME NEW x \in Range(a) PROVE x \in Range(q) \cup {r}
      BY <2>1, <2>3, <2>4, <2>5
    <3>2. ASSUME NEW x \in Range(q) \cup {r} PROVE x \in Range(a)
      BY <2>1, <2>3, <2>4, <2>5
    <3>3. QED
      BY <3>1, <3>2
  <2>7. QED
    BY <2>6 DEF a
<1>5. Answered' = Answered \cup {r}
  BY <1>1, <1>4 DEF Answered
<1>6. QED
  BY <1>2, <1>3, <1>5

\* ackPuts calls the blocks that wait and changes nothing else.
LEMMA AckPutsKeeps ==
    ASSUME PutSyncTypeOK, AckPuts
    PROVE  /\ reported' \in Seq(Results) /\ putsToAck' \in Seq(Results)
           /\ Low' = Low /\ Answered' = Answered
           /\ Len(reported') = Low /\ Len(putsToAck') = 0
           /\ Range(reported') = Answered
           /\ \A i \in 1..Len(reported) : reported'[i] = reported[i]
           /\ \A i \in 1..Len(putsToAck) : reported'[Len(reported) + i] = putsToAck[i]
<1>1. reported \in Seq(Results) /\ putsToAck \in Seq(Results)
  BY DEF PutSyncTypeOK
<1>2. /\ reported' \in Seq(Results) /\ Len(reported') = Len(reported) + Len(putsToAck)
      /\ \A i \in 1 .. Len(reported) + Len(putsToAck) : reported'[i] =
            IF i <= Len(reported) THEN reported[i] ELSE putsToAck[i - Len(reported)]
  BY <1>1, ConcatProperties DEF AckPuts
<1>3. putsToAck' \in Seq(Results) /\ Len(putsToAck') = 0 /\ Range(putsToAck') = {}
  <2>1. putsToAck' = <<>> /\ putsToAck' \in Seq(Results) /\ Len(putsToAck') = 0
    BY EmptySeq DEF AckPuts
  <2>2. Range(<<>>) = {}
    BY DEF Range
  <2>3. QED
    BY <2>1, <2>2, Zenon
<1>4. Low' = Low /\ Len(reported') = Low
  BY <1>2, <1>3, TypedSeqs DEF Low
<1>5. Range(reported') = Answered
  BY <1>1, RangeConcatenation DEF AckPuts, Answered
<1>6. Answered' = Answered
  BY <1>3, <1>5 DEF Answered
<1>7. /\ \A i \in 1..Len(reported) : reported'[i] = reported[i]
      /\ \A i \in 1..Len(putsToAck) : reported'[Len(reported) + i] = putsToAck[i]
  <2>1. Len(reported) \in Nat /\ Len(putsToAck) \in Nat
    BY <1>1, LenProperties
  <2>2. ASSUME NEW i \in 1..Len(putsToAck) PROVE reported'[Len(reported) + i] = putsToAck[i]
    <3>1. /\ Len(reported) + i \in 1 .. Len(reported) + Len(putsToAck)
          /\ ~(Len(reported) + i <= Len(reported))
          /\ (Len(reported) + i) - Len(reported) = i
      BY <2>1
    <3>2. QED
      BY <1>2, <3>1
  <2>3. ASSUME NEW i \in 1..Len(reported) PROVE reported'[i] = reported[i]
    <3>1. i \in 1 .. Len(reported) + Len(putsToAck) /\ i <= Len(reported)
      BY <2>1
    <3>2. QED
      BY <1>2, <3>1
  <2>4. QED
    BY <2>2, <2>3
<1>8. QED
  BY <1>2, <1>3, <1>4, <1>5, <1>6, <1>7

LEMMA FillsSeq ==
    ASSUME NEW n \in Nat, NEW S, NEW f \in [1..n -> S]
    PROVE  f \in Seq(S) /\ Len(f) = n
<1>1. f \in Seq(S)
  BY SeqDef
<1>2. Len(f) \in Nat /\ 1..Len(f) = 1..n
  BY <1>1, LenProperties
<1>3. QED
  BY <1>1, <1>2

\* restoreState sends every write that is not answered, in order.
LEMMA Restores ==
    ASSUME SyncInv, RestoreState, link # "connected"
    PROVE  /\ requests' \in Seq(1..MaxPuts) /\ Len(requests') = putCounter - Low
           /\ \A i \in 1..Len(requests') : requests'[i] = Low + i
           /\ loading' \in [Specs -> Nat] /\ IsFiniteSet(Unanswered(loading'))
           /\ Cardinality(listens) \in Nat /\ unacked' = unacked + Cardinality(listens)
           /\ Cardinality(Unanswered(loading')) =
                 Cardinality(Unanswered(loading)) + Cardinality(listens)
<1>1. /\ Low \in Nat /\ putCounter \in Nat /\ putCounter <= MaxPuts /\ Low <= putCounter
      /\ outstanding = Low + 1 .. putCounter
  <2>1. Len(requests) \in Nat
    BY Numbers DEF SyncInv
  <2>2. QED
    BY <2>1, Numbers DEF SyncInv, PutSyncTypeOK, PutInv, Top
<1>2. /\ requests' \in [1..putCounter - Low -> Low + 1 .. putCounter]
      /\ \A i \in 1..putCounter - Low : requests'[i] = Low + i
  BY <1>1, InOrderIsInterval DEF RestoreState
<1>3. /\ requests' \in Seq(Low + 1 .. putCounter) /\ Len(requests') = putCounter - Low
  BY <1>1, <1>2, FillsSeq
<1>4. Low + 1 .. putCounter \subseteq 1..MaxPuts
  BY <1>1, PutSyncAssumption
<1>5. requests' \in Seq(1..MaxPuts)
  BY <1>3, <1>4, SeqMonotonic
<1>6. /\ loading \in [Specs -> Nat] /\ IsFiniteSet(Unanswered(loading))
      /\ listens \in SUBSET Specs
  BY DEF SyncInv, PutSyncTypeOK, CountInv
<1>7. loading' \in [Specs -> Nat]
  BY <1>6 DEF RestoreState
<1>8. /\ IsFiniteSet(Unanswered(loading')) /\ Cardinality(listens) \in Nat
      /\ Cardinality(Unanswered(loading')) =
            Cardinality(Unanswered(loading)) + Cardinality(listens)
  BY <1>6, <1>7, AskedAgain DEF RestoreState
<1>9. QED
  BY <1>2, <1>3, <1>5, <1>7, <1>8 DEF RestoreState

-----------------------------------------------------------------------------
(* SyncInv, call by call of FRepo.                                         *)

LEMMA PutInternalInv ==
    ASSUME SyncInv, PutInternal
    PROVE  SyncInv'
<1> USE DEF PutInternal, server
<1>1. /\ Low \in Nat /\ putCounter \in Nat /\ Len(requests) \in Nat /\ MaxPuts \in Nat
      /\ Len(replies) \in Nat /\ putCounter < MaxPuts /\ Low <= putCounter
  BY Numbers DEF SyncInv, PutInv, Top
<1>2. Low' = Low /\ Answered' = Answered
  BY DEF Low, Answered
<1>3. /\ requests' \in Seq(1..MaxPuts)
      /\ link = "connected" =>
            /\ Len(requests') = Len(requests) + 1
            /\ \A i \in 1..Len(requests) : requests'[i] = requests[i]
            /\ requests'[Len(requests) + 1] = putCounter + 1
      /\ link # "connected" => requests' = requests
  <2>1. requests \in Seq(1..MaxPuts) /\ putCounter + 1 \in 1..MaxPuts
    BY <1>1 DEF SyncInv, PutSyncTypeOK
  <2>2. CASE link = "connected"
    <3>1. requests' = Append(requests, putCounter + 1)
      BY <2>2
    <3>2. QED
      BY <2>1, <2>2, <3>1, AppendProperties
  <2>3. CASE link # "connected"
    BY <2>1, <2>3
  <2>4. QED
    BY <2>2, <2>3
<1>4. PutSyncTypeOK'
  <2>1. putCounter' \in 0..MaxPuts /\ outstanding' \subseteq 1..putCounter'
    BY <1>1 DEF SyncInv, PutSyncTypeOK
  <2>2. QED
    BY <1>3, <2>1 DEF SyncInv, PutSyncTypeOK
<1>5. LinkInv'
  BY <1>3 DEF SyncInv, LinkInv, Sent
<1>6. AboutInv' /\ AckInv'
  BY <1>2 DEF SyncInv, AboutInv, AckInv
<1>7. PutInv'
  <2>1. outstanding' = Low' + 1 .. putCounter'
    BY <1>1, <1>2 DEF SyncInv, PutInv
  <2>2. CASE link = "connected"
    <3>1. Top' = Top
      BY <1>1, <1>3, <2>2 DEF Top
    <3>2. ASSUME NEW i \in 1..Len(requests') PROVE requests'[i] = Top + i
      <4>1. CASE i = Len(requests) + 1
        BY <1>1, <1>3, <2>2, <4>1 DEF Top
      <4>2. CASE i # Len(requests) + 1
        <5>1. i \in 1..Len(requests)
          BY <1>1, <1>3, <2>2, <4>2
        <5>2. QED
          BY <1>3, <2>2, <5>1 DEF SyncInv, PutInv
      <4>3. QED
        BY <4>1, <4>2
    <3>3. QED
      BY <1>2, <2>1, <3>1, <3>2 DEF SyncInv, PutInv
  <2>3. CASE link # "connected"
    <3>1. requests' = <<>> /\ Len(requests') = 0 /\ Low' <= Top'
      BY <1>1, <1>2, <1>3, <2>3 DEF SyncInv, LinkInv, Top
    <3>2. QED
      BY <1>2, <2>1, <2>3, <3>1 DEF SyncInv, PutInv, LinkInv
  <2>4. QED
    BY <2>2, <2>3
<1>8. CountInv'
  BY DEF SyncInv, CountInv, CountIsExact
<1>9. QED
  BY <1>4, <1>5, <1>6, <1>7, <1>8 DEF SyncInv

LEMMA ListenInv ==
    ASSUME SyncInv, NEW s \in Specs, Listen(s)
    PROVE  SyncInv'
<1> USE DEF Listen, server
<1>1. Low' = Low /\ Answered' = Answered /\ Top' = Top
  BY DEF Low, Answered, Top
<1>2. /\ loading' \in [Specs -> Nat] /\ unacked' \in Nat
      /\ link = "down" => UNCHANGED <<loading, unacked>>
  <2>1. loading \in [Specs -> Nat] /\ unacked \in Nat
    BY DEF SyncInv, PutSyncTypeOK
  <2>2. QED
    BY <2>1
<1>3. PutSyncTypeOK'
  BY <1>2 DEF SyncInv, PutSyncTypeOK
<1>4. LinkInv' /\ AboutInv'
  BY <1>2 DEF SyncInv, LinkInv, AboutInv, Sent
<1>5. PutInv' /\ AckInv'
  BY <1>1 DEF SyncInv, PutInv, AckInv
<1>6. CountInv'
  <2>1. CASE link = "down"
    BY <2>1 DEF SyncInv, CountInv, CountIsExact
  <2>2. CASE link # "down"
    <3>1. /\ IsFiniteSet(Unanswered(loading'))
          /\ Cardinality(Unanswered(loading')) = Cardinality(Unanswered(loading)) + 1
      BY <1>2, <2>2, AskedOnce DEF SyncInv, PutSyncTypeOK, CountInv
    <3>2. Cardinality(Unanswered(loading)) \in Nat
      BY FS_CardinalityType DEF SyncInv, CountInv
    <3>3. QED
      BY <2>2, <3>1, <3>2, ListenRepliesFinite DEF SyncInv, CountInv, CountIsExact
  <2>3. QED
    BY <2>1, <2>2
<1>7. QED
  BY <1>3, <1>4, <1>5, <1>6 DEF SyncInv

-----------------------------------------------------------------------------
(* SyncInv and the connection.                                             *)

LEMMA NothingAsked ==
    /\ Unanswered(None) = {} /\ None \in [Specs -> Nat]
    /\ IsFiniteSet({}) /\ Cardinality({}) = 0 /\ ListenReplies(<<>>) = {}
<1>1. None \in [Specs -> Nat]
  BY DEF None
<1>2. Unanswered(None) = {}
  BY <1>1, UnansweredIs DEF None
<1>3. QED
  BY <1>1, <1>2, FS_EmptySet DEF ListenReplies

LEMMA OnReadyInv ==
    ASSUME SyncInv, NEW token \in BOOLEAN, OnReady(token)
    PROVE  SyncInv'
<1> USE DEF OnReady
<1>1. Low' = Low /\ Answered' = Answered /\ putCounter' = putCounter /\ replies' = <<>>
  BY DEF Low, Answered, SyncInv, LinkInv
<1>2. Low \in Nat /\ putCounter \in Nat /\ Low <= putCounter /\ Len(replies') = 0
  BY <1>1, Numbers DEF SyncInv, PutInv, Top
<1>3. CASE token
  <2>1. PutSyncTypeOK'
    BY <1>3 DEF SyncInv, PutSyncTypeOK
  <2>2. LinkInv'
    BY <1>1, <1>2, <1>3 DEF SyncInv, LinkInv, Sent
  <2>3. Top' = Top
    BY <1>3 DEF Top
  <2>4. AboutInv' /\ PutInv' /\ AckInv'
    <3>1. AboutInv' /\ AckInv'
      BY <1>1, <1>2, <1>3 DEF SyncInv, AboutInv, AckInv
    <3>2. PutInv'
      BY <1>1, <1>2, <1>3, <2>3 DEF SyncInv, PutInv
    <3>3. QED
      BY <3>1, <3>2
  <2>5. CountInv'
    BY <1>3 DEF SyncInv, CountInv, CountIsExact
  <2>6. QED
    BY <2>1, <2>2, <2>4, <2>5 DEF SyncInv
<1>4. CASE ~token
  <2>1. RestoreState /\ link # "connected" /\ link' = "connected"
    BY <1>4
  <2>2. /\ requests' \in Seq(1..MaxPuts) /\ Len(requests') = putCounter - Low
        /\ \A i \in 1..Len(requests') : requests'[i] = Low + i
        /\ loading' \in [Specs -> Nat] /\ IsFiniteSet(Unanswered(loading'))
        /\ Cardinality(listens) \in Nat /\ unacked' = unacked + Cardinality(listens)
        /\ Cardinality(Unanswered(loading')) =
              Cardinality(Unanswered(loading)) + Cardinality(listens)
    BY <2>1, Restores
  <2>3. PutSyncTypeOK'
    <3>1. unacked \in Nat
      BY DEF SyncInv, PutSyncTypeOK
    <3>2. unacked' \in Nat
      BY <2>2, <3>1
    <3>3. QED
      BY <1>4, <2>2, <3>2 DEF SyncInv, PutSyncTypeOK
  <2>4. LinkInv' /\ AboutInv'
    BY <1>2, <2>1 DEF LinkInv, AboutInv
  <2>5. Top' = Low
    BY <1>1, <1>2, <2>2 DEF Top
  <2>6. PutInv' /\ AckInv'
    BY <1>1, <1>2, <2>1, <2>2, <2>5 DEF SyncInv, PutInv, AckInv
  <2>7. CountInv'
    <3>1. unacked = 0 /\ loading = None
      BY DEF SyncInv, LinkInv
    <3>2. unacked' = Cardinality(Unanswered(loading'))
      BY <2>2, <3>1, NothingAsked
    <3>3. Cardinality(ListenReplies(replies')) = 0 /\ Cardinality(Unanswered(loading')) \in Nat
      BY <1>1, <2>2, NothingAsked, FS_CardinalityType
    <3>4. QED
      BY <2>2, <3>2, <3>3 DEF CountInv, CountIsExact
  <2>8. QED
    BY <2>3, <2>4, <2>6, <2>7 DEF SyncInv
<1>5. QED
  BY <1>3, <1>4

\* What a broken connection and a killed one have in common.
LEMMA SeveredInv ==
    ASSUME SyncInv, Severed, drops' \in 0..MaxDrops, interrupted' \in BOOLEAN
    PROVE  SyncInv'
<1> USE DEF Severed
<1>1. Low' = Low /\ Answered' = Answered
  BY DEF Low, Answered
<1>2. /\ Low \in Nat /\ putCounter \in Nat /\ Low <= putCounter
      /\ Len(replies') = 0 /\ Len(requests') = 0
  BY Numbers DEF SyncInv, PutInv, Top
<1>3. PutSyncTypeOK'
  <2>1. replies' \in Seq(Messages) /\ requests' \in Seq(1..MaxPuts)
    BY EmptySeq
  <2>2. QED
    BY <2>1, NothingAsked DEF SyncInv, PutSyncTypeOK, Messages, Kinds
<1>4. LinkInv' /\ AboutInv'
  BY <1>2 DEF LinkInv, AboutInv
<1>5. PutInv' /\ AckInv'
  BY <1>1, <1>2 DEF SyncInv, PutInv, AckInv, Top
<1>6. CountInv'
  <2>1. unacked' = 0 /\ loading' = None /\ replies' = <<>>
    OBVIOUS
  <2>2. /\ IsFiniteSet(Unanswered(loading')) /\ Cardinality(Unanswered(loading')) = 0
        /\ Cardinality(ListenReplies(replies')) = 0
    BY <2>1, NothingAsked
  <2>3. QED
    BY <2>1, <2>2 DEF CountInv, CountIsExact
<1>7. QED
  BY <1>3, <1>4, <1>5, <1>6 DEF SyncInv

-----------------------------------------------------------------------------
(* SyncInv, message by message.                                            *)

\* The authentication is answered first.
LEMMA WhenHandled ==
    ASSUME SyncInv, NEW kind, Handle(kind)
    PROVE  IF kind = "auth" THEN link = "authenticating" ELSE link = "connected"
<1>1. Len(replies) \in Nat /\ Len(replies) > 0 /\ replies[1].kind = kind
  BY HandlePops DEF SyncInv
<1>2. replies # <<>>
  BY DEF Handle
<1>3. link \in {"down", "authenticating", "connected"}
  BY DEF SyncInv, PutSyncTypeOK
<1>4. QED
  BY <1>1, <1>2, <1>3 DEF SyncInv, LinkInv, Sent

\* A message that is not the answer to a write leaves the writes alone.
LEMMA PopOther ==
    ASSUME SyncInv, NEW kind \in {"listen", "data", "revoked"}, Handle(kind),
           Low' = Low, Answered' = Answered,
           UNCHANGED <<link, putCounter, outstanding, requests, value, stored>>
    PROVE  LinkInv' /\ AboutInv' /\ PutInv' /\ AckInv'
<1>1. /\ Popped /\ Len(replies) \in Nat /\ Len(replies) > 0 /\ replies[1].kind = kind
  BY HandlePops DEF SyncInv
<1>2. link = "connected" /\ link' = "connected"
  BY WhenHandled
<1>3. \A i \in 1..Len(replies') : i + 1 \in 1..Len(replies) /\ replies'[i] = replies[i + 1]
  BY <1>1 DEF Popped
<1>4. LinkInv' /\ AboutInv' /\ AckInv'
  BY <1>2, <1>3 DEF SyncInv, LinkInv, AboutInv, AckInv
<1>5. Top' = Top
  BY DEF Top
<1>6. ASSUME NEW i \in 1..Len(replies'), NEW j \in 1..Len(replies'), i < j,
             replies'[i].kind = "put", replies'[j].kind = "put"
      PROVE  replies'[i].about < replies'[j].about
  <2>1. \A k, l \in 1..Len(replies) :
            replies[k].kind = "put" /\ replies[l].kind = "put" /\ k < l =>
                replies[k].about < replies[l].about
    BY DEF SyncInv, PutInv
  <2>2. /\ i + 1 \in 1..Len(replies) /\ replies'[i] = replies[i + 1]
        /\ j + 1 \in 1..Len(replies) /\ replies'[j] = replies[j + 1]
    BY <1>3
  <2>3. i + 1 < j + 1
    BY <1>6
  <2>4. QED
    BY <1>6, <2>1, <2>2, <2>3
<1>7. ASSUME NEW p \in Low + 1 .. Top
      PROVE  \E i \in 1..Len(replies') : replies'[i].kind = "put" /\ replies'[i].about = p
  <2>1. PICK i \in 1..Len(replies) : replies[i].kind = "put" /\ replies[i].about = p
    BY <1>2 DEF SyncInv, PutInv
  <2>2. i # 1
    BY <1>1, <2>1
  <2>3. i - 1 \in 1..Len(replies') /\ replies'[i - 1] = replies[i]
    BY <1>1, <2>2 DEF Popped
  <2>4. QED
    BY <2>1, <2>3
<1>8. \A i \in 1..Len(replies') :
          replies'[i].kind = "put" => replies'[i].about \in Low + 1 .. Top
  BY <1>3 DEF SyncInv, PutInv
<1>9. PutInv'
  <2>1. /\ Low <= Top /\ outstanding = Low + 1 .. putCounter
        /\ \A r \in Answered : r.put <= Low
        /\ \A i \in 1..Len(requests) : requests[i] = Top + i
    BY DEF SyncInv, PutInv
  <2>2. QED
    BY <1>5, <1>6, <1>7, <1>8, <2>1 DEF PutInv
<1>10. QED
  BY <1>4, <1>9

LEMMA OnDataUpdateInv ==
    ASSUME SyncInv, OnDataUpdate
    PROVE  SyncInv'
<1> USE DEF OnDataUpdate, server
<1>1. /\ Popped /\ Len(replies) \in Nat /\ Len(replies) > 0
      /\ Head(replies) = replies[1] /\ replies[1].kind = "data"
      /\ replies' \in Seq(Messages)
  BY HandlePops DEF SyncInv
<1>2. Low' = Low /\ Answered' = Answered
  BY DEF Low, Answered
<1>3. LinkInv' /\ AboutInv' /\ PutInv' /\ AckInv'
  BY <1>2, PopOther
<1>4. About \in 0..MaxPuts
  BY <1>1 DEF About, SyncInv, AboutInv
<1>5. PutSyncTypeOK'
  BY <1>1, <1>4 DEF SyncInv, PutSyncTypeOK, Messages, Kinds
<1>6. CountInv'
  <2>1. Cardinality(ListenReplies(replies)) = Cardinality(ListenReplies(replies'))
    BY <1>1, CountPopped DEF SyncInv
  <2>2. QED
    BY <2>1 DEF SyncInv, CountInv, CountIsExact
<1>7. QED
  BY <1>3, <1>5, <1>6 DEF SyncInv

LEMMA OnListenRevokedInv ==
    ASSUME SyncInv, OnListenRevoked
    PROVE  SyncInv'
<1> USE DEF OnListenRevoked, server
<1>1. /\ Popped /\ Len(replies) \in Nat /\ Len(replies) > 0
      /\ replies[1].kind = "revoked" /\ replies' \in Seq(Messages)
  BY HandlePops DEF SyncInv
<1>2. Low' = Low /\ Answered' = Answered
  BY DEF Low, Answered
<1>3. LinkInv' /\ AboutInv' /\ PutInv' /\ AckInv'
  BY <1>2, PopOther
<1>4. PutSyncTypeOK'
  BY <1>1 DEF SyncInv, PutSyncTypeOK, Messages, Kinds, Forget
<1>5. CountInv'
  <2>1. Cardinality(ListenReplies(replies)) = Cardinality(ListenReplies(replies'))
    BY <1>1, CountPopped DEF SyncInv
  <2>2. QED
    BY <2>1 DEF SyncInv, CountInv, CountIsExact
<1>6. QED
  BY <1>3, <1>4, <1>5 DEF SyncInv

LEMMA OnListenReplyInv ==
    ASSUME SyncInv, OnListenReply
    PROVE  SyncInv'
<1> USE DEF OnListenReply, server
<1>1. /\ Popped /\ Len(replies) \in Nat /\ Len(replies) > 0
      /\ replies[1].kind = "listen" /\ replies' \in Seq(Messages)
  BY HandlePops DEF SyncInv
<1>2. /\ reported' \in Seq(Results) /\ putsToAck' \in Seq(Results)
      /\ Low' = Low /\ Answered' = Answered
  <2>1. CASE AckPuts
    BY <2>1, AckPutsKeeps DEF SyncInv
  <2>2. CASE UNCHANGED <<reported, putsToAck>>
    BY <2>2 DEF Low, Answered, SyncInv, PutSyncTypeOK
  <2>3. QED
    BY <2>1, <2>2
<1>3. LinkInv' /\ AboutInv' /\ PutInv' /\ AckInv'
  BY <1>2, PopOther
<1>4. /\ Cardinality(ListenReplies(replies')) \in Nat
      /\ Cardinality(ListenReplies(replies)) = Cardinality(ListenReplies(replies')) + 1
      /\ Cardinality(Unanswered(loading)) \in Nat
  BY <1>1, CountPopped, FS_CardinalityType DEF SyncInv, CountInv
<1>5. unacked' \in Nat /\ CountInv'
  BY <1>4 DEF SyncInv, CountInv, CountIsExact
<1>6. listens' \subseteq opened' /\ cache' \in 0..MaxPuts \cup {NoData}
  BY DEF SyncInv, PutSyncTypeOK, Forget
<1>7. PutSyncTypeOK'
  BY <1>1, <1>2, <1>5, <1>6 DEF SyncInv, PutSyncTypeOK, Messages, Kinds
<1>8. QED
  BY <1>3, <1>5, <1>7 DEF SyncInv

LEMMA OnAuthenticatedInv ==
    ASSUME SyncInv, OnAuthenticated
    PROVE  SyncInv'
<1> USE DEF OnAuthenticated, server
<1>1. /\ Popped /\ Len(replies) \in Nat /\ Len(replies) > 0
      /\ replies[1].kind = "auth" /\ replies' \in Seq(Messages)
  BY HandlePops DEF SyncInv
<1>2. link = "authenticating" /\ link' = "connected" /\ requests = <<>>
  BY WhenHandled DEF SyncInv, LinkInv
<1>3. \A i \in 1..Len(replies') : i + 1 \in 1..Len(replies) /\ replies'[i] = replies[i + 1]
  BY <1>1 DEF Popped
<1>4. \A i \in 1..Len(replies') : replies'[i].kind \notin {"auth", "put"}
  BY <1>2, <1>3 DEF SyncInv, LinkInv
<1>5. /\ requests' \in Seq(1..MaxPuts) /\ Len(requests') = putCounter - Low
      /\ \A i \in 1..Len(requests') : requests'[i] = Low + i
      /\ loading' \in [Specs -> Nat] /\ IsFiniteSet(Unanswered(loading'))
      /\ Cardinality(listens) \in Nat /\ unacked' = unacked + Cardinality(listens)
      /\ Cardinality(Unanswered(loading')) =
            Cardinality(Unanswered(loading)) + Cardinality(listens)
  BY <1>2, Restores
<1>6. /\ Low' = Low /\ Answered' = Answered /\ Low \in Nat /\ putCounter \in Nat
      /\ Low <= putCounter
  BY <1>2, Numbers DEF Low, Answered, SyncInv, PutInv, Top
<1>7. Top' = Low
  BY <1>5, <1>6 DEF Top
<1>8. LinkInv' /\ AboutInv' /\ AckInv'
  BY <1>2, <1>3, <1>4, <1>6 DEF SyncInv, LinkInv, AboutInv, AckInv
<1>9. PutInv'
  BY <1>4, <1>5, <1>6, <1>7 DEF SyncInv, PutInv
<1>10. CountInv'
  <2>1. /\ Cardinality(ListenReplies(replies)) = Cardinality(ListenReplies(replies'))
        /\ Cardinality(ListenReplies(replies')) \in Nat
        /\ Cardinality(Unanswered(loading)) \in Nat
    BY <1>1, CountPopped, FS_CardinalityType DEF SyncInv, CountInv
  <2>2. QED
    BY <1>5, <2>1 DEF SyncInv, CountInv, CountIsExact
<1>11. PutSyncTypeOK'
  <2>1. unacked' \in Nat
    BY <1>5 DEF SyncInv, PutSyncTypeOK
  <2>2. QED
    BY <1>1, <1>2, <1>5, <2>1 DEF SyncInv, PutSyncTypeOK, Messages, Kinds
<1>12. QED
  BY <1>8, <1>9, <1>10, <1>11 DEF SyncInv

\* The answer to a write is the answer to the oldest one that has none.
LEMMA AnswersInOrder ==
    ASSUME SyncInv, Handle("put")
    PROVE  About = Low + 1 /\ About \in outstanding /\ Low + 1 <= Top /\ Result \in Results
<1>1. /\ Len(replies) \in Nat /\ Len(replies) > 0
      /\ Head(replies) = replies[1] /\ replies[1].kind = "put" /\ replies[1] \in Messages
  BY HandlePops DEF SyncInv
<1>2. link = "connected"
  BY WhenHandled
<1>3. /\ Low \in Nat /\ Top \in Int /\ Len(requests) \in Nat /\ putCounter \in Nat
      /\ putCounter <= MaxPuts /\ MaxPuts \in Nat
  BY Numbers DEF SyncInv, PutSyncTypeOK
<1>4. About = replies[1].about /\ About \in Low + 1 .. Top
  BY <1>1 DEF About, SyncInv, PutInv
<1>5. PICK i \in 1..Len(replies) : replies[i].kind = "put" /\ replies[i].about = Low + 1
  <2>1. \A p \in Low + 1 .. Top :
            \E i \in 1..Len(replies) : replies[i].kind = "put" /\ replies[i].about = p
    BY <1>2 DEF SyncInv, PutInv
  <2>2. Low + 1 \in Low + 1 .. Top
    BY <1>3, <1>4
  <2>3. QED
    BY <2>1, <2>2
<1>6. i > 1 => About < Low + 1
  <2>1. \A j, k \in 1..Len(replies) :
            replies[j].kind = "put" /\ replies[k].kind = "put" /\ j < k =>
                replies[j].about < replies[k].about
    BY DEF SyncInv, PutInv
  <2>2. 1 \in 1..Len(replies)
    BY <1>1
  <2>3. QED
    BY <1>1, <1>4, <1>5, <2>1, <2>2
<1>7. About = Low + 1
  BY <1>3, <1>4, <1>5, <1>6
<1>8. Low + 1 <= Top /\ Low + 1 \in Low + 1 .. putCounter /\ Low + 1 \in 1..MaxPuts
  BY <1>3, <1>4, <1>7 DEF Top
<1>9. QED
  BY <1>1, <1>7, <1>8 DEF SyncInv, PutInv, Result, Results, Messages

LEMMA OnPutReplyInv ==
    ASSUME SyncInv, OnPutReply
    PROVE  SyncInv'
<1> USE DEF OnPutReply, server
<1>1. /\ Popped /\ Len(replies) \in Nat /\ Len(replies) > 0 /\ Head(replies) = replies[1]
      /\ replies[1].kind = "put" /\ replies' \in Seq(Messages)
  BY HandlePops DEF SyncInv
<1>2. link = "connected" /\ link' = "connected"
  BY WhenHandled
<1>3. /\ About = Low + 1 /\ About \in outstanding /\ Low + 1 <= Top /\ Result \in Results
      /\ replies[1].about = Low + 1
  BY <1>1, AnswersInOrder DEF About
<1>4. /\ reported' \in Seq(Results) /\ putsToAck' \in Seq(Results)
      /\ Low' = Low + 1 /\ Answered' = Answered \cup {Result}
  BY <1>3, ResultAdded DEF SyncInv
<1>5. /\ Low \in Nat /\ Top \in Int /\ Top' = Top /\ \A r \in Answered : r.put \in Nat
  BY Numbers DEF SyncInv, Top
<1>6. \A i \in 1..Len(replies') : i + 1 \in 1..Len(replies) /\ replies'[i] = replies[i + 1]
  BY <1>1 DEF Popped
<1>7. LinkInv' /\ AboutInv'
  BY <1>2, <1>6 DEF SyncInv, LinkInv, AboutInv
<1>8. PutInv'
  <2>1. outstanding' = Low' + 1 .. putCounter'
    <3>1. outstanding = Low + 1 .. putCounter /\ outstanding' = outstanding \ {Low + 1}
      BY <1>3 DEF SyncInv, PutInv
    <3>2. putCounter \in Nat
      BY Numbers DEF SyncInv
    <3>3. QED
      BY <1>4, <1>5, <3>1, <3>2
  <2>2. \A r \in Answered' : r.put <= Low'
    BY <1>3, <1>4, <1>5 DEF SyncInv, PutInv, Result
  <2>3. \A i, j \in 1..Len(replies') :
            replies'[i].kind = "put" /\ replies'[j].kind = "put" /\ i < j =>
                replies'[i].about < replies'[j].about
    <3>1. \A i, j \in 1..Len(replies) :
              replies[i].kind = "put" /\ replies[j].kind = "put" /\ i < j =>
                  replies[i].about < replies[j].about
      BY DEF SyncInv, PutInv
    <3>2. ASSUME NEW i \in 1..Len(replies'), NEW j \in 1..Len(replies'), i < j,
                 replies'[i].kind = "put", replies'[j].kind = "put"
          PROVE  replies'[i].about < replies'[j].about
      <4>1. /\ i + 1 \in 1..Len(replies) /\ replies'[i] = replies[i + 1]
            /\ j + 1 \in 1..Len(replies) /\ replies'[j] = replies[j + 1]
        BY <1>6
      <4>2. i + 1 < j + 1
        BY <3>2
      <4>3. QED
        BY <3>1, <3>2, <4>1, <4>2
    <3>3. QED
      BY <3>2
  <2>4. ASSUME NEW i \in 1..Len(replies'), replies'[i].kind = "put"
        PROVE  replies'[i].about \in Low' + 1 .. Top'
    <3>1. /\ i + 1 \in 1..Len(replies) /\ replies'[i] = replies[i + 1] /\ 1 < i + 1
          /\ 1 \in 1..Len(replies)
      BY <1>1, <1>6
    <3>2. replies[i + 1].about \in Low + 1 .. Top /\ Low + 1 < replies[i + 1].about
      BY <1>1, <1>3, <2>4, <3>1 DEF SyncInv, PutInv
    <3>3. QED
      BY <1>4, <1>5, <3>1, <3>2
  <2>5. ASSUME NEW p \in Low' + 1 .. Top'
        PROVE  \E i \in 1..Len(replies') : replies'[i].kind = "put" /\ replies'[i].about = p
    <3>1. p \in Low + 1 .. Top /\ p # Low + 1
      BY <1>4, <1>5
    <3>2. PICK i \in 1..Len(replies) : replies[i].kind = "put" /\ replies[i].about = p
      BY <1>2, <3>1 DEF SyncInv, PutInv
    <3>3. i # 1
      BY <1>3, <3>1, <3>2
    <3>4. i - 1 \in 1..Len(replies') /\ replies'[i - 1] = replies[i]
      BY <1>1, <3>3 DEF Popped
    <3>5. QED
      BY <3>2, <3>4
  <2>6. /\ Low' <= Top' /\ \A i \in 1..Len(requests') : requests'[i] = Top' + i
    BY <1>3, <1>4, <1>5 DEF SyncInv, PutInv
  <2>7. QED
    BY <2>1, <2>2, <2>3, <2>4, <2>5, <2>6 DEF PutInv
<1>9. AckInv'
  <2>1. Result.ok => value >= Result.put /\ Result.put \in stored
    BY <1>1 DEF SyncInv, AckInv, Result, About
  <2>2. QED
    BY <1>4, <1>6, <2>1 DEF SyncInv, AckInv
<1>10. PutSyncTypeOK'
  BY <1>1, <1>4 DEF SyncInv, PutSyncTypeOK, Messages, Kinds
<1>11. CountInv'
  <2>1. Cardinality(ListenReplies(replies)) = Cardinality(ListenReplies(replies'))
    BY <1>1, CountPopped DEF SyncInv
  <2>2. QED
    BY <2>1 DEF SyncInv, CountInv, CountIsExact
<1>12. QED
  BY <1>7, <1>8, <1>9, <1>10, <1>11 DEF SyncInv

-----------------------------------------------------------------------------
(* SyncInv and the server.                                                 *)

\* The messages that are sent leave those on their way alone.
Grew ==
    /\ Len(replies') \in Nat /\ Len(replies') >= Len(replies)
    /\ \A i \in 1..Len(replies) : i \in 1..Len(replies') /\ replies'[i] = replies[i]

Fresh == 1..Len(replies') \ 1..Len(replies)

LEMMA Grows ==
    ASSUME PutSyncTypeOK, NEW d, NEW m
    PROVE  /\ Pushed(m) => Grew /\ Fresh = {Len(replies) + 1}
           /\ PushedBoth(d, m) => Grew /\ Fresh = {Len(replies) + 1, Len(replies) + 2}
<1>1. Len(replies) \in Nat
  BY TypedSeqs
<1>2. ASSUME Pushed(m) PROVE Grew /\ Fresh = {Len(replies) + 1}
  <2>1. Grew
    BY <1>1, <1>2 DEF Pushed, Grew
  <2>2. QED
    BY <1>1, <1>2, <2>1 DEF Pushed, Fresh
<1>3. ASSUME PushedBoth(d, m)
      PROVE  Grew /\ Fresh = {Len(replies) + 1, Len(replies) + 2}
  <2>1. Grew
    BY <1>1, <1>3 DEF PushedBoth, Grew
  <2>2. QED
    BY <1>1, <1>3, <2>1 DEF PushedBoth, Fresh
<1>4. QED
  BY <1>2, <1>3

LEMMA GrowOther ==
    ASSUME SyncInv, Grew, link = "connected" \/ Sent(1, "auth"),
           \A i \in Fresh :
              \/ replies'[i].kind = "data" /\ replies'[i].about \in 0..MaxPuts
              \/ replies'[i].kind \in {"listen", "revoked"} /\ replies'[i].about \in Specs,
           UNCHANGED <<link, authed, putCounter, outstanding, reported, putsToAck,
                       requests, value, stored>>
    PROVE  LinkInv' /\ AboutInv' /\ PutInv' /\ AckInv'
<1>1. \A i \in 1..Len(replies') :
          \/ i \in 1..Len(replies) /\ replies'[i] = replies[i]
          \/ i \in Fresh /\ replies'[i].kind \in {"data", "listen", "revoked"}
  BY DEF Grew, Fresh
<1>2. Low' = Low /\ Top' = Top /\ Answered' = Answered
  BY DEF Low, Top, Answered
<1>3. LinkInv'
  <2>1. \A i \in 1..Len(replies') :
            /\ replies'[i].kind = "auth" => i \in 1..Len(replies) /\ replies[i].kind = "auth"
            /\ replies'[i].kind = "put" => i \in 1..Len(replies) /\ replies[i].kind = "put"
    BY <1>1
  <2>2. Sent(1, "auth") => Sent(1, "auth")'
    BY DEF Sent, Grew
  <2>3. Len(replies) \in Nat /\ (Sent(1, "auth") => replies # <<>>)
    BY Numbers DEF SyncInv, Sent
  <2>4. link = "connected" \/ (link = "authenticating" /\ authed)
    BY <2>3 DEF SyncInv, PutSyncTypeOK, LinkInv, Sent
  <2>5. QED
    BY <2>1, <2>2, <2>4 DEF SyncInv, LinkInv
<1>4. AboutInv' /\ AckInv'
  BY <1>1, <1>2 DEF SyncInv, AboutInv, AckInv
<1>5. PutInv'
  <2>1. \A i \in 1..Len(replies') :
            replies'[i].kind = "put" => i \in 1..Len(replies) /\ replies'[i] = replies[i]
    BY <1>1
  <2>2. /\ \A i \in 1..Len(replies') :
              replies'[i].kind = "put" => replies'[i].about \in Low + 1 .. Top
        /\ \A i, j \in 1..Len(replies') :
              replies'[i].kind = "put" /\ replies'[j].kind = "put" /\ i < j =>
                  replies'[i].about < replies'[j].about
    BY <2>1 DEF SyncInv, PutInv
  <2>3. ASSUME link = "connected", NEW p \in Low + 1 .. Top
        PROVE  \E i \in 1..Len(replies') : replies'[i].kind = "put" /\ replies'[i].about = p
    <3>1. PICK i \in 1..Len(replies) : replies[i].kind = "put" /\ replies[i].about = p
      BY <2>3 DEF SyncInv, PutInv
    <3>2. QED
      BY <3>1 DEF Grew
  <2>4. /\ Low <= Top /\ outstanding = Low + 1 .. putCounter
        /\ \A r \in Answered : r.put <= Low
        /\ \A i \in 1..Len(requests) : requests[i] = Top + i
    BY DEF SyncInv, PutInv
  <2>5. QED
    BY <1>2, <2>2, <2>3, <2>4 DEF PutInv
<1>6. QED
  BY <1>3, <1>4, <1>5

LEMMA CountOther ==
    ASSUME SyncInv, NEW m, m.kind # "listen", replies' \in Seq(Messages),
           Pushed(m) \/ \E d : d.kind = "data" /\ PushedBoth(d, m)
    PROVE  Cardinality(ListenReplies(replies')) = Cardinality(ListenReplies(replies))
<1>1. PutSyncTypeOK /\ Cardinality(ListenReplies(replies)) \in Nat
  BY ListenRepliesFinite DEF SyncInv
<1>2. Cardinality(ListenReplies(replies')) =
         Cardinality(ListenReplies(replies)) + IF m.kind = "listen" THEN 1 ELSE 0
  BY <1>1, CountPushed, CountPushedBoth, Zenon
<1>3. QED
  BY <1>1, <1>2

LEMMA AuthenticateInv ==
    ASSUME SyncInv, Authenticate
    PROVE  SyncInv'
<1> USE DEF Authenticate, client
<1> DEFINE m == Message("auth", 0, TRUE)
<1>1. m \in Messages /\ m.kind = "auth"
  BY PutSyncAssumption DEF Message, Messages, Kinds
<1>2. Pushed(m) /\ replies' \in Seq(Messages)
  BY <1>1, PushOne DEF SyncInv
<1> HIDE DEF m
<1>3. replies = <<>> /\ Len(replies) = 0 /\ requests = <<>>
  BY DEF SyncInv, LinkInv
<1>4. Len(replies') = 1 /\ replies'[1].kind = "auth"
  <2>1. Len(replies') = Len(replies) + 1 /\ replies'[Len(replies) + 1] = m
    BY <1>2 DEF Pushed
  <2>2. Len(replies) + 1 = 1
    BY <1>3
  <2>3. QED
    BY <1>1, <2>1, <2>2
<1>5. \A i \in 1..Len(replies') : i = 1
  BY <1>4
<1>6. Low' = Low /\ Top' = Top /\ Answered' = Answered
  BY DEF Low, Top, Answered
<1>7. LinkInv'
  <2>1. link' = "authenticating" /\ authed' /\ requests' = <<>>
    BY <1>3
  <2>2. \A i \in 1..Len(replies') : replies'[i].kind = "auth"
    <3> SUFFICES ASSUME NEW i \in 1..Len(replies') PROVE replies'[i].kind = "auth"
      OBVIOUS
    <3>1. i = 1
      BY <1>5
    <3>2. QED
      BY <1>4, <3>1
  <2>3. Sent(1, "auth")'
    <3>1. 1 \in 1..Len(replies')
      BY <1>4
    <3>2. QED
      BY <1>4, <3>1 DEF Sent
  <2>4. QED
    BY <1>5, <2>1, <2>2, <2>3 DEF LinkInv
<1>8. AboutInv' /\ AckInv' /\ PutInv'
  BY <1>4, <1>5, <1>6 DEF SyncInv, AboutInv, AckInv, PutInv
<1>9. CountInv'
  <2>1. Cardinality(ListenReplies(replies')) = Cardinality(ListenReplies(replies))
    BY <1>1, <1>2, CountOther
  <2>2. QED
    BY <2>1 DEF SyncInv, CountInv, CountIsExact
<1>10. PutSyncTypeOK'
  BY <1>2 DEF SyncInv, PutSyncTypeOK, Messages, Kinds
<1>11. QED
  BY <1>7, <1>8, <1>9, <1>10 DEF SyncInv

\* The server answers the next write: what storing and refusing have in common.
LEMMA AnswerPut ==
    ASSUME SyncInv, requests # <<>>, requests' = Tail(requests), Grew,
           NEW n, n \in Fresh, replies'[n].kind = "put", replies'[n].about = Head(requests),
           \A i \in Fresh : i = n \/ (i < n /\ replies'[i].kind = "data"),
           UNCHANGED <<link, client, loading, authed>>
    PROVE  /\ link = "connected" /\ Head(requests) = Top + 1 /\ Top + 1 \in 1..MaxPuts
           /\ requests' \in Seq(1..MaxPuts)
           /\ LinkInv' /\ PutInv'
<1>1. /\ link = "connected" /\ requests \in Seq(1..MaxPuts)
  BY DEF SyncInv, LinkInv, PutSyncTypeOK
<1>2. /\ requests' \in Seq(1..MaxPuts) /\ Len(requests') = Len(requests) - 1
      /\ \A i \in 1..Len(requests') : requests'[i] = requests[i + 1]
      /\ Len(requests) \in Nat \ {0} /\ Head(requests) = requests[1]
      /\ Head(requests) \in 1..MaxPuts
  <2>1. Len(requests) \in Nat \ {0}
    BY <1>1, EmptySeq
  <2>2. Head(requests) = requests[1]
    BY <1>1
  <2>3. /\ Head(requests) \in 1..MaxPuts
        /\ Tail(requests) \in Seq(1..MaxPuts) /\ Len(Tail(requests)) = Len(requests) - 1
        /\ \A i \in 1..Len(Tail(requests)) : Tail(requests)[i] = requests[i + 1]
    BY <1>1, HeadTailProperties
  <2>4. QED
    BY <2>1, <2>2, <2>3
<1>3. /\ Low \in Nat /\ Top \in Int /\ putCounter \in Nat /\ Len(replies) \in Nat
  BY Numbers DEF SyncInv
<1>4. Head(requests) = Top + 1
  BY <1>2 DEF SyncInv, PutInv
<1>5. Low' = Low /\ Top' = Top + 1 /\ Answered' = Answered
  BY <1>2, <1>3 DEF Low, Top, Answered, client
<1>6. \A i \in 1..Len(replies') :
          \/ i \in 1..Len(replies) /\ replies'[i] = replies[i]
          \/ i = n /\ i > Len(replies)
          \/ replies'[i].kind = "data"
  BY <1>3 DEF Grew, Fresh
<1>7. LinkInv'
  <2>1. \A i \in 1..Len(replies) : replies[i].kind # "auth"
    BY <1>1 DEF SyncInv, LinkInv
  <2>2. \A i \in 1..Len(replies') : replies'[i].kind # "auth"
    BY <1>6, <2>1
  <2>3. QED
    BY <1>1, <2>2 DEF LinkInv
<1>8. \A i \in 1..Len(replies') : replies'[i].kind = "put" =>
          \/ i \in 1..Len(replies) /\ replies'[i] = replies[i] /\ replies[i].about \in Low + 1 .. Top
          \/ i = n /\ i > Len(replies) /\ replies'[i].about = Top + 1
  <2>1. \A i \in 1..Len(replies) :
            replies[i].kind = "put" => replies[i].about \in Low + 1 .. Top
    BY DEF SyncInv, PutInv
  <2>2. QED
    BY <1>4, <1>6, <2>1
<1>9. Low <= Top
  BY DEF SyncInv, PutInv
<1>10. \A i \in 1..Len(replies') :
          replies'[i].kind = "put" => replies'[i].about \in Low + 1 .. Top + 1
  BY <1>3, <1>8, <1>9
<1>11. ASSUME NEW i \in 1..Len(replies'), NEW j \in 1..Len(replies'),
              replies'[i].kind = "put", replies'[j].kind = "put", i < j
       PROVE  replies'[i].about < replies'[j].about
  <2>1. CASE j \in 1..Len(replies) /\ replies'[j] = replies[j]
    <3>1. i \in 1..Len(replies) /\ replies'[i] = replies[i]
      BY <1>3, <1>11, <2>1 DEF Grew
    <3>2. QED
      BY <1>11, <2>1, <3>1 DEF SyncInv, PutInv
  <2>2. CASE j = n /\ j > Len(replies) /\ replies'[j].about = Top + 1
    <3>1. replies'[i].about \in Low + 1 .. Top
      BY <1>8, <1>11, <2>2
    <3>2. QED
      BY <1>3, <2>2, <3>1
  <2>3. QED
    BY <1>8, <1>11, <2>1, <2>2
<1>12. ASSUME NEW p \in Low + 1 .. Top + 1
       PROVE  \E i \in 1..Len(replies') : replies'[i].kind = "put" /\ replies'[i].about = p
  <2>1. CASE p = Top + 1
    BY <1>4, <2>1 DEF Fresh
  <2>2. CASE p # Top + 1
    <3>1. p \in Low + 1 .. Top
      BY <1>3, <2>2
    <3>2. \A q \in Low + 1 .. Top :
              \E i \in 1..Len(replies) : replies[i].kind = "put" /\ replies[i].about = q
      BY <1>1 DEF SyncInv, PutInv
    <3>3. PICK i \in 1..Len(replies) : replies[i].kind = "put" /\ replies[i].about = p
      BY <3>1, <3>2
    <3>4. QED
      BY <3>3 DEF Grew
  <2>3. QED
    BY <2>1, <2>2
<1>13. \A i \in 1..Len(requests') : requests'[i] = Top' + i
  <2>1. \A i \in 1..Len(requests) : requests[i] = Top + i
    BY DEF SyncInv, PutInv
  <2>2. \A i \in 1..Len(requests') : i + 1 \in 1..Len(requests) /\ requests'[i] = requests[i + 1]
    BY <1>2
  <2>3. QED
    BY <1>3, <1>5, <2>1, <2>2
<1>14. PutInv'
  <2>1. /\ outstanding' = Low' + 1 .. putCounter' /\ \A r \in Answered' : r.put <= Low'
    BY <1>5 DEF SyncInv, PutInv, client
  <2>2. Low' <= Top'
    BY <1>3, <1>5, <1>9
  <2>3. QED
    BY <1>5, <1>10, <1>11, <1>12, <1>13, <2>1, <2>2 DEF PutInv
<1>15. QED
  BY <1>1, <1>2, <1>4, <1>7, <1>14

LEMMA PutMessage ==
    ASSUME SyncInv, requests # <<>>, NEW ok \in BOOLEAN, NEW kind \in Kinds
    PROVE  Message(kind, Head(requests), ok) \in Messages
<1>1. Head(requests) \in 1..MaxPuts
  BY HeadTailProperties DEF SyncInv, PutSyncTypeOK
<1>2. QED
  BY <1>1, PutSyncAssumption DEF Message, Messages

LEMMA ServePutInv ==
    ASSUME SyncInv, ServePut
    PROVE  SyncInv'
<1> USE DEF ServePut
<1> DEFINE p == Head(requests)
           d == Message("data", p, TRUE)
           m == Message("put", p, TRUE)
           push == IF active \cap ListSpecs # {} THEN <<d>> ELSE <<>>
<1>1. /\ m \in Messages /\ m.kind = "put" /\ m.about = p /\ m.ok
      /\ d \in Messages /\ d.kind = "data" /\ d.about = p
  BY PutMessage DEF Kinds, Message
<1>2. replies' = replies \o push \o <<m>>
  OBVIOUS
<1> HIDE DEF d, m
<1>3. /\ replies' \in Seq(Messages)
      /\ IF active \cap ListSpecs # {} THEN PushedBoth(d, m) ELSE Pushed(m)
  BY <1>1, <1>2, PushAfter DEF SyncInv
<1>4. Len(replies) \in Nat
  BY Numbers DEF SyncInv
<1>5. PICK n \in Fresh : /\ Grew /\ replies'[n] = m
                         /\ \A i \in Fresh : i = n \/ (i < n /\ replies'[i] = d)
  <2>1. CASE active \cap ListSpecs # {}
    <3>1. /\ Grew /\ Fresh = {Len(replies) + 1, Len(replies) + 2}
          /\ replies'[Len(replies) + 1] = d /\ replies'[Len(replies) + 2] = m
      BY <1>3, <2>1, Grows DEF SyncInv, PushedBoth
    <3>2. Len(replies) + 2 \in Fresh /\ Len(replies) + 1 < Len(replies) + 2
      BY <1>4, <3>1
    <3>3. \A i \in Fresh : i = Len(replies) + 2 \/ (i < Len(replies) + 2 /\ replies'[i] = d)
      BY <3>1, <3>2
    <3>4. QED
      BY <3>1, <3>2, <3>3
  <2>2. CASE active \cap ListSpecs = {}
    <3>1. Grew /\ Fresh = {Len(replies) + 1} /\ replies'[Len(replies) + 1] = m
      BY <1>3, <2>2, Grows DEF SyncInv, Pushed
    <3>2. QED
      BY <3>1
  <2>3. QED
    BY <2>1, <2>2
<1>6. /\ link = "connected" /\ p = Top + 1 /\ Top + 1 \in 1..MaxPuts
      /\ requests' \in Seq(1..MaxPuts) /\ LinkInv' /\ PutInv'
  <2>1. replies'[n].kind = "put" /\ replies'[n].about = p
        /\ \A i \in Fresh : i = n \/ (i < n /\ replies'[i].kind = "data")
    BY <1>1, <1>5
  <2>2. requests # <<>> /\ requests' = Tail(requests)
        /\ UNCHANGED <<link, client, loading, authed>>
    OBVIOUS
  <2>3. QED
    BY <1>5, <2>1, <2>2, AnswerPut
<1>7. \A i \in 1..Len(replies') :
          \/ i \in 1..Len(replies) /\ replies'[i] = replies[i]
          \/ replies'[i] \in {d, m}
  BY <1>5 DEF Grew, Fresh
<1>8. AboutInv'
  <2>1. d.about \in 0..MaxPuts
    BY <1>1, <1>6
  <2>2. \A i \in 1..Len(replies) :
            /\ replies[i].kind = "data" => replies[i].about \in 0..MaxPuts
            /\ replies[i].kind \in {"listen", "revoked"} => replies[i].about \in Specs
    BY DEF SyncInv, AboutInv
  <2>3. ASSUME NEW i \in 1..Len(replies')
        PROVE  /\ replies'[i].kind = "data" => replies'[i].about \in 0..MaxPuts
               /\ replies'[i].kind \in {"listen", "revoked"} => replies'[i].about \in Specs
    <3>1. CASE i \in 1..Len(replies) /\ replies'[i] = replies[i]
      BY <2>2, <3>1
    <3>2. CASE replies'[i] \in {d, m}
      BY <1>1, <2>1, <3>2
    <3>3. QED
      BY <1>7, <3>1, <3>2
  <2>4. QED
    BY <2>3 DEF AboutInv
<1>9. AckInv'
  <2>1. /\ Answered' = Answered /\ value' = Top + 1 /\ stored \subseteq stored' /\ Top + 1 \in stored'
        /\ Low \in Nat /\ Top \in Int /\ Low <= Top /\ \A r \in Answered : r.put \in Nat
    BY <1>6, Numbers DEF Answered, client, SyncInv, PutInv
  <2>2. \A r \in Answered : r.ok => value' >= r.put /\ r.put \in stored'
    BY <2>1 DEF SyncInv, PutInv, AckInv
  <2>3. ASSUME NEW i \in 1..Len(replies'), replies'[i].kind = "put", replies'[i].ok
        PROVE  value' >= replies'[i].about /\ replies'[i].about \in stored'
    <3>1. CASE i \in 1..Len(replies) /\ replies'[i] = replies[i]
      <4>1. replies[i].about \in Low + 1 .. Top /\ replies[i].about \in stored
        BY <2>3, <3>1 DEF SyncInv, PutInv, AckInv
      <4>2. QED
        BY <2>1, <3>1, <4>1
    <3>2. CASE replies'[i] = m
      BY <1>1, <1>6, <2>1, <3>2
    <3>3. QED
      BY <1>1, <1>7, <2>3, <3>1, <3>2
  <2>4. QED
    BY <2>1, <2>2, <2>3 DEF AckInv
<1>10. CountInv'
  <2>1. Cardinality(ListenReplies(replies')) = Cardinality(ListenReplies(replies))
    <3>1. CASE active \cap ListSpecs # {}
      BY <1>1, <1>3, <3>1, CountOther
    <3>2. CASE active \cap ListSpecs = {}
      BY <1>1, <1>3, <3>2, CountOther
    <3>3. QED
      BY <3>1, <3>2
  <2>2. QED
    BY <2>1 DEF SyncInv, CountInv, CountIsExact, client
<1>11. PutSyncTypeOK'
  <2>1. value' \in 0..MaxPuts /\ stored' \subseteq 1..MaxPuts
    <3>1. p \in 1..MaxPuts /\ p \in 0..MaxPuts
      BY <1>6
    <3>2. value' = p /\ stored' = stored \cup {p}
      OBVIOUS
    <3>3. QED
      BY <3>1, <3>2 DEF SyncInv, PutSyncTypeOK
  <2>2. QED
    BY <1>3, <1>6, <2>1 DEF SyncInv, PutSyncTypeOK, Messages, Kinds, client
<1>12. QED
  BY <1>6, <1>8, <1>9, <1>10, <1>11 DEF SyncInv

LEMMA RefusePutInv ==
    ASSUME SyncInv, RefusePut
    PROVE  SyncInv'
<1> USE DEF RefusePut, server
<1> DEFINE p == Head(requests)
           m == Message("put", p, FALSE)
<1>1. m \in Messages /\ m.kind = "put" /\ m.about = p /\ m.ok = FALSE
  BY PutMessage DEF Kinds, Message
<1>2. replies' = Append(replies, m)
  OBVIOUS
<1> HIDE DEF m
<1>3. Pushed(m) /\ replies' \in Seq(Messages)
  BY <1>1, <1>2, PushOne DEF SyncInv
<1>4. Grew /\ Fresh = {Len(replies) + 1} /\ replies'[Len(replies) + 1] = m
  BY <1>3, Grows DEF SyncInv, Pushed
<1>5. requests' \in Seq(1..MaxPuts) /\ LinkInv' /\ PutInv'
  BY <1>1, <1>4, AnswerPut
<1>6. \A i \in 1..Len(replies') :
          \/ i \in 1..Len(replies) /\ replies'[i] = replies[i]
          \/ replies'[i] = m
  BY <1>4 DEF Grew, Fresh
<1>7. AboutInv' /\ AckInv'
  <2>1. Answered' = Answered /\ value' = value /\ stored' = stored
    BY DEF Answered, client
  <2>2. QED
    BY <1>1, <1>6, <2>1 DEF SyncInv, AboutInv, AckInv
<1>8. CountInv'
  <2>1. Cardinality(ListenReplies(replies')) = Cardinality(ListenReplies(replies))
    BY <1>1, <1>3, CountOther
  <2>2. QED
    BY <2>1 DEF SyncInv, CountInv, CountIsExact, client
<1>9. PutSyncTypeOK'
  BY <1>3, <1>5 DEF SyncInv, PutSyncTypeOK, Messages, Kinds, client
<1>10. QED
  BY <1>5, <1>7, <1>8, <1>9 DEF SyncInv

\* The server answers a listen: what granting and denying have in common.
LEMMA AnswerListen ==
    ASSUME SyncInv, authed, NEW s \in Specs, loading[s] > 0,
           loading' = [loading EXCEPT ![s] = @ - 1],
           NEW m, m.kind = "listen", replies' \in Seq(Messages),
           Pushed(m) \/ \E d : d.kind = "data" /\ PushedBoth(d, m),
           UNCHANGED <<unacked>>
    PROVE  /\ link = "connected" \/ Sent(1, "auth")
           /\ loading' \in [Specs -> Nat] /\ CountInv'
<1>1. loading \in [Specs -> Nat] /\ link \in {"down", "authenticating", "connected"}
  BY DEF SyncInv, PutSyncTypeOK
<1>2. link # "down"
  BY <1>1 DEF SyncInv, LinkInv, None
<1>3. link = "connected" \/ Sent(1, "auth")
  BY <1>1, <1>2 DEF SyncInv, LinkInv
<1>4. loading' \in [Specs -> Nat] /\ loading' = [loading EXCEPT ![s] = loading[s] - 1]
  BY <1>1
<1>5. /\ IsFiniteSet(Unanswered(loading')) /\ IsFiniteSet(Unanswered(loading))
      /\ Cardinality(Unanswered(loading)) = Cardinality(Unanswered(loading')) + 1
  BY <1>1, <1>4, AnsweredOnce DEF SyncInv, CountInv
<1>6. /\ Cardinality(Unanswered(loading')) \in Nat
      /\ Cardinality(Unanswered(loading)) \in Nat
  BY <1>5, FS_CardinalityType
<1>7. PutSyncTypeOK /\ Cardinality(ListenReplies(replies)) \in Nat
  BY ListenRepliesFinite DEF SyncInv
<1>8. Cardinality(ListenReplies(replies')) =
         Cardinality(ListenReplies(replies)) + IF m.kind = "listen" THEN 1 ELSE 0
  BY <1>7, CountPushed, CountPushedBoth, Zenon
<1>9. CountIsExact
  BY DEF SyncInv, CountInv
<1>10. CountIsExact'
  BY <1>5, <1>6, <1>7, <1>8, <1>9 DEF CountIsExact
<1>11. QED
  BY <1>3, <1>4, <1>5, <1>10 DEF CountInv

LEMMA ServeListenInv ==
    ASSUME SyncInv, NEW s \in Specs, ServeListen(s)
    PROVE  SyncInv'
<1> USE DEF ServeListen
<1> DEFINE d == Message("data", value, TRUE)
           m == Message("listen", s, TRUE)
           data == IF s \in ListSpecs THEN <<d>> ELSE <<>>
<1>1. /\ m \in Messages /\ m.kind = "listen" /\ m.about = s
      /\ d \in Messages /\ d.kind = "data" /\ d.about = value /\ value \in 0..MaxPuts
  BY DEF Kinds, Message, Messages, SyncInv, PutSyncTypeOK
<1>2. replies' = replies \o data \o <<m>>
  OBVIOUS
<1> HIDE DEF d, m
<1>3. /\ replies' \in Seq(Messages)
      /\ IF s \in ListSpecs THEN PushedBoth(d, m) ELSE Pushed(m)
  BY <1>1, <1>2, PushAfter DEF SyncInv
<1>4. Grew /\ \A i \in Fresh : replies'[i] \in {d, m}
  BY <1>3, Grows DEF SyncInv, Pushed, PushedBoth
<1>5. UNCHANGED unacked
  BY DEF client
<1>6. /\ link = "connected" \/ Sent(1, "auth")
      /\ loading' \in [Specs -> Nat] /\ CountInv'
  BY <1>1, <1>3, <1>5, AnswerListen
<1>7. LinkInv' /\ AboutInv' /\ PutInv' /\ AckInv'
  BY <1>1, <1>4, <1>6, GrowOther DEF client
<1>8. PutSyncTypeOK'
  BY <1>3, <1>6 DEF SyncInv, PutSyncTypeOK, Messages, Kinds, client
<1>9. QED
  BY <1>6, <1>7, <1>8 DEF SyncInv

LEMMA DenyListenInv ==
    ASSUME SyncInv, NEW s \in Specs, DenyListen(s)
    PROVE  SyncInv'
<1> USE DEF DenyListen
<1> DEFINE m == Message("listen", s, FALSE)
<1>1. m \in Messages /\ m.kind = "listen" /\ m.about = s
  BY DEF Kinds, Message, Messages
<1>2. replies' = Append(replies, m)
  OBVIOUS
<1> HIDE DEF m
<1>3. Pushed(m) /\ replies' \in Seq(Messages)
  BY <1>1, <1>2, PushOne DEF SyncInv
<1>4. Grew /\ \A i \in Fresh : replies'[i] = m
  BY <1>3, Grows DEF SyncInv, Pushed
<1>5. UNCHANGED unacked
  BY DEF client
<1>6. /\ link = "connected" \/ Sent(1, "auth")
      /\ loading' \in [Specs -> Nat] /\ CountInv'
  BY <1>1, <1>3, <1>5, AnswerListen
<1>7. LinkInv' /\ AboutInv' /\ PutInv' /\ AckInv'
  BY <1>1, <1>4, <1>6, GrowOther DEF client
<1>8. denials' \in 0..MaxDenials
  BY PutSyncAssumption DEF SyncInv, PutSyncTypeOK
<1>9. PutSyncTypeOK'
  BY <1>3, <1>6, <1>8 DEF SyncInv, PutSyncTypeOK, Messages, Kinds, client
<1>10. QED
  BY <1>6, <1>7, <1>9 DEF SyncInv

LEMMA RevokeListenInv ==
    ASSUME SyncInv, NEW s \in Specs, RevokeListen(s)
    PROVE  SyncInv'
<1> USE DEF RevokeListen
<1> DEFINE m == Message("revoked", s, TRUE)
<1>1. m \in Messages /\ m.kind = "revoked" /\ m.about = s
  BY DEF Kinds, Message, Messages
<1>2. replies' = Append(replies, m)
  OBVIOUS
<1> HIDE DEF m
<1>3. Pushed(m) /\ replies' \in Seq(Messages)
  BY <1>1, <1>2, PushOne DEF SyncInv
<1>4. Grew /\ \A i \in Fresh : replies'[i] = m
  BY <1>3, Grows DEF SyncInv, Pushed
<1>5. link = "connected" \/ Sent(1, "auth")
  BY DEF SyncInv, PutSyncTypeOK, LinkInv
<1>6. LinkInv' /\ AboutInv' /\ PutInv' /\ AckInv'
  BY <1>1, <1>4, <1>5, GrowOther DEF client
<1>7. CountInv'
  <2>1. Cardinality(ListenReplies(replies')) = Cardinality(ListenReplies(replies))
    BY <1>1, <1>3, CountOther
  <2>2. QED
    BY <2>1 DEF SyncInv, CountInv, CountIsExact, client
<1>8. denials' \in 0..MaxDenials
  BY PutSyncAssumption DEF SyncInv, PutSyncTypeOK
<1>9. PutSyncTypeOK'
  BY <1>3, <1>8 DEF SyncInv, PutSyncTypeOK, Messages, Kinds, client
<1>10. QED
  BY <1>6, <1>7, <1>9 DEF SyncInv

-----------------------------------------------------------------------------
LEMMA SyncInvInit == Init => SyncInv
<1> SUFFICES ASSUME Init PROVE SyncInv
  OBVIOUS
<1>0. /\ putsToAck = <<>> /\ reported = <<>> /\ requests = <<>> /\ replies = <<>>
      /\ putCounter = 0 /\ outstanding = {} /\ loading = None /\ unacked = 0
  BY DEF Init
<1>1. PutSyncTypeOK
  <2>1. \A S : <<>> \in Seq(S)
    OBVIOUS
  <2>2. 0 \in 0..MaxPuts /\ 0 \in 0..MaxDrops /\ 0 \in 0..MaxDenials
    BY PutSyncAssumption
  <2>3. None \in [Specs -> Nat]
    BY NothingAsked
  <2> HIDE DEF None
  <2>4. QED
    BY <2>1, <2>2, <2>3 DEF Init, PutSyncTypeOK
<1>2. Low = 0 /\ Top = 0 /\ Answered = {}
  <2>1. Answered = {}
    BY <1>0, <1>1, AnsweredIs DEF PutSyncTypeOK
  <2>2. /\ Len(reported) = 0 /\ Len(putsToAck) = 0 /\ Len(requests) = 0
    BY <1>0
  <2>3. Low = 0 + 0 /\ Top = 0 - 0
    BY <1>0, <2>2 DEF Low, Top
  <2>4. QED
    BY <2>1, <2>3
<1>3. LinkInv /\ AboutInv
  BY DEF Init, LinkInv, AboutInv
<1>4. PutInv /\ AckInv
  BY <1>0, <1>2 DEF Init, PutInv, AckInv
<1>5. CountInv
  <2>1. Unanswered(loading) = {} /\ ListenReplies(replies) = {}
    BY <1>0, NothingAsked
  <2>2. /\ IsFiniteSet(Unanswered(loading)) /\ Cardinality(Unanswered(loading)) = 0
        /\ Cardinality(ListenReplies(replies)) = 0
    BY <2>1, NothingAsked, Zenon
  <2>3. QED
    BY <1>0, <2>2 DEF CountInv, CountIsExact
<1>6. QED
  BY <1>1, <1>3, <1>4, <1>5 DEF SyncInv

LEMMA SyncInvStutters ==
    ASSUME SyncInv, UNCHANGED vars
    PROVE  SyncInv'
<1> USE DEF vars, client, wire, server
<1>1. Low' = Low /\ Top' = Top /\ Answered' = Answered
  BY DEF Low, Top, Answered
<1>2. PutSyncTypeOK' /\ LinkInv' /\ AboutInv'
  BY DEF SyncInv, PutSyncTypeOK, LinkInv, AboutInv, Sent
<1>3. PutInv' /\ AckInv'
  BY <1>1 DEF SyncInv, PutInv, AckInv
<1>4. CountInv'
  BY DEF SyncInv, CountInv, CountIsExact
<1>5. QED
  BY <1>2, <1>3, <1>4 DEF SyncInv

LEMMA SyncInvStep == SyncInv /\ [Next]_vars => SyncInv'
<1> SUFFICES ASSUME SyncInv, [Next]_vars PROVE SyncInv'
  OBVIOUS
<1>1. CASE UNCHANGED vars
  BY <1>1, SyncInvStutters
<1>2. CASE PutInternal
  BY <1>2, PutInternalInv
<1>3. CASE \E s \in Specs : Listen(s)
  BY <1>3, ListenInv
<1>4. CASE \E token \in BOOLEAN : OnReady(token)
  BY <1>4, OnReadyInv
<1>5. CASE OnDisconnect \/ OnKill
  <2>1. Severed
    BY <1>5 DEF OnDisconnect, OnKill
  <2>2. drops' \in 0..MaxDrops
    BY <1>5, PutSyncAssumption DEF SyncInv, PutSyncTypeOK, OnDisconnect, OnKill
  <2>3. interrupted' \in BOOLEAN
    BY <1>5, Zenon DEF SyncInv, PutSyncTypeOK, OnDisconnect, OnKill
  <2>4. QED
    BY <2>1, <2>2, <2>3, SeveredInv
<1>6. CASE OnMessage
  BY <1>6, OnAuthenticatedInv, OnPutReplyInv, OnListenReplyInv, OnDataUpdateInv,
     OnListenRevokedInv DEF OnMessage
<1>7. CASE Authenticate \/ ServePut \/ RefusePut
  BY <1>7, AuthenticateInv, ServePutInv, RefusePutInv
<1>8. CASE \E s \in Specs : ServeListen(s) \/ DenyListen(s) \/ RevokeListen(s)
  BY <1>8, ServeListenInv, DenyListenInv, RevokeListenInv
<1>9. QED
  BY <1>1, <1>2, <1>3, <1>4, <1>5, <1>6, <1>7, <1>8 DEF Next

\* What holds of the client and its connection whatever the server grants.
THEOREM SyncInvariant == Spec => []SyncInv
  BY SyncInvInit, SyncInvStep, PTL DEF Spec

\* The queues, counts and messages of the client stay well formed: in
\* particular unackedListensCount never goes below zero.
THEOREM PutSyncTypeCorrect == Spec => []PutSyncTypeOK
<1>1. SyncInv => PutSyncTypeOK
  BY DEF SyncInv
<1>2. QED
  BY <1>1, SyncInvariant, PTL

\* sendListen and onDisconnect keep unackedListensCount exact: one for every
\* listen the server has not answered and every answer not yet handled.
THEOREM CountsAreExact == Spec => []CountIsExact
<1>1. SyncInv => CountIsExact
  BY DEF SyncInv, CountInv
<1>2. QED
  BY <1>1, SyncInvariant, PTL

\* restoreState sends unanswered writes again after a broken connection, and
\* no write the server has acknowledged is ever replaced by an older one.
THEOREM AcksStay == Spec => []AckedStays
<1>1. SyncInv => AckedStays
  BY DEF SyncInv, AckInv, AckedStays
<1>2. QED
  BY <1>1, SyncInvariant, PTL

-----------------------------------------------------------------------------
(* Before the first denial.                                                *)

ListWanted == listens \cap ListSpecs # {}
ListAsked  == \E s \in ListSpecs : loading[s] > 0
Later(j)   == \E k \in 1..Len(replies) : k > j /\ ListReply(k)

\* The client knows something of the directory, and nothing older than rs.
Covers(v, rs) == v # NoData /\ \A r \in rs : r.ok => v >= r.put

ListInv ==
    /\ \A s \in Specs : loading[s] > 0 \/ s \in active => s \in listens
    /\ \A i \in 1..Len(replies) :
          /\ replies[i].kind # "revoked"
          /\ replies[i].kind = "listen" => replies[i].ok /\ replies[i].about \in listens
          /\ replies[i].kind = "data" => ListWanted
    /\ ~ListWanted => cache = NoData
    /\ link = "connected" => \A s \in listens : s \in active \/ loading[s] > 0

OrderInv ==
    /\ \A i \in 1..Len(reported) : reported[i].put = i
    /\ \A i \in 1..Len(putsToAck) : putsToAck[i].put = Len(reported) + i
    /\ putsToAck # <<>> => listens # {} /\ (link = "connected" => unacked > 0)

\* Data on its way is as new as every success that was reported or is ahead.
DataOK(i) ==
    replies[i].kind = "data" =>
        /\ Covers(replies[i].about, Answered)
        /\ \A j \in 1..Len(replies) : j < i /\ replies[j].kind = "put" /\ replies[j].ok =>
              replies[i].about >= replies[j].about

\* The answer to a listen comes right after the data.
ListOK(k) ==
    ListReply(k) => IF k = 1 THEN Covers(cache, Answered) ELSE replies[k - 1].kind = "data"

FollowsData(j) ==
    IF j = 1 THEN cache = replies[j].about
    ELSE replies[j - 1].kind = "data" /\ replies[j - 1].about = replies[j].about

\* A success comes right after its data, or a list is still to be loaded.
PutOK(j) ==
    replies[j].kind = "put" /\ replies[j].ok => ListAsked \/ Later(j) \/ FollowsData(j)

ViewInv ==
    /\ link = "connected" /\ ListWanted => ListAsked \/ Later(0) \/ Covers(cache, Answered)
    /\ cache # NoData => Covers(cache, Range(reported))

DataInv == \A i \in 1..Len(replies) : DataOK(i)
ListReplyInv == \A k \in 1..Len(replies) : ListOK(k)
PutReplyInv == ListWanted => \A j \in 1..Len(replies) : PutOK(j)

FreshInv == DataInv /\ ListReplyInv /\ PutReplyInv /\ ViewInv

Calm == ListInv /\ OrderInv /\ FreshInv

AcceptInv == denials = 0 => Calm

\* Steps that are about neither listens nor messages.
LEMMA CalmSame ==
    ASSUME Calm, UNCHANGED <<link, putsToAck, reported, listens, unacked, cache,
                             loading, replies, active>>
    PROVE  Calm'
<1>1. ListWanted' = ListWanted /\ Answered' = Answered
  BY DEF ListWanted, Answered
<1>2. ListInv' /\ OrderInv'
  BY <1>1 DEF Calm, ListInv, OrderInv
<1>3. /\ ListAsked' = ListAsked /\ \A k : ListReply(k)' = ListReply(k)
  BY DEF ListAsked, ListReply, Sent
<1>4. \A j : Later(j)' = Later(j)
  BY <1>3 DEF Later
<1>5. DataInv' /\ ListReplyInv'
  BY <1>1, <1>3 DEF Calm, FreshInv, DataInv, DataOK, ListReplyInv, ListOK, Covers
<1>6. PutReplyInv'
  BY <1>1, <1>3, <1>4 DEF Calm, FreshInv, PutReplyInv, PutOK, FollowsData
<1>7. ViewInv'
  BY <1>1, <1>3, <1>4 DEF Calm, FreshInv, ViewInv, Covers
<1>8. QED
  BY <1>2, <1>5, <1>6, <1>7 DEF Calm, FreshInv

\* Nothing is on the wire.
LEMMA Silent ==
    ASSUME replies' = <<>>
    PROVE  DataInv' /\ ListReplyInv' /\ PutReplyInv'
<1>1. 1..Len(replies') = {}
  OBVIOUS
<1>2. QED
  BY <1>1 DEF DataInv, ListReplyInv, PutReplyInv

\* As long as a list is unanswered, the count says so.
LEMMA CountSeesLists ==
    ASSUME SyncInv, unacked = 0
    PROVE  ~ListAsked /\ \A i \in 1..Len(replies) : replies[i].kind # "listen"
<1>1. /\ IsFiniteSet(Unanswered(loading)) /\ IsFiniteSet(ListenReplies(replies))
      /\ ListenReplies(replies) = {i \in 1..Len(replies) : replies[i].kind = "listen"}
      /\ loading \in [Specs -> Nat]
  BY ListenRepliesFinite DEF SyncInv, CountInv, PutSyncTypeOK
<1>2. /\ Cardinality(Unanswered(loading)) \in Nat /\ Cardinality(ListenReplies(replies)) \in Nat
      /\ 0 = Cardinality(Unanswered(loading)) + Cardinality(ListenReplies(replies))
  BY <1>1, FS_CardinalityType DEF SyncInv, CountInv, CountIsExact
<1>3. Cardinality(Unanswered(loading)) = 0 /\ Cardinality(ListenReplies(replies)) = 0
  BY <1>2
<1>4. Unanswered(loading) = {} /\ ListenReplies(replies) = {}
  BY <1>1, <1>3, FS_EmptySet
<1>5. ASSUME NEW s \in ListSpecs, loading[s] > 0 PROVE FALSE
  <2>1. s \in Specs
    BY PutSyncAssumption
  <2>2. 1 \in 1..loading[s]
    BY <1>1, <1>5, <2>1
  <2>3. <<s, 1>> \in Unanswered(loading)
    BY <1>1, <2>1, <2>2, UnansweredIs
  <2>4. QED
    BY <1>4, <2>3
<1>6. QED
  BY <1>1, <1>4, <1>5 DEF ListAsked

\* A listen that is counted is wanted.
LEMMA CountedIsWanted ==
    ASSUME SyncInv, ListInv, unacked > 0
    PROVE  listens # {}
<1> SUFFICES ASSUME listens = {} PROVE FALSE
  OBVIOUS
<1>1. loading \in [Specs -> Nat] /\ \A s \in Specs : ~(loading[s] > 0)
  BY DEF ListInv, SyncInv, PutSyncTypeOK
<1>2. \A s \in Specs : 1..loading[s] = {}
  BY <1>1
<1>3. Unanswered(loading) = {}
  BY <1>1, <1>2, UnansweredIs
<1>4. ListenReplies(replies) = {}
  BY ListenRepliesFinite DEF SyncInv, ListInv
<1>5. Cardinality(Unanswered(loading)) = 0 /\ Cardinality(ListenReplies(replies)) = 0
  BY <1>3, <1>4, FS_EmptySet, Zenon
<1>6. QED
  BY <1>5 DEF SyncInv, CountInv, CountIsExact

LEMMA CountSeesListsNext ==
    ASSUME SyncInv', unacked' = 0
    PROVE  ~ListAsked' /\ \A i \in 1..Len(replies') : replies'[i].kind # "listen"
<1>1. (SyncInv /\ unacked = 0 =>
          ~ListAsked /\ \A i \in 1..Len(replies) : replies[i].kind # "listen")'
  BY CountSeesLists, PTL
<1>2. QED
  BY <1>1

\* restoreState counts the listens that it asks for.
LEMMA CountedAfresh ==
    ASSUME SyncInv, RestoreState, listens # {}
    PROVE  unacked' > 0
<1>1. IsFiniteSet(listens) /\ unacked \in Nat
  BY PutSyncAssumption, FS_Subset DEF SyncInv, PutSyncTypeOK
<1>2. Cardinality(listens) \in Nat /\ Cardinality(listens) # 0
  BY <1>1, FS_CardinalityType, FS_EmptySet
<1>3. QED
  BY <1>1, <1>2 DEF RestoreState

-----------------------------------------------------------------------------
(* The client takes a message.                                             *)

LEMMA PopLater ==
    ASSUME Popped, Len(replies) \in Nat, Len(replies) > 0
    PROVE  /\ \A k \in 1..Len(replies') :
                 /\ k + 1 \in 1..Len(replies) /\ replies'[k] = replies[k + 1]
                 /\ ListReply(k)' => ListReply(k + 1)
           /\ \A j \in 0..Len(replies') : Later(j + 1) => Later(j)'
<1>1. \A k \in 1..Len(replies') : k + 1 \in 1..Len(replies) /\ replies'[k] = replies[k + 1]
  BY DEF Popped
<1>2. \A k \in 1..Len(replies') : ListReply(k)' => ListReply(k + 1)
  BY <1>1 DEF ListReply, Sent
<1>3. ASSUME NEW j \in 0..Len(replies'), Later(j + 1)
      PROVE  Later(j)'
  <2>1. PICK k \in 1..Len(replies) : k > j + 1 /\ ListReply(k)
    BY <1>3 DEF Later
  <2>2. k - 1 \in 1..Len(replies') /\ k - 1 > j /\ replies'[k - 1] = replies[k]
    BY <2>1 DEF Popped
  <2>3. ListReply(k - 1)'
    BY <2>1, <2>2 DEF ListReply, Sent
  <2>4. QED
    BY <2>2, <2>3 DEF Later
<1>4. QED
  BY <1>1, <1>2, <1>3

LEMMA PopMessages ==
    ASSUME SyncInv, Calm, NEW kind, Handle(kind), UNCHANGED listens,
           ListAsked => ListAsked',
           kind = "data" => cache' = replies[1].about,
           \A r \in Answered' :
              \/ r \in Answered
              \/ kind = "put" /\ r.put = replies[1].about /\ r.ok = replies[1].ok
    PROVE  DataInv' /\ ListReplyInv' /\ PutReplyInv'
<1>1. Popped /\ Len(replies) \in Nat /\ Len(replies) > 0 /\ replies[1].kind = kind
  BY HandlePops DEF SyncInv
<1>2. /\ \A k \in 1..Len(replies') :
            /\ k + 1 \in 1..Len(replies) /\ replies'[k] = replies[k + 1]
            /\ ListReply(k)' => ListReply(k + 1)
      /\ \A j \in 0..Len(replies') : Later(j + 1) => Later(j)'
      /\ Len(replies') \in Nat /\ 1 \in 1..Len(replies)
  BY <1>1, PopLater DEF Popped
<1>3. ASSUME NEW i \in 1..Len(replies') PROVE DataOK(i)'
  <2>1. SUFFICES ASSUME replies[i + 1].kind = "data"
                 PROVE  /\ Covers(replies[i + 1].about, Answered')
                        /\ \A j \in 1..Len(replies') :
                              j < i /\ replies'[j].kind = "put" /\ replies'[j].ok =>
                                  replies[i + 1].about >= replies'[j].about
    BY <1>2, <1>3 DEF DataOK, Covers
  <2>2. /\ Covers(replies[i + 1].about, Answered)
        /\ \A j \in 1..Len(replies) :
              j < i + 1 /\ replies[j].kind = "put" /\ replies[j].ok =>
                  replies[i + 1].about >= replies[j].about
    BY <1>2, <1>3, <2>1 DEF Calm, FreshInv, DataInv, DataOK
  <2>3. ASSUME NEW r \in Answered', r.ok PROVE replies[i + 1].about >= r.put
    <3>1. CASE r \in Answered
      BY <2>2, <2>3, <3>1 DEF Covers
    <3>2. CASE kind = "put" /\ r.put = replies[1].about /\ r.ok = replies[1].ok
      BY <1>1, <1>2, <2>2, <2>3, <3>2
    <3>3. QED
      BY <3>1, <3>2
  <2>4. ASSUME NEW j \in 1..Len(replies'), j < i, replies'[j].kind = "put", replies'[j].ok
        PROVE  replies[i + 1].about >= replies'[j].about
    <3>1. j + 1 < i + 1 /\ j + 1 \in 1..Len(replies) /\ replies'[j] = replies[j + 1]
      BY <1>2, <2>4
    <3>2. QED
      BY <2>2, <2>4, <3>1
  <2>5. QED
    BY <2>2, <2>3, <2>4 DEF Covers
<1>4. ASSUME NEW k \in 1..Len(replies') PROVE ListOK(k)'
  <2>1. SUFFICES ASSUME ListReply(k + 1)
                 PROVE  IF k = 1 THEN Covers(cache', Answered') ELSE replies'[k - 1].kind = "data"
    BY <1>2, <1>4 DEF ListOK, Covers
  <2>2. k + 1 # 1 /\ (k + 1) - 1 = k
    BY <1>4
  <2>3. replies[k].kind = "data"
    BY <1>2, <1>4, <2>1, <2>2 DEF Calm, FreshInv, ListReplyInv, ListOK
  <2>4. CASE k = 1
    <3>1. kind = "data" /\ DataOK(1)
      BY <1>1, <1>2, <2>3, <2>4 DEF Calm, FreshInv, DataInv
    <3>2. Covers(replies[1].about, Answered)
      BY <1>1, <3>1 DEF DataOK
    <3>3. QED
      BY <2>4, <3>1, <3>2 DEF Covers
  <2>5. CASE k # 1
    <3>1. k - 1 \in 1..Len(replies') /\ (k - 1) + 1 = k
      BY <1>2, <2>5
    <3>2. replies'[k - 1] = replies[k]
      BY <1>2, <3>1
    <3>3. QED
      BY <2>3, <2>5, <3>2
  <2>6. QED
    BY <2>4, <2>5
<1>5. ASSUME ListWanted, NEW j \in 1..Len(replies') PROVE PutOK(j)'
  <2>1. SUFFICES ASSUME replies[j + 1].kind = "put", replies[j + 1].ok
                 PROVE  ListAsked' \/ Later(j)' \/ FollowsData(j)'
    BY <1>2, <1>5 DEF PutOK
  <2>2. ListAsked \/ Later(j + 1) \/ FollowsData(j + 1)
    BY <1>2, <1>5, <2>1 DEF Calm, FreshInv, PutReplyInv, PutOK
  <2>3. ASSUME FollowsData(j + 1) PROVE FollowsData(j)'
    <3>1. j + 1 # 1 /\ (j + 1) - 1 = j
      BY <1>5
    <3>2. replies[j].kind = "data" /\ replies[j].about = replies'[j].about
      BY <1>2, <2>3, <3>1 DEF FollowsData
    <3>3. CASE j = 1
      BY <1>1, <3>2, <3>3 DEF FollowsData
    <3>4. CASE j # 1
      <4>1. j - 1 \in 1..Len(replies') /\ (j - 1) + 1 = j
        BY <1>2, <3>4
      <4>2. replies'[j - 1] = replies[j]
        BY <1>2, <4>1
      <4>3. QED
        BY <3>2, <3>4, <4>2 DEF FollowsData
    <3>5. QED
      BY <3>3, <3>4
  <2>4. QED
    BY <1>2, <2>2, <2>3
<1>6. ListWanted' = ListWanted
  BY DEF ListWanted
<1>7. QED
  BY <1>3, <1>4, <1>5, <1>6 DEF DataInv, ListReplyInv, PutReplyInv

LEMMA PopListInv ==
    ASSUME SyncInv, ListInv, NEW kind, Handle(kind), UNCHANGED <<listens, active>>,
           \A s \in Specs : loading'[s] > 0 => loading[s] > 0 \/ s \in listens,
           link' = "connected" => \A s \in listens : s \in active \/ loading'[s] > 0,
           ~ListWanted => cache' = NoData
    PROVE  ListInv'
<1>1. Popped /\ Len(replies) \in Nat /\ Len(replies) > 0
  BY HandlePops DEF SyncInv
<1>2. \A i \in 1..Len(replies') : i + 1 \in 1..Len(replies) /\ replies'[i] = replies[i + 1]
  BY <1>1, PopLater
<1>3. ListWanted' = ListWanted
  BY DEF ListWanted
<1>4. \A i \in 1..Len(replies') :
          /\ replies'[i].kind # "revoked"
          /\ replies'[i].kind = "listen" => replies'[i].ok /\ replies'[i].about \in listens
          /\ replies'[i].kind = "data" => ListWanted
  BY <1>2 DEF ListInv
<1>5. \A s \in Specs : loading'[s] > 0 \/ s \in active => s \in listens
  BY DEF ListInv
<1>6. QED
  BY <1>3, <1>4, <1>5 DEF ListInv

LEMMA OnDataUpdateCalm ==
    ASSUME SyncInv, Calm, OnDataUpdate
    PROVE  Calm'
<1> USE DEF OnDataUpdate, server
<1>1. /\ Popped /\ Len(replies) \in Nat /\ Len(replies) > 0 /\ 1 \in 1..Len(replies)
      /\ Head(replies) = replies[1] /\ replies[1].kind = "data"
  BY HandlePops DEF SyncInv
<1>2. ListWanted /\ ListWanted' /\ cache' = replies[1].about
  BY <1>1 DEF Calm, ListInv, ListWanted, About
<1>3. Answered' = Answered /\ ListAsked' = ListAsked
  BY DEF Answered, ListAsked
<1>4. DataInv' /\ ListReplyInv' /\ PutReplyInv'
  BY <1>2, <1>3, PopMessages
<1>5. ListInv'
  BY <1>2, PopListInv DEF Calm, ListInv
<1>6. OrderInv'
  BY DEF Calm, OrderInv
<1>7. ViewInv'
  <2>1. Covers(replies[1].about, Answered)
    BY <1>1 DEF Calm, FreshInv, DataInv, DataOK
  <2>2. Range(reported') \subseteq Answered'
    BY DEF Answered
  <2>3. QED
    BY <1>2, <1>3, <2>1, <2>2 DEF ViewInv, Covers
<1>8. QED
  BY <1>4, <1>5, <1>6, <1>7 DEF Calm, FreshInv

LEMMA OnAuthenticatedCalm ==
    ASSUME SyncInv, Calm, OnAuthenticated
    PROVE  Calm'
<1> USE DEF OnAuthenticated, server
<1>1. Popped /\ Len(replies) \in Nat /\ Len(replies) > 0 /\ replies[1].kind = "auth"
  BY HandlePops DEF SyncInv
<1>2. Answered' = Answered /\ ListWanted' = ListWanted
  BY DEF Answered, ListWanted
<1>3. /\ loading \in [Specs -> Nat] /\ listens \subseteq Specs /\ unacked \in Nat
      /\ loading' = [s \in Specs |-> loading[s] + IF s \in listens THEN 1 ELSE 0]
      /\ ListSpecs \subseteq Specs
  BY PutSyncAssumption DEF SyncInv, PutSyncTypeOK, RestoreState
<1>4. /\ \A s \in Specs : loading[s] > 0 => loading'[s] > 0
      /\ \A s \in Specs : loading'[s] > 0 => loading[s] > 0 \/ s \in listens
      /\ \A s \in listens : loading'[s] > 0
  BY <1>3
<1>5. (ListAsked => ListAsked') /\ (ListWanted => ListAsked')
  BY <1>3, <1>4 DEF ListAsked, ListWanted
<1>6. DataInv' /\ ListReplyInv' /\ PutReplyInv'
  BY <1>2, <1>5, PopMessages
<1>7. ListInv'
  BY <1>4, PopListInv DEF Calm, ListInv
<1>8. OrderInv'
  <2>1. ASSUME putsToAck # <<>> PROVE unacked' > 0
    BY <1>3, <2>1, CountedAfresh DEF Calm, OrderInv
  <2>2. QED
    BY <2>1 DEF Calm, OrderInv
<1>9. ViewInv'
  BY <1>2, <1>5 DEF Calm, FreshInv, ViewInv, Covers
<1>10. QED
  BY <1>6, <1>7, <1>8, <1>9 DEF Calm, FreshInv

LEMMA OnPutReplyCalm ==
    ASSUME SyncInv, Calm, OnPutReply
    PROVE  Calm'
<1> USE DEF OnPutReply, server
<1>1. /\ Popped /\ Len(replies) \in Nat /\ Len(replies) > 0 /\ 1 \in 1..Len(replies)
      /\ Head(replies) = replies[1] /\ replies[1].kind = "put"
  BY HandlePops DEF SyncInv
<1>2. link = "connected" /\ link' = "connected"
  BY WhenHandled
<1>3. /\ About = Low + 1 /\ About \in outstanding /\ Result \in Results
      /\ Result.put = Low + 1 /\ replies[1].about = Low + 1 /\ Result.ok = replies[1].ok
  BY <1>1, AnswersInOrder DEF About, Result
<1>4. /\ reported' \in Seq(Results) /\ putsToAck' \in Seq(Results)
      /\ Low' = Low + 1 /\ Answered' = Answered \cup {Result}
  BY <1>3, ResultAdded DEF SyncInv
<1>5. ListAsked' = ListAsked /\ ListWanted' = ListWanted
  BY DEF ListAsked, ListWanted
<1>6. DataInv' /\ ListReplyInv' /\ PutReplyInv'
  BY <1>3, <1>4, <1>5, PopMessages
<1>7. ListInv'
  BY PopListInv DEF Calm, ListInv
<1>8. /\ Low \in Nat /\ Len(reported) \in Nat /\ Len(putsToAck) \in Nat /\ unacked \in Nat
      /\ \A r \in Answered : r.put \in Nat /\ r.put <= Low
  BY Numbers DEF SyncInv, PutSyncTypeOK, PutInv
<1>9. OrderInv'
  <2>1. CASE unacked = 0
    <3>1. putsToAck = <<>> /\ putsToAck' = <<>> /\ reported' = Append(reported, Result)
      BY <1>2, <1>3, <2>1 DEF Calm, OrderInv
    <3>2. Low = Len(reported)
      BY <1>8, <3>1 DEF Low
    <3>3. /\ Len(reported') = Len(reported) + 1 /\ reported'[Len(reported) + 1] = Result
          /\ \A i \in 1..Len(reported) : reported'[i] = reported[i]
      BY <3>1, AppendProperties DEF SyncInv, PutSyncTypeOK
    <3>4. \A i \in 1..Len(reported') : reported'[i].put = i
      BY <1>3, <1>8, <3>2, <3>3 DEF Calm, OrderInv
    <3>5. QED
      BY <3>1, <3>4 DEF OrderInv
  <2>2. CASE unacked # 0
    <3>1. reported' = reported /\ putsToAck' = Append(putsToAck, Result)
      BY <1>3, <2>2
    <3>2. /\ Len(putsToAck') = Len(putsToAck) + 1 /\ putsToAck'[Len(putsToAck) + 1] = Result
          /\ \A i \in 1..Len(putsToAck) : putsToAck'[i] = putsToAck[i]
      BY <3>1, AppendProperties DEF SyncInv, PutSyncTypeOK
    <3>3. \A i \in 1..Len(putsToAck') : putsToAck'[i].put = Len(reported) + i
      <4>1. Result.put = Len(reported) + (Len(putsToAck) + 1)
        BY <1>3, <1>8 DEF Low
      <4>2. \A i \in 1..Len(putsToAck) : putsToAck[i].put = Len(reported) + i
        BY DEF Calm, OrderInv
      <4>3. ASSUME NEW i \in 1..Len(putsToAck') PROVE putsToAck'[i].put = Len(reported) + i
        <5>1. CASE i = Len(putsToAck) + 1
          BY <3>2, <4>1, <5>1
        <5>2. CASE i # Len(putsToAck) + 1
          <6>1. i \in 1..Len(putsToAck)
            BY <1>8, <3>2, <5>2
          <6>2. QED
            BY <3>2, <4>2, <6>1
        <5>3. QED
          BY <5>1, <5>2
      <4>4. QED
        BY <4>3
    <3>4. listens # {} /\ unacked > 0
      BY <1>8, <2>2, CountedIsWanted DEF Calm
    <3>5. QED
      BY <3>1, <3>3, <3>4 DEF Calm, OrderInv
  <2>3. QED
    BY <2>1, <2>2
<1>10. ASSUME ListWanted, Result.ok, ~ListAsked, ~Later(1)
       PROVE  Covers(cache, Answered')
  <2>1. FollowsData(1)
    BY <1>1, <1>3, <1>10 DEF Calm, FreshInv, PutReplyInv, PutOK
  <2>2. cache = Low + 1
    BY <1>3, <2>1 DEF FollowsData
  <2>3. cache # NoData
    BY <1>8, <2>2, PutSyncAssumption
  <2>4. QED
    BY <1>3, <1>4, <1>8, <2>2, <2>3 DEF Covers
<1>11. Later(1) => Later(0)'
  <2>1. Len(replies') \in Nat /\ \A j \in 0..Len(replies') : Later(j + 1) => Later(j)'
    BY <1>1, PopLater DEF Popped
  <2>2. 0 \in 0..Len(replies') /\ 0 + 1 = 1
    BY <2>1
  <2>3. QED
    BY <2>1, <2>2
<1>12. Later(0) => Later(1)
  BY <1>1 DEF Later, ListReply, Sent
<1>13. ViewInv'
  <2>1. ASSUME ListWanted, ~ListAsked, ~Later(0)' PROVE Covers(cache, Answered')
    <3>1. ~Later(1) /\ ~Later(0)
      BY <1>11, <1>12, <2>1
    <3>2. CASE Result.ok
      BY <1>10, <2>1, <3>1, <3>2
    <3>3. CASE ~Result.ok
      <4>1. Covers(cache, Answered)
        BY <1>2, <2>1, <3>1 DEF Calm, FreshInv, ViewInv
      <4>2. QED
        BY <1>4, <3>3, <4>1 DEF Covers
    <3>4. QED
      BY <3>2, <3>3
  <2>2. ASSUME cache # NoData PROVE Covers(cache, Range(reported'))
    <3>1. CASE unacked = 0
      <4>1. ListWanted
        BY <2>2 DEF Calm, ListInv
      <4>2. ~ListAsked /\ ~Later(1) /\ ~Later(0)
        BY <3>1, CountSeesLists DEF Later, ListReply, Sent
      <4>3. Covers(cache, Answered')
        <5>1. CASE Result.ok
          BY <1>10, <4>1, <4>2, <5>1
        <5>2. CASE ~Result.ok
          <6>1. Covers(cache, Answered)
            BY <1>2, <4>1, <4>2 DEF Calm, FreshInv, ViewInv
          <6>2. QED
            BY <1>4, <5>2, <6>1 DEF Covers
        <5>3. QED
          BY <5>1, <5>2
      <4>4. Range(reported') \subseteq Answered'
        BY DEF Answered
      <4>5. QED
        BY <4>3, <4>4 DEF Covers
    <3>2. CASE unacked # 0
      BY <1>3, <2>2, <3>2 DEF Calm, FreshInv, ViewInv
    <3>3. QED
      BY <3>1, <3>2
  <2>3. QED
    BY <1>5, <2>1, <2>2 DEF ViewInv
<1>14. QED
  BY <1>6, <1>7, <1>9, <1>13 DEF Calm, FreshInv

LEMMA OnListenReplyCalm ==
    ASSUME SyncInv, SyncInv', Calm, OnListenReply
    PROVE  Calm'
<1> USE DEF OnListenReply, server
<1>1. /\ Popped /\ Len(replies) \in Nat /\ Len(replies) > 0 /\ 1 \in 1..Len(replies)
      /\ Head(replies) = replies[1] /\ replies[1].kind = "listen"
  BY HandlePops DEF SyncInv
<1>2. link = "connected" /\ link' = "connected"
  BY WhenHandled
<1>3. /\ Head(replies).ok /\ listens' = listens /\ cache' = cache
  BY <1>1 DEF Calm, ListInv, Forget
<1>4. Answered' = Answered /\ Range(reported') \subseteq Answered'
  <2>1. CASE AckPuts
    BY <2>1, AckPutsKeeps DEF SyncInv, Answered
  <2>2. CASE UNCHANGED <<reported, putsToAck>>
    BY <2>2 DEF Answered
  <2>3. QED
    BY <2>1, <2>2
<1>5. ListAsked' = ListAsked /\ ListWanted' = ListWanted
  BY <1>3 DEF ListAsked, ListWanted
<1>6. DataInv' /\ ListReplyInv' /\ PutReplyInv'
  BY <1>3, <1>4, <1>5, PopMessages
<1>7. ListInv'
  BY <1>3, PopListInv DEF Calm, ListInv
<1>8. OrderInv'
  <2>1. CASE unacked' = 0
    <3>1. /\ Len(reported') = Low /\ Len(putsToAck') = 0 /\ putsToAck' = <<>>
          /\ \A i \in 1..Len(reported) : reported'[i] = reported[i]
          /\ \A i \in 1..Len(putsToAck) : reported'[Len(reported) + i] = putsToAck[i]
      BY <2>1, AckPutsKeeps DEF SyncInv, AckPuts
    <3>2. Len(reported) \in Nat /\ Len(putsToAck) \in Nat /\ Low = Len(reported) + Len(putsToAck)
      BY Numbers DEF SyncInv, Low
    <3>3. ASSUME NEW i \in 1..Len(reported') PROVE reported'[i].put = i
      <4>1. CASE i \in 1..Len(reported)
        BY <3>1, <4>1 DEF Calm, OrderInv
      <4>2. CASE i \notin 1..Len(reported)
        <5>1. i - Len(reported) \in 1..Len(putsToAck) /\ Len(reported) + (i - Len(reported)) = i
          BY <3>1, <3>2, <4>2
        <5>2. reported'[i] = putsToAck[i - Len(reported)]
          BY <3>1, <5>1
        <5>3. QED
          BY <5>1, <5>2 DEF Calm, OrderInv
      <4>3. QED
        BY <4>1, <4>2
    <3>4. QED
      BY <3>1, <3>3 DEF OrderInv
  <2>2. CASE unacked' # 0
    <3>1. unacked' > 0 /\ UNCHANGED <<reported, putsToAck>>
      BY <2>2 DEF SyncInv, PutSyncTypeOK
    <3>2. QED
      BY <1>3, <3>1 DEF Calm, OrderInv
  <2>3. QED
    BY <2>1, <2>2
<1>9. ASSUME ListWanted, ~ListAsked, ~Later(0)' PROVE Covers(cache, Answered)
  <2>1. CASE ListReply(1)
    BY <1>1, <2>1 DEF Calm, FreshInv, ListReplyInv, ListOK
  <2>2. CASE ~ListReply(1)
    <3>1. Later(0) => Later(1)
      <4>1. ASSUME NEW k \in 1..Len(replies), k > 0, ListReply(k) PROVE k > 1
        <5>1. k # 1
          BY <2>2, <4>1
        <5>2. QED
          BY <5>1
      <4>2. QED
        BY <4>1 DEF Later
    <3>2. Later(1) => Later(0)'
      <4>1. Len(replies') \in Nat /\ \A j \in 0..Len(replies') : Later(j + 1) => Later(j)'
        BY <1>1, PopLater DEF Popped
      <4>2. 0 \in 0..Len(replies') /\ 0 + 1 = 1
        BY <4>1
      <4>3. QED
        BY <4>1, <4>2
    <3>3. QED
      BY <1>2, <1>9, <3>1, <3>2 DEF Calm, FreshInv, ViewInv
  <2>3. QED
    BY <2>1, <2>2
<1>10. ViewInv'
  <2>1. ASSUME cache # NoData PROVE Covers(cache, Range(reported'))
    <3>1. CASE unacked' = 0
      <4>1. ListWanted
        BY <2>1 DEF Calm, ListInv
      <4>2. ~ListAsked' /\ \A i \in 1..Len(replies') : replies'[i].kind # "listen"
        BY <3>1, CountSeesListsNext
      <4>3. ~ListAsked /\ ~Later(0)'
        BY <1>5, <4>2 DEF Later, ListReply, Sent
      <4>4. Covers(cache, Answered)
        BY <1>9, <4>1, <4>3
      <4>5. QED
        BY <1>4, <4>4 DEF Covers
    <3>2. CASE unacked' # 0
      BY <2>1, <3>2 DEF Calm, FreshInv, ViewInv
    <3>3. QED
      BY <3>1, <3>2
  <2>2. ASSUME ListWanted, ~ListAsked, ~Later(0)' PROVE Covers(cache, Answered')
    BY <1>4, <1>9, <2>2
  <2>3. QED
    BY <1>3, <1>5, <2>1, <2>2 DEF ViewInv
<1>11. QED
  BY <1>6, <1>7, <1>8, <1>10 DEF Calm, FreshInv

-----------------------------------------------------------------------------
(* Calls, the connection and the server before the first denial.           *)

LEMMA ListenCalm ==
    ASSUME SyncInv, Calm, NEW s \in Specs, Listen(s)
    PROVE  Calm'
<1> USE DEF Listen, server
<1>1. /\ loading \in [Specs -> Nat] /\ listens \subseteq Specs /\ unacked \in Nat
      /\ listens' = listens \cup {s} /\ ListSpecs \subseteq Specs
      /\ link \in {"down", "authenticating", "connected"}
  BY PutSyncAssumption DEF SyncInv, PutSyncTypeOK
<1>2. /\ \A t \in Specs : loading[t] > 0 => loading'[t] > 0
      /\ \A t \in Specs : loading'[t] > 0 => loading[t] > 0 \/ t = s
      /\ link # "down" => loading'[s] > 0 /\ unacked' > 0
      /\ link = "down" => replies = <<>> /\ unacked' = unacked
  BY <1>1 DEF SyncInv, LinkInv
<1>3. /\ ListAsked => ListAsked'
      /\ ListWanted => ListWanted'
      /\ link # "down" /\ s \in ListSpecs => ListAsked'
      /\ s \notin ListSpecs => ListWanted' = ListWanted
  BY <1>1, <1>2 DEF ListAsked, ListWanted
<1>4. Answered' = Answered /\ \A k : ListReply(k)' = ListReply(k)
  BY DEF Answered, ListReply, Sent
<1>5. \A j : Later(j)' = Later(j)
  BY <1>4 DEF Later
<1>6. ListInv'
  <2>1. \A t \in Specs : loading'[t] > 0 \/ t \in active' => t \in listens'
    BY <1>1, <1>2 DEF Calm, ListInv
  <2>2. \A i \in 1..Len(replies') :
          /\ replies'[i].kind # "revoked"
          /\ replies'[i].kind = "listen" => replies'[i].ok /\ replies'[i].about \in listens'
          /\ replies'[i].kind = "data" => ListWanted'
    BY <1>1, <1>3 DEF Calm, ListInv
  <2>3. ~ListWanted' => cache' = NoData
    BY <1>3 DEF Calm, ListInv
  <2>4. link' = "connected" => \A t \in listens' : t \in active' \/ loading'[t] > 0
    BY <1>1, <1>2 DEF Calm, ListInv
  <2>5. QED
    BY <2>1, <2>2, <2>3, <2>4 DEF ListInv
<1>7. OrderInv'
  BY <1>1, <1>2 DEF Calm, OrderInv
<1>8. DataInv' /\ ListReplyInv'
  BY <1>4 DEF Calm, FreshInv, DataInv, DataOK, ListReplyInv, ListOK, Covers
<1>9. PutReplyInv'
  <2>1. CASE link = "down"
    BY <1>2, <2>1, Silent
  <2>2. CASE link # "down"
    BY <1>3, <1>5, <2>2 DEF Calm, FreshInv, PutReplyInv, PutOK, FollowsData
  <2>3. QED
    BY <2>1, <2>2
<1>10. ViewInv'
  BY <1>3, <1>4, <1>5 DEF Calm, FreshInv, ViewInv, Covers
<1>11. QED
  BY <1>6, <1>7, <1>8, <1>9, <1>10 DEF Calm, FreshInv

LEMMA OnReadyCalm ==
    ASSUME SyncInv, Calm, NEW token \in BOOLEAN, OnReady(token)
    PROVE  Calm'
<1> USE DEF OnReady
<1>1. replies = <<>> /\ replies' = <<>> /\ active = {}
  BY DEF SyncInv, LinkInv
<1>2. Answered' = Answered /\ ListWanted' = ListWanted
  BY DEF Answered, ListWanted
<1>3. DataInv' /\ ListReplyInv' /\ PutReplyInv'
  BY <1>1, Silent
<1>4. /\ loading \in [Specs -> Nat] /\ listens \subseteq Specs /\ ListSpecs \subseteq Specs
  BY PutSyncAssumption DEF SyncInv, PutSyncTypeOK
<1>5. CASE token
  <2>1. link' = "authenticating" /\ loading' = loading
    BY <1>5
  <2>2. ListInv' /\ OrderInv'
    BY <1>1, <1>2, <2>1 DEF Calm, ListInv, OrderInv
  <2>3. ViewInv'
    BY <1>2, <2>1 DEF Calm, FreshInv, ViewInv, Covers
  <2>4. QED
    BY <1>3, <2>2, <2>3 DEF Calm, FreshInv
<1>6. CASE ~token
  <2>1. link' = "connected" /\ RestoreState
    BY <1>6
  <2>2. loading' = [s \in Specs |-> loading[s] + IF s \in listens THEN 1 ELSE 0]
    BY <2>1 DEF RestoreState
  <2>3. /\ \A s \in Specs : loading'[s] > 0 => loading[s] > 0 \/ s \in listens
        /\ \A s \in listens : loading'[s] > 0
    BY <1>4, <2>2
  <2>4. ListInv'
    BY <1>1, <1>2, <2>3 DEF Calm, ListInv
  <2>5. OrderInv'
    BY <2>1, CountedAfresh DEF Calm, OrderInv
  <2>6. ListWanted => ListAsked'
    BY <2>3 DEF ListWanted, ListAsked
  <2>7. ViewInv'
    BY <1>2, <2>6 DEF Calm, FreshInv, ViewInv, Covers
  <2>8. QED
    BY <1>3, <2>4, <2>5, <2>7 DEF Calm, FreshInv
<1>7. QED
  BY <1>5, <1>6

LEMMA SeveredCalm ==
    ASSUME SyncInv, Calm, Severed
    PROVE  Calm'
<1> USE DEF Severed
<1>1. DataInv' /\ ListReplyInv' /\ PutReplyInv'
  BY Silent
<1>2. ListWanted' = ListWanted
  BY DEF ListWanted
<1>3. \A s \in Specs : ~(loading'[s] > 0)
  BY DEF None
<1>4. ListInv'
  BY <1>2, <1>3 DEF Calm, ListInv
<1>5. OrderInv'
  BY DEF Calm, OrderInv
<1>6. ViewInv'
  BY DEF Calm, FreshInv, ViewInv, Covers
<1>7. QED
  BY <1>1, <1>4, <1>5, <1>6 DEF Calm, FreshInv

\* The server adds messages that are in order; the others stay so.
LEMMA PushMessages ==
    ASSUME SyncInv, Calm, Grew, UNCHANGED <<cache, listens, reported, putsToAck>>,
           \A i \in Fresh : DataOK(i)' /\ ListOK(i)' /\ (ListWanted => PutOK(i)'),
           ListAsked => ListAsked' \/ \E k \in Fresh : ListReply(k)'
    PROVE  DataInv' /\ ListReplyInv' /\ PutReplyInv' /\ (Later(0) => Later(0)')
<1>1. Answered' = Answered /\ ListWanted' = ListWanted
  BY DEF Answered, ListWanted
<1>2. /\ Len(replies) \in Nat /\ Len(replies') \in Nat
      /\ \A i \in 1..Len(replies) : i \in 1..Len(replies') /\ replies'[i] = replies[i]
      /\ \A i \in 1..Len(replies') : i \in 1..Len(replies) \/ i \in Fresh
      /\ \A i \in Fresh : i \in 1..Len(replies') /\ i > Len(replies)
  BY Numbers DEF SyncInv, Grew, Fresh
<1>3. \A i \in 1..Len(replies) : ListReply(i)' = ListReply(i)
  BY <1>2 DEF ListReply, Sent
<1>4. \A j : Later(j) => Later(j)'
  BY <1>2, <1>3 DEF Later
<1>5. ASSUME NEW i \in 1..Len(replies) PROVE DataOK(i)'
  <2>1. SUFFICES ASSUME replies[i].kind = "data"
                 PROVE  /\ Covers(replies[i].about, Answered)
                        /\ \A j \in 1..Len(replies') :
                              j < i /\ replies'[j].kind = "put" /\ replies'[j].ok =>
                                  replies[i].about >= replies'[j].about
    BY <1>1, <1>2, <1>5 DEF DataOK, Covers
  <2>2. DataOK(i)
    BY <1>5 DEF Calm, FreshInv, DataInv
  <2>3. \A j \in 1..Len(replies') : j < i => j \in 1..Len(replies) /\ replies'[j] = replies[j]
    BY <1>2, <1>5
  <2>4. QED
    BY <2>1, <2>2, <2>3 DEF DataOK
<1>6. ASSUME NEW k \in 1..Len(replies) PROVE ListOK(k)'
  <2>1. ListOK(k)
    BY DEF Calm, FreshInv, ListReplyInv
  <2>2. k # 1 => replies'[k - 1] = replies[k - 1]
    BY <1>2, <1>6
  <2>3. QED
    BY <1>1, <1>3, <2>1, <2>2 DEF ListOK, Covers
<1>7. ASSUME ListWanted, NEW j \in 1..Len(replies) PROVE PutOK(j)'
  <2>1. PutOK(j)
    BY <1>7 DEF Calm, FreshInv, PutReplyInv
  <2>2. j # 1 => replies'[j - 1] = replies[j - 1]
    BY <1>2, <1>7
  <2>3. FollowsData(j) => FollowsData(j)'
    BY <1>2, <2>2 DEF FollowsData
  <2>4. ListAsked => ListAsked' \/ Later(j)'
    BY <1>2 DEF Later
  <2>5. replies'[j] = replies[j]
    BY <1>2
  <2>6. QED
    BY <1>4, <2>1, <2>3, <2>4, <2>5 DEF PutOK
<1>8. QED
  BY <1>1, <1>2, <1>4, <1>5, <1>6, <1>7 DEF DataInv, ListReplyInv, PutReplyInv

\* The lists, when the server grants or tells something.
LEMMA PushListInv ==
    ASSUME SyncInv, ListInv, Grew, UNCHANGED <<link, cache, listens>>,
           \A i \in Fresh :
              /\ replies'[i].kind # "revoked"
              /\ replies'[i].kind = "listen" => replies'[i].ok /\ replies'[i].about \in listens
              /\ replies'[i].kind = "data" => ListWanted,
           \A s \in Specs : loading'[s] > 0 \/ s \in active' => loading[s] > 0 \/ s \in active,
           \A s \in Specs : loading[s] > 0 \/ s \in active => loading'[s] > 0 \/ s \in active'
    PROVE  ListInv'
<1>1. ListWanted' = ListWanted /\ listens \subseteq Specs
  BY DEF ListWanted, SyncInv, PutSyncTypeOK
<1>2. \A i \in 1..Len(replies') :
          \/ i \in 1..Len(replies) /\ replies'[i] = replies[i]
          \/ i \in Fresh
  BY DEF Grew, Fresh
<1>3. \A i \in 1..Len(replies') :
          /\ replies'[i].kind # "revoked"
          /\ replies'[i].kind = "listen" => replies'[i].ok /\ replies'[i].about \in listens
          /\ replies'[i].kind = "data" => ListWanted
  BY <1>2 DEF ListInv
<1>4. QED
  BY <1>1, <1>3 DEF ListInv

\* The client's side of Calm, when only messages are added.
LEMMA PushClient ==
    ASSUME Calm, UNCHANGED <<link, cache, listens, unacked, reported, putsToAck>>,
           ListAsked => ListAsked' \/ Later(0)', Later(0) => Later(0)'
    PROVE  OrderInv' /\ ViewInv'
<1>1. ListWanted' = ListWanted /\ Answered' = Answered
  BY DEF ListWanted, Answered
<1>2. OrderInv'
  BY DEF Calm, OrderInv
<1>3. ViewInv'
  BY <1>1 DEF Calm, FreshInv, ViewInv, Covers
<1>4. QED
  BY <1>2, <1>3

LEMMA AuthenticateCalm ==
    ASSUME SyncInv, SyncInv', Calm, Authenticate
    PROVE  Calm'
<1> USE DEF Authenticate, client
<1> DEFINE m == Message("auth", 0, TRUE)
<1>1. m \in Messages /\ m.kind = "auth"
  BY PutSyncAssumption DEF Message, Messages, Kinds
<1> HIDE DEF m
<1>2. Pushed(m)
  BY <1>1, PushOne DEF SyncInv, m
<1>3. Grew /\ \A i \in Fresh : replies'[i] = m
  BY <1>2, Grows DEF SyncInv, Pushed
<1>4. \A i \in Fresh : DataOK(i)' /\ ListOK(i)' /\ PutOK(i)'
  BY <1>1, <1>3 DEF DataOK, ListOK, PutOK, ListReply, Sent
<1>5. ListAsked' = ListAsked
  BY DEF ListAsked
<1>6. DataInv' /\ ListReplyInv' /\ PutReplyInv' /\ (Later(0) => Later(0)')
  BY <1>3, <1>4, <1>5, PushMessages
<1>7. OrderInv' /\ ViewInv'
  BY <1>5, <1>6, PushClient
<1>8. ListInv'
  BY <1>1, <1>3, PushListInv DEF Calm
<1>9. QED
  BY <1>6, <1>7, <1>8 DEF Calm, FreshInv

LEMMA RefusePutCalm ==
    ASSUME SyncInv, Calm, RefusePut
    PROVE  Calm'
<1> USE DEF RefusePut, client, server
<1> DEFINE m == Message("put", Head(requests), FALSE)
<1>1. m \in Messages /\ m.kind = "put" /\ m.ok = FALSE
  BY PutMessage DEF Kinds, Message
<1> HIDE DEF m
<1>2. Pushed(m)
  BY <1>1, PushOne DEF SyncInv, m
<1>3. Grew /\ \A i \in Fresh : replies'[i] = m
  BY <1>2, Grows DEF SyncInv, Pushed
<1>4. \A i \in Fresh : DataOK(i)' /\ ListOK(i)' /\ PutOK(i)'
  BY <1>1, <1>3 DEF DataOK, ListOK, PutOK, ListReply, Sent
<1>5. ListAsked' = ListAsked
  BY DEF ListAsked
<1>6. DataInv' /\ ListReplyInv' /\ PutReplyInv' /\ (Later(0) => Later(0)')
  BY <1>3, <1>4, <1>5, PushMessages
<1>7. OrderInv' /\ ViewInv'
  BY <1>5, <1>6, PushClient
<1>8. ListInv'
  BY <1>1, <1>3, PushListInv DEF Calm
<1>9. QED
  BY <1>6, <1>7, <1>8 DEF Calm, FreshInv

LEMMA ServePutCalm ==
    ASSUME SyncInv, Calm, ServePut
    PROVE  Calm'
<1> USE DEF ServePut, client
<1> DEFINE p == Head(requests)
           d == Message("data", p, TRUE)
           m == Message("put", p, TRUE)
           heard == active \cap ListSpecs # {}
           push == IF heard THEN <<d>> ELSE <<>>
<1>1. /\ m \in Messages /\ m.kind = "put" /\ m.about = p /\ m.ok
      /\ d \in Messages /\ d.kind = "data" /\ d.about = p
  BY PutMessage DEF Kinds, Message
<1>2. replies' = replies \o push \o <<m>>
  OBVIOUS
<1> HIDE DEF d, m
<1>3. IF heard THEN PushedBoth(d, m) ELSE Pushed(m)
  BY <1>1, <1>2, PushAfter DEF SyncInv
<1>4. /\ Len(replies) \in Nat /\ Low \in Nat /\ Top \in Int /\ Low <= Top
      /\ \A r \in Answered : r.put \in Nat /\ r.put <= Low
  BY Numbers DEF SyncInv, PutInv
<1>5. p = Top + 1 /\ p \in Nat /\ link = "connected"
  <2>1. requests \in Seq(1..MaxPuts) /\ requests # <<>>
    BY DEF SyncInv, PutSyncTypeOK
  <2>2. 1 \in 1..Len(requests) /\ p = requests[1]
    BY <2>1, EmptySeq
  <2>3. QED
    BY <1>4, <2>2 DEF SyncInv, PutInv, LinkInv
<1>6. /\ Grew
      /\ heard => /\ Fresh = {Len(replies) + 1, Len(replies) + 2}
                  /\ replies'[Len(replies) + 1] = d /\ replies'[Len(replies) + 2] = m
      /\ ~heard => Fresh = {Len(replies) + 1} /\ replies'[Len(replies) + 1] = m
  BY <1>3, Grows DEF SyncInv, Pushed, PushedBoth
<1>7. \A i \in Fresh : replies'[i] \in {d, m} /\ (replies'[i] = d => heard /\ i = Len(replies) + 1)
  <2>1. d # m
    BY <1>1
  <2>2. QED
    BY <1>6, <2>1
<1>8. Answered' = Answered /\ ListWanted' = ListWanted /\ ListAsked' = ListAsked
  BY DEF Answered, ListWanted, ListAsked
<1>9. heard => ListWanted
  BY PutSyncAssumption DEF Calm, ListInv, ListWanted, SyncInv, PutSyncTypeOK
<1>10. ASSUME NEW i \in Fresh PROVE DataOK(i)'
  <2>1. SUFFICES ASSUME replies'[i] = d PROVE DataOK(i)'
    BY <1>1, <1>7, <1>10 DEF DataOK
  <2>2. replies'[i].about = Top + 1 /\ i = Len(replies) + 1
    BY <1>1, <1>5, <1>7, <1>10, <2>1
  <2>3. Covers(Top + 1, Answered)
    <3>1. Top + 1 # NoData
      BY <1>5, PutSyncAssumption
    <3>2. QED
      BY <1>4, <3>1 DEF Covers
  <2>4. ASSUME NEW j \in 1..Len(replies'), j < i, replies'[j].kind = "put"
        PROVE  Top + 1 >= replies'[j].about
    <3>1. j \in 1..Len(replies) /\ replies'[j] = replies[j]
      BY <1>4, <1>6, <2>2, <2>4 DEF Grew
    <3>2. replies[j].about \in Low + 1 .. Top
      BY <2>4, <3>1 DEF SyncInv, PutInv
    <3>3. QED
      BY <1>4, <3>1, <3>2
  <2>5. QED
    BY <1>8, <2>2, <2>3, <2>4 DEF DataOK, Covers
<1>11. \A i \in Fresh : ListOK(i)'
  BY <1>1, <1>7 DEF ListOK, ListReply, Sent
<1>12. ASSUME ListWanted, NEW i \in Fresh PROVE PutOK(i)'
  <2>1. CASE heard
    <3>1. SUFFICES ASSUME i = Len(replies) + 2 PROVE FollowsData(i)'
      BY <1>1, <1>6, <1>12, <2>1 DEF PutOK
    <3>2. i # 1 /\ i - 1 = Len(replies) + 1
      BY <1>4, <3>1
    <3>3. QED
      BY <1>1, <1>6, <2>1, <3>1, <3>2 DEF FollowsData
  <2>2. CASE ~heard
    <3>1. ListAsked
      BY <1>5, <1>12, <2>2 DEF Calm, ListInv, ListWanted, ListAsked
    <3>2. QED
      BY <1>8, <3>1 DEF PutOK
  <2>3. QED
    BY <2>1, <2>2
<1>13. DataInv' /\ ListReplyInv' /\ PutReplyInv' /\ (Later(0) => Later(0)')
  BY <1>6, <1>8, <1>10, <1>11, <1>12, PushMessages
<1>14. OrderInv' /\ ViewInv'
  BY <1>8, <1>13, PushClient
<1>15. ListInv'
  BY <1>1, <1>6, <1>7, <1>9, PushListInv DEF Calm
<1>16. QED
  BY <1>13, <1>14, <1>15 DEF Calm, FreshInv

LEMMA ServeListenCalm ==
    ASSUME SyncInv, Calm, NEW s \in Specs, ServeListen(s)
    PROVE  Calm'
<1> USE DEF ServeListen, client
<1> DEFINE d == Message("data", value, TRUE)
           m == Message("listen", s, TRUE)
           data == IF s \in ListSpecs THEN <<d>> ELSE <<>>
<1>1. /\ m \in Messages /\ m.kind = "listen" /\ m.about = s /\ m.ok
      /\ d \in Messages /\ d.kind = "data" /\ d.about = value
      /\ value \in Nat /\ value # NoData
  BY PutSyncAssumption DEF Kinds, Message, Messages, SyncInv, PutSyncTypeOK
<1>2. replies' = replies \o data \o <<m>>
  OBVIOUS
<1> HIDE DEF d, m
<1>3. IF s \in ListSpecs THEN PushedBoth(d, m) ELSE Pushed(m)
  BY <1>1, <1>2, PushAfter DEF SyncInv
<1>4. Len(replies) \in Nat
  BY Numbers DEF SyncInv
<1>5. /\ Grew
      /\ s \in ListSpecs =>
            /\ Fresh = {Len(replies) + 1, Len(replies) + 2}
            /\ replies'[Len(replies) + 1] = d /\ replies'[Len(replies) + 2] = m
      /\ s \notin ListSpecs => Fresh = {Len(replies) + 1} /\ replies'[Len(replies) + 1] = m
  BY <1>3, Grows DEF SyncInv, Pushed, PushedBoth
<1>6. \A i \in Fresh :
          replies'[i] \in {d, m} /\ (replies'[i] = d => s \in ListSpecs /\ i = Len(replies) + 1)
  <2>1. d # m
    BY <1>1
  <2>2. QED
    BY <1>5, <2>1
<1>7. Answered' = Answered /\ ListWanted' = ListWanted /\ s \in listens
  BY DEF Answered, ListWanted, Calm, ListInv
<1>8. \A i \in Fresh : PutOK(i)'
  BY <1>1, <1>6 DEF PutOK
<1>9. ASSUME NEW i \in Fresh PROVE DataOK(i)'
  <2>1. SUFFICES ASSUME replies'[i] = d PROVE DataOK(i)'
    BY <1>1, <1>6, <1>9 DEF DataOK
  <2>2. replies'[i].about = value /\ i = Len(replies) + 1
    BY <1>1, <1>6, <1>9, <2>1
  <2>3. Covers(value, Answered)
    BY <1>1 DEF Covers, SyncInv, AckInv
  <2>4. ASSUME NEW j \in 1..Len(replies'), j < i, replies'[j].kind = "put", replies'[j].ok
        PROVE  value >= replies'[j].about
    <3>1. j \in 1..Len(replies) /\ replies'[j] = replies[j]
      BY <1>4, <1>5, <2>2, <2>4 DEF Grew
    <3>2. QED
      BY <2>4, <3>1 DEF SyncInv, AckInv
  <2>5. QED
    BY <1>7, <2>2, <2>3, <2>4 DEF DataOK, Covers
<1>10. ASSUME NEW i \in Fresh PROVE ListOK(i)'
  <2>1. SUFFICES ASSUME ListReply(i)' PROVE i # 1 /\ replies'[i - 1].kind = "data"
    BY DEF ListOK
  <2>2. replies'[i] = m /\ s \in ListSpecs
    BY <1>1, <1>6, <1>10, <2>1 DEF ListReply, Sent
  <2>3. i = Len(replies) + 2
    <3>1. d # m
      BY <1>1
    <3>2. QED
      BY <1>5, <1>10, <2>2, <3>1
  <2>4. i # 1 /\ i - 1 = Len(replies) + 1
    BY <1>4, <2>3
  <2>5. QED
    BY <1>1, <1>5, <2>2, <2>4
<1>11. loading \in [Specs -> Nat] /\ ListSpecs \subseteq Specs
  BY PutSyncAssumption DEF SyncInv, PutSyncTypeOK
<1>12. /\ \A t \in Specs : loading'[t] > 0 \/ t \in active' => loading[t] > 0 \/ t \in active
       /\ \A t \in Specs : loading[t] > 0 \/ t \in active => loading'[t] > 0 \/ t \in active'
       /\ \A t \in Specs : t # s => loading'[t] = loading[t]
  BY <1>11
<1>13. ListAsked => ListAsked' \/ \E k \in Fresh : ListReply(k)'
  <2>1. CASE s \in ListSpecs
    <3>1. PICK k \in Fresh : replies'[k] = m
      BY <1>5, <2>1
    <3>2. ListReply(k)'
      BY <1>1, <2>1, <3>1 DEF ListReply, Sent, Fresh
    <3>3. QED
      BY <3>2
  <2>2. CASE s \notin ListSpecs
    BY <1>11, <1>12, <2>2 DEF ListAsked
  <2>3. QED
    BY <2>1, <2>2
<1>14. DataInv' /\ ListReplyInv' /\ PutReplyInv' /\ (Later(0) => Later(0)')
  BY <1>5, <1>8, <1>9, <1>10, <1>13, PushMessages
<1>15. ListAsked => ListAsked' \/ Later(0)'
  <2>1. \A k \in Fresh : k \in 1..Len(replies') /\ k > 0
    BY <1>4, <1>5 DEF Fresh
  <2>2. QED
    BY <1>13, <2>1 DEF Later
<1>16. OrderInv' /\ ViewInv'
  BY <1>14, <1>15, PushClient
<1>17. ListInv'
  <2>1. \A i \in Fresh :
            /\ replies'[i].kind # "revoked"
            /\ replies'[i].kind = "listen" => replies'[i].ok /\ replies'[i].about \in listens
            /\ replies'[i].kind = "data" => ListWanted
    BY <1>1, <1>6, <1>7 DEF ListWanted
  <2>2. QED
    BY <1>5, <1>12, <2>1, PushListInv DEF Calm
<1>18. QED
  BY <1>14, <1>16, <1>17 DEF Calm, FreshInv

-----------------------------------------------------------------------------
LEMMA AcceptInvInit == Init => AcceptInv
<1> SUFFICES ASSUME Init PROVE Calm
  BY DEF AcceptInv
<1>1. /\ replies = <<>> /\ listens = {} /\ cache = NoData /\ reported = <<>> /\ putsToAck = <<>>
      /\ link = "down" /\ active = {} /\ loading = None
  BY DEF Init
<1>2. 1..Len(replies) = {} /\ ~ListWanted /\ \A s \in Specs : ~(loading[s] > 0)
  BY <1>1 DEF ListWanted, None
<1>3. ListInv /\ OrderInv
  BY <1>1, <1>2 DEF ListInv, OrderInv
<1>4. FreshInv
  BY <1>1, <1>2 DEF FreshInv, DataInv, ListReplyInv, PutReplyInv, ViewInv
<1>5. QED
  BY <1>3, <1>4 DEF Calm

LEMMA AcceptInvStep == SyncInv /\ SyncInv' /\ AcceptInv /\ [Next]_vars => AcceptInv'
<1> SUFFICES ASSUME SyncInv, SyncInv', AcceptInv, [Next]_vars, denials' = 0 PROVE Calm'
  BY DEF AcceptInv
<1>1. denials \in Nat
  BY PutSyncAssumption DEF SyncInv, PutSyncTypeOK
<1>2. CASE UNCHANGED vars
  BY <1>2, CalmSame DEF AcceptInv, vars, client, wire, server
<1>3. CASE PutInternal
  BY <1>3, CalmSame DEF AcceptInv, PutInternal, server
<1>4. CASE \E s \in Specs : Listen(s)
  <2>1. denials = 0
    BY <1>4 DEF Listen
  <2>2. QED
    BY <1>4, <2>1, ListenCalm DEF AcceptInv
<1>5. CASE \E token \in BOOLEAN : OnReady(token)
  <2>1. denials = 0
    BY <1>5 DEF OnReady
  <2>2. QED
    BY <1>5, <2>1, OnReadyCalm DEF AcceptInv
<1>6. CASE OnDisconnect \/ OnKill
  <2>1. denials = 0 /\ Severed
    BY <1>6 DEF OnDisconnect, OnKill, Severed
  <2>2. QED
    BY <2>1, SeveredCalm DEF AcceptInv
<1>7. CASE OnMessage
  <2>1. denials = 0
    BY <1>7 DEF OnMessage, OnAuthenticated, OnPutReply, OnListenReply, OnDataUpdate,
       OnListenRevoked
  <2>2. ~OnListenRevoked
    <3>1. SUFFICES ASSUME Handle("revoked") PROVE FALSE
      BY DEF OnListenRevoked
    <3>2. Len(replies) \in Nat /\ Len(replies) > 0 /\ replies[1].kind = "revoked"
      BY <3>1, HandlePops DEF SyncInv
    <3>3. 1 \in 1..Len(replies)
      BY <3>2
    <3>4. QED
      BY <2>1, <3>2, <3>3 DEF AcceptInv, Calm, ListInv
  <2>3. QED
    BY <1>7, <2>1, <2>2, OnAuthenticatedCalm, OnPutReplyCalm, OnListenReplyCalm, OnDataUpdateCalm
    DEF AcceptInv, OnMessage
<1>8. CASE Authenticate \/ ServePut \/ RefusePut
  <2>1. denials = 0
    BY <1>8 DEF Authenticate, ServePut, RefusePut
  <2>2. QED
    BY <1>8, <2>1, AuthenticateCalm, ServePutCalm, RefusePutCalm DEF AcceptInv
<1>9. CASE \E s \in Specs : ServeListen(s)
  <2>1. denials = 0
    BY <1>9 DEF ServeListen
  <2>2. QED
    BY <1>9, <2>1, ServeListenCalm DEF AcceptInv
<1>10. CASE \E s \in Specs : DenyListen(s) \/ RevokeListen(s)
  <2>1. denials' = denials + 1
    BY <1>10 DEF DenyListen, RevokeListen
  <2>2. QED
    BY <1>1, <2>1
<1>11. QED
  BY <1>2, <1>3, <1>4, <1>5, <1>6, <1>7, <1>8, <1>9, <1>10 DEF Next

\* What holds, besides, as long as the server has granted every listen.
THEOREM AcceptInvariant == Spec => []AcceptInv
  BY SyncInvariant, AcceptInvInit, AcceptInvStep, PTL DEF Spec

LEMMA NewestIsShown ==
    ASSUME SyncInv, OrderInv, ViewInv
    PROVE  NoFlicker
<1>1. SUFFICES ASSUME Shown # NoData, NEW r \in Range(reported), r.ok
               PROVE  Shown >= r.put
  BY DEF NoFlicker
<1>2. CASE PendingWrites = {}
  BY <1>1, <1>2 DEF Shown, ViewInv, Covers
<1>3. CASE PendingWrites # {}
  <2>1. /\ reported \in Seq(Results) /\ putsToAck \in Seq(Results) /\ Low \in Nat
        /\ Len(reported) \in Nat /\ Len(putsToAck) \in Nat /\ putCounter \in Nat
        /\ MaxPuts \in Nat /\ outstanding \subseteq 1..MaxPuts
    BY Numbers DEF SyncInv, PutSyncTypeOK
  <2>2. PICK i \in 1..Len(reported) : r = reported[i]
    BY <1>1, <2>1 DEF Range
  <2>3. r.put = i
    BY <2>2 DEF OrderInv
  <2>4. ASSUME NEW p \in PendingWrites PROVE p \in 1..MaxPuts /\ p > Len(reported)
    <3>1. CASE p \in outstanding
      BY <2>1, <3>1 DEF SyncInv, PutInv, Low
    <3>2. CASE p \notin outstanding
      <4>1. PICK j \in 1..Len(putsToAck) : p = putsToAck[j].put
        BY <2>1, <2>4, <3>2 DEF PendingWrites, Range
      <4>2. p = Len(reported) + j /\ putsToAck[j] \in Results
        BY <2>1, <4>1 DEF OrderInv
      <4>3. QED
        <5>1. p \in 1..MaxPuts
          BY <4>1, <4>2 DEF Results
        <5>2. p > Len(reported)
          BY <2>1, <4>1, <4>2
        <5>3. QED
          BY <5>1, <5>2
    <3>3. QED
      BY <3>1, <3>2
  <2>5. \E p \in PendingWrites : \A q \in PendingWrites : q <= p
    <3>1. PendingWrites \subseteq Nat /\ \A q \in PendingWrites : q <= MaxPuts
      BY <2>1, <2>4
    <3>2. QED
      BY <1>3, <2>1, <3>1, GreatestExists
  <2>6. Shown \in PendingWrites
    BY <1>3, <2>5 DEF Shown
  <2>7. QED
    BY <2>1, <2>2, <2>3, <2>4, <2>6
<1>4. QED
  BY <1>2, <1>3

\* Once the block of a write has been called with a success, the client never
\* again shows an older value of the directory: outstandingPuts, putsToAck and
\* unackedListensCount together see to it, as long as listens are granted.
THEOREM NothingFlickers == Spec => [](denials = 0 => NoFlicker)
<1>1. SyncInv /\ AcceptInv => (denials = 0 => NoFlicker)
  BY NewestIsShown DEF AcceptInv, Calm, FreshInv
<1>2. QED
  BY <1>1, SyncInvariant, AcceptInvariant, PTL

-----------------------------------------------------------------------------
(* The client implements PutQueue.                                         *)

LEMMA ReportedNext ==
    ASSUME SyncInv, SyncInv', OrderInv', UNCHANGED <<putCounter, stored>>,
           Len(reported) < Len(reported'),
           \A i \in 1..Len(reported) : reported'[i] = reported[i]
    PROVE  PQ!Report
<1>1. /\ reported \in Seq(Results) /\ reported' \in Seq(Results)
      /\ Len(reported) \in Nat /\ Len(reported') \in Nat /\ Len(putsToAck') \in Nat
      /\ Len(requests') \in Nat /\ putCounter' \in Nat
  BY LenProperties DEF SyncInv, PutSyncTypeOK
<1>2. Len(reported') <= putCounter
  BY <1>1 DEF SyncInv, PutInv, Low, Top
<1>3. SubSeq(reported', 1, Len(reported)) = reported
  <2> DEFINE q == SubSeq(reported', 1, Len(reported))
  <2>1. \A i \in 1..Len(reported) : reported'[i] \in Results
    BY <1>1
  <2>2. /\ q \in Seq(Results)
        /\ Len(q) = IF 1 <= Len(reported) THEN Len(reported) - 1 + 1 ELSE 0
        /\ \A i \in 1..Len(reported) - 1 + 1 : q[i] = reported'[1 + i - 1]
    BY <1>1, <2>1, SubSeqProperties
  <2> HIDE DEF q
  <2>3. Len(q) = Len(reported) /\ \A i \in 1..Len(q) : q[i] = reported[i]
    BY <1>1, <2>2
  <2>4. QED
    BY <1>1, <2>2, <2>3, SeqEqual DEF q
<1>4. ASSUME NEW i \in Len(reported) + 1 .. Len(reported')
      PROVE  reported'[i].put = i /\ (reported'[i].ok => i \in stored)
  <2>1. i \in 1..Len(reported')
    BY <1>1
  <2>2. reported'[i].put = i
    BY <2>1 DEF OrderInv
  <2>3. reported'[i] \in Answered'
    BY <1>1, <2>1 DEF Answered, Range
  <2>4. QED
    BY <2>2, <2>3 DEF SyncInv, AckInv
<1>5. QED
  BY <1>2, <1>3, <1>4 DEF PQ!Report

LEMMA StepKeepsOrder ==
    ASSUME SyncInv, SyncInv', Calm, Calm', [Next]_vars
    PROVE  [PQ!Next]_PQ!vars
<1>1. CASE UNCHANGED <<putCounter, stored, reported>>
  BY <1>1 DEF PQ!vars
<1>2. CASE PutInternal
  BY <1>2 DEF PutInternal, server, PQ!Next, PQ!Issue
<1>3. CASE ServePut
  <2>1. requests \in Seq(1..MaxPuts) /\ requests # <<>> /\ putCounter \in Nat
    BY <1>3, Numbers DEF SyncInv, PutSyncTypeOK, ServePut
  <2>2. Len(requests) \in Nat \ {0} /\ Head(requests) = requests[1]
    <3>1. Len(requests) \in Nat \ {0}
      BY <2>1, EmptySeq
    <3>2. Head(requests) = requests[1]
      BY <2>1
    <3>3. QED
      BY <3>1, <3>2
  <2>3. Head(requests) \in 1..putCounter
    <3>1. 1 \in 1..Len(requests) /\ Low \in Nat
      BY <2>2, Numbers DEF SyncInv
    <3>2. requests[1] = Top + 1 /\ Low <= Top
      BY <3>1 DEF SyncInv, PutInv
    <3>3. QED
      BY <2>1, <2>2, <3>1, <3>2 DEF Top
  <2>4. stored' = stored \cup {Head(requests)} /\ UNCHANGED <<putCounter, reported>>
    BY <1>3 DEF ServePut, client
  <2>5. QED
    BY <2>3, <2>4 DEF PQ!Next, PQ!Store
<1>4. CASE OnPutReply
  <2>1. UNCHANGED <<putCounter, stored>>
    BY <1>4 DEF OnPutReply, server
  <2>2. CASE reported' = reported
    BY <1>1, <2>1, <2>2
  <2>3. CASE reported' # reported
    <3>1. reported' = Append(reported, Result) /\ Result \in Results
      BY <1>4, <2>3, AnswersInOrder DEF OnPutReply
    <3>2. /\ Len(reported') = Len(reported) + 1 /\ Len(reported) \in Nat
          /\ \A i \in 1..Len(reported) : reported'[i] = reported[i]
      BY <3>1, AppendProperties, LenProperties DEF SyncInv, PutSyncTypeOK
    <3>3. Len(reported) < Len(reported')
      BY <3>2
    <3>4. PQ!Report
      BY <2>1, <3>2, <3>3, ReportedNext DEF Calm
    <3>5. QED
      BY <3>4 DEF PQ!Next
  <2>4. QED
    BY <2>2, <2>3
<1>5. CASE OnListenReply
  <2>1. UNCHANGED <<putCounter, stored>>
    BY <1>5 DEF OnListenReply, server
  <2>2. CASE reported' = reported
    BY <1>1, <2>1, <2>2
  <2>3. CASE reported' # reported
    <3>1. AckPuts
      BY <1>5, <2>3 DEF OnListenReply
    <3>2. putsToAck # <<>> /\ putsToAck \in Seq(Results) /\ reported \in Seq(Results)
      BY <2>3, <3>1, ConcatEmptySeq DEF AckPuts, SyncInv, PutSyncTypeOK
    <3>3. Len(putsToAck) \in Nat \ {0} /\ Len(reported) \in Nat
      BY <3>2, EmptySeq
    <3>4. /\ Len(reported') = Len(reported) + Len(putsToAck)
          /\ \A i \in 1..Len(reported) : reported'[i] = reported[i]
      BY <3>1, AckPutsKeeps DEF SyncInv, Low
    <3>5. Len(reported) < Len(reported')
      BY <3>3, <3>4
    <3>6. PQ!Report
      BY <2>1, <3>4, <3>5, ReportedNext DEF Calm
    <3>7. QED
      BY <3>6 DEF PQ!Next
  <2>4. QED
    BY <2>2, <2>3
<1>6. CASE OnAuthenticated \/ OnDataUpdate \/ OnListenRevoked
  BY <1>1, <1>6 DEF OnAuthenticated, OnDataUpdate, OnListenRevoked, server
<1>7. CASE \/ OnDisconnect \/ OnKill
           \/ \E s \in Specs : Listen(s)
           \/ \E token \in BOOLEAN : OnReady(token)
  BY <1>1, <1>7 DEF OnDisconnect, OnKill, Severed, Listen, OnReady, server
<1>8. CASE Authenticate \/ RefusePut
  BY <1>1, <1>8 DEF Authenticate, RefusePut, client, server
<1>9. CASE \E s \in Specs : ServeListen(s) \/ DenyListen(s) \/ RevokeListen(s)
  BY <1>1, <1>9 DEF ServeListen, DenyListen, RevokeListen, client
<1>10. CASE UNCHANGED vars
  BY <1>1, <1>10 DEF vars, client, server
<1>11. QED
  BY <1>2, <1>3, <1>4, <1>5, <1>6, <1>7, <1>8, <1>9, <1>10 DEF Next, OnMessage

\* Whatever connections break and whichever listens hold blocks back, the
\* blocks of setValue are called once each and in order, with a success only
\* for what the server has stored: putInternal, restoreState and ackPuts
\* implement PutQueue, for a server that denies no listen.
THEOREM OrderIsKept ==
    ASSUME MaxDenials = 0
    PROVE  Spec => KeepsOrder
<1>1. Init => PQ!Init
  BY DEF Init, PQ!Init
<1>2. SyncInv /\ SyncInv' /\ AcceptInv /\ AcceptInv' => Calm /\ Calm'
  BY DEF SyncInv, PutSyncTypeOK, AcceptInv
<1>3. SyncInv /\ SyncInv' /\ AcceptInv /\ AcceptInv' /\ [Next]_vars => [PQ!Next]_PQ!vars
  BY <1>2, StepKeepsOrder
<1>4. QED
  BY <1>1, <1>3, SyncInvariant, AcceptInvariant, PTL DEF Spec, KeepsOrder, PQ!Spec
=============================================================================
