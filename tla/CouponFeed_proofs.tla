------------------------- MODULE CouponFeed_proofs --------------------------
(***************************************************************************)
(* Proofs about the live lists, for any finite set of keys, any texts and  *)
(* any number of changes.  The invariants of CouponFeed speak of the       *)
(* moment when the run loop is drained; FeedInv says what must hold before *)
(* that: the last thing queued is what the subject last sent, a failure is *)
(* queued last and once, and the initial nil can only be the first.        *)
(***************************************************************************)
EXTENDS CouponFeed, SequenceTheorems, FiniteSetTheorems, TLAPS

Items == (Views \ {Empty}) \cup {Nil, Failure}

\* The list is what the sink makes of the value v.
Shows(v) == coupons \in IF v = Nil THEN {<<>>} ELSE Listings(v)

\* While the subject is open, the last value sent is the last one queued or,
\* when nothing is queued, the one shown.
LastInv ==
    alive /\ open => IF queue = <<>> THEN Shows(subject)
                                     ELSE queue[Len(queue)] = subject

\* A failure closes the subject, is the last thing queued and is told once.
FailInv ==
    /\ \A i \in 1..Len(queue) : queue[i] = Failure => i = Len(queue) /\ ~open
    /\ alive /\ open => alerts = 0
    /\ alive /\ ~open => IF queue = <<>> THEN alerts = 1
                         ELSE alerts = 0 /\ queue[Len(queue)] = Failure

\* The initial nil comes first, to an empty list.
NilInv == \A i \in 1..Len(queue) : queue[i] = Nil => i = 1 /\ coupons = <<>>

StreamInv == LastInv /\ FailInv /\ NilInv /\ (~alive => queue = <<>>)

\* An open subject has sent what the SDK believes, or nothing yet.
SubjectInv ==
    alive /\ open => /\ observer # "cancelled"
                     /\ subject = IF observer = "synced" THEN LocalView ELSE Nil

FeedInv == TypeOK /\ StreamInv /\ SubjectInv

-----------------------------------------------------------------------------
LEMMA OneElement ==
    ASSUME NEW S, NEW x \in S
    PROVE  <<x>> \in Seq(S) /\ Len(<<x>>) = 1 /\ <<x>> # <<>>
  OBVIOUS

LEMMA OverlayType ==
    ASSUME NEW b \in Views, NEW p \in [Keys -> Seq(Values)]
    PROVE  Overlay(b, p) \in Views
<1>1. ASSUME NEW k \in Keys, p[k] # <<>> PROVE p[k][Len(p[k])] \in Values
  <2>1. p[k] \in Seq(Values)
    OBVIOUS
  <2>2. Len(p[k]) \in 1..Len(p[k])
    BY <1>1, <2>1
  <2>3. QED
    BY <2>1, <2>2
<1>2. QED
  BY <1>1 DEF Overlay, Views

\* A list of coupons is a sequence of rows, and empty only for no coupons.
LEMMA ListingsType ==
    ASSUME NEW v \in Views, NEW l \in Listings(v)
    PROVE  l \in Seq(Rows) /\ (v # Empty => l # <<>>)
<1>1. PICK s \in [1..Cardinality(Present(v)) -> Present(v)] :
              l = [i \in DOMAIN s |-> Row(v, s[i])]
  BY DEF Listings
<1>2. IsFiniteSet(Present(v)) /\ Present(v) \subseteq Keys
  BY FeedAssumption, FS_Subset DEF Present
<1>3. Cardinality(Present(v)) \in Nat
  BY <1>2, FS_CardinalityType
<1>4. \A k \in Present(v) : Row(v, k) \in Rows
  BY FeedAssumption DEF Present, Row, Rows, Views, Values
<1>5. l \in [1..Cardinality(Present(v)) -> Rows]
  BY <1>1, <1>4
<1>6. l \in Seq(Rows)
  BY <1>3, <1>5
<1>7. ASSUME v # Empty PROVE l # <<>>
  <2>1. Present(v) # {}
    BY <1>7 DEF Present, Empty, Views
  <2>2. Cardinality(Present(v)) # 0
    BY <1>2, <2>1, FS_EmptySet
  <2>3. 1 \in DOMAIN l
    BY <1>3, <1>5, <2>2
  <2>4. QED
    BY <2>3
<1>8. QED
  BY <1>6, <1>7

\* Sending to the subject keeps the stream in order.
LEMMA SendStep ==
    ASSUME TypeOK, StreamInv, NEW v \in Views \ {Empty}, Send(v),
           UNCHANGED <<coupons, alerts, alive>>
    PROVE  /\ StreamInv'
           /\ subject' \in (Views \ {Empty}) \cup {Nil} /\ open' \in BOOLEAN
           /\ queue' \in Seq(Items)
           /\ alive /\ open' => subject' = v
<1> USE FeedAssumption DEF TypeOK
<1>0. queue \in Seq(Items)
  BY DEF Items
<1>1. CASE ~(alive /\ open)
  BY <1>0, <1>1 DEF Send, stream, StreamInv, LastInv, FailInv, NilInv, Shows
<1>2. CASE alive /\ open
  <2>1. subject' = v /\ queue' = Append(queue, v) /\ open' = open
    BY <1>2 DEF Send
  <2>2. v \in Items /\ v # Nil /\ v # Failure
    BY DEF Items
  <2>3. /\ queue' \in Seq(Items)
        /\ Len(queue') = Len(queue) + 1
        /\ queue'[Len(queue')] = v
        /\ \A i \in 1..Len(queue) : queue'[i] = queue[i]
    BY <1>0, <2>1, <2>2, AppendProperties
  <2>4. queue' # <<>> /\ Len(queue) \in Nat
    BY <1>0, <2>3
  <2>5. LastInv'
    BY <2>1, <2>3, <2>4 DEF LastInv
  <2>6. FailInv'
    BY <1>2, <2>1, <2>2, <2>3, <2>4 DEF StreamInv, FailInv
  <2>7. NilInv'
    BY <1>2, <2>1, <2>2, <2>3, <2>4 DEF StreamInv, NilInv
  <2>8. QED
    BY <1>2, <2>1, <2>3, <2>5, <2>6, <2>7 DEF StreamInv
<1>3. QED
  BY <1>1, <1>2

LEMMA FailStep ==
    ASSUME TypeOK, StreamInv, SendFailure,
           UNCHANGED <<coupons, alerts, alive>>
    PROVE  /\ StreamInv'
           /\ subject' \in (Views \ {Empty}) \cup {Nil} /\ open' \in BOOLEAN
           /\ queue' \in Seq(Items)
           /\ alive => ~open'
<1> USE FeedAssumption DEF TypeOK
<1>0. queue \in Seq(Items)
  BY DEF Items
<1>1. CASE ~(alive /\ open)
  BY <1>0, <1>1 DEF SendFailure, stream, StreamInv, LastInv, FailInv, NilInv, Shows
<1>2. CASE alive /\ open
  <2>1. open' = FALSE /\ queue' = Append(queue, Failure) /\ subject' = subject
    BY <1>2 DEF SendFailure
  <2>2. Failure \in Items /\ Failure # Nil
    BY DEF Items
  <2>3. /\ queue' \in Seq(Items)
        /\ Len(queue') = Len(queue) + 1
        /\ queue'[Len(queue')] = Failure
        /\ \A i \in 1..Len(queue) : queue'[i] = queue[i]
    BY <1>0, <2>1, <2>2, AppendProperties
  <2>4. queue' # <<>> /\ Len(queue) \in Nat
    BY <1>0, <2>3
  <2>5. FailInv'
    BY <1>2, <2>1, <2>2, <2>3, <2>4 DEF StreamInv, FailInv
  <2>6. NilInv'
    BY <1>2, <2>1, <2>2, <2>3, <2>4 DEF StreamInv, NilInv
  <2>7. LastInv'
    BY <2>1 DEF LastInv
  <2>8. QED
    BY <1>2, <2>1, <2>3, <2>5, <2>6, <2>7 DEF StreamInv
<1>3. QED
  BY <1>1, <1>2

LEMMA SnapshotStep ==
    ASSUME TypeOK, StreamInv, NEW v \in Views, Snapshot(v),
           UNCHANGED <<coupons, alerts, alive>>
    PROVE  /\ StreamInv'
           /\ subject' \in (Views \ {Empty}) \cup {Nil} /\ open' \in BOOLEAN
           /\ queue' \in Seq(Items)
           /\ alive /\ open' => subject' = v
<1>1. CASE v = Empty
  BY <1>1, FailStep DEF Snapshot
<1>2. CASE v # Empty
  BY <1>2, SendStep DEF Snapshot
<1>3. QED
  BY <1>1, <1>2

\* Whatever changes the SDK's belief, the subject follows.
LEMMA BelieveStep ==
    ASSUME FeedInv, NEW b \in Views, NEW p \in [Keys -> Seq(Values)],
           Believe(b, p), db' \in Views, edits' \in 0..MaxEdits,
           UNCHANGED <<observer, screen, timer, alive>>
    PROVE  FeedInv'
<1> USE DEF FeedInv
<1> DEFINE v == Overlay(b, p)
<1>1. v \in Views
  BY OverlayType
<1>2. base' = b /\ pending' = p /\ LocalView' = v
  BY DEF Believe, LocalView, Overlay
<1>3. UNCHANGED <<coupons, isShowLoading, alerts, observer, timer, alive>>
  BY DEF screen
<1>4. CASE observer = "synced" /\ v # LocalView
  <2>1. Snapshot(v)
    BY <1>4 DEF Believe
  <2>2. /\ StreamInv'
        /\ subject' \in (Views \ {Empty}) \cup {Nil} /\ open' \in BOOLEAN
        /\ queue' \in Seq(Items)
        /\ alive /\ open' => subject' = v
    BY <1>1, <1>3, <2>1, SnapshotStep
  <2>3. TypeOK'
    BY <1>2, <1>3, <2>2 DEF TypeOK, Items
  <2>4. SubjectInv'
    BY <1>2, <1>3, <1>4, <2>2 DEF SubjectInv
  <2>5. QED
    BY <2>2, <2>3, <2>4
<1>5. CASE ~(observer = "synced" /\ v # LocalView)
  <2>1. UNCHANGED <<subject, open, queue>>
    BY <1>5 DEF Believe, stream
  <2>2. StreamInv'
    BY <1>3, <2>1 DEF StreamInv, LastInv, FailInv, NilInv, Shows
  <2>3. TypeOK'
    BY <1>2, <1>3, <2>1 DEF TypeOK
  <2>4. SubjectInv'
    BY <1>2, <1>3, <1>5, <2>1 DEF SubjectInv
  <2>5. QED
    BY <2>2, <2>3, <2>4
<1>6. QED
  BY <1>4, <1>5

LEMMA WriteStep ==
    ASSUME FeedInv, NEW k, NEW x \in Values, Write(k, x)
    PROVE  FeedInv'
<1>1. [pending EXCEPT ![k] = Append(@, x)] \in [Keys -> Seq(Values)]
  <2>1. pending \in [Keys -> Seq(Values)]
    BY DEF FeedInv, TypeOK
  <2>2. k \in Keys => Append(pending[k], x) \in Seq(Values)
    BY <2>1
  <2>3. QED
    BY <2>1, <2>2
<1>2. edits' \in 0..MaxEdits
  BY FeedAssumption DEF Write, FeedInv, TypeOK
<1>3. base \in Views /\ db' \in Views
  BY DEF Write, FeedInv, TypeOK
<1>4. QED
  BY <1>1, <1>2, <1>3, BelieveStep DEF Write

LEMMA DeliverStep ==
    ASSUME FeedInv, Deliver
    PROVE  FeedInv'
<1> USE FeedAssumption DEF FeedInv, TypeOK
<1>0. queue \in Seq(Items) /\ queue # <<>>
  BY DEF Deliver, Items
<1>1. /\ queue' \in Seq(Items)
      /\ Len(queue) \in Nat \ {0}
      /\ Len(queue') = Len(queue) - 1
      /\ \A i \in 1..Len(queue') : queue'[i] = queue[i + 1]
      /\ Head(queue) = queue[1] /\ Head(queue) \in Items
  BY <1>0, HeadTailProperties, EmptySeq DEF Deliver
<1>2. queue' = <<>> <=> Len(queue) = 1
  BY <1>1, EmptySeq
<1>3. alive
  BY <1>0 DEF StreamInv
<1>4. UNCHANGED <<db, base, pending, observer, subject, open, timer, alive, edits>>
  BY DEF Deliver, server
<1>5. isShowLoading' = FALSE
  BY DEF Deliver
<1>6. ASSUME coupons' \in Seq(Rows), alerts' \in Nat PROVE TypeOK'
  <2> HIDE DEF TypeOK, FeedInv
  <2>1. queue' \in Seq((Views \ {Empty}) \cup {Nil, Failure})
    BY <1>1 DEF Items
  <2>2. /\ db \in Views /\ base \in Views /\ pending \in [Keys -> Seq(Values)]
        /\ observer \in {"queued", "listening", "synced", "cancelled"}
        /\ subject \in (Views \ {Empty}) \cup {Nil}
        /\ open \in BOOLEAN /\ timer \in BOOLEAN /\ alive \in BOOLEAN
        /\ edits \in 0..MaxEdits
    BY DEF TypeOK, FeedInv
  <2>3. QED
    BY <1>4, <1>5, <1>6, <2>1, <2>2 DEF TypeOK
<1>7. CASE Head(queue) = Failure
  <2>1. alerts' = alerts + 1 /\ coupons' = coupons
    BY <1>7 DEF Deliver
  <2>2. Len(queue) = 1 /\ ~open /\ alerts = 0
    BY <1>0, <1>1, <1>3, <1>7 DEF StreamInv, FailInv
  <2>3. queue' = <<>> /\ Len(queue') = 0
    BY <1>1, <1>2, <2>2
  <2>4. StreamInv'
    BY <1>3, <1>4, <2>1, <2>2, <2>3 DEF StreamInv, LastInv, FailInv, NilInv
  <2>5. TypeOK'
    <3>1. alerts' \in Nat
      BY <2>1
    <3>2. QED
      BY <1>6, <2>1, <3>1
  <2>6. SubjectInv'
    BY <1>4, <2>2 DEF SubjectInv
  <2>7. QED
    BY <2>4, <2>5, <2>6
<1>8. CASE Head(queue) # Failure
  <2>1. /\ coupons' \in IF Head(queue) = Nil THEN {<<>>} ELSE Listings(Head(queue))
        /\ alerts' = alerts
    BY <1>8 DEF Deliver
  <2>2. coupons' \in Seq(Rows)
    <3>1. CASE Head(queue) = Nil
      BY <2>1, <3>1, EmptySeq
    <3>2. CASE Head(queue) # Nil
      <4>1. Head(queue) \in Views
        BY <1>1, <1>8, <3>2 DEF Items
      <4>2. coupons' \in Listings(Head(queue))
        BY <2>1, <3>2
      <4>3. QED
        BY <4>1, <4>2, ListingsType
    <3>3. QED
      BY <3>1, <3>2
  <2>3. TypeOK'
    <3>1. alerts' \in Nat
      BY <2>1
    <3>2. QED
      BY <1>6, <2>2, <3>1
  <2>4. SubjectInv'
    BY <1>4 DEF SubjectInv, LocalView, Overlay
  <2>5. LastInv'
    <3>1. CASE queue' = <<>>
      BY <1>1, <1>2, <1>3, <1>4, <2>1, <3>1, <1>0 DEF StreamInv, LastInv, Shows
    <3>2. CASE queue' # <<>>
      <4>1. queue'[Len(queue')] = queue[Len(queue)]
        BY <1>1, <1>2, <3>2
      <4>2. QED
        BY <1>0, <1>4, <3>2, <4>1 DEF StreamInv, LastInv
    <3>3. QED
      BY <3>1, <3>2
  <2>6. FailInv'
    <3>1. queue[Len(queue)] = Failure => queue' # <<>>
      BY <1>1, <1>2, <1>8
    <3>2. queue' # <<>> => queue'[Len(queue')] = queue[Len(queue)]
      BY <1>1, <1>2
    <3>3. \A i \in 1..Len(queue') : queue'[i] = Failure => i = Len(queue') /\ ~open
      BY <1>1 DEF StreamInv, FailInv
    <3>4. QED
      BY <1>0, <1>3, <1>4, <2>1, <3>1, <3>2, <3>3 DEF StreamInv, FailInv
  <2>7. NilInv'
    BY <1>1 DEF StreamInv, NilInv
  <2>8. QED
    BY <1>3, <1>4, <2>3, <2>4, <2>5, <2>6, <2>7 DEF StreamInv
<1>9. QED
  BY <1>7, <1>8

LEMMA FeedInvInit == ASSUME Init PROVE FeedInv
<1> USE FeedAssumption DEF Init, Rejected, Subscribed
<1>1. queue \in Seq(Items) /\ Len(queue) = 1 /\ queue # <<>>
  <2>1. queue = <<Nil>> \/ queue = <<Failure>>
    OBVIOUS
  <2>2. Nil \in Items /\ Failure \in Items
    BY DEF Items
  <2>3. QED
    BY <2>1, <2>2, OneElement
<1>2. pending \in [Keys -> Seq(Values)]
  <2>1. <<>> \in Seq(Values)
    BY EmptySeq
  <2>2. QED
    BY <2>1
<1>3. base \in Views
  BY DEF Empty, Views, Values
<1>4. coupons \in Seq(Rows)
  BY EmptySeq
<1>5. TypeOK
  <2>1. /\ observer \in {"queued", "listening", "synced", "cancelled"}
        /\ open \in BOOLEAN /\ timer \in BOOLEAN
    OBVIOUS
  <2>2. edits \in 0..MaxEdits /\ alerts \in Nat
    OBVIOUS
  <2>3. QED
    BY <1>1, <1>2, <1>3, <1>4, <2>1, <2>2 DEF TypeOK, Items
<1>6. StreamInv
  BY <1>1 DEF StreamInv, LastInv, FailInv, NilInv
<1>7. SubjectInv
  BY DEF SubjectInv
<1>8. QED
  BY <1>5, <1>6, <1>7 DEF FeedInv

\* One case per operation of the feed.
LEMMA FeedInvStep == ASSUME FeedInv, [Next]_vars PROVE FeedInv'
<1> USE DEF FeedInv
<1>1. CASE UNCHANGED vars
  BY <1>1 DEF vars, server, stream, screen, TypeOK, StreamInv, LastInv, FailInv,
              NilInv, Shows, SubjectInv, LocalView, Overlay
<1>2. CASE RunObserveBlock
  BY <1>2 DEF RunObserveBlock, stream, screen, TypeOK, StreamInv, LastInv, FailInv,
              NilInv, Shows, SubjectInv
<1>3. CASE FirstSync
  <2>1. /\ observer = "listening" /\ observer' = "synced" /\ base' = db
        /\ UNCHANGED <<db, pending, coupons, isShowLoading, alerts, timer, alive, edits>>
        /\ Snapshot(Overlay(db, pending))
    BY <1>3 DEF FirstSync, screen
  <2>2. Overlay(db, pending) \in Views /\ LocalView' = Overlay(db, pending)
    BY <2>1, OverlayType DEF TypeOK, LocalView, Overlay
  <2>3. /\ StreamInv'
        /\ subject' \in (Views \ {Empty}) \cup {Nil} /\ open' \in BOOLEAN
        /\ queue' \in Seq(Items)
        /\ alive /\ open' => subject' = Overlay(db, pending)
    BY <2>1, <2>2, SnapshotStep
  <2>4. TypeOK'
    BY <2>1, <2>3 DEF TypeOK, Items
  <2>5. SubjectInv'
    BY <2>1, <2>2, <2>3 DEF SubjectInv
  <2>6. QED
    BY <2>3, <2>4, <2>5
<1>4. CASE Sync
  BY <1>4, BelieveStep DEF Sync, TypeOK
<1>5. CASE ObserverCancelled
  <2>1. /\ observer' = "cancelled" /\ SendFailure
        /\ UNCHANGED <<db, base, pending, coupons, isShowLoading, alerts, timer,
                       alive, edits>>
    BY <1>5 DEF ObserverCancelled, screen
  <2>2. /\ StreamInv'
        /\ subject' \in (Views \ {Empty}) \cup {Nil} /\ open' \in BOOLEAN
        /\ queue' \in Seq(Items)
        /\ alive => ~open'
    BY <2>1, FailStep
  <2>3. TypeOK'
    BY <2>1, <2>2 DEF TypeOK, Items
  <2>4. SubjectInv'
    BY <2>1, <2>2 DEF SubjectInv
  <2>5. QED
    BY <2>2, <2>3, <2>4
<1>6. ASSUME NEW k \in Keys, NEW x \in Values, RemoteEdit(k, x) PROVE FeedInv'
  <2>1. db' \in Views /\ edits' \in 0..MaxEdits
    BY <1>6, FeedAssumption DEF RemoteEdit, TypeOK, Views
  <2>2. UNCHANGED <<base, pending, observer, subject, open, queue, coupons,
                    isShowLoading, alerts, timer, alive>>
    BY <1>6 DEF RemoteEdit, stream, screen
  <2>3. QED
    BY <2>1, <2>2 DEF TypeOK, StreamInv, LastInv, FailInv, NilInv, Shows,
                      SubjectInv, LocalView, Overlay
<1>7. ASSUME NEW k \in Keys, pending[k] # <<>>
      PROVE  /\ [db EXCEPT ![k] = Head(pending[k])] \in Views
             /\ [pending EXCEPT ![k] = Tail(@)] \in [Keys -> Seq(Values)]
  <2>1. pending[k] \in Seq(Values)
    BY DEF TypeOK
  <2>2. Head(pending[k]) \in Values /\ Tail(pending[k]) \in Seq(Values)
    BY <1>7, <2>1, HeadTailProperties
  <2>3. QED
    BY <2>2 DEF TypeOK, Views
<1>8. ASSUME NEW k \in Keys, ServeWrite(k) PROVE FeedInv'
  <2>1. db' \in Views
    BY <1>7, <1>8 DEF ServeWrite
  <2>2. UNCHANGED <<base, pending, observer, subject, open, queue, coupons,
                    isShowLoading, alerts, timer, alive, edits>>
    BY <1>8 DEF ServeWrite, stream, screen
  <2>3. QED
    BY <2>1, <2>2 DEF TypeOK, StreamInv, LastInv, FailInv, NilInv, Shows,
                      SubjectInv, LocalView, Overlay
<1>9. ASSUME NEW k \in Keys, AckWrite(k) PROVE FeedInv'
  BY <1>7, <1>9, BelieveStep DEF AckWrite, TypeOK
<1>10. ASSUME NEW k \in Keys, RejectWrite(k) PROVE FeedInv'
  BY <1>7, <1>10, BelieveStep DEF RejectWrite, TypeOK
<1>11. ASSUME NEW k \in Keys, NEW t \in Texts, UpdateCoupon(k, t) PROVE FeedInv'
  BY <1>11, WriteStep DEF UpdateCoupon, Values
<1>12. ASSUME NEW i \in DOMAIN coupons, DeleteItems(i) PROVE FeedInv'
  BY <1>12, WriteStep DEF DeleteItems, Values
<1>13. CASE TimerFires
  <2>1. /\ timer' = FALSE
        /\ UNCHANGED <<db, base, pending, observer, coupons, isShowLoading, alerts,
                       alive, edits>>
    BY <1>13 DEF TimerFires, server, screen
  <2>2. CASE subject = Nil
    <3>1. /\ StreamInv'
          /\ subject' \in (Views \ {Empty}) \cup {Nil} /\ open' \in BOOLEAN
          /\ queue' \in Seq(Items)
          /\ alive => ~open'
      BY <1>13, <2>1, <2>2, FailStep DEF TimerFires
    <3>2. TypeOK'
      BY <2>1, <3>1 DEF TypeOK, Items
    <3>3. SubjectInv'
      BY <2>1, <3>1 DEF SubjectInv
    <3>4. QED
      BY <3>1, <3>2, <3>3
  <2>3. CASE subject # Nil
    <3>1. UNCHANGED <<subject, open, queue>>
      BY <1>13, <2>3 DEF TimerFires, stream
    <3>2. QED
      BY <2>1, <3>1 DEF TypeOK, StreamInv, LastInv, FailInv, NilInv, Shows,
                        SubjectInv, LocalView, Overlay
  <2>4. QED
    BY <2>2, <2>3
<1>14. CASE Deliver
  BY <1>14, DeliverStep
<1>15. CASE Release
  <2>1. alive' = FALSE /\ queue' = <<>>
    BY <1>15 DEF Release
  <2>2. UNCHANGED <<db, base, pending, observer, subject, open, coupons,
                    isShowLoading, alerts, timer, edits>>
    BY <1>15 DEF Release, server, screen
  <2>3. queue' \in Seq(Items) /\ Len(queue') = 0
    BY <2>1, EmptySeq
  <2>4. TypeOK'
    BY <2>1, <2>2, <2>3 DEF TypeOK, Items
  <2>5. StreamInv' /\ SubjectInv'
    BY <2>1, <2>3 DEF StreamInv, LastInv, FailInv, NilInv, SubjectInv
  <2>6. QED
    BY <2>4, <2>5
<1>16. QED
  BY <1>1, <1>2, <1>3, <1>4, <1>5, <1>6, <1>8, <1>9, <1>10, <1>11, <1>12, <1>13,
     <1>14, <1>15 DEF Next

\* The state of the feed is well formed: in particular an empty list of coupons
\* is never sent, and whatever row deleteItems picks has a key.
THEOREM FeedTypeCorrect == Spec => []TypeOK
<1>1. FeedInv => TypeOK
  BY DEF FeedInv
<1>2. QED
  BY FeedInvInit, FeedInvStep, <1>1, PTL DEF Spec

\* For any number of coupons and changes, a drained and living feed shows what
\* the SDK believes.
THEOREM FeedIsFresh == Spec => []FreshWhenDrained
<1>1. FeedInv => FreshWhenDrained
  <2> SUFFICES ASSUME FeedInv, alive, open, observer = "synced", queue = <<>>
               PROVE  coupons \in Listings(LocalView)
    BY DEF FreshWhenDrained
  <2>1. subject = LocalView /\ Shows(subject)
    BY DEF FeedInv, StreamInv, LastInv, SubjectInv
  <2>2. LocalView # Nil
    BY FeedAssumption, OverlayType DEF FeedInv, TypeOK, LocalView
  <2>3. QED
    BY <2>1, <2>2 DEF Shows
<1>2. QED
  BY FeedInvInit, FeedInvStep, <1>1, PTL DEF Spec

\* The null snapshot, the timer and the cancelled observer may all try to fail
\* the subject: showError is called once, and only for a feed that has stopped.
THEOREM FeedStopsLoudly == Spec => []StoppedIffReported
<1>1. FeedInv => StoppedIffReported
  BY DEF FeedInv, TypeOK, StreamInv, FailInv, StoppedIffReported
<1>2. QED
  BY FeedInvInit, FeedInvStep, <1>1, PTL DEF Spec

\* The removal of the last coupon is never shown: its row stays.
THEOREM FeedKeepsLastRow == Spec => LastRowStays
<1>1. ASSUME FeedInv, [Next]_vars
      PROVE  [coupons # <<>> => coupons' # <<>>]_vars
  <2> SUFFICES ASSUME coupons # <<>>, coupons' # coupons PROVE coupons' # <<>>
    BY DEF vars, screen
  <2>1. Deliver
    BY <1>1 DEF Next, RunObserveBlock, FirstSync, Sync, ObserverCancelled,
       RemoteEdit, ServeWrite, AckWrite, RejectWrite, UpdateCoupon, DeleteItems,
       Write, TimerFires, Release, screen, vars
  <2>2. queue \in Seq(Items) /\ queue # <<>>
    BY <1>1, <2>1 DEF FeedInv, TypeOK, Items, Deliver
  <2>3. Len(queue) \in Nat \ {0} /\ Head(queue) = queue[1] /\ Head(queue) \in Items
    BY <2>2, EmptySeq, HeadTailProperties
  <2>4. Head(queue) # Nil
    BY <1>1, <2>3 DEF FeedInv, StreamInv, NilInv
  <2>5. Head(queue) # Failure
    BY <2>1 DEF Deliver
  <2>6. Head(queue) \in Views \ {Empty} /\ coupons' \in Listings(Head(queue))
    BY <2>1, <2>3, <2>4, <2>5 DEF Items, Deliver
  <2>7. QED
    BY <2>6, ListingsType
<1>2. QED
  BY FeedInvInit, FeedInvStep, <1>1, PTL DEF Spec, LastRowStays
=============================================================================
