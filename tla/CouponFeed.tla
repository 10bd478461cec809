----------------------------- MODULE CouponFeed -----------------------------
(***************************************************************************)
(* The live coupon lists: APIManager.getMyCoupons with the                 *)
(* MyCouponsViewModel that shows it (Feed = "my"), and the second half of  *)
(* PairCouponsViewModel.updateViewData, getPairCoupons (Feed = "pair").    *)
(*                                                                         *)
(* A Firebase observer feeds a CurrentValueSubject, a 10 s timer may fail  *)
(* it, receive(on: RunLoop.main) queues what it sends, and the sink sorts  *)
(* the coupons into the list.  Meanwhile this device (edit, delete) and    *)
(* other devices change the coupons; the SDK shows this device's own       *)
(* writes before the server has accepted them.                             *)
(*                                                                         *)
(* A coupon is its key and its description; descriptions are numbers, so   *)
(* that they can be sorted.  Images, wording and layout are left out.  The *)
(* hop from the SDK's queue to the main queue is merged with the change    *)
(* that causes it.                                                         *)
(***************************************************************************)
EXTENDS Naturals, Sequences, FiniteSets

CONSTANTS
    Keys,       \* children of <uid>/coupons
    Texts,      \* descriptions
    Absent,     \* a key without a coupon
    Nil,        \* the initial value of the subject
    Failure,    \* completion with an ApiError
    Feed,       \* "my" or "pair"
    MaxEdits    \* bound on the changes made by anybody

Values == Texts \cup {Absent}
Views  == [Keys -> Values]

ASSUME FeedAssumption ==
    /\ IsFiniteSet(Keys)
    /\ Texts \subseteq Nat
    /\ Absent \notin Texts
    /\ Nil # Failure /\ Nil \notin Views /\ Failure \notin Views
    /\ Feed \in {"my", "pair"}
    /\ MaxEdits \in Nat

VARIABLES
    db,             \* the coupons at the server
    base,           \* the server's coupons as the SDK knows them
    pending,        \* pending[k]: this device's unacknowledged writes to k
    observer,       \* the observe(.value) of the feed
    subject,        \* subject.value
    open,           \* the subject has not completed
    timer,          \* asyncAfter(10 s) is still to come
    queue,          \* what RunLoop.main has yet to hand to the sink
    coupons,        \* the view model's list
    isShowLoading,
    alerts,         \* calls of showError
    alive,          \* the view model exists
    edits           \* changes made so far

server == <<db, base, pending, observer>>
stream == <<subject, open, queue>>
screen == <<coupons, isShowLoading, alerts>>
vars   == <<server, stream, screen, timer, alive, edits>>

Empty == [k \in Keys |-> Absent]

\* What the SDK believes: the last own write of each key wins over the server.
Overlay(b, p) ==
    [k \in Keys |-> IF p[k] = <<>> THEN b[k] ELSE p[k][Len(p[k])]]

LocalView == Overlay(base, pending)

Present(v) == {k \in Keys : v[k] # Absent}

\* Coupon(data:): the feed of the pair forgets the key.
Row(v, k) == [key |-> IF Feed = "my" THEN k ELSE Absent, description |-> v[k]]

Rows == [key : IF Feed = "my" THEN Keys ELSE {Absent}, description : Texts]

\* The lists sorted { $0.description < $1.description } may produce: equal
\* descriptions come in the arbitrary order of the dictionary.
Listings(v) ==
    {[i \in DOMAIN s |-> Row(v, s[i])] :
        s \in {s \in [1..Cardinality(Present(v)) -> Present(v)] :
                 /\ \A i, j \in DOMAIN s : i # j => s[i] # s[j]
                 /\ \A i, j \in DOMAIN s : i < j => v[s[i]] <= v[s[j]]}}

-----------------------------------------------------------------------------
\* The Fail(...) of getMyCoupons' guard, when nobody is signed in.
Rejected ==
    /\ observer = "cancelled" /\ open = FALSE /\ timer = FALSE
    /\ queue = <<Failure>>

\* A new subject delivers its initial nil to the new subscriber at once.
Subscribed ==
    /\ observer = IF Feed = "my" THEN "queued" ELSE "listening"
    /\ open = TRUE /\ timer = TRUE
    /\ queue = <<Nil>>

Init ==
    /\ db \in Views
    /\ base = Empty
    /\ pending = [k \in Keys |-> <<>>]
    /\ subject = Nil
    /\ coupons = <<>> /\ isShowLoading = TRUE /\ alerts = 0
    /\ alive = TRUE
    /\ edits = 0
    /\ Subscribed \/ (Feed = "my" /\ Rejected)

-----------------------------------------------------------------------------
(* The subject.  Without a subscriber, or after its completion, what is    *)
(* sent to it has no effect.                                               *)

Send(v) ==
    IF alive /\ open
    THEN /\ subject' = v /\ queue' = Append(queue, v) /\ UNCHANGED open
    ELSE UNCHANGED stream

SendFailure_Twice ==
    IF alive
    THEN /\ open' = FALSE /\ queue' = Append(queue, Failure) /\ UNCHANGED subject
    ELSE UNCHANGED stream

SendFailure ==
    IF alive /\ open
    THEN /\ open' = FALSE /\ queue' = Append(queue, Failure) /\ UNCHANGED subject
    ELSE UNCHANGED stream

\* The observer's block: a null snapshot (no coupons) is not a dictionary.
Snapshot_EmptyList(v) == Send(v)
Snapshot(v) == IF v = Empty THEN SendFailure ELSE Send(v)

\* The SDK calls the block when what it believes has changed.
Believe(b, p) ==
    /\ base' = b
    /\ pending' = p
    /\ IF observer = "synced" /\ Overlay(b, p) # LocalView
       THEN Snapshot(Overlay(b, p))
       ELSE UNCHANGED stream

-----------------------------------------------------------------------------
(* Firebase.                                                               *)

\* The block on serialQueue registers the observer (it keeps self alive).
RunObserveBlock ==
    /\ observer = "queued"
    /\ observer' = "listening"
    /\ UNCHANGED <<db, base, pending, stream, screen, timer, alive, edits>>

\* The server sends the whole directory: the first snapshot.
FirstSync ==
    /\ observer = "listening"
    /\ observer' = "synced"
    /\ base' = db
    /\ Snapshot(Overlay(db, pending))
    /\ UNCHANGED <<db, pending, screen, timer, alive, edits>>

\* The server sends what has changed since; after an interruption, at once.
Sync ==
    /\ observer = "synced" /\ base # db
    /\ Believe(db, pending)
    /\ UNCHANGED <<db, observer, screen, timer, alive, edits>>

\* The cancel block: the rules no longer allow the observation.
ObserverCancelled ==
    /\ observer \in {"listening", "synced"}
    /\ observer' = "cancelled"
    /\ SendFailure
    /\ UNCHANGED <<db, base, pending, screen, timer, alive, edits>>

\* Another device of the owner adds, changes or removes a coupon.
RemoteEdit(k, x) ==
    /\ edits < MaxEdits
    /\ db[k] # x
    /\ db' = [db EXCEPT ![k] = x]
    /\ edits' = edits + 1
    /\ UNCHANGED <<base, pending, observer, stream, screen, timer, alive>>

\* The server carries out the oldest write to k; until the reply is in, it
\* is sent again on every new connection.
ServeWrite(k) ==
    /\ pending[k] # <<>>
    /\ db' = [db EXCEPT ![k] = Head(pending[k])]
    /\ UNCHANGED <<base, pending, observer, stream, screen, timer, alive, edits>>

\* The reply arrives, after everything the server did before it.
AckWrite(k) ==
    /\ pending[k] # <<>>
    /\ db' = [db EXCEPT ![k] = Head(pending[k])]
    /\ Believe(db', [pending EXCEPT ![k] = Tail(@)])
    /\ UNCHANGED <<observer, screen, timer, alive, edits>>

\* The server refuses the write: the SDK takes it back.
RejectWrite(k) ==
    /\ pending[k] # <<>>
    /\ Believe(base, [pending EXCEPT ![k] = Tail(@)])
    /\ UNCHANGED <<db, observer, screen, timer, alive, edits>>

-----------------------------------------------------------------------------
(* This device.                                                            *)

Write(k, x) ==
    /\ edits < MaxEdits
    /\ edits' = edits + 1
    /\ Believe(base, [pending EXCEPT ![k] = Append(@, x)])
    /\ UNCHANGED <<db, observer, screen, timer, alive>>

\* ref.updateChildValues at the end of updateCoupon (the editor's Save).
UpdateCoupon(k, t) == Feed = "my" /\ Write(k, t)

\* deleteItems(at:), deleteCoupon: ref.removeValue() on the key of the row.
\* The first delivery replaces the placeholder rows before a finger can
\* swipe one.
DeleteItems(i) ==
    /\ Feed = "my" /\ alive /\ ~isShowLoading
    /\ i \in DOMAIN coupons
    /\ Write(coupons[i].key, Absent)

TimerFires_Silent ==
    /\ timer
    /\ timer' = FALSE
    /\ UNCHANGED <<server, stream, screen, alive, edits>>

\* guard subject.value == nil else { return }
TimerFires ==
    /\ timer
    /\ timer' = FALSE
    /\ IF subject = Nil THEN SendFailure ELSE UNCHANGED stream
    /\ UNCHANGED <<server, screen, alive, edits>>

Deliver_FirstOnly ==
    /\ queue # <<>>
    /\ queue' = Tail(queue)
    /\ isShowLoading' = FALSE
    /\ IF Head(queue) = Failure
       THEN alerts' = alerts + 1 /\ UNCHANGED coupons
       ELSE /\ coupons' \in IF Head(queue) = Nil THEN {<<>>}
                           ELSE IF coupons # <<>> THEN {coupons}
                           ELSE Listings(Head(queue))
            /\ UNCHANGED alerts
    /\ UNCHANGED <<server, subject, open, timer, alive, edits>>

Deliver_ClearsOnError ==
    /\ queue # <<>>
    /\ queue' = Tail(queue)
    /\ isShowLoading' = FALSE
    /\ IF Head(queue) = Failure
       THEN alerts' = alerts + 1 /\ coupons' = <<>>
       ELSE /\ coupons' \in IF Head(queue) = Nil THEN {<<>>} ELSE Listings(Head(queue))
            /\ UNCHANGED alerts
    /\ UNCHANGED <<server, subject, open, timer, alive, edits>>

\* sink: receiveCompletion for a failure, receiveValue otherwise.
Deliver ==
    /\ queue # <<>>
    /\ queue' = Tail(queue)
    /\ isShowLoading' = FALSE
    /\ IF Head(queue) = Failure
       THEN alerts' = alerts + 1 /\ UNCHANGED coupons
       ELSE /\ coupons' \in IF Head(queue) = Nil THEN {<<>>} ELSE Listings(Head(queue))
            /\ UNCHANGED alerts
    /\ UNCHANGED <<server, subject, open, timer, alive, edits>>

\* deinit { cancellables.removeAll() }; the observer stays registered.
Release ==
    /\ alive
    /\ alive' = FALSE
    /\ queue' = <<>>
    /\ UNCHANGED <<server, subject, open, screen, timer, edits>>

-----------------------------------------------------------------------------
Next ==
    \/ RunObserveBlock \/ FirstSync \/ Sync \/ ObserverCancelled
    \/ \E k \in Keys, x \in Values : RemoteEdit(k, x)
    \/ \E k \in Keys : ServeWrite(k) \/ AckWrite(k) \/ RejectWrite(k)
    \/ \E k \in Keys, t \in Texts : UpdateCoupon(k, t)
    \/ \E i \in DOMAIN coupons : DeleteItems(i)
    \/ TimerFires \/ Deliver \/ Release

Spec == Init /\ [][Next]_vars

(***************************************************************************)
(* LocalFairness: the main queue and the main run loop keep running.       *)
(* NetFairness: Firebase reconnects until it has synchronised, answers     *)
(* every write, and the serial queue runs.                                 *)
(***************************************************************************)
LocalFairness == WF_vars(TimerFires) /\ WF_vars(Deliver)

NetFairness ==
    /\ WF_vars(RunObserveBlock) /\ WF_vars(FirstSync) /\ WF_vars(Sync)
    /\ \A k \in Keys : WF_vars(AckWrite(k) \/ RejectWrite(k))

FairSpec    == Spec /\ LocalFairness
NetFairSpec == Spec /\ LocalFairness /\ NetFairness

-----------------------------------------------------------------------------
TypeOK ==
    /\ db \in Views /\ base \in Views
    /\ pending \in [Keys -> Seq(Values)]
    /\ observer \in {"queued", "listening", "synced", "cancelled"}
    /\ subject \in (Views \ {Empty}) \cup {Nil}
    /\ open \in BOOLEAN /\ timer \in BOOLEAN /\ alive \in BOOLEAN
    /\ isShowLoading \in BOOLEAN
    /\ queue \in Seq((Views \ {Empty}) \cup {Nil, Failure})
    /\ coupons \in Seq(Rows)
    /\ alerts \in Nat
    /\ edits \in 0..MaxEdits

\* A list that is still being fed and has nothing left to deliver shows, in
\* order, exactly what the SDK believes, its own unacknowledged writes
\* included: whatever the order of edits, deletions, acknowledgements,
\* rejections and snapshots, getCoupons' sink has not missed the last one.
FreshWhenDrained ==
    alive /\ open /\ observer = "synced" /\ queue = <<>>
        => coupons \in Listings(LocalView)

\* The feed never stops in silence, and never complains twice: when the run
\* loop has nothing left to deliver, showError has been called once if the
\* subject has failed (null snapshot, 10 s timer or cancelled observer, which
\* race for it) and not at all otherwise.
StoppedIffReported ==
    alive /\ queue = <<>> => alerts = (IF open THEN 0 ELSE 1)

\* A list that has shown coupons is never seen empty: the removal of the last
\* coupon reaches the subject as a failure, and its row stays on the screen.
LastRowStays == [][coupons # <<>> => coupons' # <<>>]_vars

\* Whatever the network does, the user is shown a coupon or told of a problem.
FirstAnswer == <>(~alive \/ alerts = 1 \/ coupons # <<>>)

\* When the changes end and the network works, the list ends up showing what
\* the server has, unless the feed was reported dead or the view closed.
Converges == <>[](~alive \/ alerts = 1 \/ coupons \in Listings(db))
=============================================================================
