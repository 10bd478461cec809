------------------------------ MODULE PutSync -------------------------------
(***************************************************************************)
(* How the database client (FPersistentConnection, with the part of FRepo  *)
(* it calls back) gets this device's writes to the server across broken    *)
(* connections, and when it tells their owners.                            *)
(*                                                                         *)
(* A write is a number: its key in outstandingPuts.  All writes are to one *)
(* location.  A listen is an FOutstandingQuery object; the ones in         *)
(* ListSpecs are for the directory that holds the location (a coupon list, *)
(* the profile), the others for somewhere else, each for a path of its     *)
(* own.  Getting a token and a socket is the step OnReady.                 *)
(*                                                                         *)
(* The server is external.  It answers the authentication first, carries   *)
(* out the writes of a connection in the order they were sent, tells an    *)
(* active listen of a write before it answers the write, and answers a     *)
(* listen whenever it has loaded the data, with the data first.            *)
(***************************************************************************)
EXTENDS Integers, Sequences, FiniteSets, Functions

CONSTANTS
    Specs,      \* the FOutstandingQuery objects the client will ever make
    ListSpecs,  \* those for the directory the writes go to
    NoData,     \* the client knows nothing of the directory
    MaxPuts,    \* bound on the writes
    MaxDrops,   \* bound on the connections lost
    MaxDenials  \* bound on the listens the server denies or revokes

ASSUME PutSyncAssumption ==
    /\ IsFiniteSet(Specs) /\ ListSpecs \subseteq Specs
    /\ Specs \cap Nat = {} /\ NoData \notin Nat
    /\ MaxPuts \in Nat /\ MaxDrops \in Nat /\ MaxDenials \in Nat

VARIABLES
    link,           \* connectionState: "down", "authenticating", "connected"
    putCounter,     \* the last write made
    outstanding,    \* outstandingPuts: no answer yet
    putsToAck,      \* answered, the block is still to be called
    reported,       \* the blocks called so far
    opened,         \* the listen objects made so far
    listens,        \* those that are wanted
    unacked,        \* unackedListensCount
    cache,          \* the write the directory holds, as far as the client knows
    requests,       \* writes sent on this connection, not yet taken up
    loading,        \* loading[s]: requests for s the server has not answered
    replies,        \* sent by the server on this connection, not yet handled
    authed,         \* the server has answered the authentication
    active,         \* the listens the server keeps informed
    value,          \* the write the server holds, 0 for none
    stored,         \* the writes it has carried out at least once
    drops, denials,
    interrupted     \* interruptReasons holds the server's kill

client == <<putCounter, outstanding, putsToAck, reported, opened, listens, unacked, cache>>
wire   == <<requests, loading, replies>>
server == <<authed, active, value, stored>>
vars   == <<link, client, wire, server, drops, denials, interrupted>>

Results == [put : 1..MaxPuts, ok : BOOLEAN]

Message(k, a, b) == [kind |-> k, about |-> a, ok |-> b]

\* query.path: what is removed with s when the server revokes its path.
SamePath(s) == IF s \in ListSpecs THEN ListSpecs ELSE {s}

None == [s \in Specs |-> 0]

Init ==
    /\ link = "down"
    /\ putCounter = 0 /\ outstanding = {} /\ putsToAck = <<>> /\ reported = <<>>
    /\ opened = {} /\ listens = {} /\ unacked = 0 /\ cache = NoData
    /\ requests = <<>> /\ loading = None /\ replies = <<>>
    /\ authed = FALSE /\ active = {} /\ value = 0 /\ stored = {}
    /\ drops = 0 /\ denials = 0 /\ interrupted = FALSE

-----------------------------------------------------------------------------
(* Calls of FRepo.                                                         *)

\* putInternal: the write is sent at once on an open connection.
PutInternal ==
    /\ putCounter < MaxPuts
    /\ putCounter' = putCounter + 1
    /\ outstanding' = outstanding \cup {putCounter'}
    /\ requests' = IF link = "connected" THEN Append(requests, putCounter') ELSE requests
    /\ UNCHANGED <<link, putsToAck, reported, opened, listens, unacked, cache,
                   loading, replies, server, drops, denials, interrupted>>

\* listen: sent as soon as there is a connection, even while it is still
\* authenticating.  FSyncTree asks once for a path it does not know.
Listen(s) ==
    /\ s \notin opened
    /\ SamePath(s) \cap listens = {}
    /\ opened' = opened \cup {s}
    /\ listens' = listens \cup {s}
    /\ IF link = "down"
       THEN UNCHANGED <<unacked, loading>>
       ELSE /\ loading' = [loading EXCEPT ![s] = @ + 1]
            /\ unacked' = unacked + 1
    /\ UNCHANGED <<link, putCounter, outstanding, putsToAck, reported, cache,
                   requests, replies, server, drops, denials, interrupted>>

-----------------------------------------------------------------------------
(* The connection.                                                         *)

\* [[outstandingPuts allKeys] sortedArrayUsingSelector:@selector(compare:)]
InOrder_Reversed(S) ==
    CHOOSE q \in [1..Cardinality(S) -> S] :
        \A i, j \in 1..Cardinality(S) : i < j => q[i] > q[j]

InOrder(S) ==
    CHOOSE q \in [1..Cardinality(S) -> S] :
        \A i, j \in 1..Cardinality(S) : i < j => q[i] < q[j]

RestoreState_Uncounted ==
    /\ loading' = [s \in Specs |-> loading[s] + IF s \in listens THEN 1 ELSE 0]
    /\ requests' = InOrder(outstanding)
    /\ UNCHANGED unacked

\* restoreState: every listen again, then every unanswered write in order.
RestoreState ==
    /\ loading' = [s \in Specs |-> loading[s] + IF s \in listens THEN 1 ELSE 0]
    /\ unacked' = unacked + Cardinality(listens)
    /\ requests' = InOrder(outstanding)

\* onReady, restoreAuth: without a token there is nothing to wait for.
OnReady(token) ==
    /\ link = "down" /\ ~interrupted
    /\ IF token
       THEN /\ link' = "authenticating" /\ authed' = FALSE
            /\ UNCHANGED <<loading, unacked, requests>>
       ELSE /\ link' = "connected" /\ authed' = TRUE
            /\ RestoreState
    /\ UNCHANGED <<putCounter, outstanding, putsToAck, reported, opened, listens, cache,
                   replies, active, value, stored, drops, denials, interrupted>>

Severed_KeepCount ==
    /\ link # "down" /\ link' = "down"
    /\ requests' = <<>> /\ loading' = None /\ replies' = <<>>
    /\ authed' = FALSE /\ active' = {}
    /\ UNCHANGED <<putCounter, outstanding, putsToAck, reported, opened, listens, unacked,
                   cache, value, stored, denials>>

Severed_ForgetAcks ==
    /\ link # "down" /\ link' = "down"
    /\ unacked' = 0 /\ putsToAck' = <<>>
    /\ requests' = <<>> /\ loading' = None /\ replies' = <<>>
    /\ authed' = FALSE /\ active' = {}
    /\ UNCHANGED <<putCounter, outstanding, reported, opened, listens, cache,
                   value, stored, denials>>

\* The requests in flight and their callbacks are gone, with the count of
\* listens; the writes are kept, answered or not.
Severed ==
    /\ link # "down" /\ link' = "down"
    /\ unacked' = 0
    /\ requests' = <<>> /\ loading' = None /\ replies' = <<>>
    /\ authed' = FALSE /\ active' = {}
    /\ UNCHANGED <<putCounter, outstanding, putsToAck, reported, opened, listens, cache,
                   value, stored, denials>>

\* onDisconnect, with the next attempt scheduled.  A refused authentication
\* and a revoked token close the connection in the same way.
OnDisconnect ==
    /\ Severed
    /\ drops < MaxDrops /\ drops' = drops + 1
    /\ UNCHANGED interrupted

\* onKill: interruptForReason closes the connection, and onDisconnect finds
\* that it should not reconnect.  Nothing lifts this interruption.
OnKill ==
    /\ Severed
    /\ interrupted' = TRUE
    /\ UNCHANGED drops

-----------------------------------------------------------------------------
(* onDataMessage, for each kind of message.                                *)

Handle(kind) ==
    /\ replies # <<>> /\ Head(replies).kind = kind
    /\ replies' = Tail(replies)

About  == Head(replies).about
Result == [put |-> About, ok |-> Head(replies).ok]

\* The callback of the authentication.
OnAuthenticated ==
    /\ Handle("auth")
    /\ link' = "connected"
    /\ RestoreState
    /\ UNCHANGED <<putCounter, outstanding, putsToAck, reported, opened, listens, cache,
                   server, drops, denials, interrupted>>

OnPutReply_AtOnce ==
    /\ Handle("put")
    /\ IF About \notin outstanding
       THEN UNCHANGED <<outstanding, reported, putsToAck>>
       ELSE /\ outstanding' = outstanding \ {About}
            /\ reported' = Append(reported, Result) /\ UNCHANGED putsToAck
    /\ UNCHANGED <<link, putCounter, opened, listens, unacked, cache,
                   requests, loading, server, drops, denials, interrupted>>

\* The callback of sendPut.  While a listen is unanswered the write may not
\* be dropped from the client's view: its block waits.
OnPutReply ==
    /\ Handle("put")
    /\ IF About \notin outstanding
       THEN UNCHANGED <<outstanding, reported, putsToAck>>
       ELSE /\ outstanding' = outstanding \ {About}
            /\ IF unacked = 0
               THEN reported' = Append(reported, Result) /\ UNCHANGED putsToAck
               ELSE putsToAck' = Append(putsToAck, Result) /\ UNCHANGED reported
    /\ UNCHANGED <<link, putCounter, opened, listens, unacked, cache,
                   requests, loading, server, drops, denials, interrupted>>

AckPuts_Twice ==
    /\ reported' = reported \o putsToAck
    /\ UNCHANGED putsToAck

AckPuts ==
    /\ reported' = reported \o putsToAck
    /\ putsToAck' = <<>>

\* The views of the removed listens are destroyed with what they knew.
Forget(gone) == cache' = IF gone \cap listens \cap ListSpecs # {} THEN NoData ELSE cache

\* onResponse of sendListen: a denied listen is removed, unless another one
\* has taken its place; the last answer releases the blocks that wait.
OnListenReply ==
    /\ Handle("listen")
    /\ LET gone == IF Head(replies).ok THEN {} ELSE {About}
       IN  listens' = listens \ gone /\ Forget(gone)
    /\ unacked' = unacked - 1
    /\ IF unacked' = 0 THEN AckPuts ELSE UNCHANGED <<reported, putsToAck>>
    /\ UNCHANGED <<link, putCounter, outstanding, opened, requests, loading, server,
                   drops, denials, interrupted>>

\* onDataUpdate: nobody asks for a path that is not listened to.
OnDataUpdate ==
    /\ Handle("data")
    /\ cache' = IF listens \cap ListSpecs # {} THEN About ELSE cache
    /\ UNCHANGED <<link, putCounter, outstanding, putsToAck, reported, opened, listens,
                   unacked, requests, loading, server, drops, denials, interrupted>>

OnListenRevoked ==
    /\ Handle("revoked")
    /\ listens' = listens \ SamePath(About)
    /\ Forget(SamePath(About))
    /\ UNCHANGED <<link, putCounter, outstanding, putsToAck, reported, opened, unacked,
                   requests, loading, server, drops, denials, interrupted>>

-----------------------------------------------------------------------------
(* The server.                                                             *)

Authenticate ==
    /\ link = "authenticating" /\ ~authed
    /\ authed' = TRUE
    /\ replies' = Append(replies, Message("auth", 0, TRUE))
    /\ UNCHANGED <<link, client, requests, loading, active, value, stored, drops, denials,
                   interrupted>>

\* The write is stored, an active listen hears of it, then its sender.
ServePut ==
    /\ requests # <<>>
    /\ LET p == Head(requests)
           push == IF active \cap ListSpecs # {} THEN <<Message("data", p, TRUE)>> ELSE <<>>
       IN  /\ value' = p
           /\ stored' = stored \cup {p}
           /\ replies' = replies \o push \o <<Message("put", p, TRUE)>>
    /\ requests' = Tail(requests)
    /\ UNCHANGED <<link, client, loading, authed, active, drops, denials, interrupted>>

\* The rules do not allow the write.
RefusePut ==
    /\ requests # <<>>
    /\ replies' = Append(replies, Message("put", Head(requests), FALSE))
    /\ requests' = Tail(requests)
    /\ UNCHANGED <<link, client, loading, server, drops, denials, interrupted>>

ServeListen(s) ==
    /\ authed /\ loading[s] > 0
    /\ loading' = [loading EXCEPT ![s] = @ - 1]
    /\ active' = active \cup {s}
    /\ LET data == IF s \in ListSpecs THEN <<Message("data", value, TRUE)>> ELSE <<>>
       IN  replies' = replies \o data \o <<Message("listen", s, TRUE)>>
    /\ UNCHANGED <<link, client, requests, authed, value, stored, drops, denials, interrupted>>

DenyListen(s) ==
    /\ authed /\ loading[s] > 0 /\ denials < MaxDenials
    /\ loading' = [loading EXCEPT ![s] = @ - 1]
    /\ active' = active \ SamePath(s)
    /\ replies' = Append(replies, Message("listen", s, FALSE))
    /\ denials' = denials + 1
    /\ UNCHANGED <<link, client, requests, authed, value, stored, drops, interrupted>>

RevokeListen(s) ==
    /\ s \in active /\ denials < MaxDenials
    /\ active' = active \ SamePath(s)
    /\ replies' = Append(replies, Message("revoked", s, TRUE))
    /\ denials' = denials + 1
    /\ UNCHANGED <<link, client, requests, loading, authed, value, stored, drops, interrupted>>

-----------------------------------------------------------------------------
OnMessage ==
    \/ OnAuthenticated \/ OnPutReply \/ OnListenReply \/ OnDataUpdate \/ OnListenRevoked

Next ==
    \/ PutInternal
    \/ \E s \in Specs : Listen(s)
    \/ \E token \in BOOLEAN : OnReady(token)
    \/ OnDisconnect \/ OnKill
    \/ OnMessage
    \/ Authenticate \/ ServePut \/ RefusePut
    \/ \E s \in Specs : ServeListen(s) \/ DenyListen(s) \/ RevokeListen(s)

Spec == Init /\ [][Next]_vars

\* FIRRetryHelper has the next attempt scheduled unless the connection is
\* interrupted (the app never goes offline by itself); the server answers
\* what it has received as long as the connection lasts.
FairSpec ==
    /\ Spec
    /\ WF_vars(\E token \in BOOLEAN : OnReady(token))
    /\ WF_vars(OnMessage)
    /\ WF_vars(Authenticate)
    /\ WF_vars(ServePut \/ RefusePut)
    /\ \A s \in Specs : WF_vars(ServeListen(s) \/ DenyListen(s))

-----------------------------------------------------------------------------
(* Properties.                                                             *)

PutSyncTypeOK ==
    /\ link \in {"down", "authenticating", "connected"}
    /\ putCounter \in 0..MaxPuts
    /\ outstanding \subseteq 1..putCounter
    /\ putsToAck \in Seq(Results) /\ reported \in Seq(Results)
    /\ opened \subseteq Specs /\ listens \subseteq opened
    /\ unacked \in Nat
    /\ cache \in 0..MaxPuts \cup {NoData}
    /\ requests \in Seq(1..MaxPuts)
    /\ loading \in [Specs -> Nat]
    /\ replies \in Seq([kind : {"auth", "put", "listen", "data", "revoked"},
                        about : 0..MaxPuts \cup Specs, ok : BOOLEAN])
    /\ authed \in BOOLEAN /\ active \subseteq Specs
    /\ value \in 0..MaxPuts /\ stored \subseteq 1..MaxPuts
    /\ drops \in 0..MaxDrops /\ denials \in 0..MaxDenials
    /\ interrupted \in BOOLEAN

\* The listen requests on this connection that the server has not answered.
Unanswered(asked) == UNION {{s} \X (1..asked[s]) : s \in Specs}

ListenReplies(sent) == {i \in DOMAIN sent : sent[i].kind = "listen"}

\* The count is of listens really on their way.  It decides whether a block is
\* called: a listen counted twice would hold every later block back, and one
\* counted too few makes the unsigned count wrap around, with the same effect
\* (the NSAssert that it is >= 0 cannot fail).  Duplicate requests and broken
\* connections both come in between.
CountIsExact ==
    unacked = Cardinality(Unanswered(loading)) + Cardinality(ListenReplies(replies))

Answered == Range(reported) \cup Range(putsToAck)

\* Sending the unanswered writes again on a new connection never lets an
\* older write replace one that the server has acknowledged.
AckedStays == \A r \in Answered : r.ok => value >= r.put

\* The writes in the client's pending write tree: ackWrite removes one.
PendingWrites == outstanding \cup {r.put : r \in Range(putsToAck)}

\* calcCompleteEventCache: the newest pending write hides what the server says.
Shown == IF PendingWrites = {} THEN cache
         ELSE CHOOSE p \in PendingWrites : \A q \in PendingWrites : q <= p

\* Once the owner of a write has been told that it succeeded, what the
\* client shows of the directory is that write or a later one, whatever
\* listens and connections were under way.
NoFlicker ==
    listens \cap ListSpecs # {} /\ Shown # NoData =>
        \A r \in Range(reported) : r.ok => Shown >= r.put

PQ == INSTANCE PutQueue WITH issued <- putCounter

\* As long as the server accepts the listens, the blocks of the writes are
\* called once each, in order, and with a success only for what is stored.
KeepsOrder == PQ!Spec

Reports(p) == \E r \in Range(reported) : r.put = p

\* Connections may break and blocks wait for listens, but as long as the
\* server accepts the listens and does not kill the connection for good, the
\* owner of every write is told in the end.
EveryPutReports ==
    \A p \in 1..MaxPuts : putCounter >= p ~> Reports(p) \/ interrupted

\* "a block that gets triggered after the write operation has been committed
\* to the Firebase Database servers" (FIRDatabaseReference.h): the block of a
\* write that the server has stored is called, also when listens are denied
\* (not when the server has killed the connection: nobody could tell).
CommittedReports == \A p \in 1..MaxPuts : p \in stored ~> Reports(p) \/ interrupted
=============================================================================
