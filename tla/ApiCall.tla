------------------------------ MODULE ApiCall ------------------------------
(***************************************************************************)
(* The pipeline behind every one-shot function of APIManager (login,       *)
(* createUser, setUserInfo, resetPassword, logout, getUserInfo,            *)
(* getPairEmail; updateCoupon has the same pipeline, but its block does    *)
(* not capture self and is never dropped):                                 *)
(*                                                                         *)
(*   Future { promise in serialQueue.async { Firebase call { promise } } } *)
(*     .timeout(10 s, customError: .disconnect)                            *)
(*     .receive(on: RunLoop.main)   and a sink held by the view model.     *)
(*                                                                         *)
(* remote[c] follows the request, pipe[c] the publisher the view model is  *)
(* subscribed to.  They part company when the timeout fires, when the view *)
(* model is released or when the process dies; what this module is about   *)
(* is what the subscriber may conclude from what it hears.                 *)
(*                                                                         *)
(* The value and the .finished that follows it are delivered by two blocks *)
(* queued back to back on the main run loop: no touch is dispatched        *)
(* between them, and one step delivers both.  The order of the serial      *)
(* queue is not kept: its blocks only start network requests, which        *)
(* complete in any order.                                                  *)
(***************************************************************************)
CONSTANT Calls

VARIABLES
    remote,     \* remote[c]: where the request of call c is
    pipe,       \* pipe[c]: what the subscriber of call c has heard
    held        \* calls whose APIManager (owned by a view model) is alive

apiVars == <<remote, pipe, held>>

(***************************************************************************)
(* idle     no request               served   carried out, reply under way *)
(* queued   block on serialQueue     done     carried out, SDK knows it    *)
(* dropped  block found self = nil   refused  SDK reports an error         *)
(* flying   handed to Firebase       lost     carried out, SDK reports an  *)
(* adrift   process died meanwhile            error or died                *)
(***************************************************************************)
Remotes == {"idle", "queued", "dropped", "flying", "adrift",
            "served", "done", "refused", "lost"}

Happened(c) == remote[c] \in {"served", "done", "lost"}

(***************************************************************************)
(* waiting: the Future is unresolved and the timer runs; value, failure:   *)
(* a result on its way through RunLoop.main; the rest are final.           *)
(***************************************************************************)
Unsettled == {"waiting", "value", "failure"}
Settled   == {"succeeded", "failed", "cancelled"}
Pipes     == {"idle"} \cup Unsettled \cup Settled

ApiTypeOK ==
    /\ remote \in [Calls -> Remotes]
    /\ pipe \in [Calls -> Pipes]
    /\ held \subseteq Calls
    /\ \A c \in Calls : pipe[c] = "idle" => remote[c] = "idle" /\ c \notin held

ApiInit ==
    /\ remote = [c \in Calls |-> "idle"]
    /\ pipe = [c \in Calls |-> "idle"]
    /\ held = {}

-----------------------------------------------------------------------------
(* The view model calls the API and subscribes.                            *)

Issue_NoSink(c) ==
    /\ pipe[c] = "idle"
    /\ remote' = [remote EXCEPT ![c] = "queued"]
    /\ held' = held \cup {c}
    /\ UNCHANGED pipe

\* The Future runs its body at once: the request goes to serialQueue.
Issue(c) ==
    /\ pipe[c] = "idle"
    /\ pipe' = [pipe EXCEPT ![c] = "waiting"]
    /\ remote' = [remote EXCEPT ![c] = "queued"]
    /\ held' = held \cup {c}

\* A guard of the API function fails: Fail(error).receive(on: RunLoop.main).
Reject(c) ==
    /\ pipe[c] = "idle"
    /\ pipe' = [pipe EXCEPT ![c] = "failure"]
    /\ held' = held \cup {c}
    /\ UNCHANGED remote

\* logout: signOut runs inside the Future's body, no queue and no network.
IssueSync(c, ok) ==
    /\ pipe[c] = "idle"
    /\ pipe' = [pipe EXCEPT ![c] = IF ok THEN "value" ELSE "failure"]
    /\ remote' = [remote EXCEPT ![c] = IF ok THEN "done" ELSE "refused"]
    /\ held' = held \cup {c}

-----------------------------------------------------------------------------
(* The request.                                                            *)

Moves(c, from, to) ==
    /\ remote[c] = from
    /\ remote' = [remote EXCEPT ![c] = to]
    /\ UNCHANGED <<pipe, held>>

\* The block on serialQueue reaches self?.auth / self?.database ...
RunBlock(c) == c \in held /\ Moves(c, "queued", "flying")

\* ... or finds that the view model took its APIManager with it.
DropBlock(c) == c \notin held /\ Moves(c, "queued", "dropped")

\* Firebase carries the request out, or answers with an error.
Serve(c)  == Moves(c, "flying", "served")
Refuse(c) == Moves(c, "flying", "refused")

\* The reply reaches the SDK, or is lost and the SDK reports an error.
Reply(c)     == Moves(c, "served", "done")
LoseReply(c) == Moves(c, "served", "lost")

\* A request whose process has died may still be carried out.
ServeAdrift(c) == Moves(c, "adrift", "lost")

-----------------------------------------------------------------------------
(* The pipeline.                                                           *)

Callback_Optimistic(c) ==
    /\ pipe[c] = "waiting"
    /\ remote[c] \in {"flying", "done", "refused", "lost"}
    /\ pipe' = [pipe EXCEPT ![c] =
                  IF remote[c] \in {"refused", "lost"} THEN "failure" ELSE "value"]
    /\ UNCHANGED <<remote, held>>

\* The completion block resolves the promise.  After the timeout nobody
\* listens to it any more: the guard fails and nothing changes.
Callback(c) ==
    /\ pipe[c] = "waiting"
    /\ remote[c] \in {"done", "refused", "lost"}
    /\ pipe' = [pipe EXCEPT ![c] =
                  IF remote[c] = "done" THEN "value" ELSE "failure"]
    /\ UNCHANGED <<remote, held>>

TimeoutFires_Never(c) == FALSE /\ UNCHANGED apiVars

\* .timeout(.seconds(10)): any time may have passed since the subscription.
TimeoutFires(c) ==
    /\ pipe[c] = "waiting"
    /\ pipe' = [pipe EXCEPT ![c] = "failure"]
    /\ UNCHANGED <<remote, held>>

Cancelled(p, gone) ==
    [c \in Calls |-> IF c \in gone /\ p[c] \in Unsettled
                     THEN "cancelled" ELSE p[c]]

\* sink { .finished } receiveValue: the handler may replace the window's root
\* view controller, which releases the view models that own the calls gone.
DeliverValue(c, gone) ==
    /\ pipe[c] = "value"
    /\ pipe' = Cancelled([pipe EXCEPT ![c] = "succeeded"], gone)
    /\ held' = held \ gone
    /\ UNCHANGED remote

\* A value whose handler makes the next call d (sign up: createUser, then
\* setUserInfo), which a guard may reject.
DeliverAndChain(c, d, accepted) ==
    /\ pipe[c] = "value"
    /\ pipe[d] = "idle"
    /\ pipe' = [pipe EXCEPT ![c] = "succeeded",
                            ![d] = IF accepted THEN "waiting" ELSE "failure"]
    /\ remote' = [remote EXCEPT ![d] = IF accepted THEN "queued" ELSE "idle"]
    /\ held' = held \cup {d}

DeliverFailure_Again(c) ==
    /\ pipe[c] \in {"failure", "succeeded"}
    /\ pipe' = [pipe EXCEPT ![c] = "failed"]
    /\ UNCHANGED <<remote, held>>

DeliverFailure_Swallowed(c) ==
    /\ pipe[c] = "failure"
    /\ pipe' = [pipe EXCEPT ![c] = "succeeded"]
    /\ UNCHANGED <<remote, held>>

DeliverFailure(c) ==
    /\ pipe[c] = "failure"
    /\ pipe' = [pipe EXCEPT ![c] = "failed"]
    /\ UNCHANGED <<remote, held>>

\* deinit { cancellables.removeAll() } of the view model that owns gone.
Release(gone) ==
    /\ pipe' = Cancelled(pipe, gone)
    /\ held' = held \ gone
    /\ UNCHANGED remote

\* What becomes of a request whose process is no more.
Bereft == [queued |-> "dropped", flying |-> "adrift", served |-> "lost"]

\* The process dies: blocks and replies are gone, requests are not.
Kill ==
    /\ pipe' = Cancelled(pipe, Calls)
    /\ held' = {}
    /\ remote' = [c \in Calls |-> IF remote[c] \in DOMAIN Bereft
                                  THEN Bereft[remote[c]] ELSE remote[c]]

-----------------------------------------------------------------------------
CallStep(c) ==
    \/ Issue(c)
    \/ Reject(c)
    \/ \E ok \in BOOLEAN : IssueSync(c, ok)
    \/ RunBlock(c)
    \/ DropBlock(c)
    \/ Serve(c)
    \/ Refuse(c)
    \/ Reply(c)
    \/ LoseReply(c)
    \/ ServeAdrift(c)
    \/ Callback(c)
    \/ TimeoutFires(c)
    \/ \E gone \in SUBSET Calls : DeliverValue(c, gone)
    \/ \E d \in Calls, accepted \in BOOLEAN : DeliverAndChain(c, d, accepted)
    \/ DeliverFailure(c)

ApiNext ==
    \/ \E c \in Calls : CallStep(c)
    \/ \E gone \in SUBSET Calls : Release(gone)
    \/ Kill

ApiSpec == ApiInit /\ [][ApiNext]_apiVars

(***************************************************************************)
(* The timer of .timeout runs on DispatchQueue.main and results are handed *)
(* over by RunLoop.main: both keep running.  Nothing is assumed of the     *)
(* network, of the serial queue or of the user.                            *)
(***************************************************************************)
ApiFairness ==
    \A c \in Calls :
        /\ WF_apiVars(TimeoutFires(c))
        /\ WF_apiVars(\E gone \in SUBSET Calls : DeliverValue(c, gone))
        /\ WF_apiVars(DeliverFailure(c))

ApiFairSpec == ApiSpec /\ ApiFairness

-----------------------------------------------------------------------------
\* A view model that is told of a success (and navigates on it) is told the
\* truth: Firebase has carried the request out.  The answer, the timeout, the
\* release of the view model and the death of the process race for this.
SuccessIsReal == \A c \in Calls : pipe[c] = "succeeded" => Happened(c)

\* Inductive form: a value in flight on the run loop is already true.
SuccessInv ==
    \A c \in Calls : pipe[c] \in {"value", "succeeded"} => remote[c] = "done"

\* Refinement mapping: results in flight are still pending for the subscriber.
Told == [idle |-> "none", waiting |-> "pending", value |-> "pending",
         failure |-> "pending", succeeded |-> "succeeded", failed |-> "failed",
         cancelled |-> "abandoned"]

Contract == INSTANCE OneShot WITH
    outcome <- [c \in Calls |-> Told[pipe[c]]],
    happened <- {c \in Calls : Happened(c)}

\* The pipeline keeps the promise of APIManagerProtocol: at most one outcome
\* per call, although the callback and the timeout both try to settle it.
KeepsContract == Contract!Spec

\* Every call is answered, whatever the network does: isShowLoading, which a
\* view model sets before the call, cannot be left on by a missing answer.
EverySinkSettles ==
    \A c \in Calls : pipe[c] \in Unsettled ~> pipe[c] \in Settled
=============================================================================
