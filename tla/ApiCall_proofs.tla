--------------------------- MODULE ApiCall_proofs ---------------------------
(***************************************************************************)
(* Proofs about the one-shot pipeline, for any set of calls.  SuccessInv   *)
(* (a value is only put on the run loop after the SDK has confirmed it,    *)
(* and no later event takes the confirmation back) is what makes           *)
(* SuccessIsReal inductive and what lets a delivery refine a success of    *)
(* the contract.                                                           *)
(***************************************************************************)
EXTENDS ApiCall, TLAPS

ApiInv == ApiTypeOK /\ SuccessInv

\* A step of the request alone: what all of them have in common.
RequestStep(c) ==
    /\ pipe[c] # "idle"
    /\ \E from \in {"queued", "flying", "served", "adrift"},
          to \in Remotes \ {"idle", "queued"} :
            Moves(c, from, to) /\ (from = "served" => to \in {"done", "lost"})

LEMMA RequestSteps ==
    ASSUME NEW c \in Calls, ApiTypeOK,
           RunBlock(c) \/ DropBlock(c) \/ Serve(c) \/ Refuse(c) \/ Reply(c)
              \/ LoseReply(c) \/ ServeAdrift(c)
    PROVE  RequestStep(c)
<1>1. pipe[c] # "idle"
  BY DEF ApiTypeOK, RunBlock, DropBlock, Serve, Refuse, Reply, LoseReply,
         ServeAdrift, Moves
<1>2. QED
  BY <1>1 DEF RequestStep, Remotes, RunBlock, DropBlock, Serve, Refuse, Reply,
         LoseReply, ServeAdrift

\* Releasing a view model cancels what it waits for and nothing else.
LEMMA CancelledType ==
    ASSUME NEW p \in [Calls -> Pipes], NEW gone
    PROVE  /\ Cancelled(p, gone) \in [Calls -> Pipes]
           /\ \A c \in Calls : Cancelled(p, gone)[c] \in {p[c], "cancelled"}
           /\ \A c \in Calls : p[c] \notin Unsettled => Cancelled(p, gone)[c] = p[c]
  BY DEF Cancelled, Pipes, Settled, Unsettled

\* The state of the pipeline stays typed, and a call that nobody has made
\* leaves no trace at Firebase and keeps no APIManager alive.
LEMMA TypeStep ==
    ASSUME ApiTypeOK, [ApiNext]_apiVars
    PROVE  ApiTypeOK'
<1> USE DEF ApiTypeOK
<1>1. CASE UNCHANGED apiVars
  BY <1>1 DEF apiVars
<1>2. ASSUME NEW c \in Calls, CallStep(c) PROVE ApiTypeOK'
  <2>1. CASE Issue(c)
    BY <2>1 DEF Issue, Pipes, Unsettled, Remotes
  <2>2. CASE Reject(c)
    BY <2>2 DEF Reject, Pipes, Unsettled
  <2>3. ASSUME NEW ok \in BOOLEAN, IssueSync(c, ok) PROVE ApiTypeOK'
    BY <2>3 DEF IssueSync, Pipes, Unsettled, Remotes
  <2>4. CASE RequestStep(c)
    BY <2>4 DEF RequestStep, Moves, Remotes
  <2>5. CASE Callback(c)
    BY <2>5 DEF Callback, Pipes, Unsettled
  <2>6. CASE TimeoutFires(c)
    BY <2>6 DEF TimeoutFires, Pipes, Unsettled
  <2>7. ASSUME NEW gone \in SUBSET Calls, DeliverValue(c, gone) PROVE ApiTypeOK'
    <3> DEFINE p == [pipe EXCEPT ![c] = "succeeded"]
    <3>1. p \in [Calls -> Pipes]
      BY DEF Pipes, Settled
    <3>2. \A d \in Calls : p[d] = "idle" => pipe[d] = "idle"
      OBVIOUS
    <3>3. pipe' = Cancelled(p, gone) /\ held' \subseteq held /\ UNCHANGED remote
      BY <2>7 DEF DeliverValue
    <3>4. \A d \in Calls : pipe'[d] = "idle" => p[d] = "idle"
      BY <3>1, <3>3, CancelledType
    <3>5. pipe' \in [Calls -> Pipes]
      BY <3>1, <3>3, CancelledType
    <3>6. QED
      BY <3>2, <3>3, <3>4, <3>5
  <2>8. ASSUME NEW d \in Calls, NEW ok \in BOOLEAN, DeliverAndChain(c, d, ok)
        PROVE  ApiTypeOK'
    BY <2>8 DEF DeliverAndChain, Pipes, Settled, Unsettled, Remotes
  <2>9. CASE DeliverFailure(c)
    BY <2>9 DEF DeliverFailure, Pipes, Settled
  <2>10. QED
    BY <1>2, <2>1, <2>2, <2>3, <2>4, <2>5, <2>6, <2>7, <2>8, <2>9, RequestSteps
    DEF CallStep
<1>3. ASSUME NEW gone \in SUBSET Calls, Release(gone) PROVE ApiTypeOK'
  BY <1>3, CancelledType DEF Release
<1>4. CASE Kill
  <2>1. pipe' \in [Calls -> Pipes] /\ \A c \in Calls : pipe'[c] = "idle" => pipe[c] = "idle"
    BY <1>4, CancelledType DEF Kill
  <2>2. remote' \in [Calls -> Remotes]
    BY <1>4 DEF Kill, Remotes, Bereft
  <2>3. \A c \in Calls : remote[c] = "idle" => remote'[c] = "idle"
    BY <1>4 DEF Kill, Bereft
  <2>4. held' = {}
    BY <1>4 DEF Kill, Bereft
  <2>5. QED
    BY <2>1, <2>2, <2>3, <2>4
<1>5. QED
  BY <1>1, <1>2, <1>3, <1>4 DEF ApiNext

\* What the SDK has confirmed stays confirmed: neither a late event, nor a
\* release, nor the death of the process takes it back.
LEMMA DoneIsStable ==
    ASSUME ApiTypeOK, [ApiNext]_apiVars, NEW c \in Calls,
           remote[c] = "done"
    PROVE  remote'[c] = "done"
<1> USE DEF ApiTypeOK
<1>1. CASE UNCHANGED apiVars
  BY <1>1 DEF apiVars
<1>2. ASSUME NEW d \in Calls, CallStep(d) PROVE remote'[c] = "done"
  <2>1. pipe[c] # "idle"
    OBVIOUS
  <2>2. CASE RequestStep(d)
    BY <2>2 DEF RequestStep, Moves
  <2>3. QED
    BY <1>2, <2>1, <2>2, RequestSteps
    DEF CallStep, Issue, Reject, IssueSync, Callback, TimeoutFires,
        DeliverValue, DeliverAndChain, DeliverFailure
<1>3. ASSUME NEW gone \in SUBSET Calls, Release(gone) PROVE remote'[c] = "done"
  BY <1>3 DEF Release
<1>4. CASE Kill
  BY <1>4 DEF Kill, Bereft
<1>5. QED
  BY <1>1, <1>2, <1>3, <1>4 DEF ApiNext

\* A value enters the pipeline by a callback or a signOut, confirmed; no other
\* step makes one.
LEMMA ValueIsConfirmed ==
    ASSUME ApiTypeOK, [ApiNext]_apiVars, NEW c \in Calls,
           pipe'[c] \in {"value", "succeeded"}
    PROVE  pipe[c] \in {"value", "succeeded"} \/ remote'[c] = "done"
<1> USE DEF ApiTypeOK
<1> DEFINE Goal == pipe[c] \in {"value", "succeeded"} \/ remote'[c] = "done"
<1>1. CASE UNCHANGED apiVars
  BY <1>1 DEF apiVars
<1>2. ASSUME NEW d \in Calls, CallStep(d) PROVE Goal
  <2>1. CASE RequestStep(d)
    BY <2>1 DEF RequestStep, Moves
  <2>2. ASSUME NEW gone \in SUBSET Calls, DeliverValue(d, gone) PROVE Goal
    <3>1. [pipe EXCEPT ![d] = "succeeded"] \in [Calls -> Pipes]
      BY DEF Pipes, Settled
    <3>2. pipe'[c] = [pipe EXCEPT ![d] = "succeeded"][c]
      BY <2>2, <3>1, CancelledType DEF DeliverValue
    <3>3. QED
      BY <2>2, <3>2 DEF DeliverValue
  <2>3. CASE Callback(d)
    BY <2>3 DEF Callback
  <2>4. ASSUME NEW ok \in BOOLEAN, IssueSync(d, ok) PROVE Goal
    BY <2>4 DEF IssueSync
  <2>5. ASSUME NEW e \in Calls, NEW ok \in BOOLEAN, DeliverAndChain(d, e, ok)
        PROVE  Goal
    BY <2>5 DEF DeliverAndChain
  <2>6. CASE Issue(d) \/ Reject(d) \/ TimeoutFires(d) \/ DeliverFailure(d)
    BY <2>6 DEF Issue, Reject, TimeoutFires, DeliverFailure
  <2>7. QED
    BY <1>2, <2>1, <2>2, <2>3, <2>4, <2>5, <2>6, RequestSteps DEF CallStep
<1>3. ASSUME NEW gone \in SUBSET Calls, Release(gone) PROVE Goal
  BY <1>3, CancelledType DEF Release
<1>4. CASE Kill
  BY <1>4, CancelledType DEF Kill
<1>5. QED
  BY <1>1, <1>2, <1>3, <1>4 DEF ApiNext

LEMMA ApiInvInductive ==
    /\ ApiInit => ApiInv
    /\ ApiInv /\ [ApiNext]_apiVars => ApiInv'
<1>1. ApiInit => ApiInv
  BY DEF ApiInit, ApiInv, ApiTypeOK, SuccessInv, Remotes, Pipes
<1>2. ASSUME ApiInv, [ApiNext]_apiVars PROVE ApiInv'
  <2>1. ApiTypeOK'
    BY <1>2, TypeStep DEF ApiInv
  <2>2. ASSUME NEW c \in Calls, pipe'[c] \in {"value", "succeeded"}
        PROVE  remote'[c] = "done"
    BY <1>2, <2>2, ValueIsConfirmed, DoneIsStable DEF ApiInv, SuccessInv
  <2>3. SuccessInv'
    BY <2>2 DEF SuccessInv
  <2>4. QED
    BY <2>1, <2>3 DEF ApiInv
<1>3. QED
  BY <1>1, <1>2

\* In every behaviour of the pipeline, for any number of calls, its state is
\* well formed.
THEOREM ApiTypeCorrect == ApiSpec => []ApiTypeOK
<1>1. ApiInv => ApiTypeOK
  BY DEF ApiInv
<1>2. QED
  BY ApiInvInductive, <1>1, PTL DEF ApiSpec

\* The inductive fact about the sink of APIManager's publishers: a value on
\* its way to the main run loop is confirmed by Firebase already.
THEOREM ValuesAreConfirmed == ApiSpec => []SuccessInv
<1>1. ApiInv => SuccessInv
  BY DEF ApiInv
<1>2. QED
  BY ApiInvInductive, <1>1, PTL DEF ApiSpec

\* A view model is never told of a success that did not happen, however the
\* answer, the 10 s timeout, the release of the view model and the death of
\* the process are interleaved.
THEOREM SuccessesAreReal == ApiSpec => []SuccessIsReal
<1>1. ApiInv => SuccessIsReal
  BY DEF ApiInv, SuccessInv, SuccessIsReal, Happened
<1>2. QED
  BY ApiInvInductive, <1>1, PTL DEF ApiSpec

-----------------------------------------------------------------------------
(* The pipeline implements its contract.                                   *)

\* The only ways a subscription can go.
LEMMA PipeMoves ==
    ASSUME ApiTypeOK, [ApiNext]_apiVars, NEW c \in Calls
    PROVE  \/ pipe'[c] = pipe[c]
           \/ pipe[c] = "idle" /\ pipe'[c] \in Unsettled
           \/ pipe[c] = "value" /\ pipe'[c] = "succeeded"
           \/ pipe[c] \in Unsettled /\ pipe'[c] \in {"value", "failure", "failed", "cancelled"}
<1> USE DEF ApiTypeOK
<1> DEFINE Goal == \/ pipe'[c] = pipe[c]
                   \/ pipe[c] = "idle" /\ pipe'[c] \in Unsettled
                   \/ pipe[c] = "value" /\ pipe'[c] = "succeeded"
                   \/ /\ pipe[c] \in Unsettled
                      /\ pipe'[c] \in {"value", "failure", "failed", "cancelled"}
<1>1. CASE UNCHANGED apiVars
  BY <1>1 DEF apiVars
<1>2. ASSUME NEW d \in Calls, CallStep(d) PROVE Goal
  <2>1. CASE RequestStep(d)
    BY <2>1 DEF RequestStep, Moves
  <2>2. ASSUME NEW gone \in SUBSET Calls, DeliverValue(d, gone) PROVE Goal
    <3>1. [pipe EXCEPT ![d] = "succeeded"] \in [Calls -> Pipes]
      BY DEF Pipes, Settled
    <3>2. pipe'[c] = IF c \in gone /\ [pipe EXCEPT ![d] = "succeeded"][c] \in Unsettled
                     THEN "cancelled" ELSE [pipe EXCEPT ![d] = "succeeded"][c]
      BY <2>2 DEF DeliverValue, Cancelled
    <3>3. QED
      BY <2>2, <3>1, <3>2 DEF DeliverValue, Unsettled
  <2>3. CASE Callback(d)
    BY <2>3 DEF Callback, Unsettled
  <2>4. ASSUME NEW ok \in BOOLEAN, IssueSync(d, ok) PROVE Goal
    BY <2>4 DEF IssueSync, Unsettled
  <2>5. ASSUME NEW e \in Calls, NEW ok \in BOOLEAN, DeliverAndChain(d, e, ok)
        PROVE  Goal
    BY <2>5 DEF DeliverAndChain, Unsettled
  <2>6. CASE Issue(d) \/ Reject(d) \/ TimeoutFires(d) \/ DeliverFailure(d)
    BY <2>6 DEF Issue, Reject, TimeoutFires, DeliverFailure, Unsettled
  <2>7. QED
    BY <1>2, <2>1, <2>2, <2>3, <2>4, <2>5, <2>6, RequestSteps DEF CallStep
<1>3. ASSUME NEW gone \in SUBSET Calls, Release(gone) PROVE Goal
  BY <1>3 DEF Release, Cancelled
<1>4. CASE Kill
  BY <1>4 DEF Kill, Cancelled
<1>5. QED
  BY <1>1, <1>2, <1>3, <1>4 DEF ApiNext

\* What Firebase has carried out stays carried out, and was asked for.
LEMMA HappenedIsStable ==
    ASSUME ApiTypeOK, ApiTypeOK', [ApiNext]_apiVars, NEW c \in Calls
    PROVE  /\ Happened(c) => Happened(c)'
           /\ Happened(c)' => pipe'[c] # "idle"
<1>1. Happened(c)' => pipe'[c] # "idle"
  BY DEF ApiTypeOK, Happened
<1>2. ASSUME Happened(c) PROVE Happened(c)'
  <2> USE DEF ApiTypeOK
  <2>1. CASE UNCHANGED apiVars
    BY <1>2, <2>1 DEF apiVars, Happened
  <2>2. ASSUME NEW d \in Calls, CallStep(d) PROVE Happened(c)'
    <3>1. pipe[c] # "idle"
      BY <1>2 DEF Happened
    <3>2. CASE RequestStep(d)
      BY <1>2, <3>2 DEF RequestStep, Moves, Happened
    <3>3. QED
      BY <1>2, <2>2, <3>1, <3>2, RequestSteps
      DEF CallStep, Issue, Reject, IssueSync, Callback, TimeoutFires,
          DeliverValue, DeliverAndChain, DeliverFailure, Happened
  <2>3. ASSUME NEW gone \in SUBSET Calls, Release(gone) PROVE Happened(c)'
    BY <1>2, <2>3 DEF Release, Happened
  <2>4. CASE Kill
    BY <1>2, <2>4 DEF Kill, Bereft, Happened
  <2>5. QED
    BY <2>1, <2>2, <2>3, <2>4 DEF ApiNext
<1>3. QED
  BY <1>1, <1>2

\* The pipeline implements the promise of APIManagerProtocol: each subscriber
\* hears at most one outcome, and a success only of something carried out.
THEOREM PipelineKeepsContract == ApiSpec => KeepsContract
<1>1. ApiInit => Contract!Init
  BY DEF ApiInit, Contract!Init, Told, Happened
<1>2. ASSUME ApiInv, ApiInv', [ApiNext]_apiVars
      PROVE  Contract!Next
  <2> USE DEF ApiInv
  <2>1. \A c \in Calls : Told[pipe'[c]] \in Contract!Outcomes
    BY <1>2 DEF ApiTypeOK, Told, Contract!Outcomes, Pipes, Unsettled, Settled
  <2>2. ASSUME NEW c \in Calls PROVE Contract!Lives(c)
    <3>1. CASE pipe'[c] = pipe[c]
      BY <3>1 DEF Contract!Lives
    <3>2. CASE pipe[c] = "idle" /\ pipe'[c] \in Unsettled
      BY <3>2 DEF Contract!Lives, Told, Unsettled
    <3>3. CASE pipe[c] = "value" /\ pipe'[c] = "succeeded"
      BY <1>2, <3>3 DEF Contract!Lives, Told, SuccessInv, Happened
    <3>4. CASE /\ pipe[c] \in Unsettled
               /\ pipe'[c] \in {"value", "failure", "failed", "cancelled"}
      BY <3>4 DEF Contract!Lives, Told, Unsettled
    <3>5. QED
      BY <1>2, <3>1, <3>2, <3>3, <3>4, PipeMoves
  <2>3. \A c \in Calls : Happened(c) => Happened(c)'
    BY <1>2, HappenedIsStable
  <2>4. \A c \in Calls : Happened(c)' => Told[pipe'[c]] # "none"
    BY <1>2, HappenedIsStable DEF ApiTypeOK, Told, Pipes, Unsettled, Settled
  <2>5. QED
    BY <2>1, <2>2, <2>3, <2>4 DEF Contract!Next
<1>3. QED
  BY ApiInvInductive, <1>1, <1>2, PTL DEF ApiSpec, KeepsContract, Contract!Spec
=============================================================================
