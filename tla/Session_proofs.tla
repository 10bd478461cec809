--------------------------- MODULE Session_proofs ---------------------------
(***************************************************************************)
(* Proofs about the session, for any sets of calls and users.  Every step  *)
(* of the app is a step of the publishers, so that what is proved of them  *)
(* (ApiCall_proofs) holds of the session as well.  Spinners and screens    *)
(* are followed through the calls that are pending (PendingSteps), the     *)
(* accounts, the profiles and the current user through what Firebase does  *)
(* (FactSteps).                                                            *)
(***************************************************************************)
EXTENDS Session, ApiCall_proofs

\* A touch, a callback, a sink, a pop or a relaunch is one step of the
\* publishers it goes through, or none.
LEMMA SessionStepIsApiStep ==
    ASSUME [SessionNext]_sessionVars
    PROVE  [ApiNext]_apiVars
<1>1. CASE UNCHANGED sessionVars
  BY <1>1 DEF sessionVars
<1>2. ASSUME NEW c \in Calls, Touch(c) PROVE ApiNext
  <2>1. Issue(c) \/ Reject(c) \/ \E ok \in BOOLEAN : IssueSync(c, ok)
    BY <1>2 DEF Touch, LoginButtonPressed, CreateUserButtonPressed,
                SendButtonPressed, LogoutButtonPressed, Press
  <2>2. QED
    BY <2>1 DEF ApiNext, CallStep
<1>3. ASSUME NEW c \in Calls, Background(c) PROVE ApiNext
  <2>1. CallStep(c)
    BY <1>3 DEF Background, Carry, Confirm, Progress, CallStep
  <2>2. QED
    BY <2>1 DEF ApiNext
<1>4. ASSUME NEW c \in Calls, Delivery(c) PROVE ApiNext
  <2>1. Replaced \in SUBSET Calls /\ {} \in SUBSET Calls
    BY DEF Replaced
  <2>2. CASE Navigates(c) \/ ResetSucceeds(c)
    <3>1. \E gone \in SUBSET Calls : DeliverValue(c, gone)
      BY <2>1, <2>2 DEF Navigates, ResetSucceeds
    <3>2. QED
      BY <3>1 DEF ApiNext, CallStep
  <2>3. ASSUME NEW d \in Calls, CreateSucceeds(c, d) PROVE ApiNext
    <3>1. DeliverAndChain(c, d, currentUser # NoUser)
      BY <2>3 DEF CreateSucceeds
    <3>2. \E accepted \in BOOLEAN : DeliverAndChain(c, d, accepted)
      BY <3>1
    <3>3. QED
      BY <3>2 DEF ApiNext, CallStep
  <2>4. CASE Fails(c)
    BY <2>4 DEF Fails, ApiNext, CallStep
  <2>5. QED
    BY <1>4, <2>2, <2>3, <2>4 DEF Delivery
<1>5. CASE SignUpButtonPressed \/ RestPasswordButtonPressed \/ SceneActivity
  BY <1>5 DEF SignUpButtonPressed, RestPasswordButtonPressed, Push, SceneActivity
<1>6. CASE Back
  <2>1. CallsOf(screen) \in SUBSET Calls
    BY DEF CallsOf
  <2>2. QED
    BY <1>6, <2>1 DEF Back, ApiNext
<1>7. CASE Relaunch
  BY <1>7 DEF Relaunch, ApiNext
<1>8. QED
  BY <1>1, <1>2, <1>3, <1>4, <1>5, <1>6, <1>7 DEF SessionNext

\* The session uses its publishers only in the ways ApiCall allows.
THEOREM SessionImplementsApi == SessionSpec => ApiSpec
<1>1. SessionInit => ApiInit
  BY DEF SessionInit
<1>2. [SessionNext]_sessionVars => [ApiNext]_apiVars
  BY SessionStepIsApiStep
<1>3. QED
  BY <1>1, <1>2, PTL DEF SessionSpec, ApiSpec

\* No screen of the app navigates on a login, a sign-up or a logout that
\* Firebase has not carried out.
THEOREM SessionSuccessesAreReal == SessionSpec => []SuccessIsReal
  BY SessionImplementsApi, SuccessesAreReal, PTL

-----------------------------------------------------------------------------
\* A request that reached Firebase passed the guards of the API: it names a
\* user.
NamedInv ==
    \A c \in Calls : remote[c] # "idle" /\ req[c].op \in {"login", "create"}
                        => req[c].user \in Users

SessionInv == ApiTypeOK /\ SessionTypeOK /\ NamedInv /\ NoTabsWithoutUser

\* The part of the type invariant that calls and requests do not touch.
PlacesOK ==
    /\ accounts \subseteq Users
    /\ profiles \in [Users -> Users \cup {NoUser}]
    /\ currentUser \in Users \cup {NoUser}
    /\ screen \in Screens
    /\ home \in Users \cup {NoUser} /\ (home = NoUser <=> screen # "tabs")
    /\ loading \in [ViewModels -> BOOLEAN]
    /\ active \in BOOLEAN /\ missed \in BOOLEAN

RequestsOK ==
    /\ req \in [Calls -> Requests \cup {NoRequest}]
    /\ \A c \in Calls : req[c] = NoRequest <=> pipe[c] = "idle"

LEMMA TypeParts == SessionTypeOK <=> RequestsOK /\ PlacesOK
  BY DEF SessionTypeOK, RequestsOK, PlacesOK

LEMMA OwnerType ==
    /\ \A op \in Ops : Owner[op] \in ViewModels
    /\ Ops = {"login", "create", "setInfo", "reset", "logout"}
    /\ NoRequest.op \notin Ops
    /\ NoRequest \notin Requests
<1>1. Ops = {"login", "create", "setInfo", "reset", "logout"}
  BY DEF Ops, Owner
<1>2. \A op \in Ops : Owner[op] \in ViewModels
  BY <1>1 DEF Owner, ViewModels
<1>3. NoRequest.op \notin Ops
  BY <1>1 DEF NoRequest
<1>4. QED
  BY <1>1, <1>2, <1>3 DEF Requests

\* A call is made with a request and stays the call it is.
LEMMA RequestsStep ==
    ASSUME SessionInv, [SessionNext]_sessionVars
    PROVE  /\ RequestsOK'
           /\ \A c \in Calls : pipe[c] # "idle" => req'[c] = req[c]
<1> USE DEF SessionInv
<1>1. RequestsOK
  BY TypeParts
<1>2. \A c \in Calls : pipe[c] # "idle" => pipe'[c] # "idle"
  BY SessionStepIsApiStep, PipeMoves DEF Unsettled
<1>3. ASSUME UNCHANGED req,
             \A c \in Calls : pipe[c] = "idle" => pipe'[c] = "idle"
      PROVE  /\ RequestsOK'
             /\ \A c \in Calls : pipe[c] # "idle" => req'[c] = req[c]
  BY <1>1, <1>2, <1>3 DEF RequestsOK
<1>4. CASE UNCHANGED sessionVars
  BY <1>3, <1>4 DEF sessionVars, apiVars
<1>5. ASSUME NEW c \in Calls, Touch(c)
      PROVE  /\ RequestsOK'
             /\ \A d \in Calls : pipe[d] # "idle" => req'[d] = req[d]
  <2>1. PICK r \in Requests : req' = [req EXCEPT ![c] = r]
    BY <1>5, OwnerType DEF Touch, LoginButtonPressed, CreateUserButtonPressed,
       SendButtonPressed, LogoutButtonPressed, Press, Requests
  <2>2. pipe[c] = "idle" /\ pipe'[c] # "idle"
        /\ \A d \in Calls \ {c} : pipe'[d] = pipe[d]
    BY <1>5 DEF Touch, LoginButtonPressed, CreateUserButtonPressed,
       SendButtonPressed, LogoutButtonPressed, Press, Issue, Reject, IssueSync,
       SessionInv, ApiTypeOK
  <2>3. QED
    BY <1>1, <2>1, <2>2, OwnerType DEF RequestsOK
<1>6. ASSUME NEW c \in Calls, Background(c)
      PROVE  /\ UNCHANGED req
             /\ \A d \in Calls : pipe[d] = "idle" => pipe'[d] = "idle"
  BY <1>6 DEF Background, Carry, Confirm, Progress, Serve, ServeAdrift, Reply,
     RunBlock, DropBlock, Refuse, LoseReply, Callback, TimeoutFires, Moves, ApiTypeOK
<1>7. ASSUME NEW c \in Calls, Navigates(c) \/ ResetSucceeds(c) \/ Fails(c)
      PROVE  /\ UNCHANGED req
             /\ \A d \in Calls : pipe[d] = "idle" => pipe'[d] = "idle"
  <2>1. UNCHANGED req
    BY <1>7 DEF Navigates, ResetSucceeds, Fails
  <2>2. (\E gone : DeliverValue(c, gone)) \/ DeliverFailure(c)
    BY <1>7 DEF Navigates, ResetSucceeds, Fails
  <2>3. QED
    BY <2>1, <2>2 DEF DeliverValue, DeliverFailure, Cancelled, Unsettled, ApiTypeOK
<1>8. ASSUME NEW c \in Calls, NEW d \in Calls, CreateSucceeds(c, d)
      PROVE  /\ RequestsOK'
             /\ \A e \in Calls : pipe[e] # "idle" => req'[e] = req[e]
  <2>1. /\ pipe[c] = "value" /\ pipe[d] = "idle"
        /\ pipe'[c] # "idle" /\ pipe'[d] # "idle"
        /\ \A e \in Calls \ {c, d} : pipe'[e] = pipe[e]
    BY <1>8 DEF CreateSucceeds, DeliverAndChain, ApiTypeOK
  <2>2. req[c] \in Requests
    BY <1>1, <2>1 DEF RequestsOK
  <2>3. PICK r \in Requests : req' = [req EXCEPT ![d] = r]
    BY <1>8, <2>2, OwnerType, TypeParts DEF CreateSucceeds, Requests, PlacesOK
  <2>4. QED
    BY <1>1, <2>1, <2>3, OwnerType DEF RequestsOK
<1>9. CASE SignUpButtonPressed \/ RestPasswordButtonPressed \/ SceneActivity
  BY <1>3, <1>9 DEF SignUpButtonPressed, RestPasswordButtonPressed, Push,
     SceneActivity, apiVars
<1>10. CASE Back
  BY <1>3, <1>10 DEF Back, Release, Cancelled, Unsettled
<1>11. CASE Relaunch
  BY <1>3, <1>11 DEF Relaunch, Kill, Cancelled, Unsettled
<1>12. QED
  BY <1>3, <1>4, <1>5, <1>6, <1>7, <1>8, <1>9, <1>10, <1>11
  DEF SessionNext, Delivery

LEMMA NamedStep ==
    ASSUME SessionInv, [SessionNext]_sessionVars
    PROVE  NamedInv'
<1> USE DEF SessionInv
<1>1. SUFFICES ASSUME NEW c \in Calls, remote'[c] # "idle",
                      req'[c].op \in {"login", "create"}
               PROVE  req'[c].user \in Users
  BY DEF NamedInv
<1>2. ASSUME pipe[c] # "idle", remote[c] # "idle" PROVE req'[c].user \in Users
  BY <1>1, <1>2, RequestsStep DEF NamedInv
<1>3. CASE UNCHANGED remote
  BY <1>1, <1>2, <1>3 DEF ApiTypeOK
<1>4. CASE UNCHANGED sessionVars
  BY <1>3, <1>4 DEF sessionVars, apiVars
<1>5. ASSUME NEW d \in Calls, Touch(d) PROVE req'[c].user \in Users
  <2>1. CASE d # c
    <3>1. remote[c] # "idle"
      BY <1>1, <1>5, <2>1 DEF Touch, LoginButtonPressed, CreateUserButtonPressed,
         SendButtonPressed, LogoutButtonPressed, Press, Issue, Reject, IssueSync,
         ApiTypeOK
    <3>2. QED
      BY <1>2, <3>1 DEF ApiTypeOK
  <2>2. ASSUME d = c, NEW ok \in BOOLEAN, LogoutButtonPressed(c, ok) PROVE FALSE
    BY <1>1, <2>2, TypeParts DEF LogoutButtonPressed, RequestsOK
  <2>3. ASSUME d = c, NEW vm, NEW op, NEW u \in Users, NEW filled \in BOOLEAN,
               Press(vm, c, op, u, filled)
        PROVE  req'[c].user \in Users
    <3>1. CASE filled
      BY <2>3, <3>1, TypeParts DEF Press, RequestsOK
    <3>2. CASE ~filled
      <4>1. remote' = remote /\ pipe[c] = "idle"
        BY <2>3, <3>2 DEF Press, Reject
      <4>2. QED
        BY <1>1, <4>1 DEF ApiTypeOK
    <3>3. QED
      BY <3>1, <3>2
  <2>4. QED
    BY <1>5, <2>1, <2>2, <2>3 DEF Touch, LoginButtonPressed, CreateUserButtonPressed,
       SendButtonPressed
<1>6. ASSUME NEW d \in Calls, Background(d) PROVE req'[c].user \in Users
  <2>1. UNCHANGED remote \/ RequestStep(d)
    BY <1>6, RequestSteps DEF Background, Carry, Confirm, Progress, Callback, TimeoutFires
  <2>2. CASE RequestStep(d)
    <3>1. remote[c] # "idle"
      BY <1>1, <2>2 DEF RequestStep, Moves, ApiTypeOK
    <3>2. QED
      BY <1>2, <3>1 DEF ApiTypeOK
  <2>3. QED
    BY <1>3, <2>1, <2>2
<1>7. ASSUME NEW d \in Calls, Delivery(d) PROVE req'[c].user \in Users
  <2>1. CASE Navigates(d) \/ ResetSucceeds(d) \/ Fails(d)
    BY <1>3, <2>1 DEF Navigates, ResetSucceeds, Fails, DeliverValue, DeliverFailure
  <2>2. ASSUME NEW e \in Calls, CreateSucceeds(d, e) PROVE req'[c].user \in Users
    <3>1. CASE c = e
      BY <1>1, <2>2, <3>1, TypeParts DEF CreateSucceeds, RequestsOK
    <3>2. CASE c # e
      <4>1. remote'[c] = remote[c]
        BY <2>2, <3>2 DEF CreateSucceeds, DeliverAndChain, ApiTypeOK
      <4>2. QED
        BY <1>1, <1>2, <4>1 DEF ApiTypeOK
    <3>3. QED
      BY <3>1, <3>2
  <2>3. QED
    BY <1>7, <2>1, <2>2 DEF Delivery
<1>8. CASE SignUpButtonPressed \/ RestPasswordButtonPressed \/ SceneActivity \/ Back
  BY <1>3, <1>8 DEF SignUpButtonPressed, RestPasswordButtonPressed, Push,
     SceneActivity, Back, Release, apiVars
<1>9. CASE Relaunch
  <2>1. remote[c] # "idle"
    BY <1>1, <1>9 DEF Relaunch, Kill, Bereft
  <2>2. QED
    BY <1>2, <2>1 DEF ApiTypeOK
<1>10. QED
  BY <1>4, <1>5, <1>6, <1>7, <1>8, <1>9 DEF SessionNext

LEMMA PlacesStep ==
    ASSUME SessionInv, [SessionNext]_sessionVars
    PROVE  PlacesOK'
<1> USE SessionAssumption
<1>0. PlacesOK /\ RequestsOK
  BY TypeParts DEF SessionInv
<1>1. CASE UNCHANGED sessionVars
  BY <1>0, <1>1 DEF sessionVars, remoteState, ui, PlacesOK
<1>2. ASSUME NEW c \in Calls, Touch(c) PROVE PlacesOK'
  <2>1. ASSUME NEW vm \in ViewModels, NEW op, NEW u, NEW filled,
               Press(vm, c, op, u, filled)
        PROVE  PlacesOK'
    BY <1>0, <2>1 DEF Press, remoteState, PlacesOK
  <2>2. ASSUME NEW ok \in BOOLEAN, LogoutButtonPressed(c, ok) PROVE PlacesOK'
    BY <1>0, <2>2 DEF LogoutButtonPressed, remoteState, PlacesOK, ViewModels
  <2>3. QED
    BY <1>2, <2>1, <2>2 DEF Touch, LoginButtonPressed, CreateUserButtonPressed,
       SendButtonPressed, ViewModels
<1>3. ASSUME NEW c \in Calls, Background(c) PROVE PlacesOK'
  <2>1. UNCHANGED <<screen, home, loading, missed, active>>
    BY <1>3 DEF Background, ui
  <2>2. req[c] \in Requests \cup {NoRequest}
    BY <1>0 DEF RequestsOK
  <2>3. req[c].user \in Users \cup {NoUser} /\ req[c].uid \in Users \cup {NoUser}
    BY <2>2 DEF Requests, NoRequest
  <2>4. currentUser' \in Users \cup {NoUser}
    BY <1>0, <1>3, <2>3 DEF Background, Carry, Confirm, Progress, PlacesOK
  <2>5. profiles' \in [Users -> Users \cup {NoUser}]
    BY <1>0, <1>3, <2>3 DEF Background, Carry, Confirm, Progress, Effect, PlacesOK,
       remoteState
  <2>6. accounts' \subseteq Users
    <3>1. CASE Carry(c)
      <4>1. remote[c] # "idle"
        BY <3>1 DEF Carry, Serve, ServeAdrift, Moves
      <4>2. req[c].op = "create" => req[c].user \in Users
        BY <4>1 DEF SessionInv, NamedInv
      <4>3. QED
        BY <1>0, <3>1, <4>2 DEF Carry, Effect, PlacesOK, remoteState
    <3>2. CASE ~Carry(c)
      BY <1>0, <1>3, <3>2 DEF Background, Confirm, Progress, PlacesOK, remoteState
    <3>3. QED
      BY <3>1, <3>2
  <2>7. QED
    BY <1>0, <2>1, <2>4, <2>5, <2>6 DEF PlacesOK
<1>4. ASSUME ShowRoot, UNCHANGED <<remoteState, currentUser>>, active' \in BOOLEAN
      PROVE  PlacesOK'
  BY <1>0, <1>4 DEF ShowRoot, Idle, PlacesOK, Screens, remoteState
<1>5. ASSUME NEW c \in Calls, Delivery(c) PROVE PlacesOK'
  <2>1. req[c].op \in Ops => Owner[req[c].op] \in ViewModels
    BY OwnerType
  <2>2. CASE Navigates(c)
    <3>1. Owner[req[c].op] \in ViewModels
      BY <2>1, <2>2, OwnerType DEF Navigates
    <3>2. UNCHANGED <<remoteState, currentUser, active>>
      BY <2>2 DEF Navigates
    <3>3. CASE ShowRoot
      BY <1>0, <1>4, <3>2, <3>3 DEF PlacesOK
    <3>4. CASE ~ShowRoot
      BY <1>0, <2>2, <3>1, <3>2, <3>4 DEF Navigates, Start, PlacesOK, remoteState
    <3>5. QED
      BY <3>3, <3>4
  <2>3. ASSUME NEW d \in Calls, CreateSucceeds(c, d) PROVE PlacesOK'
    BY <1>0, <2>3 DEF CreateSucceeds, PlacesOK, remoteState, ViewModels
  <2>4. CASE ResetSucceeds(c)
    BY <1>0, <2>4 DEF ResetSucceeds, PlacesOK, remoteState, ViewModels
  <2>5. CASE Fails(c)
    BY <1>0, <2>5 DEF Fails, PlacesOK, remoteState
  <2>6. QED
    BY <1>5, <2>2, <2>3, <2>4, <2>5 DEF Delivery
<1>6. CASE SignUpButtonPressed \/ RestPasswordButtonPressed
  BY <1>0, <1>6 DEF SignUpButtonPressed, RestPasswordButtonPressed, Push, PlacesOK,
     Screens, remoteState
<1>7. CASE Back
  BY <1>0, <1>7 DEF Back, PlacesOK, Screens, remoteState
<1>8. CASE SceneActivity
  BY <1>0, <1>8 DEF SceneActivity, PlacesOK, remoteState, ui
<1>9. CASE Relaunch
  BY <1>4, <1>9 DEF Relaunch
<1>10. QED
  BY <1>1, <1>2, <1>3, <1>5, <1>6, <1>7, <1>8, <1>9 DEF SessionNext

\* A logout leaves a value on the run loop; whoever takes it off shows the
\* login screen or notes that there was no window.
LEMMA NoTabsStep ==
    ASSUME SessionInv, [SessionNext]_sessionVars
    PROVE  NoTabsWithoutUser'
<1> USE SessionAssumption
<1>0. PlacesOK /\ RequestsOK /\ ApiTypeOK
  BY TypeParts DEF SessionInv
<1> DEFINE Owed == \E c \in Calls : req[c].op = "logout" /\ pipe[c] = "value"
<1>1. \A c \in Calls : c \in CallsOf("settings") <=> req[c].op = "logout"
  BY OwnerType DEF CallsOf, Owner
<1>2. \A c \in Calls : c \in CallsOf("settings")' <=> req'[c].op = "logout"
  BY OwnerType DEF CallsOf, Owner
<1>3. screen = "tabs" /\ currentUser = NoUser => missed \/ Owed
  BY <1>1 DEF SessionInv, NoTabsWithoutUser, CallsOf
<1>4. SUFFICES ASSUME screen' = "tabs", currentUser' = NoUser
               PROVE  missed' \/ Owed'
  BY <1>2 DEF NoTabsWithoutUser, CallsOf
<1>5. ASSUME NEW c \in Calls, req[c].op = "logout", pipe[c] = "value",
             pipe'[c] = "value"
      PROVE  Owed'
  BY <1>5, RequestsStep
<1>6. ASSUME UNCHANGED <<screen, currentUser, missed>>,
             \A c \in Calls : req[c].op = "logout" /\ pipe[c] = "value"
                                => pipe'[c] = "value"
      PROVE  missed' \/ Owed'
  BY <1>3, <1>4, <1>5, <1>6
<1>7. CASE UNCHANGED sessionVars
  BY <1>6, <1>7 DEF sessionVars, apiVars, ui
<1>8. ASSUME NEW c \in Calls, Touch(c) PROVE missed' \/ Owed'
  <2>1. ASSUME NEW ok \in BOOLEAN, LogoutButtonPressed(c, ok) PROVE missed' \/ Owed'
    <3>1. CASE ok
      <4>1. req'[c].op = "logout" /\ pipe'[c] = "value"
        BY <1>0, <2>1, <3>1 DEF LogoutButtonPressed, IssueSync, RequestsOK, ApiTypeOK
      <4>2. QED
        BY <4>1
    <3>2. CASE ~ok
      BY <1>0, <1>6, <2>1, <3>2 DEF LogoutButtonPressed, IssueSync, ApiTypeOK
    <3>3. QED
      BY <3>1, <3>2
  <2>2. ASSUME NEW vm, NEW op, NEW u, NEW filled, Press(vm, c, op, u, filled)
        PROVE  missed' \/ Owed'
    BY <1>0, <1>6, <2>2 DEF Press, Issue, Reject, ApiTypeOK
  <2>3. QED
    BY <1>8, <2>1, <2>2 DEF Touch, LoginButtonPressed, CreateUserButtonPressed,
       SendButtonPressed
<1>9. ASSUME NEW c \in Calls, Background(c) PROVE missed' \/ Owed'
  <2>1. currentUser' = currentUser
    <3>1. CASE Confirm(c) /\ req[c].op \in {"login", "create"}
      <4>1. remote[c] # "idle" /\ currentUser' = req[c].user
        BY <3>1 DEF Confirm, Reply, Moves
      <4>2. req[c].user \in Users
        BY <3>1, <4>1 DEF SessionInv, NamedInv
      <4>3. QED
        BY <1>4, <4>1, <4>2
    <3>2. QED
      BY <1>9, <3>1 DEF Background, Carry, Confirm, Progress
  <2>2. \A d \in Calls : pipe[d] = "value" => pipe'[d] = "value"
    BY <1>0, <1>9 DEF Background, Carry, Confirm, Progress, Serve, ServeAdrift, Reply,
       RunBlock, DropBlock, Refuse, LoseReply, Callback, TimeoutFires, Moves, ApiTypeOK
  <2>3. QED
    BY <1>6, <1>9, <2>1, <2>2 DEF Background, ui
<1>10. ASSUME ShowRoot, UNCHANGED currentUser PROVE FALSE
  BY <1>4, <1>10 DEF ShowRoot
<1>11. ASSUME NEW c \in Calls, Delivery(c) PROVE missed' \/ Owed'
  <2>1. CASE Navigates(c)
    BY <1>10, <2>1 DEF Navigates, Start
  <2>2. ASSUME NEW d \in Calls, CreateSucceeds(c, d) PROVE missed' \/ Owed'
    BY <1>0, <1>6, <2>2 DEF CreateSucceeds, DeliverAndChain, ApiTypeOK
  <2>3. CASE ResetSucceeds(c)
    BY <1>0, <1>6, <2>3 DEF ResetSucceeds, DeliverValue, Cancelled, ApiTypeOK
  <2>4. CASE Fails(c)
    BY <1>0, <1>6, <2>4 DEF Fails, DeliverFailure, ApiTypeOK
  <2>5. QED
    BY <1>11, <2>1, <2>2, <2>3, <2>4 DEF Delivery
<1>12. CASE SignUpButtonPressed \/ RestPasswordButtonPressed \/ Back
  BY <1>4, <1>12 DEF SignUpButtonPressed, RestPasswordButtonPressed, Push, Back
<1>13. CASE SceneActivity
  BY <1>6, <1>13 DEF SceneActivity, apiVars, ui
<1>14. CASE Relaunch
  BY <1>10, <1>14 DEF Relaunch
<1>15. QED
  BY <1>7, <1>8, <1>9, <1>11, <1>12, <1>13, <1>14 DEF SessionNext

LEMMA SessionInvInit == SessionInit => SessionInv
<1> SUFFICES ASSUME SessionInit PROVE SessionInv
  OBVIOUS
<1> USE SessionAssumption DEF SessionInit
<1>1. ApiTypeOK
  BY ApiInvInductive DEF ApiInv
<1>2. RequestsOK
  BY DEF RequestsOK, ApiInit
<1>3. PlacesOK
  BY DEF PlacesOK, Idle, Screens
<1>4. NamedInv
  BY DEF NamedInv, ApiInit
<1>5. NoTabsWithoutUser
  BY DEF NoTabsWithoutUser
<1>6. QED
  BY <1>1, <1>2, <1>3, <1>4, <1>5, TypeParts DEF SessionInv

LEMMA SessionInvStep == SessionInv /\ [SessionNext]_sessionVars => SessionInv'
<1> SUFFICES ASSUME SessionInv, [SessionNext]_sessionVars PROVE SessionInv'
  OBVIOUS
<1>1. ApiTypeOK'
  BY SessionStepIsApiStep, TypeStep DEF SessionInv
<1>2. SessionTypeOK'
  <2>1. RequestsOK' /\ PlacesOK'
    BY RequestsStep, PlacesStep
  <2>2. QED
    BY <2>1 DEF SessionTypeOK, RequestsOK, PlacesOK
<1>3. QED
  BY <1>1, <1>2, NamedStep, NoTabsStep DEF SessionInv

\* The state of the session is well formed: the tabs always have a user they
\* were built for, and every call that was made has its request.
THEOREM SessionTypeCorrect == SessionSpec => []SessionTypeOK
<1>1. SessionInv => SessionTypeOK
  BY DEF SessionInv
<1>2. QED
  BY SessionInvInit, SessionInvStep, <1>1, PTL DEF SessionSpec

\* A logout takes the tabs off the screen, unless RootCoordinator was started
\* without a window: for any number of calls, however logouts, late answers,
\* relaunches and changes of the scene's activity interleave.
THEOREM LogoutLeavesTabs == SessionSpec => []NoTabsWithoutUser
<1>1. SessionInv => NoTabsWithoutUser
  BY DEF SessionInv
<1>2. QED
  BY SessionInvInit, SessionInvStep, <1>1, PTL DEF SessionSpec
-----------------------------------------------------------------------------
(* Who is being waited for, and where.  A step of the session, seen from   *)
(* the calls that are pending, is of one of seven kinds; the invariants    *)
(* about spinners and screens are proved kind by kind.                     *)

Pending == {c \in Calls : pipe[c] \in Unsettled}
Vm(c)   == Owner[req[c].op]
Place   == [login |-> "login", signup |-> "signup", reset |-> "reset", settings |-> "tabs"]

\* A touch: the view it belongs to is on the screen and, except for logout,
\* its spinner is off.
PressStep ==
    \E c \in Calls \ Pending :
        /\ Pending' = Pending \cup {c}
        /\ Vm(c)' \in ViewModels
        /\ screen = Place[Vm(c)'] /\ UNCHANGED screen
        /\ loading[Vm(c)'] => Vm(c)' = "settings"
        /\ loading' = [loading EXCEPT ![Vm(c)'] = TRUE]

\* A sink hears its outcome and stays where it is.
SettleStep ==
    \E c \in Pending :
        /\ Pending' = Pending \ {c}
        /\ pipe'[c] \in {"failed", "succeeded"}
        /\ loading' = [loading EXCEPT ![Vm(c)] = FALSE]
        /\ UNCHANGED screen

\* A sink hears of a createUser and makes the next call.
ChainStep ==
    \E c \in Pending, d \in Calls \ Pending :
        /\ req[c].op = "create" /\ req'[d].op = "setInfo"
        /\ Pending' = (Pending \ {c}) \cup {d}
        /\ loading' = [loading EXCEPT !["signup"] = FALSE]
        /\ UNCHANGED screen

\* The window gets a new root, or the process a new life.
RootStep == Pending' = {} /\ loading' = Idle

PushStep ==
    /\ Pending' = Pending /\ UNCHANGED loading
    /\ screen = "login" /\ ~loading["login"]

BackStep ==
    /\ screen \in {"signup", "reset"} /\ screen' = "login"
    /\ Pending' = Pending \ {c \in Pending : Vm(c) = screen}
    /\ loading' = [loading EXCEPT ![screen] = FALSE]

StillStep == Pending' = Pending /\ UNCHANGED <<loading, screen>>

\* A pending call has an operation, and with it a view model.
LEMMA PendingHasOp ==
    ASSUME RequestsOK, NEW c \in Pending
    PROVE  /\ c \in Calls /\ pipe[c] # "idle"
           /\ req[c] \in Requests /\ req[c].op \in Ops /\ Vm(c) \in ViewModels
<1>1. c \in Calls /\ pipe[c] # "idle"
  BY DEF Pending, Unsettled
<1>2. req[c] \in Requests
  BY <1>1 DEF RequestsOK
<1>3. req[c].op \in Ops
  BY <1>2 DEF Requests
<1>4. QED
  BY <1>1, <1>2, <1>3, OwnerType DEF Vm

LEMMA Owners ==
    /\ Owner["login"] = "login" /\ Owner["create"] = "signup" /\ Owner["setInfo"] = "signup"
    /\ Owner["reset"] = "reset" /\ Owner["logout"] = "settings"
    /\ \A op \in Ops : /\ Owner[op] = "login" <=> op = "login"
                       /\ Owner[op] = "reset" <=> op = "reset"
                       /\ Owner[op] = "settings" <=> op = "logout"
                       /\ Owner[op] = "signup" <=> op \in {"create", "setInfo"}
  BY OwnerType DEF Owner

LEMMA PendingSteps ==
    ASSUME SessionInv, [SessionNext]_sessionVars
    PROVE  PressStep \/ SettleStep \/ ChainStep \/ RootStep \/ PushStep \/ BackStep
              \/ StillStep
<1> DEFINE Goal == PressStep \/ SettleStep \/ ChainStep \/ RootStep \/ PushStep
                      \/ BackStep \/ StillStep
<1>0. ApiTypeOK /\ RequestsOK /\ PlacesOK
  BY TypeParts DEF SessionInv
<1>1. ASSUME NEW c \in Calls, Touch(c) PROVE PressStep
  <2>1. pipe[c] = "idle" /\ pipe'[c] \in Unsettled
        /\ \A d \in Calls \ {c} : pipe'[d] = pipe[d]
    <3>1. Issue(c) \/ Reject(c) \/ \E ok \in BOOLEAN : IssueSync(c, ok)
      BY <1>1 DEF Touch, LoginButtonPressed, CreateUserButtonPressed,
         SendButtonPressed, LogoutButtonPressed, Press
    <3>2. QED
      BY <1>0, <3>1 DEF Issue, Reject, IssueSync, ApiTypeOK, Unsettled
  <2>2. c \in Calls \ Pending /\ Pending' = Pending \cup {c}
    BY <2>1 DEF Pending, Unsettled
  <2>3. \E op \in {"login", "create", "reset", "logout"} :
            /\ req'[c].op = op
            /\ screen = Place[Owner[op]] /\ UNCHANGED screen
            /\ loading[Owner[op]] => Owner[op] = "settings"
            /\ loading' = [loading EXCEPT ![Owner[op]] = TRUE]
    <3>1. ASSUME NEW u \in Users, NEW f \in BOOLEAN, LoginButtonPressed(c, u, f)
          PROVE  req'[c].op = "login" /\ screen = "login" /\ UNCHANGED screen
                 /\ ~loading["login"] /\ loading' = [loading EXCEPT !["login"] = TRUE]
      BY <1>0, <3>1 DEF LoginButtonPressed, Press, RequestsOK
    <3>2. ASSUME NEW u \in Users, NEW f \in BOOLEAN, CreateUserButtonPressed(c, u, f)
          PROVE  req'[c].op = "create" /\ screen = "signup" /\ UNCHANGED screen
                 /\ ~loading["signup"] /\ loading' = [loading EXCEPT !["signup"] = TRUE]
      BY <1>0, <3>2 DEF CreateUserButtonPressed, Press, RequestsOK
    <3>3. ASSUME NEW u \in Users, NEW f \in BOOLEAN, SendButtonPressed(c, u, f)
          PROVE  req'[c].op = "reset" /\ screen = "reset" /\ UNCHANGED screen
                 /\ ~loading["reset"] /\ loading' = [loading EXCEPT !["reset"] = TRUE]
      BY <1>0, <3>3 DEF SendButtonPressed, Press, RequestsOK
    <3>4. ASSUME NEW ok \in BOOLEAN, LogoutButtonPressed(c, ok)
          PROVE  req'[c].op = "logout" /\ screen = "tabs" /\ UNCHANGED screen
                 /\ loading' = [loading EXCEPT !["settings"] = TRUE]
      BY <1>0, <3>4 DEF LogoutButtonPressed, RequestsOK
    <3>5. QED
      BY <1>1, <3>1, <3>2, <3>3, <3>4, Owners DEF Touch, Place
  <2>4. QED
    BY <2>2, <2>3, OwnerType DEF PressStep, Vm
<1>2. ASSUME NEW c \in Calls, Background(c) PROVE StillStep
  <2>1. \A d \in Calls : pipe'[d] \in Unsettled <=> pipe[d] \in Unsettled
    BY <1>0, <1>2 DEF Background, Carry, Confirm, Progress, Serve, ServeAdrift, Reply,
       RunBlock, DropBlock, Refuse, LoseReply, Callback, TimeoutFires, Moves, ApiTypeOK,
       Unsettled
  <2>2. QED
    BY <1>2, <2>1 DEF Background, ui, StillStep, Pending
<1>3. ASSUME NEW c \in Calls, pipe[c] \in Unsettled, Vm(c) \in ViewModels,
             pipe' = [pipe EXCEPT ![c] = "failed"] \/ pipe' = [pipe EXCEPT ![c] = "succeeded"],
             loading' = [loading EXCEPT ![Vm(c)] = FALSE], UNCHANGED screen
      PROVE  SettleStep
  <2>1. pipe'[c] \in {"failed", "succeeded"} /\ \A d \in Calls \ {c} : pipe'[d] = pipe[d]
    BY <1>0, <1>3 DEF ApiTypeOK
  <2>2. c \in Pending /\ Pending' = Pending \ {c}
    BY <1>3, <2>1 DEF Pending, Unsettled
  <2>3. QED
    BY <1>3, <2>1, <2>2 DEF SettleStep
<1>4. Cancelled(pipe, {}) = pipe /\ \A c \in Calls : Cancelled([pipe EXCEPT ![c] = "succeeded"], {})
                                       = [pipe EXCEPT ![c] = "succeeded"]
  BY <1>0 DEF Cancelled, ApiTypeOK
<1>5. ASSUME NEW c \in Calls, Delivery(c) PROVE Goal
  <2>1. pipe[c] \in {"value", "failure"}
    BY <1>5 DEF Delivery, Navigates, CreateSucceeds, ResetSucceeds, Fails, DeliverValue,
       DeliverAndChain, DeliverFailure
  <2>2. c \in Pending /\ pipe[c] \in Unsettled
    BY <2>1 DEF Pending, Unsettled
  <2>3. req[c].op \in Ops /\ Vm(c) \in ViewModels
    BY <1>0, <2>2, PendingHasOp
  <2>4. CASE Navigates(c) /\ active
    <3>1. pipe' = Cancelled([pipe EXCEPT ![c] = "succeeded"], Calls) /\ loading' = Idle
      BY <2>4 DEF Navigates, DeliverValue, Replaced, Start, ShowRoot
    <3>2. \A d \in Calls : pipe'[d] \notin Unsettled
      BY <3>1 DEF Cancelled, Unsettled
    <3>3. QED
      BY <3>1, <3>2 DEF RootStep, Pending
  <2>5. CASE Navigates(c) /\ ~active
    BY <1>3, <1>4, <2>2, <2>3, <2>5 DEF Navigates, DeliverValue, Replaced, Start, Vm
  <2>6. ASSUME NEW d \in Calls, CreateSucceeds(c, d) PROVE ChainStep
    <3>1. pipe[d] = "idle" /\ c # d /\ pipe'[c] = "succeeded" /\ pipe'[d] \in Unsettled
          /\ \A e \in Calls \ {c, d} : pipe'[e] = pipe[e]
      BY <1>0, <2>6 DEF CreateSucceeds, DeliverAndChain, ApiTypeOK, Unsettled
    <3>2. d \in Calls \ Pending /\ Pending' = (Pending \ {c}) \cup {d}
      BY <3>1 DEF Pending, Unsettled
    <3>3. req'[d].op = "setInfo"
      BY <1>0, <2>6 DEF CreateSucceeds, RequestsOK
    <3>4. QED
      BY <2>2, <2>6, <3>2, <3>3 DEF ChainStep, CreateSucceeds
  <2>7. CASE ResetSucceeds(c)
    BY <1>3, <1>4, <2>2, <2>3, <2>7, Owners DEF ResetSucceeds, DeliverValue, Vm
  <2>8. CASE Fails(c)
    BY <1>3, <2>2, <2>3, <2>8 DEF Fails, DeliverFailure, Vm
  <2>9. QED
    BY <1>5, <2>4, <2>5, <2>6, <2>7, <2>8 DEF Delivery
<1>6. CASE SignUpButtonPressed \/ RestPasswordButtonPressed
  BY <1>6 DEF SignUpButtonPressed, RestPasswordButtonPressed, Push, PushStep, Pending, apiVars
<1>7. CASE Back
  <2>1. pipe' = Cancelled(pipe, CallsOf(screen)) /\ screen \in {"signup", "reset"}
    BY <1>7 DEF Back, Release
  <2>2. \A c \in Calls : pipe'[c] \in Unsettled <=> pipe[c] \in Unsettled /\ c \notin CallsOf(screen)
    BY <2>1 DEF Cancelled, Unsettled
  <2>3. \A c \in Pending : c \in CallsOf(screen) <=> Vm(c) = screen
    BY <1>0, PendingHasOp DEF CallsOf, Vm
  <2>4. Pending' = Pending \ {c \in Pending : Vm(c) = screen}
    BY <2>2, <2>3 DEF Pending
  <2>5. QED
    BY <1>7, <2>4 DEF Back, BackStep
<1>8. CASE SceneActivity \/ UNCHANGED sessionVars
  BY <1>8 DEF SceneActivity, sessionVars, apiVars, ui, StillStep, Pending
<1>9. CASE Relaunch
  <2>1. \A d \in Calls : pipe'[d] \notin Unsettled
    BY <1>9 DEF Relaunch, Kill, Cancelled, Unsettled
  <2>2. QED
    BY <1>9, <2>1 DEF Relaunch, ShowRoot, RootStep, Pending
<1>10. QED
  BY <1>1, <1>2, <1>5, <1>6, <1>7, <1>8, <1>9 DEF SessionNext

-----------------------------------------------------------------------------
(* Spinners and screens.                                                   *)

SpinInv ==
    /\ \A vm \in {"login", "reset"} : loading[vm] <=> \E c \in Pending : Vm(c) = vm
    /\ \A vm \in {"signup", "settings"} : loading[vm] => \E c \in Pending : Vm(c) = vm

\* Login and reset never wait for two answers: their spinner covers the button.
OneInv == \A c, d \in Pending : Vm(c) = Vm(d) /\ Vm(c) \in {"login", "reset"} => c = d

\* Whoever waits for an answer is on the screen: a view that goes takes its
\* calls with it, and nobody leaves login with its spinner on.
ScreenInv == \A c \in Pending : screen = Place[Vm(c)]

\* A setUserInfo has ended without a new root taking the view away; for want of
\* a record of that, any setUserInfo that ended counts.
InfoEnded == \E d \in Calls : req[d].op = "setInfo" /\ pipe[d] \in {"failed", "succeeded"}

\* A createUser under way has the spinner on, unless a setUserInfo took it off:
\* only then can there be two of them.
CoverInv == \A c \in Pending : req[c].op = "create" => loading["signup"] \/ InfoEnded
TwoInv ==
    \A c, d \in Pending : req[c].op = "create" /\ req[d].op = "create" /\ c # d => InfoEnded

ViewsInv == SpinInv /\ OneInv /\ ScreenInv /\ CoverInv /\ TwoInv

\* What a call asks for and what its subscriber was told are final.
LEMMA CallStays ==
    ASSUME SessionInv, [SessionNext]_sessionVars, NEW c \in Calls, pipe[c] # "idle"
    PROVE  /\ req'[c] = req[c] /\ pipe'[c] # "idle"
           /\ pipe[c] \in Settled => pipe'[c] = pipe[c]
           /\ remote[c] = "done" => remote'[c] = "done"
<1>1. ApiTypeOK /\ [ApiNext]_apiVars
  BY SessionStepIsApiStep DEF SessionInv
<1>2. QED
  BY <1>1, RequestsStep, PipeMoves, DoneIsStable DEF Settled, Unsettled

LEMMA InfoEndedStays ==
    ASSUME SessionInv, [SessionNext]_sessionVars, InfoEnded
    PROVE  InfoEnded'
<1>1. PICK d \in Calls : req[d].op = "setInfo" /\ pipe[d] \in {"failed", "succeeded"}
  BY DEF InfoEnded
<1>2. req'[d] = req[d] /\ pipe'[d] = pipe[d]
  BY <1>1, CallStays DEF Settled
<1>3. QED
  BY <1>1, <1>2 DEF InfoEnded

\* The spinner and the screen follow the pending calls.
LEMMA SpinStep ==
    ASSUME SessionInv, SpinInv, OneInv, ScreenInv, [SessionNext]_sessionVars
    PROVE  SpinInv' /\ OneInv' /\ ScreenInv'
<1>0. RequestsOK /\ loading \in [ViewModels -> BOOLEAN]
  BY TypeParts DEF SessionInv, PlacesOK
<1>1. \A c \in Pending : Vm(c)' = Vm(c) /\ Vm(c) \in ViewModels /\ c \in Calls
  BY <1>0, PendingHasOp, CallStays DEF Vm
<1>2. /\ \A vm \in {"login", "reset"} : vm \in ViewModels
      /\ \A vm \in {"signup", "settings"} : vm \in ViewModels
      /\ ViewModels = {"login", "reset"} \cup {"signup", "settings"}
  BY DEF ViewModels
<1>3. CASE PressStep
  <2>1. PICK c \in Calls \ Pending :
            /\ Pending' = Pending \cup {c}
            /\ Vm(c)' \in ViewModels
            /\ screen = Place[Vm(c)'] /\ screen' = screen
            /\ loading[Vm(c)'] => Vm(c)' = "settings"
            /\ loading' = [loading EXCEPT ![Vm(c)'] = TRUE]
    BY <1>3 DEF PressStep
  <2>2. SpinInv'
    BY <1>0, <1>1, <1>2, <2>1 DEF SpinInv
  <2>3. OneInv'
    <3>1. ASSUME NEW d \in Pending, Vm(d) = Vm(c)', Vm(c)' \in {"login", "reset"} PROVE FALSE
      BY <2>1, <3>1 DEF SpinInv
    <3>2. QED
      BY <1>1, <2>1, <3>1 DEF OneInv
  <2>4. ScreenInv'
    BY <1>1, <2>1 DEF ScreenInv
  <2>5. QED
    BY <2>2, <2>3, <2>4
<1>4. CASE SettleStep
  <2>1. PICK c \in Pending : /\ Pending' = Pending \ {c} /\ UNCHANGED screen
                             /\ loading' = [loading EXCEPT ![Vm(c)] = FALSE]
    BY <1>4 DEF SettleStep
  <2>2. SpinInv'
    BY <1>0, <1>1, <1>2, <2>1 DEF SpinInv, OneInv
  <2>3. QED
    BY <1>1, <2>1, <2>2 DEF OneInv, ScreenInv
<1>5. CASE ChainStep
  <2>1. PICK c \in Pending, d \in Calls \ Pending :
            /\ req[c].op = "create" /\ req'[d].op = "setInfo"
            /\ Pending' = (Pending \ {c}) \cup {d} /\ UNCHANGED screen
            /\ loading' = [loading EXCEPT !["signup"] = FALSE]
    BY <1>5 DEF ChainStep
  <2>2. Vm(c) = "signup" /\ Vm(d)' = "signup"
    BY <2>1, Owners DEF Vm
  <2>3. SpinInv'
    BY <1>0, <1>1, <1>2, <2>1, <2>2 DEF SpinInv
  <2>4. QED
    BY <1>1, <2>1, <2>2, <2>3 DEF OneInv, ScreenInv
<1>6. CASE RootStep
  BY <1>2, <1>6 DEF RootStep, SpinInv, OneInv, ScreenInv, Idle
<1>7. CASE PushStep
  <2>1. Pending = {}
    BY <1>1, <1>7 DEF PushStep, ScreenInv, SpinInv, Place, ViewModels
  <2>2. QED
    BY <1>7, <2>1 DEF PushStep, SpinInv, OneInv, ScreenInv
<1>8. CASE BackStep
  <2>1. Pending' = {}
    BY <1>1, <1>8 DEF BackStep, ScreenInv, Place, ViewModels
  <2>2. \A vm \in ViewModels : vm # screen => ~loading[vm]
    BY <1>1, <1>2, <1>8 DEF BackStep, ScreenInv, SpinInv, Place, ViewModels
  <2>3. QED
    BY <1>0, <1>2, <1>8, <2>1, <2>2 DEF BackStep, SpinInv, OneInv, ScreenInv
<1>9. CASE StillStep
  BY <1>1, <1>9 DEF StillStep, SpinInv, OneInv, ScreenInv
<1>10. QED
  BY <1>3, <1>4, <1>5, <1>6, <1>7, <1>8, <1>9, PendingSteps

\* Two sign-ups cross only after a setUserInfo has ended.
LEMMA CoverStep ==
    ASSUME SessionInv, ViewsInv, [SessionNext]_sessionVars
    PROVE  CoverInv' /\ TwoInv'
<1>0. RequestsOK /\ loading \in [ViewModels -> BOOLEAN] /\ "signup" \in ViewModels
  BY TypeParts DEF SessionInv, PlacesOK, ViewModels
<1>1. \A c \in Pending : req'[c] = req[c] /\ c \in Calls /\ Vm(c) \in ViewModels
                         /\ (req[c].op \in {"create", "setInfo"} <=> Vm(c) = "signup")
  BY <1>0, PendingHasOp, CallStays, Owners DEF Vm
<1>2. ASSUME InfoEnded PROVE CoverInv' /\ TwoInv'
  BY <1>2, InfoEndedStays DEF CoverInv, TwoInv
<1>3. CASE InfoEnded
  BY <1>2, <1>3
<1>4. CASE ~InfoEnded
  <2>0. /\ \A c \in Pending : req[c].op = "create" => loading["signup"]
        /\ \A c, d \in Pending : req[c].op = "create" /\ req[d].op = "create" => c = d
    BY <1>4 DEF ViewsInv, CoverInv, TwoInv
  <2>1. CASE PressStep
    <3>1. PICK c \in Calls \ Pending :
              /\ Pending' = Pending \cup {c}
              /\ Vm(c)' \in ViewModels
              /\ loading[Vm(c)'] => Vm(c)' = "settings"
              /\ loading' = [loading EXCEPT ![Vm(c)'] = TRUE]
      BY <2>1 DEF PressStep
    <3>2. req'[c].op = "create" => Vm(c)' = "signup"
      BY Owners DEF Vm
    <3>3. loading["signup"] => loading'["signup"]
      BY <1>0, <3>1
    <3>4. req'[c].op = "create" => loading'["signup"] /\ ~loading["signup"]
      BY <1>0, <3>1, <3>2
    <3>5. CoverInv'
      BY <1>1, <2>0, <3>1, <3>3, <3>4 DEF CoverInv
    <3>6. TwoInv'
      BY <1>1, <2>0, <3>1, <3>4 DEF TwoInv
    <3>7. QED
      BY <3>5, <3>6
  <2>2. CASE SettleStep
    <3>1. PICK c \in Pending : /\ Pending' = Pending \ {c} /\ pipe'[c] \in {"failed", "succeeded"}
                               /\ loading' = [loading EXCEPT ![Vm(c)] = FALSE]
      BY <2>2 DEF SettleStep
    <3>2. TwoInv'
      BY <1>1, <2>0, <3>1 DEF TwoInv
    <3>3. CASE req[c].op = "setInfo"
      BY <1>1, <3>1, <3>2, <3>3 DEF CoverInv, InfoEnded
    <3>4. CASE req[c].op = "create"
      BY <1>1, <2>0, <3>1, <3>2, <3>4 DEF CoverInv
    <3>5. CASE req[c].op \notin {"create", "setInfo"}
      <4>1. loading'["signup"] = loading["signup"]
        BY <1>0, <1>1, <3>1, <3>5
      <4>2. QED
        BY <1>1, <2>0, <3>1, <3>2, <4>1 DEF CoverInv
    <3>6. QED
      BY <3>3, <3>4, <3>5
  <2>3. CASE ChainStep
    <3>1. PICK c \in Pending, d \in Calls \ Pending :
              /\ req[c].op = "create" /\ req'[d].op = "setInfo"
              /\ Pending' = (Pending \ {c}) \cup {d}
      BY <2>3 DEF ChainStep
    <3>2. \A e \in Pending' : req'[e].op # "create"
      BY <1>1, <2>0, <3>1
    <3>3. QED
      BY <3>2 DEF CoverInv, TwoInv
  <2>4. CASE RootStep
    BY <2>4 DEF RootStep, CoverInv, TwoInv
  <2>5. CASE PushStep \/ StillStep
    BY <1>1, <2>0, <2>5 DEF PushStep, StillStep, CoverInv, TwoInv
  <2>6. CASE BackStep
    <3>1. Pending' \subseteq Pending
      BY <2>6 DEF BackStep
    <3>2. TwoInv'
      BY <1>1, <2>0, <3>1 DEF TwoInv
    <3>3. CASE screen = "signup"
      <4>1. \A e \in Pending' : req'[e].op # "create"
        BY <1>1, <2>6, <3>3 DEF BackStep
      <4>2. QED
        BY <3>2, <4>1 DEF CoverInv
    <3>4. CASE screen # "signup"
      <4>1. loading'["signup"] = loading["signup"]
        BY <1>0, <2>6, <3>4 DEF BackStep
      <4>2. QED
        BY <1>1, <2>0, <3>1, <3>2, <4>1 DEF CoverInv
    <3>5. QED
      BY <3>3, <3>4
  <2>7. QED
    BY <2>1, <2>2, <2>3, <2>4, <2>5, <2>6, PendingSteps
<1>5. QED
  BY <1>3, <1>4

LEMMA ViewsInvInit == SessionInit => ViewsInv
<1> SUFFICES ASSUME SessionInit PROVE ViewsInv
  OBVIOUS
<1>1. Pending = {}
  BY DEF SessionInit, ApiInit, Pending, Unsettled
<1>2. QED
  BY <1>1 DEF SessionInit, Idle, ViewModels, ViewsInv, SpinInv, OneInv, ScreenInv,
     CoverInv, TwoInv

LEMMA ViewsInvStep == SessionInv /\ ViewsInv /\ [SessionNext]_sessionVars => ViewsInv'
<1> SUFFICES ASSUME SessionInv, ViewsInv, [SessionNext]_sessionVars PROVE ViewsInv'
  OBVIOUS
<1>1. SpinInv' /\ OneInv' /\ ScreenInv'
  BY SpinStep DEF ViewsInv
<1>2. CoverInv' /\ TwoInv'
  BY CoverStep
<1>3. QED
  BY <1>1, <1>2 DEF ViewsInv

\* The spinner of login and of reset is on exactly while a call is under way, and
\* no spinner is left on over a call that has ended: for any number of calls,
\* whatever the timeout, the answer, back, a new root and a relaunch do.
THEOREM SpinnersAreTrue == SessionSpec => []SpinnerIsTrue
<1>1. ASSUME SessionInv, ViewsInv PROVE SpinnerIsTrue
  <2>1. RequestsOK
    BY <1>1, TypeParts DEF SessionInv
  <2>2. \A vm \in ViewModels : Waiting(vm) <=> \E c \in Pending : Vm(c) = vm
    BY <2>1, PendingHasOp DEF Waiting, CallsOf, Pending, Vm
  <2>3. QED
    BY <1>1, <2>2 DEF ViewsInv, SpinInv, SpinnerIsTrue, ViewModels
<1>2. QED
  BY SessionInvInit, SessionInvStep, ViewsInvInit, ViewsInvStep, <1>1, PTL DEF SessionSpec

-----------------------------------------------------------------------------
(* Accounts, profiles and the current user.  A step, seen from them, is of *)
(* one of five kinds.                                                      *)

SameRemote(c) ==
    /\ Happened(c)' <=> Happened(c)
    /\ remote'[c] = "done" <=> remote[c] = "done"
    /\ remote'[c] = "idle" <=> remote[c] = "idle"

\* Firebase carries a request out.
CarryStep ==
    \E c \in Calls :
        /\ remote[c] # "idle" /\ ~Happened(c) /\ Happened(c)' /\ Effect(c)
        /\ \A d \in Calls : /\ remote'[d] = "done" <=> remote[d] = "done"
                            /\ remote'[d] = "idle" <=> remote[d] = "idle"
        /\ \A d \in Calls \ {c} : Happened(d)' <=> Happened(d)
        /\ UNCHANGED <<req, pipe, currentUser, screen, home>>

\* The SDK hears of it.
ConfirmStep ==
    \E c \in Calls :
        /\ remote[c] = "served" /\ remote' = [remote EXCEPT ![c] = "done"]
        /\ currentUser' = IF req[c].op \in {"login", "create"} THEN req[c].user
                          ELSE currentUser
        /\ UNCHANGED <<req, pipe, accounts, profiles, screen, home>>

\* A button is pressed.
AskStep ==
    \E c \in Calls :
        /\ pipe[c] = "idle" /\ req'[c].op \in {"login", "create", "reset", "logout"}
        /\ req'[c].op # "logout" => remote'[c] \in {"idle", "queued"}
        /\ pipe'[c] \in Unsettled
        /\ \A d \in Calls \ {c} : req'[d] = req[d] /\ pipe'[d] = pipe[d] /\ remote'[d] = remote[d]
        /\ currentUser' \in {NoUser, currentUser}
        /\ UNCHANGED <<accounts, profiles, screen, home>>

\* A createUser is followed by its setUserInfo.
InfoStep ==
    \E c, d \in Calls :
        /\ req[c].op = "create" /\ pipe[c] = "value" /\ pipe'[c] = "succeeded"
        /\ pipe[d] = "idle" /\ pipe'[d] \in Unsettled
        /\ req'[d] = [op |-> "setInfo", user |-> req[c].user, uid |-> currentUser]
        /\ remote'[d] = IF currentUser # NoUser THEN "queued" ELSE "idle"
        /\ \A e \in Calls \ {d} : req'[e] = req[e] /\ remote'[e] = remote[e]
        /\ \A e \in Calls \ {c, d} : pipe'[e] = pipe[e]
        /\ UNCHANGED <<accounts, profiles, currentUser, screen, home>>

\* Everything else: outcomes are told or lost, screens come and go.
QuietStep ==
    /\ UNCHANGED <<req, accounts, profiles, currentUser>>
    /\ \A c \in Calls :
          /\ SameRemote(c)
          /\ pipe'[c] \in Unsettled => pipe[c] \in Unsettled
          /\ pipe'[c] = "idle" <=> pipe[c] = "idle"
          /\ req[c].op = "create" /\ pipe'[c] = "succeeded" => pipe[c] = "succeeded"
    /\ UNCHANGED <<screen, home>> \/ home' = currentUser \/ screen' # "tabs"

LEMMA FactSteps ==
    ASSUME SessionInv, [SessionNext]_sessionVars
    PROVE  CarryStep \/ ConfirmStep \/ AskStep \/ InfoStep \/ QuietStep
<1> DEFINE Goal == CarryStep \/ ConfirmStep \/ AskStep \/ InfoStep \/ QuietStep
<1>0. ApiTypeOK /\ RequestsOK /\ PlacesOK
  BY TypeParts DEF SessionInv
<1>1. ASSUME NEW c \in Calls, Touch(c) PROVE AskStep
  <2>1. ASSUME NEW vm, NEW op \in {"login", "create", "reset"}, NEW u, NEW f \in BOOLEAN,
               Press(vm, c, op, u, f)
        PROVE  AskStep
    <3>1. /\ pipe[c] = "idle" /\ pipe'[c] \in Unsettled /\ remote'[c] \in {"idle", "queued"}
          /\ \A d \in Calls \ {c} : pipe'[d] = pipe[d] /\ remote'[d] = remote[d]
      BY <1>0, <2>1 DEF Press, Issue, Reject, ApiTypeOK, Unsettled
    <3>2. req'[c].op = op /\ \A d \in Calls \ {c} : req'[d] = req[d]
      BY <1>0, <2>1 DEF Press, RequestsOK
    <3>3. UNCHANGED <<accounts, profiles, currentUser, screen, home>>
      BY <2>1 DEF Press, remoteState
    <3>4. QED
      BY <3>1, <3>2, <3>3 DEF AskStep
  <2>2. ASSUME NEW ok \in BOOLEAN, LogoutButtonPressed(c, ok) PROVE AskStep
    <3>1. /\ pipe[c] = "idle" /\ pipe'[c] \in Unsettled
          /\ \A d \in Calls \ {c} : pipe'[d] = pipe[d] /\ remote'[d] = remote[d]
      BY <1>0, <2>2 DEF LogoutButtonPressed, IssueSync, ApiTypeOK, Unsettled
    <3>2. req'[c].op = "logout" /\ \A d \in Calls \ {c} : req'[d] = req[d]
      BY <1>0, <2>2 DEF LogoutButtonPressed, RequestsOK
    <3>3. UNCHANGED <<accounts, profiles, screen, home>> /\ currentUser' \in {NoUser, currentUser}
      BY <2>2 DEF LogoutButtonPressed, remoteState
    <3>4. QED
      BY <3>1, <3>2, <3>3 DEF AskStep
  <2>3. QED
    BY <1>1, <2>1, <2>2 DEF Touch, LoginButtonPressed, CreateUserButtonPressed,
       SendButtonPressed
<1>2. ASSUME NEW c \in Calls, Background(c) PROVE Goal
  <2>1. UNCHANGED <<req, screen, home>>
    BY <1>2 DEF Background, ui
  <2>2. CASE Carry(c)
    <3>1. /\ remote[c] \in {"flying", "adrift"} /\ UNCHANGED <<pipe, currentUser>> /\ Effect(c)
          /\ \E to \in {"served", "lost"} : remote' = [remote EXCEPT ![c] = to]
      BY <2>2 DEF Carry, Serve, ServeAdrift, Moves
    <3>2. QED
      BY <1>0, <2>1, <3>1 DEF CarryStep, Happened, ApiTypeOK
  <2>3. CASE Confirm(c)
    BY <2>1, <2>3 DEF Confirm, Reply, Moves, ConfirmStep, remoteState
  <2>4. CASE Progress(c)
    <3>1. UNCHANGED <<accounts, profiles, currentUser>>
      BY <2>4 DEF Progress, remoteState
    <3>2. \A d \in Calls : SameRemote(d)
      BY <1>0, <2>4 DEF Progress, RunBlock, DropBlock, Refuse, LoseReply, Callback,
         TimeoutFires, Moves, ApiTypeOK, SameRemote, Happened
    <3>3. \A d \in Calls : /\ pipe'[d] \in Unsettled <=> pipe[d] \in Unsettled
                           /\ pipe'[d] \notin Unsettled => pipe'[d] = pipe[d]
      BY <1>0, <2>4 DEF Progress, RunBlock, DropBlock, Refuse, LoseReply, Callback,
         TimeoutFires, Moves, ApiTypeOK, Unsettled
    <3>4. QED
      BY <2>1, <3>1, <3>2, <3>3 DEF QuietStep, Unsettled
  <2>5. QED
    BY <1>2, <2>2, <2>3, <2>4 DEF Background
<1>3. ASSUME NEW c \in Calls, NEW gone, DeliverValue(c, gone) \/ DeliverFailure(c)
      PROVE  \A d \in Calls :
                /\ SameRemote(d)
                /\ pipe'[d] \in Unsettled => pipe[d] \in Unsettled
                /\ pipe'[d] = "idle" <=> pipe[d] = "idle"
                /\ pipe'[d] = "succeeded" => pipe[d] = "succeeded" \/ (d = c /\ pipe[c] = "value")
  BY <1>0, <1>3 DEF DeliverValue, DeliverFailure, Cancelled, Unsettled, ApiTypeOK, SameRemote,
     Happened
<1>4. ASSUME NEW c \in Calls, Delivery(c) PROVE Goal
  <2>1. CASE Navigates(c)
    <3>1. /\ UNCHANGED <<req, accounts, profiles, currentUser>> /\ req[c].op # "create"
          /\ DeliverValue(c, Replaced)
      BY <2>1 DEF Navigates, remoteState
    <3>2. UNCHANGED <<screen, home>> \/ home' = currentUser
      BY <2>1 DEF Navigates, Start, ShowRoot
    <3>3. QED
      BY <1>3, <3>1, <3>2 DEF QuietStep
  <2>2. ASSUME NEW d \in Calls, CreateSucceeds(c, d) PROVE InfoStep
    <3>1. /\ pipe[c] = "value" /\ pipe[d] = "idle" /\ pipe'[c] = "succeeded"
          /\ pipe'[d] \in Unsettled
          /\ remote'[d] = IF currentUser # NoUser THEN "queued" ELSE "idle"
          /\ \A e \in Calls \ {d} : remote'[e] = remote[e]
          /\ \A e \in Calls \ {c, d} : pipe'[e] = pipe[e]
      BY <1>0, <2>2 DEF CreateSucceeds, DeliverAndChain, ApiTypeOK, Unsettled
    <3>2. /\ req[c].op = "create"
          /\ req'[d] = [op |-> "setInfo", user |-> req[c].user, uid |-> currentUser]
          /\ \A e \in Calls \ {d} : req'[e] = req[e]
          /\ UNCHANGED <<accounts, profiles, currentUser, screen, home>>
      BY <1>0, <2>2 DEF CreateSucceeds, RequestsOK, remoteState
    <3>3. QED
      BY <3>1, <3>2 DEF InfoStep
  <2>3. CASE ResetSucceeds(c) \/ Fails(c)
    <3>1. /\ UNCHANGED <<req, accounts, profiles, currentUser, screen, home>>
          /\ DeliverFailure(c) \/ (DeliverValue(c, {}) /\ req[c].op # "create")
      BY <2>3 DEF ResetSucceeds, Fails, remoteState
    <3>2. pipe[c] = "value" => req[c].op # "create"
      BY <3>1 DEF DeliverFailure
    <3>3. QED
      BY <1>3, <3>1, <3>2 DEF QuietStep
  <2>4. QED
    BY <1>4, <2>1, <2>2, <2>3 DEF Delivery
<1>5. CASE SignUpButtonPressed \/ RestPasswordButtonPressed \/ SceneActivity
            \/ UNCHANGED sessionVars
  BY <1>5 DEF SignUpButtonPressed, RestPasswordButtonPressed, Push, SceneActivity,
     sessionVars, apiVars, remoteState, ui, QuietStep, SameRemote, Happened
<1>6. CASE Back \/ Relaunch
  <2>1. /\ UNCHANGED <<req, accounts, profiles, currentUser>>
        /\ home' = currentUser \/ screen' # "tabs"
    BY <1>6 DEF Back, Relaunch, ShowRoot, remoteState
  <2>2. \A c \in Calls : SameRemote(c)
    BY <1>0, <1>6 DEF Back, Relaunch, Release, Kill, Bereft, ApiTypeOK, SameRemote, Happened
  <2>3. \A c \in Calls : /\ pipe'[c] \in Unsettled => pipe[c] \in Unsettled
                         /\ pipe'[c] = "idle" <=> pipe[c] = "idle"
                         /\ pipe'[c] = "succeeded" => pipe[c] = "succeeded"
    BY <1>6 DEF Back, Relaunch, Release, Kill, Cancelled, Unsettled
  <2>4. QED
    BY <2>1, <2>2, <2>3 DEF QuietStep
<1>7. QED
  BY <1>1, <1>2, <1>4, <1>5, <1>6 DEF SessionNext

\* What a setUserInfo is sent with: the account it was made for and, once past
\* the guard of the API, a uid.
InfoNamedInv ==
    \A c \in Calls : req[c].op = "setInfo" =>
        req[c].user \in Users /\ (remote[c] # "idle" => req[c].uid \in Users)

\* A createUser that was carried out made the account, and only one can.
MadeInv ==
    /\ \A c \in Calls : req[c].op = "create" /\ Happened(c) => req[c].user \in accounts
    /\ \A c, d \in Calls : req[c].op = "create" /\ Happened(c)
                           /\ req[d].op = "create" /\ Happened(d)
                           /\ req[c].user = req[d].user => c = d

\* A createUser that succeeded has its setUserInfo, and conversely.
ChainInv ==
    /\ \A c \in Calls : req[c].op = "create" /\ pipe[c] = "succeeded" =>
          \E d \in Calls : req[d].op = "setInfo" /\ req[d].user = req[c].user
    /\ \A d \in Calls : req[d].op = "setInfo" =>
          \E c \in Calls : /\ req[c].op = "create" /\ pipe[c] = "succeeded"
                           /\ req[c].user = req[d].user

\* A setUserInfo that was carried out left a profile; an account without one was
\* made by a createUser of this device.
StoredInv ==
    /\ \A c \in Calls : req[c].op = "setInfo" /\ Happened(c) =>
          req[c].uid \in Users /\ profiles[req[c].uid] # NoUser
    /\ \A u \in accounts : profiles[u] = NoUser =>
          \E c \in Calls : req[c].op = "create" /\ req[c].user = u

AccountsInv == InfoNamedInv /\ MadeInv /\ ChainInv /\ StoredInv

LEMMA AccountsInvStep ==
    ASSUME SessionInv, SuccessInv, AccountsInv, [SessionNext]_sessionVars
    PROVE  AccountsInv'
<1> USE SessionAssumption
<1>0. ApiTypeOK /\ RequestsOK /\ PlacesOK /\ NamedInv
  BY TypeParts DEF SessionInv
<1>1. \A c \in Calls : req[c].op \in {"create", "setInfo"} => pipe[c] # "idle"
  BY <1>0, OwnerType DEF RequestsOK, NoRequest
<1>2. \A c \in Calls : pipe[c] = "idle" => ~Happened(c) /\ remote[c] = "idle"
  BY <1>0 DEF ApiTypeOK, Happened
<1>3. \A c \in Calls : pipe[c] # "idle" => req'[c] = req[c]
  BY CallStays
<1>4. \A c \in Calls : pipe[c] = "succeeded" => pipe'[c] = "succeeded" /\ req'[c] = req[c]
  BY CallStays DEF Settled
<1>5. CASE CarryStep
  <2>1. PICK c \in Calls :
            /\ remote[c] # "idle" /\ ~Happened(c) /\ Happened(c)' /\ Effect(c)
            /\ \A d \in Calls : remote'[d] = "idle" <=> remote[d] = "idle"
            /\ \A d \in Calls \ {c} : Happened(d)' <=> Happened(d)
            /\ UNCHANGED <<req, pipe>>
    BY <1>5 DEF CarryStep
  <2>2. \/ UNCHANGED <<accounts, profiles>> /\ req[c].op \in {"login", "reset"}
        \/ /\ req[c].op = "create" /\ req[c].user \notin accounts
           /\ accounts' = accounts \cup {req[c].user} /\ UNCHANGED profiles
        \/ /\ req[c].op = "setInfo" /\ UNCHANGED accounts
           /\ profiles' = [profiles EXCEPT ![req[c].uid] = req[c].user]
    BY <2>1 DEF Effect, remoteState
  <2>3. InfoNamedInv'
    BY <2>1 DEF AccountsInv, InfoNamedInv
  <2>4. ChainInv'
    BY <2>1 DEF AccountsInv, ChainInv
  <2>5. MadeInv'
    BY <2>1, <2>2 DEF AccountsInv, MadeInv
  <2>6. req[c].op = "setInfo" => req[c].uid \in Users /\ req[c].user \in Users
    BY <2>1 DEF AccountsInv, InfoNamedInv
  <2>7. /\ \A u \in Users : profiles[u] # NoUser => profiles'[u] # NoUser
        /\ req[c].op = "setInfo" => profiles'[req[c].uid] # NoUser
    BY <1>0, <2>2, <2>6 DEF PlacesOK
  <2>8. StoredInv'
    <3>1. ASSUME NEW d \in Calls, req'[d].op = "setInfo", Happened(d)'
          PROVE  req'[d].uid \in Users /\ profiles'[req'[d].uid] # NoUser
      BY <2>1, <2>6, <2>7, <3>1 DEF AccountsInv, StoredInv
    <3>2. ASSUME NEW u \in accounts', profiles'[u] = NoUser
          PROVE  \E d \in Calls : req'[d].op = "create" /\ req'[d].user = u
      <4>1. CASE u \in accounts
        BY <1>0, <2>1, <2>7, <3>2, <4>1 DEF AccountsInv, StoredInv, PlacesOK
      <4>2. CASE u \notin accounts
        BY <2>1, <2>2, <3>2, <4>2
      <4>3. QED
        BY <4>1, <4>2
    <3>3. QED
      BY <3>1, <3>2 DEF StoredInv
  <2>9. QED
    BY <2>3, <2>4, <2>5, <2>8 DEF AccountsInv
<1>6. CASE ConfirmStep
  <2>1. PICK c \in Calls : /\ remote[c] = "served" /\ remote' = [remote EXCEPT ![c] = "done"]
                           /\ UNCHANGED <<req, pipe, accounts, profiles>>
    BY <1>6 DEF ConfirmStep
  <2>2. \A d \in Calls : (Happened(d)' <=> Happened(d)) /\ (remote'[d] = "idle" <=> remote[d] = "idle")
    BY <1>0, <2>1 DEF ApiTypeOK, Happened
  <2>3. QED
    BY <2>1, <2>2 DEF AccountsInv, InfoNamedInv, MadeInv, ChainInv, StoredInv
<1>7. CASE AskStep
  <2>1. PICK c \in Calls :
            /\ pipe[c] = "idle" /\ req'[c].op \in {"login", "create", "reset", "logout"}
            /\ req'[c].op # "logout" => remote'[c] \in {"idle", "queued"}
            /\ pipe'[c] \in Unsettled
            /\ \A d \in Calls \ {c} : req'[d] = req[d] /\ pipe'[d] = pipe[d] /\ remote'[d] = remote[d]
            /\ UNCHANGED <<accounts, profiles>>
    BY <1>7 DEF AskStep
  <2>2. /\ req'[c].op # "setInfo" /\ (req'[c].op = "create" => ~Happened(c)')
        /\ pipe'[c] # "succeeded" /\ \A d \in Calls \ {c} : Happened(d)' <=> Happened(d)
    BY <2>1 DEF Happened, Unsettled
  <2>3. InfoNamedInv' /\ MadeInv'
    BY <2>1, <2>2 DEF AccountsInv, InfoNamedInv, MadeInv
  <2>4. ChainInv'
    <3>1. ASSUME NEW d \in Calls, req'[d].op = "create", pipe'[d] = "succeeded"
          PROVE  \E e \in Calls : req'[e].op = "setInfo" /\ req'[e].user = req'[d].user
      <4>1. d # c /\ req'[d] = req[d] /\ pipe[d] = "succeeded"
        BY <2>1, <2>2, <3>1
      <4>2. PICK e \in Calls : req[e].op = "setInfo" /\ req[e].user = req[d].user
        BY <3>1, <4>1 DEF AccountsInv, ChainInv
      <4>3. QED
        BY <1>1, <1>3, <4>1, <4>2
    <3>2. ASSUME NEW d \in Calls, req'[d].op = "setInfo"
          PROVE  \E e \in Calls : /\ req'[e].op = "create" /\ pipe'[e] = "succeeded"
                                  /\ req'[e].user = req'[d].user
      <4>1. d # c /\ req'[d] = req[d]
        BY <2>1, <2>2, <3>2
      <4>2. PICK e \in Calls : /\ req[e].op = "create" /\ pipe[e] = "succeeded"
                               /\ req[e].user = req[d].user
        BY <3>2, <4>1 DEF AccountsInv, ChainInv
      <4>3. QED
        BY <1>4, <4>1, <4>2
    <3>3. QED
      BY <3>1, <3>2 DEF ChainInv
  <2>5. StoredInv'
    <3>1. ASSUME NEW u \in accounts, profiles[u] = NoUser
          PROVE  \E d \in Calls : req'[d].op = "create" /\ req'[d].user = u
      BY <1>1, <1>3, <3>1 DEF AccountsInv, StoredInv
    <3>2. QED
      BY <2>1, <2>2, <3>1 DEF AccountsInv, StoredInv
  <2>6. QED
    BY <2>3, <2>4, <2>5 DEF AccountsInv
<1>8. CASE InfoStep
  <2>1. PICK c \in Calls, d \in Calls :
            /\ req[c].op = "create" /\ pipe[c] = "value" /\ pipe'[c] = "succeeded"
            /\ pipe[d] = "idle" /\ pipe'[d] \in Unsettled
            /\ req'[d] = [op |-> "setInfo", user |-> req[c].user, uid |-> currentUser]
            /\ remote'[d] = IF currentUser # NoUser THEN "queued" ELSE "idle"
            /\ \A e \in Calls \ {d} : req'[e] = req[e] /\ remote'[e] = remote[e]
            /\ \A e \in Calls \ {c, d} : pipe'[e] = pipe[e]
            /\ UNCHANGED <<accounts, profiles>>
    BY <1>8 DEF InfoStep
  <2>2. /\ req'[d].op = "setInfo" /\ req'[d].user = req[c].user /\ req'[d].uid = currentUser
        /\ ~Happened(d)' /\ c # d /\ pipe'[d] # "succeeded"
        /\ \A e \in Calls \ {d} : Happened(e)' <=> Happened(e)
    BY <2>1 DEF Happened, Unsettled
  <2>3. req[c].user \in Users
    BY <1>0, <2>1 DEF SuccessInv, NamedInv
  <2>4. currentUser # NoUser => currentUser \in Users
    BY <1>0 DEF PlacesOK
  <2>5. InfoNamedInv'
    BY <2>1, <2>2, <2>3, <2>4 DEF AccountsInv, InfoNamedInv
  <2>6. MadeInv'
    BY <2>1, <2>2 DEF AccountsInv, MadeInv
  <2>7. ChainInv'
    <3>1. ASSUME NEW e \in Calls, req'[e].op = "create", pipe'[e] = "succeeded"
          PROVE  \E g \in Calls : req'[g].op = "setInfo" /\ req'[g].user = req'[e].user
      <4>1. CASE e = c
        BY <2>1, <2>2, <4>1
      <4>2. CASE e # c
        <5>1. req'[e] = req[e] /\ pipe[e] = "succeeded"
          BY <2>1, <2>2, <3>1, <4>2
        <5>2. PICK g \in Calls : req[g].op = "setInfo" /\ req[g].user = req[e].user
          BY <3>1, <5>1 DEF AccountsInv, ChainInv
        <5>3. QED
          BY <1>1, <1>3, <5>1, <5>2
      <4>3. QED
        BY <4>1, <4>2
    <3>2. ASSUME NEW e \in Calls, req'[e].op = "setInfo"
          PROVE  \E g \in Calls : /\ req'[g].op = "create" /\ pipe'[g] = "succeeded"
                                  /\ req'[g].user = req'[e].user
      <4>1. CASE e = d
        BY <2>1, <2>2, <4>1
      <4>2. CASE e # d
        <5>1. req'[e] = req[e]
          BY <2>1, <4>2
        <5>2. PICK g \in Calls : /\ req[g].op = "create" /\ pipe[g] = "succeeded"
                                 /\ req[g].user = req[e].user
          BY <3>2, <5>1 DEF AccountsInv, ChainInv
        <5>3. QED
          BY <1>4, <5>1, <5>2
      <4>3. QED
        BY <4>1, <4>2
    <3>3. QED
      BY <3>1, <3>2 DEF ChainInv
  <2>8. StoredInv'
    <3>1. ASSUME NEW u \in accounts, profiles[u] = NoUser
          PROVE  \E e \in Calls : req'[e].op = "create" /\ req'[e].user = u
      BY <1>1, <1>3, <3>1 DEF AccountsInv, StoredInv
    <3>2. QED
      BY <2>1, <2>2, <3>1 DEF AccountsInv, StoredInv
  <2>9. QED
    BY <2>5, <2>6, <2>7, <2>8 DEF AccountsInv
<1>9. CASE QuietStep
  <2>1. /\ UNCHANGED <<req, accounts, profiles>>
        /\ \A c \in Calls : /\ Happened(c)' <=> Happened(c)
                            /\ remote'[c] = "idle" <=> remote[c] = "idle"
                            /\ req[c].op = "create" /\ pipe'[c] = "succeeded" => pipe[c] = "succeeded"
    BY <1>9 DEF QuietStep, SameRemote
  <2>2. ChainInv'
    BY <1>4, <2>1 DEF AccountsInv, ChainInv
  <2>3. QED
    BY <2>1, <2>2 DEF AccountsInv, InfoNamedInv, MadeInv, StoredInv
<1>10. QED
  BY <1>5, <1>6, <1>7, <1>8, <1>9, FactSteps

-----------------------------------------------------------------------------
(* Who is current.                                                         *)

Astray(u, v) == LateAnswer(u) \/ CrossedSignUps(u, v)

\* From the reply to a createUser until its handler runs, its user is current,
\* or somebody whose call came in between.
CurrentInv ==
    \A c \in Pending : req[c].op = "create" /\ remote[c] = "done" /\ currentUser # NoUser =>
        currentUser = req[c].user \/ Astray(currentUser, req[c].user)

\* The uid that a setUserInfo was sent with.
UidInv ==
    \A c \in Calls : req[c].op = "setInfo" /\ req[c].uid # NoUser =>
        req[c].uid = req[c].user \/ Astray(req[c].uid, req[c].user)

OwnersInv == CurrentInv /\ UidInv /\ ProfileUnderOwner /\ UserSwitchIsLate

\* Late answers and crossed sign-ups are facts for ever.
LEMMA AstrayStays ==
    ASSUME SessionInv, [SessionNext]_sessionVars, NEW u, NEW v
    PROVE  /\ LateAnswer(u) => LateAnswer(u)'
           /\ Astray(u, v) => Astray(u, v)'
<1>1. ASSUME LateAnswer(u) PROVE LateAnswer(u)'
  <2>1. PICK c \in Calls : /\ req[c].op \in {"login", "create"} /\ req[c].user = u
                           /\ pipe[c] \in {"failed", "cancelled"} /\ remote[c] = "done"
    BY <1>1 DEF LateAnswer
  <2>2. req'[c] = req[c] /\ pipe'[c] = pipe[c] /\ remote'[c] = "done"
    BY <2>1, CallStays DEF Settled
  <2>3. QED
    BY <2>1, <2>2 DEF LateAnswer
<1>2. ASSUME CrossedSignUps(u, v) PROVE CrossedSignUps(u, v)'
  <2>1. PICK d \in Calls, e \in Calls :
            /\ req[e].op = "create" /\ req[e].user = u /\ remote[e] = "done"
            /\ req[d].op = "setInfo" /\ req[d].user \notin {u, v}
            /\ pipe[d] \in {"failed", "succeeded"}
    BY <1>2 DEF CrossedSignUps
  <2>2. pipe[e] # "idle"
    BY <2>1 DEF SessionInv, ApiTypeOK
  <2>3. /\ req'[e] = req[e] /\ remote'[e] = "done"
        /\ req'[d] = req[d] /\ pipe'[d] = pipe[d]
    BY <2>1, <2>2, CallStays DEF Settled
  <2>4. QED
    BY <2>1, <2>3 DEF CrossedSignUps
<1>3. QED
  BY <1>1, <1>2 DEF Astray

\* A reply to a login or a sign-up whose subscriber has gone or given up is a
\* late answer; otherwise its view is on the screen.
LEMMA ReplyIsLateOrSeen ==
    ASSUME SessionInv, SuccessInv, ViewsInv, NEW c \in Calls, remote[c] = "served",
           remote' = [remote EXCEPT ![c] = "done"], UNCHANGED <<req, pipe>>,
           req[c].op \in {"login", "create"}, NEW u, req[c].user = u
    PROVE  LateAnswer(u)' \/ (c \in Pending /\ screen = Owner[req[c].op])
<1>1. ApiTypeOK /\ RequestsOK
  BY TypeParts DEF SessionInv
<1>2. pipe[c] \in Pipes \ {"idle", "value", "succeeded"}
  BY <1>1 DEF ApiTypeOK, SuccessInv
<1>3. CASE pipe[c] \in {"failed", "cancelled"}
  BY <1>1, <1>3 DEF LateAnswer, ApiTypeOK
<1>4. CASE pipe[c] \in Unsettled
  <2>1. c \in Pending
    BY <1>4 DEF Pending
  <2>2. QED
    BY <2>1, Owners DEF ViewsInv, ScreenInv, Vm, Place
<1>5. QED
  BY <1>2, <1>3, <1>4 DEF Pipes, Settled, Unsettled

\* The tabs show a user who is no longer the current one only after a late answer.
LEMMA SwitchStep ==
    ASSUME SessionInv, SuccessInv, ViewsInv, UserSwitchIsLate, [SessionNext]_sessionVars
    PROVE  UserSwitchIsLate'
<1>1. SUFFICES ASSUME NEW u, u = currentUser', screen' = "tabs", u \notin {NoUser, home'}
               PROVE  LateAnswer(u)'
  BY DEF UserSwitchIsLate, LateAnswer
<1>2. ASSUME UNCHANGED <<screen, home, currentUser>> PROVE LateAnswer(u)'
  <2>1. LateAnswer(u)
    BY <1>1, <1>2 DEF UserSwitchIsLate
  <2>2. QED
    BY <2>1, AstrayStays
<1>3. CASE CarryStep
  BY <1>2, <1>3 DEF CarryStep
<1>4. CASE InfoStep
  BY <1>2, <1>4 DEF InfoStep
<1>5. CASE AskStep
  BY <1>1, <1>2, <1>5 DEF AskStep
<1>6. CASE QuietStep
  BY <1>1, <1>2, <1>6 DEF QuietStep
<1>7. CASE ConfirmStep
  <2>1. PICK c \in Calls :
            /\ remote[c] = "served" /\ remote' = [remote EXCEPT ![c] = "done"]
            /\ currentUser' = IF req[c].op \in {"login", "create"} THEN req[c].user
                              ELSE currentUser
            /\ UNCHANGED <<req, pipe, screen, home>>
    BY <1>7 DEF ConfirmStep
  <2>2. CASE req[c].op \in {"login", "create"}
    <3>1. LateAnswer(u)' \/ screen = Owner[req[c].op]
      BY <1>1, <2>1, <2>2, ReplyIsLateOrSeen
    <3>2. screen # Owner[req[c].op]
      BY <1>1, <2>1, <2>2, Owners
    <3>3. QED
      BY <3>1, <3>2
  <2>3. CASE req[c].op \notin {"login", "create"}
    BY <1>2, <2>1, <2>3
  <2>4. QED
    BY <2>2, <2>3
<1>8. QED
  BY <1>3, <1>4, <1>5, <1>6, <1>7, FactSteps

\* Two createUsers of one view are pending only if a third user's setUserInfo has
\* ended: when the reply to one comes before the handler of the other has run, the
\* sign-ups cross.
LEMMA RepliesCross ==
    ASSUME SessionInv, SuccessInv, ViewsInv, AccountsInv,
           NEW c \in Pending, NEW e \in Pending, c # e,
           req[c].op = "create", req[e].op = "create", remote[c] = "done",
           remote[e] = "served", remote' = [remote EXCEPT ![e] = "done"],
           UNCHANGED <<req, pipe>>, NEW u, NEW v, u = req[e].user, v = req[c].user
    PROVE  CrossedSignUps(u, v)'
<1>1. PICK d \in Calls : req[d].op = "setInfo" /\ pipe[d] \in {"failed", "succeeded"}
  BY DEF ViewsInv, TwoInv, InfoEnded
<1>2. PICK a \in Calls : /\ req[a].op = "create" /\ pipe[a] = "succeeded"
                         /\ req[a].user = req[d].user
  BY <1>1 DEF AccountsInv, ChainInv
<1>3. a # c /\ a # e /\ c \in Calls /\ e \in Calls
  BY <1>2 DEF Pending, Unsettled
<1>4. Happened(a) /\ Happened(c) /\ Happened(e)
  BY <1>2 DEF SuccessInv, Happened
<1>5. req[d].user \notin {u, v}
  BY <1>2, <1>3, <1>4 DEF AccountsInv, MadeInv
<1>6. remote'[e] = "done"
  BY <1>3 DEF SessionInv, ApiTypeOK
<1>7. QED
  BY <1>1, <1>3, <1>5, <1>6 DEF CrossedSignUps

LEMMA CurrentStep ==
    ASSUME SessionInv, SuccessInv, ViewsInv, AccountsInv, CurrentInv,
           [SessionNext]_sessionVars
    PROVE  CurrentInv'
<1>0. ApiTypeOK /\ RequestsOK /\ PlacesOK
  BY TypeParts DEF SessionInv
<1>1. SUFFICES ASSUME NEW c \in Pending', req'[c].op = "create", remote'[c] = "done",
                      NEW u, u = currentUser', NEW v, v = req'[c].user, u # NoUser, u # v
               PROVE  Astray(u, v)'
  BY DEF CurrentInv, Astray, LateAnswer, CrossedSignUps
<1>2. c \in Calls /\ pipe'[c] \in Unsettled
  BY <1>1 DEF Pending
<1>3. ASSUME c \in Pending, remote[c] = "done", currentUser' = currentUser
      PROVE  Astray(u, v)'
  <2>1. req'[c] = req[c]
    BY <1>2, <1>3, CallStays DEF Pending, Unsettled
  <2>2. Astray(u, v)
    BY <1>1, <1>3, <2>1 DEF CurrentInv
  <2>3. QED
    BY <2>2, AstrayStays
<1>4. CASE CarryStep
  BY <1>1, <1>2, <1>3, <1>4 DEF CarryStep, Pending
<1>5. CASE AskStep
  <2>1. PICK d \in Calls :
            /\ pipe[d] = "idle"
            /\ req'[d].op # "logout" => remote'[d] \in {"idle", "queued"}
            /\ \A e \in Calls \ {d} : pipe'[e] = pipe[e] /\ remote'[e] = remote[e]
            /\ currentUser' \in {NoUser, currentUser}
    BY <1>5 DEF AskStep
  <2>2. c # d
    BY <1>1, <2>1
  <2>3. QED
    BY <1>1, <1>2, <1>3, <2>1, <2>2 DEF Pending
<1>6. CASE InfoStep
  <2>1. PICK b \in Calls, d \in Calls :
            /\ pipe'[b] = "succeeded" /\ currentUser' = currentUser
            /\ req'[d] = [op |-> "setInfo", user |-> req[b].user, uid |-> currentUser]
            /\ \A e \in Calls \ {d} : remote'[e] = remote[e]
            /\ \A e \in Calls \ {b, d} : pipe'[e] = pipe[e]
    BY <1>6 DEF InfoStep
  <2>2. c \notin {b, d}
    BY <1>1, <1>2, <2>1 DEF Unsettled
  <2>3. QED
    BY <1>1, <1>2, <1>3, <2>1, <2>2 DEF Pending
<1>7. CASE QuietStep
  BY <1>1, <1>2, <1>3, <1>7 DEF QuietStep, SameRemote, Pending
<1>8. CASE ConfirmStep
  <2>1. PICK e \in Calls :
            /\ remote[e] = "served" /\ remote' = [remote EXCEPT ![e] = "done"]
            /\ currentUser' = IF req[e].op \in {"login", "create"} THEN req[e].user
                              ELSE currentUser
            /\ UNCHANGED <<req, pipe>>
    BY <1>8 DEF ConfirmStep
  <2>2. c \in Pending
    BY <1>2, <2>1 DEF Pending
  <2>3. CASE req[e].op \in {"login", "create"} /\ e # c
    <3>1. remote[c] = "done" /\ currentUser' = req[e].user
      BY <1>0, <1>1, <1>2, <2>1, <2>3 DEF ApiTypeOK
    <3>2. CASE LateAnswer(u)'
      BY <3>2 DEF Astray
    <3>3. CASE e \in Pending /\ screen = Owner[req[e].op]
      <4>1. screen = "signup"
        BY <1>1, <2>1, <2>2, Owners DEF ViewsInv, ScreenInv, Vm, Place
      <4>2. req[e].op = "create"
        BY <2>3, <3>3, <4>1, Owners
      <4>3. req[c].op = "create" /\ u = req[e].user /\ v = req[c].user
        BY <1>1, <2>1, <3>1
      <4>4. CrossedSignUps(u, v)'
        BY <2>1, <2>2, <2>3, <3>1, <3>3, <4>2, <4>3, RepliesCross
      <4>5. QED
        BY <4>4 DEF Astray
    <3>4. QED
      BY <1>1, <2>1, <2>3, <3>1, <3>2, <3>3, ReplyIsLateOrSeen
  <2>4. CASE req[e].op \in {"login", "create"} /\ e = c
    BY <1>1, <2>1, <2>4
  <2>5. CASE req[e].op \notin {"login", "create"}
    <3>1. e # c /\ remote[c] = "done"
      BY <1>0, <1>1, <1>2, <2>1, <2>5 DEF ApiTypeOK
    <3>2. QED
      BY <1>3, <2>1, <2>2, <2>5, <3>1
  <2>6. QED
    BY <2>3, <2>4, <2>5
<1>9. QED
  BY <1>4, <1>5, <1>6, <1>7, <1>8, FactSteps

LEMMA UidStep ==
    ASSUME SessionInv, SuccessInv, CurrentInv, UidInv, [SessionNext]_sessionVars
    PROVE  UidInv'
<1>1. SUFFICES ASSUME NEW c \in Calls, req'[c].op = "setInfo", NEW u, u = req'[c].uid,
                      NEW v, v = req'[c].user, u # NoUser, u # v
               PROVE  Astray(u, v)'
  BY DEF UidInv, Astray, LateAnswer, CrossedSignUps
<1>2. ASSUME req'[c] = req[c] PROVE Astray(u, v)'
  <2>1. Astray(u, v)
    BY <1>1, <1>2 DEF UidInv
  <2>2. QED
    BY <2>1, AstrayStays
<1>3. CASE CarryStep \/ ConfirmStep \/ QuietStep
  BY <1>2, <1>3 DEF CarryStep, ConfirmStep, QuietStep
<1>4. CASE AskStep
  BY <1>1, <1>2, <1>4 DEF AskStep
<1>5. CASE InfoStep
  <2>1. PICK b \in Calls, d \in Calls :
            /\ req[b].op = "create" /\ pipe[b] = "value"
            /\ req'[d] = [op |-> "setInfo", user |-> req[b].user, uid |-> currentUser]
            /\ \A e \in Calls \ {d} : req'[e] = req[e]
    BY <1>5 DEF InfoStep
  <2>2. CASE c # d
    BY <1>2, <2>1, <2>2
  <2>3. CASE c = d
    <3>1. b \in Pending /\ remote[b] = "done"
      BY <2>1 DEF Pending, Unsettled, SuccessInv
    <3>2. currentUser # NoUser => currentUser = req[b].user \/ Astray(currentUser, req[b].user)
      BY <2>1, <3>1 DEF CurrentInv
    <3>3. req'[c].user = req[b].user /\ req'[c].uid = currentUser
      BY <2>1, <2>3
    <3>4. Astray(u, v)
      BY <1>1, <3>2, <3>3
    <3>5. QED
      BY <3>4, AstrayStays
  <2>4. QED
    BY <2>2, <2>3
<1>6. QED
  BY <1>3, <1>4, <1>5, FactSteps

LEMMA ProfileStep ==
    ASSUME SessionInv, AccountsInv, UidInv, ProfileUnderOwner, [SessionNext]_sessionVars
    PROVE  ProfileUnderOwner'
<1> USE SessionAssumption
<1>0. PlacesOK
  BY TypeParts DEF SessionInv
<1>1. SUFFICES ASSUME NEW u \in Users, NEW v, v = profiles'[u], v \notin {NoUser, u}
               PROVE  Astray(u, v)'
  BY DEF ProfileUnderOwner, Astray, LateAnswer, CrossedSignUps
<1>2. ASSUME profiles'[u] = profiles[u] PROVE Astray(u, v)'
  <2>1. Astray(u, v)
    BY <1>1, <1>2 DEF ProfileUnderOwner, Astray
  <2>2. QED
    BY <2>1, AstrayStays
<1>3. CASE ConfirmStep \/ AskStep \/ InfoStep \/ QuietStep
  BY <1>2, <1>3 DEF ConfirmStep, AskStep, InfoStep, QuietStep
<1>4. CASE CarryStep
  <2>1. PICK c \in Calls : remote[c] # "idle" /\ Effect(c)
    BY <1>4 DEF CarryStep
  <2>2. \/ UNCHANGED profiles
        \/ req[c].op = "setInfo" /\ profiles' = [profiles EXCEPT ![req[c].uid] = req[c].user]
    BY <2>1 DEF Effect, remoteState
  <2>3. CASE UNCHANGED profiles
    BY <1>2, <2>3
  <2>4. CASE req[c].op = "setInfo" /\ profiles' = [profiles EXCEPT ![req[c].uid] = req[c].user]
    <3>1. req[c].uid \in Users
      BY <2>1, <2>4 DEF AccountsInv, InfoNamedInv
    <3>2. CASE u # req[c].uid
      BY <1>0, <1>2, <2>4, <3>2 DEF PlacesOK
    <3>3. CASE u = req[c].uid
      <4>1. profiles'[u] = req[c].user
        BY <1>0, <2>4, <3>3 DEF PlacesOK
      <4>2. Astray(u, v)
        BY <1>1, <2>4, <3>1, <3>3, <4>1 DEF UidInv
      <4>3. QED
        BY <4>2, AstrayStays
    <3>4. QED
      BY <3>2, <3>3
  <2>5. QED
    BY <2>2, <2>3, <2>4
<1>5. QED
  BY <1>3, <1>4, FactSteps

-----------------------------------------------------------------------------
WholeInv == SessionInv /\ SuccessInv /\ ViewsInv /\ AccountsInv /\ OwnersInv

LEMMA WholeInvInit == SessionInit => WholeInv
<1> SUFFICES ASSUME SessionInit PROVE WholeInv
  OBVIOUS
<1> USE SessionAssumption
<1>1. SessionInv /\ ViewsInv
  BY SessionInvInit, ViewsInvInit
<1>2. SuccessInv
  BY ApiInvInductive DEF SessionInit, ApiInv
<1>3. /\ \A c \in Calls : req[c].op = "none" /\ pipe[c] = "idle" /\ remote[c] = "idle"
      /\ \A u \in Users : profiles[u] \in {NoUser, u}
      /\ \A u \in accounts : u \in Users /\ profiles[u] = u
      /\ home = currentUser
  BY DEF SessionInit, ApiInit, NoRequest
<1>4. AccountsInv
  BY <1>3 DEF AccountsInv, InfoNamedInv, MadeInv, ChainInv, StoredInv
<1>5. OwnersInv
  BY <1>3 DEF OwnersInv, CurrentInv, Pending, UidInv, ProfileUnderOwner, UserSwitchIsLate
<1>6. QED
  BY <1>1, <1>2, <1>4, <1>5 DEF WholeInv

LEMMA WholeInvStep == WholeInv /\ [SessionNext]_sessionVars => WholeInv'
<1> SUFFICES ASSUME WholeInv, [SessionNext]_sessionVars PROVE WholeInv'
  OBVIOUS
<1>1. SessionInv' /\ ViewsInv'
  BY SessionInvStep, ViewsInvStep DEF WholeInv
<1>2. SuccessInv'
  BY SessionStepIsApiStep, ApiInvInductive DEF WholeInv, SessionInv, ApiInv
<1>3. AccountsInv'
  BY AccountsInvStep DEF WholeInv
<1>4. OwnersInv'
  BY CurrentStep, UidStep, ProfileStep, SwitchStep DEF WholeInv, OwnersInv
<1>5. QED
  BY <1>1, <1>2, <1>3, <1>4 DEF WholeInv

\* The invariant behind the theorems that follow: who waits where, what Firebase
\* has made of the calls of this device, and whom the SDK holds current.
THEOREM SessionInvariant == SessionSpec => []WholeInv
  BY WholeInvInit, WholeInvStep, PTL DEF SessionSpec

\* The tabs and the SDK disagree on the user only after a late answer to a login
\* or a sign-up that was reported as failed or abandoned: for any number of calls
\* and users.
THEOREM UserSwitchesAreLate == SessionSpec => []UserSwitchIsLate
<1>1. WholeInv => UserSwitchIsLate
  BY DEF WholeInv, OwnersInv
<1>2. QED
  BY SessionInvariant, <1>1, PTL

\* setUserInfo, which asks for the current uid when createUser's handler runs,
\* writes to somebody else's profile only after a late answer, or when a third
\* sign-up let two sign-ups cross.
THEOREM ProfilesHaveOwners == SessionSpec => []ProfileUnderOwner
<1>1. WholeInv => ProfileUnderOwner
  BY DEF WholeInv, OwnersInv
<1>2. QED
  BY SessionInvariant, <1>1, PTL

\* An account without a profile is the trace of a sign-up that did not report
\* success to the user, or whose setUserInfo went to another uid.
THEOREM HalfSignUpsAreTraced == SessionSpec => []HalfSignUp
<1>1. ASSUME WholeInv PROVE HalfSignUp
  <2> SUFFICES ASSUME NEW u \in accounts, profiles[u] = NoUser
               PROVE  \E c \in Calls :
                         /\ req[c].user = u /\ req[c].op \in {"create", "setInfo"}
                         /\ pipe[c] # "succeeded" \/ (req[c].op = "setInfo" /\ req[c].uid # u)
    BY DEF HalfSignUp
  <2> USE <1>1 DEF WholeInv, AccountsInv
  <2>1. PICK c \in Calls : req[c].op = "create" /\ req[c].user = u
    BY DEF StoredInv
  <2>2. CASE pipe[c] # "succeeded"
    BY <2>1, <2>2
  <2>3. CASE pipe[c] = "succeeded"
    <3>1. PICK d \in Calls : req[d].op = "setInfo" /\ req[d].user = u
      BY <2>1, <2>3 DEF ChainInv
    <3>2. CASE pipe[d] # "succeeded"
      BY <3>1, <3>2
    <3>3. CASE pipe[d] = "succeeded"
      <4>1. Happened(d)
        BY <3>3 DEF SuccessInv, Happened
      <4>2. req[d].uid # u
        BY <3>1, <4>1 DEF StoredInv
      <4>3. QED
        BY <3>1, <4>2
    <3>4. QED
      BY <3>2, <3>3
  <2>4. QED
    BY <2>2, <2>3
<1>2. QED
  BY SessionInvariant, <1>1, PTL
=============================================================================
