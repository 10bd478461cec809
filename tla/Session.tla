------------------------------ MODULE Session ------------------------------
(***************************************************************************)
(* Signing in, signing up, resetting the password, signing out, and the    *)
(* screens that follow from it: LoginViewModel, SignUpViewModel,           *)
(* ResetPasswordViewModel, the logout of SettingsViewModel, their          *)
(* coordinators, RootCoordinator and SceneDelegate, on top of the          *)
(* publishers of APIManager (module ApiCall).                              *)
(*                                                                         *)
(* The state that is hard to keep together: the user Firebase holds        *)
(* (currentUser, which changes when the SDK gets a reply, whether or not   *)
(* anybody still waits for it), the user the visible tabs were built for   *)
(* (home), and the profile stored under each uid.                          *)
(*                                                                         *)
(* An account is known by its user (the email); its uid is the user too.   *)
(* Text fields are abstracted to whether the API's guards accept them.     *)
(* Alerts do not change what the app does next and are left out.           *)
(***************************************************************************)
EXTENDS ApiCall, Naturals, FiniteSets

CONSTANTS
    Users,
    NoUser,
    Reserve     \* bound: calls that touches leave for the setUserInfo of a sign-up

ASSUME SessionAssumption == NoUser \notin Users /\ Reserve \in {0, 1}

VARIABLES
    req,            \* req[c]: what call c asks for
    accounts,       \* the accounts Firebase has
    profiles,       \* profiles[u]: whose UserInfo is stored under uid u
    currentUser,    \* Auth.auth().currentUser
    screen,         \* the view controller on top of the window
    home,           \* the user for whom the visible tabs were built
    loading,        \* isShowLoading of each view model
    active,         \* the scene is foregroundActive: keyWindow finds it
    missed          \* RootCoordinator started and found no window

ui     == <<screen, home, loading, missed>>
remoteState == <<accounts, profiles>>
sessionVars == <<apiVars, req, remoteState, currentUser, ui, active>>

ViewModels == {"login", "signup", "reset", "settings"}
Screens    == {"login", "signup", "reset", "tabs"}
Owner      == [login |-> "login", create |-> "signup", setInfo |-> "signup",
               reset |-> "reset", logout |-> "settings"]
Ops        == DOMAIN Owner

NoRequest == [op |-> "none", user |-> NoUser, uid |-> NoUser]
Requests  == [op : Ops, user : Users \cup {NoUser}, uid : Users \cup {NoUser}]

CallsOf(vm) == {c \in Calls : req[c].op \in Ops /\ Owner[req[c].op] = vm}
Waiting(vm) == \E c \in CallsOf(vm) : pipe[c] \in Unsettled

Idle == [vm \in ViewModels |-> FALSE]

-----------------------------------------------------------------------------
(* RootCoordinator.                                                        *)

ShowRoot_AlwaysTabs ==
    /\ screen' = "tabs"
    /\ home' = currentUser
    /\ loading' = Idle
    /\ missed' = FALSE

\* setupRootViewController in a window: tabs for a user, login for nobody.
ShowRoot ==
    /\ screen' = IF currentUser = NoUser THEN "login" ELSE "tabs"
    /\ home' = currentUser
    /\ loading' = Idle
    /\ missed' = FALSE

\* RootCoordinator().start() from a view model: without a key window it builds
\* a tree that nobody shows.
Start(vm) ==
    \/ active /\ ShowRoot
    \/ /\ ~active
       /\ loading' = [loading EXCEPT ![vm] = FALSE]
       /\ missed' = TRUE
       /\ UNCHANGED <<screen, home>>

Replaced_Leaks == {}

\* The calls whose view models go with the window's old root.
Replaced == IF active THEN Calls ELSE {}

SessionInit ==
    /\ ApiInit
    /\ req = [c \in Calls |-> NoRequest]
    /\ accounts \in SUBSET Users
    /\ profiles = [u \in Users |-> IF u \in accounts THEN u ELSE NoUser]
    /\ currentUser \in accounts \cup {NoUser}
    /\ screen = IF currentUser = NoUser THEN "login" ELSE "tabs"
    /\ home = currentUser
    /\ loading = Idle
    /\ active = TRUE
    /\ missed = FALSE

-----------------------------------------------------------------------------
(* The user.                                                               *)

\* A button of a view that lets touches through: the view model shows its
\* spinner and calls the API, whose guards may refuse the fields.
Press(vm, c, op, u, filled) ==
    /\ loading' = [loading EXCEPT ![vm] = TRUE]
    /\ req' = [req EXCEPT ![c] = [op |-> op, user |-> IF filled THEN u ELSE NoUser,
                                  uid |-> NoUser]]
    /\ IF filled THEN Issue(c) ELSE Reject(c)
    /\ UNCHANGED <<remoteState, currentUser, screen, home, missed, active>>

LoginButtonPressed(c, u, filled) ==
    /\ active /\ screen = "login" /\ ~loading["login"]
    /\ Press("login", c, "login", u, filled)

Push(s) ==
    /\ active /\ screen = "login" /\ ~loading["login"]
    /\ screen' = s
    /\ UNCHANGED <<apiVars, req, remoteState, currentUser, home, loading, missed, active>>

SignUpButtonPressed == Push("signup")
RestPasswordButtonPressed == Push("reset")

\* The navigation bar's back button is not covered by the spinner; the popped
\* view takes its view model with it.
Back ==
    /\ active /\ screen \in {"signup", "reset"}
    /\ Release(CallsOf(screen))
    /\ screen' = "login"
    /\ loading' = [loading EXCEPT ![screen] = FALSE]
    /\ UNCHANGED <<req, remoteState, currentUser, home, missed, active>>

CreateUserButtonPressed_NoHitTest(c, u, filled) ==
    /\ active /\ screen = "signup"
    /\ Cardinality({d \in Calls : pipe[d] = "idle"}) > Reserve
    /\ Press("signup", c, "create", u, filled)

CreateUserButtonPressed(c, u, filled) ==
    /\ active /\ screen = "signup" /\ ~loading["signup"]
    /\ Cardinality({d \in Calls : pipe[d] = "idle"}) > Reserve
    /\ Press("signup", c, "create", u, filled)

SendButtonPressed(c, u, filled) ==
    /\ active /\ screen = "reset" /\ ~loading["reset"]
    /\ Press("reset", c, "reset", u, filled)

\* signOut succeeds without a user, and fails when the keychain does.  The
\* button is outside the part of the view that the spinner covers.
LogoutButtonPressed(c, ok) ==
    /\ active /\ screen = "tabs"
    /\ IssueSync(c, ok)
    /\ currentUser' = IF ok THEN NoUser ELSE currentUser
    /\ loading' = [loading EXCEPT !["settings"] = TRUE]
    /\ req' = [req EXCEPT ![c] = [op |-> "logout", user |-> NoUser, uid |-> NoUser]]
    /\ UNCHANGED <<remoteState, screen, home, missed, active>>

-----------------------------------------------------------------------------
(* Firebase.                                                               *)

\* What carrying out call c does, where Firebase accepts it.
Effect(c) ==
    LET r == req[c] IN
    \/ r.op = "login" /\ r.user \in accounts /\ UNCHANGED remoteState
    \/ /\ r.op = "create" /\ r.user \notin accounts
       /\ accounts' = accounts \cup {r.user}
       /\ UNCHANGED profiles
    \/ /\ r.op = "setInfo"
       /\ profiles' = [profiles EXCEPT ![r.uid] = r.user]
       /\ UNCHANGED accounts
    \/ r.op = "reset" /\ r.user \in accounts /\ UNCHANGED remoteState

Carry(c) == (Serve(c) \/ ServeAdrift(c)) /\ Effect(c) /\ UNCHANGED currentUser

\* A reply to signIn or createUser signs the user in, before and whether or
\* not the completion block finds anybody waiting.
Confirm(c) ==
    /\ Reply(c)
    /\ currentUser' = IF req[c].op \in {"login", "create"}
                      THEN req[c].user ELSE currentUser
    /\ UNCHANGED remoteState

\* A database write is sent again until it is answered: its reply is not lost.
Progress(c) ==
    /\ \/ RunBlock(c) \/ DropBlock(c) \/ Refuse(c)
       \/ req[c].op # "setInfo" /\ LoseReply(c)
       \/ Callback(c) \/ TimeoutFires(c)
    /\ UNCHANGED <<remoteState, currentUser>>

Background(c) == (Carry(c) \/ Confirm(c) \/ Progress(c)) /\ UNCHANGED <<req, ui, active>>

-----------------------------------------------------------------------------
(* The sinks.                                                              *)

\* receiveValue of login, of setUserInfo after createUser, and of logout:
\* navigateToTabs / navigateToLogin.
Navigates_Logout(c) ==
    /\ req[c].op \in {"login", "setInfo", "logout"}
    /\ IF req[c].op = "logout"
       THEN /\ DeliverValue(c, {})
            /\ loading' = [loading EXCEPT !["settings"] = FALSE]
            /\ UNCHANGED <<screen, home, missed>>
       ELSE DeliverValue(c, Replaced) /\ Start(Owner[req[c].op])
    /\ UNCHANGED <<req, remoteState, currentUser, active>>

Navigates(c) ==
    /\ req[c].op \in {"login", "setInfo", "logout"}
    /\ DeliverValue(c, Replaced)
    /\ Start(Owner[req[c].op])
    /\ UNCHANGED <<req, remoteState, currentUser, active>>

CreateSucceeds_NoProfile(c, d) ==
    /\ req[c].op = "create" /\ c # d
    /\ DeliverValue(c, Replaced)
    /\ Start("signup")
    /\ UNCHANGED <<req, remoteState, currentUser, active>>

\* receiveValue of createUser: setUserInfo for whoever is signed in now, with
\* the fields of the sign-up; the .finished of createUser then hides the
\* spinner although setUserInfo is under way.
CreateSucceeds(c, d) ==
    /\ req[c].op = "create"
    /\ DeliverAndChain(c, d, currentUser # NoUser)
    /\ req' = [req EXCEPT ![d] = [op |-> "setInfo", user |-> req[c].user,
                                  uid |-> currentUser]]
    /\ loading' = [loading EXCEPT !["signup"] = FALSE]
    /\ UNCHANGED <<remoteState, currentUser, screen, home, missed, active>>

ResetSucceeds(c) ==
    /\ req[c].op = "reset"
    /\ DeliverValue(c, {})
    /\ loading' = [loading EXCEPT !["reset"] = FALSE]
    /\ UNCHANGED <<req, remoteState, currentUser, screen, home, missed, active>>

Fails_SpinnerOn(c) ==
    /\ DeliverFailure(c)
    /\ UNCHANGED <<req, remoteState, currentUser, loading, screen, home, missed, active>>

\* receiveCompletion(.failure)
Fails(c) ==
    /\ DeliverFailure(c)
    /\ loading' = [loading EXCEPT ![Owner[req[c].op]] = FALSE]
    /\ UNCHANGED <<req, remoteState, currentUser, screen, home, missed, active>>

Delivery(c) ==
    \/ Navigates(c)
    \/ \E d \in Calls : CreateSucceeds(c, d)
    \/ ResetSucceeds(c)
    \/ Fails(c)

-----------------------------------------------------------------------------
(* The scene.                                                              *)

SceneActivity ==
    /\ active' = ~active
    /\ UNCHANGED <<apiVars, req, remoteState, currentUser, ui>>

\* The process is killed and launched again: scene(_:willConnectTo:) gives
\* RootCoordinator its window, and the keychain has kept the user.
Relaunch ==
    /\ Kill
    /\ ShowRoot
    /\ active' = TRUE
    /\ UNCHANGED <<req, remoteState, currentUser>>

Touch(c) ==
    \/ \E u \in Users, filled \in BOOLEAN :
          \/ LoginButtonPressed(c, u, filled)
          \/ CreateUserButtonPressed(c, u, filled)
          \/ SendButtonPressed(c, u, filled)
    \/ \E ok \in BOOLEAN : LogoutButtonPressed(c, ok)

SessionNext ==
    \/ \E c \in Calls : Touch(c) \/ Background(c) \/ Delivery(c)
    \/ SignUpButtonPressed \/ RestPasswordButtonPressed \/ Back
    \/ SceneActivity \/ Relaunch

SessionSpec == SessionInit /\ [][SessionNext]_sessionVars

\* The main run loop delivers and its timers fire; nothing is assumed of the
\* network or of the user.
SessionFairSpec ==
    /\ SessionSpec
    /\ \A c \in Calls : /\ WF_sessionVars(Delivery(c))
                        /\ WF_sessionVars(TimeoutFires(c) /\ Background(c))

-----------------------------------------------------------------------------
SessionTypeOK ==
    /\ req \in [Calls -> Requests \cup {NoRequest}]
    /\ \A c \in Calls : req[c] = NoRequest <=> pipe[c] = "idle"
    /\ accounts \subseteq Users
    /\ profiles \in [Users -> Users \cup {NoUser}]
    /\ currentUser \in Users \cup {NoUser}
    /\ screen \in Screens
    /\ home \in Users \cup {NoUser} /\ (home = NoUser <=> screen # "tabs")
    /\ loading \in [ViewModels -> BOOLEAN]
    /\ active \in BOOLEAN /\ missed \in BOOLEAN

\* A call of user u that the app gave up (timeout, back, relaunch) and that
\* Firebase confirmed all the same.
LateAnswer(u) ==
    \E c \in Calls : /\ req[c].op \in {"login", "create"} /\ req[c].user = u
                     /\ pipe[c] \in {"failed", "cancelled"} /\ remote[c] = "done"

\* The tabs are not left on the screen after a logout, but for the moment in
\* which its value is on the run loop, or when the value came while the scene
\* was inactive and RootCoordinator found no window.
NoTabsWithoutUser ==
    screen = "tabs" /\ currentUser = NoUser =>
        missed \/ \E c \in CallsOf("settings") : pipe[c] = "value"

\* The tabs (whose observers were registered for home) and the SDK (which the
\* next write will ask for its uid) disagree on the user only after a late
\* answer to a login or sign-up that was reported as failed or abandoned.
UserSwitchIsLate ==
    screen = "tabs" /\ currentUser \notin {NoUser, home} => LateAnswer(currentUser)

\* Sign-ups of one view that went on at the same time: Firebase made u's account
\* and a third user's setUserInfo, neither u's nor v's, ended.  Its completion
\* took the spinner off a createUser under way, and the button was free again.
CrossedSignUps(u, v) ==
    \E d, e \in Calls :
        /\ req[e].op = "create" /\ req[e].user = u /\ remote[e] = "done"
        /\ req[d].op = "setInfo" /\ req[d].user \notin {u, v}
        /\ pipe[d] \in {"failed", "succeeded"}

\* setUserInfo after createUser writes to the uid that is current when its
\* handler runs: another user's profile is only overwritten after a late
\* answer that made that user current in between, or when a third sign-up let
\* the sign-ups of the two users cross.
ProfileUnderOwner ==
    \A u \in Users :
        profiles[u] \notin {NoUser, u} => LateAnswer(u) \/ CrossedSignUps(u, profiles[u])

\* An account without a profile (whose tabs can only show errors) is the trace
\* of a sign-up that did not report success, or whose profile went elsewhere.
HalfSignUp ==
    \A u \in accounts : profiles[u] = NoUser =>
        \E c \in Calls :
            /\ req[c].user = u /\ req[c].op \in {"create", "setInfo"}
            /\ pipe[c] # "succeeded" \/ (req[c].op = "setInfo" /\ req[c].uid # u)

\* The spinner of login and reset is on exactly while a call is unsettled: the
\* timeout, the answer, back and relaunch never leave it on over a dead call,
\* nor take it off a living one.  Sign-up and settings only keep the first.
SpinnerIsTrue ==
    /\ \A vm \in {"login", "reset"} : loading[vm] <=> Waiting(vm)
    /\ \A vm \in {"signup", "settings"} : loading[vm] => Waiting(vm)

\* A view that does not take touches takes them again, whatever the network
\* and the scene do.
SpinnerStops == \A vm \in ViewModels : loading[vm] ~> ~loading[vm]
=============================================================================
