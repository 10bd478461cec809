------------------------------ MODULE Settings ------------------------------
(***************************************************************************)
(* The settings tab: SettingsView, SettingsViewModel, SettingsCoordinator, *)
(* and what getUserInfo and setUserInfo do to the profile of the signed-in *)
(* user, on top of the publishers of APIManager (module ApiCall).          *)
(*                                                                         *)
(* onAppear reloads the three fields each time the tab is shown.  While    *)
(* isShowLoading the fields take no touches, but a field that has the      *)
(* keyboard keeps it, and Submit and Logout are outside the part that is   *)
(* covered.  One flag serves every call.                                   *)
(*                                                                         *)
(* serialQueue is first in first out, and so are the writes of the         *)
(* database SDK: ticket[c] numbers the calls in the order they were made,  *)
(* and both queues are the calls at that stage in the order of their       *)
(* tickets.  A read at the SDK sees the writes that wait there.            *)
(*                                                                         *)
(* A profile is its three texts.  The server's copy and the SDK's          *)
(* knowledge of it are one variable, stored: a change by another device is *)
(* dated when this device learns of it.                                    *)
(***************************************************************************)
EXTENDS ApiCall, Naturals

CONSTANTS
    Fields,         \* name, id and email
    Required,       \* name and id, which the code treats alike
    Texts,          \* what a field may hold, besides nothing
    NoText,         \* the empty text
    NoProfile,      \* a null snapshot: the user has no profile
    MaxAppears,     \* bound on the calls of onAppear
    MaxElsewhere    \* bound on the changes made by other devices

Forms == [Fields -> Texts \cup {NoText}]
Blank == [f \in Fields |-> NoText]

\* What setUserInfo's first guard lets through.
Filled(form) == \A f \in Required : form[f] # NoText

ASSUME SettingsAssumption ==
    /\ Required \subseteq Fields
    /\ NoText \notin Texts
    /\ NoProfile \notin Forms
    /\ MaxAppears \in Nat \ {0}
    /\ MaxElsewhere \in Nat

VARIABLES
    op,             \* op[c]: what call c does
    data,           \* data[c]: the form a submit captured, or a load's snapshot
    ticket,         \* ticket[c]: when call c was made
    source,         \* source[c]: the date of the profile that load c read
    clock,          \* the last ticket
    stored,         \* <uid>/userInfo
    date,           \* date of the write that stored comes from
    elsewhere,      \* changes made by other devices
    form,           \* name, id and email of the view model
    typed,          \* the user has typed since the fields were last loaded
    focus,          \* a field has the keyboard
    isShowLoading,
    appears,        \* calls of onAppear
    signedIn,       \* userUid is not nil
    alive           \* the view model exists

request == <<op, data, ticket, clock>>
server  == <<stored, date, elsewhere>>
view    == <<form, typed, focus, isShowLoading, appears>>
vars    == <<apiVars, request, source, server, view, signedIn, alive>>

Ops == {"load", "submit", "logout"}

Earlier(c) == {d \in Calls : ticket[d] < ticket[c]}

\* The submits the SDK holds: shown at once, sent in order, not yet answered.
Pending == {c \in Calls : op[c] = "submit" /\ remote[c] \in {"flying", "served"}}

\* The write whose text a reader on this device sees.
Newest == CHOOSE c \in Pending : \A d \in Pending : ticket[d] <= ticket[c]

Visible   == IF Pending = {} THEN stored ELSE data[Newest]
VisibleAt == IF Pending = {} THEN date ELSE ticket[Newest]

Init ==
    /\ ApiInit
    /\ op = [c \in Calls |-> "none"]
    /\ data = [c \in Calls |-> Blank]
    /\ ticket = [c \in Calls |-> 0] /\ clock = 0
    /\ source = [c \in Calls |-> 0]
    /\ stored \in {p \in Forms : Filled(p)} \cup {NoProfile}
    /\ date = 0 /\ elsewhere = 0
    /\ form = Blank /\ typed = FALSE /\ focus = FALSE
    /\ isShowLoading = FALSE
    /\ appears = 0
    /\ signedIn = TRUE /\ alive = TRUE

-----------------------------------------------------------------------------
(* The user.                                                               *)

\* Calls differ by nothing but their names: any unused one will do.
NewCall == CHOOSE c \in Calls : pipe[c] = "idle"

Call(c, kind, form0) ==
    /\ pipe[c] = "idle" /\ c = NewCall
    /\ op' = [op EXCEPT ![c] = kind]
    /\ data' = [data EXCEPT ![c] = form0]
    /\ ticket' = [ticket EXCEPT ![c] = clock + 1]
    /\ clock' = clock + 1
    /\ isShowLoading' = TRUE
    /\ UNCHANGED <<source, server, form, typed, alive>>

\* onAppear: the tab is shown for the first time, or again.
GetUserInfo(c) ==
    /\ alive /\ appears < MaxAppears
    /\ appears' = appears + 1
    /\ focus' = FALSE
    /\ Call(c, "load", Blank)
    /\ IF signedIn THEN Issue(c) ELSE Reject(c)
    /\ UNCHANGED signedIn

Type_NoHitTest(f, t) ==
    /\ alive /\ appears > 0
    /\ form' = [form EXCEPT ![f] = t]
    /\ typed' = TRUE /\ focus' = TRUE
    /\ UNCHANGED <<apiVars, request, source, server, isShowLoading, appears, signedIn, alive>>

\* A text field takes a touch, or the keyboard it already has.
Type(f, t) ==
    /\ alive /\ appears > 0
    /\ ~isShowLoading \/ focus
    /\ form' = [form EXCEPT ![f] = t]
    /\ typed' = TRUE /\ focus' = TRUE
    /\ UNCHANGED <<apiVars, request, source, server, isShowLoading, appears, signedIn, alive>>

SubmitButtonPressed_NoGuard(c) ==
    /\ alive /\ appears > 0
    /\ Call(c, "submit", form)
    /\ Issue(c)
    /\ UNCHANGED <<focus, appears, signedIn>>

\* setUserInfo: the guards on the fields and on the user.
SubmitButtonPressed(c) ==
    /\ alive /\ appears > 0
    /\ Call(c, "submit", form)
    /\ IF Filled(form) /\ signedIn THEN Issue(c) ELSE Reject(c)
    /\ UNCHANGED <<focus, appears, signedIn>>

LogoutButtonPressed(c, ok) ==
    /\ alive /\ appears > 0
    /\ Call(c, "logout", Blank)
    /\ IssueSync(c, ok)
    /\ signedIn' = (signedIn /\ ~ok)
    /\ UNCHANGED <<focus, appears>>

-----------------------------------------------------------------------------
(* The serial queue and Firebase.                                          *)

Unseen == <<request, view, signedIn, alive>>

NextBlock_AnyOrder(c) == TRUE

\* The calls made before c have left the serial queue.
NextBlock(c) == \A d \in Earlier(c) : remote[d] # "queued"

RunQueue(c) ==
    /\ NextBlock(c)
    /\ RunBlock(c) \/ DropBlock(c)
    /\ UNCHANGED <<Unseen, source, server>>

\* The server carries out the oldest write that it has not seen.
ServeSubmit(c) ==
    /\ op[c] = "submit"
    /\ \A d \in Earlier(c) \cap Pending : remote[d] # "flying"
    /\ Serve(c)
    /\ stored' = data[c] /\ date' = ticket[c]
    /\ UNCHANGED <<Unseen, source, elsewhere>>

\* Writes are answered in order; a write is sent again until it is.
AckSubmit(c) ==
    /\ op[c] = "submit"
    /\ Earlier(c) \cap Pending = {}
    /\ Reply(c)
    /\ UNCHANGED <<Unseen, source, server>>

RefuseSubmit(c) ==
    /\ op[c] = "submit"
    /\ Earlier(c) \cap Pending = {}
    /\ Refuse(c)
    /\ UNCHANGED <<Unseen, source, server>>

\* The server sends the profile to the observer of getUserInfo.
ServeLoad(c) ==
    /\ op[c] = "load"
    /\ Serve(c)
    /\ UNCHANGED <<Unseen, source, server>>

Snapshot_ServerOnly(c) ==
    /\ op[c] = "load" /\ stored # NoProfile
    /\ Reply(c)
    /\ data' = [data EXCEPT ![c] = stored]
    /\ source' = [source EXCEPT ![c] = date]
    /\ UNCHANGED <<op, ticket, clock, server, view, signedIn, alive>>

\* The first value event of the observer; the promise ignores later ones.
Snapshot(c) ==
    /\ op[c] = "load" /\ Visible # NoProfile
    /\ Reply(c)
    /\ data' = [data EXCEPT ![c] = Visible]
    /\ source' = [source EXCEPT ![c] = VisibleAt]
    /\ UNCHANGED <<op, ticket, clock, server, view, signedIn, alive>>

\* A null snapshot, or the cancel block.
RefuseLoad(c) ==
    /\ op[c] = "load"
    /\ Refuse(c)
    /\ UNCHANGED <<Unseen, source, server>>

Answered(c) ==
    /\ Callback(c)
    /\ UNCHANGED <<Unseen, source, server>>

TimesOut(c) ==
    /\ TimeoutFires(c)
    /\ UNCHANGED <<Unseen, source, server>>

\* Another device of the user saves a profile.
Elsewhere(p) ==
    /\ elsewhere < MaxElsewhere
    /\ elsewhere' = elsewhere + 1
    /\ stored' = p
    /\ clock' = clock + 1 /\ date' = clock + 1
    /\ UNCHANGED <<apiVars, op, data, ticket, source, view, signedIn, alive>>

-----------------------------------------------------------------------------
(* The sinks.                                                              *)

\* receiveValue of getUserInfo replaces the three fields.
LoadSucceeds(c) ==
    /\ op[c] = "load"
    /\ DeliverValue(c, {})
    /\ isShowLoading' = FALSE
    /\ form' = data[c] /\ typed' = FALSE
    /\ UNCHANGED <<request, source, server, focus, appears, signedIn, alive>>

SubmitSucceeds_SpinnerOn(c) ==
    /\ op[c] = "submit"
    /\ DeliverValue(c, {})
    /\ UNCHANGED <<request, source, server, view, signedIn, alive>>

\* receiveValue of setUserInfo.
SubmitSucceeds(c) ==
    /\ op[c] = "submit"
    /\ DeliverValue(c, {})
    /\ isShowLoading' = FALSE
    /\ UNCHANGED <<request, source, server, form, typed, focus, appears, signedIn, alive>>

\* navigateToLogin: with a key window the root, and this view model, go;
\* without one they stay.
LogoutSucceeds(c, replaced) ==
    /\ op[c] = "logout"
    /\ DeliverValue(c, IF replaced THEN Calls ELSE {})
    /\ isShowLoading' = FALSE
    /\ alive' = ~replaced
    /\ UNCHANGED <<request, source, server, form, typed, focus, appears, signedIn>>

\* receiveCompletion(.failure)
Fails(c) ==
    /\ DeliverFailure(c)
    /\ isShowLoading' = FALSE
    /\ UNCHANGED <<request, source, server, form, typed, focus, appears, signedIn, alive>>

Delivery(c) ==
    \/ LoadSucceeds(c)
    \/ SubmitSucceeds(c)
    \/ \E replaced \in BOOLEAN : LogoutSucceeds(c, replaced)
    \/ Fails(c)

-----------------------------------------------------------------------------
Touch(c) ==
    \/ GetUserInfo(c)
    \/ SubmitButtonPressed(c)
    \/ \E ok \in BOOLEAN : LogoutButtonPressed(c, ok)

MainLoop(c) == Delivery(c) \/ TimesOut(c)

Background(c) ==
    \/ RunQueue(c)
    \/ ServeSubmit(c) \/ AckSubmit(c) \/ RefuseSubmit(c)
    \/ ServeLoad(c) \/ Snapshot(c) \/ RefuseLoad(c)
    \/ Answered(c)

Next ==
    \/ \E c \in Calls : Touch(c) \/ Background(c) \/ MainLoop(c)
    \/ \E f \in Fields, t \in Texts \cup {NoText} : Type(f, t)
    \/ \E p \in {q \in Forms : Filled(q)} : Elsewhere(p)

Spec == Init /\ [][Next]_vars

\* The main run loop keeps delivering and firing its timers; nothing is assumed of the
\* serial queue, of the network or of the user.
FairSpec ==
    /\ Spec
    /\ WF_vars(\E c \in Calls : MainLoop(c))

-----------------------------------------------------------------------------
SettingsTypeOK ==
    /\ ApiTypeOK
    /\ op \in [Calls -> Ops \cup {"none"}]
    /\ data \in [Calls -> Forms]
    /\ clock \in Nat
    /\ ticket \in [Calls -> 0..clock] /\ source \in [Calls -> 0..clock]
    /\ stored \in {p \in Forms : Filled(p)} \cup {NoProfile}
    /\ date \in 0..clock
    /\ elsewhere \in 0..MaxElsewhere
    /\ form \in Forms
    /\ typed \in BOOLEAN /\ focus \in BOOLEAN /\ isShowLoading \in BOOLEAN
    /\ appears \in 0..MaxAppears
    /\ signedIn \in BOOLEAN /\ alive \in BOOLEAN

\* What the user types is replaced by the answer of a load only if the tab was
\* left and shown again, or a button was pressed while the load was under way
\* (the answer to the press hides the spinner that protects the fields).
TypingIsSafe ==
    typed /\ (\E c \in Calls : op[c] = "load" /\ pipe[c] \in Unsettled) =>
        appears > 1 \/ \E c \in Calls : op[c] \in Ops \ {"load"}

\* A profile that was reported as saved is not undone by an older press: what
\* the server has was written at that press or later, although a press that
\* timed out, or that waits in either queue, is never withdrawn.
SavedStays ==
    \A c \in Calls : op[c] = "submit" /\ pipe[c] = "succeeded" => date >= ticket[c]

\* The fields a reload brings are never older than a submit that was made
\* before it and that Firebase has not refused, whether or not the server has
\* seen it yet.
ReadsOwnSubmit ==
    \A c, d \in Calls :
        /\ op[c] = "submit" /\ op[d] = "load" /\ ticket[c] < ticket[d]
        /\ remote[c] \in {"flying", "served", "done"} /\ remote[d] = "done"
        => source[d] >= ticket[c]

\* The one spinner of loading, saving and logging out, which any of their
\* answers turns off, goes off whatever the network does.
SettingsSpinnerStops == isShowLoading ~> ~isShowLoading
=============================================================================
