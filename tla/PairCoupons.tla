---------------------------- MODULE PairCoupons ----------------------------
(***************************************************************************)
(* The pair's tab: PairCouponsViewModel, PairCouponsView, its coordinator, *)
(* PairCouponsMailDataStore and MailView.  Two chains start at the user's  *)
(* own profile: at launch, getUserInfo and then the list of the pair       *)
(* (getPairCoupons); at each tap on a coupon, getUserInfo, then the pair's *)
(* address (getPairEmail), then a mail that asks for the coupon.  The list *)
(* is subscribed once; the profile can be changed in the settings tab, by  *)
(* another device, and between any two steps of a chain.                   *)
(*                                                                         *)
(* The pair id is a text the user typed and is used as a database path,    *)
(* which the SDK refuses with an exception when it is empty or malformed.  *)
(*                                                                         *)
(* getUserInfo and getPairEmail only read: of their publishers this module *)
(* needs what module OneShot promises, one outcome per call, and each is   *)
(* one phase of a chain.  What happens inside the list is module           *)
(* CouponFeed.  A coupon is its owner and a text, a person's address is    *)
(* the person.                                                             *)
(***************************************************************************)
EXTENDS Naturals

CONSTANTS
    MaxTaps,        \* bound on the taps on coupons in a launch
    List,           \* the chain of updateViewData
    People,         \* uids that are valid paths
    Malformed,      \* a pair id with a character that paths may not have
    NoText,         \* the empty text
    Nil,            \* a missing value
    Me,             \* the user, and the user's own address
    Texts,          \* descriptions of coupons
    MaxSaves,       \* bound on the profiles saved by anybody
    MaxLaunches     \* bound on the launches

Taps      == 1..MaxTaps
Chains    == Taps \cup {List}
Coupons   == [owner : People, text : Texts]
Addresses == People \cup {NoText}
UserInfos == [pairUniqId : People \cup {Malformed}, email : Addresses \cup {Me, Nil}]
Mails     == [to : Addresses, body : Coupons \cup {Nil}]
NoMail    == [to |-> NoText, body |-> Nil]

ASSUME PairAssumption ==
    /\ MaxTaps \in Nat /\ List \notin Taps
    /\ Malformed \notin People \cup {NoText, Nil} /\ NoText \notin People
    /\ Nil \notin People \cup {NoText} /\ Me \notin People \cup {NoText, Nil}
    /\ Nil \notin Coupons \cup UserInfos
    /\ MaxSaves \in Nat /\ MaxLaunches \in Nat

VARIABLES
    pairId,         \* pairUniqId of the user's profile; Nil without a profile
    past,           \* the pair ids of the profile since the launch
    address,        \* address[p]: the email in the profile of p
    step,           \* step[ch]: the phase of chain ch
    got,            \* got[ch]: the last answer of chain ch
    aim,            \* aim[t]: the coupon that was tapped
    shown,          \* whose coupons the list shows; Nil before it has any
    isShowLoading,
    store,          \* mailDataStore: emailMessage and bodyMessage
    composer,       \* "none", "coming" or "up"
    mail,           \* the mail in the composer
    alive,          \* the view model exists
    crashed,        \* the process died of an exception
    saves, launches

profile == <<pairId, past, address, saves>>
chains  == <<step, got, aim>>
screen  == <<shown, isShowLoading, store, composer, mail>>
process == <<alive, crashed, launches>>
vars    == <<profile, chains, screen, process>>

(***************************************************************************)
(* profile     getUserInfo is under way   listing   the list is observed   *)
(* gotProfile  its value is on RunLoop    failing   a failure on RunLoop   *)
(* queued      getPairEmail on the queue  mailed    handed to the composer *)
(* email       getPairEmail is under way  failed    reported by showError  *)
(* gotEmail    its value is on RunLoop    gone      cancelled              *)
(***************************************************************************)
Asking   == {"profile", "queued", "email"}
UnderWay == Asking \cup {"gotProfile", "gotEmail", "failing"}
Final    == {"mailed", "failed", "gone"}

\* validPathString: not empty, and without the characters paths may not have.
ValidPath(id) == id \in People

\* A profile has its owner's address, an empty one, or none.
OwnAddresses == \A p \in People : address[p] \in {p, NoText, Nil}

Known(id) == {id} \ {Nil}

\* The view model's init: updateViewData asks for the profile.
Fresh ==
    /\ step' = [ch \in Chains |-> IF ch = List THEN "profile" ELSE "idle"]
    /\ got' = [ch \in Chains |-> Nil]
    /\ aim' = [t \in Taps |-> Nil]
    /\ shown' = Nil /\ isShowLoading' = TRUE
    /\ store' = NoMail
    /\ composer' = "none" /\ mail' = NoMail
    /\ alive' = TRUE /\ crashed' = FALSE

Init ==
    /\ pairId \in People \cup {Malformed, Nil}
    /\ past = Known(pairId)
    /\ address \in [People -> Addresses \cup {Nil}] /\ OwnAddresses
    /\ step = [ch \in Chains |-> IF ch = List THEN "profile" ELSE "idle"]
    /\ got = [ch \in Chains |-> Nil]
    /\ aim = [t \in Taps |-> Nil]
    /\ shown = Nil /\ isShowLoading = TRUE
    /\ store = NoMail
    /\ composer = "none" /\ mail = NoMail
    /\ alive = TRUE /\ crashed = FALSE
    /\ saves = 0 /\ launches = 0

-----------------------------------------------------------------------------
(* The end of the view model, and of the process.                          *)

\* deinit { cancellables.removeAll() }
Gone ==
    /\ step' = [ch \in Chains |-> IF step[ch] = "idle" THEN "idle" ELSE "gone"]
    /\ got' = [ch \in Chains |-> Nil] /\ aim' = [t \in Taps |-> Nil]
    /\ shown' = Nil /\ isShowLoading' = FALSE
    /\ store' = NoMail /\ composer' = "none" /\ mail' = NoMail
    /\ alive' = FALSE
    /\ UNCHANGED <<profile, launches>>

Crash == Gone /\ crashed' = TRUE

\* logout replaces the window's root.
SignOut == alive /\ Gone /\ UNCHANGED crashed

\* The app is launched again, after a crash or otherwise, or signed in again.
Launch ==
    /\ launches < MaxLaunches
    /\ launches' = launches + 1
    /\ Fresh
    /\ past' = Known(pairId)
    /\ UNCHANGED <<pairId, address, saves>>

-----------------------------------------------------------------------------
(* The profiles.                                                           *)

SaveProfile_NoGuard(id) ==
    /\ saves < MaxSaves
    /\ saves' = saves + 1
    /\ pairId' = id
    /\ past' = past \cup {id}
    /\ UNCHANGED <<address, chains, screen, process>>

\* setUserInfo, from the settings tab or another device of the user: its
\* guard wants a pair id, and takes any.
SaveProfile(id) ==
    /\ id # NoText
    /\ saves < MaxSaves
    /\ saves' = saves + 1
    /\ pairId' = id
    /\ past' = past \cup {id}
    /\ UNCHANGED <<address, chains, screen, process>>

\* The pair's setUserInfo: no guard on the email.
SaveAddress(p, a) ==
    /\ saves < MaxSaves
    /\ saves' = saves + 1
    /\ address' = [address EXCEPT ![p] = a]
    /\ UNCHANGED <<pairId, past, chains, screen, process>>

-----------------------------------------------------------------------------
(* The publishers.                                                         *)

Goes(ch, to) ==
    /\ step' = [step EXCEPT ![ch] = to]
    /\ UNCHANGED <<profile, aim, process>>

\* The first value event of getUserInfo's observer.
UserInfoAnswers(ch) ==
    /\ step[ch] = "profile" /\ pairId # Nil
    /\ got' = [got EXCEPT ![ch] = [pairUniqId |-> pairId, email |-> Me]]
    /\ Goes(ch, "gotProfile")
    /\ UNCHANGED screen

\* The 10 s timeout, a null snapshot, the cancel block, nobody signed in; for
\* the list also its own timer and null snapshot.  A block on serialQueue is
\* not withdrawn, and keeps the pair id it was given.
TimesOut(ch) ==
    /\ step[ch] \in Asking \cup {"listing"}
    /\ step' = [step EXCEPT ![ch] = "failing"]
    /\ got' = [got EXCEPT ![ch] = IF step[ch] = "queued" THEN got[ch] ELSE Nil]
    /\ aim' = [c \in Taps |-> IF c = ch THEN Nil ELSE aim[c]]
    /\ UNCHANGED <<profile, screen, process>>

PairEmailAnswers_Own(t) ==
    /\ step[t] = "email"
    /\ got' = [got EXCEPT ![t].email = Me]
    /\ Goes(t, "gotEmail")
    /\ UNCHANGED screen

\* The first value event of getPairEmail's observer.
PairEmailAnswers(t) ==
    /\ step[t] = "email"
    /\ got' = [got EXCEPT ![t].email = address[got[t].pairUniqId]]
    /\ Goes(t, "gotEmail")
    /\ UNCHANGED screen

-----------------------------------------------------------------------------
(* The sinks.                                                              *)

\* receiveValue of getUserInfo in updateViewData: database.child(pairUniqId)
\* on the main thread.
GetPairCoupons ==
    /\ step[List] = "gotProfile"
    /\ \/ ~ValidPath(got[List].pairUniqId) /\ Crash
       \/ /\ ValidPath(got[List].pairUniqId)
          /\ Goes(List, "listing")
          /\ UNCHANGED <<got, screen>>

\* receiveValue of getPairCoupons: first nil, then what the observer brings.
CouponsArrive ==
    /\ step[List] = "listing"
    /\ shown' = got[List].pairUniqId
    /\ isShowLoading' = FALSE
    /\ UNCHANGED <<profile, chains, store, composer, mail, process>>

\* onTapGesture, showSendEmailView: placeholders and covered rows take no taps.
ShowSendEmailView(t, coupon, canSendMail) ==
    /\ alive /\ composer = "none" /\ ~isShowLoading
    /\ coupon.owner = shown
    /\ {u \in Taps : step[u] = "idle"} = t..MaxTaps
    /\ step' = [step EXCEPT ![t] = IF canSendMail THEN "profile" ELSE "failed"]
    /\ aim' = [aim EXCEPT ![t] = IF canSendMail THEN coupon ELSE Nil]
    /\ UNCHANGED <<profile, got, screen, process>>

\* receiveValue of getUserInfo in showSendEmailView.
GetPairEmail(t) ==
    /\ step[t] = "gotProfile"
    /\ Goes(t, "queued")
    /\ UNCHANGED <<got, screen>>

\* The block on serialQueue: database.child(pairId).  After a timeout its
\* answer is ignored, but not its exception.
RunEmailBlock(t) ==
    /\ step[t] \in {"queued", "failing", "failed"} /\ got[t] # Nil
    /\ \/ ~ValidPath(got[t].pairUniqId) /\ Crash
       \/ /\ ValidPath(got[t].pairUniqId)
          /\ \/ step[t] = "queued" /\ Goes(t, "email") /\ UNCHANGED got
             \/ /\ step[t] # "queued" /\ Goes(t, step[t])
                /\ got' = [got EXCEPT ![t] = Nil]
          /\ UNCHANGED screen

OpenMail_NilAddress(t) ==
    /\ step[t] = "gotEmail"
    /\ store' = [to |-> got[t].email, body |-> aim[t]]
    /\ composer' = IF composer = "none" THEN "coming" ELSE composer
    /\ Goes(t, "mailed")
    /\ UNCHANGED <<got, shown, isShowLoading, mail>>

OpenMail_FirstBody(t) ==
    /\ step[t] = "gotEmail"
    /\ store' = [to |-> IF got[t].email = Nil THEN store.to ELSE got[t].email,
                 body |-> IF store.body = Nil THEN aim[t] ELSE store.body]
    /\ composer' = IF composer = "none" THEN "coming" ELSE composer
    /\ Goes(t, "mailed")
    /\ UNCHANGED <<got, shown, isShowLoading, mail>>

\* receiveValue of getPairEmail: without an address the store keeps the one
\* it had.  UIKit does not present a second composer over the first.
OpenMail(t) ==
    /\ step[t] = "gotEmail"
    /\ store' = [to |-> IF got[t].email = Nil THEN store.to ELSE got[t].email,
                 body |-> aim[t]]
    /\ composer' = IF composer = "none" THEN "coming" ELSE composer
    /\ Goes(t, "mailed")
    /\ UNCHANGED <<got, shown, isShowLoading, mail>>

\* makeUIViewController reads the store when the composer is shown.
BuildMail ==
    /\ composer = "coming"
    /\ composer' = "up"
    /\ mail' = store
    /\ UNCHANGED <<profile, chains, shown, isShowLoading, store, process>>

\* didFinishWith: sent, saved or cancelled.
CloseMail ==
    /\ composer = "up"
    /\ composer' = "none"
    /\ mail' = NoMail
    /\ UNCHANGED <<profile, chains, shown, isShowLoading, store, process>>

Fails_SpinnerOn(ch) ==
    /\ step[ch] = "failing"
    /\ Goes(ch, "failed")
    /\ UNCHANGED <<got, screen>>

\* receiveCompletion(.failure): only updateViewData has a spinner.
Fails(ch) ==
    /\ step[ch] = "failing"
    /\ Goes(ch, "failed")
    /\ isShowLoading' = (isShowLoading /\ ch # List)
    /\ UNCHANGED <<got, shown, store, composer, mail>>

-----------------------------------------------------------------------------
Delivery(ch) ==
    \/ ch = List /\ GetPairCoupons
    \/ ch \in Taps /\ (GetPairEmail(ch) \/ OpenMail(ch))
    \/ Fails(ch)

Next ==
    \/ SignOut \/ Launch
    \/ \E id \in People \cup {Malformed, NoText} : SaveProfile(id)
    \/ \E p \in People : \E a \in {p, NoText} : SaveAddress(p, a)
    \/ \E ch \in Chains : UserInfoAnswers(ch) \/ TimesOut(ch) \/ Delivery(ch)
    \/ \E t \in Taps, canSendMail \in BOOLEAN :
          \E coupon \in Coupons : ShowSendEmailView(t, coupon, canSendMail)
    \/ \E t \in Taps : RunEmailBlock(t) \/ PairEmailAnswers(t)
    \/ CouponsArrive \/ BuildMail \/ CloseMail

Spec == Init /\ [][Next]_vars

\* The main run loop keeps delivering (the list's initial nil included) and
\* firing its timers; nothing is assumed of the queue, the network or the user.
FairSpec ==
    /\ Spec
    /\ WF_vars(CouponsArrive)
    /\ WF_vars(\E ch \in Chains : TimesOut(ch) \/ Delivery(ch))

-----------------------------------------------------------------------------
PairTypeOK ==
    /\ pairId \in People \cup {Malformed, Nil}
    /\ past \subseteq People \cup {Malformed}
    /\ address \in [People -> Addresses \cup {Nil}] /\ OwnAddresses
    /\ step \in [Chains -> UnderWay \cup Final \cup {"idle", "listing"}]
    /\ got \in [Chains -> UserInfos \cup {Nil}]
    /\ aim \in [Taps -> Coupons \cup {Nil}]
    /\ shown \in People \cup {Nil}
    /\ isShowLoading \in BOOLEAN
    /\ store \in Mails /\ mail \in Mails
    /\ composer \in {"none", "coming", "up"}
    /\ alive \in BOOLEAN /\ crashed \in BOOLEAN
    /\ saves \in 0..MaxSaves /\ launches \in 0..MaxLaunches

\* A request goes to the person whose coupon it names, or to nobody when that
\* person has no address, as long as the pair id has not been changed since
\* the launch: the list, the profile and the address are read at three
\* different moments, and the store keeps the address of an earlier tap.
MailGoesToOwner ==
    composer = "up" /\ (\A id, old \in past : id = old) =>
        mail.to \in {mail.body.owner, NoText}

\* The mail on the screen is that of one tap: its coupon, and the address its
\* own chain found (when it found one), although several chains share the
\* store and may end while the composer is on its way.
MailIsWhole ==
    composer = "up" =>
        \E t \in Taps : /\ aim[t] = mail.body
                        /\ step[t] = "mailed"
                        /\ got[t].email \in {mail.to, Nil}

\* Only a pair id that somebody saved malformed brings the app down: the guard
\* of setUserInfo keeps the empty path that the two chains fall back to from
\* ever being used.
CrashNeedsBadId == crashed => Malformed \in past

\* Nothing hangs, whatever the network does: the spinner goes off, if only
\* because the app crashed, and every tap, which crosses two publishers, ends
\* in a mail, an alert or with the view model.
NothingHangs ==
    /\ isShowLoading ~> ~isShowLoading
    /\ \A t \in Taps : step[t] \in UnderWay ~> step[t] \notin UnderWay
=============================================================================
