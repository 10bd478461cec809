# Verification of LoveCoupons

TLA+ models of the iOS app in `src/LoveCoupons/LoveCoupons` (SwiftUI, Combine,
Firebase), the TLC configurations that check them and TLAPS proofs of their main
properties. Two people keep coupons for each other; each sees a list of their own
coupons and a list of their pair's, edits them, and signs in with an email address.
All paths below are relative to `src/LoveCoupons/LoveCoupons`.

## The system

| Component | State it keeps | Operations | Talks to |
|---|---|---|---|
| `Managers/API/APIManager.swift`, one-shot calls | a serial queue; one publisher per call | `login`, `logout`, `createUser`, `setUserInfo`, `resetPassword`, `getUserInfo`, `getPairEmail` | Firebase Auth and Database; the sinks of the view models |
| `APIManager`, live lists | a `CurrentValueSubject`, a Firebase observer, a 10 s timer per list | `getMyCoupons`, `getPairCoupons` | Firebase Database; the list view models |
| `APIManager`, coupons | nothing | `updateCoupon` (upload image, get URL, write row), `deleteCoupon` | Firebase Storage and Database |
| Login, sign-up, reset (`UseCases/LoginAndSignup`) | `isShowLoading`, text fields | the buttons, back, the sinks | `APIManager`, `RootCoordinator` |
| Settings (`UseCases/Settings`) | `isShowLoading`, name, email, pair id | reload on appear, submit, logout | `APIManager`, `RootCoordinator` |
| Root navigation (`BasicCoordinators`, `SupportFiles/SceneDelegate.swift`) | the window's root view controller | `start` at launch, after login, sign-up and logout | `Auth.currentUser`, `UIApplication.keyWindow` |
| My coupons, pair coupons (`UseCases/Coupons`) | `coupons`, `isShowLoading` | subscribe on init, delete, open editor, open mail | `APIManager` |
| Coupon editor (`UseCases/Coupons/CouponEdit`) | text, image, `isShowLoading` | load image, pick image, save | `APIManager`, `MediaLoadingService` |
| Pair's mail (`PairCouponsViewModel`, `PairCouponsMailDataStore`, `MailView`) | the mail store, the composer | a tap: profile, pair's address, composer | `APIManager`, MessageUI |
| `Pods/FirebaseDatabase`, `FPersistentConnection.m` and the part of `FRepo.m` it calls back (vendored) | unanswered writes and listens, the count of unanswered listens, blocks that wait | send, send again after a broken connection, hold blocks back, call them | the server; the completion blocks of `APIManager` |
| `Managers/MediaLoadingService` and `CouponView` | an `NSCache` of image data | get image | `URLSession` |

Everything interacts by callbacks. A view model owns an `APIManager` and its
subscriptions; when its view is popped or the window's root is replaced, both go,
and what is still under way is cut off from the app but not from Firebase.

What is hard here:

- *Late answers.* The timeout of a publisher fails the sink after 10 s; it does not
  recall the request. `signIn` and `createUser` change `currentUser` when the SDK
  gets the reply, whether or not anybody waits for it.
- *State read at one moment and used at another.* `setUserInfo` asks for the uid when
  it is called, the tabs register observers for the uid of the moment in which they
  are built, rows are deleted by the key of an earlier snapshot.
- *Partial failure.* Sign-up is two requests, saving a coupon is three.
- *Queues.* What a subject sends is queued on the main run loop while the subject,
  the timer and the observer go on.
- *Scene and process.* Results arrive while the scene is inactive and has no key
  window; the process dies between two steps.
- *Chains.* The pair's list and each mail start at the profile, which may be saved
  anew between two links; the pair id is a text that becomes a database path.
- *One flag, several calls.* Settings and the editor show one spinner for all their
  calls: the first answer takes the cover off the fields another will replace.
- *Broken connections.* The database client sends every unanswered write again and
  decides from a counter when a write's block may be called.
- *Null snapshots.* Firebase has no empty directory: no coupons and an error look the
  same to the observer.

## Modules

| Module | Models | State and actions |
|---|---|---|
| `OneShot` | what `APIManagerProtocol` promises of one call | abstract: `outcome`, `happened`; one transition relation `Lives` |
| `ApiCall` | the publisher behind every one-shot function | `remote[c]` follows the request, `pipe[c]` the subscription, `held` the living `APIManager`s; one action per step: `Issue`, `Reject` (a guard fails), `IssueSync` (`logout`), `RunBlock`/`DropBlock` (`[weak self]`), `Serve`, `Refuse`, `Reply`, `LoseReply`, `Callback`, `TimeoutFires`, `DeliverValue`, `DeliverAndChain`, `DeliverFailure`, `Release` (deinit), `Kill` |
| `CouponFeed` | `getMyCoupons` with `MyCouponsViewModel`, and `getPairCoupons` with the list half of `PairCouponsViewModel` (constant `Feed`) | `db` (server), `base` and `pending` (what the SDK knows and has not had acknowledged), `observer`, `subject`, `open`, `timer`, `queue` (the run loop), `coupons`, `isShowLoading`, `alerts`, `alive` |
| `Session` | login, sign-up, reset, logout, root navigation, scene and relaunch, on top of `ApiCall` | adds `req` (what each call asks for), `accounts`, `profiles`, `currentUser`, `screen`, `home` (the user the tabs were built for), `loading`, `active`, `missed` |
| `CouponEditor` | the coupon editor with `updateCoupon` and the image it loads, on top of `ApiCall`; constant `Mode` (add or edit) | `draft` (what each press captured), `answered` (history: the presses that were over when it was made), `stage`, `files` (Storage), `outbox`, `rows` (the server), `text`, `image`, `picker`, `isShowLoading`, `loads`, `cache`, `place` (pushed, popped, gone); `SendButtonPressed` with `Captures`, `RunSave`, `PutData`, `DownloadURL`/`NoDownloadURL`, `ServeRow`, `RefuseRow`, `AckRow`, `SaveAnswered`, `SaveSucceeds`, `SaveFails`, `UpdateImage` (onAppear), `MediaAnswers`, `ImageLoaded`, `ChangeImageButtonSelected`, `PickerCloses`, `TextViewDidChange`, `Back`, `Deinit` (the end of the transition), `Die` |
| `Settings` | the settings tab with `getUserInfo` and `setUserInfo`, on top of `ApiCall` | `op`, `data`, `ticket` (what each call does, carries, and when it was made), `stored` and `date` (the profile), `form`, `typed`, `focus`, `isShowLoading`, `signedIn`, `alive`; `GetUserInfo` (onAppear), `Type`, `SubmitButtonPressed`, `LogoutButtonPressed`, `RunQueue`, `ServeSubmit`, `AckSubmit`, `RefuseSubmit`, `ServeLoad`, `Snapshot`, `RefuseLoad`, `Answered`, `TimesOut`, `Elsewhere`, the sinks |
| `PairCoupons` | the pair's tab: the list's chain, the chain of each tap, the mail store and the composer | `pairId`, `address` (the profiles), `step[ch]`, `got[ch]` (phase and last answer of each chain), `shown`, `store`, `composer`, `mail`, `alive`, `crashed`; one action per link, `SaveProfile`, `SaveAddress`, `SignOut`, `Launch` |
| `PutQueue` | what the database client promises of writes: numbered, stored, reported once and in order, a success only for what is stored | abstract: `issued`, `stored`, `reported` |
| `PutSync` | `FPersistentConnection` (writes, listens, reconnection) with the view of one directory, and the server | `link`, `outstanding`, `putsToAck`, `reported`, `listens`, `unacked`, `cache` (the client), `requests`, `loading`, `replies` (the connection), `active`, `value`, `stored` (the server), `interrupted`; `PutInternal`, `Listen`, `OnReady` with `RestoreState`, `OnDisconnect` and `OnKill` (with `Severed` in common), `OnAuthenticated`, `OnPutReply`, `OnListenReply`, `OnDataUpdate`, `OnListenRevoked`, and the server's steps |
| `ApiCall_proofs`, `CouponFeed_proofs`, `Session_proofs`, `CouponEditor_proofs`, `Settings_proofs`, `PairCoupons_proofs`, `PutSync_proofs` | theorems | |
| `SetMaxima` | least and greatest members of sets of numbers, for the proofs | |
| `MCApiCall`, `MCCouponFeed`, `MCSession`, `MCCouponEditor`, `MCSettings`, `MCPairCoupons`, `MCPutSync` | the instances for TLC, with symmetry sets where they are used | |

How they fit together: `Session`, `CouponEditor` and `Settings` extend `ApiCall`, so
that their calls are its calls; `PairCoupons` uses of a publisher only what `OneShot`
promises, which `ApiCall` implements. What `CouponFeed`, `CouponEditor` and
`Settings` assume of the database client (a write is visible at once, sent again
until answered, reported once, in order) is what `PutSync` shows of its code.

Definitions whose name has a suffix after an underscore (`Issue_NoSink`,
`Deliver_FirstOnly`, ...) are plausible mistakes in the definition that follows
them. `PROJECT.json` lists, for each property, the one that must break it.

### Abstractions

- A coupon is its key and description; descriptions are numbers (they are only
  sorted). `sorted` over a dictionary may put equal descriptions in any order.
- A user is an account, its uid and the author of a profile. Text fields are accepted
  or not by the guards of the API.
- The value and the `.finished` of a `Future` are one step: they are two blocks
  queued back to back on the main run loop.
- Time: the 10 s timers may fire at any moment after they are set.
- Firebase is modelled from how the app uses it and from the vendored SDK in
  `Pods/`: a request may be carried out, refused, or carried out and its reply lost;
  own database writes are visible at once, are sent again until answered, and are
  taken back when refused; value events are raised when what the SDK believes
  changes. In `CouponFeed`, writes to different keys may be acknowledged in any
  order, and the server's updates may be merged into one: both allow more than
  Firebase does. The first snapshot waits for the server.
- Releasing the window's root releases its view models at once, and so does back in
  `Session`: nothing can be touched during the transition, so an answer that comes
  before it ends is the same as one that came before back. Alerts do not block
  touches and do not replace each other. Both allow more touches than UIKit does.
- In the editor, `LoadingView` disables the image and the text, but not the bars: the
  save button, back and the tabs can be pressed at any time, and a text view that
  has the keyboard keeps it. Where iOS disables more, there are fewer behaviours.
  Each return to the tab is a call of `onAppear`; the picker is a sheet (the app is
  portrait only) and does not cause one. Texts are model values, a stored image is
  known by the press that stored it. `popViewController` is animated: a popped editor
  takes no touches, but its view model and its subscriptions go on until `Deinit`. A
  success delivered in between calls `navigateBack` again, which pops nothing: the
  list is the root of its tab's stack. Storing an image, finding its address and writing the row are separate
  steps; row writes reach the server in the order in which the SDK got them.
- In `Settings` a profile is its texts; `name` and `id` are treated alike. The serial
  queue and the SDK's writes are first in, first out: both are the calls at that
  stage in the order of their tickets. The server's copy and what the SDK knows of
  it are one variable: a change by another device is dated when this device learns
  of it. A field that has the keyboard keeps it under the spinner.
- In `PairCoupons` a read is one phase of a chain. A coupon is its owner and a text;
  which coupons the list holds is `CouponFeed`'s matter, so any coupon of the owner
  may be tapped. A person's address is the person. An id is a valid path or not
  (`validPathString`); the exception it raises ends the process. A tap of the same
  launch has a number.
- In `PutSync` all writes go to one location and a write is its number. Getting a
  token and a socket is one step. The server is external: it answers the
  authentication first, carries out the writes of a connection in the order they
  were sent, tells an active listen of a write before it answers the write, and
  answers a listen late, with the data first.
- The placeholder rows of a list are gone before a finger can swipe one: the initial
  nil of the subject is delivered in the next turn of the run loop.

## What is checked

| Run | Instance | Shows |
|---|---|---|
| `api_call` | 3 calls, fair, 74,088 states | a sink that is told of a success is told the truth (`SuccessIsReal`); the pipeline implements `OneShot` (`KeepsContract`); every call settles without help from the network (`EverySinkSettles`) |
| `my_feed` | 2 keys, 2 descriptions, 2 edits, network fair, 288,687 states | `FreshWhenDrained`, `StoppedIffReported`, `LastRowStays`; `Converges`: the list ends up as the server, unless the feed was reported dead |
| `pair_feed` | 2 keys, 3 edits, main queue and run loop fair, 54,624 states | `FirstAnswer`: a coupon or an alert, whatever the network does |
| `session` | 2 users, 3 calls, 3.1 million states | `NoTabsWithoutUser`, `UserSwitchIsLate`, `ProfileUnderOwner`, `HalfSignUp` |
| `session_spinner` | 2 users, 2 calls, fair, 237,676 states | `SpinnerIsTrue`, `SpinnerStops` |
| `coupon_edit` | 2 presses, 1 text, 1 photo, 2 appearances, fair, 1.36 million states | `RowIsWhole`, `RetryIsSafe`, `SavedMeansStored`, `PickIsSafe`, `EditorSpinnerIsTrue`, `EditorSpinnerStops` |
| `coupon_add` | 2 presses, 2 texts, 309,102 states | `RowIsWhole` for a new coupon |
| `settings` | 3 calls, 1 field, 2 appearances, 1 change elsewhere, fair, 277,033 states | `TypingIsSafe`, `SavedStays`, `ReadsOwnSubmit`, `SettingsSpinnerStops` |
| `pair_coupons` | 2 people, 2 texts, 2 taps, 1 save, 1 relaunch, fair, 443,032 states | `MailGoesToOwner`, `MailIsWhole`, `CrashNeedsBadId`, `NothingHangs` |
| `put_sync` | 2 writes, 3 listens (2 for the directory), 2 broken connections, 2 denials, 4.0 million states | `CountIsExact`, `AckedStays` |
| `put_order` | 3 writes, 2 listens, 2 broken connections, no denials, fair, 552,178 states | `NoFlicker`, `EveryPutReports`, and `KeepsOrder`: `PutSync` implements `PutQueue` |
| `put_block_doc` | 1 write, 1 listen, 1 broken connection, 1 denial, fair | a violation of `CommittedReports`, see below |

Each module's type invariant is checked with it; that of `ApiCall` is part of those
of `Session`, `CouponEditor` and `Settings`. The properties of the feed and of the
editor that one of the two instances leaves out are theorems for both.

Several of these describe, exactly, how far the code goes:

- `LastRowStays`: deleting the last coupon produces a null snapshot, which fails the
  subject. The user sees an error, the row stays, and the list is dead until the
  view model is built again.
- `UserSwitchIsLate`, `ProfileUnderOwner`: after a login or sign-up that timed out
  (or was left with back), a late answer changes `currentUser` under visible tabs,
  or sends the profile of the next sign-up to another uid. Nothing else changes the
  user under the tabs. A profile can go astray in one more way (`CrossedSignUps`),
  which the proof brought up: three users sign up on one device, one after the other.
  The completion of the first one's `setUserInfo` takes the spinner off the second
  one's `createUser`, a third `createUser` starts beside it, and the handler of one
  asks for the uid when the other has become current.
- `NoTabsWithoutUser`: a logout delivered to an inactive scene leaves the tabs up.
- `SpinnerIsTrue`: the spinners of login and reset are exact; sign-up hides its
  spinner while `setUserInfo` is under way.

- `RetryIsSafe`, `RowIsWhole`: several presses may be under way (a retry after a
  timeout, a press while the spinner of another answer is gone). Each may write its
  row, whole, and each may be reported as saved, the second while the editor is being
  popped. Between such presses the code promises no more: a coupon may be added
  twice, and an edit be overwritten by an earlier one whose upload took longer. But
  that needs a press that was not over when the next was made: one that Storage or
  the database had refused or confirmed by then never overwrites it, and a refused
  one leaves no coupon behind.
- `TypingIsSafe`: coming back to the settings tab, or pressing a button while the
  fields load, lets the answer of a load replace what was typed; nothing else does.
- `MailGoesToOwner`: the list keeps the pair of the launch. After the pair id is
  changed, a request for the old pair's coupon goes to the new one.
- `CrashNeedsBadId`: a pair id with one of the characters `. # $ [ ]` is accepted by
  `setUserInfo` and brings the app down at every launch, and at a tap even after the
  timeout was reported, since the block stays on the serial queue. An empty one
  cannot get there.
- `PickIsSafe`: coming back to the tab, or pressing the button while the image
  loads, lets the coupon's image replace a photo that was picked; nothing else does.

### A disagreement with the documentation

`FIRDatabaseReference.h` says that the block of a write is "triggered after the write
operation has been committed". `onDisconnect` of `FPersistentConnection` sets
`unackedListensCount` to 0 and keeps `putsToAck`, whose blocks wait for that count.
They are released by the next listen that is answered. If there is none (the only
listen was made while the connection was authenticating, so it was sent twice; its
first answer was a denial, which removed it; the write was answered and the
connection broke before the second one) the block is not called. `put_block_doc`
shows such a behaviour. In the app it costs little: the sink of `setUserInfo` or of
`updateCoupon` times out and reports a failure for a write that was stored. As long
as the server accepts the listens, `EveryPutReports` holds; it excepts a connection
that the server kills, after which the client makes no other. The assertion that the
count is never negative says nothing, as the count is unsigned; `CountIsExact` says
what it meant.

### Bounds

Two keys are enough for a list that is sorted, shrinks, and loses its last row while
another is pending; two edits allow an edit or a deletion and a change from another
device to overlap, and the safety properties are proved for any number. Two
users are enough for one to overwrite the other after a late answer. Crossed sign-ups
need three users and five calls, beyond what the run can enumerate: there `session`
checks `ProfileUnderOwner` without that case, and the theorem covers it.
Three calls allow a timed-out login, a sign-up and its `setUserInfo`, the shortest
way to a misplaced profile, and a second sign-up beside the first one's
`setUserInfo`. `MaxEdits` bounds edits; `Reserve` keeps a call for the second half
of a sign-up where liveness is checked, so that the bound itself cannot block a
delivery (0 elsewhere). Calls are never reused: their number bounds a behaviour's
touches. In `Settings` three calls are a submit, a second one and a reload, in any
order, which is all that `SavedStays` and `ReadsOwnSubmit` compare; `MaxElsewhere`
bounds the changes by other devices. In `PairCoupons` two taps share the store,
`MaxSaves` allows the pair, or the pair's address, to change between any two links,
and `MaxLaunches` a launch after a crash. In `PutSync` two broken connections
(`MaxDrops`) let a write be sent three times; two listens for the directory and
one beside them let a removed listen be replaced and a foreign one hold blocks
back; `MaxDenials` bounds what the server denies or revokes; a kill
happens once at most. In the editor two presses are a save and its retry, two
appearances (`MaxAppears`) one return to the tab, and one photo is enough since a photo is only
told apart from the coupon's own image and the placeholder.

`CHECK_DEADLOCK FALSE` is set where the system may stop: a feed whose view model
has gone and whose edits are used up has nothing left to do; the same holds of a
closed editor, of the tabs after a logout, and of a client whose writes and
connections are used up.

### Fairness

`TimeoutFires`, `TimerFires` and the deliveries are weakly fair: they are scheduled
on `DispatchQueue.main` and `RunLoop.main`, which run as long as the process does.
`MediaAnswers` is weakly fair because a data task of `URLSession.shared` ends by
itself, with an error after 60 s if need be. In `Settings` and `PairCoupons` one weak fairness
condition covers the main run loop as a whole, since every call is delivered or
times out once. Nothing is assumed of the user, the
scene, the serial queue, Storage or the database, with two exceptions. In `PutSync`
the next attempt to connect is always scheduled (`FIRRetryHelper`) unless the server
killed the connection (`shouldReconnect`), and a server
answers what it got as long as the connection lasts; connections break finitely
often. And `Converges` assumes (`NetFairness`) that the serial queue runs, that the
SDK, which reconnects for ever, eventually synchronises, and that every write is
eventually answered.

## What is proved

TLAPS proves, for every set of calls, users, keys and texts (finite for keys) and
every bound:

- `ApiCall_proofs`: `ApiTypeCorrect`, `ValuesAreConfirmed`, `SuccessesAreReal` and
  the refinement `PipelineKeepsContract`. `SuccessIsReal` is not inductive: a value
  on the run loop is delivered without another look at the request. `SuccessInv`
  adds that such a value is confirmed already (`ValueIsConfirmed`), and
  `DoneIsStable` that a confirmation is never taken back. The refinement follows from
  the ways a subscription can go (`PipeMoves`) and from `HappenedIsStable`.
- `CouponFeed_proofs`: `FeedTypeCorrect`, `FeedIsFresh`, `FeedStopsLoudly`,
  `FeedKeepsLastRow`. The properties speak of a drained run loop; `FeedInv` says what
  must hold before that. While the subject is open its last value is the last thing
  queued, or is shown (`LastInv`), and is what the SDK believes (`SubjectInv`). A
  failure is queued last and once (`FailInv`), and the initial nil only first, over
  an empty list (`NilInv`). Every change of the SDK's belief goes through one lemma,
  `BelieveStep`.
- `Session_proofs`: `SessionImplementsApi` (each step of the app is a step of its
  publishers, or none), hence `SessionSuccessesAreReal`; `SessionTypeCorrect`, which
  needs that a request that reached Firebase names a user (`NamedInv`);
  `LogoutLeavesTabs`; `SpinnersAreTrue`, `UserSwitchesAreLate`, `ProfilesHaveOwners`
  and `HalfSignUpsAreTraced`. The last four rest on three groups of invariants, whose
  conjunction is `WholeInv` (`SessionInvariant`). `ViewsInv`: who waits for an answer
  is on the screen (`ScreenInv`), login and reset never wait twice (`OneInv`), and a
  `createUser` under way has its spinner unless a `setUserInfo` took it off, so that
  two of them need such a one (`CoverInv`, `TwoInv`). `AccountsInv`: a `createUser`
  that was carried out made its account and no other made it too (`MadeInv`), it has
  succeeded if and only if its `setUserInfo` was called (`ChainInv`), and one that was
  carried out left a profile (`StoredInv`). `OwnersInv`: from the reply to a
  `createUser` until its handler runs, its user is current, or somebody whose late or
  crossed call came in between (`CurrentInv`); hence the uid of each `setUserInfo`
  (`UidInv`). Two lemmas sort the steps once: by what becomes of the pending calls
  (`PendingSteps`) and by what Firebase does (`FactSteps`).
- `CouponEditor_proofs`: `EditorTypeCorrect`, `RowsAreWhole`, `RetriesAreSafe`,
  `SavesAreStored`, `PicksAreSafe`, `EditorSpinnerIsHonest`, all from one invariant,
  `EditorInv`. A row is
  written from the draft of a press long after the press: `DraftInv` says that a
  press that got past the guards has a complete draft, `FileInv` that only such
  presses store images and that a queued row write has its image, `StoredInv` that
  what was carried out replaced the old row. `RetryIsSafe` follows from the other
  direction, `WrittenInv` (a row on the server was carried out), and from
  `AnsweredInv` (a press that was over when another was made stays over, with the
  same draft): the rows change by `DeleteElsewhere` or by a press that was not over
  (`RowsChange`). `QuietInv` ties the first image request
  to the spinner that keeps the picker shut. `EditorSteps` shows that the editor
  takes steps of `ApiCall`, except that its block runs without its owner, which lets
  it cite the lemmas of `ApiCall_proofs`.
- `PairCoupons_proofs`: `PairTypeCorrect`, `CrashesNeedBadIds`, `MailsAreWhole`,
  `MailsGoToOwners`, all from `PairInv`. What the screen uses was read by an earlier
  request, so the invariant follows each value from there: what a chain carries has
  been the pair id at some time since launch, and is a valid path once it was used
  (`ChainInv`); the owner of a tapped coupon is such an id, and the address a tap
  found belongs to a past pair or is empty (`TapInv`); the store of a coming composer and the mail of
  one on screen are those of one finished tap (`MailInv`), which `MailIsWhole` alone
  does not say while the composer is still coming.
- `Settings_proofs`: `SettingsTypeCorrect`, `TypingIsKept`, `SavesStay`,
  `ReadsAreOwn`, from `SettingsInv`. A save is reported long after its press, and in
  between it waits in two queues: `OrderInv` says that the submits leave `serialQueue`
  and the SDK in the order of their tickets, `DateInv` that the profile on the server
  is at least as new as every submit that was carried out, `BookInv` that a submit
  past the guards is filled in and that the first appearance makes only one load, and
  `QuietInv` that, before any press or second appearance, that load has the spinner
  on, no field has the keyboard and nothing was typed.
- `PutSync_proofs`: two invariants. `SyncInv` holds whatever the server does and gives
  `PutSyncTypeCorrect`, `CountsAreExact` and `AcksStay`. Its core is `PutInv`: the
  unanswered writes are an interval that ends at `putCounter`, the requests of a
  connection are the end of that interval, and the answers under way are its
  beginning, in order; so resending on a new connection (`InOrderIsInterval`)
  continues where the last one stopped. `LinkInv` says what can be on the wire in
  each state of the connection, `AckInv` that acknowledged writes are stored and not
  overwritten by older ones, `CountInv` that the count is exact and finite.
  `AcceptInv` is about the time before the first denied listen, and gives
  `NothingFlickers` and the refinement `OrderIsKept`: every wanted listen is asked for
  or active (`ListInv`); answers come in order and none waits without a listen under
  way (`OrderInv`); data on its way is as new as every success ahead of it
  (`DataInv`), the answer to a listen follows its data (`ListReplyInv`), and a
  success follows its data unless a list is still to be loaded (`PutReplyInv`); what
  the client knows covers what it has reported (`ViewInv`). With a denial the last
  two properties fail in the model (the run `put_block_doc` shows how a block is left
  behind), hence their hypotheses: `denials = 0` in the state, or `MaxDenials = 0`.
- `SetMaxima`: a non-empty set of naturals has a least member, and a greatest one if
  it is bounded. Facts about all positions of a queue are proved from the least
  position that would violate them.

Assumptions, all evaluated by TLC: `FeedAssumption` (finitely many keys, numeric
texts, distinct markers), `SessionAssumption` (`NoUser` is not a user),
`EditorAssumption` (distinct markers, at least one appearance), `SettingsAssumption` (the required
fields are fields; distinct markers, numeric bounds, at least one appearance),
`PairAssumption` (distinct markers, numeric bounds) and
`PutSyncAssumption` (finitely many listens, told apart from writes; numeric bounds).

Every safety property of the passing runs is a theorem. Only model-checked are the
liveness properties (`EverySinkSettles`, `FirstAnswer`, `Converges`, `SpinnerStops`,
`EditorSpinnerStops`, `SettingsSpinnerStops`, `NothingHangs`, `EveryPutReports`), since
fairness and ENABLED are out of the prover's reach.

## Plan

Done, in this order: `OneShot` and `ApiCall`; `CouponFeed`; `Session`;
`CouponEditor`; `Settings`; `PairCoupons`; `PutQueue` and `PutSync`.

The proofs followed in the same order; every safety property and both refinements are
proved. Next: action properties that the invariants already imply (what a session step
may never do to another user's profile, what a broken connection may never do to a
reported write), where they say more than the invariants do.

Given up: a module for the image cache (a row keeps one subscription for one address,
and images do not change under an address, so no order of answers is wrong), and one
for reconnection delays (`FIRRetryHelper` has one attempt at a time, and its delays
are not told apart by any property).

## Not modelled

- Layout and UIKit wrappers under `UI/Views`, generated resources, previews, and the
  application delegate, which configures Firebase once.
- `sendButtonPressed` of `SettingsViewModel`, which no view calls.
- UIKit's refusal to present an alert over another one.
- Of the vendored pods all but the writes and listens of the database client, except
  as the environment described above. Transactions, `get`, `unlisten`, `onDisconnect`
  operations, `goOffline` and the persistent cache of Firebase Database are not used
  by the app; `leveldb` is linked for that cache and never opened, since the app does
  not enable persistence. `nanopb`, GoogleDataTransport and GTMSessionFetcher carry
  Firebase's own diagnostics and transfers. These C and C++ files and the public
  Objective-C headers are most of the repository's lines and none of the app's logic.
