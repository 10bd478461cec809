---------------------------- MODULE CouponEditor ----------------------------
(***************************************************************************)
(* The coupon editor: CouponEditView, CouponEditViewModel,                 *)
(* CouponEditCoordinator, the image it loads through MediaLoadingService   *)
(* and the coupon it saves with APIManager.updateCoupon, on top of the     *)
(* publishers of APIManager (module ApiCall).  One editor is followed from *)
(* its appearance until long after it has closed; each call is one press   *)
(* of the Add or Edit button.                                              *)
(*                                                                         *)
(* Saving is three requests: putData stores the image under a new name,    *)
(* downloadURL asks for its address, updateChildValues writes the row.     *)
(* The block that makes them does not hold self: closing the editor does   *)
(* not stop it, and neither does the 10 s timeout.                         *)
(*                                                                         *)
(* LoadingView disables the content of the view, not the navigation bar or *)
(* the tab bar, and a text view that has the keyboard keeps it: only the   *)
(* image waits for the spinner.  Each return to the tab calls onAppear.    *)
(*                                                                         *)
(* popViewController is animated: the popped view takes no touches, but    *)
(* its view model and the subscriptions live until the transition ends.    *)
(*                                                                         *)
(* A text is a model value.  An image is the one the coupon came with, the *)
(* placeholder, or a photo; a stored image is known by the call that       *)
(* stored it.                                                              *)
(***************************************************************************)
EXTENDS ApiCall, Naturals, Sequences, FiniteSets

CONSTANTS
    Mode,           \* CouponEditState: "add" or "edit"
    Texts,          \* descriptions that are not empty
    NoText,         \* the empty description
    OldText,        \* the description of the coupon that is edited
    Photos,         \* what the user may pick
    Original,       \* the image of the coupon that is edited
    Placeholder,    \* Asset.addImage
    OwnKey,         \* the key of the coupon that is edited
    Absent,         \* no row
    MaxAppears      \* bound on the calls of onAppear

ASSUME EditorAssumption ==
    /\ Mode \in {"add", "edit"}
    /\ OldText \in Texts /\ NoText \notin Texts
    /\ Original \notin Photos /\ Placeholder \notin Photos \cup {Original}
    /\ Original \notin Calls /\ OwnKey \notin Calls
    /\ Absent \notin [text : Texts, image : Calls \cup {Original}]
    /\ MaxAppears \in Nat \ {0}

VARIABLES
    draft,          \* draft[c]: the coupon and image that press c captured
    answered,       \* answered[c]: the presses that were over when c was made
    stage,          \* stage[c]: how far updateCoupon has got for press c
    files,          \* the calls whose image Storage has
    outbox,         \* row writes the server has not seen, in order
    rows,           \* <uid>/coupons at the server
    text, image,    \* what the editor shows
    isShowLoading,
    picker,         \* the image picker covers the editor
    loads,          \* the editor's image requests: on the net, or answered
    cache,          \* whether imageCache has an image for the coupon's address
    appears,        \* calls of onAppear
    place           \* the view is pushed, or popped, or its view model is gone

presses == <<draft, answered>>
saving == <<presses, stage, files, outbox, rows>>
view   == <<text, image, isShowLoading, picker, place>>
media  == <<loads, cache, appears>>
vars   == <<apiVars, saving, view, media>>

Images  == Photos \cup {Original, Placeholder}
Keys    == Calls \cup {OwnKey}
Coupons == [text : Texts, image : Calls \cup {Original}]
NoDraft == [text |-> NoText, image |-> Placeholder]
Drafts  == [text : Texts \cup {NoText}, image : Images]

\* coupon.key ?? UUID().uuidString: an added coupon gets a key at each press.
KeyOf(c) == IF Mode = "edit" THEN OwnKey ELSE c

\* coupon.toAnyObject(), once coupon.image is the address of the new file.
RowOf(c) == [text |-> draft[c].text, image |-> c]

OldRow == [text |-> OldText, image |-> Original]

\* Storage or the database has had the last word on press c.
Over(c) == remote[c] \in {"refused", "done"}

NoLoads == [r \in {"net", "image", "nil"} |-> 0]

\* getMediaData: a cached image, nil for the empty address of a new coupon, or
\* a request.  Cached data that are no image are asked for again.
Lookup == IF cache = "image" THEN "image" ELSE IF Mode = "add" THEN "nil" ELSE "net"

\* The editor has been pushed and onAppear has asked for the image.
Init ==
    /\ ApiInit
    /\ draft = [c \in Calls |-> NoDraft]
    /\ answered = [c \in Calls |-> {}]
    /\ stage = [c \in Calls |-> "none"]
    /\ files = {} /\ outbox = <<>>
    /\ rows = [k \in Keys |-> IF Mode = "edit" /\ k = OwnKey THEN OldRow ELSE Absent]
    /\ text = IF Mode = "edit" THEN OldText ELSE NoText
    /\ image = Placeholder
    /\ isShowLoading = TRUE /\ picker = FALSE /\ place = "pushed"
    /\ cache \in IF Mode = "edit" THEN {"none", "image"} ELSE {"none"}
    /\ loads = [NoLoads EXCEPT ![Lookup] = 1]
    /\ appears = 1

-----------------------------------------------------------------------------
(* The image on the screen.                                                *)

\* onAppear, when the user comes back from another tab.
UpdateImage ==
    /\ place = "pushed" /\ ~picker /\ appears < MaxAppears
    /\ appears' = appears + 1
    /\ isShowLoading' = TRUE
    /\ loads' = [loads EXCEPT ![Lookup] = @ + 1]
    /\ UNCHANGED <<apiVars, saving, text, image, picker, place, cache>>

\* The data task ends; any body is cached, whether or not it is an image, in
\* place of what was there.
MediaAnswers(body) ==
    /\ loads["net"] > 0
    /\ LET r == IF body = "image" THEN "image" ELSE "nil"
       IN  loads' = [loads EXCEPT !["net"] = @ - 1, ![r] = @ + 1]
    /\ cache' = [image |-> "image", junk |-> "none", error |-> cache][body]
    /\ UNCHANGED <<apiVars, saving, view, appears>>

\* NSCache may drop what it holds at any time; only the next onAppear will see.
Evict ==
    /\ place = "pushed" /\ cache # "none"
    /\ cache' = "none"
    /\ UNCHANGED <<apiVars, saving, view, loads, appears>>

ImageLoaded_SpinnerOn(r) ==
    /\ loads[r] > 0
    /\ loads' = [loads EXCEPT ![r] = @ - 1]
    /\ image' = IF r = "image" THEN Original ELSE Placeholder
    /\ UNCHANGED <<apiVars, saving, text, isShowLoading, picker, place, cache, appears>>

\* The sink of updateImage.
ImageLoaded(r) ==
    /\ loads[r] > 0
    /\ loads' = [loads EXCEPT ![r] = @ - 1]
    /\ isShowLoading' = FALSE
    /\ image' = IF r = "image" THEN Original ELSE Placeholder
    /\ UNCHANGED <<apiVars, saving, text, picker, place, cache, appears>>

ChangeImageButtonSelected_NoHitTest ==
    /\ place = "pushed" /\ ~picker
    /\ picker' = TRUE
    /\ UNCHANGED <<apiVars, saving, text, image, isShowLoading, place, media>>

ChangeImageButtonSelected ==
    /\ place = "pushed" /\ ~picker /\ ~isShowLoading
    /\ picker' = TRUE
    /\ UNCHANGED <<apiVars, saving, text, image, isShowLoading, place, media>>

\* didFinishPickingMediaWithInfo, or the picker is dismissed without a choice.
PickerCloses(photo) ==
    /\ picker
    /\ picker' = FALSE
    /\ image' = photo
    /\ UNCHANGED <<apiVars, saving, text, isShowLoading, place, media>>

TextViewDidChange(t) ==
    /\ place = "pushed" /\ ~picker
    /\ text' = t
    /\ UNCHANGED <<apiVars, saving, image, isShowLoading, picker, place, media>>

-----------------------------------------------------------------------------
(* Saving.                                                                 *)

\* The Future captures the coupon and the encoded image.
Captures(c) ==
    /\ Issue(c)
    /\ draft' = [draft EXCEPT ![c] = [text |-> text, image |-> image]]
    /\ answered' = [answered EXCEPT ![c] = {d \in Calls : Over(d)}]

SendButtonPressed_NoPhotoCheck(c, ready) ==
    /\ place = "pushed" /\ ~picker
    /\ isShowLoading' = TRUE
    /\ IF ready THEN Captures(c) ELSE Reject(c) /\ UNCHANGED presses
    /\ UNCHANGED <<stage, files, outbox, rows, text, image, picker, place, media>>

\* The guards of updateCoupon: a text, an image that is not the placeholder
\* and can be encoded, and a user (ready stands for the last two).
SendButtonPressed(c, ready) ==
    /\ place = "pushed" /\ ~picker
    /\ isShowLoading' = TRUE
    /\ IF ready /\ text # NoText /\ image # Placeholder
       THEN Captures(c)
       ELSE Reject(c) /\ UNCHANGED presses
    /\ UNCHANGED <<stage, files, outbox, rows, text, image, picker, place, media>>

\* The block on serialQueue does not need self, only the process.
RunSave(c) ==
    /\ Moves(c, "queued", "flying")
    /\ UNCHANGED <<saving, view, media>>

\* putData ends, with or without an error: the code does not look.
PutData(c, stored) ==
    /\ remote[c] = "flying" /\ stage[c] = "none"
    /\ stage' = [stage EXCEPT ![c] = "put"]
    /\ files' = IF stored THEN files \cup {c} ELSE files
    /\ UNCHANGED <<apiVars, presses, outbox, rows, view, media>>

DownloadURL_Guessed(c) ==
    /\ remote[c] = "flying" /\ stage[c] = "put"
    /\ stage' = [stage EXCEPT ![c] = "row"]
    /\ outbox' = Append(outbox, c)
    /\ UNCHANGED <<apiVars, presses, files, rows, view, media>>

\* downloadURL finds the file, and the row is handed to the database SDK.
DownloadURL(c) ==
    /\ remote[c] = "flying" /\ stage[c] = "put"
    /\ c \in files
    /\ stage' = [stage EXCEPT ![c] = "row"]
    /\ outbox' = Append(outbox, c)
    /\ UNCHANGED <<apiVars, presses, files, rows, view, media>>

\* downloadURL fails: no file, or no answer.
NoDownloadURL(c) ==
    /\ stage[c] = "put"
    /\ Refuse(c)
    /\ UNCHANGED <<saving, view, media>>

Arrives(c) == outbox # <<>> /\ c = Head(outbox) /\ outbox' = Tail(outbox)

\* updateChildValues reaches the server: text and image at once.
ServeRow(c) ==
    /\ Arrives(c)
    /\ Serve(c) \/ ServeAdrift(c)
    /\ rows' = [rows EXCEPT ![KeyOf(c)] = RowOf(c)]
    /\ UNCHANGED <<presses, stage, files, view, media>>

RefuseRow(c) ==
    /\ Arrives(c)
    /\ Refuse(c)
    /\ UNCHANGED <<presses, stage, files, rows, view, media>>

AckRow(c) ==
    /\ Reply(c)
    /\ UNCHANGED <<saving, view, media>>

\* Another device, or the list behind a closed editor, deletes a coupon.
DeleteElsewhere(k) ==
    /\ rows[k] # Absent
    /\ rows' = [rows EXCEPT ![k] = Absent]
    /\ UNCHANGED <<apiVars, presses, stage, files, outbox, view, media>>

-----------------------------------------------------------------------------
(* The answers to the view model, and its end.                             *)

SaveAnswered(c) ==
    /\ Callback(c) \/ TimeoutFires(c)
    /\ UNCHANGED <<saving, view, media>>

\* The view model goes and takes its subscriptions with it.
Closed ==
    /\ place' = "gone" /\ isShowLoading' = FALSE /\ picker' = FALSE
    /\ loads' = NoLoads
    /\ UNCHANGED <<saving, text, image, appears>>

\* receiveValue: navigateBack pops the editor.  A second success during the
\* transition finds the list on top, the root of the stack, and pops nothing.
SaveSucceeds(c) ==
    /\ DeliverValue(c, {})
    /\ isShowLoading' = FALSE
    /\ place' = "popped"
    /\ UNCHANGED <<saving, text, image, picker, media>>

SaveFails_Retries(c) ==
    /\ pipe[c] = "failure"
    /\ pipe' = [pipe EXCEPT ![c] = "failed"]
    /\ remote' = [remote EXCEPT ![c] = IF @ = "refused" THEN "flying" ELSE @]
    /\ isShowLoading' = FALSE
    /\ UNCHANGED <<held, saving, text, image, picker, place, media>>

SaveFails(c) ==
    /\ DeliverFailure(c)
    /\ isShowLoading' = FALSE
    /\ UNCHANGED <<saving, text, image, picker, place, media>>

Back ==
    /\ place = "pushed" /\ ~picker
    /\ place' = "popped"
    /\ UNCHANGED <<apiVars, saving, text, image, isShowLoading, picker, media>>

\* deinit, at the end of the transition: the requests go on.
Deinit ==
    /\ place = "popped"
    /\ Release(Calls)
    /\ Closed
    /\ UNCHANGED cache

\* The process dies; writes that are under way may still arrive.
Die ==
    /\ Kill
    /\ Closed
    /\ cache' = "none"

-----------------------------------------------------------------------------
SaveStep(c) ==
    \/ \E ready \in BOOLEAN : SendButtonPressed(c, ready)
    \/ RunSave(c)
    \/ \E stored \in BOOLEAN : PutData(c, stored)
    \/ DownloadURL(c)
    \/ NoDownloadURL(c)
    \/ ServeRow(c)
    \/ RefuseRow(c)
    \/ AckRow(c)
    \/ SaveAnswered(c)
    \/ SaveSucceeds(c)
    \/ SaveFails(c)

ViewStep ==
    \/ UpdateImage
    \/ \E body \in {"image", "junk", "error"} : MediaAnswers(body)
    \/ Evict
    \/ \E r \in {"image", "nil"} : ImageLoaded(r)
    \/ ChangeImageButtonSelected
    \/ \E photo \in Photos \cup {image} : PickerCloses(photo)
    \/ \E t \in Texts \cup {NoText} : TextViewDidChange(t)
    \/ Back
    \/ Deinit
    \/ Die

Next ==
    \/ \E c \in Calls : SaveStep(c)
    \/ \E k \in Keys : DeleteElsewhere(k)
    \/ ViewStep

Spec == Init /\ [][Next]_vars

(***************************************************************************)
(* The timeout and the run loop run as long as the process does, and a     *)
(* data task of URLSession.shared ends by itself after 60 s at the latest. *)
(* Nothing is assumed of Storage, of the database or of the user.          *)
(***************************************************************************)
Fairness ==
    /\ \A c \in Calls :
        /\ WF_vars(TimeoutFires(c) /\ UNCHANGED <<saving, view, media>>)
        /\ WF_vars(SaveSucceeds(c))
        /\ WF_vars(SaveFails(c))
    /\ WF_vars(\E r \in {"image", "nil"} : ImageLoaded(r))
    /\ WF_vars(\E body \in {"image", "junk", "error"} : MediaAnswers(body))

FairSpec == Spec /\ Fairness

-----------------------------------------------------------------------------
EditorTypeOK ==
    /\ ApiTypeOK
    /\ draft \in [Calls -> Drafts]
    /\ answered \in [Calls -> SUBSET Calls]
    /\ stage \in [Calls -> {"none", "put", "row"}]
    /\ files \subseteq Calls
    /\ outbox \in Seq(Calls)
    /\ rows \in [Keys -> Coupons \cup {Absent}]
    /\ text \in Texts \cup {NoText}
    /\ image \in Images
    /\ isShowLoading \in BOOLEAN /\ picker \in BOOLEAN
    /\ place \in {"pushed", "popped", "gone"}
    /\ loads \in [{"net", "image", "nil"} -> Nat]
    /\ cache \in {"none", "image"}
    /\ appears \in 1..MaxAppears

\* No press leaves half a coupon behind: a row is the one the editor opened
\* with, or holds the text of one press and, in Storage, the image of the same
\* press, however putData, timeouts, retries, a closed editor and the death of
\* the process interleave.
RowIsWhole ==
    \A k \in Keys : rows[k] \in Coupons \ {OldRow} =>
        \E c \in files : /\ KeyOf(c) = k
                         /\ rows[k] = RowOf(c)
                         /\ draft[c].image # Placeholder

\* A press that was over when the next one was made cannot spoil it: its row
\* does not come back over the later one's, and if it was refused its coupon
\* does not turn up beside it.  Only a press that is still under way can, with
\* its spinner hidden by another answer or its failure reported by the timeout:
\* then an added coupon may exist twice, or an edited one have the older text.
RetryIsSafe ==
    \A d \in Calls : \A c \in answered[d] :
        /\ Happened(d) => rows[KeyOf(d)] # RowOf(c)
        /\ remote[c] = "refused" => \A k \in Keys : rows[k] # RowOf(c)

\* When the editor is popped on a success the server has the image and the row:
\* what was there before does not come back.
SavedMeansStored ==
    \A c \in Calls : pipe[c] = "succeeded" =>
        c \in files /\ rows[KeyOf(c)] # OldRow

\* A picked photo is replaced by a late image of the coupon only if the user
\* left the tab and came back, or pressed the button while the image loaded
\* (the answer to the press hides the spinner that protects the picker).
PickIsSafe ==
    image \in Photos /\ loads # NoLoads =>
        appears > 1 \/ \E c \in Calls : pipe[c] # "idle"

\* The one spinner of loading and saving is never left on.
EditorSpinnerIsTrue ==
    isShowLoading => loads # NoLoads \/ \E c \in Calls : pipe[c] \in Unsettled

\* It goes off, or the editor closes, whatever the network does.
EditorSpinnerStops == isShowLoading ~> ~isShowLoading
=============================================================================
