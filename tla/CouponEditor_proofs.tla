------------------------ MODULE CouponEditor_proofs ------------------------
(***************************************************************************)
(* Proofs about the coupon editor, for any number of presses, texts and    *)
(* photos, in both modes.  What the properties need beyond themselves:     *)
(* DraftInv, a press that reached updateCoupon's Future captured a real    *)
(* coupon and its draft no longer changes; FileInv, only such presses      *)
(* store images, and a row is only written for a stored one; StoredInv,    *)
(* what the server has carried out is on the server; WrittenInv, only what *)
(* it has carried out is there; AnsweredInv, a press that was over stays   *)
(* so; QuietInv, how the first image and the spinner go together before    *)
(* any press.  The spinner itself (EditorSpinnerIsTrue) is inductive once  *)
(* these are known.                                                        *)
(***************************************************************************)
EXTENDS CouponEditor, ApiCall_proofs, SequenceTheorems

DraftInv ==
    \A c \in Calls : remote[c] # "idle" =>
        draft[c].text \in Texts /\ draft[c].image # Placeholder

FileInv ==
    /\ \A c \in files : remote[c] # "idle"
    /\ \A i \in 1..Len(outbox) : outbox[i] \in files

StoredInv ==
    \A c \in Calls : Happened(c) => c \in files /\ rows[KeyOf(c)] # OldRow

SaveInv == DraftInv /\ FileInv /\ StoredInv /\ SuccessInv /\ RowIsWhole

WrittenInv ==
    \A k \in Keys, c \in Calls : rows[k] \in Coupons /\ rows[k].image = c => Happened(c)

AnsweredInv == \A d \in Calls : \A c \in answered[d] : c # d /\ Over(c)

RetryInv == WrittenInv /\ AnsweredInv /\ RetryIsSafe

Quiet == appears = 1 /\ \A c \in Calls : pipe[c] = "idle"

QuietInv ==
    Quiet => \/ loads = NoLoads
             \/ /\ loads \in {[NoLoads EXCEPT ![r] = 1] : r \in {"net", "image", "nil"}}
                /\ isShowLoading /\ ~picker /\ image \notin Photos

EditorInv == EditorTypeOK /\ SaveInv /\ RetryInv /\ QuietInv /\ EditorSpinnerIsTrue

-----------------------------------------------------------------------------
\* Every step of the editor is a step of the publishers, none of theirs, or
\* the block that runs although its editor may have closed.
LEMMA EditorSteps ==
    ASSUME Next
    PROVE  [ApiNext]_apiVars \/ \E c \in Calls : RunSave(c)
<1>1. ASSUME NEW c \in Calls, SaveStep(c) PROVE [ApiNext]_apiVars \/ RunSave(c)
  <2>1. CASE \E ready \in BOOLEAN : SendButtonPressed(c, ready)
    BY <2>1 DEF SendButtonPressed, Captures, ApiNext, CallStep
  <2>2. CASE \/ \E stored \in BOOLEAN : PutData(c, stored)
             \/ DownloadURL(c)
    BY <2>2 DEF PutData, DownloadURL
  <2>3. CASE NoDownloadURL(c) \/ ServeRow(c) \/ RefuseRow(c) \/ AckRow(c)
    BY <2>3 DEF NoDownloadURL, ServeRow, RefuseRow, AckRow, ApiNext, CallStep
  <2>4. CASE SaveAnswered(c) \/ SaveFails(c)
    BY <2>4 DEF SaveAnswered, SaveFails, ApiNext, CallStep
  <2>5. CASE SaveSucceeds(c)
    <3>1. \E gone \in SUBSET Calls : DeliverValue(c, gone)
      BY <2>5 DEF SaveSucceeds
    <3>2. QED
      BY <3>1 DEF ApiNext, CallStep
  <2>6. QED
    BY <1>1, <2>1, <2>2, <2>3, <2>4, <2>5 DEF SaveStep
<1>2. CASE ViewStep
  <2>1. CASE Deinit
    <3>1. \E gone \in SUBSET Calls : Release(gone)
      BY <2>1 DEF Deinit
    <3>2. QED
      BY <3>1 DEF ApiNext
  <2>2. CASE Die
    BY <2>2 DEF Die, ApiNext
  <2>3. QED
    BY <1>2, <2>1, <2>2 DEF ViewStep, UpdateImage, MediaAnswers, Evict, ImageLoaded,
       ChangeImageButtonSelected, PickerCloses, TextViewDidChange, Back
<1>3. ASSUME NEW k \in Keys, DeleteElsewhere(k) PROVE UNCHANGED apiVars
  BY <1>3 DEF DeleteElsewhere
<1>4. QED
  BY <1>1, <1>2, <1>3 DEF Next

LEMMA RunSaveType ==
    ASSUME ApiTypeOK, NEW c \in Calls, RunSave(c)
    PROVE  ApiTypeOK' /\ UNCHANGED pipe
           /\ \A d \in Calls : remote'[d] = remote[d] \/ (remote[d] = "queued" /\ remote'[d] = "flying")
  BY DEF ApiTypeOK, RunSave, Moves, Remotes

LEMMA EditorApiType ==
    ASSUME ApiTypeOK, [Next]_vars
    PROVE  ApiTypeOK'
<1>1. CASE UNCHANGED vars
  BY <1>1 DEF vars, apiVars, ApiTypeOK
<1>2. CASE Next
  BY <1>2, EditorSteps, TypeStep, RunSaveType
<1>3. QED
  BY <1>1, <1>2

\* SuccessInv of the publishers holds of the editor's as well.
LEMMA EditorSuccess ==
    ASSUME ApiTypeOK, SuccessInv, [Next]_vars
    PROVE  SuccessInv'
<1>1. CASE UNCHANGED vars
  BY <1>1 DEF vars, apiVars, SuccessInv
<1>2. CASE [ApiNext]_apiVars
  BY <1>2, DoneIsStable, ValueIsConfirmed DEF SuccessInv
<1>3. ASSUME NEW c \in Calls, RunSave(c) PROVE SuccessInv'
  BY <1>3, RunSaveType DEF SuccessInv
<1>4. QED
  BY <1>1, <1>2, <1>3, EditorSteps

-----------------------------------------------------------------------------
\* The row of a press that was accepted is a coupon, and not the old one.
LEMMA RowOfType ==
    ASSUME NEW c \in Calls, DraftInv, remote[c] # "idle"
    PROVE  RowOf(c) \in Coupons \ {OldRow}
  BY EditorAssumption DEF DraftInv, RowOf, Coupons, OldRow

LEMMA KeyOfType ==
    ASSUME NEW c \in Calls
    PROVE  KeyOf(c) \in Keys
  BY DEF KeyOf, Keys

\* The server sees a press: its block had run.
LEMMA ServedWasFlying ==
    ASSUME ApiTypeOK, NEW c \in Calls, Serve(c) \/ ServeAdrift(c)
    PROVE  /\ remote[c] # "idle"
           /\ UNCHANGED pipe
           /\ \A d \in Calls : (remote'[d] = "idle") <=> (remote[d] = "idle")
           /\ \A d \in Calls \ {c} : remote'[d] = remote[d]
  BY DEF ApiTypeOK, Serve, ServeAdrift, Moves

\* The state of the editor, of its requests and of the server stays typed.
LEMMA EditorTypeStep ==
    ASSUME EditorTypeOK, DraftInv, [Next]_vars
    PROVE  EditorTypeOK'
<1> USE DEF EditorTypeOK
<1>0. ApiTypeOK'
  BY EditorApiType
<1>1. CASE UNCHANGED vars
  BY <1>0, <1>1 DEF vars, saving, presses, view, media
<1>2. CASE Closed /\ cache' \in {cache, "none"}
  BY <1>0, <1>2 DEF Closed, NoLoads, saving, presses
<1>3. ASSUME NEW c \in Calls, SaveStep(c) PROVE EditorTypeOK'
  <2> USE DEF saving, presses, view, media
  <2>1. ASSUME NEW ready \in BOOLEAN, SendButtonPressed(c, ready) PROVE EditorTypeOK'
    <3>1. [text |-> text, image |-> image] \in Drafts
      BY DEF Drafts
    <3>2. draft' \in [Calls -> Drafts]
      BY <2>1, <3>1 DEF SendButtonPressed, Captures
    <3>3. answered' \in [Calls -> SUBSET Calls]
      BY <2>1 DEF SendButtonPressed, Captures
    <3>4. QED
      BY <1>0, <2>1, <3>2, <3>3 DEF SendButtonPressed
  <2>2. ASSUME NEW stored \in BOOLEAN, PutData(c, stored) PROVE EditorTypeOK'
    BY <1>0, <2>2 DEF PutData
  <2>3. CASE DownloadURL(c)
    BY <1>0, <2>3 DEF DownloadURL
  <2>4. CASE RunSave(c) \/ NoDownloadURL(c) \/ AckRow(c) \/ SaveAnswered(c)
    BY <1>0, <2>4 DEF RunSave, NoDownloadURL, AckRow, SaveAnswered
  <2>5. CASE RefuseRow(c)
    BY <1>0, <2>5 DEF RefuseRow, Arrives
  <2>6. CASE ServeRow(c)
    <3>1. RowOf(c) \in Coupons
      BY <2>6, ServedWasFlying, RowOfType DEF ServeRow
    <3>2. rows' \in [Keys -> Coupons \cup {Absent}]
      BY <2>6, <3>1 DEF ServeRow
    <3>3. QED
      BY <1>0, <2>6, <3>2 DEF ServeRow, Arrives
  <2>7. CASE SaveSucceeds(c)
    BY <1>0, <2>7 DEF SaveSucceeds
  <2>8. CASE SaveFails(c)
    BY <1>0, <2>8 DEF SaveFails
  <2>9. QED
    BY <1>3, <2>1, <2>2, <2>3, <2>4, <2>5, <2>6, <2>7, <2>8 DEF SaveStep
<1>4. ASSUME NEW k \in Keys, DeleteElsewhere(k) PROVE EditorTypeOK'
  BY <1>0, <1>4 DEF DeleteElsewhere, presses, view, media
<1>5. CASE ViewStep
  <2> USE DEF saving, presses, view, media
  <2>1. CASE UpdateImage
    <3>1. Lookup \in {"net", "image", "nil"}
      BY DEF Lookup
    <3>2. loads' \in [{"net", "image", "nil"} -> Nat]
      BY <2>1, <3>1 DEF UpdateImage
    <3>3. appears' \in 1..MaxAppears
      BY <2>1, EditorAssumption DEF UpdateImage
    <3>4. QED
      BY <1>0, <2>1, <3>2, <3>3 DEF UpdateImage
  <2>2. ASSUME NEW body \in {"image", "junk", "error"}, MediaAnswers(body)
        PROVE  EditorTypeOK'
    BY <1>0, <2>2 DEF MediaAnswers
  <2>3. CASE Evict
    BY <1>0, <2>3 DEF Evict
  <2>4. ASSUME NEW r \in {"image", "nil"}, ImageLoaded(r) PROVE EditorTypeOK'
    <3>1. loads[r] - 1 \in Nat /\ loads' = [loads EXCEPT ![r] = loads[r] - 1]
      BY <2>4 DEF ImageLoaded
    <3>2. loads' \in [{"net", "image", "nil"} -> Nat] /\ image' \in Images
      BY <2>4, <3>1 DEF ImageLoaded, Images
    <3>3. QED
      BY <1>0, <2>4, <3>2 DEF ImageLoaded
  <2>5. CASE ChangeImageButtonSelected
    BY <1>0, <2>5 DEF ChangeImageButtonSelected
  <2>6. ASSUME NEW photo \in Photos \cup {image}, PickerCloses(photo) PROVE EditorTypeOK'
    BY <1>0, <2>6 DEF PickerCloses, Images
  <2>7. ASSUME NEW t \in Texts \cup {NoText}, TextViewDidChange(t) PROVE EditorTypeOK'
    BY <1>0, <2>7 DEF TextViewDidChange
  <2>8. CASE Back
    BY <1>0, <2>8 DEF Back
  <2>9. CASE Deinit \/ Die
    BY <1>2, <2>9 DEF Deinit, Die
  <2>10. QED
    BY <1>5, <2>1, <2>2, <2>3, <2>4, <2>5, <2>6, <2>7, <2>8, <2>9 DEF ViewStep
<1>6. QED
  BY <1>1, <1>3, <1>4, <1>5 DEF Next

-----------------------------------------------------------------------------
\* A step that touches neither drafts, files, rows nor the outbox, and carries
\* nothing out, keeps everything that is said about saving.
LEMMA SaveFrame ==
    ASSUME EditorTypeOK, SaveInv, SuccessInv', UNCHANGED saving,
           \A c \in Calls : /\ (remote'[c] = "idle") <=> (remote[c] = "idle")
                            /\ Happened(c)' => Happened(c)
    PROVE  SaveInv'
  BY DEF EditorTypeOK, SaveInv, DraftInv, FileInv, StoredInv, RowIsWhole, RowOf,
         saving, presses

\* Taking the first write off the outbox leaves the others.
LEMMA TailOfOutbox ==
    ASSUME outbox \in Seq(Calls), outbox # <<>>, NEW i \in 1..Len(Tail(outbox))
    PROVE  i + 1 \in 1..Len(outbox) /\ Tail(outbox)[i] = outbox[i + 1]
  OBVIOUS

\* What is said about saving is kept by every step.
LEMMA SaveStepInv ==
    ASSUME EditorTypeOK, SaveInv, [Next]_vars
    PROVE  SaveInv'
<1> USE DEF EditorTypeOK
<1>0. SuccessInv'
  BY EditorSuccess DEF SaveInv
<1>1. CASE UNCHANGED vars
  BY <1>0, <1>1, SaveFrame DEF vars, apiVars, Happened
<1>2. ASSUME NEW c \in Calls, SaveStep(c) PROVE SaveInv'
  <2>1. ASSUME NEW ready \in BOOLEAN, SendButtonPressed(c, ready) PROVE SaveInv'
    <3>1. pipe[c] = "idle" /\ remote[c] = "idle" /\ c \notin files
      BY <2>1 DEF SendButtonPressed, Captures, Issue, Reject, ApiTypeOK, SaveInv, FileInv
    <3>2. /\ UNCHANGED <<files, outbox, rows>>
          /\ \A d \in Calls \ {c} : draft'[d] = draft[d] /\ remote'[d] = remote[d]
          /\ remote'[c] \in {"idle", "queued"}
      BY <2>1, <3>1 DEF SendButtonPressed, Captures, presses, Issue, Reject, ApiTypeOK
    <3>3. remote'[c] # "idle" => draft'[c].text \in Texts /\ draft'[c].image # Placeholder
      BY <2>1, <3>1 DEF SendButtonPressed, Captures, presses, Issue, Reject, ApiTypeOK
    <3>4. DraftInv'
      BY <3>2, <3>3 DEF SaveInv, DraftInv
    <3>5. FileInv'
      BY <3>1, <3>2 DEF SaveInv, FileInv
    <3>6. StoredInv'
      BY <3>2 DEF SaveInv, StoredInv, Happened
    <3>7. RowIsWhole'
      BY <3>1, <3>2 DEF SaveInv, RowIsWhole, RowOf
    <3>8. QED
      BY <1>0, <3>4, <3>5, <3>6, <3>7 DEF SaveInv
  <2>2. ASSUME NEW stored \in BOOLEAN, PutData(c, stored) PROVE SaveInv'
    <3>1. /\ UNCHANGED <<remote, draft, outbox, rows>>
          /\ files \subseteq files' /\ files' \subseteq files \cup {c}
          /\ remote[c] = "flying"
      BY <2>2 DEF PutData, presses, apiVars
    <3>2. QED
      BY <1>0, <3>1 DEF SaveInv, DraftInv, FileInv, StoredInv, RowIsWhole, RowOf, Happened
  <2>3. CASE DownloadURL(c)
    <3>1. /\ UNCHANGED <<remote, draft, files, rows>>
          /\ c \in files /\ outbox' = Append(outbox, c)
      BY <2>3 DEF DownloadURL, presses, apiVars
    <3>2. FileInv'
      BY <3>1 DEF SaveInv, FileInv
    <3>3. QED
      BY <1>0, <3>1, <3>2 DEF SaveInv, DraftInv, StoredInv, RowIsWhole, RowOf, Happened
  <2>4. CASE RunSave(c) \/ NoDownloadURL(c) \/ AckRow(c)
    <3>1. UNCHANGED saving
      BY <2>4 DEF RunSave, NoDownloadURL, AckRow
    <3>2. \A d \in Calls : /\ (remote'[d] = "idle") <=> (remote[d] = "idle")
                           /\ Happened(d)' => Happened(d)
      BY <2>4 DEF RunSave, NoDownloadURL, AckRow, Refuse, Reply, Moves, Happened, ApiTypeOK
    <3>3. QED
      BY <1>0, <3>1, <3>2, SaveFrame
  <2>5. CASE SaveAnswered(c) \/ SaveSucceeds(c) \/ SaveFails(c)
    <3>1. UNCHANGED <<saving, remote>>
      BY <2>5 DEF SaveAnswered, Callback, TimeoutFires, SaveSucceeds, DeliverValue,
                  SaveFails, DeliverFailure
    <3>2. QED
      BY <1>0, <3>1, SaveFrame DEF Happened
  <2>6. CASE RefuseRow(c)
    <3>1. /\ UNCHANGED <<draft, files, rows>>
          /\ outbox # <<>> /\ outbox' = Tail(outbox)
      BY <2>6 DEF RefuseRow, Arrives, presses
    <3>2. \A d \in Calls : /\ (remote'[d] = "idle") <=> (remote[d] = "idle")
                           /\ Happened(d)' => Happened(d)
      BY <2>6 DEF RefuseRow, Refuse, Moves, Happened, ApiTypeOK
    <3>3. FileInv'
      BY <3>1, <3>2, TailOfOutbox DEF SaveInv, FileInv
    <3>4. QED
      BY <1>0, <3>1, <3>2, <3>3 DEF SaveInv, DraftInv, StoredInv, RowIsWhole, RowOf
  <2>7. CASE ServeRow(c)
    <3>1. /\ UNCHANGED <<draft, files>>
          /\ outbox # <<>> /\ c = Head(outbox) /\ outbox' = Tail(outbox)
          /\ rows' = [rows EXCEPT ![KeyOf(c)] = RowOf(c)]
          /\ Serve(c) \/ ServeAdrift(c)
      BY <2>7 DEF ServeRow, Arrives, presses
    <3>2. /\ remote[c] # "idle"
          /\ \A d \in Calls : (remote'[d] = "idle") <=> (remote[d] = "idle")
          /\ \A d \in Calls \ {c} : remote'[d] = remote[d]
      BY <3>1, ServedWasFlying
    <3>3. c \in files
      <4>1. outbox[1] = c /\ 1 \in 1..Len(outbox)
        BY <3>1
      <4>2. QED
        BY <4>1 DEF SaveInv, FileInv
    <3>4. RowOf(c) \in Coupons \ {OldRow} /\ KeyOf(c) \in Keys
      BY <3>2, RowOfType, KeyOfType DEF SaveInv
    <3>5. DraftInv'
      BY <3>1, <3>2 DEF SaveInv, DraftInv
    <3>6. FileInv'
      BY <3>1, <3>2, TailOfOutbox DEF SaveInv, FileInv
    <3>7. StoredInv'
      <4>1. \A k \in Keys : rows'[k] = OldRow => rows[k] = OldRow /\ k # KeyOf(c)
        BY <3>1, <3>4
      <4>2. \A d \in Calls \ {c} : Happened(d)' => Happened(d)
        BY <3>2 DEF Happened
      <4>3. \A d \in Calls : KeyOf(d)' = KeyOf(d) /\ KeyOf(d) \in Keys
        BY KeyOfType DEF KeyOf
      <4>4. ASSUME NEW d \in Calls, Happened(d)'
            PROVE  d \in files /\ rows'[KeyOf(d)] # OldRow
        BY <3>1, <3>3, <4>1, <4>2, <4>3, <4>4 DEF SaveInv, StoredInv
      <4>5. QED
        BY <3>1, <4>4 DEF StoredInv, KeyOf, OldRow
    <3>8. RowIsWhole'
      <4>1. ASSUME NEW k \in Keys, rows'[k] \in Coupons \ {OldRow}
            PROVE  \E d \in files : /\ KeyOf(d) = k
                                    /\ rows'[k] = RowOf(d)
                                    /\ draft[d].image # Placeholder
        <5>1. CASE k = KeyOf(c)
          BY <3>1, <3>2, <3>3, <3>4, <5>1 DEF SaveInv, DraftInv
        <5>2. CASE k # KeyOf(c)
          BY <3>1, <3>4, <4>1, <5>2 DEF SaveInv, RowIsWhole
        <5>3. QED
          BY <5>1, <5>2
      <4>2. QED
        BY <3>1, <4>1 DEF RowIsWhole, RowOf, KeyOf, Keys, Coupons, OldRow
    <3>9. QED
      BY <1>0, <3>5, <3>6, <3>7, <3>8 DEF SaveInv
  <2>8. QED
    BY <1>2, <2>1, <2>2, <2>3, <2>4, <2>5, <2>6, <2>7 DEF SaveStep
<1>3. ASSUME NEW k \in Keys, DeleteElsewhere(k) PROVE SaveInv'
  <2>1. /\ UNCHANGED <<remote, draft, files, outbox>>
        /\ rows' = [rows EXCEPT ![k] = Absent]
    BY <1>3 DEF DeleteElsewhere, presses, apiVars
  <2>2. Absent \notin Coupons /\ OldRow \in Coupons
    BY EditorAssumption DEF Coupons, OldRow
  <2>3. \A j \in Keys : rows'[j] \in Coupons => rows'[j] = rows[j]
    BY <2>1, <2>2
  <2>4. StoredInv'
    BY <2>1, <2>2, <2>3, KeyOfType DEF SaveInv, StoredInv, Happened, KeyOf, OldRow
  <2>5. RowIsWhole'
    <3>1. ASSUME NEW j \in Keys, rows'[j] \in Coupons \ {OldRow}
          PROVE  \E d \in files : /\ KeyOf(d) = j
                                  /\ rows'[j] = RowOf(d)
                                  /\ draft[d].image # Placeholder
      BY <2>3, <3>1 DEF SaveInv, RowIsWhole
    <3>2. QED
      BY <2>1, <3>1 DEF RowIsWhole, RowOf, KeyOf, Keys, Coupons, OldRow
  <2>6. QED
    BY <1>0, <2>1, <2>4, <2>5 DEF SaveInv, DraftInv, FileInv
<1>4. CASE ViewStep
  <2>1. UNCHANGED saving
    BY <1>4 DEF ViewStep, UpdateImage, MediaAnswers, Evict, ImageLoaded, Back, Deinit, Die,
       ChangeImageButtonSelected, PickerCloses, TextViewDidChange, Closed
  <2>2. \A d \in Calls : /\ (remote'[d] = "idle") <=> (remote[d] = "idle")
                         /\ Happened(d)' => Happened(d)
    <3>1. CASE Die
      BY <3>1 DEF Die, Kill, Bereft, Happened, ApiTypeOK
    <3>2. CASE ~Die
      <4>1. UNCHANGED remote
        BY <1>4, <3>2 DEF ViewStep, UpdateImage, MediaAnswers, Evict, ImageLoaded,
           Back, Deinit, Release, ChangeImageButtonSelected, PickerCloses, TextViewDidChange,
           apiVars
      <4>2. QED
        BY <4>1 DEF Happened
    <3>3. QED
      BY <3>1, <3>2
  <2>3. QED
    BY <1>0, <2>1, <2>2, SaveFrame
<1>5. QED
  BY <1>1, <1>2, <1>3, <1>4 DEF Next

-----------------------------------------------------------------------------
\* What a step may do to a press that has been made: an outcome is final, what
\* the server has carried out stays so, and the draft no longer changes.
LEMMA PressesSettle ==
    ASSUME EditorTypeOK, [Next]_vars, NEW c \in Calls, remote[c] # "idle"
    PROVE  /\ Over(c) => remote'[c] = remote[c]
           /\ Happened(c) => Happened(c)'
           /\ draft'[c] = draft[c]
<1> USE DEF EditorTypeOK, ApiTypeOK, Over, Happened
<1>1. CASE UNCHANGED <<remote, draft>>
  BY <1>1
<1>2. ASSUME NEW d \in Calls, SaveStep(d)
      PROVE  /\ Over(c) => remote'[c] = remote[c]
             /\ Happened(c) => Happened(c)'
             /\ draft'[c] = draft[c]
  <2>1. ASSUME NEW ready \in BOOLEAN, SendButtonPressed(d, ready)
        PROVE  remote'[c] = remote[c] /\ draft'[c] = draft[c]
    <3>1. c # d
      BY <2>1 DEF SendButtonPressed, Captures, Issue, Reject
    <3>2. QED
      BY <2>1, <3>1 DEF SendButtonPressed, Captures, presses, Issue, Reject
  <2>2. CASE RunSave(d) \/ NoDownloadURL(d) \/ AckRow(d)
    BY <2>2 DEF RunSave, NoDownloadURL, AckRow, Refuse, Reply, Moves, saving, presses
  <2>3. CASE ServeRow(d) \/ RefuseRow(d)
    BY <2>3 DEF ServeRow, RefuseRow, Serve, ServeAdrift, Refuse, Moves, presses
  <2>4. CASE \/ \E stored \in BOOLEAN : PutData(d, stored)
             \/ DownloadURL(d) \/ SaveAnswered(d) \/ SaveSucceeds(d) \/ SaveFails(d)
    BY <1>1, <2>4 DEF PutData, DownloadURL, SaveAnswered, Callback, TimeoutFires,
       SaveSucceeds, DeliverValue, SaveFails, DeliverFailure, apiVars, saving, presses
  <2>5. QED
    BY <1>2, <2>1, <2>2, <2>3, <2>4 DEF SaveStep
<1>3. ASSUME NEW k \in Keys, DeleteElsewhere(k) PROVE UNCHANGED <<remote, draft>>
  BY <1>3 DEF DeleteElsewhere, apiVars, presses
<1>4. CASE Die
  BY <1>4 DEF Die, Kill, Bereft, Closed, saving, presses
<1>5. CASE ViewStep /\ ~Die
  BY <1>1, <1>5 DEF ViewStep, UpdateImage, MediaAnswers, Evict, ImageLoaded, Back, Deinit,
     Release, ChangeImageButtonSelected, PickerCloses, TextViewDidChange, Closed,
     apiVars, saving, presses
<1>6. CASE UNCHANGED vars
  BY <1>1, <1>6 DEF vars, apiVars, saving, presses
<1>7. QED
  BY <1>1, <1>2, <1>3, <1>4, <1>5, <1>6 DEF Next, ViewStep

\* A press that the server carries out in this step.
Lands(c) ==
    /\ ~Over(c) /\ Happened(c)'
    /\ rows' = [rows EXCEPT ![KeyOf(c)] = RowOf(c)]

\* The rows change in two ways only, and a press is carried out in one.
LEMMA RowsChange ==
    ASSUME EditorTypeOK, [Next]_vars
    PROVE  \/ /\ \A k \in Keys : rows'[k] \in {rows[k], Absent}
              /\ \A d \in Calls : Happened(d)' => Happened(d)
           \/ \E c \in Calls : /\ Lands(c)
                               /\ \A d \in Calls \ {c} : Happened(d)' => Happened(d)
<1> USE DEF EditorTypeOK, ApiTypeOK, Happened
<1> DEFINE Kept == /\ UNCHANGED rows
                   /\ \A d \in Calls : Happened(d)' => Happened(d)
<1>1. CASE UNCHANGED <<rows, remote>>
  BY <1>1
<1>2. ASSUME NEW c \in Calls, SaveStep(c), ~ServeRow(c) PROVE Kept
  <2>1. ASSUME NEW ready \in BOOLEAN, SendButtonPressed(c, ready) PROVE Kept
    BY <2>1 DEF SendButtonPressed, Captures, Issue, Reject
  <2>2. CASE RunSave(c) \/ NoDownloadURL(c) \/ AckRow(c) \/ RefuseRow(c)
    BY <2>2 DEF RunSave, NoDownloadURL, AckRow, RefuseRow, Refuse, Reply, Moves, saving
  <2>3. CASE \/ \E stored \in BOOLEAN : PutData(c, stored)
             \/ DownloadURL(c) \/ SaveAnswered(c) \/ SaveSucceeds(c) \/ SaveFails(c)
    BY <1>1, <2>3 DEF PutData, DownloadURL, SaveAnswered, Callback, TimeoutFires,
       SaveSucceeds, DeliverValue, SaveFails, DeliverFailure, apiVars, saving
  <2>4. QED
    BY <1>2, <2>1, <2>2, <2>3 DEF SaveStep
<1>3. ASSUME NEW c \in Calls, ServeRow(c)
      PROVE  Lands(c) /\ \A d \in Calls \ {c} : Happened(d)' => Happened(d)
  BY <1>3 DEF ServeRow, Serve, ServeAdrift, Moves, Lands, Over
<1>4. ASSUME NEW k \in Keys, DeleteElsewhere(k)
      PROVE  UNCHANGED remote /\ \A j \in Keys : rows'[j] \in {rows[j], Absent}
  BY <1>4 DEF DeleteElsewhere, apiVars
<1>5. CASE Die
  BY <1>5 DEF Die, Kill, Bereft, Closed, saving
<1>6. CASE ViewStep /\ ~Die
  BY <1>1, <1>6 DEF ViewStep, UpdateImage, MediaAnswers, Evict, ImageLoaded, Back, Deinit,
     Release, ChangeImageButtonSelected, PickerCloses, TextViewDidChange, Closed,
     apiVars, saving
<1>7. CASE UNCHANGED vars
  BY <1>1, <1>7 DEF vars, apiVars, saving
<1>8. QED
  BY <1>1, <1>2, <1>3, <1>4, <1>5, <1>6, <1>7 DEF Next, ViewStep

\* Only a press notes which others are over.
LEMMA PressesNote ==
    ASSUME EditorTypeOK, [Next]_vars, NEW d \in Calls
    PROVE  \/ answered'[d] = answered[d]
           \/ /\ remote[d] = "idle" /\ remote'[d] = "queued"
              /\ answered'[d] = {c \in Calls : Over(c)}
<1> USE DEF EditorTypeOK, ApiTypeOK
<1>1. CASE UNCHANGED answered
  BY <1>1
<1>2. ASSUME NEW c \in Calls, NEW ready \in BOOLEAN, SendButtonPressed(c, ready)
      PROVE  \/ answered'[d] = answered[d]
             \/ /\ remote[d] = "idle" /\ remote'[d] = "queued"
                /\ answered'[d] = {e \in Calls : Over(e)}
  BY <1>2 DEF SendButtonPressed, Captures, Issue, presses
<1>3. ASSUME NEW c \in Calls, SaveStep(c), ~ \E ready \in BOOLEAN : SendButtonPressed(c, ready)
      PROVE  UNCHANGED answered
  BY <1>3 DEF SaveStep, RunSave, PutData, DownloadURL, NoDownloadURL, ServeRow, RefuseRow,
     AckRow, SaveAnswered, SaveSucceeds, SaveFails, saving, presses
<1>4. ASSUME NEW k \in Keys, DeleteElsewhere(k) PROVE UNCHANGED answered
  BY <1>4 DEF DeleteElsewhere, presses
<1>5. CASE ViewStep
  BY <1>1, <1>5 DEF ViewStep, UpdateImage, MediaAnswers, Evict, ImageLoaded, Back, Deinit,
     Die, ChangeImageButtonSelected, PickerCloses, TextViewDidChange, Closed, saving, presses
<1>6. CASE UNCHANGED vars
  BY <1>1, <1>6 DEF vars, saving, presses
<1>7. QED
  BY <1>1, <1>2, <1>3, <1>4, <1>5, <1>6 DEF Next

\* A press that was over when another was made is never written again.
LEMMA RetryStep ==
    ASSUME EditorTypeOK, SaveInv, RetryInv, [Next]_vars
    PROVE  RetryInv'
<1> USE DEF EditorTypeOK
<1>0. Absent \notin Coupons /\ \A c \in Calls : KeyOf(c) \in Keys
  BY EditorAssumption, KeyOfType DEF Coupons
<1>1. \A c \in Calls : Over(c) => remote[c] # "idle" /\ Over(c)' /\ remote'[c] = remote[c]
  BY PressesSettle DEF Over
<1>2. \A c \in Calls : Over(c) => RowOf(c)' = RowOf(c) /\ RowOf(c) \in Coupons /\ RowOf(c).image = c
  BY <1>1, PressesSettle, RowOfType DEF RowOf, SaveInv
<1>3. \A c \in Calls : Happened(c) => Happened(c)'
  BY PressesSettle DEF Happened
<1>4. AnsweredInv'
  <2>1. ASSUME NEW d \in Calls, NEW c \in answered'[d] PROVE c # d /\ Over(c) /\ Over(c)'
    <3>1. c \in Calls
      BY PressesNote
    <3>2. CASE answered'[d] = answered[d]
      BY <1>1, <2>1, <3>1, <3>2 DEF RetryInv, AnsweredInv
    <3>3. CASE remote[d] = "idle" /\ answered'[d] = {e \in Calls : Over(e)}
      BY <1>1, <2>1, <3>1, <3>3
    <3>4. QED
      BY <3>2, <3>3, PressesNote
  <2>2. QED
    BY <2>1 DEF AnsweredInv
<1>5. ASSUME NEW c \in Calls, Lands(c)
      PROVE  \A k \in Keys : rows'[k] = IF k = KeyOf(c) THEN RowOf(c) ELSE rows[k]
  BY <1>5 DEF Lands
<1>6. WrittenInv'
  <2>1. ASSUME NEW k \in Keys, NEW c \in Calls, rows'[k] \in Coupons, rows'[k].image = c
        PROVE  Happened(c)'
    <3>1. CASE rows'[k] = rows[k]
      BY <1>3, <2>1, <3>1 DEF RetryInv, WrittenInv
    <3>2. ASSUME NEW d \in Calls, Lands(d), rows'[k] = RowOf(d) PROVE Happened(c)'
      BY <2>1, <3>2 DEF RowOf, Lands
    <3>3. QED
      BY <1>0, <1>5, <2>1, <3>1, <3>2, RowsChange
  <2>2. QED
    BY <2>1 DEF WrittenInv, Keys, Coupons
\* A row that belongs to a press that was over was there before the step.
<1>7. ASSUME NEW c \in Calls, Over(c), NEW k \in Keys, rows'[k] = RowOf(c)
      PROVE  rows[k] = RowOf(c) /\ Happened(c) /\ \A d \in Calls : Lands(d) => k # KeyOf(d)
  <2>1. ASSUME NEW d \in Calls, Lands(d) PROVE rows'[k] = rows[k] /\ k # KeyOf(d)
    <3>1. c # d
      BY <1>7, <2>1 DEF Lands
    <3>2. RowOf(d).image = d /\ RowOf(c).image = c
      BY DEF RowOf
    <3>3. k # KeyOf(d)
      BY <1>5, <1>7, <2>1, <3>1, <3>2
    <3>4. QED
      BY <1>5, <2>1, <3>3
  <2>2. rows[k] = RowOf(c)
    BY <1>0, <1>2, <1>7, <2>1, RowsChange
  <2>3. QED
    BY <1>2, <1>7, <2>1, <2>2 DEF RetryInv, WrittenInv
<1>8. RetryIsSafe'
  <2>1. ASSUME NEW d \in Calls, NEW c \in answered'[d]
        PROVE  /\ c \in Calls /\ Over(c)
               /\ c \in answered[d] \/ (remote[d] = "idle" /\ remote'[d] = "queued")
    BY <2>1, PressesNote DEF RetryInv, AnsweredInv
  <2>2. ASSUME NEW d \in Calls, NEW c \in answered'[d], Happened(d)'
        PROVE  rows'[KeyOf(d)] # RowOf(c)
    <3>1. c \in answered[d] /\ c \in Calls /\ Over(c)
      BY <2>1, <2>2 DEF Happened
    <3>2. SUFFICES ASSUME rows'[KeyOf(d)] = RowOf(c) PROVE FALSE
      OBVIOUS
    <3>3. rows[KeyOf(d)] = RowOf(c) /\ ~Lands(d)
      BY <1>0, <1>7, <3>1, <3>2
    <3>4. Happened(d)
      BY <2>2, <3>3, RowsChange
    <3>5. QED
      BY <3>1, <3>3, <3>4 DEF RetryInv, RetryIsSafe
  <2>3. ASSUME NEW d \in Calls, NEW c \in answered'[d], remote'[c] = "refused", NEW k \in Keys
        PROVE  rows'[k] # RowOf(c)
    <3>1. c \in Calls /\ Over(c) /\ ~Happened(c)
      BY <1>1, <2>1, <2>3 DEF Happened
    <3>2. QED
      BY <1>7, <3>1
  <2>4. \A d \in Calls : \A c \in answered'[d] : RowOf(c)' = RowOf(c)
    BY <1>2, <2>1
  <2>5. QED
    BY <2>2, <2>3, <2>4 DEF RetryIsSafe, KeyOf, Keys
<1>9. QED
  BY <1>4, <1>6, <1>8 DEF RetryInv

-----------------------------------------------------------------------------
\* Before any press and any return to the tab, the one image request and the
\* spinner come and go together.
LEMMA QuietStep ==
    ASSUME EditorTypeOK, QuietInv, [Next]_vars
    PROVE  QuietInv'
<1> USE DEF EditorTypeOK
<1> DEFINE One == {[NoLoads EXCEPT ![r] = 1] : r \in {"net", "image", "nil"}}
<1>1. SUFFICES ASSUME Quiet'
               PROVE  \/ loads' = NoLoads
                      \/ /\ loads' \in One
                         /\ isShowLoading' /\ ~picker' /\ image' \notin Photos
  BY DEF QuietInv, NoLoads
<1>2. CASE UNCHANGED <<pipe, loads, appears, isShowLoading, picker, image>>
  BY <1>1, <1>2 DEF QuietInv, Quiet
<1>3. CASE loads' = NoLoads
  BY <1>3
<1>4. ASSUME NEW c \in Calls, SaveStep(c)
      PROVE  UNCHANGED <<pipe, loads, appears, isShowLoading, picker, image>>
  <2>1. pipe'[c] = "idle"
    BY <1>1 DEF Quiet
  <2>2. ~ \E ready \in BOOLEAN : SendButtonPressed(c, ready)
    BY <2>1 DEF SendButtonPressed, Captures, Issue, Reject, ApiTypeOK
  <2>3. ~ SaveAnswered(c) /\ ~ SaveFails(c)
    BY <2>1 DEF SaveAnswered, Callback, TimeoutFires, SaveFails, DeliverFailure, ApiTypeOK
  <2>4. ~ SaveSucceeds(c)
    BY <2>1 DEF SaveSucceeds, DeliverValue, Cancelled, ApiTypeOK
  <2>5. QED
    BY <1>4, <2>2, <2>3, <2>4
    DEF SaveStep, RunSave, PutData, DownloadURL, NoDownloadURL, ServeRow, RefuseRow,
        AckRow, Serve, ServeAdrift, Refuse, Reply, Moves, apiVars, view, media
<1>5. ASSUME NEW k \in Keys, DeleteElsewhere(k)
      PROVE  UNCHANGED <<pipe, loads, appears, isShowLoading, picker, image>>
  BY <1>5 DEF DeleteElsewhere, apiVars, view, media
<1>6. CASE Deinit \/ Die
  BY <1>6 DEF Deinit, Die, Closed
<1>7. CASE ViewStep /\ ~Deinit /\ ~Die
  <2>1. UNCHANGED pipe
    BY <1>7 DEF ViewStep, UpdateImage, MediaAnswers, Evict, ImageLoaded, PickerCloses,
        ChangeImageButtonSelected, TextViewDidChange, Back, apiVars
  <2>2. ~UpdateImage
    BY <1>1 DEF UpdateImage, Quiet
  <2>3. UNCHANGED appears
    BY <1>7, <2>2 DEF ViewStep, MediaAnswers, Evict, ImageLoaded, PickerCloses,
        ChangeImageButtonSelected, TextViewDidChange, Back, media
  <2>4. Quiet
    BY <1>1, <2>1, <2>3 DEF Quiet
  <2>5. CASE loads = NoLoads
    <3>1. UNCHANGED loads
      BY <1>7, <2>2, <2>5 DEF ViewStep, MediaAnswers, Evict, ImageLoaded, PickerCloses,
          ChangeImageButtonSelected, TextViewDidChange, Back, media, NoLoads
    <3>2. QED
      BY <2>5, <3>1
  <2>6. CASE loads \in One /\ isShowLoading /\ ~picker /\ image \notin Photos
    <3>0. PICK q \in {"net", "image", "nil"} : loads = [NoLoads EXCEPT ![q] = 1]
      BY <2>6
    <3>1. ASSUME NEW body \in {"image", "junk", "error"}, MediaAnswers(body)
          PROVE  loads' \in One /\ UNCHANGED view
      <4> DEFINE r == IF body = "image" THEN "image" ELSE "nil"
      <4>1. q = "net"
        BY <3>0, <3>1 DEF MediaAnswers, NoLoads
      <4>2. loads' = [loads EXCEPT !["net"] = loads["net"] - 1, ![r] = loads[r] + 1]
        BY <3>1 DEF MediaAnswers
      <4>3. r \in {"image", "nil"} /\ loads["net"] - 1 = 0 /\ loads[r] + 1 = 1
        BY <3>0, <4>1 DEF NoLoads
      <4>4. loads' = [NoLoads EXCEPT ![r] = 1]
        BY <3>0, <4>1, <4>2, <4>3 DEF NoLoads
      <4>5. QED
        BY <3>1, <4>3, <4>4 DEF MediaAnswers
    <3>2. ASSUME NEW r \in {"image", "nil"}, ImageLoaded(r) PROVE loads' = NoLoads
      <4>1. q = r /\ loads' = [loads EXCEPT ![r] = loads[r] - 1]
        BY <3>0, <3>2 DEF ImageLoaded, NoLoads
      <4>2. loads[r] - 1 = 0
        BY <3>0, <4>1 DEF NoLoads
      <4>3. QED
        BY <3>0, <4>1, <4>2 DEF NoLoads
    <3>3. QED
      BY <1>7, <2>2, <2>6, <3>1, <3>2 DEF ViewStep, Evict, PickerCloses,
          ChangeImageButtonSelected, TextViewDidChange, Back, media, view
  <2>7. QED
    BY <2>4, <2>5, <2>6 DEF QuietInv
<1>8. CASE UNCHANGED vars
  BY <1>2, <1>8 DEF vars, apiVars, view, media
<1>9. QED
  BY <1>2, <1>3, <1>4, <1>5, <1>6, <1>7, <1>8 DEF Next, ViewStep

-----------------------------------------------------------------------------
\* The spinner goes on with a request or a press, and off with any outcome.
LEMMA SpinnerStep ==
    ASSUME EditorTypeOK, EditorSpinnerIsTrue, [Next]_vars
    PROVE  EditorSpinnerIsTrue'
<1> USE DEF EditorTypeOK
<1>1. CASE isShowLoading' = FALSE
  BY <1>1 DEF EditorSpinnerIsTrue
<1>2. ASSUME UNCHANGED <<isShowLoading, loads>>,
             \A c \in Calls : pipe[c] \in Unsettled => pipe'[c] \in Unsettled
      PROVE  EditorSpinnerIsTrue'
  BY <1>2 DEF EditorSpinnerIsTrue, NoLoads
<1>3. ASSUME NEW c \in Calls, SaveStep(c) PROVE EditorSpinnerIsTrue'
  <2>1. ASSUME NEW ready \in BOOLEAN, SendButtonPressed(c, ready) PROVE EditorSpinnerIsTrue'
    <3>1. pipe'[c] \in Unsettled
      BY <2>1 DEF SendButtonPressed, Captures, Issue, Reject, ApiTypeOK, Unsettled
    <3>2. QED
      BY <3>1 DEF EditorSpinnerIsTrue
  <2>2. CASE SaveAnswered(c)
    <3>1. /\ \A d \in Calls : pipe[d] \in Unsettled => pipe'[d] \in Unsettled
          /\ UNCHANGED <<isShowLoading, loads>>
      BY <2>2 DEF SaveAnswered, Callback, TimeoutFires, ApiTypeOK, Unsettled, view, media
    <3>2. QED
      BY <1>2, <3>1
  <2>3. CASE SaveSucceeds(c) \/ SaveFails(c)
    BY <1>1, <2>3 DEF SaveSucceeds, SaveFails
  <2>4. CASE UNCHANGED <<pipe, isShowLoading, loads>>
    BY <1>2, <2>4
  <2>5. QED
    BY <1>3, <2>1, <2>2, <2>3, <2>4
    DEF SaveStep, RunSave, PutData, DownloadURL, NoDownloadURL, ServeRow, RefuseRow,
        AckRow, Serve, ServeAdrift, Refuse, Reply, Moves, apiVars, view, media
<1>4. ASSUME NEW k \in Keys, DeleteElsewhere(k) PROVE EditorSpinnerIsTrue'
  BY <1>2, <1>4 DEF DeleteElsewhere, apiVars, view, media
<1>5. CASE ViewStep
  <2>1. CASE UpdateImage
    <3>1. Lookup \in {"net", "image", "nil"}
      BY DEF Lookup
    <3>2. loads'[Lookup] = loads[Lookup] + 1 /\ loads[Lookup] \in Nat
      BY <2>1, <3>1 DEF UpdateImage
    <3>3. loads' # NoLoads
      BY <3>1, <3>2 DEF NoLoads
    <3>4. QED
      BY <3>3 DEF EditorSpinnerIsTrue, NoLoads
  <2>2. ASSUME NEW body \in {"image", "junk", "error"}, MediaAnswers(body)
        PROVE  EditorSpinnerIsTrue'
    <3> DEFINE r == IF body = "image" THEN "image" ELSE "nil"
    <3>1. loads'[r] = loads[r] + 1 /\ loads[r] \in Nat /\ r \in {"net", "image", "nil"}
      BY <2>2 DEF MediaAnswers
    <3>2. loads' # NoLoads
      BY <3>1 DEF NoLoads
    <3>3. QED
      BY <3>2 DEF EditorSpinnerIsTrue, NoLoads
  <2>3. CASE (\E r \in {"image", "nil"} : ImageLoaded(r)) \/ Deinit \/ Die
    BY <1>1, <2>3 DEF ImageLoaded, Deinit, Die, Closed
  <2>4. CASE UNCHANGED <<pipe, isShowLoading, loads>>
    BY <1>2, <2>4
  <2>5. QED
    BY <1>5, <2>1, <2>2, <2>3, <2>4 DEF ViewStep, Evict, ChangeImageButtonSelected,
       PickerCloses, TextViewDidChange, Back, apiVars, view, media
<1>6. CASE UNCHANGED vars
  BY <1>2, <1>6 DEF vars, apiVars, view, media
<1>7. QED
  BY <1>3, <1>4, <1>5, <1>6 DEF Next

-----------------------------------------------------------------------------
LEMMA EditorInitInv == Init => EditorInv
<1> SUFFICES ASSUME Init PROVE EditorInv
  OBVIOUS
<1> USE EditorAssumption DEF Init, ApiInit
<1>1. Lookup \in {"net", "image", "nil"}
  BY DEF Lookup
<1>2. EditorTypeOK
  <2>1. ApiTypeOK
    BY DEF ApiTypeOK, Remotes, Pipes
  <2>2. NoDraft \in Drafts /\ OldRow \in Coupons /\ outbox \in Seq(Calls)
    BY DEF NoDraft, Drafts, Images, OldRow, Coupons
  <2>3. loads \in [{"net", "image", "nil"} -> Nat]
    BY <1>1 DEF NoLoads
  <2>4. draft \in [Calls -> Drafts] /\ rows \in [Keys -> Coupons \cup {Absent}]
    BY <2>2
  <2>5. stage \in [Calls -> {"none", "put", "row"}] /\ files \subseteq Calls
    OBVIOUS
  <2>6. text \in Texts \cup {NoText} /\ image \in Images /\ appears \in 1..MaxAppears
    BY DEF Images
  <2>7. /\ isShowLoading \in BOOLEAN /\ picker \in BOOLEAN 
        /\ place \in {"pushed", "popped", "gone"} /\ cache \in {"none", "image"}
        /\ answered \in [Calls -> SUBSET Calls]
    OBVIOUS
  <2>8. QED
    BY <2>1, <2>2, <2>3, <2>4, <2>5, <2>6, <2>7 DEF EditorTypeOK
<1>3. SaveInv
  <2>1. Absent \notin Coupons
    BY DEF Coupons
  <2>2. RowIsWhole
    BY <2>1 DEF RowIsWhole
  <2>3. QED
    BY <2>2 DEF SaveInv, DraftInv, FileInv, StoredInv, SuccessInv, Happened
<1>4. RetryInv
  <2>1. Absent \notin Coupons /\ OldRow.image = Original
    BY DEF Coupons, OldRow
  <2>2. WrittenInv
    BY <2>1 DEF WrittenInv
  <2>3. QED
    BY <2>2 DEF RetryInv, AnsweredInv, RetryIsSafe
<1>5. QuietInv
  BY <1>1 DEF QuietInv
<1>6. EditorSpinnerIsTrue
  <2>1. loads[Lookup] = 1 /\ NoLoads[Lookup] = 0
    BY <1>1 DEF NoLoads
  <2>2. QED
    BY <2>1 DEF EditorSpinnerIsTrue
<1>7. QED
  BY <1>2, <1>3, <1>4, <1>5, <1>6 DEF EditorInv

LEMMA EditorInvStep ==
    ASSUME EditorInv, [Next]_vars
    PROVE  EditorInv'
<1>1. EditorTypeOK'
  BY EditorTypeStep DEF EditorInv, SaveInv
<1>2. SaveInv' /\ RetryInv' /\ QuietInv' /\ EditorSpinnerIsTrue'
  BY SaveStepInv, RetryStep, QuietStep, SpinnerStep DEF EditorInv
<1>3. QED
  BY <1>1, <1>2 DEF EditorInv

\* The inductive invariant of the editor.
THEOREM EditorInvariant == Spec => []EditorInv
<1>1. Init => EditorInv
  BY EditorInitInv
<1>2. EditorInv /\ [Next]_vars => EditorInv'
  BY EditorInvStep
<1>3. QED
  BY <1>1, <1>2, PTL DEF Spec

\* The editor's state is well formed; in particular every row that
\* updateCoupon writes is a coupon with a text and an image.
THEOREM EditorTypeCorrect == Spec => []EditorTypeOK
<1>1. EditorInv => EditorTypeOK
  BY DEF EditorInv
<1>2. QED
  BY <1>1, EditorInvariant, PTL

\* updateCoupon never leaves half a coupon behind.
THEOREM RowsAreWhole == Spec => []RowIsWhole
<1>1. EditorInv => RowIsWhole
  BY DEF EditorInv, SaveInv
<1>2. QED
  BY <1>1, EditorInvariant, PTL

\* A press made after another was over is safe from it: the earlier row does
\* not come back over its own, and a refused one does not turn up at all.
THEOREM RetriesAreSafe == Spec => []RetryIsSafe
<1>1. EditorInv => RetryIsSafe
  BY DEF EditorInv, RetryInv
<1>2. QED
  BY <1>1, EditorInvariant, PTL

\* An editor that closes on a success has replaced the old coupon.
THEOREM SavesAreStored == Spec => []SavedMeansStored
<1>1. EditorInv => SavedMeansStored
  BY DEF EditorInv, SaveInv, SuccessInv, StoredInv, Happened, SavedMeansStored
<1>2. QED
  BY <1>1, EditorInvariant, PTL

\* Without a press and without leaving the tab, no late image of the coupon
\* replaces the photo that the user picked.
THEOREM PicksAreSafe == Spec => []PickIsSafe
<1>1. EditorInv => PickIsSafe
  <2>1. ASSUME EditorInv, Quiet, loads # NoLoads PROVE image \notin Photos
    BY <2>1 DEF EditorInv, QuietInv
  <2>2. ASSUME EditorInv, ~ (appears > 1), \A c \in Calls : pipe[c] = "idle" PROVE Quiet
    BY <2>2, EditorAssumption DEF EditorInv, EditorTypeOK, Quiet
  <2>3. QED
    BY <2>1, <2>2 DEF PickIsSafe
<1>2. QED
  BY <1>1, EditorInvariant, PTL

\* The one isShowLoading that image loads and saves share is never left on when
\* neither is under way, in whatever order they end.
THEOREM EditorSpinnerIsHonest == Spec => []EditorSpinnerIsTrue
<1>1. EditorInv => EditorSpinnerIsTrue
  BY DEF EditorInv
<1>2. QED
  BY <1>1, EditorInvariant, PTL
=============================================================================
