------------------------ MODULE PairCoupons_proofs -------------------------
(***************************************************************************)
(* Proofs about the pair's tab, for any people, texts, taps and bounds.    *)
(* What the properties need beyond themselves: ChainInv, whatever a chain  *)
(* carries was a pair id of the profile since the launch, and a valid path *)
(* once it has been used as one; TapInv, so was the owner of a tapped      *)
(* coupon, and the address a tap found is that person's; MailInv, the      *)
(* store of a composer on its way, and the mail of one on the screen, are  *)
(* those of one finished tap.                                              *)
(***************************************************************************)
EXTENDS PairCoupons, TLAPS

Answering == {"gotProfile", "queued", "email", "gotEmail", "listing", "mailed"}
Located   == {"email", "gotEmail", "listing", "mailed"}
Aiming    == {"profile", "gotProfile", "queued", "email", "gotEmail", "mailed"}

ChainInv ==
    \A ch \in Chains :
        /\ got[ch] # Nil => got[ch].pairUniqId \in past
        /\ step[ch] \in Answering => got[ch] # Nil
        /\ step[ch] \in Located => got[ch].pairUniqId \in People

TapInv ==
    \A t \in Taps :
        /\ aim[t] # Nil => aim[t].owner \in past
        /\ step[t] \in Aiming => aim[t] # Nil
        /\ step[t] \in {"gotEmail", "mailed"} =>
              got[t].email \in (past \cap People) \cup {NoText, Nil}

PastInv ==
    /\ pairId # Nil => pairId \in past
    /\ shown # Nil => shown \in past

\* Tap t has been handed to the composer as mail m.
Handed(t, m) ==
    step[t] = "mailed" /\ aim[t] = m.body /\ got[t].email \in {m.to, Nil}

MailInv ==
    /\ store.to \in past \cup {NoText} /\ mail.to \in past \cup {NoText}
    /\ composer = "coming" => \E t \in Taps : Handed(t, store)
    /\ composer = "up" => \E t \in Taps : Handed(t, mail)

PairInv ==
    /\ PairTypeOK /\ ChainInv /\ TapInv /\ PastInv /\ MailInv /\ CrashNeedsBadId

\* The sets of the type invariant are apart.
LEMMA Apart ==
    /\ \A t \in Taps : t # List /\ t \in Chains
    /\ List \in Chains
    /\ Nil \notin People /\ Malformed \notin People /\ Malformed # Nil
    /\ Nil \notin Coupons
    /\ NoMail \in Mails /\ NoMail.to = NoText
  BY PairAssumption DEF Taps, Chains, Coupons, NoMail, Mails, Addresses

-----------------------------------------------------------------------------
\* The state of a view model that has just been made.
Blank ==
    /\ step = [ch \in Chains |-> IF ch = List THEN "profile" ELSE "idle"]
    /\ got = [ch \in Chains |-> Nil]
    /\ aim = [t \in Taps |-> Nil]
    /\ shown = Nil /\ isShowLoading = TRUE
    /\ store = NoMail
    /\ composer = "none" /\ mail = NoMail
    /\ alive = TRUE /\ crashed = FALSE

LEMMA BlankInv ==
    ASSUME Blank,
           pairId \in People \cup {Malformed, Nil}, past = Known(pairId),
           address \in [People -> Addresses \cup {Nil}], OwnAddresses,
           saves \in 0..MaxSaves, launches \in 0..MaxLaunches
    PROVE  PairInv
<1>1. PairTypeOK
  BY Apart DEF Blank, PairTypeOK, Known, UserInfos, UnderWay, Asking, Final
<1>2. ChainInv /\ TapInv
  BY Apart DEF Blank, ChainInv, TapInv, Answering, Located, Aiming
<1>3. PastInv /\ MailInv /\ CrashNeedsBadId
  BY Apart DEF Blank, PastInv, MailInv, CrashNeedsBadId, Known
<1>4. QED
  BY <1>1, <1>2, <1>3 DEF PairInv

LEMMA PairInitInv == ASSUME Init PROVE PairInv
<1>1. Blank
  BY DEF Init, Blank
<1>2. saves \in 0..MaxSaves /\ launches \in 0..MaxLaunches
  BY PairAssumption DEF Init
<1>3. QED
  BY <1>1, <1>2, BlankInv DEF Init

\* Launching starts over, with the pair id of the moment.
LEMMA LaunchInv ==
    ASSUME PairInv, Launch
    PROVE  PairInv'
<1>1. PairTypeOK'
  <2>1. launches' \in 0..MaxLaunches
    BY PairAssumption DEF PairInv, PairTypeOK, Launch
  <2>2. OwnAddresses'
    BY DEF PairInv, PairTypeOK, Launch, OwnAddresses
  <2>3. QED
    BY <2>1, <2>2, Apart DEF PairInv, PairTypeOK, Launch, Fresh, Known, UserInfos,
       UnderWay, Asking, Final
<1>2. ChainInv' /\ TapInv'
  BY Apart DEF Launch, Fresh, ChainInv, TapInv, Answering, Located, Aiming
<1>3. PastInv' /\ MailInv' /\ CrashNeedsBadId'
  BY Apart DEF Launch, Fresh, PastInv, MailInv, CrashNeedsBadId, Known
<1>4. QED
  BY <1>1, <1>2, <1>3 DEF PairInv

\* What is left when the view model has gone says nothing any more.
LEMMA GoneInv ==
    ASSUME PairInv, Gone, crashed' \in BOOLEAN, crashed' => Malformed \in past
    PROVE  PairInv'
<1>1. PairTypeOK'
  BY Apart DEF PairInv, PairTypeOK, Gone, profile, UserInfos, UnderWay, Asking,
     Final, OwnAddresses
<1>2. ChainInv' /\ TapInv'
  BY Apart DEF Gone, ChainInv, TapInv, Answering, Located, Aiming
<1>3. PastInv' /\ MailInv' /\ CrashNeedsBadId'
  BY Apart DEF PairInv, Gone, profile, PastInv, MailInv, CrashNeedsBadId
<1>4. QED
  BY <1>1, <1>2, <1>3 DEF PairInv

\* An id that is refused as a path was saved malformed.
LEMMA CrashInv ==
    ASSUME PairInv, NEW ch \in Chains, got[ch] # Nil,
           ~ValidPath(got[ch].pairUniqId), Crash
    PROVE  PairInv'
<1>1. got[ch].pairUniqId \in past /\ past \subseteq People \cup {Malformed}
  BY DEF PairInv, ChainInv, PairTypeOK
<1>2. Malformed \in past
  BY <1>1 DEF ValidPath
<1>3. QED
  BY <1>2, GoneInv DEF Crash

-----------------------------------------------------------------------------
(* Saved profiles.                                                         *)

LEMMA SaveProfileInv ==
    ASSUME PairInv, NEW id \in People \cup {Malformed, NoText}, SaveProfile(id)
    PROVE  PairInv'
<1> USE DEF PairInv, SaveProfile, chains, screen, process
<1>1. PairTypeOK'
  <2>1. saves' \in 0..MaxSaves
    BY PairAssumption DEF PairTypeOK
  <2>2. OwnAddresses'
    BY DEF PairTypeOK, OwnAddresses
  <2>3. QED
    BY <2>1, <2>2 DEF PairTypeOK
<1>2. ChainInv' /\ TapInv'
  BY DEF ChainInv, TapInv
<1>3. PastInv' /\ CrashNeedsBadId'
  BY DEF PastInv, CrashNeedsBadId
<1>4. MailInv'
  BY DEF MailInv, Handed
<1>5. QED
  BY <1>1, <1>2, <1>3, <1>4

LEMMA SaveAddressInv ==
    ASSUME PairInv, NEW p \in People, NEW a \in {p, NoText}, SaveAddress(p, a)
    PROVE  PairInv'
<1> USE DEF PairInv, SaveAddress, chains, screen, process
<1>1. PairTypeOK'
  <2>1. saves' \in 0..MaxSaves
    BY PairAssumption DEF PairTypeOK
  <2>2. OwnAddresses' /\ address' \in [People -> Addresses \cup {Nil}]
    BY DEF PairTypeOK, OwnAddresses, Addresses
  <2>3. QED
    BY <2>1, <2>2 DEF PairTypeOK
<1>2. ChainInv' /\ TapInv' /\ PastInv' /\ CrashNeedsBadId'
  BY DEF ChainInv, TapInv, PastInv, CrashNeedsBadId
<1>3. MailInv'
  BY DEF MailInv, Handed
<1>4. QED
  BY <1>1, <1>2, <1>3

-----------------------------------------------------------------------------
(* A step of one chain that is not about the mail leaves the finished taps *)
(* and the composer alone.                                                 *)

LEMMA MailKept ==
    ASSUME PairInv, UNCHANGED <<past, store, composer, mail>>,
           \A t \in Taps : step[t] = "mailed" =>
               step'[t] = "mailed" /\ aim'[t] = aim[t] /\ got'[t] = got[t]
    PROVE  MailInv'
  BY DEF PairInv, MailInv, Handed

LEMMA UserInfoAnswersInv ==
    ASSUME PairInv, NEW ch \in Chains, UserInfoAnswers(ch)
    PROVE  PairInv'
<1> USE DEF PairInv, UserInfoAnswers, Goes, screen, profile, process
<1>1. PairTypeOK'
  <2>1. [pairUniqId |-> pairId, email |-> Me] \in UserInfos
    BY DEF PairTypeOK, UserInfos
  <2>2. step' \in [Chains -> UnderWay \cup Final \cup {"idle", "listing"}]
    BY DEF PairTypeOK, UnderWay
  <2>3. OwnAddresses'
    BY DEF PairTypeOK, OwnAddresses
  <2>4. QED
    BY <2>1, <2>2, <2>3 DEF PairTypeOK
<1>2. ChainInv'
  <2>1. [pairUniqId |-> pairId, email |-> Me] \in UserInfos \ {Nil}
    BY PairAssumption DEF PairTypeOK, UserInfos
  <2>2. QED
    BY <2>1 DEF ChainInv, PairTypeOK, PastInv, Answering, Located
<1>3. TapInv'
  BY Apart DEF TapInv, PairTypeOK, Aiming
<1>4. MailInv'
  BY MailKept, Apart DEF PairTypeOK
<1>5. PastInv' /\ CrashNeedsBadId'
  BY DEF PastInv, CrashNeedsBadId
<1>6. QED
  BY <1>1, <1>2, <1>3, <1>4, <1>5

LEMMA TimesOutInv ==
    ASSUME PairInv, NEW ch \in Chains, TimesOut(ch)
    PROVE  PairInv'
<1> USE DEF PairInv, TimesOut, screen, profile, process
<1>1. PairTypeOK'
  <2>1. step' \in [Chains -> UnderWay \cup Final \cup {"idle", "listing"}]
    BY DEF PairTypeOK, UnderWay
  <2>2. OwnAddresses'
    BY DEF PairTypeOK, OwnAddresses
  <2>3. got' \in [Chains -> UserInfos \cup {Nil}] /\ aim' \in [Taps -> Coupons \cup {Nil}]
    BY DEF PairTypeOK, UserInfos
  <2>4. QED
    BY <2>1, <2>2, <2>3 DEF PairTypeOK
<1>2. ChainInv'
  BY DEF ChainInv, PairTypeOK, Answering, Located, Asking
<1>3. TapInv'
  BY Apart DEF TapInv, PairTypeOK, Aiming
<1>4. MailInv'
  BY MailKept, Apart DEF PairTypeOK, Asking
<1>5. PastInv' /\ CrashNeedsBadId'
  BY DEF PastInv, CrashNeedsBadId
<1>6. QED
  BY <1>1, <1>2, <1>3, <1>4, <1>5

\* The address is that of the person whose id was used as the path.
LEMMA PairEmailAnswersInv ==
    ASSUME PairInv, NEW t \in Taps, PairEmailAnswers(t)
    PROVE  PairInv'
<1> USE DEF PairInv, PairEmailAnswers, Goes, screen, profile, process
<1> DEFINE id == got[t].pairUniqId
<1>1. /\ got[t] \in UserInfos
      /\ id \in People /\ id \in past /\ address[id] \in {id, NoText, Nil}
  BY Apart DEF PairTypeOK, OwnAddresses, ChainInv, Answering, Located
<1>2. /\ got'[t] = [got[t] EXCEPT !.email = address[id]]
      /\ \A ch \in Chains : ch # t => got'[ch] = got[ch]
      /\ got' \in [Chains -> UserInfos \cup {Nil}]
  BY <1>1, Apart DEF PairTypeOK, UserInfos, Addresses
<1>3. PairTypeOK'
  <2>1. step' \in [Chains -> UnderWay \cup Final \cup {"idle", "listing"}]
    BY DEF PairTypeOK, UnderWay
  <2>2. OwnAddresses'
    BY DEF PairTypeOK, OwnAddresses
  <2>3. QED
    BY <1>2, <2>1, <2>2 DEF PairTypeOK
<1>4. got'[t] # Nil /\ got'[t].pairUniqId = id /\ got'[t].email = address[id]
  <2>1. \A u \in UserInfos : \A e : [u EXCEPT !.email = e].pairUniqId = u.pairUniqId
                                   /\ [u EXCEPT !.email = e].email = e
    BY DEF UserInfos
  <2>2. address[id] \in Addresses \cup {Me, Nil}
    BY <1>1 DEF Addresses
  <2>3. \A u \in UserInfos : \A e \in Addresses \cup {Me, Nil} : [u EXCEPT !.email = e] \in UserInfos
    BY DEF UserInfos
  <2>4. got'[t] \in UserInfos
    BY <1>1, <1>2, <2>2, <2>3
  <2>5. QED
    BY <1>1, <1>2, <2>1, <2>4, PairAssumption
<1>5. ChainInv'
  BY <1>1, <1>2, <1>4, Apart DEF ChainInv, PairTypeOK, Answering, Located
<1>6. TapInv'
  BY <1>1, <1>2, <1>4, Apart DEF TapInv, PairTypeOK, Aiming
<1>7. MailInv'
  BY <1>2, MailKept, Apart DEF PairTypeOK
<1>8. PastInv' /\ CrashNeedsBadId'
  BY DEF PastInv, CrashNeedsBadId
<1>9. QED
  BY <1>3, <1>5, <1>6, <1>7, <1>8

-----------------------------------------------------------------------------
(* The sinks.                                                              *)

LEMMA GetPairCouponsInv ==
    ASSUME PairInv, GetPairCoupons
    PROVE  PairInv'
<1> USE DEF PairInv, GetPairCoupons
<1>1. got[List] # Nil
  BY Apart DEF ChainInv, Answering
<1>2. CASE ~ValidPath(got[List].pairUniqId) /\ Crash
  BY <1>1, <1>2, CrashInv, Apart
<1>3. CASE ValidPath(got[List].pairUniqId) /\ Goes(List, "listing") /\ UNCHANGED <<got, screen>>
  <2> USE <1>3 DEF Goes, screen, profile, process
  <2>1. PairTypeOK'
    BY DEF PairTypeOK, OwnAddresses
  <2>2. ChainInv'
    BY <1>1, Apart DEF ChainInv, PairTypeOK, Answering, Located, ValidPath
  <2>3. TapInv' /\ PastInv' /\ CrashNeedsBadId'
    BY Apart DEF TapInv, PairTypeOK, PastInv, CrashNeedsBadId
  <2>4. MailInv'
    BY MailKept, Apart DEF PairTypeOK
  <2>5. QED
    BY <2>1, <2>2, <2>3, <2>4
<1>4. QED
  BY <1>2, <1>3

LEMMA CouponsArriveInv ==
    ASSUME PairInv, CouponsArrive
    PROVE  PairInv'
<1> USE DEF PairInv, CouponsArrive, profile, chains, process
<1>1. got[List] # Nil /\ got[List].pairUniqId \in People \cap past
  BY Apart DEF ChainInv, Answering, Located
<1>2. PairTypeOK'
  BY <1>1 DEF PairTypeOK, OwnAddresses
<1>3. ChainInv' /\ TapInv' /\ PastInv' /\ CrashNeedsBadId'
  BY <1>1 DEF ChainInv, TapInv, PastInv, CrashNeedsBadId
<1>4. MailInv'
  BY DEF MailInv, Handed
<1>5. QED
  BY <1>2, <1>3, <1>4

LEMMA ShowSendEmailViewInv ==
    ASSUME PairInv, NEW t \in Taps, NEW coupon \in Coupons,
           NEW canSendMail \in BOOLEAN, ShowSendEmailView(t, coupon, canSendMail)
    PROVE  PairInv'
<1> USE DEF PairInv, ShowSendEmailView, profile, screen, process
<1>1. step[t] = "idle"
  BY DEF Taps
<1>2. coupon.owner \in past
  <2>1. coupon.owner \in People
    BY DEF Coupons
  <2>2. QED
    BY <2>1, Apart DEF PastInv
<1>3. PairTypeOK'
  BY Apart DEF PairTypeOK, OwnAddresses, UnderWay, Asking, Final
<1>4. ChainInv'
  BY Apart DEF ChainInv, PairTypeOK, Answering, Located
<1>5. TapInv'
  BY <1>2, Apart DEF TapInv, PairTypeOK, Aiming
<1>6. MailInv'
  BY <1>1, MailKept, Apart DEF PairTypeOK
<1>7. PastInv' /\ CrashNeedsBadId'
  BY DEF PastInv, CrashNeedsBadId
<1>8. QED
  BY <1>3, <1>4, <1>5, <1>6, <1>7

LEMMA GetPairEmailInv ==
    ASSUME PairInv, NEW t \in Taps, GetPairEmail(t)
    PROVE  PairInv'
<1> USE DEF PairInv, GetPairEmail, Goes, screen, profile, process
<1>1. PairTypeOK'
  BY DEF PairTypeOK, OwnAddresses, UnderWay, Asking
<1>2. ChainInv'
  BY Apart DEF ChainInv, PairTypeOK, Answering, Located
<1>3. TapInv'
  BY Apart DEF TapInv, PairTypeOK, Aiming
<1>4. MailInv'
  BY MailKept, Apart DEF PairTypeOK
<1>5. PastInv' /\ CrashNeedsBadId'
  BY DEF PastInv, CrashNeedsBadId
<1>6. QED
  BY <1>1, <1>2, <1>3, <1>4, <1>5

LEMMA RunEmailBlockInv ==
    ASSUME PairInv, NEW t \in Taps, RunEmailBlock(t)
    PROVE  PairInv'
<1> USE DEF PairInv, RunEmailBlock
<1>1. CASE ~ValidPath(got[t].pairUniqId) /\ Crash
  BY <1>1, CrashInv, Apart
<1>2. CASE /\ ValidPath(got[t].pairUniqId) /\ step[t] = "queued"
           /\ Goes(t, "email") /\ UNCHANGED <<got, screen>>
  <2> USE <1>2 DEF Goes, screen, profile, process
  <2>1. PairTypeOK'
    BY DEF PairTypeOK, OwnAddresses, UnderWay, Asking
  <2>2. ChainInv'
    BY Apart DEF ChainInv, PairTypeOK, Answering, Located, ValidPath
  <2>3. TapInv'
    BY Apart DEF TapInv, PairTypeOK, Aiming
  <2>4. MailInv'
    BY MailKept, Apart DEF PairTypeOK
  <2>5. PastInv' /\ CrashNeedsBadId'
    BY DEF PastInv, CrashNeedsBadId
  <2>6. QED
    BY <2>1, <2>2, <2>3, <2>4, <2>5
<1>3. CASE /\ step[t] \in {"failing", "failed"} /\ Goes(t, step[t])
           /\ got' = [got EXCEPT ![t] = Nil] /\ UNCHANGED screen
  <2> USE <1>3 DEF Goes, screen, profile, process
  <2>1. step' = step
    BY DEF PairTypeOK
  <2>2. PairTypeOK'
    BY <2>1 DEF PairTypeOK, OwnAddresses
  <2>3. ChainInv'
    BY <2>1, Apart DEF ChainInv, PairTypeOK, Answering, Located
  <2>4. TapInv'
    BY <2>1, Apart DEF TapInv, PairTypeOK, Aiming
  <2>5. MailInv'
    BY <2>1, MailKept, Apart DEF PairTypeOK
  <2>6. PastInv' /\ CrashNeedsBadId'
    BY DEF PastInv, CrashNeedsBadId
  <2>7. QED
    BY <2>2, <2>3, <2>4, <2>5, <2>6
<1>4. QED
  BY <1>1, <1>2, <1>3

\* The store now holds the mail of this tap.
LEMMA OpenMailInv ==
    ASSUME PairInv, NEW t \in Taps, OpenMail(t)
    PROVE  PairInv'
<1> USE DEF PairInv, OpenMail, Goes, profile, process
<1>1. /\ store'.body = aim[t]
      /\ store'.to = IF got[t].email = Nil THEN store.to ELSE got[t].email
  OBVIOUS
<1>2. /\ got[t].email \in (past \cap People) \cup {NoText, Nil}
      /\ aim[t] \in Coupons /\ t \in Chains
  BY Apart DEF TapInv, PairTypeOK, Aiming
<1>3. store'.to \in (past \cup {NoText}) \cap Addresses
  <2>1. store.to \in Addresses
    BY DEF PairTypeOK, Mails
  <2>2. QED
    BY <1>1, <1>2, <2>1 DEF MailInv, Addresses
<1>4. store' \in Mails
  BY <1>1, <1>2, <1>3 DEF Mails
<1>5. step'[t] = "mailed" /\ \A u \in Taps : u # t => step'[u] = step[u]
  BY <1>2, Apart DEF PairTypeOK
<1>6. PairTypeOK'
  <2>1. step' \in [Chains -> UnderWay \cup Final \cup {"idle", "listing"}]
    BY <1>2 DEF PairTypeOK, Final
  <2>2. OwnAddresses'
    BY DEF PairTypeOK, OwnAddresses
  <2>3. QED
    BY <1>4, <2>1, <2>2 DEF PairTypeOK
<1>7. ChainInv'
  BY <1>2, Apart DEF ChainInv, PairTypeOK, Answering, Located
<1>8. TapInv'
  BY <1>5 DEF TapInv, PairTypeOK, Aiming
<1>9. MailInv'
  <2>1. Handed(t, store)'
    BY <1>1, <1>5 DEF Handed
  <2>2. \A u \in Taps : Handed(u, mail) => Handed(u, mail)'
    BY <1>5 DEF Handed
  <2>3. QED
    BY <1>3, <2>1, <2>2 DEF MailInv, PairTypeOK
<1>10. PastInv' /\ CrashNeedsBadId'
  BY DEF PastInv, CrashNeedsBadId
<1>11. QED
  BY <1>6, <1>7, <1>8, <1>9, <1>10

LEMMA ComposerInv ==
    ASSUME PairInv, BuildMail \/ CloseMail
    PROVE  PairInv'
<1> USE DEF PairInv, BuildMail, CloseMail, profile, chains, process
<1>1. PairTypeOK'
  BY Apart DEF PairTypeOK, OwnAddresses
<1>2. ChainInv' /\ TapInv' /\ PastInv' /\ CrashNeedsBadId'
  BY DEF ChainInv, TapInv, PastInv, CrashNeedsBadId
<1>3. MailInv'
  BY Apart DEF MailInv, Handed
<1>4. QED
  BY <1>1, <1>2, <1>3

LEMMA FailsInv ==
    ASSUME PairInv, NEW ch \in Chains, Fails(ch)
    PROVE  PairInv'
<1> USE DEF PairInv, Fails, Goes, profile, process
<1>1. PairTypeOK'
  <2>1. step' \in [Chains -> UnderWay \cup Final \cup {"idle", "listing"}]
    BY DEF PairTypeOK, Final
  <2>2. isShowLoading' \in BOOLEAN
    BY DEF PairTypeOK
  <2>3. QED
    BY <2>1, <2>2 DEF PairTypeOK, OwnAddresses
<1>2. ChainInv'
  BY DEF ChainInv, PairTypeOK, Answering, Located
<1>3. TapInv'
  BY Apart DEF TapInv, PairTypeOK, Aiming
<1>4. MailInv'
  BY MailKept, Apart DEF PairTypeOK
<1>5. PastInv' /\ CrashNeedsBadId'
  BY DEF PastInv, CrashNeedsBadId
<1>6. QED
  BY <1>1, <1>2, <1>3, <1>4, <1>5

-----------------------------------------------------------------------------
LEMMA PairInvStep ==
    ASSUME PairInv, [Next]_vars
    PROVE  PairInv'
<1>1. CASE UNCHANGED vars
  <2> USE <1>1 DEF PairInv, vars, profile, chains, screen, process
  <2>1. PairTypeOK' /\ ChainInv' /\ TapInv'
    BY DEF PairTypeOK, OwnAddresses, ChainInv, TapInv
  <2>2. PastInv' /\ CrashNeedsBadId'
    BY DEF PastInv, CrashNeedsBadId
  <2>3. MailInv'
    BY DEF MailInv, Handed
  <2>4. QED
    BY <2>1, <2>2, <2>3
<1>2. CASE SignOut
  BY <1>2, GoneInv DEF SignOut, PairInv, PairTypeOK, CrashNeedsBadId
<1>3. CASE Launch
  BY <1>3, LaunchInv
<1>4. ASSUME NEW ch \in Chains, UserInfoAnswers(ch) \/ TimesOut(ch) \/ Delivery(ch)
      PROVE  PairInv'
  BY <1>4, UserInfoAnswersInv, TimesOutInv, GetPairCouponsInv, GetPairEmailInv,
     OpenMailInv, FailsInv DEF Delivery
<1>5. ASSUME NEW t \in Taps, RunEmailBlock(t) \/ PairEmailAnswers(t)
      PROVE  PairInv'
  BY <1>5, RunEmailBlockInv, PairEmailAnswersInv
<1>6. QED
  BY <1>1, <1>2, <1>3, <1>4, <1>5, SaveProfileInv, SaveAddressInv,
     ShowSendEmailViewInv, CouponsArriveInv, ComposerInv DEF Next

\* The inductive invariant of the pair's tab.
THEOREM PairInvariant == Spec => []PairInv
<1>1. Init => PairInv
  BY PairInitInv
<1>2. PairInv /\ [Next]_vars => PairInv'
  BY PairInvStep
<1>3. QED
  BY <1>1, <1>2, PTL DEF Spec

\* The state of the tab is well formed: the composer never gets a nil address,
\* and a profile never an empty pair id.
THEOREM PairTypeCorrect == Spec => []PairTypeOK
<1>1. PairInv => PairTypeOK
  BY DEF PairInv
<1>2. QED
  BY <1>1, PairInvariant, PTL

\* Only a malformed pair id in the user's own profile makes database.child
\* raise its exception, however many chains use it and whenever it was saved.
THEOREM CrashesNeedBadIds == Spec => []CrashNeedsBadId
<1>1. PairInv => CrashNeedsBadId
  BY DEF PairInv
<1>2. QED
  BY <1>1, PairInvariant, PTL

\* However many taps share mailDataStore, the composer shows the mail of one.
THEOREM MailsAreWhole == Spec => []MailIsWhole
<1>1. PairInv => MailIsWhole
  BY DEF PairInv, MailInv, Handed, MailIsWhole
<1>2. QED
  BY <1>1, PairInvariant, PTL

\* While the user keeps the pair, a request reaches the coupon's owner or
\* nobody, whatever addresses were saved and found in the meantime.
THEOREM MailsGoToOwners == Spec => []MailGoesToOwner
<1>1. ASSUME PairInv, composer = "up", \A id, old \in past : id = old
      PROVE  mail.to \in {mail.body.owner, NoText}
  <2>1. PICK t \in Taps : Handed(t, mail)
    BY <1>1 DEF PairInv, MailInv
  <2>2. mail.body.owner \in past
    BY <1>1, <2>1 DEF PairInv, TapInv, Handed, Aiming
  <2>3. mail.to \in past \cup {NoText}
    BY <1>1 DEF PairInv, MailInv
  <2>4. QED
    BY <1>1, <2>2, <2>3
<1>2. PairInv => MailGoesToOwner
  BY <1>1 DEF MailGoesToOwner
<1>3. QED
  BY <1>2, PairInvariant, PTL
=============================================================================
