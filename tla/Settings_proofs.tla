-------------------------- MODULE Settings_proofs ---------------------------
(***************************************************************************)
(* Proofs about the settings tab, for any number of calls and fields.      *)
(* What the properties need beyond themselves: BookInv, which calls have   *)
(* been made, and that a submit past the guards is filled in; OrderInv,    *)
(* both queues are served in the order of the tickets; DateInv, what the   *)
(* server has is no older than a submit it has carried out; QuietInv, how  *)
(* the first load, the spinner and the keyboard go together before any     *)
(* button is pressed.                                                      *)
(***************************************************************************)
EXTENDS Settings, ApiCall_proofs, SetMaxima

BookInv ==
    /\ \A c \in Calls : op[c] = "none" <=> pipe[c] = "idle"
    /\ \A c \in Calls : op[c] = "submit" /\ remote[c] # "idle" => Filled(data[c])
    /\ appears = 0 => ~typed /\ \A c \in Calls : op[c] = "none"
    /\ appears <= 1 =>
          \A c, d \in Calls : op[c] = "load" /\ op[d] = "load" => c = d

\* Call d, made after c, has not overtaken it.
InTurn(c, d) ==
    /\ remote[d] \notin {"idle", "queued"} => remote[c] # "queued"
    /\ op[c] = "submit" /\ op[d] = "submit" =>
          /\ remote[d] \in {"served", "done"} => remote[c] # "flying"
          /\ remote[d] = "done" => remote[c] # "served"

OrderInv ==
    \A c, d \in Calls :
        ticket[c] < ticket[d] /\ op[d] \in {"load", "submit"} => InTurn(c, d)

DateInv ==
    \A c \in Calls :
        op[c] = "submit" /\ remote[c] \in {"served", "done"} => date >= ticket[c]

Quiet == appears <= 1 /\ \A c \in Calls : op[c] \in {"none", "load"}

QuietInv ==
    Quiet /\ (\E c \in Calls : op[c] = "load" /\ pipe[c] \in Unsettled) =>
        isShowLoading /\ ~focus /\ ~typed

QueueInv == OrderInv /\ DateInv /\ ReadsOwnSubmit

SettingsInv == SettingsTypeOK /\ SuccessInv /\ BookInv /\ QueueInv /\ QuietInv

-----------------------------------------------------------------------------
(* The steps of the tab are steps of its publishers.                       *)

LEMMA SettingsSteps ==
    ASSUME [Next]_vars
    PROVE  [ApiNext]_apiVars
<1>1. ASSUME NEW c \in Calls, Touch(c) PROVE ApiNext
  <2>1. Issue(c) \/ Reject(c) \/ \E ok \in BOOLEAN : IssueSync(c, ok)
    BY <1>1 DEF Touch, GetUserInfo, SubmitButtonPressed, LogoutButtonPressed
  <2>2. QED
    BY <2>1 DEF ApiNext, CallStep
<1>2. ASSUME NEW c \in Calls, Background(c) PROVE ApiNext
  <2>1. CallStep(c)
    BY <1>2 DEF Background, RunQueue, ServeSubmit, AckSubmit, RefuseSubmit,
       ServeLoad, Snapshot, RefuseLoad, Answered, CallStep
  <2>2. QED
    BY <2>1 DEF ApiNext
<1>3. ASSUME NEW c \in Calls, MainLoop(c) PROVE ApiNext
  <2>1. CASE TimesOut(c) \/ Fails(c)
    BY <2>1 DEF TimesOut, Fails, ApiNext, CallStep
  <2>2. CASE LoadSucceeds(c) \/ SubmitSucceeds(c)
             \/ \E replaced \in BOOLEAN : LogoutSucceeds(c, replaced)
    <3>1. \E gone \in SUBSET Calls : DeliverValue(c, gone)
      BY <2>2 DEF LoadSucceeds, SubmitSucceeds, LogoutSucceeds
    <3>2. QED
      BY <3>1 DEF ApiNext, CallStep
  <2>3. QED
    BY <1>3, <2>1, <2>2 DEF MainLoop, Delivery
<1>4. CASE UNCHANGED vars
  BY <1>4 DEF vars
<1>5. ASSUME NEW f \in Fields, NEW t \in Texts \cup {NoText}, Type(f, t)
      PROVE  UNCHANGED apiVars
  BY <1>5 DEF Type
<1>6. ASSUME NEW p \in Forms, Elsewhere(p) PROVE UNCHANGED apiVars
  BY <1>6 DEF Elsewhere
<1>7. QED
  BY <1>1, <1>2, <1>3, <1>4, <1>5, <1>6 DEF Next

-----------------------------------------------------------------------------
(* What the three touches have in common.                                  *)

TouchFacts(c) ==
    /\ pipe[c] = "idle" /\ pipe'[c] \in Unsettled
    /\ \A d \in Calls \ {c} : /\ pipe'[d] = pipe[d] /\ remote'[d] = remote[d]
                              /\ op'[d] = op[d] /\ ticket'[d] = ticket[d]
                              /\ data'[d] = data[d]
    /\ op' \in [Calls -> Ops \cup {"none"}] /\ data' \in [Calls -> Forms]
    /\ clock' = clock + 1 /\ ticket' = [ticket EXCEPT ![c] = clock + 1]
    /\ op'[c] \in Ops
    /\ op'[c] \in {"load", "submit"} => remote'[c] \in {"idle", "queued"}
    /\ op'[c] = "submit" /\ remote'[c] # "idle" => Filled(data'[c])
    /\ isShowLoading' = TRUE
    /\ \/ op'[c] = "load" /\ appears < MaxAppears /\ appears' = appears + 1 /\ focus' = FALSE
       \/ op'[c] # "load" /\ appears > 0 /\ UNCHANGED <<appears, focus>>
    /\ signedIn' \in BOOLEAN
    /\ UNCHANGED <<source, server, form, typed, alive>>

LEMMA TouchSteps ==
    ASSUME SettingsInv, NEW c \in Calls, Touch(c)
    PROVE  TouchFacts(c)
<1> USE DEF SettingsInv, SettingsTypeOK, ApiTypeOK, TouchFacts, Call, Ops, Unsettled
<1>1. Blank \in Forms
  BY DEF Blank, Forms
<1>2. CASE GetUserInfo(c)
  BY <1>1, <1>2 DEF GetUserInfo, Issue, Reject
<1>3. CASE SubmitButtonPressed(c)
  BY <1>3 DEF SubmitButtonPressed, Issue, Reject
<1>4. ASSUME NEW ok \in BOOLEAN, LogoutButtonPressed(c, ok) PROVE TouchFacts(c)
  BY <1>1, <1>4 DEF LogoutButtonPressed, IssueSync
<1>5. QED
  BY <1>2, <1>3, <1>4 DEF Touch

LEMMA TouchInv ==
    ASSUME SettingsInv, NEW c \in Calls, TouchFacts(c), ApiTypeOK', SuccessInv'
    PROVE  SettingsInv'
<1> USE DEF TouchFacts
<1>1. /\ ticket \in [Calls -> 0..clock] /\ clock \in Nat /\ date \in 0..clock
      /\ source \in [Calls -> 0..clock] /\ appears \in 0..MaxAppears
      /\ remote[c] = "idle"
  BY DEF SettingsInv, SettingsTypeOK, ApiTypeOK
<1>2. /\ ticket'[c] = clock + 1
      /\ \A d \in Calls \ {c} : ticket'[d] = ticket[d] /\ ticket[d] <= clock
  BY <1>1
<1>3. SettingsTypeOK'
  <2>1. /\ clock' \in Nat /\ ticket' \in [Calls -> 0..clock']
        /\ source' \in [Calls -> 0..clock'] /\ date' \in 0..clock'
    BY <1>1 DEF server
  <2>2. appears' \in 0..MaxAppears
    BY <1>1, SettingsAssumption
  <2>3. focus' \in BOOLEAN /\ isShowLoading' \in BOOLEAN
    BY DEF SettingsInv, SettingsTypeOK
  <2>4. QED
    BY <2>1, <2>2, <2>3 DEF SettingsInv, SettingsTypeOK, server
<1>4. BookInv'
  <2>1. \A d \in Calls : op'[d] = "none" <=> pipe'[d] = "idle"
    BY DEF SettingsInv, BookInv, Ops, Unsettled
  <2>2. \A d \in Calls : op'[d] = "submit" /\ remote'[d] # "idle" => Filled(data'[d])
    BY DEF SettingsInv, BookInv
  <2>3. appears' > 0
    BY <1>1
  <2>4. ASSUME appears' <= 1, NEW d \in Calls, NEW e \in Calls,
               op'[d] = "load", op'[e] = "load"
        PROVE  d = e
    <3>1. CASE op'[c] = "load"
      BY <1>1, <2>4, <3>1 DEF SettingsInv, BookInv
    <3>2. CASE op'[c] # "load"
      BY <2>4, <3>2 DEF SettingsInv, BookInv
    <3>3. QED
      BY <3>1, <3>2
  <2>5. QED
    BY <2>1, <2>2, <2>3, <2>4, <1>1 DEF BookInv
<1>5. OrderInv'
  <2>1. SUFFICES ASSUME NEW d \in Calls, NEW e \in Calls, ticket'[d] < ticket'[e],
                        op'[e] \in {"load", "submit"}
                 PROVE  InTurn(d, e)'
    BY DEF OrderInv
  <2>2. d # c
    BY <1>1, <1>2, <2>1
  <2>3. CASE e = c
    BY <2>1, <2>3 DEF InTurn
  <2>4. CASE e # c
    BY <2>1, <2>2, <2>4 DEF SettingsInv, QueueInv, OrderInv, InTurn
  <2>5. QED
    BY <2>3, <2>4
<1>6. DateInv'
  BY DEF SettingsInv, QueueInv, DateInv, server
<1>7. ReadsOwnSubmit'
  <2>1. SUFFICES ASSUME NEW d \in Calls, NEW e \in Calls,
                        op'[d] = "submit", op'[e] = "load", ticket'[d] < ticket'[e],
                        remote'[d] \in {"flying", "served", "done"}, remote'[e] = "done"
                 PROVE  source'[e] >= ticket'[d]
    BY DEF ReadsOwnSubmit
  <2>2. d # c /\ e # c
    BY <1>1, <1>2, <2>1
  <2>3. QED
    BY <2>1, <2>2 DEF SettingsInv, QueueInv, ReadsOwnSubmit
<1>8. QuietInv'
  <2>1. SUFFICES ASSUME Quiet', NEW d \in Calls, op'[d] = "load", pipe'[d] \in Unsettled
                 PROVE  isShowLoading' /\ ~focus' /\ ~typed'
    BY DEF QuietInv
  <2>2. op'[c] = "load" /\ appears = 0
    BY <1>1, <2>1 DEF Quiet, Ops
  <2>3. QED
    BY <2>2 DEF SettingsInv, BookInv
<1>9. QED
  BY <1>3, <1>4, <1>5, <1>6, <1>7, <1>8 DEF SettingsInv, QueueInv

-----------------------------------------------------------------------------
(* The request of one call moves on: the queue, the server, the SDK.       *)

MoveFacts(c) ==
    /\ remote[c] \in {"queued", "flying", "served"}
    /\ remote'[c] \in Remotes \ {"idle", "queued"}
    /\ \A d \in Calls \ {c} : remote'[d] = remote[d]
    /\ remote'[c] = "flying" => remote[c] = "queued"
    /\ remote'[c] = "served" => remote[c] = "flying"
    /\ remote[c] = "queued" =>
          /\ remote'[c] \in {"flying", "dropped"}
          /\ \A d \in Earlier(c) : remote[d] # "queued"
    /\ op[c] = "submit" /\ remote'[c] = "served" =>
          /\ date' = ticket[c]
          /\ \A d \in Earlier(c) \cap Pending : remote[d] # "flying"
    /\ op[c] = "submit" /\ remote'[c] = "done" => Earlier(c) \cap Pending = {}
    /\ op[c] = "submit" /\ remote'[c] = "done" => remote[c] = "served"
    /\ \/ date' = date
       \/ op[c] = "submit" /\ remote[c] = "flying" /\ remote'[c] = "served"
    /\ \A d \in Calls \ {c} : source'[d] = source[d]
    /\ source' \in [Calls -> 0..clock] /\ data' \in [Calls -> Forms]
    /\ op[c] = "load" /\ remote'[c] = "done" => source'[c] = VisibleAt
    /\ op[c] = "submit" => data' = data
    /\ \A d \in Calls \ {c} : data'[d] = data[d]
    /\ date' \in 0..clock /\ stored' \in {p \in Forms : Filled(p)} \cup {NoProfile}
    /\ UNCHANGED <<pipe, op, ticket, clock, elsewhere, view, signedIn, alive>>

\* The newest pending write is one of them.
LEMMA NewestIsPending ==
    ASSUME SettingsInv, Pending # {}
    PROVE  Newest \in Pending /\ \A d \in Pending : ticket[d] <= ticket[Newest]
<1> DEFINE tickets == {ticket[c] : c \in Pending}
<1>1. /\ clock \in Nat /\ tickets \subseteq Nat /\ tickets # {}
      /\ \A x \in tickets : x <= clock
  BY DEF SettingsInv, SettingsTypeOK, Pending
<1>2. PICK m \in tickets : \A x \in tickets : x <= m
  <2> HIDE DEF tickets
  <2>1. QED
    BY <1>1, GreatestExists
<1>3. PICK c \in Pending : \A d \in Pending : ticket[d] <= ticket[c]
  BY <1>2
<1>4. QED
  BY <1>3 DEF Newest

LEMMA MoveSteps ==
    ASSUME SettingsInv, NEW c \in Calls,
           \/ RunQueue(c) \/ ServeSubmit(c) \/ AckSubmit(c) \/ RefuseSubmit(c)
           \/ ServeLoad(c) \/ Snapshot(c) \/ RefuseLoad(c)
    PROVE  MoveFacts(c)
<1> USE DEF SettingsInv, SettingsTypeOK, ApiTypeOK, MoveFacts, Moves, Unseen, request, server, Remotes
<1>1. CASE RunQueue(c)
  BY <1>1 DEF RunQueue, RunBlock, DropBlock, NextBlock
<1>2. CASE ServeSubmit(c)
  <2>1. ticket[c] \in 0..clock /\ Filled(data[c])
    BY <1>2 DEF ServeSubmit, Serve, BookInv
  <2>2. QED
    BY <1>2, <2>1 DEF ServeSubmit, Serve
<1>3. CASE AckSubmit(c) \/ RefuseSubmit(c)
  BY <1>3 DEF AckSubmit, RefuseSubmit, Reply, Refuse
<1>4. CASE ServeLoad(c) \/ RefuseLoad(c)
  BY <1>4 DEF ServeLoad, RefuseLoad, Serve, Refuse
<1>5. CASE Snapshot(c)
  <2>1. Visible \in Forms /\ VisibleAt \in 0..clock
    <3>1. CASE Pending = {}
      BY <1>5, <3>1 DEF Snapshot, Visible, VisibleAt
    <3>2. CASE Pending # {}
      BY <3>2, NewestIsPending DEF Visible, VisibleAt, Pending
    <3>3. QED
      BY <3>1, <3>2
  <2>2. QED
    BY <1>5, <2>1 DEF Snapshot, Reply
<1>6. QED
  BY <1>1, <1>2, <1>3, <1>4, <1>5

\* What a load reads is no older than any submit the SDK has been given.
LEMMA VisibleIsRecent ==
    ASSUME SettingsInv, NEW c \in Calls, op[c] = "submit",
           remote[c] \in {"flying", "served", "done"}
    PROVE  VisibleAt >= ticket[c]
<1>0. ticket \in [Calls -> 0..clock] /\ clock \in Nat
  BY DEF SettingsInv, SettingsTypeOK
<1>1. CASE Pending = {}
  BY <1>1 DEF SettingsInv, QueueInv, DateInv, Pending, VisibleAt
<1>2. CASE Pending # {}
  <2>1. Newest \in Pending /\ \A d \in Pending : ticket[d] <= ticket[Newest]
    BY <1>2, NewestIsPending
  <2>2. CASE c \in Pending
    BY <1>0, <1>2, <2>1, <2>2 DEF VisibleAt, Pending
  <2>3. CASE c \notin Pending
    <3>1. Newest \in Calls /\ op[Newest] = "submit" /\ remote[Newest] \in {"flying", "served"}
      BY <2>1 DEF Pending
    <3>2. remote[c] = "done"
      BY <2>3 DEF Pending
    <3>3. ~(ticket[Newest] < ticket[c])
      BY <3>1, <3>2 DEF SettingsInv, QueueInv, OrderInv, InTurn
    <3>4. QED
      BY <1>0, <1>2, <3>1, <3>3 DEF VisibleAt
  <2>4. QED
    BY <2>2, <2>3
<1>3. QED
  BY <1>1, <1>2

LEMMA MoveInv ==
    ASSUME SettingsInv, NEW c \in Calls, MoveFacts(c), ApiTypeOK', SuccessInv'
    PROVE  SettingsInv'
<1> USE DEF MoveFacts
<1>1. /\ ticket \in [Calls -> 0..clock] /\ clock \in Nat /\ date \in 0..clock
      /\ source \in [Calls -> 0..clock]
  BY DEF SettingsInv, SettingsTypeOK
<1>2. SettingsTypeOK'
  BY DEF SettingsInv, SettingsTypeOK, view
<1>3. BookInv'
  BY DEF SettingsInv, BookInv, view
<1>4. OrderInv'
  <2>1. SUFFICES ASSUME NEW d \in Calls, NEW e \in Calls, ticket[d] < ticket[e],
                        op[e] \in {"load", "submit"}
                 PROVE  InTurn(d, e)'
    BY DEF OrderInv
  <2>2. InTurn(d, e) /\ d # e
    BY <1>1, <2>1 DEF SettingsInv, QueueInv, OrderInv
  <2>3. CASE e = c
    <3>1. d \in Earlier(c) /\ remote'[d] = remote[d]
      BY <2>1, <2>2, <2>3 DEF Earlier
    <3>2. remote[d] # "queued"
      BY <2>2, <2>3, <3>1 DEF InTurn
    <3>3. ASSUME op[d] = "submit", op[c] = "submit", remote'[c] \in {"served", "done"}
          PROVE  remote[d] # "flying"
      BY <3>1, <3>3 DEF Pending
    <3>4. ASSUME op[d] = "submit", op[c] = "submit", remote'[c] = "done"
          PROVE  remote[d] # "served"
      BY <3>1, <3>4 DEF Pending
    <3>5. QED
      BY <2>3, <3>1, <3>2, <3>3, <3>4 DEF InTurn
  <2>4. CASE e # c
    BY <2>1, <2>2, <2>4 DEF InTurn
  <2>5. QED
    BY <2>3, <2>4
<1>5. DateInv'
  <2>1. SUFFICES ASSUME NEW d \in Calls, op[d] = "submit", remote'[d] \in {"served", "done"}
                 PROVE  date' >= ticket[d]
    BY DEF DateInv
  <2>2. CASE date' = date
    <3>1. CASE remote[d] \in {"served", "done"}
      BY <2>1, <2>2, <3>1 DEF SettingsInv, QueueInv, DateInv
    <3>2. CASE remote[d] \notin {"served", "done"}
      BY <1>1, <2>1, <2>2, <3>2
    <3>3. QED
      BY <3>1, <3>2
  <2>3. CASE op[c] = "submit" /\ remote[c] = "flying" /\ remote'[c] = "served"
    <3>1. CASE d = c
      BY <1>1, <2>3, <3>1
    <3>2. CASE d # c
      <4>1. ~(ticket[c] < ticket[d])
        BY <2>1, <2>3, <3>2 DEF SettingsInv, QueueInv, OrderInv, InTurn
      <4>2. QED
        BY <1>1, <2>3, <4>1
    <3>3. QED
      BY <3>1, <3>2
  <2>4. QED
    BY <2>2, <2>3
<1>6. ReadsOwnSubmit'
  <2>1. SUFFICES ASSUME NEW d \in Calls, NEW e \in Calls,
                        op[d] = "submit", op[e] = "load", ticket[d] < ticket[e],
                        remote'[d] \in {"flying", "served", "done"}, remote'[e] = "done"
                 PROVE  source'[e] >= ticket[d]
    BY DEF ReadsOwnSubmit
  <2>2. d # e
    BY <2>1
  <2>3. CASE e = c
    BY <2>1, <2>2, <2>3, VisibleIsRecent
  <2>4. CASE e # c
    <3>1. remote[d] \in {"flying", "served", "done"}
      <4>1. remote[d] # "queued"
        BY <2>1, <2>4 DEF SettingsInv, QueueInv, OrderInv, InTurn
      <4>2. QED
        BY <2>1, <4>1
    <3>2. QED
      BY <2>1, <2>4, <3>1 DEF SettingsInv, QueueInv, ReadsOwnSubmit
  <2>5. QED
    BY <2>3, <2>4
<1>7. QuietInv'
  BY DEF SettingsInv, QuietInv, Quiet, view
<1>8. QED
  BY <1>2, <1>3, <1>4, <1>5, <1>6, <1>7 DEF SettingsInv, QueueInv

-----------------------------------------------------------------------------
(* A subscription moves on: answers, timeouts and the sinks.               *)

PipeFacts(c) ==
    /\ pipe[c] # "idle"
    /\ \A d \in Calls : /\ pipe'[d] = "idle" <=> pipe[d] = "idle"
                        /\ pipe'[d] \in Unsettled => pipe[d] \in Unsettled
    /\ \/ UNCHANGED isShowLoading
       \/ isShowLoading' = FALSE /\ pipe'[c] \notin Unsettled
    /\ form' \in Forms /\ (typed' = typed \/ typed' = FALSE)
    /\ alive' \in BOOLEAN
    /\ UNCHANGED <<remote, request, source, server, focus, appears, signedIn>>

LEMMA PipeSteps ==
    ASSUME SettingsInv, NEW c \in Calls, Answered(c) \/ MainLoop(c)
    PROVE  PipeFacts(c)
<1> USE DEF SettingsInv, SettingsTypeOK, ApiTypeOK, PipeFacts, Unsettled
<1>1. CASE Answered(c)
  BY <1>1 DEF Answered, Callback, Unseen, view
<1>2. CASE TimesOut(c)
  BY <1>2 DEF TimesOut, TimeoutFires, Unseen, view
<1>3. CASE Fails(c)
  BY <1>3 DEF Fails, DeliverFailure
<1>4. CASE LoadSucceeds(c)
  BY <1>4 DEF LoadSucceeds, DeliverValue, Cancelled
<1>5. CASE SubmitSucceeds(c)
  BY <1>5 DEF SubmitSucceeds, DeliverValue, Cancelled
<1>6. ASSUME NEW replaced \in BOOLEAN, LogoutSucceeds(c, replaced) PROVE PipeFacts(c)
  BY <1>6 DEF LogoutSucceeds, DeliverValue, Cancelled
<1>7. QED
  BY <1>1, <1>2, <1>3, <1>4, <1>5, <1>6 DEF MainLoop, Delivery

LEMMA PipeInv ==
    ASSUME SettingsInv, NEW c \in Calls, PipeFacts(c), ApiTypeOK', SuccessInv'
    PROVE  SettingsInv'
<1> USE DEF PipeFacts, request, server
<1>1. SettingsTypeOK'
  BY DEF SettingsInv, SettingsTypeOK
<1>2. BookInv'
  BY DEF SettingsInv, BookInv
<1>3. QueueInv'
  BY DEF SettingsInv, QueueInv, OrderInv, InTurn, DateInv, ReadsOwnSubmit
<1>4. QuietInv'
  <2>1. SUFFICES ASSUME Quiet, NEW d \in Calls, op[d] = "load", pipe'[d] \in Unsettled
                 PROVE  isShowLoading' /\ ~focus /\ ~typed'
    BY DEF QuietInv, Quiet
  <2>2. isShowLoading /\ ~focus /\ ~typed
    BY <2>1 DEF SettingsInv, QuietInv
  <2>3. op[c] = "load"
    BY <2>1 DEF Quiet, SettingsInv, BookInv
  <2>4. c = d
    BY <2>1, <2>3 DEF Quiet, SettingsInv, BookInv
  <2>5. UNCHANGED isShowLoading
    BY <2>1, <2>4
  <2>6. ~typed'
    <3>1. typed = FALSE
      BY <2>2 DEF SettingsInv, SettingsTypeOK
    <3>2. QED
      BY <3>1
  <2>7. QED
    BY <2>2, <2>5, <2>6
<1>5. QED
  BY <1>1, <1>2, <1>3, <1>4 DEF SettingsInv

-----------------------------------------------------------------------------
(* The steps that no call takes.                                           *)

LEMMA TypeInv ==
    ASSUME SettingsInv, NEW f \in Fields, NEW t \in Texts \cup {NoText}, Type(f, t)
    PROVE  SettingsInv'
<1> USE DEF Type, apiVars, request, server
<1>1. SettingsTypeOK'
  BY DEF SettingsInv, SettingsTypeOK, ApiTypeOK, Forms
<1>2. SuccessInv' /\ QueueInv'
  BY DEF SettingsInv, SuccessInv, QueueInv, OrderInv, InTurn, DateInv, ReadsOwnSubmit
<1>3. BookInv'
  BY DEF SettingsInv, SettingsTypeOK, BookInv
<1>4. QuietInv'
  BY DEF SettingsInv, QuietInv, Quiet
<1>5. QED
  BY <1>1, <1>2, <1>3, <1>4 DEF SettingsInv

LEMMA ElsewhereInv ==
    ASSUME SettingsInv, NEW p \in {q \in Forms : Filled(q)}, Elsewhere(p)
    PROVE  SettingsInv'
<1> USE DEF Elsewhere, apiVars
<1>1. SettingsTypeOK'
  <2>1. /\ clock' \in Nat /\ ticket' \in [Calls -> 0..clock']
        /\ source' \in [Calls -> 0..clock'] /\ date' \in 0..clock'
        /\ elsewhere' \in 0..MaxElsewhere
    BY SettingsAssumption DEF SettingsInv, SettingsTypeOK
  <2>2. QED
    BY <2>1 DEF SettingsInv, SettingsTypeOK, ApiTypeOK, view
<1>2. SuccessInv' /\ OrderInv' /\ ReadsOwnSubmit'
  BY DEF SettingsInv, SuccessInv, QueueInv, OrderInv, InTurn, ReadsOwnSubmit
<1>3. DateInv'
  BY DEF SettingsInv, SettingsTypeOK, DateInv
<1>4. BookInv' /\ QuietInv'
  BY DEF SettingsInv, BookInv, QuietInv, Quiet, view
<1>5. QED
  BY <1>1, <1>2, <1>3, <1>4 DEF SettingsInv, QueueInv

LEMMA SettingsInitInv == Init => SettingsInv
<1> SUFFICES ASSUME Init PROVE SettingsInv
  OBVIOUS
<1> USE DEF Init
<1>1. ApiInv
  BY ApiInvInductive
<1>2. Blank \in Forms
  BY DEF Blank, Forms
<1>3. SettingsTypeOK
  <2>1. /\ op \in [Calls -> Ops \cup {"none"}] /\ data \in [Calls -> Forms] /\ form \in Forms
    BY <1>2
  <2>2. /\ clock \in Nat /\ ticket \in [Calls -> 0..clock] /\ source \in [Calls -> 0..clock]
        /\ date \in 0..clock
    OBVIOUS
  <2>3. elsewhere \in 0..MaxElsewhere /\ appears \in 0..MaxAppears
    BY SettingsAssumption
  <2>4. QED
    BY <1>1, <2>1, <2>2, <2>3 DEF ApiInv, SettingsTypeOK
<1>4. BookInv /\ QueueInv /\ QuietInv
  BY DEF ApiInit, BookInv, QueueInv, OrderInv, DateInv, ReadsOwnSubmit, QuietInv
<1>5. QED
  BY <1>1, <1>3, <1>4 DEF ApiInv, SettingsInv

LEMMA SettingsInvStep ==
    ASSUME SettingsInv, [Next]_vars
    PROVE  SettingsInv'
<1>1. ApiTypeOK' /\ SuccessInv'
  BY SettingsSteps, ApiInvInductive DEF SettingsInv, SettingsTypeOK, ApiInv
<1>2. CASE UNCHANGED vars
  <2> USE <1>2 DEF vars, apiVars, request, server, view
  <2>1. SettingsTypeOK' /\ BookInv'
    BY DEF SettingsInv, SettingsTypeOK, ApiTypeOK, BookInv
  <2>2. QueueInv' /\ QuietInv'
    BY DEF SettingsInv, QueueInv, OrderInv, InTurn, DateInv, ReadsOwnSubmit, QuietInv, Quiet
  <2>3. QED
    BY <1>1, <2>1, <2>2 DEF SettingsInv
<1>3. ASSUME NEW c \in Calls, Touch(c) PROVE SettingsInv'
  BY <1>1, <1>3, TouchSteps, TouchInv
<1>4. ASSUME NEW c \in Calls, Background(c) PROVE SettingsInv'
  BY <1>1, <1>4, MoveSteps, MoveInv, PipeSteps, PipeInv DEF Background
<1>5. ASSUME NEW c \in Calls, MainLoop(c) PROVE SettingsInv'
  BY <1>1, <1>5, PipeSteps, PipeInv
<1>6. QED
  BY <1>2, <1>3, <1>4, <1>5, TypeInv, ElsewhereInv DEF Next

-----------------------------------------------------------------------------
\* The inductive invariant of the settings tab.
THEOREM SettingsInvariant == Spec => []SettingsInv
<1>1. SettingsInv /\ [Next]_vars => SettingsInv'
  BY SettingsInvStep
<1>2. QED
  BY <1>1, SettingsInitInv, PTL DEF Spec

\* The state of the tab is well formed: the server only ever holds a profile
\* with the required fields, and loads bring whole profiles.
THEOREM SettingsTypeCorrect == Spec => []SettingsTypeOK
<1>1. SettingsInv => SettingsTypeOK
  BY DEF SettingsInv
<1>2. QED
  BY <1>1, SettingsInvariant, PTL

\* The spinner and the keyboard keep a load from replacing what the user
\* types, until the tab is shown again or a button is pressed.
THEOREM TypingIsKept == Spec => []TypingIsSafe
<1>1. SettingsInv => TypingIsSafe
  <2>1. SUFFICES ASSUME SettingsInv, typed, NEW c \in Calls, op[c] = "load",
                        pipe[c] \in Unsettled, ~(appears > 1)
                 PROVE  \E d \in Calls : op[d] \in Ops \ {"load"}
    BY DEF TypingIsSafe
  <2>2. ~Quiet
    BY <2>1 DEF SettingsInv, QuietInv
  <2>3. QED
    BY <2>1, <2>2 DEF Quiet, SettingsInv, SettingsTypeOK, Ops
<1>2. QED
  BY <1>1, SettingsInvariant, PTL

\* A reported save is never undone by an older press, however many presses
\* wait in serialQueue and in the SDK and whichever of them timed out.
THEOREM SavesStay == Spec => []SavedStays
<1>1. SettingsInv => SavedStays
  BY DEF SettingsInv, SuccessInv, QueueInv, DateInv, SavedStays
<1>2. QED
  BY <1>1, SettingsInvariant, PTL

\* onAppear never brings back fields older than a submit made before it.
THEOREM ReadsAreOwn == Spec => []ReadsOwnSubmit
<1>1. SettingsInv => ReadsOwnSubmit
  BY DEF SettingsInv, QueueInv
<1>2. QED
  BY <1>1, SettingsInvariant, PTL
=============================================================================
