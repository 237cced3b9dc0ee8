------------------------ MODULE MailboxStatusProofs ------------------------
(* Proofs about MailboxStatus, for any number of mailboxes, evaluations,    *)
(* log rows and faults, and for any thresholds.                             *)
EXTENDS MailboxStatus, TLAPS

-----------------------------------------------------------------------------
(* Every step keeps the types of rows, counts and of what is under way.     *)
LEMMA CampaignOverIsBoolean == ASSUME NEW rows PROVE CampaignOver(rows) \in BOOLEAN
  BY DEF CampaignOver, Over

LEMMA MailboxOverIsBoolean == ASSUME NEW rows PROVE MailboxOver(rows) \in BOOLEAN
  BY DEF MailboxOver, Over

LEMMA FaultIsCounted ==
  ASSUME NEW kind, TypeOK, Fault(kind)
  PROVE  faults' \in 0..MaxFaults
  BY MailboxStatusAssumption DEF Fault, TypeOK

LEMMA Defaults ==
  /\ NewBox \in Box
  /\ IdleEval \in Eval
  /\ NoTick \in [todo : SUBSET Mailbox, read : [Mailbox -> Box]]
<1>1. NewBox \in Box
  BY MailboxStatusAssumption DEF NewBox, Box, MailboxStatus
<1>2. IdleEval \in Eval
  BY DEF IdleEval, Eval
<1> QED
  BY <1>1, <1>2 DEF NoTick

(* The two record updates the actions make.                                 *)
LEMMA RowMoves ==
  ASSUME TypeOK, NEW m \in Mailbox,
         \/ log' = [log EXCEPT ![m].sent = @ + 1]
         \/ log' = [log EXCEPT ![m].bounced = @ + 1]
         \/ log[m].sent > 0 /\ log' = [log EXCEPT ![m].sent = @ - 1, ![m].bounced = @ + 1]
         \/ log[m].oldSent > 0 /\ log' = [log EXCEPT ![m].oldSent = @ - 1, ![m].oldBounced = @ + 1]
         \/ log[m].sent > 0 /\ log' = [log EXCEPT ![m].sent = @ - 1, ![m].oldSent = @ + 1]
         \/ log[m].bounced > 0 /\ log' = [log EXCEPT ![m].bounced = @ - 1, ![m].oldBounced = @ + 1]
  PROVE  log' \in [Mailbox -> Rows]
<1> USE DEF TypeOK, Rows
<1>1. CASE log' = [log EXCEPT ![m].sent = @ + 1]
  BY <1>1
<1>2. CASE log' = [log EXCEPT ![m].bounced = @ + 1]
  BY <1>2
<1>3. CASE log[m].sent > 0 /\ log' = [log EXCEPT ![m].sent = @ - 1, ![m].bounced = @ + 1]
  BY <1>3, SMTT(60)
<1>4. CASE log[m].oldSent > 0 /\ log' = [log EXCEPT ![m].oldSent = @ - 1, ![m].oldBounced = @ + 1]
  BY <1>4, SMTT(60)
<1>5. CASE log[m].sent > 0 /\ log' = [log EXCEPT ![m].sent = @ - 1, ![m].oldSent = @ + 1]
  BY <1>5, SMTT(60)
<1>6. CASE log[m].bounced > 0 /\ log' = [log EXCEPT ![m].bounced = @ - 1, ![m].oldBounced = @ + 1]
  BY <1>6, SMTT(60)
<1> QED
  BY <1>1, <1>2, <1>3, <1>4, <1>5, <1>6

LEMMA BoxMoves ==
  ASSUME TypeOK, NEW m \in Mailbox, NEW s \in MailboxStatus, NEW on \in BOOLEAN,
         \/ box' = [box EXCEPT ![m].status = s, ![m].flagged = on]
         \/ box' = [box EXCEPT ![m].status = s, ![m].graduated = on]
  PROVE  box' \in [Mailbox -> Box]
<1>1. box[m] \in Box
  BY DEF TypeOK
<1>2. /\ [box[m] EXCEPT !.status = s, !.flagged = on] \in Box
      /\ [box[m] EXCEPT !.status = s, !.graduated = on] \in Box
  BY <1>1 DEF Box
<1>3. CASE box' = [box EXCEPT ![m].status = s, ![m].flagged = on]
  <2>1. box' = [box EXCEPT ![m] = [box[m] EXCEPT !.status = s, !.flagged = on]]
    BY <1>1, <1>3 DEF TypeOK, Box
  <2> QED
    BY <1>2, <2>1 DEF TypeOK
<1>4. CASE box' = [box EXCEPT ![m].status = s, ![m].graduated = on]
  <2>1. box' = [box EXCEPT ![m] = [box[m] EXCEPT !.status = s, !.graduated = on]]
    BY <1>1, <1>4 DEF TypeOK, Box
  <2> QED
    BY <1>2, <2>1 DEF TypeOK
<1> QED
  BY <1>3, <1>4

LEMMA TypeInit == Init => TypeOK
<1> SUFFICES ASSUME Init PROVE TypeOK
  OBVIOUS
<1>1. log \in [Mailbox -> Rows]
  BY DEF Init, Rows
<1>2. box \in [Mailbox -> Box] /\ eval \in [Mailbox \X Evaluation -> Eval]
  BY Defaults DEF Init
<1>3. faults \in 0..MaxFaults
  BY MailboxStatusAssumption DEF Init
<1> QED
  BY <1>1, <1>2, <1>3, Defaults DEF Init, TypeOK

(* Sends, bounces and the window change counts and start evaluations.       *)
LEMMA TypeLog ==
  ASSUME TypeOK,
         \/ \E m \in Mailbox : Send(m) \/ WindowSlides(m)
         \/ \E e \in Mailbox \X Evaluation :
              HardBounce(e) \/ HardBounceNotLogged(e) \/ BounceReported(e)
  PROVE  TypeOK'
<1> USE DEF TypeOK
<1> DEFINE Bool == owing' \in [Mailbox -> BOOLEAN] /\ cowing' \in BOOLEAN
<1>1. ASSUME StillOwing PROVE Bool
  BY <1>1, CampaignOverIsBoolean, MailboxOverIsBoolean DEF StillOwing
<1>2. ASSUME NEW m \in Mailbox, NowOwing(m) PROVE Bool
  BY <1>2, CampaignOverIsBoolean, MailboxOverIsBoolean DEF NowOwing
<1>3. ASSUME NEW e \in Mailbox \X Evaluation, Start(e)
      PROVE  eval' \in [Mailbox \X Evaluation -> Eval]
  BY <1>3 DEF Start, Eval
<1>4. ASSUME NEW m \in Mailbox, Send(m) PROVE TypeOK'
  BY <1>4, <1>1, RowMoves DEF Send
<1>5. ASSUME NEW m \in Mailbox, WindowSlides(m) PROVE TypeOK'
  <2>1. log' \in [Mailbox -> Rows]
    BY <1>5, RowMoves DEF WindowSlides
  <2> QED
    BY <1>5, <1>1, <2>1 DEF WindowSlides
<1>6. ASSUME NEW e \in Mailbox \X Evaluation, HardBounce(e) PROVE TypeOK'
  <2>1. e[1] \in Mailbox
    OBVIOUS
  <2>2. log' \in [Mailbox -> Rows]
    BY <1>6, <2>1, RowMoves DEF HardBounce
  <2> QED
    BY <1>6, <1>2, <1>3, <2>1, <2>2 DEF HardBounce
<1>7. ASSUME NEW e \in Mailbox \X Evaluation, HardBounceNotLogged(e) PROVE TypeOK'
  BY <1>7, <1>3, FaultIsCounted DEF HardBounceNotLogged, history
<1>8. ASSUME NEW e \in Mailbox \X Evaluation, BounceReported(e) PROVE TypeOK'
  <2>1. e[1] \in Mailbox
    OBVIOUS
  <2>2. log' \in [Mailbox -> Rows]
    BY <1>8, <2>1, RowMoves DEF BounceReported
  <2> QED
    BY <1>8, <1>2, <1>3, <2>1, <2>2 DEF BounceReported
<1> QED
  BY <1>4, <1>5, <1>6, <1>7, <1>8

LEMMA TypeEval ==
  ASSUME TypeOK, NEW e \in Mailbox \X Evaluation,
         EvalCount(e) \/ EvalMailbox(e) \/ EvalCampaign(e) \/ EvalWriteFails(e)
  PROVE  TypeOK'
<1> USE DEF TypeOK
<1>1. CASE EvalCount(e)
  <2>1. (~cpaused /\ CampaignOver(log)) \in BOOLEAN
    OBVIOUS
  <2> QED
    BY <1>1, <2>1, MailboxOverIsBoolean DEF EvalCount, Eval, history
<1>2. CASE EvalMailbox(e)
  <2>1. eval' \in [Mailbox \X Evaluation -> Eval]
    BY <1>2 DEF EvalMailbox, Eval
  <2>2. CASE eval[e].over
    <3>1. e[1] \in Mailbox /\ "PAUSED" \in MailboxStatus
      BY DEF MailboxStatus
    <3>2. box' \in [Mailbox -> Box]
      <4>1. box' = [box EXCEPT ![e[1]].status = "PAUSED", ![e[1]].flagged = TRUE]
        BY <1>2, <2>2 DEF EvalMailbox
      <4> QED
        BY <3>1, <4>1, BoxMoves
    <3>3. stopped' \in [Mailbox -> BOOLEAN] /\ unseen' \in SUBSET Mailbox
      <4>1. stopped' = [stopped EXCEPT ![e[1]] = TRUE]
        BY <1>2, <2>2 DEF EvalMailbox, Stops
      <4>2. unseen' = unseen \/ unseen' = unseen \cup {e[1]}
        BY <1>2, <2>2 DEF EvalMailbox, Stops
      <4>3. stopped' \in [Mailbox -> BOOLEAN]
        BY <4>1
      <4> QED
        BY <3>1, <4>2, <4>3
    <3>4. UNCHANGED <<log, cpaused, tick, faults, owing, cowing>>
      BY <1>2 DEF EvalMailbox
    <3> QED
      BY <2>1, <3>2, <3>3, <3>4
  <2>3. CASE ~eval[e].over
    BY <1>2, <2>1, <2>3 DEF EvalMailbox
  <2> QED
    BY <2>2, <2>3
<1>3. CASE EvalCampaign(e)
  BY <1>3 DEF EvalCampaign, IdleEval, Eval, history
<1>4. CASE EvalWriteFails(e)
  <2>1. eval' \in [Mailbox \X Evaluation -> Eval]
    <3>1. CASE eval' = [eval EXCEPT ![e].pc = "campaign"]
      BY <3>1 DEF Eval
    <3>2. CASE eval' = [eval EXCEPT ![e] = IdleEval]
      BY <3>2, Defaults
    <3> QED
      BY <1>4, <3>1, <3>2 DEF EvalWriteFails
  <2>2. faults' \in 0..MaxFaults
    BY <1>4, FaultIsCounted DEF EvalWriteFails
  <2> QED
    BY <1>4, <2>1, <2>2 DEF EvalWriteFails
<1> QED
  BY <1>1, <1>2, <1>3, <1>4

LEMMA TypeTick ==
  ASSUME TypeOK, TickReads \/ \E m \in Mailbox : TickDecides(m)
  PROVE  TypeOK'
<1> USE DEF TypeOK
<1>1. NewBox \in Box
  BY Defaults
<1>2. CASE TickReads
  BY <1>1, <1>2 DEF TickReads, Decidable, history
<1>3. ASSUME NEW m \in Mailbox, TickDecides(m) PROVE TypeOK'
  <2>1. box' \in [Mailbox -> Box]
    <3>1. PICK decision : box' = CASE decision = "graduate" ->
                        [box EXCEPT ![m].status = "ACTIVE", ![m].graduated = TRUE]
                    [] decision = "demote" ->
                        [box EXCEPT ![m].status = "WARMUP", ![m].graduated = FALSE]
                    [] OTHER -> box
      BY <1>3 DEF TickDecides
    <3> QED
      <4>1. "ACTIVE" \in MailboxStatus /\ "WARMUP" \in MailboxStatus
        BY DEF MailboxStatus
      <4>2. CASE box' = [box EXCEPT ![m].status = "ACTIVE", ![m].graduated = TRUE]
        BY <4>1, <4>2, BoxMoves
      <4>3. CASE box' = [box EXCEPT ![m].status = "WARMUP", ![m].graduated = FALSE]
        BY <4>1, <4>3, BoxMoves
      <4>4. CASE box' = box
        BY <4>4
      <4> QED
        BY <3>1, <4>2, <4>3, <4>4
  <2>2. tick' \in [todo : SUBSET Mailbox, read : [Mailbox -> Box]]
    BY <1>1, <1>3 DEF TickDecides
  <2>3. stopped' \in [Mailbox -> BOOLEAN] /\ owing' \in [Mailbox -> BOOLEAN]
    BY <1>3 DEF TickDecides
  <2> QED
    BY <1>3, <2>1, <2>2, <2>3 DEF TickDecides
<1> QED
  BY <1>2, <1>3

LEMMA TypeOwner ==
  ASSUME TypeOK,
         \/ \E m \in Mailbox : \/ \E on \in BOOLEAN : OwnerTurnsWarmup(m, on)
                               \/ \E s \in MailboxStatus : OwnerSetsStatus(m, s)
                               \/ DaysPass(m)
         \/ \E paused \in BOOLEAN : OwnerSetsCampaign(paused)
         \/ ApiDies
  PROVE  TypeOK'
<1> USE DEF TypeOK
<1>1. ASSUME NEW m \in Mailbox, NEW on \in BOOLEAN, OwnerTurnsWarmup(m, on) PROVE TypeOK'
  BY <1>1 DEF OwnerTurnsWarmup, Box, history
<1>2. ASSUME NEW m \in Mailbox, NEW s \in MailboxStatus, OwnerSetsStatus(m, s) PROVE TypeOK'
  <2>1. box' \in [Mailbox -> Box]
    BY <1>2 DEF OwnerSetsStatus, Box
  <2> QED
    BY <1>2, <2>1 DEF OwnerSetsStatus, Stops
<1>3. ASSUME NEW m \in Mailbox, DaysPass(m) PROVE TypeOK'
  <2>1. PICK d \in WarmupDays : box' = [box EXCEPT ![m].day = d]
    BY <1>3 DEF DaysPass
  <2>2. box' \in [Mailbox -> Box]
    BY <2>1 DEF Box
  <2>3. UNCHANGED <<log, cpaused, eval, tick, faults, stopped, unseen, owing, cowing>>
    BY <1>3 DEF DaysPass, history
  <2> QED
    BY <2>2, <2>3
<1>4. ASSUME NEW paused \in BOOLEAN, OwnerSetsCampaign(paused) PROVE TypeOK'
  BY <1>4, Zenon DEF OwnerSetsCampaign
<1>5. CASE ApiDies
  BY <1>5, Defaults, FaultIsCounted DEF ApiDies
<1> QED
  BY <1>1, <1>2, <1>3, <1>4, <1>5

LEMMA TypeStep == TypeOK /\ [Next]_vars => TypeOK'
<1> SUFFICES ASSUME TypeOK, [Next]_vars PROVE TypeOK'
  OBVIOUS
<1>1. CASE Next
  BY <1>1, TypeLog, TypeEval, TypeTick, TypeOwner DEF Next
<1>2. CASE UNCHANGED vars
  BY <1>2 DEF vars, history, TypeOK
<1> QED
  BY <1>1, <1>2

(* Rows, counts, evaluations and the tick's reads keep their types, for any *)
(* thresholds and any number of rows.                                       *)
THEOREM StatusTypes == Spec => []TypeOK
  BY TypeInit, TypeStep, PTL DEF Spec

-----------------------------------------------------------------------------
(* Time and the warm-up switch leave every status alone.                    *)
LEMMA StatusUntouched ==
  ASSUME TypeOK, NEW m \in Mailbox, DaysPass(m) \/ \E on \in BOOLEAN : OwnerTurnsWarmup(m, on)
  PROVE  \A n \in Mailbox : box'[n].status = box[n].status
<1>1. \A n \in Mailbox : box[n] \in Box
  BY DEF TypeOK
<1>2. CASE DaysPass(m)
  BY <1>1, <1>2 DEF DaysPass, TypeOK, Box
<1>3. ASSUME NEW on \in BOOLEAN, OwnerTurnsWarmup(m, on)
      PROVE  \A n \in Mailbox : box'[n].status = box[n].status
  BY <1>1, <1>3 DEF OwnerTurnsWarmup, TypeOK, Box
<1> QED
  BY <1>2, <1>3

(* A stop that the tick under way can overwrite is one it has not seen, and *)
(* what is owing is over its limit.                                         *)
IStop ==
  /\ StopHolds
  /\ \A m \in tick.todo : box[m].status = "PAUSED" => m \in unseen

IOwing ==
  /\ BreakerCatches
  /\ \A m \in Mailbox : owing[m] => MailboxOver(log[m])

LEMMA StopInit == Init => IStop /\ IOwing
  BY DEF Init, IStop, IOwing, StopHolds, BreakerCatches, NoTick

(* Steps that write neither a status nor the history of stops.              *)
LEMMA StopElsewhere ==
  ASSUME IStop, UNCHANGED <<box, stopped>>,
         tick'.todo \subseteq tick.todo, unseen' \cap tick'.todo = unseen \cap tick'.todo
  PROVE  IStop'
  BY DEF IStop, StopHolds

LEMMA StopTick ==
  ASSUME TypeOK, IStop, TickReads \/ \E m \in Mailbox : TickDecides(m)
  PROVE  IStop'
<1>1. CASE TickReads
  BY <1>1 DEF TickReads, Decidable, IStop, StopHolds, history
<1>2. ASSUME NEW m \in Mailbox, TickDecides(m) PROVE IStop'
  <2>1. PICK decision : /\ box' = CASE decision = "graduate" ->
                              [box EXCEPT ![m].status = "ACTIVE", ![m].graduated = TRUE]
                          [] decision = "demote" ->
                              [box EXCEPT ![m].status = "WARMUP", ![m].graduated = FALSE]
                          [] OTHER -> box
                        /\ stopped' = [stopped EXCEPT ![m] = @ /\ ~(decision # "none" /\ m \in unseen)]
    BY <1>2 DEF TickDecides
  <2>2. /\ m \in tick.todo
        /\ tick'.todo = tick.todo \ {m}
        /\ unseen' = unseen \ {m}
    BY <1>2 DEF TickDecides
  <2>3. ASSUME NEW n \in Mailbox, n # m
        PROVE  box'[n] = box[n] /\ stopped'[n] = stopped[n]
    BY <2>1, <2>3 DEF TypeOK
  <2>4. stopped'[m] => box'[m].status = "PAUSED"
    <3>1. CASE decision \in {"graduate", "demote"}
      BY <2>1, <2>2, <3>1 DEF TypeOK, IStop, StopHolds
    <3>2. CASE decision \notin {"graduate", "demote"}
      BY <2>1, <3>2 DEF TypeOK, IStop, StopHolds
    <3> QED
      BY <3>1, <3>2
  <2> QED
    BY <2>2, <2>3, <2>4 DEF TypeOK, IStop, StopHolds
<1> QED
  BY <1>1, <1>2

LEMMA StopStep == TypeOK /\ IStop /\ [Next]_vars => IStop'
<1> SUFFICES ASSUME TypeOK, IStop, [Next]_vars PROVE IStop'
  OBVIOUS
<1>1. CASE \E m \in Mailbox : Send(m) \/ WindowSlides(m)
  BY <1>1, StopElsewhere DEF Send, WindowSlides
<1>2. CASE \E e \in Mailbox \X Evaluation :
             HardBounce(e) \/ HardBounceNotLogged(e) \/ BounceReported(e)
  BY <1>2, StopElsewhere DEF HardBounce, HardBounceNotLogged, BounceReported, history
<1>3. CASE \E e \in Mailbox \X Evaluation :
             EvalCount(e) \/ EvalCampaign(e) \/ EvalWriteFails(e)
  BY <1>3, StopElsewhere DEF EvalCount, EvalCampaign, EvalWriteFails, history
<1>4. ASSUME NEW e \in Mailbox \X Evaluation, EvalMailbox(e) PROVE IStop'
  <2>1. CASE eval[e].over
    BY <1>4, <2>1 DEF EvalMailbox, Stops, TypeOK, Box, IStop, StopHolds
  <2>2. CASE ~eval[e].over
    BY <1>4, <2>2, StopElsewhere DEF EvalMailbox
  <2> QED
    BY <2>1, <2>2
<1>5. CASE TickReads \/ \E m \in Mailbox : TickDecides(m)
  BY <1>5, StopTick
<1>6. CASE \E m \in Mailbox : DaysPass(m) \/ \E on \in BOOLEAN : OwnerTurnsWarmup(m, on)
  <2>1. \A n \in Mailbox : box'[n].status = box[n].status
    BY <1>6, StatusUntouched
  <2>2. UNCHANGED <<tick, stopped, unseen>>
    BY <1>6 DEF DaysPass, OwnerTurnsWarmup, history
  <2> QED
    BY <2>1, <2>2 DEF TypeOK, IStop, StopHolds
<1>7. ASSUME NEW m \in Mailbox, NEW s \in MailboxStatus, OwnerSetsStatus(m, s) PROVE IStop'
  <2>1. CASE s = "PAUSED"
    BY <1>7, <2>1 DEF OwnerSetsStatus, Stops, TypeOK, Box, IStop, StopHolds
  <2>2. CASE s # "PAUSED"
    BY <1>7, <2>2 DEF OwnerSetsStatus, TypeOK, Box, IStop, StopHolds
  <2> QED
    BY <2>1, <2>2
<1>8. CASE \E paused \in BOOLEAN : OwnerSetsCampaign(paused)
  BY <1>8, StopElsewhere DEF OwnerSetsCampaign
<1>9. CASE ApiDies
  BY <1>9, StopElsewhere DEF ApiDies, NoTick
<1>10. CASE UNCHANGED vars
  BY <1>10, StopElsewhere DEF vars, history
<1> QED
  BY <1>1, <1>2, <1>3, <1>4, <1>5, <1>6, <1>7, <1>8, <1>9, <1>10 DEF Next

(* A mailbox stopped by its owner or by the breaker stays PAUSED until the  *)
(* owner starts it, but for a stop inside a tick's read and write of it.    *)
THEOREM StopIsKept == Spec => []StopHolds
<1>1. TypeOK /\ IStop /\ [Next]_vars => (TypeOK /\ IStop)'
  BY TypeStep, StopStep
<1>2. IStop => StopHolds
  BY DEF IStop
<1> QED
  BY TypeInit, StopInit, <1>1, <1>2, PTL DEF Spec

-----------------------------------------------------------------------------
(* The breaker: an evaluation that has counted keeps what it found; one     *)
(* that has not counted yet will count at least what is owing now.          *)
Pending(m, k) ==
  \/ eval[<<m, k>>].pc = "count"
  \/ (eval[<<m, k>>].pc = "mailbox" /\ eval[<<m, k>>].over)

(* Steps that end no pending evaluation and lift no stop.                   *)
LEMMA OwingElsewhere ==
  ASSUME IOwing,
         \A m \in Mailbox : owing'[m] => owing[m] /\ MailboxOver(log'[m]),
         \A m \in Mailbox : owing'[m] /\ box[m].status = "PAUSED" => box'[m].status = "PAUSED",
         \A m \in Mailbox, k \in Evaluation :
            owing'[m] /\ Pending(m, k) => Pending(m, k)' \/ box'[m].status = "PAUSED"
  PROVE  IOwing'
  BY DEF IOwing, BreakerCatches, Pending

LEMMA OwingStep == TypeOK /\ IStop /\ IOwing /\ [Next]_vars => IOwing'
<1> SUFFICES ASSUME TypeOK, IStop, IOwing, [Next]_vars PROVE IOwing'
  OBVIOUS
<1>1. CASE \E m \in Mailbox : Send(m) \/ WindowSlides(m)
  BY <1>1, OwingElsewhere DEF Send, WindowSlides, StillOwing, Pending
<1>2. ASSUME NEW e \in Mailbox \X Evaluation, HardBounce(e) \/ BounceReported(e) PROVE IOwing'
  <2>1. PICK m \in Mailbox, k \in Evaluation : e = <<m, k>>
    OBVIOUS
  <2>2. eval'[<<m, k>>].pc = "count"
    BY <1>2, <2>1 DEF HardBounce, BounceReported, Start, TypeOK, Eval
  <2>3. \A n \in Mailbox, j \in Evaluation : n # m => eval'[<<n, j>>] = eval[<<n, j>>]
    BY <1>2, <2>1 DEF HardBounce, BounceReported, Start, TypeOK
  <2>4. /\ owing' = [owing EXCEPT ![m] = MailboxOver(log'[m])]
        /\ box' = box
        /\ \A n \in Mailbox : n # m => log'[n] = log[n]
    BY <1>2, <2>1 DEF HardBounce, BounceReported, NowOwing, TypeOK
  <2>5. ASSUME NEW n \in Mailbox, owing'[n]
        PROVE  /\ MailboxOver(log'[n])
               /\ box'[n].status = "PAUSED" \/ \E j \in Evaluation : Pending(n, j)'
    <3>1. CASE n = m
      <4>1. owing'[m] = MailboxOver(log'[m])
        BY <2>4 DEF TypeOK
      <4>2. MailboxOver(log'[n])
        BY <2>5, <3>1, <4>1
      <4>3. Pending(m, k)'
        BY <2>2 DEF Pending
      <4> QED
        BY <3>1, <4>2, <4>3
    <3>2. CASE n # m
      <4>1. owing[n] /\ log'[n] = log[n] /\ box' = box
        BY <2>4, <2>5, <3>2 DEF TypeOK
      <4>2. MailboxOver(log[n])
        BY <4>1 DEF IOwing
      <4>3. MailboxOver(log'[n])
        BY <4>1, <4>2
      <4>4. box[n].status = "PAUSED" \/ \E j \in Evaluation : Pending(n, j)
        BY <4>1 DEF IOwing, BreakerCatches, Pending
      <4>5. \A j \in Evaluation : Pending(n, j) => Pending(n, j)'
        BY <2>3, <3>2 DEF Pending
      <4> QED
        BY <4>1, <4>3, <4>4, <4>5
    <3> QED
      BY <3>1, <3>2
  <2> QED
    BY <2>5 DEF IOwing, BreakerCatches, Pending
<1>3. ASSUME NEW e \in Mailbox \X Evaluation,
             HardBounceNotLogged(e) \/ EvalCampaign(e) \/ EvalWriteFails(e)
      PROVE  IOwing'
  <2>1. /\ UNCHANGED <<box, log>>
        /\ \A m \in Mailbox : owing'[m] => owing[m]
    BY <1>3 DEF HardBounceNotLogged, EvalCampaign, EvalWriteFails, history, TypeOK
  <2>2. \A m \in Mailbox, k \in Evaluation :
           owing'[m] /\ Pending(m, k) => Pending(m, k)'
    BY <1>3 DEF HardBounceNotLogged, Start, EvalCampaign, EvalWriteFails, history, TypeOK, Eval, Pending
  <2> QED
    BY <2>1, <2>2, OwingElsewhere DEF IOwing
<1>4. ASSUME NEW e \in Mailbox \X Evaluation, EvalCount(e) PROVE IOwing'
  <2>1. UNCHANGED <<box, log, owing>>
    BY <1>4 DEF EvalCount, history
  <2>2. \A m \in Mailbox, k \in Evaluation :
           owing'[m] /\ Pending(m, k) => Pending(m, k)'
    BY <1>4, <2>1 DEF EvalCount, TypeOK, Eval, Pending, IOwing
  <2> QED
    BY <2>1, <2>2, OwingElsewhere DEF IOwing
<1>5. ASSUME NEW e \in Mailbox \X Evaluation, EvalMailbox(e) PROVE IOwing'
  <2>1. UNCHANGED <<log, owing>>
    BY <1>5 DEF EvalMailbox
  <2>2. /\ e[1] \in Mailbox
        /\ eval[e].over => box'[e[1]].status = "PAUSED"
        /\ \A m \in Mailbox : box[m].status = "PAUSED" => box'[m].status = "PAUSED"
    <3>1. e[1] \in Mailbox
      OBVIOUS
    <3>2. CASE eval[e].over
      <4>1. box' = [box EXCEPT ![e[1]].status = "PAUSED", ![e[1]].flagged = TRUE]
        BY <1>5, <3>2 DEF EvalMailbox
      <4> QED
        BY <3>1, <4>1 DEF TypeOK, Box
    <3>3. CASE ~eval[e].over
      BY <1>5, <3>1, <3>3 DEF EvalMailbox
    <3> QED
      BY <3>1, <3>2, <3>3
  <2>3. \A m \in Mailbox, k \in Evaluation :
           Pending(m, k) => Pending(m, k)' \/ box'[m].status = "PAUSED"
    BY <1>5, <2>2 DEF EvalMailbox, TypeOK, Eval, Pending
  <2> QED
    BY <2>1, <2>2, <2>3, OwingElsewhere DEF IOwing
<1>6. CASE TickReads
  BY <1>6, OwingElsewhere DEF TickReads, history, IOwing, Pending
<1>7. ASSUME NEW m \in Mailbox, TickDecides(m) PROVE IOwing'
  <2>1. PICK decision : /\ box' = CASE decision = "graduate" ->
                              [box EXCEPT ![m].status = "ACTIVE", ![m].graduated = TRUE]
                          [] decision = "demote" ->
                              [box EXCEPT ![m].status = "WARMUP", ![m].graduated = FALSE]
                          [] OTHER -> box
                        /\ owing' = [owing EXCEPT ![m] = @ /\ ~(decision # "none" /\ m \in unseen)]
    BY <1>7 DEF TickDecides
  <2>2. m \in tick.todo /\ UNCHANGED <<log, eval>>
    BY <1>7 DEF TickDecides
  <2>3. \A n \in Mailbox : owing'[n] => owing[n]
    BY <2>1 DEF TypeOK
  <2>4. \A n \in Mailbox : n # m => box'[n] = box[n]
    BY <2>1 DEF TypeOK
  <2>5. owing'[m] /\ box[m].status = "PAUSED" => box'[m].status = "PAUSED"
    <3>1. CASE decision \in {"graduate", "demote"}
      BY <2>1, <2>2, <3>1 DEF TypeOK, IStop
    <3>2. CASE decision \notin {"graduate", "demote"}
      BY <2>1, <3>2
    <3> QED
      BY <3>1, <3>2
  <2>6. \A n \in Mailbox, k \in Evaluation : Pending(n, k) => Pending(n, k)'
    BY <2>2 DEF Pending
  <2>7. \A n \in Mailbox : owing'[n] /\ box[n].status = "PAUSED" => box'[n].status = "PAUSED"
    BY <2>4, <2>5
  <2>8. \A n \in Mailbox : owing'[n] => owing[n] /\ MailboxOver(log'[n])
    BY <2>2, <2>3 DEF IOwing
  <2> QED
    BY <2>6, <2>7, <2>8, OwingElsewhere
<1>8. CASE \E m \in Mailbox : DaysPass(m) \/ \E on \in BOOLEAN : OwnerTurnsWarmup(m, on)
  <2>1. \A n \in Mailbox : box'[n].status = box[n].status
    BY <1>8, StatusUntouched
  <2>2. UNCHANGED <<log, eval, owing>>
    BY <1>8 DEF DaysPass, OwnerTurnsWarmup, history
  <2> QED
    BY <2>1, <2>2, OwingElsewhere DEF IOwing, Pending
<1>9. ASSUME NEW m \in Mailbox, NEW s \in MailboxStatus, OwnerSetsStatus(m, s) PROVE IOwing'
  <2>1. UNCHANGED <<log, eval>>
    BY <1>9 DEF OwnerSetsStatus
  <2>2. \A n \in Mailbox : /\ owing'[n] => owing[n]
                          /\ owing'[n] /\ box[n].status = "PAUSED" => box'[n].status = "PAUSED"
    <3>1. box'[m].status = s /\ \A n \in Mailbox : n # m => box'[n] = box[n]
      BY <1>9 DEF OwnerSetsStatus, TypeOK, Box
    <3>2. /\ \A n \in Mailbox : owing'[n] => owing[n]
          /\ s # "PAUSED" => ~owing'[m]
      BY <1>9 DEF OwnerSetsStatus, TypeOK
    <3> QED
      BY <3>1, <3>2
  <2>3. \A n \in Mailbox : owing[n] => MailboxOver(log[n])
    BY DEF IOwing
  <2>4. log' = log
    BY <2>1
  <2>5. ASSUME NEW n \in Mailbox, owing'[n] PROVE owing[n] /\ MailboxOver(log'[n])
    <3>1. owing[n]
      BY <1>9, <2>5 DEF OwnerSetsStatus, TypeOK
    <3>2. log'[n] = log[n]
      BY <2>4
    <3>3. MailboxOver(log[n])
      BY <2>3, <3>1
    <3> QED
      BY <3>1, <3>2, <3>3
  <2>6. \A n \in Mailbox, k \in Evaluation : Pending(n, k) => Pending(n, k)'
    BY <2>1 DEF Pending
  <2> QED
    BY <2>2, <2>5, <2>6, OwingElsewhere
<1>10. CASE \E paused \in BOOLEAN : OwnerSetsCampaign(paused)
  BY <1>10, OwingElsewhere DEF OwnerSetsCampaign, IOwing, Pending
<1>11. CASE ApiDies
  BY <1>11 DEF ApiDies, IOwing, BreakerCatches, TypeOK
<1>12. CASE UNCHANGED vars
  BY <1>12, OwingElsewhere DEF vars, history, IOwing, Pending
<1> QED
  BY <1>1, <1>2, <1>3, <1>4, <1>5, <1>6, <1>7, <1>8, <1>9, <1>10, <1>11, <1>12 DEF Next

(* However many evaluations overlap, no bounce that takes a mailbox over    *)
(* its limit is missed, whatever the limit and the sample are.              *)
THEOREM BreakerIsSound == Spec => []BreakerCatches
<1>1. TypeOK /\ IStop /\ IOwing /\ [Next]_vars => (TypeOK /\ IStop /\ IOwing)'
  BY TypeStep, StopStep, OwingStep
<1>2. IOwing => BreakerCatches
  BY DEF IOwing
<1> QED
  BY TypeInit, StopInit, <1>1, <1>2, PTL DEF Spec

-----------------------------------------------------------------------------
(* The campaign's breaker, on the counts of all its mailboxes: an           *)
(* evaluation carries its answer through two steps instead of one.          *)
PendingCampaign(e) ==
  \/ eval[e].pc = "count"
  \/ eval[e].pc \in {"mailbox", "campaign"} /\ eval[e].campaignOver

ICampaign ==
  /\ CampaignCaught
  /\ cowing => CampaignOver(log)

LEMMA CampaignInit == Init => ICampaign
  BY DEF Init, ICampaign, CampaignCaught

(* Steps that end no pending evaluation and start the campaign no more.     *)
LEMMA CampaignElsewhere ==
  ASSUME ICampaign,
         cowing' => cowing /\ CampaignOver(log'),
         cowing' /\ cpaused => cpaused',
         \A e \in Mailbox \X Evaluation :
            cowing' /\ PendingCampaign(e) => PendingCampaign(e)' \/ cpaused'
  PROVE  ICampaign'
  BY DEF ICampaign, CampaignCaught, PendingCampaign

LEMMA CampaignStep == TypeOK /\ ICampaign /\ [Next]_vars => ICampaign'
<1> SUFFICES ASSUME TypeOK, ICampaign, [Next]_vars PROVE ICampaign'
  OBVIOUS
<1>1. CASE \E m \in Mailbox : Send(m) \/ WindowSlides(m)
  <2>1. UNCHANGED <<cpaused, eval>> /\ (cowing' => cowing /\ CampaignOver(log'))
    BY <1>1 DEF Send, WindowSlides, StillOwing
  <2> QED
    BY <2>1, CampaignElsewhere DEF PendingCampaign
<1>2. ASSUME NEW e \in Mailbox \X Evaluation, HardBounce(e) \/ BounceReported(e)
      PROVE  ICampaign'
  <2>1. eval'[e].pc = "count"
    BY <1>2 DEF HardBounce, BounceReported, Start, TypeOK, Eval
  <2>2. cowing' = CampaignOver(log')
    BY <1>2 DEF HardBounce, BounceReported, NowOwing
  <2> QED
    BY <2>1, <2>2 DEF ICampaign, CampaignCaught
<1>3. ASSUME NEW e \in Mailbox \X Evaluation, HardBounceNotLogged(e) PROVE ICampaign'
  <2>1. UNCHANGED <<log, cpaused, cowing>>
    BY <1>3 DEF HardBounceNotLogged, history
  <2>2. \A f \in Mailbox \X Evaluation : PendingCampaign(f) => PendingCampaign(f)'
    BY <1>3 DEF HardBounceNotLogged, Start, TypeOK, Eval, PendingCampaign
  <2> QED
    BY <2>1, <2>2, CampaignElsewhere DEF ICampaign
<1>4. ASSUME NEW e \in Mailbox \X Evaluation, EvalCount(e) PROVE ICampaign'
  <2>1. UNCHANGED <<log, cpaused, cowing>>
    BY <1>4 DEF EvalCount, history
  <2>2. /\ eval'[e].pc = "mailbox"
        /\ eval'[e].campaignOver = (~cpaused /\ CampaignOver(log))
        /\ \A f \in Mailbox \X Evaluation : f # e => eval'[f] = eval[f]
    BY <1>4 DEF EvalCount, TypeOK
  <2>3. \A f \in Mailbox \X Evaluation :
           cowing' /\ PendingCampaign(f) => PendingCampaign(f)' \/ cpaused'
    BY <2>1, <2>2 DEF ICampaign, PendingCampaign
  <2> QED
    BY <2>1, <2>3, CampaignElsewhere DEF ICampaign
<1>5. ASSUME NEW e \in Mailbox \X Evaluation, EvalMailbox(e) PROVE ICampaign'
  <2>1. UNCHANGED <<log, cpaused, cowing>>
    BY <1>5 DEF EvalMailbox
  <2>2. \A f \in Mailbox \X Evaluation : PendingCampaign(f) => PendingCampaign(f)'
    BY <1>5 DEF EvalMailbox, TypeOK, Eval, PendingCampaign
  <2> QED
    BY <2>1, <2>2, CampaignElsewhere DEF ICampaign
<1>6. ASSUME NEW e \in Mailbox \X Evaluation, EvalCampaign(e) PROVE ICampaign'
  <2>1. UNCHANGED <<log, cowing>> /\ cpaused' = (cpaused \/ eval[e].campaignOver)
    BY <1>6 DEF EvalCampaign, history
  <2>2. eval[e].pc = "campaign" /\ \A f \in Mailbox \X Evaluation : f # e => eval'[f] = eval[f]
    BY <1>6 DEF EvalCampaign, TypeOK
  <2>3. \A f \in Mailbox \X Evaluation :
           PendingCampaign(f) => PendingCampaign(f)' \/ cpaused'
    BY <2>1, <2>2 DEF PendingCampaign
  <2> QED
    BY <2>1, <2>3, CampaignElsewhere DEF ICampaign
<1>7. ASSUME NEW e \in Mailbox \X Evaluation, EvalWriteFails(e) PROVE ICampaign'
  <2>1. UNCHANGED <<log, cpaused>>
    BY <1>7 DEF EvalWriteFails
  <2>2. \/ cowing' = FALSE
        \/ cowing' = cowing /\ eval[e].pc = "mailbox" /\ eval' = [eval EXCEPT ![e].pc = "campaign"]
    BY <1>7 DEF EvalWriteFails
  <2>3. \A f \in Mailbox \X Evaluation :
           cowing' /\ PendingCampaign(f) => PendingCampaign(f)'
    BY <2>2 DEF TypeOK, Eval, PendingCampaign
  <2> QED
    BY <2>1, <2>2, <2>3, CampaignElsewhere DEF ICampaign
<1>8. CASE TickReads \/ \E m \in Mailbox : TickDecides(m)
  <2>1. UNCHANGED <<log, cpaused, eval, cowing>>
    BY <1>8 DEF TickReads, TickDecides, history
  <2> QED
    BY <2>1, CampaignElsewhere DEF ICampaign, PendingCampaign
<1>9. CASE \E m \in Mailbox : \/ DaysPass(m)
                             \/ \E on \in BOOLEAN : OwnerTurnsWarmup(m, on)
                             \/ \E s \in MailboxStatus : OwnerSetsStatus(m, s)
  <2>1. UNCHANGED <<log, cpaused, eval, cowing>>
    BY <1>9 DEF DaysPass, OwnerTurnsWarmup, OwnerSetsStatus, history
  <2> QED
    BY <2>1, CampaignElsewhere DEF ICampaign, PendingCampaign
<1>10. ASSUME NEW paused \in BOOLEAN, OwnerSetsCampaign(paused) PROVE ICampaign'
  <2>1. UNCHANGED <<log, eval>> /\ cpaused' = paused /\ cowing' = (cowing /\ paused)
    BY <1>10 DEF OwnerSetsCampaign
  <2> QED
    BY <2>1, CampaignElsewhere DEF ICampaign, PendingCampaign
<1>11. CASE ApiDies
  <2>1. UNCHANGED <<log, cpaused>> /\ cowing' = (cowing /\ cpaused)
    BY <1>11 DEF ApiDies
  <2> QED
    BY <2>1 DEF ICampaign, CampaignCaught
<1>12. CASE UNCHANGED vars
  BY <1>12, CampaignElsewhere DEF vars, history, ICampaign, PendingCampaign
<1> QED
  BY <1>1, <1>2, <1>3, <1>4, <1>5, <1>6, <1>7, <1>8, <1>9, <1>10, <1>11, <1>12 DEF Next

(* No bounce that takes the campaign over its limit is missed, over any     *)
(* number of mailboxes and however their evaluations overlap.               *)
THEOREM CampaignBreakerIsSound == Spec => []CampaignCaught
<1>1. TypeOK /\ ICampaign /\ [Next]_vars => (TypeOK /\ ICampaign)'
  BY TypeStep, CampaignStep
<1>2. ICampaign => CampaignCaught
  BY DEF ICampaign
<1> QED
  BY TypeInit, CampaignInit, <1>1, <1>2, PTL DEF Spec

=============================================================================
