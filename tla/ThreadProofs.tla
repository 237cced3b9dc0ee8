---------------------------- MODULE ThreadProofs ----------------------------
(***************************************************************************)
(* Theorems of Dispatch about the thread a lead receives, for every number *)
(* of leads, mailboxes, ticks and executions, Slow or not: every mail is   *)
(* counted up to the faults, no thread is longer than its sequence by more *)
(* than the faults, and it has one sender as long as no send fails, or one *)
(* more for each fault.  Nor is a lead forgotten that no mail has reached, *)
(* when the worker dies; and with Slow left out, a reply is crossed by one *)
(* mail and one more for each fault.                                       *)
(***************************************************************************)
EXTENDS DispatchProofs

-----------------------------------------------------------------------------
(* A step of a lead's sequence, from the day it is due to the day the next   *)
(* one is.  ToSend are the executions that may still mail the lead, Sent     *)
(* those that have and are about to write it down.                           *)
Unsent == {"compose", "send", "smtp"}
Unwritten == {"sent", "record"}

ToSend(l) == Inflight(l, Unsent)
Sent(l) == Inflight(l, Unwritten)

\* The processor still listens to one of them ...
Heard(l) == \E f \in ToSend(l) \union Sent(l) : flight[f].awaited

\* ... or is about to start one.
AboutTo(l) == worker.pc = "ready" /\ worker.job \in JobsOf(l)

One(b) == IF b THEN 1 ELSE 0

(* b mails were counted when the step began.  Until its mail is written     *)
(* down, all but the execution that is listened to are paid for by a fault   *)
(* each; none of them sees a smaller count than b.                           *)
Due(l, b) == mailed[l] + Cardinality(ToSend(l)) <= b + faults + One(Heard(l))

(* Once it is, no job of the lead passes the processor until the next date   *)
(* comes, and a date does not come while an execution is under way.          *)
Paid(l, b) ==
  /\ b <= FollowUps
  /\ b < lead[l].stepsSent
  /\ lead[l].nextStepAt # "now"
  /\ mailed[l] + Cardinality(ToSend(l)) + One(AboutTo(l)) <= b + 1 + faults

OnStep(l, b) ==
  /\ b <= lead[l].stepsSent
  /\ \A f \in Inflight(l, {"record"}) : b <= flight[f].stepsRead
  /\ Inflight(l, {"send", "smtp", "sent", "record"}) # {} => b <= FollowUps
  /\ Due(l, b) \/ Paid(l, b)

Steps == \A l \in Lead : \E b \in 0..(FollowUps + 1) : OnStep(l, b)

\* Nothing is counted that did not leave, nor will be.
CountsMails(l) ==
  /\ lead[l].stepsSent + Cardinality(Sent(l)) <= mailed[l]
  /\ \A f \in Inflight(l, {"record"}) : flight[f].stepsRead + Cardinality(Sent(l)) <= mailed[l]

NothingElse == \A l \in Lead : CountsMails(l)

\* The processor awaits one execution, or none.
OneListener ==
  /\ \A f \in Flight : flight[f].awaited => worker.pc = "await"
  /\ \A f, g \in Flight : flight[f].awaited /\ flight[g].awaited => f = g

-----------------------------------------------------------------------------
(* Lemmas on rows and on sets of executions.                                *)

\* r counts the mails of row, and is not due when row is not.
KeepsStep(r, row) ==
  r.stepsSent = row.stepsSent /\ (r.nextStepAt = "now" => row.nextStepAt = "now")

LEMMA WritesKeepStep ==
  ASSUME NEW row \in Row, NEW job \in JobId \union {NoJob}, NEW followUp \in BOOLEAN, NEW seen,
         NEW steps, NEW retries
  PROVE  /\ KeepsStep(bookFollowUp(row, job), row) /\ KeepsStep(bookFirstEmail(row, job), row)
         /\ KeepsStep(releaseLead(row, followUp), row)
         /\ KeepsStep(stopDeadAddress(row), row) /\ KeepsStep(askAgainLater(row), row)
         /\ KeepsStep(dispatchFailed(row, followUp, seen), row)
         /\ KeepsStep(hardBounce(row), row) /\ KeepsStep(endSequence(row), row)
         /\ KeepsStep(suppressAtSend(row), row) /\ KeepsStep(suppressEmail(row), row)
         /\ KeepsStep(replyArrives(row), row) /\ KeepsStep(bounceReported(row), row)
         /\ KeepsStep(softFailure(row, steps, retries), row)
<1>1. /\ KeepsStep(bookFollowUp(row, job), row) /\ KeepsStep(bookFirstEmail(row, job), row)
      /\ KeepsStep(releaseLead(row, followUp), row)
  BY DEF KeepsStep, bookFollowUp, bookFirstEmail, releaseLead, Unqueued, Row
<1>2. /\ KeepsStep(stopDeadAddress(row), row) /\ KeepsStep(askAgainLater(row), row)
      /\ KeepsStep(dispatchFailed(row, followUp, seen), row)
  BY DEF KeepsStep, stopDeadAddress, askAgainLater, dispatchFailed, Unqueued, Row
<1>3. /\ KeepsStep(hardBounce(row), row) /\ KeepsStep(endSequence(row), row)
      /\ KeepsStep(suppressAtSend(row), row) /\ KeepsStep(suppressEmail(row), row)
  BY DEF KeepsStep, hardBounce, endSequence, suppressAtSend, suppressEmail, Unqueued, Row
<1>4. KeepsStep(replyArrives(row), row) /\ KeepsStep(bounceReported(row), row)
  BY DEF KeepsStep, replyArrives, bounceReported, Unqueued, Row
<1>5. KeepsStep(softFailure(row, steps, retries), row)
  BY DEF KeepsStep, softFailure, Unqueued, Row
<1> QED
  BY <1>1, <1>2, <1>3, <1>4, <1>5

\* A write of the lead's row that leaves its step alone, and every other row.
RowsKeepStep == \A l \in Lead : KeepsStep(lead'[l], lead[l])

LEMMA WriteKeepsStep ==
  ASSUME TypeOK, NEW k \in Lead, NEW r, KeepsStep(r, lead[k]), lead' = [lead EXCEPT ![k] = r]
  PROVE  RowsKeepStep
BY DEF RowsKeepStep, KeepsStep, TypeOK, DbOK

LEMMA RowsSame ==
  ASSUME UNCHANGED lead
  PROVE  RowsKeepStep
BY DEF RowsKeepStep, KeepsStep

\* Executions are finitely many.
LEMMA InflightFinite ==
  ASSUME NEW l, NEW pcs
  PROVE  /\ IsFiniteSet(Inflight(l, pcs)) /\ Cardinality(Inflight(l, pcs)) \in Nat
         /\ (Inflight(l, pcs) # {} => Cardinality(Inflight(l, pcs)) > 0)
<1>1. Inflight(l, pcs) \in SUBSET Flight
  BY DEF Inflight
<1>2. IsFiniteSet(Inflight(l, pcs)) /\ Cardinality(Inflight(l, pcs)) \in Nat
  BY <1>1, DispatchAssumption, FS_Subset, FS_CardinalityType
<1>3. Cardinality(Inflight(l, pcs)) = 0 <=> Inflight(l, pcs) = {}
  BY <1>2, FS_EmptySet
<1> QED
  BY <1>2, <1>3

\* One execution of lead l goes on, or is over.
Moves(f, r, l) ==
  /\ r \in FlightState
  /\ flight[f].job \in JobsOf(l)
  /\ flight' = [flight EXCEPT ![f] = r]
  /\ \/ r.job = flight[f].job /\ r.awaited = flight[f].awaited
     \/ r.pc = "idle"

LEMMA SetMoves ==
  ASSUME FlightsOK, NEW l \in Lead, NEW f \in Flight, NEW r, Moves(f, r, l), NEW pcs, "idle" \notin pcs
  PROVE  /\ flight[f].pc \in pcs <=> f \in Inflight(l, pcs)
         /\ r.pc \in pcs => Inflight(l, pcs)' = Inflight(l, pcs) \union {f}
         /\ r.pc \notin pcs => Inflight(l, pcs)' = Inflight(l, pcs) \ {f}
BY DEF FlightsOK, Inflight, Moves

LEMMA CardMoves ==
  ASSUME FlightsOK, NEW l \in Lead, NEW f \in Flight, NEW r, Moves(f, r, l), NEW pcs, "idle" \notin pcs
  PROVE  /\ Cardinality(Inflight(l, pcs)') =
              Cardinality(Inflight(l, pcs)) + One(r.pc \in pcs) - One(flight[f].pc \in pcs)
         /\ Cardinality(Inflight(l, pcs)) \in Nat /\ Cardinality(Inflight(l, pcs)') \in Nat
<1> DEFINE S == Inflight(l, pcs)
<1>1. IsFiniteSet(S) /\ Cardinality(S) \in Nat
  BY InflightFinite
<1>2. /\ flight[f].pc \in pcs <=> f \in S
      /\ r.pc \in pcs => Inflight(l, pcs)' = S \union {f}
      /\ r.pc \notin pcs => Inflight(l, pcs)' = S \ {f}
  BY SetMoves
<1> HIDE DEF S
<1>3. /\ Cardinality(S \union {f}) = IF f \in S THEN Cardinality(S) ELSE Cardinality(S) + 1
      /\ Cardinality(S \ {f}) = IF f \in S THEN Cardinality(S) - 1 ELSE Cardinality(S)
      /\ IsFiniteSet(S \union {f}) /\ IsFiniteSet(S \ {f})
  BY <1>1, FS_AddElement, FS_RemoveElement
<1>4. Cardinality(S \union {f}) \in Nat /\ Cardinality(S \ {f}) \in Nat
  BY <1>3, FS_CardinalityType
<1>5. Cardinality(Inflight(l, pcs)') = Cardinality(S) + One(r.pc \in pcs) - One(flight[f].pc \in pcs)
  <2>1. CASE r.pc \in pcs
    <3>1. One(r.pc \in pcs) = 1 /\ One(flight[f].pc \in pcs) = IF f \in S THEN 1 ELSE 0
      BY <1>2, <2>1 DEF One
    <3> QED
      BY <1>1, <1>2, <1>3, <2>1, <3>1
  <2>2. CASE r.pc \notin pcs
    <3>1. One(r.pc \in pcs) = 0 /\ One(flight[f].pc \in pcs) = IF f \in S THEN 1 ELSE 0
      BY <1>2, <2>2 DEF One
    <3> QED
      BY <1>1, <1>2, <1>3, <2>2, <3>1
  <2> QED
    BY <2>1, <2>2
<1> QED
  BY <1>1, <1>2, <1>4, <1>5 DEF S

LEMMA HeardMoves ==
  ASSUME FlightsOK, NEW l \in Lead, NEW f \in Flight, NEW r, Moves(f, r, l)
  PROVE  /\ flight[f].pc \in Unsent \union Unwritten /\ r.pc \in Unsent \union Unwritten
              => Heard(l)' = Heard(l)
         /\ flight[f].pc \notin Unsent \union Unwritten /\ r.pc \notin Unsent \union Unwritten
              => Heard(l)' = Heard(l)
<1>1. \A g \in Flight : g # f => flight'[g] = flight[g]
  BY DEF Moves, FlightsOK
<1>2. flight'[f] = r /\ r.pc \in Unsent \union Unwritten =>
        r.job = flight[f].job /\ r.awaited = flight[f].awaited
  BY DEF Moves, FlightsOK, Unsent, Unwritten
<1>a. flight'[f] = r /\ flight[f].job \in JobsOf(l)
  BY DEF Moves, FlightsOK
<1> USE <1>a DEF Heard, ToSend, Sent, Inflight, Unsent, Unwritten
<1>3. CASE flight[f].pc \in Unsent \union Unwritten /\ r.pc \in Unsent \union Unwritten
  <2>1. r.job = flight[f].job /\ r.awaited = flight[f].awaited
    BY <1>2, <1>3
  <2>2. Heard(l) => Heard(l)'
    <3> SUFFICES ASSUME NEW g \in ToSend(l) \union Sent(l), flight[g].awaited
                 PROVE  g \in (ToSend(l) \union Sent(l))' /\ flight'[g].awaited
      OBVIOUS
    <3> QED
      BY <1>1, <1>2, <1>3, <2>1
  <2>3. Heard(l)' => Heard(l)
    <3> SUFFICES ASSUME NEW g \in (ToSend(l) \union Sent(l))', flight'[g].awaited
                 PROVE  g \in ToSend(l) \union Sent(l) /\ flight[g].awaited
      OBVIOUS
    <3> QED
      BY <1>1, <1>2, <1>3, <2>1
  <2> QED
    BY <1>3, <2>2, <2>3
<1>4. CASE flight[f].pc \notin Unsent \union Unwritten /\ r.pc \notin Unsent \union Unwritten
  <2>1. (ToSend(l) \union Sent(l))' = ToSend(l) \union Sent(l) /\ f \notin ToSend(l) \union Sent(l)
    BY <1>1, <1>2, <1>4
  <2> QED
    BY <1>1, <1>4, <2>1
<1> QED
  BY <1>3, <1>4

-----------------------------------------------------------------------------
(* When a step of the sequence stays where it is.                           *)

\* Nothing happened to the executions of lead l.
SameFor(l) ==
  \A f \in Flight :
    \/ flight'[f] = flight[f]
    \/ flight[f].job \notin JobsOf(l) /\ flight'[f].job \notin JobsOf(l)

LEMMA SameInflight ==
  ASSUME NEW l \in Lead, SameFor(l)
  PROVE  /\ \A pcs : Inflight(l, pcs)' = Inflight(l, pcs)
         /\ Heard(l)' = Heard(l)
         /\ \A f \in Inflight(l, {"record"}) : flight'[f].stepsRead = flight[f].stepsRead
<1>1. \A pcs : Inflight(l, pcs)' = Inflight(l, pcs)
  BY DEF SameFor, Inflight
<1>2. ToSend(l)' = ToSend(l) /\ Sent(l)' = Sent(l)
  BY <1>1 DEF ToSend, Sent
<1>3. \A pcs : \A f \in Inflight(l, pcs) : flight'[f] = flight[f]
  BY DEF SameFor, Inflight
<1>4. \A f \in ToSend(l) \union Sent(l) : flight'[f] = flight[f]
  BY <1>3 DEF ToSend, Sent
<1>5. Heard(l)' = Heard(l)
  BY <1>2, <1>4 DEF Heard
<1> QED
  BY <1>1, <1>3, <1>5

LEMMA Counts ==
  ASSUME TypeOK, NEW l \in Lead
  PROVE  /\ mailed[l] \in Nat /\ faults \in Nat /\ lead[l] \in Row /\ lead[l].stepsSent \in Nat
         /\ Cardinality(ToSend(l)) \in Nat /\ Cardinality(Sent(l)) \in Nat
         /\ One(Heard(l)) \in 0..1 /\ One(AboutTo(l)) \in 0..1
         /\ \A f \in Flight : flight[f].stepsRead \in Nat /\ flight[f] \in FlightState
         /\ FollowUps \in Nat
<1>1. mailed[l] \in Nat /\ faults \in Nat
  BY DispatchAssumption DEF TypeOK, HistoryOK
<1>2. lead[l] \in Row /\ lead[l].stepsSent \in Nat
  BY DEF TypeOK, DbOK, Row
<1>3. Cardinality(ToSend(l)) \in Nat /\ Cardinality(Sent(l)) \in Nat
  BY InflightFinite DEF ToSend, Sent
<1>4. \A f \in Flight : flight[f].stepsRead \in Nat /\ flight[f] \in FlightState
  BY DEF TypeOK, FlightsOK, FlightState
<1>5. One(Heard(l)) \in 0..1 /\ One(AboutTo(l)) \in 0..1
  BY DEF One
<1> QED
  BY <1>1, <1>2, <1>3, <1>4, <1>5, LeadRowAssumption

\* Nothing that counts happened to lead l, and no job of it passed the processor.
LEMMA StepStays ==
  ASSUME TypeOK, NEW l \in Lead, NEW b \in Nat, OnStep(l, b), KeepsStep(lead'[l], lead[l]),
         mailed'[l] = mailed[l], faults' \in Nat, faults <= faults', SameFor(l),
         AboutTo(l)' => AboutTo(l)
  PROVE  OnStep(l, b)'
<1>1. /\ \A pcs : Inflight(l, pcs)' = Inflight(l, pcs)
      /\ Heard(l)' = Heard(l)
      /\ \A f \in Inflight(l, {"record"}) : flight'[f].stepsRead = flight[f].stepsRead
  BY SameInflight
<1>2. ToSend(l)' = ToSend(l)
  BY <1>1 DEF ToSend
<1>3. One(AboutTo(l)') <= One(AboutTo(l)) /\ One(AboutTo(l)') \in 0..1 /\ One(Heard(l)') = One(Heard(l))
  BY <1>1 DEF One
<1>4. /\ b <= lead'[l].stepsSent /\ lead'[l].stepsSent = lead[l].stepsSent
      /\ lead'[l].nextStepAt = "now" => lead[l].nextStepAt = "now"
  BY DEF OnStep, KeepsStep
<1>5. \A f \in Inflight(l, {"record"})' : b <= flight'[f].stepsRead
  BY <1>1 DEF OnStep
<1>6. Inflight(l, {"send", "smtp", "sent", "record"})' # {} => b <= FollowUps
  BY <1>1 DEF OnStep
<1>7. Due(l, b) => Due(l, b)'
  BY <1>1, <1>2, <1>3, Counts DEF Due
<1>8. Paid(l, b) => Paid(l, b)'
  BY <1>2, <1>3, <1>4, Counts DEF Paid
<1> QED
  BY <1>4, <1>5, <1>6, <1>7, <1>8 DEF OnStep

(* An execution of lead l moved: every mail it sent it was counted as one    *)
(* that may, and one that stopped without a mail to write down, or with a    *)
(* fault, is no longer counted at all.                                       *)
Left(f, r) == flight[f].pc \in Unsent \union Unwritten /\ r.pc \notin Unsent \union Unwritten

LEMMA StepMoves ==
  ASSUME TypeOK, NEW l \in Lead, NEW b \in Nat, OnStep(l, b), KeepsStep(lead'[l], lead[l]),
         NEW f \in Flight, NEW r, Moves(f, r, l), UNCHANGED worker,
         r.pc = "record" => b <= r.stepsRead,
         r.pc \in {"send", "smtp", "sent", "record"} => b <= FollowUps,
         r.pc \in Unsent \union Unwritten => flight[f].pc \in Unsent \union Unwritten,
         mailed'[l] \in Nat, faults' \in Nat, faults <= faults',
         mailed'[l] + One(r.pc \in Unsent) <= mailed[l] + One(flight[f].pc \in Unsent),
         Left(f, r) => mailed'[l] + One(r.pc \in Unsent) + 1
                         <= mailed[l] + One(flight[f].pc \in Unsent) + (faults' - faults)
  PROVE  OnStep(l, b)'
<1> FlightsOK
  BY DEF TypeOK
<1>1. /\ b <= lead'[l].stepsSent
      /\ lead'[l].stepsSent = lead[l].stepsSent
      /\ lead'[l].nextStepAt = "now" => lead[l].nextStepAt = "now"
  BY DEF OnStep, KeepsStep
<1>a. flight'[f] = r /\ \A g \in Flight : g # f => flight'[g] = flight[g]
  BY DEF Moves, FlightsOK
<1>2. \A g \in Inflight(l, {"record"})' : b <= flight'[g].stepsRead
  <2> SUFFICES ASSUME NEW g \in Inflight(l, {"record"})'
               PROVE  b <= flight'[g].stepsRead
    OBVIOUS
  <2>1. CASE g = f
    BY <1>a, <2>1 DEF Inflight
  <2>2. CASE g # f
    BY <1>a, <2>2 DEF Inflight, OnStep
  <2> QED
    BY <2>1, <2>2
<1>3. Inflight(l, {"send", "smtp", "sent", "record"})' # {} => b <= FollowUps
  <2> SUFFICES ASSUME NEW g \in Inflight(l, {"send", "smtp", "sent", "record"})'
               PROVE  b <= FollowUps
    OBVIOUS
  <2>1. CASE g = f
    BY <1>a, <2>1 DEF Inflight
  <2>2. CASE g # f
    BY <1>a, <2>2 DEF Inflight, OnStep
  <2> QED
    BY <2>1, <2>2
<1>4. /\ Cardinality(ToSend(l)') =
           Cardinality(ToSend(l)) + One(r.pc \in Unsent) - One(flight[f].pc \in Unsent)
      /\ Cardinality(ToSend(l)') \in Nat
  BY CardMoves DEF ToSend, Unsent
<1>5. AboutTo(l)' = AboutTo(l)
  BY DEF AboutTo
<1>6. /\ One(r.pc \in Unsent) \in 0..1 /\ One(flight[f].pc \in Unsent) \in 0..1
      /\ One(Heard(l)') \in 0..1
  BY DEF One
<1>7. Left(f, r) \/ Heard(l)' = Heard(l)
  BY HeardMoves DEF Left
<1>8. ASSUME Due(l, b)
      PROVE  Due(l, b)'
  <2>1. CASE Left(f, r)
    BY <1>4, <1>6, <1>8, <2>1, Counts DEF Due
  <2>2. CASE Heard(l)' = Heard(l)
    BY <1>4, <1>6, <1>8, <2>2, Counts DEF Due
  <2> QED
    BY <1>7, <2>1, <2>2
<1>9. ASSUME Paid(l, b)
      PROVE  Paid(l, b)'
  BY <1>1, <1>4, <1>5, <1>6, <1>9, Counts DEF Paid
<1> QED
  BY <1>1, <1>2, <1>3, <1>8, <1>9 DEF OnStep

\* The other leads do not notice.
LEMMA OthersStay ==
  ASSUME TypeOK, NEW f \in Flight, NEW r, NEW k \in Lead, flight[f].job \in JobsOf(k),
         r.job = flight[f].job \/ r.job = NoJob, flight' = [flight EXCEPT ![f] = r],
         NEW l \in Lead, l # k
  PROVE  SameFor(l)
<1>1. flight[f].job \notin JobsOf(l) /\ r.job \notin JobsOf(l)
  BY LeadRowAssumption DEF JobsOf
<1> QED
  BY <1>1 DEF SameFor, TypeOK, FlightsOK

\* The mail is written down, whoever read the count before it.
LEMMA StepWritten ==
  ASSUME TypeOK, NEW l \in Lead, NEW b \in Nat, OnStep(l, b), OneListener,
         NEW f \in Flight, NEW r, Moves(f, r, l), UNCHANGED <<worker, faults>>,
         flight[f].pc = "record", r.pc = "ok", mailed'[l] = mailed[l],
         lead'[l].stepsSent = flight[f].stepsRead + 1, lead'[l].nextStepAt # "now"
  PROVE  OnStep(l, b)'
<1> FlightsOK
  BY DEF TypeOK
<1>1. f \in Inflight(l, {"record"}) /\ f \in Inflight(l, {"send", "smtp", "sent", "record"})
  BY DEF Inflight, Moves
<1>2. b <= FollowUps /\ b < lead'[l].stepsSent
  BY <1>1, Counts DEF OnStep
<1>a. flight'[f] = r /\ \A g \in Flight : g # f => flight'[g] = flight[g]
  BY DEF Moves, FlightsOK
<1>3. \A g \in Inflight(l, {"record"})' : b <= flight'[g].stepsRead
  BY <1>a DEF OnStep, Inflight
<1>4. Cardinality(ToSend(l)') = Cardinality(ToSend(l))
  <2>1. Cardinality(ToSend(l)') =
          Cardinality(ToSend(l)) + One(r.pc \in Unsent) - One(flight[f].pc \in Unsent)
    BY CardMoves DEF ToSend, Unsent
  <2>2. One(r.pc \in Unsent) = 0 /\ One(flight[f].pc \in Unsent) = 0
    BY DEF One, Unsent
  <2> QED
    BY <2>1, <2>2, Counts
<1>5. AboutTo(l)' = AboutTo(l)
  BY DEF AboutTo
<1>6. One(Heard(l)) + One(AboutTo(l)) <= 1
  <2>1. ~(Heard(l) /\ AboutTo(l))
    BY DEF Heard, AboutTo, OneListener, ToSend, Sent, Inflight
  <2> QED
    BY <2>1 DEF One
<1>7. mailed'[l] + Cardinality(ToSend(l)') + One(AboutTo(l)') <= b + 1 + faults'
  <2>1. CASE Due(l, b)
    BY <1>4, <1>5, <1>6, <2>1, Counts DEF Due
  <2>2. CASE Paid(l, b)
    BY <1>4, <1>5, <2>2, Counts DEF Paid
  <2> QED
    BY <2>1, <2>2 DEF OnStep
<1> QED
  BY <1>2, <1>3, <1>7, Counts DEF OnStep, Paid

-----------------------------------------------------------------------------
(* The same for what is counted.                                            *)
LEMMA CountStays ==
  ASSUME TypeOK, NEW l \in Lead, CountsMails(l), KeepsStep(lead'[l], lead[l]),
         mailed'[l] = mailed[l], SameFor(l)
  PROVE  CountsMails(l)'
<1>1. /\ \A pcs : Inflight(l, pcs)' = Inflight(l, pcs)
      /\ \A f \in Inflight(l, {"record"}) : flight'[f].stepsRead = flight[f].stepsRead
  BY SameInflight
<1>2. Sent(l)' = Sent(l)
  BY <1>1 DEF Sent
<1> QED
  BY <1>1, <1>2 DEF CountsMails, KeepsStep

LEMMA CountMoves ==
  ASSUME TypeOK, NEW l \in Lead, CountsMails(l), KeepsStep(lead'[l], lead[l]),
         NEW f \in Flight, NEW r, Moves(f, r, l), mailed'[l] \in Nat,
         r.pc = "record" => flight[f].pc = "sent" /\ r.stepsRead = lead[l].stepsSent,
         mailed[l] + One(r.pc \in Unwritten) <= mailed'[l] + One(flight[f].pc \in Unwritten)
  PROVE  CountsMails(l)'
<1> FlightsOK
  BY DEF TypeOK
<1>1. /\ Cardinality(Sent(l)') =
           Cardinality(Sent(l)) + One(r.pc \in Unwritten) - One(flight[f].pc \in Unwritten)
      /\ Cardinality(Sent(l)') \in Nat
  BY CardMoves DEF Sent, Unwritten
<1>2. One(r.pc \in Unwritten) \in 0..1 /\ One(flight[f].pc \in Unwritten) \in 0..1
  BY DEF One
<1>3. lead'[l].stepsSent = lead[l].stepsSent
      /\ lead[l].stepsSent + Cardinality(Sent(l)) <= mailed[l]
  BY DEF CountsMails, KeepsStep
<1>4. lead'[l].stepsSent + Cardinality(Sent(l)') <= mailed'[l]
  BY <1>1, <1>2, <1>3, Counts
<1>a. flight'[f] = r /\ \A g \in Flight : g # f => flight'[g] = flight[g]
  BY DEF Moves, FlightsOK
<1>5. ASSUME NEW g \in Inflight(l, {"record"})'
      PROVE  flight'[g].stepsRead + Cardinality(Sent(l)') <= mailed'[l]
  <2>1. CASE g = f
    <3>1. flight'[g].stepsRead = lead[l].stepsSent
      BY <1>a, <1>5, <2>1 DEF Inflight
    <3> QED
      BY <1>3, <1>4, <3>1
  <2>2. CASE g # f
    <3>1. /\ g \in Flight /\ flight'[g].stepsRead = flight[g].stepsRead
          /\ flight[g].stepsRead + Cardinality(Sent(l)) <= mailed[l]
      BY <1>a, <1>5, <2>2 DEF Inflight, CountsMails
    <3> QED
      BY <1>1, <1>2, <3>1, Counts
  <2> QED
    BY <2>1, <2>2
<1> QED
  BY <1>4, <1>5 DEF CountsMails

LEMMA CountWritten ==
  ASSUME TypeOK, NEW l \in Lead, CountsMails(l), NEW f \in Flight, NEW r, Moves(f, r, l),
         flight[f].pc = "record", r.pc = "ok", mailed'[l] = mailed[l],
         lead'[l].stepsSent = flight[f].stepsRead + 1
  PROVE  CountsMails(l)'
<1> FlightsOK
  BY DEF TypeOK
<1>1. Cardinality(Sent(l)') = Cardinality(Sent(l)) - 1 /\ Cardinality(Sent(l)') \in Nat
  <2>1. /\ Cardinality(Sent(l)') =
             Cardinality(Sent(l)) + One(r.pc \in Unwritten) - One(flight[f].pc \in Unwritten)
        /\ Cardinality(Sent(l)') \in Nat
    BY CardMoves DEF Sent, Unwritten
  <2>2. One(r.pc \in Unwritten) = 0 /\ One(flight[f].pc \in Unwritten) = 1
    BY DEF One, Unwritten
  <2> QED
    BY <2>1, <2>2, Counts
<1>2. flight[f].stepsRead + Cardinality(Sent(l)) <= mailed[l]
  BY DEF CountsMails, Inflight, Moves
<1>3. lead'[l].stepsSent + Cardinality(Sent(l)') <= mailed'[l]
  BY <1>1, <1>2, Counts
<1>4. ASSUME NEW g \in Inflight(l, {"record"})'
      PROVE  flight'[g].stepsRead + Cardinality(Sent(l)') <= mailed'[l]
  <2>1. /\ g \in Flight /\ flight'[g].stepsRead = flight[g].stepsRead
        /\ flight[g].stepsRead + Cardinality(Sent(l)) <= mailed[l]
    BY <1>4 DEF Inflight, CountsMails, Moves, FlightsOK
  <2> QED
    BY <1>1, <2>1, Counts
<1> QED
  BY <1>3, <1>4 DEF CountsMails

-----------------------------------------------------------------------------
(* The steps of an execution.                                               *)
ThreadInv == Steps /\ NothingElse /\ OneListener

\* What no lead's step or count notices.
LEMMA Unnoticed ==
  ASSUME TypeOK, Steps, NothingElse, NEW l \in Lead, KeepsStep(lead'[l], lead[l]),
         mailed'[l] = mailed[l], faults' \in Nat, faults <= faults', SameFor(l),
         AboutTo(l)' => AboutTo(l)
  PROVE  (\E b \in 0..(FollowUps + 1) : OnStep(l, b)') /\ CountsMails(l)'
<1>1. PICK b \in 0..(FollowUps + 1) : OnStep(l, b)
  BY DEF Steps
<1>2. OnStep(l, b)'
  BY <1>1, StepStays, LeadRowAssumption
<1>3. CountsMails(l)'
  BY CountStays DEF NothingElse
<1> QED
  BY <1>2, <1>3

\* An execution that mails nothing and writes no count.
LEMMA QuietMove ==
  ASSUME TypeOK, Steps, NothingElse, RowsKeepStep, UNCHANGED <<worker, mailed>>,
         NEW k \in Lead, NEW f \in Flight, NEW r, Moves(f, r, k),
         r.job = flight[f].job \/ r.job = NoJob,
         r.pc = "record" => flight[f].pc = "sent" /\ r.stepsRead = lead[k].stepsSent,
         r.pc \in {"send", "smtp", "sent", "record"} =>
           flight[f].pc \in {"send", "smtp", "sent", "record"} \/ lead[k].stepsSent <= FollowUps,
         \/ /\ faults' = faults
            /\ \/ flight[f].pc \in Unsent /\ r.pc \in Unsent
               \/ flight[f].pc \in Unwritten /\ r.pc \in Unwritten
               \/ flight[f].pc \notin Unwritten /\ r.pc \notin Unsent \union Unwritten
         \/ faults' = faults + 1 /\ r.pc \notin Unsent \union Unwritten
  PROVE  Steps' /\ NothingElse'
<1> SUFFICES ASSUME NEW l \in Lead
             PROVE  (\E b \in 0..(FollowUps + 1) : OnStep(l, b)') /\ CountsMails(l)'
  BY DEF Steps, NothingElse
<1>a. /\ KeepsStep(lead'[l], lead[l]) /\ mailed'[l] = mailed[l] /\ mailed[l] \in Nat
      /\ faults' \in Nat /\ faults <= faults' /\ flight[f].job \in JobsOf(k)
  BY Counts DEF RowsKeepStep, Moves
<1>1. CASE l # k
  <2>1. SameFor(l)
    BY <1>a, <1>1, OthersStay DEF Moves
  <2>2. AboutTo(l)' => AboutTo(l)
    BY DEF AboutTo
  <2> QED
    BY <1>a, <2>1, <2>2, Unnoticed
<1>2. CASE l = k
  <2> DEFINE x == One(r.pc \in Unsent)
             y == One(flight[f].pc \in Unsent)
             u == One(r.pc \in Unwritten)
             v == One(flight[f].pc \in Unwritten)
  <2>1. /\ x <= y /\ u <= v /\ x \in 0..1 /\ y \in 0..1 /\ u \in 0..1 /\ v \in 0..1
        /\ r.pc \in Unsent \union Unwritten => flight[f].pc \in Unsent \union Unwritten
        /\ Left(f, r) => x + 1 <= y + (faults' - faults)
    BY <1>a, Counts DEF One, Unsent, Unwritten, Left
  <2> HIDE DEF x, y, u, v
  <2>2. mailed[l] + x <= mailed[l] + y /\ mailed[l] + u <= mailed[l] + v
    BY <1>a, <2>1
  <2>3. Left(f, r) => mailed[l] + x + 1 <= mailed[l] + y + (faults' - faults)
    BY <1>a, <2>1, Counts
  <2>4. PICK b \in 0..(FollowUps + 1) : OnStep(l, b)
    BY DEF Steps
  <2>5. b \in Nat /\ b <= lead[l].stepsSent
    BY <2>4, LeadRowAssumption DEF OnStep
  <2>6. r.pc = "record" => b <= r.stepsRead
    BY <1>2, <2>5
  <2>7. r.pc \in {"send", "smtp", "sent", "record"} => b <= FollowUps
    <3>1. CASE flight[f].pc \in {"send", "smtp", "sent", "record"}
      BY <1>2, <2>4, <3>1 DEF OnStep, Inflight, Moves
    <3>2. CASE lead[k].stepsSent <= FollowUps
      BY <1>2, <2>5, <3>2, Counts
    <3> QED
      BY <3>1, <3>2
  <2>8. OnStep(l, b)'
    BY <1>a, <1>2, <2>1, <2>2, <2>3, <2>4, <2>5, <2>6, <2>7, StepMoves DEF x, y
  <2>9. CountsMails(l)'
    BY <1>a, <1>2, <2>2, CountMoves DEF NothingElse, u, v
  <2> QED
    BY <2>8, <2>9
<1> QED
  BY <1>1, <1>2

\* The lead of an execution under way.
LEMMA FlightLeads ==
  ASSUME TypeOK, NEW f \in Flight, flight[f].pc # "idle"
  PROVE  /\ FlightLead(f) \in Lead /\ flight[f].job \in JobsOf(FlightLead(f))
         /\ flight[f].job \in JobId /\ MailboxOf(flight[f].job) \in Mailbox
         /\ lead[FlightLead(f)] \in Row /\ flight[f] \in FlightState
BY JobNames DEF TypeOK, FlightsOK, DbOK, FlightLead

\* Only pc moves.
LEMMA PcMove ==
  ASSUME TypeOK, NEW f \in Flight, flight[f].pc # "idle",
         NEW pc \in {"send", "smtp", "sent", "record", "refused", "ok", "failed"}, FlightTo(f, pc)
  PROVE  \E r : /\ Moves(f, r, FlightLead(f)) /\ r.pc = pc /\ r.job = flight[f].job
                /\ r.stepsRead = flight[f].stepsRead /\ r.followUp = flight[f].followUp
<1> DEFINE r == [flight[f] EXCEPT !.pc = pc]
<1>1. flight[f].job \in JobsOf(FlightLead(f)) /\ flight[f] \in FlightState
  BY FlightLeads
<1>2. /\ r \in FlightState /\ r.pc = pc /\ r.job = flight[f].job
      /\ r.awaited = flight[f].awaited /\ r.stepsRead = flight[f].stepsRead
      /\ r.followUp = flight[f].followUp
  BY <1>1 DEF FlightState
<1>3. flight' = [flight EXCEPT ![f] = r]
  BY DEF FlightTo
<1> HIDE DEF r
<1>4. Moves(f, r, FlightLead(f))
  BY <1>1, <1>2, <1>3 DEF Moves
<1> QED
  BY <1>2, <1>4

\* A lead's mail leaves.
LEMMA MailMove ==
  ASSUME TypeOK, Steps, NothingElse, NEW f \in Flight, SmtpAccepts(f)
  PROVE  Steps' /\ NothingElse'
<1> DEFINE k == FlightLead(f)
<1>1. /\ flight[f].pc = "smtp" /\ FlightTo(f, "sent") /\ UNCHANGED <<lead, worker, faults>>
      /\ mailed' = [mailed EXCEPT ![k] = @ + 1]
  BY DEF SmtpAccepts, dbVars
<1>2. k \in Lead /\ flight[f].job \in JobsOf(k)
  BY <1>1, FlightLeads
<1>3. PICK r : Moves(f, r, k) /\ r.pc = "sent" /\ r.job = flight[f].job
  BY <1>1, PcMove
<1> HIDE DEF k
<1> SUFFICES ASSUME NEW l \in Lead
             PROVE  (\E b \in 0..(FollowUps + 1) : OnStep(l, b)') /\ CountsMails(l)'
  BY DEF Steps, NothingElse
<1>4. KeepsStep(lead'[l], lead[l]) /\ faults' \in Nat /\ faults <= faults'
  BY <1>1, Counts DEF KeepsStep
<1>5. CASE l # k
  <2>1. SameFor(l)
    BY <1>2, <1>3, <1>5, OthersStay DEF Moves
  <2>2. mailed'[l] = mailed[l]
    BY <1>1, <1>5 DEF TypeOK, HistoryOK
  <2>3. AboutTo(l)' => AboutTo(l)
    BY <1>1 DEF AboutTo
  <2> QED
    BY <1>4, <2>1, <2>2, <2>3, Unnoticed
<1>6. CASE l = k
  <2>1. mailed'[l] = mailed[l] + 1 /\ mailed[l] \in Nat
    BY <1>1, <1>6 DEF TypeOK, HistoryOK
  <2>2. /\ One(r.pc \in Unsent) = 0 /\ One(flight[f].pc \in Unsent) = 1
        /\ One(r.pc \in Unwritten) = 1 /\ One(flight[f].pc \in Unwritten) = 0
        /\ ~Left(f, r)
        /\ r.pc \in Unsent \union Unwritten => flight[f].pc \in Unsent \union Unwritten
    BY <1>1, <1>3 DEF One, Unsent, Unwritten, Left
  <2>3. PICK b \in 0..(FollowUps + 1) : OnStep(l, b)
    BY DEF Steps
  <2>4. b <= FollowUps
    BY <1>1, <1>2, <1>6, <2>3 DEF OnStep, Inflight
  <2>5. OnStep(l, b)'
    BY <1>1, <1>3, <1>4, <1>6, <2>1, <2>2, <2>3, <2>4, StepMoves, LeadRowAssumption
  <2>6. CountsMails(l)'
    BY <1>3, <1>4, <1>6, <2>1, <2>2, CountMoves DEF NothingElse
  <2> QED
    BY <2>5, <2>6
<1> QED
  BY <1>5, <1>6

\* What a mail that left is written down as.
LEMMA SentIsCounted ==
  ASSUME NEW row \in Row, NEW steps \in Nat, NEW followUp \in BOOLEAN, NEW mailbox \in Mailbox
  PROVE  /\ recordSent(row, steps, followUp, mailbox).stepsSent = steps + 1
         /\ recordSent(row, steps, followUp, mailbox).nextStepAt # "now"
         /\ recordSent(row, steps, followUp, mailbox).mailboxId =
              IF followUp THEN row.mailboxId ELSE mailbox
         /\ recordSent(row, steps, followUp, mailbox).status = "CONTACTED"
         /\ recordSent(row, steps, followUp, mailbox).queuedJobId = NoJob
<1> DEFINE u == Unqueued(row)
           n == steps + 1
           d == nextStepAtAfter(n)
<1>1. u \in Row /\ u.mailboxId = row.mailboxId /\ u.queuedJobId = NoJob
  BY UnqueuedIsRow DEF Unqueued, Row
<1>2. d # "now"
  BY DEF nextStepAtAfter
<1> HIDE DEF u, n, d
<1> QED
  BY <1>1, <1>2 DEF recordSent, u, d, n, Row

LEMMA WriteMove ==
  ASSUME TypeOK, ThreadInv, NEW f \in Flight, RecordWrite(f)
  PROVE  Steps' /\ NothingElse'
<1> DEFINE k == FlightLead(f)
           row == recordSent(lead[k], flight[f].stepsRead, flight[f].followUp,
                             MailboxOf(flight[f].job))
<1>1. /\ flight[f].pc = "record" /\ FlightTo(f, "ok") /\ UNCHANGED <<worker, faults, mailed>>
      /\ lead' = [lead EXCEPT ![k] = row]
  BY DEF RecordWrite, history
<1>2. /\ k \in Lead /\ flight[f].job \in JobsOf(k) /\ lead[k] \in Row
      /\ flight[f] \in FlightState /\ MailboxOf(flight[f].job) \in Mailbox
  BY <1>1, FlightLeads
<1>3. PICK r : Moves(f, r, k) /\ r.pc = "ok" /\ r.job = flight[f].job
  BY <1>1, PcMove
<1>4. row.stepsSent = flight[f].stepsRead + 1 /\ row.nextStepAt # "now"
  BY <1>2, SentIsCounted DEF FlightState
<1> HIDE DEF k, row
<1> SUFFICES ASSUME NEW l \in Lead
             PROVE  (\E b \in 0..(FollowUps + 1) : OnStep(l, b)') /\ CountsMails(l)'
  BY DEF Steps, NothingElse
<1>5. CASE l # k
  <2>1. SameFor(l)
    BY <1>2, <1>3, <1>5, OthersStay DEF Moves
  <2>2. KeepsStep(lead'[l], lead[l])
    BY <1>1, <1>5 DEF TypeOK, DbOK, KeepsStep
  <2>3. AboutTo(l)' => AboutTo(l)
    BY <1>1 DEF AboutTo
  <2> QED
    BY <1>1, <2>1, <2>2, <2>3, Unnoticed, Counts DEF ThreadInv
<1>6. CASE l = k
  <2>1. lead'[l] = row
    BY <1>1, <1>6 DEF TypeOK, DbOK
  <2>2. PICK b \in 0..(FollowUps + 1) : OnStep(l, b)
    BY DEF ThreadInv, Steps
  <2>3. OnStep(l, b)'
    BY <1>1, <1>3, <1>4, <1>6, <2>1, <2>2, StepWritten, LeadRowAssumption DEF ThreadInv
  <2>4. CountsMails(l)'
    BY <1>1, <1>3, <1>4, <1>6, <2>1, CountWritten DEF ThreadInv, NothingElse
  <2> QED
    BY <2>3, <2>4
<1> QED
  BY <1>5, <1>6

\* The processor listens to whom it listened to.
LEMMA ListensOn ==
  ASSUME OneListener, worker'.pc = worker.pc,
         \A f \in Flight : flight'[f].awaited => flight[f].awaited
  PROVE  OneListener'
BY DEF OneListener

LEMMA ThreadFlight ==
  ASSUME TypeOK, ThreadInv, NEW f \in Flight, FlightStep(f)
  PROVE  ThreadInv'
<1> DEFINE k == FlightLead(f)
<1> USE DEF ThreadInv
<1>t. faults \in Nat
  BY DispatchAssumption DEF TypeOK, HistoryOK
<1>o. OneListener'
  <2>1. \A g \in Flight : flight'[g].awaited => flight[g].awaited
    BY DEF TypeOK, FlightsOK, FlightState, FlightStep, Compose, SendRefused, SendSuppressed,
           SendCleared, SmtpAccepts, SmtpRefuses, RecordFailure, RecordRead, RecordWrite,
           RecordFails, RecordLost, ApiDies, FlightEnds, FlightTo, ReadFailed, IdleFlight
  <2>2. worker' = worker
    BY DEF FlightStep, Compose, SendRefused, SendSuppressed,
           SendCleared, SmtpAccepts, SmtpRefuses, RecordFailure, RecordRead, RecordWrite,
           RecordFails, RecordLost, ApiDies, FlightEnds
  <2> QED
    BY <2>1, <2>2, ListensOn
<1>a. ASSUME flight[f].pc # "idle", NEW pc \in {"send", "refused", "ok", "failed"}, FlightTo(f, pc),
             RowsKeepStep, UNCHANGED <<worker, mailed>>,
             pc = "send" => flight[f].pc = "compose" /\ lead[k].stepsSent <= FollowUps,
             \/ faults' = faults /\ flight[f].pc \notin Unwritten
             \/ faults' = faults + 1 /\ pc # "send"
      PROVE  Steps' /\ NothingElse'
  <2>1. PICK r : Moves(f, r, k) /\ r.pc = pc /\ r.job = flight[f].job
    BY <1>a, PcMove
  <2>2. k \in Lead
    BY <1>a, FlightLeads
  <2> HIDE DEF k
  <2>3. \/ /\ faults' = faults
           /\ \/ flight[f].pc \in Unsent /\ r.pc \in Unsent
              \/ flight[f].pc \notin Unwritten /\ r.pc \notin Unsent \union Unwritten
        \/ faults' = faults + 1 /\ r.pc \notin Unsent \union Unwritten
    BY <1>a, <2>1 DEF Unsent, Unwritten
  <2> QED
    BY <1>a, <2>1, <2>2, <2>3, QuietMove
<1>b. ASSUME flight[f].pc \in {"smtp", "sent"}, ReadFailed(f), UNCHANGED <<lead, worker, mailed>>,
             \/ faults' = faults /\ flight[f].pc = "smtp"
             \/ faults' = faults + 1
      PROVE  Steps' /\ NothingElse'
  <2> DEFINE r == [flight[f] EXCEPT !.pc = "refused", !.stepsRead = lead[k].stepsSent,
                                    !.retriesRead = lead[k].retryCount]
  <2>1. /\ k \in Lead /\ flight[f].job \in JobsOf(k) /\ flight[f] \in FlightState
        /\ lead[k] \in Row
    BY <1>b, FlightLeads
  <2>2. /\ r \in FlightState /\ r.pc = "refused" /\ r.job = flight[f].job
        /\ r.awaited = flight[f].awaited /\ flight' = [flight EXCEPT ![f] = r]
    BY <1>b, <2>1 DEF ReadFailed, FlightState, Row
  <2> HIDE DEF k, r
  <2>3. Moves(f, r, k)
    BY <2>1, <2>2 DEF Moves
  <2>4. RowsKeepStep
    BY <1>b, RowsSame
  <2>5. \/ faults' = faults /\ flight[f].pc \notin Unwritten /\ r.pc \notin Unsent \union Unwritten
        \/ faults' = faults + 1 /\ r.pc \notin Unsent \union Unwritten
    BY <1>b, <2>2 DEF Unsent, Unwritten
  <2> QED
    BY <1>b, <2>1, <2>2, <2>3, <2>4, <2>5, QuietMove
<1>w. ASSUME flight[f].pc # "idle", NEW row, KeepsStep(row, lead[k]),
             lead' = [lead EXCEPT ![k] = row]
      PROVE  RowsKeepStep
  BY <1>w, FlightLeads, WriteKeepsStep
<1>1. CASE Compose(f)
  <2>1. CASE lead[k].stepsSent > FollowUps
    <3>1. KeepsStep(endSequence(lead[k]), lead[k])
      BY <1>1, FlightLeads, WritesKeepStep DEF Compose
    <3> QED
      BY <1>1, <2>1, <3>1, <1>a, <1>w, <1>o DEF Compose, history, Unwritten
  <2>2. CASE ~(lead[k].stepsSent > FollowUps)
    <3>1. lead[k].stepsSent <= FollowUps
      BY <1>1, <2>2, FlightLeads, LeadRowAssumption DEF Compose, Row
    <3> QED
      BY <1>1, <2>2, <3>1, <1>a, <1>o, RowsSame DEF Compose, history, Unwritten
  <2> QED
    BY <2>1, <2>2
<1>2. CASE SendRefused(f)
  BY <1>2, <1>a, <1>o, RowsSame DEF SendRefused, history, dbVars, Unwritten
<1>3. CASE SendSuppressed(f)
  <2>1. KeepsStep(suppressAtSend(lead[k]), lead[k])
    BY <1>3, FlightLeads, WritesKeepStep DEF SendSuppressed
  <2> QED
    BY <1>3, <2>1, <1>a, <1>w, <1>o DEF SendSuppressed, history, Unwritten
<1>4. CASE SendCleared(f)
  <2> DEFINE r == [flight[f] EXCEPT !.pc = "smtp", !.followUp = lead[k].stepsSent > 0]
  <2>1. /\ k \in Lead /\ flight[f].job \in JobsOf(k) /\ flight[f] \in FlightState
        /\ flight[f].pc = "send" /\ UNCHANGED <<lead, worker, faults, mailed>>
    BY <1>4, FlightLeads DEF SendCleared, dbVars, history
  <2>2. /\ r \in FlightState /\ r.pc = "smtp" /\ r.job = flight[f].job
        /\ r.awaited = flight[f].awaited /\ flight' = [flight EXCEPT ![f] = r]
    <3>1. (lead[k].stepsSent > 0) \in BOOLEAN
      OBVIOUS
    <3>2. flight' = [flight EXCEPT ![f] = r]
      BY <1>4, Zenon DEF SendCleared
    <3> QED
      BY <2>1, <3>1, <3>2 DEF FlightState
  <2> HIDE DEF k, r
  <2>3. Moves(f, r, k) /\ flight[f].pc \in Unsent /\ r.pc \in Unsent
    BY <2>1, <2>2 DEF Moves, Unsent
  <2> QED
    BY <2>1, <2>2, <2>3, <1>o, RowsSame, QuietMove
<1>5. CASE SmtpAccepts(f)
  BY <1>5, <1>o, MailMove
<1>6. CASE SmtpRefuses(f)
  <2>1. KeepsStep(hardBounce(lead[k]), lead[k])
    BY <1>6, FlightLeads, WritesKeepStep DEF SmtpRefuses
  <2>2. CASE lead' = [lead EXCEPT ![k] = hardBounce(@)] /\ FlightTo(f, "failed")
    BY <1>6, <2>1, <2>2, <1>a, <1>w, <1>o DEF SmtpRefuses, history, Unwritten
  <2>3. CASE UNCHANGED lead /\ ReadFailed(f)
    BY <1>6, <2>3, <1>b, <1>o DEF SmtpRefuses, history
  <2> QED
    BY <1>6, <2>2, <2>3 DEF SmtpRefuses
<1>7. CASE RecordFailure(f)
  <2>1. KeepsStep(softFailure(lead[k], flight[f].stepsRead, flight[f].retriesRead), lead[k])
    BY <1>7, FlightLeads, WritesKeepStep DEF RecordFailure
  <2> QED
    BY <1>7, <2>1, <1>a, <1>w, <1>o DEF RecordFailure, history, Unwritten
<1>8. CASE RecordRead(f)
  <2> DEFINE r == [flight[f] EXCEPT !.pc = "record", !.stepsRead = lead[k].stepsSent]
  <2>1. /\ k \in Lead /\ flight[f].job \in JobsOf(k) /\ flight[f] \in FlightState /\ lead[k] \in Row
        /\ flight[f].pc = "sent" /\ UNCHANGED <<lead, worker, faults, mailed>>
    BY <1>8, FlightLeads DEF RecordRead, dbVars, history
  <2>2. /\ r \in FlightState /\ r.pc = "record" /\ r.job = flight[f].job
        /\ r.awaited = flight[f].awaited /\ flight' = [flight EXCEPT ![f] = r]
        /\ r.stepsRead = lead[k].stepsSent
    BY <1>8, <2>1 DEF RecordRead, FlightState, Row
  <2> HIDE DEF k, r
  <2>3. Moves(f, r, k) /\ flight[f].pc \in Unwritten /\ r.pc \in Unwritten
    BY <2>1, <2>2 DEF Moves, Unwritten
  <2> QED
    BY <2>1, <2>2, <2>3, <1>o, RowsSame, QuietMove
<1>9. CASE RecordWrite(f)
  BY <1>9, <1>o, WriteMove
<1>10. CASE RecordFails(f)
  BY <1>10, <1>b, <1>o DEF RecordFails, Fault, history, dbVars
<1>11. CASE RecordLost(f) \/ ApiDies(f)
  BY <1>11, <1>a, <1>o, RowsSame DEF RecordLost, ApiDies, Fault, history, dbVars
<1>12. CASE FlightEnds(f)
  <2>1. k \in Lead /\ flight[f].job \in JobsOf(k) /\ UNCHANGED <<lead, worker, faults, mailed>>
    BY <1>12, FlightLeads DEF FlightEnds, dbVars, history
  <2>2. IdleFlight \in FlightState /\ IdleFlight.pc = "idle" /\ IdleFlight.job = NoJob
    BY DEF IdleFlight, FlightState, Job
  <2> HIDE DEF k
  <2>3. Moves(f, IdleFlight, k)
    BY <1>12, <2>1, <2>2 DEF Moves, FlightEnds
  <2>4. flight[f].pc \notin Unwritten /\ IdleFlight.pc \notin Unsent \union Unwritten
    BY <1>12, <2>2 DEF FlightEnds, Unsent, Unwritten
  <2> QED
    BY <2>1, <2>2, <2>3, <2>4, <1>o, RowsSame, QuietMove
<1> QED
  BY <1>1, <1>2, <1>3, <1>4, <1>5, <1>6, <1>7, <1>8, <1>9, <1>10, <1>11, <1>12 DEF FlightStep

-----------------------------------------------------------------------------
(* The steps of everybody else.                                             *)

\* No execution moves, and the processor passes no job.
LEMMA ThreadElsewhere ==
  ASSUME TypeOK, ThreadInv, RowsKeepStep, UNCHANGED <<flight, mailed>>,
         faults' \in Nat, faults <= faults',
         worker' = worker \/ (worker.pc # "await" /\ worker'.pc # "ready")
  PROVE  ThreadInv'
<1>1. ASSUME NEW l \in Lead
      PROVE  (\E b \in 0..(FollowUps + 1) : OnStep(l, b)') /\ CountsMails(l)'
  <2>1. SameFor(l)
    BY DEF SameFor
  <2>2. AboutTo(l)' => AboutTo(l)
    BY DEF AboutTo
  <2> QED
    BY <2>1, <2>2, Unnoticed DEF ThreadInv, RowsKeepStep
<1>2. OneListener'
  BY DEF ThreadInv, OneListener
<1> QED
  BY <1>1, <1>2 DEF ThreadInv, Steps, NothingElse

(* A job that passes the processor: its lead is due, or still waits for its  *)
(* first mail.  A step that is paid is neither.                              *)
LEMMA ThreadTakeJob ==
  ASSUME TypeOK, ThreadInv, NEW j \in JobId, TakeJob(j)
  PROVE  ThreadInv'
<1>1. /\ UNCHANGED <<lead, flight, mailed, faults>> /\ worker.pc = "idle"
      /\ worker'.job = j /\ worker'.pc \in {"ready", "release"}
      /\ worker'.pc = "ready" => Fits(LeadOf(j), MailboxOf(j))
  BY DEF TakeJob, dbVars, history
<1>2. ASSUME NEW l \in Lead
      PROVE  (\E b \in 0..(FollowUps + 1) : OnStep(l, b)') /\ CountsMails(l)'
  <2>1. SameFor(l) /\ KeepsStep(lead'[l], lead[l])
    BY <1>1 DEF SameFor, KeepsStep
  <2>2. CountsMails(l)'
    BY <1>1, <2>1, CountStays DEF ThreadInv, NothingElse
  <2>3. PICK b \in 0..(FollowUps + 1) : OnStep(l, b)
    BY DEF ThreadInv, Steps
  <2>4. CASE AboutTo(l)'
    \* The step is due, and Due says nothing of the processor.
    <3>1. j \in JobsOf(l) /\ LeadOf(j) = l
      BY <1>1, <2>4 DEF AboutTo, JobsOf, LeadOf
    <3>2. ~Paid(l, b)
      BY <1>1, <2>3, <2>4, <3>1, Counts, LeadRowAssumption DEF Paid, Fits, AboutTo
    <3>3. Due(l, b)
      BY <2>3, <3>2 DEF OnStep
    <3>4. /\ \A pcs : Inflight(l, pcs)' = Inflight(l, pcs)
          /\ Heard(l)' = Heard(l)
      BY <2>1, SameInflight
    <3>5. Due(l, b)'
      BY <1>1, <3>3, <3>4 DEF Due, ToSend
    <3>6. OnStep(l, b)'
      BY <1>1, <2>3, <3>4, <3>5 DEF OnStep
    <3> QED
      BY <2>2, <3>6
  <2>5. CASE ~AboutTo(l)'
    BY <1>1, <2>1, <2>5, Unnoticed, Counts DEF ThreadInv
  <2> QED
    BY <2>4, <2>5
<1>3. OneListener'
  BY <1>1 DEF ThreadInv, OneListener
<1> QED
  BY <1>2, <1>3 DEF ThreadInv, Steps, NothingElse

\* The processor starts an execution: it is the one that is heard.
LEMMA ThreadDispatch ==
  ASSUME TypeOK, ThreadInv, NEW f \in Flight, WorkerDispatches(f)
  PROVE  ThreadInv'
<1> DEFINE r == [pc |-> "compose", job |-> worker.job, followUp |-> FALSE, stepsRead |-> 0,
                 retriesRead |-> 0, awaited |-> TRUE]
           k == LeadOf(worker.job)
<1>1. /\ UNCHANGED <<lead, mailed, faults>> /\ worker.pc = "ready" /\ worker'.pc = "await"
      /\ flight[f].pc = "idle" /\ flight' = [flight EXCEPT ![f] = r]
  BY DEF WorkerDispatches, dbVars, history, TypeOK, WorkerOK, WorkerState
<1>2. worker.job \in JobId /\ k \in Lead /\ worker.job \in JobsOf(k)
  BY <1>1, JobNames DEF TypeOK, WorkerOK
<1>a. /\ flight'[f] = r /\ \A g \in Flight : g # f => flight'[g] = flight[g]
      /\ r.pc = "compose" /\ r.job = worker.job /\ r.awaited
  BY <1>1 DEF TypeOK, FlightsOK
<1> HIDE DEF r, k
<1>n. \A g \in Flight : ~flight[g].awaited
  BY <1>1 DEF ThreadInv, OneListener
<1>3. ASSUME NEW l \in Lead
      PROVE  (\E b \in 0..(FollowUps + 1) : OnStep(l, b)') /\ CountsMails(l)'
  <2>1. ASSUME NEW pcs, "idle" \notin pcs, "compose" \notin pcs
        PROVE  Inflight(l, pcs)' = Inflight(l, pcs)
    BY <1>1, <1>a, <2>1 DEF Inflight
  <2>2. Sent(l)' = Sent(l) /\ Inflight(l, {"record"})' = Inflight(l, {"record"})
        /\ Inflight(l, {"send", "smtp", "sent", "record"})' = Inflight(l, {"send", "smtp", "sent", "record"})
    BY <2>1 DEF Sent, Unwritten
  <2>3. \A g \in Inflight(l, {"record"}) : flight'[g].stepsRead = flight[g].stepsRead
    BY <1>1, <1>a DEF Inflight
  <2>4. CountsMails(l)'
    BY <1>1, <2>2, <2>3 DEF CountsMails, ThreadInv, NothingElse
  <2>5. PICK b \in 0..(FollowUps + 1) : OnStep(l, b)
    BY DEF ThreadInv, Steps
  <2>6. ~AboutTo(l)' /\ ~Heard(l)
    BY <1>1, <1>n DEF AboutTo, Heard, ToSend, Sent, Inflight
  <2>7. Due(l, b)' \/ Paid(l, b)'
    <3>1. CASE worker.job \in JobsOf(l)
      <4>1. ToSend(l)' = ToSend(l) \union {f} /\ f \notin ToSend(l)
        BY <1>1, <1>a, <3>1 DEF ToSend, Inflight, Unsent
      <4>2. Cardinality(ToSend(l)') = Cardinality(ToSend(l)) + 1
        BY <4>1, InflightFinite, FS_AddElement DEF ToSend
      <4>3. Heard(l)' /\ AboutTo(l)
        BY <1>1, <1>a, <3>1, <4>1 DEF Heard, AboutTo
      <4>4. One(Heard(l)') = 1 /\ One(Heard(l)) = 0 /\ One(AboutTo(l)) = 1 /\ One(AboutTo(l)') = 0
        BY <2>6, <4>3 DEF One
      <4>5. CASE Due(l, b)
        BY <1>1, <4>2, <4>4, <4>5, Counts DEF Due
      <4>6. CASE Paid(l, b)
        BY <1>1, <4>2, <4>4, <4>6, Counts DEF Paid
      <4> QED
        BY <2>5, <4>5, <4>6 DEF OnStep
    <3>2. CASE worker.job \notin JobsOf(l)
      <4>1. ToSend(l)' = ToSend(l)
        BY <1>1, <1>a, <3>2 DEF ToSend, Inflight, Unsent
      <4>2. One(Heard(l)) = 0 /\ One(Heard(l)') \in 0..1 /\ One(AboutTo(l)') = 0
        BY <2>6 DEF One
      <4>3. CASE Due(l, b)
        BY <1>1, <4>1, <4>2, <4>3, Counts DEF Due
      <4>4. CASE Paid(l, b)
        BY <1>1, <4>1, <4>2, <4>4, Counts DEF Paid
      <4> QED
        BY <2>5, <4>3, <4>4 DEF OnStep
    <3> QED
      BY <3>1, <3>2
  <2>8. OnStep(l, b)'
    BY <1>1, <2>2, <2>3, <2>5, <2>7 DEF OnStep
  <2> QED
    BY <2>4, <2>8
<1>4. OneListener'
  BY <1>1, <1>a, <1>n DEF OneListener
<1> QED
  BY <1>3, <1>4 DEF ThreadInv, Steps, NothingElse

\* The execution the processor waited for is over.
LEMMA ThreadAnswered ==
  ASSUME TypeOK, ThreadInv, NEW f \in Flight, WorkerAnswered(f)
  PROVE  ThreadInv'
<1> DEFINE k == FlightLead(f)
<1>1. /\ UNCHANGED <<lead, mailed, faults>> /\ worker.pc = "await" /\ worker'.pc \in {"failed", "finish"}
      /\ flight[f].pc \in {"ok", "failed"} /\ flight[f].awaited
      /\ flight' = [flight EXCEPT ![f] = IdleFlight]
  BY DEF WorkerAnswered, dbVars, history, TypeOK, WorkerOK, WorkerState
<1>2. k \in Lead /\ flight[f].job \in JobsOf(k)
  BY <1>1, FlightLeads
<1>3. ~IdleFlight.awaited /\ IdleFlight.job = NoJob /\ IdleFlight.pc = "idle"
  BY DEF IdleFlight
<1>a. flight'[f] = IdleFlight /\ \A g \in Flight : g # f => flight'[g] = flight[g]
  BY <1>1 DEF TypeOK, FlightsOK
<1>n. \A g \in Flight : ~flight'[g].awaited
  BY <1>1, <1>3, <1>a DEF ThreadInv, OneListener
<1> HIDE DEF k
<1>4. ASSUME NEW l \in Lead
      PROVE  (\E b \in 0..(FollowUps + 1) : OnStep(l, b)') /\ CountsMails(l)'
  <2>1. ASSUME NEW pcs, "idle" \notin pcs, "ok" \notin pcs, "failed" \notin pcs
        PROVE  Inflight(l, pcs)' = Inflight(l, pcs)
    BY <1>1, <1>3, <1>a, <2>1 DEF Inflight
  <2>2. /\ Sent(l)' = Sent(l) /\ ToSend(l)' = ToSend(l)
        /\ Inflight(l, {"record"})' = Inflight(l, {"record"})
        /\ Inflight(l, {"send", "smtp", "sent", "record"})' = Inflight(l, {"send", "smtp", "sent", "record"})
    BY <2>1 DEF Sent, ToSend, Unwritten, Unsent
  <2>3. \A g \in Inflight(l, {"record"}) : flight'[g].stepsRead = flight[g].stepsRead
    BY <1>1, <1>a DEF Inflight
  <2>4. CountsMails(l)'
    BY <1>1, <2>2, <2>3 DEF CountsMails, ThreadInv, NothingElse
  <2>5. PICK b \in 0..(FollowUps + 1) : OnStep(l, b)
    BY DEF ThreadInv, Steps
  <2>6. ~AboutTo(l)' /\ ~Heard(l)
    <3>1. \A g \in ToSend(l) \union Sent(l) : g # f
      BY <1>1 DEF ToSend, Sent, Inflight, Unsent, Unwritten
    <3>2. \A g \in ToSend(l) \union Sent(l) : ~flight[g].awaited
      BY <1>1, <3>1 DEF ThreadInv, OneListener, ToSend, Sent, Inflight
    <3> QED
      BY <1>1, <3>2 DEF AboutTo, Heard
  <2>7. One(Heard(l)) = 0 /\ One(Heard(l)') \in 0..1 /\ One(AboutTo(l)') = 0
    BY <2>6 DEF One
  <2>8. Due(l, b) => Due(l, b)'
    BY <1>1, <2>2, <2>7, Counts DEF Due
  <2>9. Paid(l, b) => Paid(l, b)'
    BY <1>1, <2>2, <2>7, Counts DEF Paid
  <2>10. OnStep(l, b)'
    BY <1>1, <2>2, <2>3, <2>5, <2>8, <2>9 DEF OnStep
  <2> QED
    BY <2>4, <2>10
<1>5. OneListener'
  BY <1>n DEF OneListener
<1> QED
  BY <1>4, <1>5 DEF ThreadInv, Steps, NothingElse

\* The processor stops to listen: what it listened to is paid for by the fault.
LEMMA ThreadUnheard ==
  ASSUME TypeOK, ThreadInv, UNCHANGED <<lead, mailed>>, faults' = faults + 1, worker'.pc # "ready",
         flight' = [f \in Flight |-> [flight[f] EXCEPT !.awaited = FALSE]]
  PROVE  ThreadInv'
<1>1. \A f \in Flight : /\ flight'[f].pc = flight[f].pc /\ flight'[f].job = flight[f].job
                        /\ flight'[f].stepsRead = flight[f].stepsRead /\ ~flight'[f].awaited
  BY DEF TypeOK, FlightsOK, FlightState
<1>2. ASSUME NEW l \in Lead
      PROVE  (\E b \in 0..(FollowUps + 1) : OnStep(l, b)') /\ CountsMails(l)'
  <2>1. \A pcs : Inflight(l, pcs)' = Inflight(l, pcs)
    BY <1>1 DEF Inflight
  <2>2. Sent(l)' = Sent(l) /\ ToSend(l)' = ToSend(l)
    BY <2>1 DEF Sent, ToSend
  <2>3. \A g \in Inflight(l, {"record"}) : flight'[g].stepsRead = flight[g].stepsRead
    BY <1>1 DEF Inflight
  <2>4. CountsMails(l)'
    BY <2>1, <2>2, <2>3 DEF CountsMails, ThreadInv, NothingElse
  <2>5. PICK b \in 0..(FollowUps + 1) : OnStep(l, b)
    BY DEF ThreadInv, Steps
  <2>6. One(AboutTo(l)') = 0 /\ One(Heard(l)') \in 0..1
    BY DEF One, AboutTo
  <2>7. Due(l, b) => Due(l, b)'
    BY <2>2, <2>6, Counts DEF Due
  <2>8. Paid(l, b) => Paid(l, b)'
    BY <2>2, <2>6, Counts DEF Paid
  <2>9. OnStep(l, b)'
    BY <2>1, <2>3, <2>5, <2>7, <2>8 DEF OnStep
  <2> QED
    BY <2>4, <2>9
<1>3. OneListener'
  BY <1>1 DEF OneListener
<1> QED
  BY <1>2, <1>3 DEF ThreadInv, Steps, NothingElse

LEMMA ThreadWorker ==
  ASSUME TypeOK, ThreadInv, WorkerStep \/ Crash
  PROVE  ThreadInv'
<1>t. faults \in Nat
  BY DispatchAssumption DEF TypeOK, HistoryOK
<1>a. ASSUME worker.pc \in {"release", "ready", "failed"}, NEW row,
             KeepsStep(row, lead[LeadOf(worker.job)]), WorkerWrites(row),
             UNCHANGED <<flight, faults, history>>
      PROVE  ThreadInv'
  <2>1. LeadOf(worker.job) \in Lead
    BY <1>a, JobNames DEF TypeOK, WorkerOK
  <2>2. RowsKeepStep
    BY <1>a, <2>1, WriteKeepsStep DEF WorkerWrites
  <2>3. worker.pc # "await" /\ worker'.pc # "ready"
    BY <1>a DEF WorkerWrites, TypeOK, WorkerOK, WorkerState
  <2> QED
    BY <1>a, <1>t, <2>2, <2>3, ThreadElsewhere DEF history
<1>b. worker.pc # "idle" => lead[LeadOf(worker.job)] \in Row
  BY JobNames DEF TypeOK, WorkerOK, DbOK
<1>c. worker.followUp \in BOOLEAN
  BY DEF TypeOK, WorkerOK, WorkerState
<1>1. CASE \E j \in JobId : TakeJob(j)
  BY <1>1, ThreadTakeJob
<1>2. CASE WorkerReleases
  BY <1>2, <1>a, <1>b, <1>c, WritesKeepStep DEF WorkerReleases
<1>3. CASE WorkerStopsDeadAddress
  BY <1>3, <1>a, <1>b, <1>c, WritesKeepStep DEF WorkerStopsDeadAddress
<1>4. CASE WorkerAsksAgainLater
  BY <1>4, <1>a, <1>b, <1>c, WritesKeepStep DEF WorkerAsksAgainLater
<1>5. CASE \E f \in Flight : WorkerDispatches(f)
  BY <1>5, ThreadDispatch
<1>6. CASE \E f \in Flight : WorkerAnswered(f)
  BY <1>6, ThreadAnswered
<1>7. CASE WorkerWritesFailure
  BY <1>7, <1>a, <1>b, <1>c, WritesKeepStep DEF WorkerWritesFailure
<1>8. CASE WorkerFetchRejects
  <2>1. /\ UNCHANGED <<lead, mailed>> /\ faults' = faults + 1 /\ worker'.pc = "finish"
    BY <1>8 DEF WorkerFetchRejects, Fault, dbVars, history, TypeOK, WorkerOK, WorkerState
  <2>2. CASE worker.pc = "ready" /\ UNCHANGED flight
    BY <1>t, <2>1, <2>2, RowsSame, ThreadElsewhere
  <2>3. CASE flight' = [f \in Flight |-> [flight[f] EXCEPT !.awaited = FALSE]]
    BY <2>1, <2>3, ThreadUnheard
  <2> QED
    BY <1>8, <2>2, <2>3 DEF WorkerFetchRejects
<1>9. CASE WorkerFinishes
  <2>1. worker.pc # "await" /\ worker'.pc # "ready" /\ UNCHANGED <<lead, mailed, faults, flight>>
    BY <1>9 DEF WorkerFinishes, dbVars, history, IdleWorker
  <2> QED
    BY <1>t, <2>1, RowsSame, ThreadElsewhere
<1>10. CASE Crash
  BY <1>10, ThreadUnheard DEF Crash, Fault, dbVars, history, IdleWorker
<1> QED
  BY <1>1, <1>2, <1>3, <1>4, <1>5, <1>6, <1>7, <1>8, <1>9, <1>10 DEF WorkerStep

LEMMA ThreadTicks ==
  ASSUME TypeOK, ThreadInv, (\E t \in Tick : TickStep(t)) \/ ReconStep \/ QueueStep
  PROVE  ThreadInv'
<1>t. faults \in Nat
  BY DispatchAssumption DEF TypeOK, HistoryOK
<1>1. CASE \E t \in Tick : TickMarkLead(t)
  <2>1. PICK t \in Tick : TickMarkLead(t)
    BY <1>1
  <2>2. tick[t].job \in JobId /\ LeadOf(tick[t].job) \in Lead /\ lead[LeadOf(tick[t].job)] \in Row
    BY <2>1, JobNames DEF TickMarkLead, TypeOK, TicksOK, DbOK
  <2>3. RowsKeepStep
    <3> DEFINE j == tick[t].job
               k == LeadOf(j)
    <3>1. KeepsStep(bookFollowUp(lead[k], j), lead[k]) /\ KeepsStep(bookFirstEmail(lead[k], j), lead[k])
      BY <2>2, WritesKeepStep
    <3>2. \/ lead' = [lead EXCEPT ![k] = bookFollowUp(lead[k], j)]
          \/ lead' = [lead EXCEPT ![k] = bookFirstEmail(lead[k], j)]
      BY <2>1 DEF TickMarkLead
    <3> HIDE DEF k
    <3> QED
      BY <2>2, <3>1, <3>2, WriteKeepsStep DEF k
  <2> QED
    BY <1>t, <2>1, <2>3, ThreadElsewhere DEF TickMarkLead, history
<1>2. CASE \E t \in Tick : /\ TickStep(t)
                            /\ ~TickMarkLead(t)
  <2>1. UNCHANGED <<lead, worker, flight, mailed>> /\ faults' \in Nat /\ faults <= faults'
    <3>1. PICK t \in Tick : TickStep(t) /\ ~TickMarkLead(t)
      BY <1>2
    <3>2. \/ \E l \in Lead, m \in Mailbox : TickTakeSlot(t, l, m)
          \/ \E l \in Lead : TickSkip(t, l)
          \/ TickStart(t) \/ TickAddJob(t) \/ TickReadFirstEmails(t) \/ TickEnd(t) \/ TickFails(t)
      BY <3>1 DEF TickStep
    <3>3. UNCHANGED <<lead, worker, flight, mailed>>
      BY <3>2 DEF TickStart, TickTakeSlot, TickSkip, TickAddJob,
           TickReadFirstEmails, TickEnd, TickFails, dbVars, history
    <3>4. faults' = faults \/ faults' = faults + 1
      BY <3>2 DEF TickStart, TickTakeSlot, TickSkip, TickAddJob,
           TickReadFirstEmails, TickEnd, TickFails, Fault
    <3> QED
      BY <1>t, <3>3, <3>4
  <2> QED
    BY <2>1, RowsSame, ThreadElsewhere
<1>3. CASE ReconMark
  <2>1. recon.job \in JobId /\ LeadOf(recon.job) \in Lead /\ lead[LeadOf(recon.job)] \in Row
    BY <1>3, JobNames DEF ReconMark, TypeOK, ReconOK, DbOK
  <2>2. RowsKeepStep
    BY <1>3, <2>1, WritesKeepStep, WriteKeepsStep DEF ReconMark
  <2> QED
    BY <1>t, <1>3, <2>2, ThreadElsewhere DEF ReconMark, history
<1>4. CASE ReconAdd \/ (\E l \in Lead : ReconFind(l)) \/ QueueStep
  <2>1. UNCHANGED <<lead, worker, flight, mailed, faults>>
    BY <1>4 DEF ReconAdd, ReconFind, QueueStep, RecoverStalled, Prune, dbVars, history
  <2> QED
    BY <1>t, <2>1, RowsSame, ThreadElsewhere
<1> QED
  BY <1>1, <1>2, <1>3, <1>4 DEF ReconStep

(* A date comes: nothing of the lead is under way any more, so a step that   *)
(* is paid makes room for the next one.                                      *)
LEMMA ThreadDate ==
  ASSUME TypeOK, ThreadInv, NEW k \in Lead, DateComes(k)
  PROVE  ThreadInv'
<1>1. /\ UNCHANGED <<worker, flight, mailed, faults>>
      /\ Prompt(k) /\ lead[k] \in Row
  BY DEF DateComes, TypeOK, DbOK, history
<1>2. /\ lead'[k].stepsSent = lead[k].stepsSent
      /\ \A l \in Lead : l # k => lead'[l] = lead[l]
  BY DEF DateComes, TypeOK, DbOK, Row
<1>3. ASSUME NEW l \in Lead
      PROVE  (\E b \in 0..(FollowUps + 1) : OnStep(l, b)') /\ CountsMails(l)'
  <2>1. SameFor(l)
    BY <1>1 DEF SameFor
  <2>2. CASE l # k
    <3>1. KeepsStep(lead'[l], lead[l]) /\ (AboutTo(l)' => AboutTo(l))
      BY <1>1, <1>2, <2>2 DEF KeepsStep, AboutTo
    <3> QED
      BY <1>1, <2>1, <3>1, Unnoticed, Counts DEF ThreadInv
  <2>3. CASE l = k
    <3>1. \A pcs : Inflight(l, pcs) = {} /\ Inflight(l, pcs)' = {}
      BY <1>1, <2>3 DEF Inflight, Prompt
    <3>2. CountsMails(l)'
      BY <1>1, <1>2, <2>3, <3>1 DEF CountsMails, Sent, ThreadInv, NothingElse
    <3>3. PICK b \in 0..(FollowUps + 1) : OnStep(l, b)
      BY DEF ThreadInv, Steps
    <3>4. ToSend(l)' = {} /\ ToSend(l) = {} /\ Cardinality({}) = 0
      BY <3>1, FS_EmptySet DEF ToSend
    <3>5. One(Heard(l)) = 0 /\ One(Heard(l)') = 0 /\ One(AboutTo(l)) = 0
      <4>1. ~Heard(l) /\ ~Heard(l)'
        BY <3>1 DEF Heard, ToSend, Sent
      <4>2. ~AboutTo(l)
        BY <1>1, <2>3 DEF AboutTo, Prompt
      <4> QED
        BY <4>1, <4>2 DEF One
    <3>6. CASE Due(l, b)
      BY <1>1, <1>2, <2>3, <3>1, <3>2, <3>3, <3>4, <3>5, <3>6 DEF OnStep, Due
    <3>7. CASE Paid(l, b)
      <4>1. b + 1 \in 0..(FollowUps + 1) /\ b + 1 <= lead[l].stepsSent
        BY <3>3, <3>7, Counts DEF Paid
      <4>2. Due(l, b + 1)'
        BY <1>1, <3>3, <3>4, <3>5, <3>7, Counts DEF Paid, Due
      <4>3. OnStep(l, b + 1)'
        BY <1>2, <2>3, <3>1, <4>1, <4>2 DEF OnStep
      <4> QED
        BY <3>2, <4>1, <4>3
    <3> QED
      BY <3>3, <3>6, <3>7 DEF OnStep
  <2> QED
    BY <2>2, <2>3
<1>4. OneListener'
  BY <1>1 DEF ThreadInv, OneListener
<1> QED
  BY <1>3, <1>4 DEF ThreadInv, Steps, NothingElse

LEMMA ThreadTime ==
  ASSUME TypeOK, ThreadInv, TimeStep \/ EnvStep
  PROVE  ThreadInv'
<1>t. faults \in Nat
  BY DispatchAssumption DEF TypeOK, HistoryOK
<1>r. \A l \in Lead : lead[l] \in Row
  BY DEF TypeOK, DbOK
<1>1. CASE \E l \in Lead : DateComes(l)
  BY <1>1, ThreadDate
<1>2. CASE \E l \in Lead : SlotOverdue(l)
  <2>1. RowsKeepStep
    BY <1>2, <1>r DEF SlotOverdue, RowsKeepStep, KeepsStep, Row, TypeOK, DbOK
  <2> QED
    BY <1>t, <1>2, <2>1, ThreadElsewhere DEF SlotOverdue, history
<1>3. CASE \E e \in Email : OptOut(e)
  <2>1. RowsKeepStep
    <3>1. \A l \in Lead : KeepsStep(suppressEmail(lead[l]), lead[l])
      BY <1>r, WritesKeepStep
    <3> QED
      BY <1>3, <3>1 DEF OptOut, RowsKeepStep, KeepsStep
  <2> QED
    BY <1>t, <1>3, <2>1, ThreadElsewhere DEF OptOut
<1>4. CASE \E l \in Lead : ReplyMarks(l) \/ BounceReport(l)
  <2>1. RowsKeepStep
    BY <1>4, <1>r, WritesKeepStep, WriteKeepsStep DEF ReplyMarks, BounceReport
  <2> QED
    BY <1>t, <1>4, <2>1, ThreadElsewhere DEF ReplyMarks, BounceReport, history
<1>5. CASE \/ \E j \in JobId : SlotComes(j)
           \/ CampaignOpens
           \/ \E m \in Mailbox : MailboxToggles(m)
           \/ \E e \in Email : Unblock(e)
           \/ \E l \in Lead : ReplyStored(l) \/ ReplyMarkLost(l)
  <2>1. UNCHANGED <<lead, worker, flight, mailed>> /\ faults' \in Nat /\ faults <= faults'
    BY <1>t, <1>5 DEF SlotComes, CampaignOpens, MailboxToggles, Unblock, ReplyStored,
                      ReplyMarkLost, Fault, dbVars, history
  <2> QED
    BY <2>1, RowsSame, ThreadElsewhere
<1> QED
  BY <1>1, <1>2, <1>3, <1>4, <1>5 DEF TimeStep, EnvStep

LEMMA NextThread ==
  ASSUME TypeOK, ThreadInv, [Next]_vars
  PROVE  ThreadInv'
<1>1. CASE UNCHANGED vars
  <2>1. faults \in Nat
    BY DispatchAssumption DEF TypeOK, HistoryOK
  <2> QED
    BY <1>1, <2>1, RowsSame, ThreadElsewhere DEF vars, dbVars, history
<1> QED
  BY <1>1, ThreadFlight, ThreadWorker, ThreadTicks, ThreadTime DEF Next

LEMMA InitThread ==
  ASSUME Init
  PROVE  ThreadInv
<1>1. \A l : \A pcs : "idle" \notin pcs => Inflight(l, pcs) = {}
  BY DEF Init, Inflight, IdleFlight
<1>2. ASSUME NEW l \in Lead
      PROVE  OnStep(l, 0) /\ CountsMails(l)
  <2>1. /\ ToSend(l) = {} /\ Sent(l) = {} /\ Inflight(l, {"record"}) = {}
        /\ Inflight(l, {"send", "smtp", "sent", "record"}) = {}
    BY <1>1 DEF ToSend, Sent, Unsent, Unwritten
  <2>2. Cardinality({}) = 0 /\ One(Heard(l)) = 0
    BY <2>1, FS_EmptySet DEF One, Heard
  <2>3. mailed[l] = 0 /\ lead[l].stepsSent = 0 /\ faults = 0
    BY DEF Init, NewLead
  <2> QED
    BY <2>1, <2>2, <2>3 DEF OnStep, CountsMails, Due
<1>3. OneListener
  BY DEF Init, OneListener, IdleFlight
<1>4. 0 \in 0..(FollowUps + 1)
  BY LeadRowAssumption
<1> QED
  BY <1>2, <1>3, <1>4 DEF ThreadInv, Steps, NothingElse

-----------------------------------------------------------------------------
(* The count and the length of a thread.                                    *)

(* sendMail reads stepsSent, waits, and writes it back plus one; processes   *)
(* die around both.  Still the row counts every mail but one for each fault, *)
(* and none that did not leave.                                              *)
THEOREM MailsAreCounted == Spec => []EveryMailCounted
<1>1. TypeOK /\ ThreadInv => EveryMailCounted
  <2> SUFFICES ASSUME TypeOK, ThreadInv, NEW l \in Lead
               PROVE  mailed[l] - lead[l].stepsSent - Cardinality(Sent(l)) \in 0..faults
    BY DEF EveryMailCounted, Sent, Unwritten
  <2>1. PICK b \in 0..(FollowUps + 1) : OnStep(l, b)
    BY DEF ThreadInv, Steps
  <2>2. lead[l].stepsSent + Cardinality(Sent(l)) <= mailed[l]
    BY DEF ThreadInv, NothingElse, CountsMails
  <2>3. One(Heard(l)) <= Cardinality(ToSend(l)) + Cardinality(Sent(l))
    <3>1. CASE Heard(l)
      <4>1. ToSend(l) # {} \/ Sent(l) # {}
        BY <3>1 DEF Heard
      <4>2. Cardinality(ToSend(l)) > 0 \/ Cardinality(Sent(l)) > 0
        BY <4>1, InflightFinite DEF ToSend, Sent
      <4> QED
        BY <4>2, Counts DEF One
    <3>2. CASE ~Heard(l)
      BY <3>2, Counts DEF One
    <3> QED
      BY <3>1, <3>2
  <2>4. CASE Due(l, b)
    BY <2>1, <2>2, <2>3, <2>4, Counts DEF Due, OnStep
  <2>5. CASE Paid(l, b)
    BY <2>1, <2>2, <2>5, Counts DEF Paid
  <2> QED
    BY <2>1, <2>4, <2>5 DEF OnStep
<1> QED
  BY <1>1, InitThread, NextThread, DispatchTypes, PTL DEF Spec

(* However many executions n8n runs at once and whatever dies under them, a  *)
(* recipient gets at most one mail for each step of the sequence, and one    *)
(* more for each fault.                                                      *)
THEOREM MailsAreBounded == Spec => []MailsBounded
<1>1. TypeOK /\ ThreadInv => MailsBounded
  <2> SUFFICES ASSUME TypeOK, ThreadInv, NEW l \in Lead
               PROVE  mailed[l] <= FollowUps + 1 + faults
    BY DEF MailsBounded
  <2>1. PICK b \in 0..(FollowUps + 1) : OnStep(l, b)
    BY DEF ThreadInv, Steps
  <2>2. CASE Paid(l, b)
    BY <2>1, <2>2, Counts DEF Paid
  <2>3. CASE Due(l, b)
    <3>1. CASE One(Heard(l)) <= Cardinality(ToSend(l))
      BY <2>1, <2>3, <3>1, Counts DEF Due
    <3>2. CASE Sent(l) # {}
      \* One of them mailed: the step was one of the sequence's.
      <4>1. b <= FollowUps
        BY <2>1, <3>2 DEF OnStep, Sent, Inflight, Unwritten
      <4> QED
        BY <2>1, <2>3, <4>1, Counts DEF Due
    <3>3. CASE Sent(l) = {} /\ ~(One(Heard(l)) <= Cardinality(ToSend(l)))
      <4>1. Heard(l)
        BY <3>3, Counts DEF One
      <4>2. Cardinality(ToSend(l)) > 0
        BY <3>3, <4>1, InflightFinite DEF Heard, ToSend
      <4> QED
        BY <3>3, <4>2, Counts
    <3> QED
      BY <3>1, <3>2, <3>3
  <2> QED
    BY <2>1, <2>2, <2>3 DEF OnStep
<1> QED
  BY <1>1, InitThread, NextThread, DispatchTypes, PTL DEF Spec

-----------------------------------------------------------------------------
(* One sender.  A tick may fail, nothing else may: then the execution that   *)
(* is under way is the one the processor waits for, and there is one.        *)
SendsDoNotFail == Faults \subseteq {"tick"}

AllHeard ==
  \A f \in Flight : flight[f].pc # "idle" => flight[f].awaited /\ flight[f].job = worker.job

\* The thread has one sender, and the row names it.
RowNamesSender(l) ==
  /\ lead[l].stepsSent > 0 => lead[l].mailboxId # NoMailbox /\ from[l] \subseteq {lead[l].mailboxId}
  /\ lead[l].stepsSent = 0 /\ Sent(l) = {} => from[l] = {}

(* What was read at the look at the list still holds when the mail leaves    *)
(* and when it is written down.                                              *)
Steady(f) ==
  LET row == lead[FlightLead(f)]
      m == MailboxOf(flight[f].job)
  IN
  /\ flight[f].pc \in {"smtp", "sent", "record"} =>
       /\ flight[f].followUp = (row.stepsSent > 0)
       /\ flight[f].followUp => row.mailboxId = m
  /\ flight[f].pc \in Unwritten => from[FlightLead(f)] \subseteq {m}

SenderInv ==
  /\ OneListener
  /\ AllHeard
  /\ \A l \in Lead : RowNamesSender(l)
  /\ \A f \in Flight : Steady(f)

\* Nobody else is under way.
LEMMA OneUnderWay ==
  ASSUME OneListener, AllHeard, NEW f \in Flight, flight[f].pc # "idle"
  PROVE  /\ worker.pc = "await" /\ flight[f].job = worker.job /\ flight[f].awaited
         /\ \A g \in Flight : g # f => flight[g].pc = "idle"
BY DEF OneListener, AllHeard

\* No write but the one of a mail that left touches the count or the sender.
KeepsSender(r, row) == r.stepsSent = row.stepsSent /\ r.mailboxId = row.mailboxId

LEMMA WritesKeepSender ==
  ASSUME NEW row \in Row, NEW job \in JobId \union {NoJob}, NEW followUp \in BOOLEAN, NEW seen,
         NEW steps, NEW retries
  PROVE  /\ KeepsSender(bookFollowUp(row, job), row) /\ KeepsSender(bookFirstEmail(row, job), row)
         /\ KeepsSender(releaseLead(row, followUp), row)
         /\ KeepsSender(stopDeadAddress(row), row) /\ KeepsSender(askAgainLater(row), row)
         /\ KeepsSender(dispatchFailed(row, followUp, seen), row)
         /\ KeepsSender(hardBounce(row), row) /\ KeepsSender(endSequence(row), row)
         /\ KeepsSender(suppressAtSend(row), row) /\ KeepsSender(suppressEmail(row), row)
         /\ KeepsSender(replyArrives(row), row) /\ KeepsSender(bounceReported(row), row)
         /\ KeepsSender(softFailure(row, steps, retries), row)
<1>1. /\ KeepsSender(bookFollowUp(row, job), row) /\ KeepsSender(bookFirstEmail(row, job), row)
      /\ KeepsSender(releaseLead(row, followUp), row)
  BY DEF KeepsSender, bookFollowUp, bookFirstEmail, releaseLead, Unqueued, Row
<1>2. /\ KeepsSender(stopDeadAddress(row), row) /\ KeepsSender(askAgainLater(row), row)
      /\ KeepsSender(dispatchFailed(row, followUp, seen), row)
  BY DEF KeepsSender, stopDeadAddress, askAgainLater, dispatchFailed, Unqueued, Row
<1>3. /\ KeepsSender(hardBounce(row), row) /\ KeepsSender(endSequence(row), row)
      /\ KeepsSender(suppressAtSend(row), row) /\ KeepsSender(suppressEmail(row), row)
  BY DEF KeepsSender, hardBounce, endSequence, suppressAtSend, suppressEmail, Unqueued, Row
<1>4. KeepsSender(replyArrives(row), row) /\ KeepsSender(bounceReported(row), row)
  BY DEF KeepsSender, replyArrives, bounceReported, Unqueued, Row
<1>5. KeepsSender(softFailure(row, steps, retries), row)
  BY DEF KeepsSender, softFailure, Unqueued, Row
<1> QED
  BY <1>1, <1>2, <1>3, <1>4, <1>5

RowsKeepSender == \A l \in Lead : KeepsSender(lead'[l], lead[l])

LEMMA WriteKeepsSender ==
  ASSUME TypeOK, NEW k \in Lead, NEW r, KeepsSender(r, lead[k]), lead' = [lead EXCEPT ![k] = r]
  PROVE  RowsKeepSender
BY DEF RowsKeepSender, KeepsSender, TypeOK, DbOK

LEMMA RowsSameSender ==
  ASSUME UNCHANGED lead
  PROVE  RowsKeepSender
BY DEF RowsKeepSender, KeepsSender

\* No execution moves.
LEMMA SenderElsewhere ==
  ASSUME TypeOK, SenderInv, RowsKeepSender, UNCHANGED <<flight, from>>,
         worker' = worker \/ worker.pc # "await"
  PROVE  SenderInv'
<1>1. OneListener' /\ AllHeard'
  BY DEF SenderInv, OneListener, AllHeard
<1>2. ASSUME NEW l \in Lead PROVE RowNamesSender(l)'
  BY DEF SenderInv, RowNamesSender, RowsKeepSender, KeepsSender, Sent, Inflight
<1>3. ASSUME NEW f \in Flight PROVE Steady(f)'
  <2>1. CASE flight[f].pc = "idle"
    BY <2>1 DEF Steady, Unwritten
  <2>2. CASE flight[f].pc # "idle"
    <3>1. FlightLead(f) \in Lead /\ FlightLead(f)' = FlightLead(f) /\ Steady(f)
      BY <2>2, FlightLeads DEF SenderInv, FlightLead
    <3> QED
      BY <3>1 DEF Steady, RowsKeepSender, KeepsSender
  <2> QED
    BY <2>1, <2>2
<1> QED
  BY <1>1, <1>2, <1>3 DEF SenderInv

\* The execution under way goes on; what left and what is counted stays.
LEMMA SenderMoves ==
  ASSUME TypeOK, SenderInv, RowsKeepSender, UNCHANGED <<worker, from>>,
         NEW f \in Flight, flight[f].pc # "idle", NEW r, Moves(f, r, FlightLead(f)), r.pc # "idle",
         r.pc \in Unwritten <=> flight[f].pc \in Unwritten,
         r.pc \in {"smtp", "sent", "record"} =>
           /\ r.followUp = (lead[FlightLead(f)].stepsSent > 0)
           /\ r.followUp => lead[FlightLead(f)].mailboxId = MailboxOf(flight[f].job)
  PROVE  SenderInv'
<1>1. /\ \A g \in Flight : g # f => flight[g].pc = "idle" /\ flight'[g] = flight[g]
      /\ flight'[f] = r /\ r.job = flight[f].job /\ r.awaited = flight[f].awaited
      /\ flight[f].awaited /\ flight[f].job = worker.job
  BY OneUnderWay DEF SenderInv, Moves, TypeOK, FlightsOK
<1>2. FlightLead(f) \in Lead /\ FlightLead(f)' = FlightLead(f)
  BY <1>1, FlightLeads DEF FlightLead
<1>3. OneListener' /\ AllHeard'
  BY <1>1 DEF SenderInv, OneListener, AllHeard
<1>4. ASSUME NEW l \in Lead PROVE RowNamesSender(l)'
  <2>1. Sent(l)' = Sent(l)
    BY <1>1 DEF Sent, Inflight
  <2> QED
    BY <2>1 DEF SenderInv, RowNamesSender, RowsKeepSender, KeepsSender
<1>5. ASSUME NEW g \in Flight PROVE Steady(g)'
  <2>1. CASE g = f
    BY <1>1, <1>2, <2>1 DEF SenderInv, Steady, RowsKeepSender, KeepsSender
  <2>2. CASE g # f
    BY <1>1, <2>2 DEF Steady, Unwritten
  <2> QED
    BY <2>1, <2>2
<1> QED
  BY <1>3, <1>4, <1>5 DEF SenderInv

\* The mail leaves: from the row's mailbox, or it is the thread's first.
LEMMA SenderMails ==
  ASSUME TypeOK, SenderInv, NEW f \in Flight, SmtpAccepts(f)
  PROVE  SenderInv' /\ from[FlightLead(f)] \subseteq {MailboxOf(flight[f].job)}
<1> DEFINE k == FlightLead(f)
           m == MailboxOf(flight[f].job)
<1>1. /\ flight[f].pc = "smtp" /\ FlightTo(f, "sent") /\ UNCHANGED <<lead, worker>>
      /\ from' = [from EXCEPT ![k] = @ \union {m}]
  BY DEF SmtpAccepts, dbVars
<1>2. PICK r : /\ Moves(f, r, k) /\ r.pc = "sent" /\ r.job = flight[f].job
               /\ r.followUp = flight[f].followUp
  BY <1>1, PcMove
<1>3. /\ \A g \in Flight : g # f => flight[g].pc = "idle" /\ flight'[g] = flight[g]
      /\ flight'[f] = r /\ r.awaited = flight[f].awaited
      /\ flight[f].awaited /\ flight[f].job = worker.job
  BY <1>1, <1>2, OneUnderWay DEF SenderInv, Moves, TypeOK, FlightsOK
<1>4. k \in Lead /\ k' = k /\ flight[f].job \in JobsOf(k) /\ lead[k].stepsSent \in Nat
  BY <1>1, <1>2, <1>3, FlightLeads, Counts DEF FlightLead
<1>5. Steady(f) /\ RowNamesSender(k)
  BY <1>4 DEF SenderInv
<1>6. from[k] \subseteq {m} /\ (lead[k].stepsSent > 0 => lead[k].mailboxId = m)
  <2>1. CASE lead[k].stepsSent > 0
    BY <1>1, <1>5, <2>1 DEF Steady, RowNamesSender
  <2>2. CASE ~(lead[k].stepsSent > 0)
    <3>1. Sent(k) = {} /\ lead[k].stepsSent = 0
      BY <1>1, <1>3, <1>4, <2>2 DEF Sent, Inflight, Unwritten
    <3> QED
      BY <1>5, <3>1 DEF RowNamesSender
  <2> QED
    BY <2>1, <2>2
<1>7. from'[k] = from[k] \union {m} /\ \A l \in Lead : l # k => from'[l] = from[l]
  BY <1>1, <1>4 DEF TypeOK, HistoryOK
<1>8. OneListener' /\ AllHeard'
  BY <1>1, <1>2, <1>3 DEF SenderInv, OneListener, AllHeard
<1>9. ASSUME NEW l \in Lead PROVE RowNamesSender(l)'
  <2>1. CASE l = k
    <3>1. f \in Sent(l)'
      BY <1>2, <1>3, <1>4, <2>1 DEF Sent, Inflight, Unwritten
    <3> QED
      BY <1>1, <1>5, <1>6, <1>7, <2>1, <3>1 DEF RowNamesSender
  <2>2. CASE l # k
    <3>1. Sent(l)' = {} /\ Sent(l) = {}
      BY <1>1, <1>2, <1>3, <1>4, <2>2 DEF Sent, Inflight, Unwritten, JobsOf
    <3> QED
      BY <1>1, <1>7, <2>2, <3>1 DEF RowNamesSender, SenderInv
  <2> QED
    BY <2>1, <2>2
<1>10. ASSUME NEW g \in Flight PROVE Steady(g)'
  <2>1. CASE g = f
    BY <1>1, <1>2, <1>3, <1>4, <1>5, <1>6, <1>7, <2>1 DEF Steady
  <2>2. CASE g # f
    BY <1>3, <2>2 DEF Steady, Unwritten
  <2> QED
    BY <2>1, <2>2
<1> QED
  BY <1>6, <1>8, <1>9, <1>10 DEF SenderInv

\* It is written down: a first mail names the sender, a follow-up keeps it.
LEMMA SenderWrites ==
  ASSUME TypeOK, SenderInv, NEW f \in Flight, RecordWrite(f)
  PROVE  SenderInv'
<1> DEFINE k == FlightLead(f)
           m == MailboxOf(flight[f].job)
           row == recordSent(lead[k], flight[f].stepsRead, flight[f].followUp, m)
<1>1. /\ flight[f].pc = "record" /\ FlightTo(f, "ok") /\ UNCHANGED <<worker, from>>
      /\ lead' = [lead EXCEPT ![k] = row]
  BY DEF RecordWrite, history
<1>2. PICK r : Moves(f, r, k) /\ r.pc = "ok" /\ r.job = flight[f].job
  BY <1>1, PcMove
<1>3. /\ \A g \in Flight : g # f => flight[g].pc = "idle" /\ flight'[g] = flight[g]
      /\ flight'[f] = r /\ r.awaited = flight[f].awaited
      /\ flight[f].awaited /\ flight[f].job = worker.job
  BY <1>1, <1>2, OneUnderWay DEF SenderInv, Moves, TypeOK, FlightsOK
<1>4. /\ k \in Lead /\ flight[f].job \in JobsOf(k) /\ lead[k] \in Row /\ m \in Mailbox
      /\ flight[f] \in FlightState
  BY <1>1, FlightLeads
<1>5. Steady(f) /\ RowNamesSender(k)
  BY <1>4 DEF SenderInv
<1>6. row.stepsSent > 0 /\ row.mailboxId = IF flight[f].followUp THEN lead[k].mailboxId ELSE m
  <2>1. flight[f].stepsRead \in Nat /\ flight[f].followUp \in BOOLEAN
    BY <1>4 DEF FlightState
  <2>2. /\ row.stepsSent = flight[f].stepsRead + 1
        /\ row.mailboxId = IF flight[f].followUp THEN lead[k].mailboxId ELSE m
    BY <1>4, <2>1, SentIsCounted
  <2> HIDE DEF row
  <2> QED
    BY <2>1, <2>2
<1>7. row.mailboxId = m /\ from[k] \subseteq {m}
  BY <1>1, <1>5, <1>6 DEF Steady, Unwritten
<1>8. lead'[k] = row /\ \A l \in Lead : l # k => lead'[l] = lead[l]
  BY <1>1, <1>4 DEF TypeOK, DbOK
<1>9. m # NoMailbox
  BY <1>4, LeadRowAssumption
<1> HIDE DEF row
<1>10. OneListener' /\ AllHeard'
  BY <1>1, <1>2, <1>3 DEF SenderInv, OneListener, AllHeard
<1>11. ASSUME NEW l \in Lead PROVE RowNamesSender(l)'
  <2>1. CASE l = k
    BY <1>1, <1>6, <1>7, <1>8, <1>9, <2>1 DEF RowNamesSender
  <2>2. CASE l # k
    <3>1. Sent(l)' = {} /\ Sent(l) = {}
      BY <1>1, <1>2, <1>3, <1>4, <2>2 DEF Sent, Inflight, Unwritten, JobsOf
    <3> QED
      BY <1>1, <1>8, <2>2, <3>1 DEF RowNamesSender, SenderInv
  <2> QED
    BY <2>1, <2>2
<1>12. ASSUME NEW g \in Flight PROVE Steady(g)'
  BY <1>2, <1>3 DEF Steady, Unwritten
<1> QED
  BY <1>10, <1>11, <1>12 DEF SenderInv

LEMMA SenderFlight ==
  ASSUME TypeOK, SenderInv, SendsDoNotFail, NEW f \in Flight, FlightStep(f)
  PROVE  SenderInv'
<1> DEFINE k == FlightLead(f)
<1>a. ASSUME flight[f].pc # "idle", flight[f].pc \notin Unwritten,
             NEW pc \in {"send", "refused", "failed"}, FlightTo(f, pc),
             RowsKeepSender, UNCHANGED <<worker, from>>
      PROVE  SenderInv'
  <2>1. PICK r : Moves(f, r, k) /\ r.pc = pc
    BY <1>a, PcMove
  <2> QED
    BY <1>a, <2>1, SenderMoves DEF Unwritten
<1>w. ASSUME flight[f].pc # "idle", NEW row, KeepsSender(row, lead[k]),
             lead' = [lead EXCEPT ![k] = row]
      PROVE  RowsKeepSender
  BY <1>w, FlightLeads, WriteKeepsSender
<1>1. CASE Compose(f)
  <2>1. KeepsSender(endSequence(lead[k]), lead[k])
    BY <1>1, FlightLeads, WritesKeepSender DEF Compose
  <2> QED
    BY <1>1, <2>1, <1>a, <1>w, RowsSameSender DEF Compose, history, Unwritten
<1>2. CASE SendRefused(f)
  BY <1>2, <1>a, RowsSameSender DEF SendRefused, history, dbVars, Unwritten
<1>3. CASE SendSuppressed(f)
  <2>1. KeepsSender(suppressAtSend(lead[k]), lead[k])
    BY <1>3, FlightLeads, WritesKeepSender DEF SendSuppressed
  <2> QED
    BY <1>3, <2>1, <1>a, <1>w DEF SendSuppressed, history, Unwritten
<1>4. CASE SendCleared(f)
  <2> DEFINE q == lead[k].stepsSent > 0
             r == [flight[f] EXCEPT !.pc = "smtp", !.followUp = q]
  <2>1. /\ k \in Lead /\ flight[f].job \in JobsOf(k) /\ flight[f] \in FlightState
        /\ flight[f].pc = "send" /\ UNCHANGED <<lead, worker, from>>
        /\ SenderRule(k, MailboxOf(flight[f].job))
    BY <1>4, FlightLeads DEF SendCleared, dbVars, history
  <2>2. flight' = [flight EXCEPT ![f] = r]
    BY <1>4, Zenon DEF SendCleared
  <2>3. q \in BOOLEAN
    OBVIOUS
  <2>4. q => lead[k].mailboxId = MailboxOf(flight[f].job)
    BY <2>1 DEF SenderRule, SenderInv, RowNamesSender
  <2> HIDE DEF k, q
  <2>5. /\ r \in FlightState /\ r.pc = "smtp" /\ r.job = flight[f].job
        /\ r.awaited = flight[f].awaited /\ r.followUp = q
    BY <2>1, <2>3 DEF FlightState
  <2> HIDE DEF r
  <2>6. Moves(f, r, k)
    BY <2>1, <2>2, <2>5 DEF Moves
  <2> QED
    BY <2>1, <2>4, <2>5, <2>6, RowsSameSender, SenderMoves DEF k, q, Unwritten
<1>5. CASE SmtpAccepts(f)
  BY <1>5, SenderMails
<1>6. CASE SmtpRefuses(f)
  <2>1. KeepsSender(hardBounce(lead[k]), lead[k])
    BY <1>6, FlightLeads, WritesKeepSender DEF SmtpRefuses
  <2>2. CASE lead' = [lead EXCEPT ![k] = hardBounce(@)] /\ FlightTo(f, "failed")
    BY <1>6, <2>1, <2>2, <1>a, <1>w DEF SmtpRefuses, history, Unwritten
  <2>3. CASE UNCHANGED lead /\ ReadFailed(f)
    <3> DEFINE r == [flight[f] EXCEPT !.pc = "refused", !.stepsRead = lead[k].stepsSent,
                                      !.retriesRead = lead[k].retryCount]
    <3>1. /\ k \in Lead /\ flight[f].job \in JobsOf(k) /\ flight[f] \in FlightState
          /\ lead[k] \in Row /\ flight[f].pc = "smtp" /\ UNCHANGED <<worker, from>>
      BY <1>6, FlightLeads DEF SmtpRefuses, history
    <3>2. /\ r \in FlightState /\ r.pc = "refused" /\ r.job = flight[f].job
          /\ r.awaited = flight[f].awaited /\ flight' = [flight EXCEPT ![f] = r]
      BY <2>3, <3>1 DEF ReadFailed, FlightState, Row
    <3> HIDE DEF k, r
    <3>3. Moves(f, r, k)
      BY <3>1, <3>2 DEF Moves
    <3> QED
      BY <2>3, <3>1, <3>2, <3>3, RowsSameSender, SenderMoves DEF Unwritten, k
  <2> QED
    BY <1>6, <2>2, <2>3 DEF SmtpRefuses
<1>7. CASE RecordFailure(f)
  <2>1. KeepsSender(softFailure(lead[k], flight[f].stepsRead, flight[f].retriesRead), lead[k])
    BY <1>7, FlightLeads, WritesKeepSender DEF RecordFailure
  <2> QED
    BY <1>7, <2>1, <1>a, <1>w DEF RecordFailure, history, Unwritten
<1>8. CASE RecordRead(f)
  <2> DEFINE r == [flight[f] EXCEPT !.pc = "record", !.stepsRead = lead[k].stepsSent]
  <2>1. /\ k \in Lead /\ flight[f].job \in JobsOf(k) /\ flight[f] \in FlightState /\ lead[k] \in Row
        /\ flight[f].pc = "sent" /\ UNCHANGED <<lead, worker, from>>
    BY <1>8, FlightLeads DEF RecordRead, dbVars, history
  <2>2. /\ r \in FlightState /\ r.pc = "record" /\ r.job = flight[f].job
        /\ r.awaited = flight[f].awaited /\ flight' = [flight EXCEPT ![f] = r]
        /\ r.followUp = flight[f].followUp
    BY <1>8, <2>1 DEF RecordRead, FlightState, Row
  <2>3. Steady(f)
    BY DEF SenderInv
  <2> HIDE DEF k, r
  <2>4. Moves(f, r, k)
    BY <2>1, <2>2 DEF Moves
  <2> QED
    BY <2>1, <2>2, <2>3, <2>4, RowsSameSender, SenderMoves DEF Unwritten, k, Steady
<1>9. CASE RecordWrite(f)
  BY <1>9, SenderWrites
<1>10. CASE RecordFails(f) \/ RecordLost(f) \/ ApiDies(f)
  BY <1>10 DEF RecordFails, RecordLost, ApiDies, Fault, SendsDoNotFail
<1>11. CASE FlightEnds(f)
  BY <1>11 DEF FlightEnds, SenderInv, AllHeard
<1> QED
  BY <1>1, <1>2, <1>3, <1>4, <1>5, <1>6, <1>7, <1>8, <1>9, <1>10, <1>11 DEF FlightStep

\* An execution starts or its answer is taken: no mail is about to be written down.
LEMMA SenderStarts ==
  ASSUME TypeOK, SenderInv, UNCHANGED <<lead, from>>, NEW f \in Flight, NEW r,
         flight' = [flight EXCEPT ![f] = r],
         flight[f].pc \in {"idle", "ok", "failed"}, r.pc \in {"idle", "compose"},
         \A g \in Flight : g # f => flight[g].pc = "idle" /\ ~flight[g].awaited,
         r.pc = "compose" => r.awaited /\ r.job = worker'.job,
         r.awaited => worker'.pc = "await"
  PROVE  SenderInv'
<1>1. flight'[f] = r /\ \A g \in Flight : g # f => flight'[g] = flight[g]
  BY DEF TypeOK, FlightsOK
<1>2. OneListener' /\ AllHeard'
  BY <1>1 DEF OneListener, AllHeard
<1>3. ASSUME NEW l \in Lead PROVE RowNamesSender(l)'
  <2>1. Sent(l)' = {} /\ Sent(l) = {}
    BY <1>1 DEF Sent, Inflight, Unwritten
  <2> QED
    BY <2>1 DEF RowNamesSender, SenderInv
<1>4. ASSUME NEW g \in Flight PROVE Steady(g)'
  BY <1>1 DEF Steady, Unwritten
<1> QED
  BY <1>2, <1>3, <1>4 DEF SenderInv

LEMMA SenderWorker ==
  ASSUME TypeOK, SenderInv, SendsDoNotFail, WorkerStep \/ Crash
  PROVE  SenderInv'
<1>a. ASSUME worker.pc \in {"release", "ready", "failed"}, NEW row,
             KeepsSender(row, lead[LeadOf(worker.job)]), WorkerWrites(row),
             UNCHANGED <<flight, history>>
      PROVE  SenderInv'
  <2>1. LeadOf(worker.job) \in Lead
    BY <1>a, JobNames DEF TypeOK, WorkerOK
  <2>2. RowsKeepSender
    BY <1>a, <2>1, WriteKeepsSender DEF WorkerWrites
  <2> QED
    BY <1>a, <2>2, SenderElsewhere DEF history
<1>b. worker.pc # "idle" => lead[LeadOf(worker.job)] \in Row
  BY JobNames DEF TypeOK, WorkerOK, DbOK
<1>c. worker.followUp \in BOOLEAN
  BY DEF TypeOK, WorkerOK, WorkerState
<1>1. CASE (\E j \in JobId : TakeJob(j)) \/ WorkerFinishes
  <2>1. worker.pc # "await" /\ UNCHANGED <<lead, flight, from>>
    BY <1>1 DEF TakeJob, WorkerFinishes, dbVars, history
  <2> QED
    BY <2>1, RowsSameSender, SenderElsewhere
<1>2. CASE WorkerReleases
  BY <1>2, <1>a, <1>b, <1>c, WritesKeepSender DEF WorkerReleases
<1>3. CASE WorkerStopsDeadAddress
  BY <1>3, <1>a, <1>b, <1>c, WritesKeepSender DEF WorkerStopsDeadAddress
<1>4. CASE WorkerAsksAgainLater
  BY <1>4, <1>a, <1>b, <1>c, WritesKeepSender DEF WorkerAsksAgainLater
<1>5. CASE \E f \in Flight : WorkerDispatches(f)
  <2>1. PICK f \in Flight : WorkerDispatches(f)
    BY <1>5
  <2>2. \A g \in Flight : ~flight[g].awaited /\ flight[g].pc = "idle"
    BY <2>1 DEF WorkerDispatches, SenderInv, OneListener, AllHeard
  <2>3. worker'.pc = "await" /\ worker'.job = worker.job
    BY <2>1 DEF WorkerDispatches, TypeOK, WorkerOK, WorkerState
  <2> QED
    BY <2>1, <2>2, <2>3, SenderStarts DEF WorkerDispatches, dbVars, history
<1>6. CASE \E f \in Flight : WorkerAnswered(f)
  <2>1. PICK f \in Flight : WorkerAnswered(f)
    BY <1>6
  <2>2. /\ flight[f].pc \in {"ok", "failed"} /\ UNCHANGED <<lead, from>>
        /\ flight' = [flight EXCEPT ![f] = IdleFlight]
    BY <2>1 DEF WorkerAnswered, dbVars, history
  <2>3. \A g \in Flight : g # f => flight[g].pc = "idle" /\ ~flight[g].awaited
    BY <2>2, OneUnderWay DEF SenderInv, OneListener
  <2> QED
    BY <2>2, <2>3, SenderStarts DEF IdleFlight
<1>7. CASE WorkerWritesFailure
  BY <1>7, <1>a, <1>b, <1>c, WritesKeepSender DEF WorkerWritesFailure
<1>8. CASE WorkerFetchRejects \/ Crash
  BY <1>8 DEF WorkerFetchRejects, Crash, Fault, SendsDoNotFail
<1> QED
  BY <1>1, <1>2, <1>3, <1>4, <1>5, <1>6, <1>7, <1>8 DEF WorkerStep

LEMMA SenderTicks ==
  ASSUME TypeOK, SenderInv, (\E t \in Tick : TickStep(t)) \/ ReconStep \/ QueueStep
  PROVE  SenderInv'
<1>1. CASE \E t \in Tick : TickMarkLead(t)
  <2>1. PICK t \in Tick : TickMarkLead(t)
    BY <1>1
  <2>2. tick[t].job \in JobId /\ LeadOf(tick[t].job) \in Lead /\ lead[LeadOf(tick[t].job)] \in Row
    BY <2>1, JobNames DEF TickMarkLead, TypeOK, TicksOK, DbOK
  <2>3. RowsKeepSender
    <3> DEFINE j == tick[t].job
               k == LeadOf(j)
    <3>1. KeepsSender(bookFollowUp(lead[k], j), lead[k]) /\ KeepsSender(bookFirstEmail(lead[k], j), lead[k])
      BY <2>2, WritesKeepSender
    <3>2. \/ lead' = [lead EXCEPT ![k] = bookFollowUp(lead[k], j)]
          \/ lead' = [lead EXCEPT ![k] = bookFirstEmail(lead[k], j)]
      BY <2>1 DEF TickMarkLead
    <3> HIDE DEF k
    <3> QED
      BY <2>2, <3>1, <3>2, WriteKeepsSender DEF k
  <2> QED
    BY <2>1, <2>3, SenderElsewhere DEF TickMarkLead, history
<1>2. CASE \E t \in Tick : /\ TickStep(t)
                            /\ ~TickMarkLead(t)
  <2>1. PICK t \in Tick : TickStep(t) /\ ~TickMarkLead(t)
    BY <1>2
  <2>2. \/ \E l \in Lead, m \in Mailbox : TickTakeSlot(t, l, m)
        \/ \E l \in Lead : TickSkip(t, l)
        \/ TickStart(t) \/ TickAddJob(t) \/ TickReadFirstEmails(t) \/ TickEnd(t) \/ TickFails(t)
    BY <2>1 DEF TickStep
  <2>3. UNCHANGED <<lead, worker, flight, from>>
    BY <2>2 DEF TickStart, TickTakeSlot, TickSkip, TickAddJob,
         TickReadFirstEmails, TickEnd, TickFails, dbVars, history
  <2> QED
    BY <2>3, RowsSameSender, SenderElsewhere
<1>3. CASE ReconMark
  <2>1. recon.job \in JobId /\ LeadOf(recon.job) \in Lead /\ lead[LeadOf(recon.job)] \in Row
    BY <1>3, JobNames DEF ReconMark, TypeOK, ReconOK, DbOK
  <2>2. RowsKeepSender
    BY <1>3, <2>1, WritesKeepSender, WriteKeepsSender DEF ReconMark
  <2> QED
    BY <1>3, <2>2, SenderElsewhere DEF ReconMark, history
<1>4. CASE ReconAdd \/ (\E l \in Lead : ReconFind(l)) \/ QueueStep
  <2>1. UNCHANGED <<lead, worker, flight, from>>
    BY <1>4 DEF ReconAdd, ReconFind, QueueStep, RecoverStalled, Prune, dbVars, history
  <2> QED
    BY <2>1, RowsSameSender, SenderElsewhere
<1> QED
  BY <1>1, <1>2, <1>3, <1>4 DEF ReconStep

LEMMA SenderTime ==
  ASSUME TypeOK, SenderInv, TimeStep \/ EnvStep
  PROVE  SenderInv'
<1>r. \A l \in Lead : lead[l] \in Row
  BY DEF TypeOK, DbOK
<1>1. CASE \E l \in Lead : DateComes(l) \/ SlotOverdue(l)
  <2>1. RowsKeepSender
    BY <1>1, <1>r DEF DateComes, SlotOverdue, RowsKeepSender, KeepsSender, Row, TypeOK, DbOK
  <2> QED
    BY <1>1, <2>1, SenderElsewhere DEF DateComes, SlotOverdue, history
<1>2. CASE \E e \in Email : OptOut(e)
  <2>1. \A l \in Lead : KeepsSender(suppressEmail(lead[l]), lead[l])
    BY <1>r, WritesKeepSender
  <2>2. RowsKeepSender
    BY <1>2, <2>1 DEF OptOut, RowsKeepSender, KeepsSender
  <2> QED
    BY <1>2, <2>2, SenderElsewhere DEF OptOut
<1>3. CASE \E l \in Lead : ReplyMarks(l) \/ BounceReport(l)
  <2>1. RowsKeepSender
    BY <1>3, <1>r, WritesKeepSender, WriteKeepsSender DEF ReplyMarks, BounceReport
  <2> QED
    BY <1>3, <2>1, SenderElsewhere DEF ReplyMarks, BounceReport, history
<1>4. CASE \/ \E j \in JobId : SlotComes(j)
           \/ CampaignOpens
           \/ \E m \in Mailbox : MailboxToggles(m)
           \/ \E e \in Email : Unblock(e)
           \/ \E l \in Lead : ReplyStored(l) \/ ReplyMarkLost(l)
  <2>1. UNCHANGED <<lead, worker, flight, from>>
    BY <1>4 DEF SlotComes, CampaignOpens, MailboxToggles, Unblock, ReplyStored,
                ReplyMarkLost, dbVars, history
  <2> QED
    BY <2>1, RowsSameSender, SenderElsewhere
<1> QED
  BY <1>1, <1>2, <1>3, <1>4 DEF TimeStep, EnvStep

LEMMA NextSender ==
  ASSUME TypeOK, SenderInv, SendsDoNotFail, [Next]_vars
  PROVE  SenderInv'
<1>1. CASE UNCHANGED vars
  BY <1>1, RowsSameSender, SenderElsewhere DEF vars, dbVars, history
<1> QED
  BY <1>1, SenderFlight, SenderWorker, SenderTicks, SenderTime DEF Next

LEMMA InitSender ==
  ASSUME Init
  PROVE  SenderInv
<1>1. OneListener /\ AllHeard
  BY DEF Init, OneListener, AllHeard, IdleFlight
<1>2. ASSUME NEW l \in Lead PROVE RowNamesSender(l)
  BY DEF Init, RowNamesSender, NewLead
<1>3. ASSUME NEW f \in Flight PROVE Steady(f)
  BY DEF Init, Steady, IdleFlight, Unwritten
<1> QED
  BY <1>1, <1>2, <1>3 DEF SenderInv

(* enqueuer.ts: "never another one, so the lead sees one sender in one       *)
(* thread".  However ticks overlap, book a lead twice with two mailboxes and *)
(* overwrite each other's marks, and however late jobs and sends are, all    *)
(* mails of a thread leave from one mailbox, while no send fails half-way.   *)
THEOREM OneSenderIsKept ==
  ASSUME SendsDoNotFail
  PROVE  Spec => []OneSender
<1>1. TypeOK /\ SenderInv => OneSender
  <2> SUFFICES ASSUME TypeOK, SenderInv, NEW l \in Lead
               PROVE  Cardinality(from[l]) <= 1
    BY DEF OneSender
  <2>1. \E m : from[l] \subseteq {m}
    <3>1. CASE lead[l].stepsSent > 0
      BY <3>1 DEF SenderInv, RowNamesSender
    <3>2. CASE ~(lead[l].stepsSent > 0) /\ Sent(l) = {}
      <4>1. from[l] = {}
        BY <3>2, Counts DEF SenderInv, RowNamesSender
      <4> QED
        BY <4>1
    <3>3. CASE Sent(l) # {}
      <4>1. PICK f \in Flight : flight[f].job \in JobsOf(l) /\ flight[f].pc \in Unwritten
        BY <3>3 DEF Sent, Inflight
      <4>2. FlightLead(f) = l
        BY <4>1 DEF FlightLead, LeadOf, JobsOf
      <4> QED
        BY <4>1, <4>2 DEF SenderInv, Steady
    <3> QED
      BY <3>1, <3>2, <3>3
  <2>2. PICK m : from[l] \subseteq {m}
    BY <2>1
  <2>3. from[l] = {} \/ from[l] = {m}
    BY <2>2
  <2>4. Cardinality({}) = 0 /\ Cardinality({m}) = 1
    BY FS_EmptySet, FS_Singleton
  <2> QED
    BY <2>3, <2>4
<1> QED
  BY <1>1, InitSender, NextSender, DispatchTypes, PTL DEF Spec

-----------------------------------------------------------------------------
(* Further senders, whatever fails.  A first email passed sendMail's look at *)
(* the lead while no step was counted; once one is, only such an execution   *)
(* can still bring a mailbox into the thread that is not the row's.          *)
Sender(f) == MailboxOf(flight[f].job)

Strangers(l) == {f \in Inflight(l, {"smtp"}) : Sender(f) \notin from[l]}

Agreed(l) ==
  lead[l].stepsSent > 0 =>
    /\ lead[l].mailboxId \in from[l]
    /\ Cardinality(from[l]) + Cardinality(Strangers(l)) <= 1 + faults

\* Each mail brings one sender at most.
FromMails(l) == IsFiniteSet(from[l]) /\ Cardinality(from[l]) <= mailed[l]

\* What left is counted among the senders; a follow-up stays one.
Known(f) ==
  /\ flight[f].pc \in Unwritten => Sender(f) \in from[FlightLead(f)]
  /\ flight[f].pc \in {"smtp", "sent", "record"} /\ flight[f].followUp
       => lead[FlightLead(f)].stepsSent > 0

FromInv ==
  /\ \A l \in Lead : FromMails(l) /\ Agreed(l)
  /\ \A f \in Flight : Known(f)

\* Only a mail that left is counted, and only it names a sender.
LEMMA RecordsWriteSenders ==
  ASSUME TypeOK, [Next]_vars, \A f \in Flight : ~RecordWrite(f)
  PROVE  RowsKeepSender
<1>r. \A l \in Lead : lead[l] \in Row
  BY DEF TypeOK, DbOK
<1>b. worker.pc # "idle" => LeadOf(worker.job) \in Lead
  BY JobNames DEF TypeOK, WorkerOK
<1>c. worker.followUp \in BOOLEAN
  BY DEF TypeOK, WorkerOK, WorkerState
<1>1. CASE \E t \in Tick : TickMarkLead(t)
  <2>1. PICK t \in Tick : TickMarkLead(t)
    BY <1>1
  <2>2. tick[t].job \in JobId /\ LeadOf(tick[t].job) \in Lead
    BY <2>1, JobNames DEF TickMarkLead, TypeOK, TicksOK
  <2> DEFINE j == tick[t].job
             k == LeadOf(j)
  <2>3. KeepsSender(bookFollowUp(lead[k], j), lead[k]) /\ KeepsSender(bookFirstEmail(lead[k], j), lead[k])
    BY <1>r, <2>2, WritesKeepSender
  <2>4. \/ lead' = [lead EXCEPT ![k] = bookFollowUp(lead[k], j)]
        \/ lead' = [lead EXCEPT ![k] = bookFirstEmail(lead[k], j)]
    BY <2>1 DEF TickMarkLead
  <2> HIDE DEF k
  <2> QED
    BY <2>2, <2>3, <2>4, WriteKeepsSender DEF k
<1>2. CASE ReconMark
  <2>1. recon.job \in JobId /\ LeadOf(recon.job) \in Lead
    BY <1>2, JobNames DEF ReconMark, TypeOK, ReconOK
  <2> QED
    BY <1>r, <1>2, <2>1, WritesKeepSender, WriteKeepsSender DEF ReconMark
<1>3. CASE WorkerReleases \/ WorkerStopsDeadAddress \/ WorkerAsksAgainLater \/ WorkerWritesFailure
  <2> DEFINE k == LeadOf(worker.job)
  <2>1. k \in Lead
    BY <1>3, <1>b DEF WorkerReleases, WorkerStopsDeadAddress, WorkerAsksAgainLater, WorkerWritesFailure
  <2>2. PICK row : lead' = [lead EXCEPT ![k] = row] /\ KeepsSender(row, lead[k])
    <3>1. /\ KeepsSender(releaseLead(lead[k], worker.followUp), lead[k])
          /\ KeepsSender(stopDeadAddress(lead[k]), lead[k])
          /\ KeepsSender(askAgainLater(lead[k]), lead[k])
          /\ KeepsSender(dispatchFailed(lead[k], worker.followUp, worker.seen), lead[k])
      BY <1>r, <1>c, <2>1, WritesKeepSender
    <3>2. \/ lead' = [lead EXCEPT ![k] = releaseLead(lead[k], worker.followUp)]
          \/ lead' = [lead EXCEPT ![k] = stopDeadAddress(lead[k])]
          \/ lead' = [lead EXCEPT ![k] = askAgainLater(lead[k])]
          \/ lead' = [lead EXCEPT ![k] = dispatchFailed(lead[k], worker.followUp, worker.seen)]
      BY <1>3 DEF WorkerReleases, WorkerStopsDeadAddress, WorkerAsksAgainLater, WorkerWritesFailure,
         WorkerWrites
    <3> HIDE DEF k
    <3> QED
      BY <3>1, <3>2
  <2> HIDE DEF k
  <2> QED
    BY <2>1, <2>2, WriteKeepsSender
<1>4. CASE \E f \in Flight : Compose(f) \/ SendSuppressed(f) \/ SmtpRefuses(f) \/ RecordFailure(f)
  <2>1. PICK f \in Flight : Compose(f) \/ SendSuppressed(f) \/ SmtpRefuses(f) \/ RecordFailure(f)
    BY <1>4
  <2> DEFINE k == FlightLead(f)
  <2>2. flight[f].pc # "idle"
    BY <2>1 DEF Compose, SendSuppressed, SmtpRefuses, RecordFailure
  <2>3. k \in Lead
    BY <2>2, FlightLeads
  <2>4. /\ KeepsSender(endSequence(lead[k]), lead[k]) /\ KeepsSender(suppressAtSend(lead[k]), lead[k])
        /\ KeepsSender(hardBounce(lead[k]), lead[k])
        /\ KeepsSender(softFailure(lead[k], flight[f].stepsRead, flight[f].retriesRead), lead[k])
    BY <1>r, <2>3, WritesKeepSender
  <2>5. \/ UNCHANGED lead
        \/ lead' = [lead EXCEPT ![k] = endSequence(lead[k])]
        \/ lead' = [lead EXCEPT ![k] = suppressAtSend(lead[k])]
        \/ lead' = [lead EXCEPT ![k] = hardBounce(lead[k])]
        \/ lead' = [lead EXCEPT ![k] = softFailure(lead[k], flight[f].stepsRead, flight[f].retriesRead)]
    BY <2>1 DEF Compose, SendSuppressed, SmtpRefuses, RecordFailure
  <2> HIDE DEF k
  <2> QED
    BY <2>3, <2>4, <2>5, WriteKeepsSender, RowsSameSender
<1>5. CASE \E l \in Lead : DateComes(l) \/ SlotOverdue(l)
  BY <1>5, <1>r DEF DateComes, SlotOverdue, RowsKeepSender, KeepsSender, Row, TypeOK, DbOK
<1>6. CASE \E e \in Email : OptOut(e)
  <2>1. \A l \in Lead : KeepsSender(suppressEmail(lead[l]), lead[l])
    BY <1>r, WritesKeepSender
  <2> QED
    BY <1>6, <2>1 DEF OptOut, RowsKeepSender, KeepsSender
<1>7. CASE \E l \in Lead : ReplyMarks(l) \/ BounceReport(l)
  BY <1>7, <1>r, WritesKeepSender, WriteKeepsSender DEF ReplyMarks, BounceReport
<1>8. CASE UNCHANGED lead
  BY <1>8, RowsSameSender
<1>9. \/ \E t \in Tick : TickMarkLead(t)
      \/ ReconMark
      \/ WorkerReleases \/ WorkerStopsDeadAddress \/ WorkerAsksAgainLater \/ WorkerWritesFailure
      \/ \E f \in Flight : Compose(f) \/ SendSuppressed(f) \/ SmtpRefuses(f) \/ RecordFailure(f)
      \/ \E l \in Lead : DateComes(l) \/ SlotOverdue(l)
      \/ \E e \in Email : OptOut(e)
      \/ \E l \in Lead : ReplyMarks(l) \/ BounceReport(l)
      \/ UNCHANGED lead
  <2>1. CASE \E t \in Tick : TickStep(t)
    BY <2>1 DEF TickStep, TickStart, TickTakeSlot, TickSkip, TickAddJob, TickReadFirstEmails,
       TickEnd, TickFails, dbVars
  <2>2. CASE WorkerStep \/ Crash
    BY <2>2 DEF WorkerStep, Crash, TakeJob, WorkerDispatches, WorkerAnswered, WorkerFetchRejects,
       WorkerFinishes, dbVars
  <2>3. CASE \E f \in Flight : FlightStep(f)
    BY <2>3 DEF FlightStep, SendRefused, SendCleared, SmtpAccepts, RecordRead, RecordFails,
       RecordLost, ApiDies, FlightEnds, dbVars
  <2>4. CASE ReconStep \/ QueueStep \/ TimeStep \/ EnvStep
    BY <2>4 DEF ReconStep, ReconFind, ReconAdd, QueueStep, RecoverStalled, Prune, TimeStep, SlotComes,
       EnvStep, CampaignOpens, MailboxToggles, Unblock, ReplyStored, ReplyMarkLost, dbVars
  <2>5. CASE UNCHANGED vars
    BY <2>5 DEF vars, dbVars
  <2> QED
    BY <2>1, <2>2, <2>3, <2>4, <2>5 DEF Next
<1> QED
  BY <1>1, <1>2, <1>3, <1>4, <1>5, <1>6, <1>7, <1>8, <1>9

-----------------------------------------------------------------------------
(* The steps.                                                               *)

\* An execution passes the look, goes on towards its count, or drops out.
GoesOn(f) ==
  flight'[f].pc \in {"smtp", "sent", "record"} =>
    /\ flight'[f].job = flight[f].job
    /\ \/ /\ flight'[f].followUp = flight[f].followUp
          /\ \/ flight[f].pc = "smtp" /\ flight'[f].pc = "smtp"
             \/ flight[f].pc \in Unwritten /\ flight'[f].pc \in Unwritten
       \/ /\ flight[f].pc = "send" /\ flight'[f].pc = "smtp"
          /\ SenderRule(FlightLead(f), Sender(f))
          /\ flight'[f].followUp => lead[FlightLead(f)].stepsSent > 0

LEMMA StrangersFinite ==
  ASSUME NEW l
  PROVE  IsFiniteSet(Strangers(l)) /\ Cardinality(Strangers(l)) \in Nat
         /\ Strangers(l) \subseteq ToSend(l)
<1>1. Strangers(l) \in SUBSET Inflight(l, {"smtp"}) /\ Inflight(l, {"smtp"}) \subseteq ToSend(l)
  BY DEF Strangers, Inflight, ToSend, Unsent
<1> QED
  BY <1>1, InflightFinite, FS_Subset, FS_CardinalityType

\* A follow-up that passes the look is no stranger.
LEMMA ClearedIsKnown ==
  ASSUME TypeOK, FromInv, NEW f \in Flight, flight[f].pc # "idle",
         SenderRule(FlightLead(f), Sender(f)), lead[FlightLead(f)].stepsSent > 0
  PROVE  Sender(f) \in from[FlightLead(f)]
<1>1. FlightLead(f) \in Lead /\ from[FlightLead(f)] \subseteq Mailbox
  BY FlightLeads DEF TypeOK, HistoryOK
<1>2. lead[FlightLead(f)].mailboxId \in from[FlightLead(f)]
  BY <1>1 DEF FromInv, Agreed
<1>3. lead[FlightLead(f)].mailboxId # NoMailbox
  BY <1>1, <1>2, LeadRowAssumption
<1> QED
  BY <1>2, <1>3 DEF SenderRule

\* Nothing is mailed and nothing counted.
LEMMA FromStays ==
  ASSUME TypeOK, TypeOK', FromInv, RowsKeepSender, UNCHANGED <<from, mailed>>,
         faults' >= faults, \A f \in Flight : GoesOn(f)
  PROVE  FromInv'
<1>n. faults \in Nat /\ faults' \in Nat
  BY DispatchAssumption DEF TypeOK, HistoryOK
<1>1. ASSUME NEW l \in Lead
      PROVE  FromMails(l)' /\ Agreed(l)'
  <2>1. FromMails(l)'
    BY DEF FromInv, FromMails
  <2>2. ASSUME lead'[l].stepsSent > 0
        PROVE  /\ lead'[l].mailboxId \in from'[l]
               /\ Cardinality(from'[l]) + Cardinality(Strangers(l)') <= 1 + faults'
    <3>1. lead[l].stepsSent > 0 /\ lead'[l].mailboxId = lead[l].mailboxId
      BY <2>2 DEF RowsKeepSender, KeepsSender
    <3>2. Strangers(l)' \subseteq Strangers(l)
      <4> SUFFICES ASSUME NEW f \in Strangers(l)'
                   PROVE  f \in Strangers(l)
        OBVIOUS
      <4>1. /\ f \in Flight /\ flight'[f].pc = "smtp" /\ flight'[f].job = flight[f].job
            /\ flight[f].job \in JobsOf(l) /\ Sender(f) \notin from[l]
            /\ FlightLead(f) = l
        BY DEF Strangers, Inflight, GoesOn, Sender, FlightLead, LeadOf, JobsOf
      <4>2. CASE flight[f].pc = "smtp"
        BY <4>1, <4>2 DEF Strangers, Inflight
      <4>3. CASE flight[f].pc = "send" /\ SenderRule(FlightLead(f), Sender(f))
        BY <3>1, <4>1, <4>3, ClearedIsKnown
      <4> QED
        BY <4>1, <4>2, <4>3 DEF GoesOn, Unwritten
    <3>3. Cardinality(Strangers(l)') <= Cardinality(Strangers(l)) /\ Cardinality(Strangers(l)') \in Nat
      BY <3>2, StrangersFinite, FS_Subset, FS_CardinalityType
    <3>4. Cardinality(from[l]) \in Nat
      BY FS_CardinalityType DEF FromInv, FromMails
    <3>5. /\ lead[l].mailboxId \in from[l]
          /\ Cardinality(from[l]) + Cardinality(Strangers(l)) <= 1 + faults
      BY <3>1 DEF FromInv, Agreed
    <3>6. Cardinality(from[l]) + Cardinality(Strangers(l)') <= 1 + faults'
      BY <1>n, <3>3, <3>4, <3>5, StrangersFinite
    <3> QED
      BY <3>1, <3>5, <3>6
  <2> QED
    BY <2>1, <2>2 DEF Agreed
<1>2. ASSUME NEW f \in Flight
      PROVE  Known(f)'
  <2>1. CASE flight'[f].pc \notin {"smtp", "sent", "record"}
    BY <2>1 DEF Known, Unwritten
  <2>2. CASE flight'[f].pc \in {"smtp", "sent", "record"}
    <3>1. /\ flight[f].pc # "idle" /\ FlightLead(f)' = FlightLead(f) /\ Sender(f)' = Sender(f)
      BY <2>2 DEF GoesOn, FlightLead, Sender, Unwritten
    <3>2. lead'[FlightLead(f)].stepsSent = lead[FlightLead(f)].stepsSent
      BY <3>1, FlightLeads DEF RowsKeepSender, KeepsSender
    <3> QED
      BY <2>2, <3>1, <3>2 DEF FromInv, Known, GoesOn, Unwritten
  <2> QED
    BY <2>1, <2>2
<1> QED
  BY <1>1, <1>2 DEF FromInv

\* A mail leaves: a stranger's brings a sender, and it is a stranger no more.
LEMMA FromMailed ==
  ASSUME TypeOK, FromInv, NEW f \in Flight, SmtpAccepts(f)
  PROVE  FromInv'
<1> DEFINE k == FlightLead(f)
           m == Sender(f)
<1>1. /\ flight[f].pc = "smtp" /\ FlightTo(f, "sent") /\ UNCHANGED <<lead, faults>>
      /\ mailed' = [mailed EXCEPT ![k] = @ + 1]
      /\ from' = [from EXCEPT ![k] = @ \union {m}]
  BY DEF SmtpAccepts, dbVars, Sender
<1>2. k \in Lead /\ flight[f].job \in JobsOf(k) /\ flight[f] \in FlightState
  BY <1>1, FlightLeads
<1>3. /\ \A g \in Flight : /\ flight'[g].job = flight[g].job
                           /\ flight'[g].followUp = flight[g].followUp
                           /\ g # f => flight'[g] = flight[g]
      /\ flight'[f].pc = "sent"
  BY <1>1, <1>2 DEF FlightTo, FlightState, TypeOK, FlightsOK
<1>4. \A g \in Flight : FlightLead(g)' = FlightLead(g) /\ Sender(g)' = Sender(g)
  BY <1>3 DEF FlightLead, Sender
<1>5. /\ from'[k] = from[k] \union {m} /\ mailed'[k] = mailed[k] + 1
      /\ \A l \in Lead : l # k => from'[l] = from[l] /\ mailed'[l] = mailed[l]
      /\ \A l \in Lead : from[l] \subseteq from'[l] /\ mailed[l] \in Nat
  BY <1>1, <1>2 DEF TypeOK, HistoryOK
<1>n. faults \in Nat
  BY DispatchAssumption DEF TypeOK, HistoryOK
<1>6. ASSUME NEW l \in Lead
      PROVE  FromMails(l)' /\ Agreed(l)'
  <2>1. IsFiniteSet(from[l]) /\ Cardinality(from[l]) \in Nat /\ Cardinality(from[l]) <= mailed[l]
    BY FS_CardinalityType DEF FromInv, FromMails
  <2>2. Strangers(l)' \subseteq Strangers(l) \ {f}
    BY <1>3, <1>4, <1>5 DEF Strangers, Inflight
  <2>3. /\ Cardinality(Strangers(l) \ {f}) =
              IF f \in Strangers(l) THEN Cardinality(Strangers(l)) - 1 ELSE Cardinality(Strangers(l))
        /\ IsFiniteSet(Strangers(l) \ {f})
    BY StrangersFinite, FS_RemoveElement
  <2>4. Cardinality(Strangers(l)') <= Cardinality(Strangers(l) \ {f}) /\ Cardinality(Strangers(l)') \in Nat
    BY <2>2, <2>3, FS_Subset, FS_CardinalityType
  <2>5. lead[l].stepsSent > 0 =>
          /\ lead[l].mailboxId \in from[l]
          /\ Cardinality(from[l]) + Cardinality(Strangers(l)) <= 1 + faults
    BY DEF FromInv, Agreed
  <2>6. CASE l # k \/ m \in from[k]
    <3>1. from'[l] = from[l] /\ mailed'[l] >= mailed[l] /\ mailed'[l] \in Nat
      <4>1. CASE l # k
        BY <1>5, <4>1
      <4>2. CASE l = k /\ m \in from[k]
        <5> HIDE DEF k, m
        <5>1. from'[l] = from[l]
          <6>1. from[k] \union {m} = from[k]
            BY <4>2
          <6> QED
            BY <1>5, <4>2, <6>1
        <5>2. mailed'[l] = mailed[l] + 1 /\ mailed[l] \in Nat
          BY <1>5, <4>2
        <5> QED
          BY <5>1, <5>2
      <4> QED
        BY <2>6, <4>1, <4>2
    <3>2. FromMails(l)'
      BY <1>5, <2>1, <3>1 DEF FromMails
    <3>3. Cardinality(Strangers(l)') <= Cardinality(Strangers(l))
      BY <2>3, <2>4, StrangersFinite
    <3>4. Agreed(l)'
      BY <1>1, <1>n, <2>1, <2>4, <2>5, <3>1, <3>3, StrangersFinite DEF Agreed
    <3> QED
      BY <3>2, <3>4
  <2>7. CASE l = k /\ m \notin from[k]
    <3>1. f \in Strangers(l)
      BY <1>1, <1>2, <2>7 DEF Strangers, Inflight
    <3>2. IsFiniteSet(from'[l]) /\ Cardinality(from'[l]) = Cardinality(from[l]) + 1
      <4>1. IsFiniteSet(from[k]) /\ m \notin from[k]
        BY <2>1, <2>7
      <4> HIDE DEF k, m
      <4>2. IsFiniteSet(from[k] \union {m}) /\ Cardinality(from[k] \union {m}) = Cardinality(from[k]) + 1
        BY <4>1, FS_AddElement
      <4> QED
        BY <1>5, <2>7, <4>2
    <3>3. FromMails(l)'
      BY <1>5, <2>1, <2>7, <3>2 DEF FromMails
    <3>4. Cardinality(Strangers(l)') + 1 <= Cardinality(Strangers(l))
      BY <2>3, <2>4, <3>1, StrangersFinite
    <3>5. lead[l].mailboxId \in from[l] => lead'[l].mailboxId \in from'[l]
      BY <1>1, <1>5
    <3>6. Agreed(l)'
      BY <1>1, <1>n, <2>1, <2>4, <2>5, <3>2, <3>4, <3>5, StrangersFinite DEF Agreed
    <3> QED
      BY <3>3, <3>6
  <2> QED
    BY <2>6, <2>7
<1>7. ASSUME NEW g \in Flight
      PROVE  Known(g)'
  <2>1. CASE g = f
    BY <1>1, <1>2, <1>3, <1>4, <1>5, <2>1 DEF FromInv, Known
  <2>2. CASE g # f
    <3>1. flight[g].pc \in {"smtp", "sent", "record"} => FlightLead(g) \in Lead
      BY FlightLeads
    <3> QED
      BY <1>1, <1>3, <1>4, <1>5, <2>2, <3>1 DEF FromInv, Known, Unwritten
  <2> QED
    BY <2>1, <2>2
<1> QED
  BY <1>6, <1>7 DEF FromInv

(* A mail is counted.  If it is the first to be, those that may still leave  *)
(* are accounted for by the faults (Due).                                    *)
LEMMA FromCounted ==
  ASSUME TypeOK, Steps, FromInv, NEW f \in Flight, RecordWrite(f)
  PROVE  FromInv'
<1> DEFINE k == FlightLead(f)
           m == Sender(f)
           row == recordSent(lead[k], flight[f].stepsRead, flight[f].followUp, m)
<1>1. /\ flight[f].pc = "record" /\ FlightTo(f, "ok") /\ UNCHANGED <<faults, mailed, from>>
      /\ lead' = [lead EXCEPT ![k] = row]
  BY DEF RecordWrite, history, Sender
<1>2. /\ k \in Lead /\ flight[f].job \in JobsOf(k) /\ flight[f] \in FlightState
      /\ lead[k] \in Row /\ m \in Mailbox
  BY <1>1, FlightLeads DEF Sender
<1>3. row.stepsSent > 0 /\ row.mailboxId = IF flight[f].followUp THEN lead[k].mailboxId ELSE m
  BY <1>2, SentIsCounted DEF FlightState
<1> HIDE DEF row
<1>4. lead'[k] = row /\ \A l \in Lead : l # k => lead'[l] = lead[l]
  BY <1>1, <1>2 DEF TypeOK, DbOK
<1>5. /\ \A g \in Flight : /\ flight'[g].job = flight[g].job
                           /\ flight'[g].followUp = flight[g].followUp
                           /\ g # f => flight'[g] = flight[g]
      /\ flight'[f].pc = "ok"
  BY <1>1, <1>2 DEF FlightTo, FlightState, TypeOK, FlightsOK
<1>6. \A g \in Flight : FlightLead(g)' = FlightLead(g) /\ Sender(g)' = Sender(g)
  BY <1>5 DEF FlightLead, Sender
<1>n. faults \in Nat
  BY DispatchAssumption DEF TypeOK, HistoryOK
<1>7. ASSUME NEW l \in Lead
      PROVE  FromMails(l)' /\ Agreed(l)'
  <2>1. FromMails(l)' /\ Cardinality(from[l]) \in Nat /\ Cardinality(from[l]) <= mailed[l]
    BY <1>1, FS_CardinalityType DEF FromInv, FromMails
  <2>2. Strangers(l)' \subseteq Strangers(l)
    BY <1>1, <1>5, <1>6 DEF Strangers, Inflight
  <2>3. Cardinality(Strangers(l)') <= Cardinality(Strangers(l)) /\ Cardinality(Strangers(l)') \in Nat
    BY <2>2, StrangersFinite, FS_Subset, FS_CardinalityType
  <2>4. lead[l].stepsSent > 0 =>
          /\ lead[l].mailboxId \in from[l]
          /\ Cardinality(from[l]) + Cardinality(Strangers(l)) <= 1 + faults
    BY DEF FromInv, Agreed
  <2>5. CASE l # k
    BY <1>1, <1>4, <1>n, <2>1, <2>3, <2>4, <2>5, StrangersFinite DEF Agreed
  <2>6. CASE l = k
    <3>1. row.mailboxId \in from[k]
      BY <1>1, <1>2, <1>3, <2>4, <2>6 DEF FromInv, Known, Unwritten
    <3>2. Cardinality(from[l]) + Cardinality(Strangers(l)) <= 1 + faults
      <4>1. CASE lead[l].stepsSent > 0
        BY <2>4, <4>1
      <4>2. CASE ~(lead[l].stepsSent > 0)
        <5>1. PICK b \in 0..(FollowUps + 1) : OnStep(l, b)
          BY DEF Steps
        <5>2. lead[l].stepsSent = 0 /\ b = 0
          BY <4>2, <5>1, Counts, LeadRowAssumption DEF OnStep
        <5>3. Due(l, 0)
          BY <5>1, <5>2 DEF OnStep, Paid
        <5>4. mailed[l] + Cardinality(ToSend(l)) <= 1 + faults
          <6>1. One(Heard(l)) \in 0..1
            BY DEF One
          <6> QED
            BY <1>n, <5>3, <6>1, Counts DEF Due
        <5>5. Cardinality(Strangers(l)) <= Cardinality(ToSend(l))
          BY StrangersFinite, InflightFinite, FS_Subset DEF ToSend
        <5> QED
          BY <1>n, <2>1, <5>4, <5>5, StrangersFinite, Counts
      <4> QED
        BY <4>1, <4>2
    <3> QED
      BY <1>1, <1>4, <1>n, <2>1, <2>3, <2>6, <3>1, <3>2, StrangersFinite DEF Agreed
  <2> QED
    BY <2>5, <2>6
<1>8. ASSUME NEW g \in Flight
      PROVE  Known(g)'
  <2>1. CASE g = f
    BY <1>5, <2>1 DEF Known, Unwritten
  <2>2. CASE g # f
    <3>1. flight[g].pc \in {"smtp", "sent", "record"} => FlightLead(g) \in Lead
      BY FlightLeads
    <3> QED
      BY <1>1, <1>3, <1>4, <1>5, <1>6, <2>2, <3>1 DEF FromInv, Known, Unwritten
  <2> QED
    BY <2>1, <2>2
<1> QED
  BY <1>7, <1>8 DEF FromInv

\* Everybody but a mail that leaves and one that is counted.
LEMMA NextGoesOn ==
  ASSUME TypeOK, [Next]_vars, \A f \in Flight : ~RecordWrite(f) /\ ~SmtpAccepts(f)
  PROVE  /\ UNCHANGED <<from, mailed>> /\ faults' >= faults
         /\ \A f \in Flight : GoesOn(f)
<1>n. faults \in Nat
  BY DispatchAssumption DEF TypeOK, HistoryOK
<1>t. \A f \in Flight : flight[f] \in FlightState
  BY DEF TypeOK, FlightsOK
<1>f. (\A f \in Flight : flight'[f] = flight[f]) => \A f \in Flight : GoesOn(f)
  BY DEF GoesOn, Unwritten
<1>1. CASE \E t \in Tick : TickStep(t)
  <2>1. UNCHANGED <<flight, from, mailed>> /\ (faults' = faults \/ faults' = faults + 1)
    BY <1>1 DEF TickStep, TickStart, TickTakeSlot, TickSkip, TickMarkLead, TickAddJob,
       TickReadFirstEmails, TickEnd, TickFails, Fault, history
  <2> QED
    BY <1>f, <1>n, <2>1
<1>2. CASE WorkerStep \/ Crash
  <2>1. UNCHANGED <<from, mailed>> /\ (faults' = faults \/ faults' = faults + 1)
    BY <1>2 DEF WorkerStep, Crash, TakeJob, WorkerReleases, WorkerStopsDeadAddress,
       WorkerAsksAgainLater, WorkerDispatches, WorkerAnswered, WorkerWritesFailure,
       WorkerFetchRejects, WorkerFinishes, Fault, history
  <2>2. ASSUME NEW f \in Flight PROVE GoesOn(f)
    <3>1. \/ UNCHANGED flight
          \/ \E g \in Flight : WorkerDispatches(g) \/ WorkerAnswered(g)
          \/ flight' = [g \in Flight |-> [flight[g] EXCEPT !.awaited = FALSE]]
      BY <1>2 DEF WorkerStep, Crash, TakeJob, WorkerReleases, WorkerStopsDeadAddress,
         WorkerAsksAgainLater, WorkerWritesFailure, WorkerFetchRejects, WorkerFinishes
    <3>2. \/ flight'[f] = flight[f] \/ flight'[f].pc \in {"compose", "idle"}
          \/ flight'[f] = [flight[f] EXCEPT !.awaited = FALSE]
      <4>1. CASE \E g \in Flight : WorkerDispatches(g)
        BY <4>1 DEF WorkerDispatches, TypeOK, FlightsOK
      <4>2. CASE \E g \in Flight : WorkerAnswered(g)
        <5>1. PICK g \in Flight : flight' = [flight EXCEPT ![g] = IdleFlight]
          BY <4>2 DEF WorkerAnswered
        <5> QED
          BY <5>1 DEF IdleFlight, TypeOK, FlightsOK
      <4> QED
        BY <3>1, <4>1, <4>2
    <3> QED
      BY <1>t, <3>2 DEF GoesOn, Unwritten, FlightState
  <2> QED
    BY <1>n, <2>1, <2>2
<1>3. CASE \E f \in Flight : FlightStep(f)
  <2>1. PICK f \in Flight : FlightStep(f)
    BY <1>3
  <2>2. UNCHANGED <<from, mailed>> /\ (faults' = faults \/ faults' = faults + 1)
    BY <2>1 DEF FlightStep, Compose, SendRefused, SendSuppressed, SendCleared, SmtpRefuses,
       RecordFailure, RecordRead, RecordFails, RecordLost, ApiDies, FlightEnds, Fault, history
  <2>3. ASSUME NEW g \in Flight, g # f PROVE GoesOn(g)
    <3>1. flight'[g] = flight[g]
      BY <2>1, <2>3 DEF FlightStep, Compose, SendRefused, SendSuppressed, SendCleared, SmtpRefuses,
         RecordFailure, RecordRead, RecordFails, RecordLost, ApiDies, FlightEnds, FlightTo, ReadFailed,
         TypeOK, FlightsOK
    <3> QED
      BY <3>1 DEF GoesOn, Unwritten
  <2>4. GoesOn(f)
    <3>1. CASE SendCleared(f)
      <4> DEFINE q == lead[FlightLead(f)].stepsSent > 0
      <4>1. flight' = [flight EXCEPT ![f].pc = "smtp", ![f].followUp = q]
        BY <3>1, Zenon DEF SendCleared
      <4>2. q \in BOOLEAN
        OBVIOUS
      <4>3. flight[f].pc = "send" /\ SenderRule(FlightLead(f), Sender(f))
        BY <3>1 DEF SendCleared, Sender
      <4>4. (flight'[f].followUp => q) /\ flight'[f].pc = "smtp" /\ flight'[f].job = flight[f].job
        <5> HIDE DEF q
        <5> QED
          BY <1>t, <4>1, <4>2 DEF FlightState, TypeOK, FlightsOK
      <4> QED
        BY <4>3, <4>4 DEF GoesOn
    <3>2. CASE RecordRead(f)
      <4>1. /\ flight[f].pc = "sent" /\ flight'[f].pc = "record"
            /\ flight'[f].job = flight[f].job /\ flight'[f].followUp = flight[f].followUp
        BY <1>t, <3>2 DEF RecordRead, FlightState, TypeOK, FlightsOK
      <4> QED
        BY <4>1 DEF GoesOn, Unwritten
    <3>3. CASE ~SendCleared(f) /\ ~RecordRead(f)
      <4>1. flight'[f].pc \in {"send", "refused", "failed", "ok", "idle"}
        BY <1>t, <2>1, <3>3 DEF FlightStep, Compose, SendRefused, SendSuppressed, SmtpRefuses,
           RecordFailure, RecordFails, RecordLost, ApiDies, FlightEnds, FlightTo, ReadFailed,
           TypeOK, FlightsOK, FlightState, IdleFlight
      <4> QED
        BY <4>1 DEF GoesOn
    <3> QED
      BY <3>1, <3>2, <3>3
  <2> QED
    BY <1>n, <2>2, <2>3, <2>4
<1>4. CASE ReconStep \/ QueueStep \/ TimeStep \/ EnvStep
  <2>1. UNCHANGED <<flight, from, mailed>> /\ (faults' = faults \/ faults' = faults + 1)
    BY <1>4 DEF ReconStep, ReconFind, ReconAdd, ReconMark, QueueStep, RecoverStalled, Prune,
       TimeStep, SlotComes, SlotOverdue, DateComes, EnvStep, CampaignOpens, MailboxToggles, OptOut,
       Unblock, ReplyStored, ReplyMarks, ReplyMarkLost, BounceReport, Fault, history
  <2> QED
    BY <1>f, <1>n, <2>1
<1>5. CASE UNCHANGED vars
  BY <1>5, <1>f, <1>n DEF vars, history
<1> QED
  BY <1>1, <1>2, <1>3, <1>4, <1>5 DEF Next

LEMMA NextFrom ==
  ASSUME TypeOK, TypeOK', Steps, FromInv, [Next]_vars
  PROVE  FromInv'
<1>1. CASE \E f \in Flight : RecordWrite(f)
  BY <1>1, FromCounted
<1>2. CASE \E f \in Flight : SmtpAccepts(f)
  BY <1>2, FromMailed
<1>3. CASE \A f \in Flight : ~RecordWrite(f) /\ ~SmtpAccepts(f)
  BY <1>3, RecordsWriteSenders, NextGoesOn, FromStays
<1> QED
  BY <1>1, <1>2, <1>3

LEMMA InitFrom ==
  ASSUME Init
  PROVE  FromInv
<1>1. ASSUME NEW l \in Lead PROVE FromMails(l) /\ Agreed(l)
  <2>1. from[l] = {} /\ mailed[l] = 0 /\ lead[l].stepsSent = 0
    BY DEF Init, NewLead
  <2> QED
    BY <2>1, FS_EmptySet DEF FromMails, Agreed
<1>2. ASSUME NEW f \in Flight PROVE Known(f)
  BY DEF Init, Known, IdleFlight, Unwritten
<1> QED
  BY <1>1, <1>2 DEF FromInv

(* A dead process leaves an execution behind that nobody waits for, and the  *)
(* lead may be booked again with another mailbox.  With any faults, however  *)
(* late jobs, ticks and sends are: a thread has one sender and no more than  *)
(* one further for each fault, however many emails it is long.               *)
THEOREM SendersAreBounded == Spec => []SendersBounded
<1>1. TypeOK /\ ThreadInv /\ FromInv => SendersBounded
  <2> SUFFICES ASSUME TypeOK, ThreadInv, FromInv, NEW l \in Lead
               PROVE  Cardinality(from[l]) <= 1 + faults
    BY DEF SendersBounded
  <2>n. faults \in Nat
    BY DispatchAssumption DEF TypeOK, HistoryOK
  <2>1. Cardinality(from[l]) \in Nat /\ Cardinality(from[l]) <= mailed[l]
    BY FS_CardinalityType DEF FromInv, FromMails
  <2>2. CASE lead[l].stepsSent > 0
    BY <2>n, <2>1, <2>2, StrangersFinite DEF FromInv, Agreed
  <2>3. CASE ~(lead[l].stepsSent > 0)
    <3>1. PICK b \in 0..(FollowUps + 1) : OnStep(l, b)
      BY DEF ThreadInv, Steps
    <3>2. lead[l].stepsSent = 0 /\ b = 0
      BY <2>3, <3>1, Counts, LeadRowAssumption DEF OnStep
    <3>3. Due(l, 0)
      BY <3>1, <3>2 DEF OnStep, Paid
    <3>4. One(Heard(l)) \in 0..1
      BY DEF One
    <3> QED
      BY <2>n, <2>1, <3>3, <3>4, Counts DEF Due
  <2> QED
    BY <2>2, <2>3
<1>2. TypeOK /\ ThreadInv /\ FromInv /\ [Next]_vars => TypeOK' /\ ThreadInv' /\ FromInv'
  BY NextTypes, NextThread, NextFrom DEF ThreadInv
<1> QED
  BY <1>1, <1>2, InitTypes, InitThread, InitFrom, PTL DEF Spec

(* What a lead receives when processes die, mails fail to be counted and     *)
(* ticks throw: a fault costs at most a mail that is sent again and a sender *)
(* too many.                                                                 *)
THEOREM ThreadIsBounded == Spec => []ThreadBounded
<1>1. MailsBounded /\ SendersBounded => ThreadBounded
  BY DEF ThreadBounded
<1> QED
  BY <1>1, MailsAreBounded, SendersAreBounded, PTL

-----------------------------------------------------------------------------
(* What a crash leaves.  Any number of ticks, writes and calls may fail, or  *)
(* the worker dies, once: a job that stalls a second time is failed by       *)
(* BullMQ.  No fetch rejects, which section 8 of the README is about.        *)
OneCrash ==
  /\ Faults \subseteq {"crash", "tick", "api", "db"}
  /\ "crash" \in Faults => MaxFaults <= 1
  /\ ~Slow

Adding == {"mark1", "add1", "mark2", "add2"}

\* BullMQ has a job in one place, and in none before it was added.
OnePlaceEach ==
  \A j \in JobId : /\ j \in waiting => j \notin active
                   /\ j \in kept => j \notin waiting /\ j \notin active

WorkerHolds == IF worker.pc = "idle" THEN worker.job = NoJob ELSE worker.job \in active

TicksAdd ==
  \A t \in Tick : tick[t].pc \in Adding =>
    /\ ~InRedis(tick[t].job)
    /\ recon.pc # "idle" => tick[t].job # recon.job
    /\ \A u \in Tick : tick[u].pc \in Adding /\ tick[u].job = tick[t].job => u = t

ReconAdds ==
  /\ recon.pc = "add" => ~InRedis(recon.job)
  /\ recon.pc = "mark" => recon.job \in waiting /\ recon.job \in ahead

JobsApart == OnePlaceEach /\ WorkerHolds /\ TicksAdd /\ ReconAdds

\* A job that was recovered once is run to its end.
RunsAgain ==
  /\ \A j \in active : j \in stalledOnce => worker.job = j
  /\ "crash" \notin Faults \/ faults = 0 => active \subseteq {worker.job} /\ stalledOnce = {}

\* The answer the processor waits for is about its own job.
Listening == \A f \in Flight : flight[f].awaited => flight[f].job = worker.job

-----------------------------------------------------------------------------
LEMMA ApartTicks ==
  ASSUME TypeOK, JobsApart, NEW t \in Tick, TickStep(t)
  PROVE  JobsApart'
<1> USE DEF Adding
<1>t. tick \in [Tick -> TickState] /\ NoJob \notin JobId
      /\ \A u \in Tick : tick[u].pc \in Adding => tick[u].job \in JobId
  BY LeadRowAssumption DEF TypeOK, TicksOK, JobId
\* A tick that moves on with its job, or with none.
<1>a. ASSUME UNCHANGED <<waiting, active, kept, worker, recon>>, ahead \subseteq ahead',
             NEW r, tick' = [tick EXCEPT ![t] = r],
             r.pc \in Adding => /\ ~InRedis(r.job)
                                /\ recon.pc # "idle" => r.job # recon.job
                                /\ \A u \in Tick : u # t /\ tick[u].pc \in Adding => tick[u].job # r.job
      PROVE  JobsApart'
  <2>1. OnePlaceEach' /\ WorkerHolds' /\ ReconAdds'
    BY <1>a DEF JobsApart, OnePlaceEach, WorkerHolds, ReconAdds, InRedis
  <2>2. \A u \in Tick : tick'[u] = IF u = t THEN r ELSE tick[u]
    BY <1>a, <1>t
  <2>3. TicksAdd'
    BY <1>a, <2>2 DEF JobsApart, TicksAdd, InRedis
  <2> QED
    BY <2>1, <2>3 DEF JobsApart
<1>1. CASE \E l \in Lead, m \in Mailbox : TickTakeSlot(t, l, m)
  <2>1. PICK l \in Lead, m \in Mailbox : TickTakeSlot(t, l, m)
    BY <1>1
  <2>2. PICK j \in NewJobs(l, m) :
          /\ ahead' = ahead \union {j}
          /\ tick' = [tick EXCEPT ![t] =
               [pc |-> IF tick[t].pc = "pass1" THEN "mark1" ELSE "mark2",
                pool |-> tick[t].pool \ {m},
                todo |-> {p \in tick[t].todo : p[1] # l /\ p[2] # m},
                job |-> j]]
    BY <2>1 DEF TickTakeSlot
  <2>3. Fresh(j)
    BY DEF NewJobs
  <2>4. /\ ~InRedis(j) /\ j # recon.job
        /\ \A u \in Tick : tick[u].job # j
    BY <2>3 DEF Fresh
  <2> QED
    BY <1>a, <2>1, <2>2, <2>4 DEF TickTakeSlot, bullVars
<1>2. CASE TickMarkLead(t)
  <2>1. PICK pc \in {"add1", "add2"} : tick' = [tick EXCEPT ![t].pc = pc]
    BY <1>2 DEF TickMarkLead
  <2>2. tick' = [tick EXCEPT ![t] = [tick[t] EXCEPT !.pc = pc]]
    BY <2>1
  <2>3. [tick[t] EXCEPT !.pc = pc].job = tick[t].job /\ tick[t].pc \in Adding
    BY <1>2, <1>t DEF TickMarkLead, TickState
  <2> HIDE DEF Adding
  <2> QED
    BY <1>2, <1>a, <2>2, <2>3 DEF TickMarkLead, bullVars, slotVars, JobsApart, TicksAdd
<1>3. CASE TickAddJob(t)
  <2>1. /\ waiting' = waiting \union {tick[t].job} /\ tick[t].pc \in Adding
        /\ UNCHANGED <<active, kept, worker, recon, ahead>>
    BY <1>3 DEF TickAddJob, slotVars
  <2>2. tick'[t].pc \notin Adding /\ \A u \in Tick : u # t => tick'[u] = tick[u]
    BY <1>3, <1>t DEF TickAddJob, IdleTick, TickState
  <2>3. ~InRedis(tick[t].job) /\ tick[t].job \in JobId
    BY <1>t, <2>1 DEF JobsApart, TicksAdd
  <2>4. OnePlaceEach'
    BY <2>1, <2>3 DEF JobsApart, OnePlaceEach, InRedis
  <2>5. WorkerHolds'
    BY <2>1 DEF JobsApart, WorkerHolds
  <2>6. recon.pc # "idle" => recon.job # tick[t].job
    BY <2>1 DEF JobsApart, TicksAdd
  <2>7. ReconAdds'
    BY <2>1, <2>6 DEF JobsApart, ReconAdds, InRedis, TypeOK, ReconOK, ReconState
  <2>8. TicksAdd'
    BY <2>1, <2>2 DEF JobsApart, TicksAdd, InRedis
  <2> QED
    BY <2>4, <2>5, <2>7, <2>8 DEF JobsApart
<1>4. CASE TickStart(t) \/ TickReadFirstEmails(t) \/ TickEnd(t) \/ TickFails(t)
           \/ \E l \in Lead : TickSkip(t, l)
  <2>1. PICK r : tick' = [tick EXCEPT ![t] = r]
    BY <1>4 DEF TickStart, TickReadFirstEmails, TickEnd, TickFails, TickSkip
  <2>2. tick'[t].pc \notin Adding
    BY <1>4, <1>t DEF TickStart, TickReadFirstEmails, TickEnd, TickFails, TickSkip, IdleTick,
                      TickState
  <2>3. tick'[t] = r
    BY <1>t, <2>1
  <2>4. UNCHANGED <<waiting, active, kept, worker, recon, ahead>>
    BY <1>4 DEF TickStart, TickReadFirstEmails, TickEnd, TickFails, TickSkip, bullVars, slotVars
  <2> QED
    BY <1>a, <2>1, <2>2, <2>3, <2>4
<1> QED
  BY <1>1, <1>2, <1>3, <1>4 DEF TickStep

LEMMA ApartWorker ==
  ASSUME TypeOK, JobsApart, WorkerStep
  PROVE  JobsApart'
\* The worker works on.
<1>a. ASSUME UNCHANGED <<waiting, active, kept, ahead, tick, recon>>, worker.pc # "idle",
             worker'.pc # "idle", worker'.job = worker.job
      PROVE  JobsApart'
  BY <1>a DEF JobsApart, OnePlaceEach, WorkerHolds, TicksAdd, ReconAdds, InRedis
<1>w. worker \in WorkerState
  BY DEF TypeOK, WorkerOK
<1>1. CASE \E j \in JobId : TakeJob(j)
  <2>1. PICK j \in JobId : TakeJob(j)
    BY <1>1
  <2>2. /\ j \in waiting /\ j \notin ahead
        /\ waiting' = waiting \ {j} /\ active' = active \union {j}
        /\ UNCHANGED <<kept, ahead, tick, recon>>
        /\ worker'.job = j /\ worker'.pc # "idle"
    BY <2>1 DEF TakeJob, slotVars
  <2>3. OnePlaceEach' /\ WorkerHolds'
    BY <2>2 DEF JobsApart, OnePlaceEach, WorkerHolds
  <2>4. TicksAdd' /\ ReconAdds'
    BY <2>2 DEF JobsApart, TicksAdd, ReconAdds, InRedis
  <2> QED
    BY <2>3, <2>4 DEF JobsApart
<1>2. CASE WorkerReleases \/ WorkerStopsDeadAddress \/ WorkerAsksAgainLater \/ WorkerWritesFailure
  BY <1>2, <1>a, <1>w DEF WorkerReleases, WorkerStopsDeadAddress, WorkerAsksAgainLater,
     WorkerWritesFailure, WorkerWrites, WorkerState, bullVars, slotVars
<1>3. CASE \E f \in Flight : WorkerDispatches(f) \/ WorkerAnswered(f)
  BY <1>3, <1>a, <1>w DEF WorkerDispatches, WorkerAnswered, WorkerState, bullVars, slotVars
<1>4. CASE WorkerFetchRejects
  BY <1>4, <1>a, <1>w DEF WorkerFetchRejects, WorkerState, bullVars, slotVars
<1>5. CASE WorkerFinishes
  <2>1. /\ active' = active \ {worker.job} /\ UNCHANGED <<waiting, ahead, tick, recon>>
        /\ kept' = kept \/ kept' = kept \union {worker.job}
        /\ worker'.pc = "idle" /\ worker'.job = NoJob /\ worker.job \in active
    BY <1>5 DEF WorkerFinishes, slotVars, IdleWorker, JobsApart, WorkerHolds
  <2>2. OnePlaceEach' /\ WorkerHolds'
    BY <2>1 DEF JobsApart, OnePlaceEach, WorkerHolds
  <2>3. TicksAdd' /\ ReconAdds'
    BY <2>1 DEF JobsApart, TicksAdd, ReconAdds, InRedis
  <2> QED
    BY <2>2, <2>3 DEF JobsApart
<1> QED
  BY <1>1, <1>2, <1>3, <1>4, <1>5 DEF WorkerStep

LEMMA ApartElse ==
  ASSUME OneCrash, TypeOK, JobsApart, RunsAgain,
         (\E f \in Flight : FlightStep(f)) \/ ReconStep \/ QueueStep \/ Crash \/ TimeStep \/ EnvStep
  PROVE  JobsApart'
<1>1. CASE \E l \in Lead : ReconFind(l)
  <2>1. PICK l \in Lead : ReconFind(l)
    BY <1>1
  <2>2. PICK j \in NewJobs(l, MailboxOf(lead[l].queuedJobId)) : recon' = [pc |-> "add", job |-> j]
    BY <2>1 DEF ReconFind
  <2>3. ~InRedis(j) /\ \A t \in Tick : tick[t].job # j
    BY DEF NewJobs, Fresh
  <2>4. UNCHANGED <<waiting, active, kept, tick, worker>>
    BY <2>1 DEF ReconFind, bullVars
  <2> QED
    BY <2>2, <2>3, <2>4 DEF JobsApart, OnePlaceEach, WorkerHolds, TicksAdd, ReconAdds, InRedis
<1>2. CASE ReconAdd
  <2>1. /\ waiting' = waiting \union {recon.job} /\ ahead' = ahead \union {recon.job}
        /\ recon.pc = "add" /\ recon'.pc = "mark" /\ recon'.job = recon.job
        /\ UNCHANGED <<active, kept, tick, worker>>
    BY <1>2 DEF ReconAdd, TypeOK, ReconOK, ReconState
  <2> QED
    BY <2>1 DEF JobsApart, OnePlaceEach, WorkerHolds, TicksAdd, ReconAdds, InRedis
<1>3. CASE ReconMark
  <2>1. recon'.pc = "idle" /\ UNCHANGED <<waiting, active, kept, tick, worker>>
    BY <1>3 DEF ReconMark, IdleRecon, bullVars
  <2> QED
    BY <2>1 DEF JobsApart, OnePlaceEach, WorkerHolds, TicksAdd, ReconAdds, InRedis
<1>4. CASE \E j \in JobId : RecoverStalled(j)
  \* The first time: the second is not reached.
  <2>1. PICK j \in JobId : RecoverStalled(j)
    BY <1>4
  <2>2. /\ j \in active /\ worker.job # j /\ active' = active \ {j}
        /\ waiting' = waiting \union {j}
        /\ UNCHANGED <<kept, ahead, tick, worker, recon>>
    BY <2>1 DEF RecoverStalled, RunsAgain, slotVars
  <2> QED
    BY <2>2 DEF JobsApart, OnePlaceEach, WorkerHolds, TicksAdd, ReconAdds, InRedis
<1>5. CASE \E j \in JobId : Prune(j)
  <2>1. PICK j \in JobId : kept' = kept \ {j} /\ UNCHANGED <<waiting, active, ahead, tick, worker, recon>>
    BY <1>5 DEF Prune, slotVars
  <2> QED
    BY <2>1 DEF JobsApart, OnePlaceEach, WorkerHolds, TicksAdd, ReconAdds, InRedis
<1>6. CASE Crash
  <2>1. /\ worker'.pc = "idle" /\ worker'.job = NoJob /\ recon'.pc = "idle"
        /\ \A t \in Tick : tick'[t].pc = "idle"
        /\ UNCHANGED <<waiting, active, kept>>
    BY <1>6 DEF Crash, IdleWorker, IdleRecon, IdleTick, bullVars
  <2> QED
    BY <2>1 DEF JobsApart, OnePlaceEach, WorkerHolds, TicksAdd, ReconAdds, Adding
<1>7. CASE \E j \in JobId : SlotComes(j)
  <2>1. PICK j \in JobId : ahead' = ahead \ {j} /\ recon.job # j
                            /\ UNCHANGED <<waiting, active, kept, tick, worker, recon>>
    BY <1>7 DEF SlotComes, OneCrash, bullVars
  <2> QED
    BY <2>1 DEF JobsApart, OnePlaceEach, WorkerHolds, TicksAdd, ReconAdds, InRedis
<1>8. CASE \/ \E f \in Flight : FlightStep(f)
           \/ \E l \in Lead : SlotOverdue(l) \/ DateComes(l)
           \/ EnvStep
  <2>1. UNCHANGED <<waiting, active, kept, ahead, tick, worker, recon>>
    <3>1. CASE \E f \in Flight : FlightStep(f)
      BY <3>1 DEF FlightStep, Compose, SendRefused, SendSuppressed, SendCleared, SmtpAccepts,
         SmtpRefuses, RecordFailure, RecordRead, RecordWrite, RecordFails, RecordLost, ApiDies,
         FlightEnds, bullVars, slotVars
    <3>2. CASE (\E l \in Lead : SlotOverdue(l) \/ DateComes(l)) \/ EnvStep
      BY <3>2 DEF SlotOverdue, DateComes, EnvStep, CampaignOpens, MailboxToggles, OptOut, Unblock,
         ReplyStored, ReplyMarks, ReplyMarkLost, BounceReport, bullVars, slotVars
    <3> QED
      BY <1>8, <3>1, <3>2
  <2> QED
    BY <2>1 DEF JobsApart, OnePlaceEach, WorkerHolds, TicksAdd, ReconAdds, InRedis
<1> QED
  BY <1>1, <1>2, <1>3, <1>4, <1>5, <1>6, <1>7, <1>8 DEF ReconStep, QueueStep, TimeStep

LEMMA NextApart ==
  ASSUME OneCrash, TypeOK, JobsApart, RunsAgain, [Next]_vars
  PROVE  JobsApart'
<1>1. CASE UNCHANGED vars
  BY <1>1 DEF vars, bullVars, slotVars, JobsApart, OnePlaceEach, WorkerHolds, TicksAdd, ReconAdds,
              InRedis
<1> QED
  BY <1>1, ApartTicks, ApartWorker, ApartElse DEF Next

\* The one crash leaves one job behind, which is not left behind again.
LEMMA NextRuns ==
  ASSUME OneCrash, TypeOK, JobsApart, RunsAgain, [Next]_vars
  PROVE  RunsAgain'
<1>f. faults \in Nat /\ MaxFaults \in Nat /\ NoJob \notin JobId /\ active \subseteq JobId
  BY LeadRowAssumption, DispatchAssumption DEF TypeOK, HistoryOK, QueueOK, JobId
\* BullMQ's lists and the job in hand stay.
<1>a. ASSUME UNCHANGED <<active, stalledOnce>>, worker'.job = worker.job,
             faults' = faults \/ faults' = faults + 1
      PROVE  RunsAgain'
  <2>1. faults' = 0 => faults = 0
    BY <1>a, <1>f
  <2> QED
    BY <1>a, <2>1 DEF RunsAgain
<1>1. CASE \E j \in JobId : TakeJob(j)
  <2>1. PICK j \in JobId : TakeJob(j)
    BY <1>1
  <2>2. /\ worker.job = NoJob /\ worker'.job = j /\ active' = active \union {j}
        /\ UNCHANGED <<stalledOnce, faults>>
    BY <2>1 DEF TakeJob, JobsApart, WorkerHolds
  <2>3. \A i \in active : i # NoJob
    BY <1>f
  <2> QED
    BY <2>2, <2>3 DEF RunsAgain
<1>2. CASE WorkerFinishes
  <2>1. /\ active' = active \ {worker.job} /\ stalledOnce' = stalledOnce \ {worker.job}
        /\ worker'.job = NoJob /\ UNCHANGED faults
    BY <1>2 DEF WorkerFinishes, IdleWorker
  <2> QED
    BY <2>1 DEF RunsAgain
<1>3. CASE \E j \in JobId : RecoverStalled(j)
  <2>1. PICK j \in JobId : RecoverStalled(j)
    BY <1>3
  <2>2. j \in active /\ worker.job # j /\ active' = active \ {j} /\ UNCHANGED <<worker, faults>>
    BY <2>1 DEF RecoverStalled
  <2>3. "crash" \in Faults /\ faults # 0
    BY <2>2 DEF RunsAgain
  <2>4. stalledOnce' = stalledOnce \union {j}
    BY <2>1, <2>2 DEF RecoverStalled, RunsAgain
  <2> QED
    BY <2>2, <2>3, <2>4 DEF RunsAgain
<1>4. CASE Crash
  <2>1. /\ "crash" \in Faults /\ faults < MaxFaults /\ faults' = faults + 1
        /\ UNCHANGED <<active, stalledOnce>>
    BY <1>4 DEF Crash, Fault, bullVars
  <2>2. faults = 0
    BY <1>f, <2>1 DEF OneCrash
  <2> QED
    BY <1>f, <2>1, <2>2 DEF RunsAgain
<1>5. CASE \E t \in Tick : TickStep(t)
  BY <1>5, <1>a DEF TickStep, TickStart, TickTakeSlot, TickSkip, TickMarkLead, TickAddJob,
     TickReadFirstEmails, TickEnd, TickFails, Fault, bullVars
<1>6. CASE \/ WorkerReleases \/ WorkerStopsDeadAddress \/ WorkerAsksAgainLater
           \/ WorkerWritesFailure \/ WorkerFetchRejects
           \/ \E f \in Flight : WorkerDispatches(f) \/ WorkerAnswered(f)
  <2>1. worker'.job = worker.job
    BY <1>6 DEF WorkerReleases, WorkerStopsDeadAddress, WorkerAsksAgainLater, WorkerWritesFailure,
       WorkerFetchRejects, WorkerDispatches, WorkerAnswered, WorkerWrites, TypeOK, WorkerOK,
       WorkerState
  <2> QED
    BY <1>6, <1>a, <2>1 DEF WorkerReleases, WorkerStopsDeadAddress, WorkerAsksAgainLater,
       WorkerWritesFailure, WorkerFetchRejects, WorkerDispatches, WorkerAnswered, Fault, bullVars
<1>7. CASE \E f \in Flight : FlightStep(f)
  BY <1>7, <1>a DEF FlightStep, Compose, SendRefused, SendSuppressed, SendCleared, SmtpAccepts,
     SmtpRefuses, RecordFailure, RecordRead, RecordWrite, RecordFails, RecordLost, ApiDies,
     FlightEnds, Fault, bullVars
<1>8. CASE ReconStep \/ (\E j \in JobId : Prune(j)) \/ TimeStep
  BY <1>8, <1>a DEF ReconStep, ReconFind, ReconAdd, ReconMark, Prune, TimeStep, SlotComes,
     SlotOverdue, DateComes, bullVars
<1>9. CASE EnvStep
  BY <1>9, <1>a DEF EnvStep, CampaignOpens, MailboxToggles, OptOut, Unblock, ReplyStored,
     ReplyMarks, ReplyMarkLost, BounceReport, Fault, bullVars
<1>10. CASE UNCHANGED vars
  BY <1>10, <1>a DEF vars, bullVars
<1> QED
  BY <1>1, <1>2, <1>3, <1>4, <1>5, <1>6, <1>7, <1>8, <1>9, <1>10 DEF Next, WorkerStep, QueueStep

LEMMA NextListens ==
  ASSUME TypeOK, Listening, OneListener, [Next]_vars
  PROVE  Listening'
<1>f. flight \in [Flight -> FlightState] /\ worker \in WorkerState
  BY DEF TypeOK, FlightsOK, WorkerOK
\* Nobody is listened to who was not before.
<1>a. ASSUME \A f \in Flight : flight'[f].awaited => flight[f].awaited /\ flight'[f].job = flight[f].job,
             worker.pc = "await" => worker'.job = worker.job
      PROVE  Listening'
  BY <1>a DEF Listening, OneListener
<1>1. CASE \E f \in Flight : WorkerDispatches(f)
  <2>1. PICK f \in Flight : WorkerDispatches(f)
    BY <1>1
  <2>2. /\ worker'.job = worker.job /\ flight'[f].job = worker.job
        /\ \A g \in Flight : g # f => flight'[g] = flight[g]
    BY <2>1, <1>f DEF WorkerDispatches, WorkerState
  <2> QED
    BY <2>2 DEF Listening
<1>2. CASE \E f \in Flight : WorkerAnswered(f)
  <2>1. PICK f \in Flight : WorkerAnswered(f)
    BY <1>2
  <2>2. \A g \in Flight : flight'[g].awaited => flight'[g] = flight[g]
    BY <2>1, <1>f DEF WorkerAnswered, IdleFlight
  <2>3. worker'.job = worker.job
    BY <2>1, <1>f DEF WorkerAnswered, WorkerState
  <2> QED
    BY <1>a, <2>2, <2>3
<1>3. CASE Crash \/ WorkerFetchRejects
  <2>1. \/ worker.pc # "await" /\ UNCHANGED flight
        \/ flight' = [f \in Flight |-> [flight[f] EXCEPT !.awaited = FALSE]]
    BY <1>3 DEF Crash, WorkerFetchRejects
  <2>2. CASE flight' = [f \in Flight |-> [flight[f] EXCEPT !.awaited = FALSE]]
    BY <2>2, <1>f DEF Listening, FlightState
  <2> QED
    BY <1>a, <2>1, <2>2
<1>4. CASE \E f \in Flight : FlightStep(f)
  <2>1. PICK f \in Flight : FlightStep(f)
    BY <1>4
  <2>2. /\ \A g \in Flight : g # f => flight'[g] = flight[g]
        /\ flight'[f].awaited => flight[f].awaited /\ flight'[f].job = flight[f].job
        /\ worker' = worker
    <3>1. CASE FlightEnds(f)
      BY <3>1, <1>f DEF FlightEnds, IdleFlight
    <3>2. CASE Compose(f) \/ SendRefused(f) \/ SendSuppressed(f) \/ SendCleared(f) \/ SmtpAccepts(f)
      BY <3>2, <1>f DEF Compose, SendRefused, SendSuppressed, SendCleared, SmtpAccepts, FlightTo,
         FlightState
    <3>3. CASE SmtpRefuses(f) \/ RecordFailure(f) \/ RecordFails(f)
      BY <3>3, <1>f DEF SmtpRefuses, RecordFailure, RecordFails, FlightTo, ReadFailed, FlightState
    <3>4. CASE RecordRead(f) \/ RecordWrite(f) \/ RecordLost(f) \/ ApiDies(f)
      BY <3>4, <1>f DEF RecordRead, RecordWrite, RecordLost, ApiDies, FlightTo, FlightState
    <3> QED
      BY <2>1, <3>1, <3>2, <3>3, <3>4 DEF FlightStep
  <2> QED
    BY <1>a, <2>2
<1>5. CASE \/ \E j \in JobId : TakeJob(j)
           \/ WorkerReleases \/ WorkerStopsDeadAddress \/ WorkerAsksAgainLater
           \/ WorkerWritesFailure \/ WorkerFinishes
  <2>1. worker.pc # "await" /\ UNCHANGED flight
    BY <1>5 DEF TakeJob, WorkerReleases, WorkerStopsDeadAddress, WorkerAsksAgainLater,
       WorkerWritesFailure, WorkerFinishes
  <2> QED
    BY <1>a, <2>1
<1>6. CASE \/ \E t \in Tick : TickStep(t)
           \/ ReconStep \/ QueueStep \/ TimeStep \/ EnvStep \/ UNCHANGED vars
  <2>1. UNCHANGED <<worker, flight>>
    <3>1. CASE \E t \in Tick : TickStep(t)
      BY <3>1 DEF TickStep, TickStart, TickTakeSlot, TickSkip, TickMarkLead, TickAddJob,
         TickReadFirstEmails, TickEnd, TickFails
    <3>2. CASE ReconStep \/ QueueStep \/ TimeStep
      BY <3>2 DEF ReconStep, ReconFind, ReconAdd, ReconMark, QueueStep, RecoverStalled, Prune,
         TimeStep, SlotComes, SlotOverdue, DateComes
    <3>3. CASE EnvStep \/ UNCHANGED vars
      BY <3>3 DEF EnvStep, CampaignOpens, MailboxToggles, OptOut, Unblock, ReplyStored,
         ReplyMarks, ReplyMarkLost, BounceReport, vars
    <3> QED
      BY <1>6, <3>1, <3>2, <3>3
  <2> QED
    BY <1>a, <2>1
<1> QED
  BY <1>1, <1>2, <1>3, <1>4, <1>5, <1>6 DEF Next, WorkerStep

-----------------------------------------------------------------------------
(* A lead that was never mailed.  Its row names a job of its own that BullMQ *)
(* still means to run or has forgotten, or a date; a job about to end has    *)
(* written the row already.                                                  *)
OwnJob(l) == lead[l].queuedJobId \in JobsOf(l) \union {NoJob}

Findable(l) ==
  lead[l].status = "QUEUED" =>
    /\ lead[l].queuedJobId = NoJob => lead[l].nextRetryAt # "none"
    /\ lead[l].queuedJobId \notin kept
    /\ worker.pc = "finish" => lead[l].queuedJobId # worker.job

NothingSent(l) ==
  /\ lead[l].stepsSent = 0
  /\ worker.job \in JobsOf(l) => ~worker.followUp
  /\ \A f \in Flight : flight[f].job \in JobsOf(l) =>
       /\ flight[f].pc \notin {"sent", "record", "ok"}
       /\ flight[f].pc = "refused" => flight[f].stepsRead = 0

Unmailed(l) == mailed[l] = 0 => Findable(l) /\ NothingSent(l)

FoundInv == \A l \in Lead : OwnJob(l) /\ Unmailed(l)

CrashInv == JobsApart /\ RunsAgain /\ Listening /\ FoundInv

\* A written row keeps its job, has a new one, or none; mostly none, and a date.
Renames(r, row, job) == r.queuedJobId \in {row.queuedJobId, job, NoJob}

Settled(r) == r.status = "QUEUED" => r.queuedJobId = NoJob /\ r.nextRetryAt # "none"

LEMMA WritesRename ==
  ASSUME NEW row \in Row
  PROVE  /\ \A job : /\ Renames(bookFollowUp(row, job), row, job)
                     /\ Renames(bookFirstEmail(row, job), row, job)
         /\ \A followUp : Renames(releaseLead(row, followUp), row, NoJob)
         /\ \A followUp, seen : Renames(dispatchFailed(row, followUp, seen), row, NoJob)
         /\ Renames(stopDeadAddress(row), row, NoJob) /\ Renames(askAgainLater(row), row, NoJob)
         /\ Renames(hardBounce(row), row, NoJob) /\ Renames(endSequence(row), row, NoJob)
         /\ \A steps, retries : Renames(softFailure(row, steps, retries), row, NoJob)
         /\ \A steps, followUp, m : Renames(recordSent(row, steps, followUp, m), row, NoJob)
         /\ Renames(suppressAtSend(row), row, NoJob) /\ Renames(suppressEmail(row), row, NoJob)
         /\ Renames(replyArrives(row), row, NoJob) /\ Renames(bounceReported(row), row, NoJob)
<1> USE DEF Renames, Unqueued, Row
<1>1. \A job : /\ Renames(bookFollowUp(row, job), row, job)
               /\ Renames(bookFirstEmail(row, job), row, job)
  BY DEF bookFollowUp, bookFirstEmail
<1>2. /\ \A followUp : Renames(releaseLead(row, followUp), row, NoJob)
      /\ \A followUp, seen : Renames(dispatchFailed(row, followUp, seen), row, NoJob)
  BY DEF releaseLead, dispatchFailed
<1>3. /\ Renames(stopDeadAddress(row), row, NoJob) /\ Renames(askAgainLater(row), row, NoJob)
      /\ Renames(hardBounce(row), row, NoJob) /\ Renames(endSequence(row), row, NoJob)
  BY DEF stopDeadAddress, askAgainLater, hardBounce, endSequence
<1>4. /\ \A steps, retries : Renames(softFailure(row, steps, retries), row, NoJob)
      /\ \A steps, followUp, m : Renames(recordSent(row, steps, followUp, m), row, NoJob)
  BY DEF softFailure, recordSent
<1>5. /\ Renames(suppressAtSend(row), row, NoJob) /\ Renames(suppressEmail(row), row, NoJob)
      /\ Renames(replyArrives(row), row, NoJob) /\ Renames(bounceReported(row), row, NoJob)
  BY DEF suppressAtSend, suppressEmail, replyArrives, bounceReported
<1> QED
  BY <1>1, <1>2, <1>3, <1>4, <1>5

\* What is written about a lead that has not been mailed.
Settles(r) == r.stepsSent = 0 /\ Settled(r)

LEMMA WritesSettle ==
  ASSUME NEW row \in Row, row.stepsSent = 0
  PROVE  /\ Settles(hardBounce(row)) /\ \A retries : Settles(softFailure(row, 0, retries))
         /\ Settles(suppressAtSend(row)) /\ Settles(suppressEmail(row))
         /\ Settles(releaseLead(row, FALSE)) /\ \A seen : Settles(dispatchFailed(row, FALSE, seen))
         /\ Settles(stopDeadAddress(row)) /\ Settles(askAgainLater(row))
<1> USE DEF Settles, Settled
<1>1. Settles(hardBounce(row)) /\ \A retries : Settles(softFailure(row, 0, retries))
  BY DEF hardBounce, softFailure, Unqueued, Row
<1>2. Settles(suppressAtSend(row)) /\ Settles(suppressEmail(row))
  BY DEF suppressAtSend, suppressEmail, Row
<1>3. Settles(releaseLead(row, FALSE)) /\ \A seen : Settles(dispatchFailed(row, FALSE, seen))
  BY DEF releaseLead, dispatchFailed, Unqueued, Row
<1>4. Settles(stopDeadAddress(row)) /\ Settles(askAgainLater(row))
  BY DEF stopDeadAddress, askAgainLater, Unqueued, Row
<1> QED
  BY <1>1, <1>2, <1>3, <1>4

LEMMA SettledIsFindable ==
  ASSUME TypeOK', NEW l \in Lead, Settled(lead'[l])
  PROVE  Findable(l)'
<1>1. NoJob \notin kept' /\ (worker'.pc = "finish" => worker'.job # NoJob)
  BY LeadRowAssumption DEF TypeOK, QueueOK, WorkerOK, JobId
<1> QED
  BY <1>1 DEF Findable, Settled

\* The worker and BullMQ's records do nothing to the lead's job.
RecordsStay ==
  /\ kept' \subseteq kept
  /\ worker'.pc = "finish" => worker.pc = "finish" /\ worker'.job = worker.job

LEMMA FindableStays ==
  ASSUME NEW l \in Lead, Findable(l), RecordsStay,
         lead'[l].status = "QUEUED" => lead[l].status = "QUEUED",
         lead'[l].queuedJobId = lead[l].queuedJobId,
         lead[l].nextRetryAt # "none" => lead'[l].nextRetryAt # "none"
  PROVE  Findable(l)'
BY DEF Findable, RecordsStay

\* A lead's other half: no step of a send, its job, nor its count.
LEMMA NothingStays ==
  ASSUME NEW l \in Lead, NothingSent(l), lead'[l].stepsSent = 0, SameFor(l),
         worker'.job \in JobsOf(l) => worker'.job = worker.job /\ worker'.followUp = worker.followUp
  PROVE  NothingSent(l)'
BY DEF NothingSent, SameFor

(* A booking: the job is in no list yet, or among those that wait.           *)
LEMMA FoundBooked ==
  ASSUME TypeOK, FoundInv, NEW j \in JobId, NEW r,
         UNCHANGED <<kept, worker, flight, mailed>>, lead' = [lead EXCEPT ![LeadOf(j)] = r],
         r \in {bookFollowUp(lead[LeadOf(j)], j), bookFirstEmail(lead[LeadOf(j)], j)},
         j \notin kept, worker.pc = "finish" => j # worker.job
  PROVE  FoundInv'
<1> DEFINE k == LeadOf(j)
<1>1. k \in Lead /\ j \in JobsOf(k) /\ lead[k] \in Row /\ lead \in [Lead -> Row] /\ j # NoJob
  BY JobNames, LeadRowAssumption DEF TypeOK, DbOK, JobId
<1>2. r.queuedJobId = j /\ r.stepsSent = lead[k].stepsSent
  BY <1>1 DEF bookFollowUp, bookFirstEmail, Row
<1>3. lead'[k] = r /\ \A l \in Lead : l # k => lead'[l] = lead[l]
  BY <1>1
<1> HIDE DEF k
<1>4. ASSUME NEW l \in Lead PROVE OwnJob(l)' /\ Unmailed(l)'
  <2>1. OwnJob(l)'
    BY <1>1, <1>2, <1>3 DEF FoundInv, OwnJob
  <2>2. ASSUME mailed[l] = 0 PROVE Findable(l)' /\ NothingSent(l)'
    <3>1. Findable(l) /\ NothingSent(l)
      BY <2>2 DEF FoundInv, Unmailed
    <3>2. Findable(l)'
      BY <1>1, <1>2, <1>3, <3>1 DEF Findable
    <3>3. lead'[l].stepsSent = 0
      BY <1>2, <1>3, <3>1 DEF NothingSent
    <3> QED
      BY <3>1, <3>2, <3>3, NothingStays DEF SameFor
  <2> QED
    BY <2>1, <2>2 DEF Unmailed
<1> QED
  BY <1>4 DEF FoundInv

\* A step that leaves rows, executions and counts alone, and ends no job.
LEMMA FoundElsewhere ==
  ASSUME FoundInv, RecordsStay, UNCHANGED <<lead, flight, mailed>>,
         \A l \in Lead : worker'.job \in JobsOf(l) =>
           worker'.job = worker.job /\ worker'.followUp = worker.followUp
  PROVE  FoundInv'
<1>1. ASSUME NEW l \in Lead PROVE OwnJob(l)' /\ Unmailed(l)'
  <2>1. OwnJob(l)'
    BY DEF FoundInv, OwnJob
  <2>2. ASSUME mailed[l] = 0 PROVE Findable(l)' /\ NothingSent(l)'
    <3>1. Findable(l) /\ NothingSent(l)
      BY <2>2 DEF FoundInv, Unmailed
    <3> QED
      BY <3>1, FindableStays, NothingStays DEF SameFor, NothingSent
  <2> QED
    BY <2>1, <2>2 DEF Unmailed
<1> QED
  BY <1>1 DEF FoundInv

LEMMA FoundTicks ==
  ASSUME TypeOK, JobsApart, FoundInv, (\E t \in Tick : TickStep(t)) \/ ReconStep
  PROVE  FoundInv'
<1>1. CASE \E t \in Tick : TickMarkLead(t)
  <2>1. PICK t \in Tick : TickMarkLead(t)
    BY <1>1
  <2> DEFINE j == tick[t].job
  <2>2. j \in JobId /\ ~InRedis(j)
    BY <2>1 DEF TickMarkLead, TypeOK, TicksOK, JobsApart, TicksAdd, Adding
  <2>3. worker.pc = "finish" => j # worker.job
    BY <2>2 DEF JobsApart, WorkerHolds, InRedis
  <2>4. /\ UNCHANGED <<kept, worker, flight, mailed>>
        /\ \/ lead' = [lead EXCEPT ![LeadOf(j)] = bookFollowUp(lead[LeadOf(j)], j)]
           \/ lead' = [lead EXCEPT ![LeadOf(j)] = bookFirstEmail(lead[LeadOf(j)], j)]
    BY <2>1 DEF TickMarkLead, bullVars, history
  <2> HIDE DEF j
  <2> QED
    BY <2>2, <2>3, <2>4, FoundBooked DEF InRedis
<1>2. CASE ReconMark
  <2>1. /\ recon.job \in JobId /\ recon.job \in waiting
        /\ lead' = [lead EXCEPT ![LeadOf(recon.job)] = bookFollowUp(lead[LeadOf(recon.job)], recon.job)]
        /\ UNCHANGED <<kept, worker, flight, mailed>>
    BY <1>2 DEF ReconMark, TypeOK, ReconOK, JobsApart, ReconAdds, bullVars, history
  <2>2. recon.job \notin kept /\ (worker.pc = "finish" => recon.job # worker.job)
    BY <2>1 DEF JobsApart, OnePlaceEach, WorkerHolds
  <2> QED
    BY <2>1, <2>2, FoundBooked
<1>3. CASE (\E t \in Tick : TickStep(t) /\ ~TickMarkLead(t)) \/ (ReconStep /\ ~ReconMark)
  <2>1. UNCHANGED <<lead, kept, worker, flight, mailed>>
    BY <1>3 DEF TickStep, TickStart, TickTakeSlot, TickSkip, TickAddJob, TickReadFirstEmails,
       TickEnd, TickFails, ReconStep, ReconFind, ReconAdd, dbVars, bullVars, history
  <2> QED
    BY <2>1, FoundElsewhere DEF RecordsStay
<1> QED
  BY <1>1, <1>2, <1>3

\* The write a job ends with: nothing is left of its booking.
LEMMA FoundWorkerWrites ==
  ASSUME TypeOK, TypeOK', FoundInv, worker.pc \in {"release", "ready", "failed"},
         NEW r, WorkerWrites(r), Renames(r, lead[LeadOf(worker.job)], NoJob),
         mailed[LeadOf(worker.job)] = 0 => Settles(r),
         UNCHANGED <<kept, flight, mailed>>
  PROVE  FoundInv'
<1> DEFINE k == LeadOf(worker.job)
<1>1. k \in Lead /\ worker.job \in JobsOf(k) /\ lead \in [Lead -> Row]
  BY JobNames DEF TypeOK, DbOK, WorkerOK
<1>2. lead'[k] = r /\ \A l \in Lead : l # k => lead'[l] = lead[l]
  BY <1>1 DEF WorkerWrites
<1>3. worker'.pc = "finish" /\ worker'.job = worker.job /\ worker'.followUp = worker.followUp
  BY DEF WorkerWrites, TypeOK, WorkerOK, WorkerState
<1>4. \A l \in Lead : l # k => worker.job \notin JobsOf(l) \union {NoJob}
  BY <1>1, LeadRowAssumption DEF JobsOf
<1>5. Renames(r, lead[k], NoJob) /\ (mailed[k] = 0 => Settles(r))
  OBVIOUS
<1> HIDE DEF k
<1>6. ASSUME NEW l \in Lead PROVE OwnJob(l)' /\ Unmailed(l)'
  <2>1. OwnJob(l) /\ Unmailed(l)
    BY DEF FoundInv
  <2>2. OwnJob(l)'
    BY <1>2, <1>5, <2>1 DEF OwnJob, Renames
  <2>3. ASSUME mailed[l] = 0 PROVE Findable(l)' /\ NothingSent(l)'
    <3>1. Findable(l) /\ NothingSent(l)
      BY <2>1, <2>3 DEF Unmailed
    <3>2. lead'[l].stepsSent = 0
      BY <1>2, <1>5, <2>3, <3>1 DEF NothingSent, Settles
    <3>3. Findable(l)'
      <4>1. CASE l = k
        BY <1>2, <1>5, <2>3, <4>1, SettledIsFindable DEF Settles
      <4>2. CASE l # k
        BY <1>2, <1>3, <1>4, <2>1, <3>1, <4>2 DEF Findable, OwnJob
      <4> QED
        BY <4>1, <4>2
    <3> QED
      BY <1>3, <3>1, <3>2, <3>3, NothingStays DEF SameFor
  <2> QED
    BY <2>2, <2>3 DEF Unmailed
<1> QED
  BY <1>6 DEF FoundInv

\* What the processor knows of its lead.
LEMMA WorkerLead ==
  ASSUME TypeOK, FoundInv, worker.pc # "idle"
  PROVE  LET k == LeadOf(worker.job) IN
         /\ k \in Lead /\ worker.job \in JobsOf(k) /\ lead[k] \in Row
         /\ mailed[k] = 0 =>
              /\ lead[k].stepsSent = 0 /\ worker.followUp = FALSE
              /\ Findable(k) /\ NothingSent(k)
<1>1. /\ LeadOf(worker.job) \in Lead /\ worker.job \in JobsOf(LeadOf(worker.job))
      /\ worker.followUp \in BOOLEAN
  BY JobNames DEF TypeOK, WorkerOK, WorkerState
<1> QED
  BY <1>1 DEF FoundInv, Unmailed, NothingSent, TypeOK, DbOK

\* n8n's answer: after a mail, or after nothing.
LEMMA FoundAnswered ==
  ASSUME TypeOK, TypeOK', Listening, FoundInv, NEW f \in Flight, WorkerAnswered(f)
  PROVE  FoundInv'
<1> DEFINE k == LeadOf(worker.job)
<1>1. /\ worker.pc = "await" /\ flight[f].awaited /\ flight[f].pc \in {"ok", "failed"}
      /\ flight' = [flight EXCEPT ![f] = IdleFlight] /\ UNCHANGED <<lead, kept, mailed>>
  BY DEF WorkerAnswered, dbVars, bullVars, history
<1>2. /\ worker'.job = worker.job /\ worker'.followUp = worker.followUp
      /\ worker'.pc = "finish" =>
           \/ flight[f].pc = "ok"
           \/ lead[k].queuedJobId = NoJob
           \/ ~worker.followUp /\ lead[k].status # "QUEUED"
  BY DEF WorkerAnswered, TypeOK, WorkerOK, WorkerState
<1>3. /\ k \in Lead /\ worker.job \in JobsOf(k)
      /\ mailed[k] = 0 => worker.followUp = FALSE /\ Findable(k) /\ NothingSent(k)
  BY <1>1, WorkerLead
<1>4. flight[f].job = worker.job
  BY <1>1 DEF Listening
<1>5. \A l \in Lead : l # k => worker.job \notin JobsOf(l) \union {NoJob}
  BY <1>3, LeadRowAssumption DEF JobsOf
<1>6. worker.job # NoJob
  BY <1>3, LeadRowAssumption DEF JobsOf
<1> HIDE DEF k
<1>7. ASSUME NEW l \in Lead PROVE OwnJob(l)' /\ Unmailed(l)'
  <2>1. OwnJob(l) /\ Unmailed(l)
    BY DEF FoundInv
  <2>2. ASSUME mailed[l] = 0 PROVE Findable(l)' /\ NothingSent(l)'
    <3>1. Findable(l) /\ NothingSent(l)
      BY <2>1, <2>2 DEF Unmailed
    <3>2. worker'.pc = "finish" /\ lead[l].status = "QUEUED" => lead[l].queuedJobId # worker.job
      <4>1. CASE l = k
        <5>1. flight[f].pc # "ok"
          BY <1>3, <1>4, <3>1, <4>1 DEF NothingSent
        <5> QED
          BY <1>2, <1>3, <1>6, <4>1, <5>1
      <4>2. CASE l # k
        BY <1>5, <2>1, <4>2 DEF OwnJob
      <4> QED
        BY <4>1, <4>2
    <3>3. Findable(l)'
      BY <1>1, <1>2, <3>1, <3>2 DEF Findable
    <3>4. \A g \in Flight : flight'[g] = flight[g] \/ flight'[g] = IdleFlight
      BY <1>1 DEF TypeOK, FlightsOK
    <3>5. IdleFlight.pc = "idle"
      BY DEF IdleFlight
    <3>6. NothingSent(l)'
      BY <1>1, <1>2, <3>1, <3>4, <3>5 DEF NothingSent
    <3> QED
      BY <3>3, <3>6
  <2> QED
    BY <1>1, <2>1, <2>2 DEF Unmailed, OwnJob
<1> QED
  BY <1>7 DEF FoundInv

LEMMA FoundWorker ==
  ASSUME OneCrash, TypeOK, TypeOK', JobsApart, Listening, FoundInv, WorkerStep
  PROVE  FoundInv'
<1> DEFINE k == LeadOf(worker.job)
           row == lead[k]
<1>k. worker.pc # "idle" =>
        /\ row \in Row /\ worker.followUp \in BOOLEAN
        /\ mailed[k] = 0 => row.stepsSent = 0 /\ worker.followUp = FALSE
  BY WorkerLead DEF TypeOK, WorkerOK, WorkerState
<1>1. CASE \E j \in JobId : TakeJob(j)
  <2>1. PICK j \in JobId : TakeJob(j)
    BY <1>1
  <2>2. /\ UNCHANGED <<lead, kept, flight, mailed>> /\ worker'.pc \in {"ready", "release"}
        /\ worker'.job = j /\ worker'.followUp = (lead[LeadOf(j)].stepsSent > 0)
    BY <2>1 DEF TakeJob, dbVars, history
  <2>3. ASSUME NEW l \in Lead PROVE OwnJob(l)' /\ Unmailed(l)'
    <3>1. OwnJob(l)' /\ Unmailed(l)
      BY <2>2 DEF FoundInv, OwnJob
    <3>2. ASSUME mailed[l] = 0 PROVE Findable(l)' /\ NothingSent(l)'
      <4>1. Findable(l) /\ NothingSent(l)
        BY <3>1, <3>2 DEF Unmailed
      <4>2. Findable(l)'
        BY <2>2, <4>1 DEF Findable
      <4>3. j \in JobsOf(l) => LeadOf(j) = l
        BY DEF JobsOf, LeadOf
      <4>4. worker'.job \in JobsOf(l) => ~worker'.followUp
        <5> SUFFICES ASSUME j \in JobsOf(l) PROVE worker'.followUp = FALSE
          BY <2>2
        <5>1. ~(lead[LeadOf(j)].stepsSent > 0)
          BY <4>1, <4>3 DEF NothingSent
        <5>2. (lead[LeadOf(j)].stepsSent > 0) = FALSE
          BY <5>1
        <5> QED
          BY <2>2, <5>2
      <4> QED
        BY <2>2, <4>1, <4>2, <4>4 DEF NothingSent
    <3> QED
      BY <2>2, <3>1, <3>2 DEF Unmailed
  <2> QED
    BY <2>3 DEF FoundInv
<1>2. CASE WorkerReleases
  <2>1. /\ Renames(releaseLead(row, worker.followUp), row, NoJob)
        /\ mailed[k] = 0 => Settles(releaseLead(row, worker.followUp))
    BY <1>2, <1>k, WritesRename, WritesSettle DEF WorkerReleases
  <2> QED
    BY <1>2, <2>1, FoundWorkerWrites DEF WorkerReleases, bullVars, history
<1>3. CASE WorkerStopsDeadAddress
  <2>1. Renames(stopDeadAddress(row), row, NoJob) /\ (mailed[k] = 0 => Settles(stopDeadAddress(row)))
    BY <1>3, <1>k, WritesRename, WritesSettle DEF WorkerStopsDeadAddress
  <2> QED
    BY <1>3, <2>1, FoundWorkerWrites DEF WorkerStopsDeadAddress, bullVars, history
<1>4. CASE WorkerAsksAgainLater
  <2>1. Renames(askAgainLater(row), row, NoJob) /\ (mailed[k] = 0 => Settles(askAgainLater(row)))
    BY <1>4, <1>k, WritesRename, WritesSettle DEF WorkerAsksAgainLater
  <2> QED
    BY <1>4, <2>1, FoundWorkerWrites DEF WorkerAsksAgainLater, bullVars, history
<1>5. CASE WorkerWritesFailure
  <2> DEFINE r == dispatchFailed(row, worker.followUp, worker.seen)
  <2>1. Renames(r, row, NoJob) /\ (mailed[k] = 0 => Settles(r))
    BY <1>5, <1>k, WritesRename, WritesSettle DEF WorkerWritesFailure
  <2>2. WorkerWrites(r) /\ worker.pc = "failed" /\ UNCHANGED <<kept, flight, mailed>>
    BY <1>5 DEF WorkerWritesFailure, bullVars, history
  <2> HIDE DEF r
  <2> QED
    BY <2>1, <2>2, FoundWorkerWrites
<1>6. CASE \E f \in Flight : WorkerDispatches(f)
  <2>1. PICK f \in Flight : WorkerDispatches(f)
    BY <1>6
  <2>2. /\ UNCHANGED <<lead, kept, mailed>> /\ worker'.pc = "await"
        /\ worker'.job = worker.job /\ worker'.followUp = worker.followUp
    BY <2>1 DEF WorkerDispatches, TypeOK, WorkerOK, WorkerState, dbVars, bullVars, history
  <2>3. \A g \in Flight : flight'[g] = flight[g] \/ flight'[g].pc = "compose"
    BY <2>1 DEF WorkerDispatches, TypeOK, FlightsOK
  <2> QED
    BY <2>2, <2>3 DEF FoundInv, OwnJob, Unmailed, Findable, NothingSent
<1>7. CASE \E f \in Flight : WorkerAnswered(f)
  BY <1>7, FoundAnswered
<1>8. CASE WorkerFetchRejects
  BY <1>8 DEF WorkerFetchRejects, Fault, OneCrash
<1>9. CASE WorkerFinishes
  <2>1. /\ UNCHANGED <<lead, flight, mailed>> /\ worker.pc = "finish"
        /\ worker'.pc = "idle" /\ worker'.job = NoJob /\ kept' \subseteq kept \union {worker.job}
    BY <1>9 DEF WorkerFinishes, IdleWorker, dbVars, history
  <2>2. \A l \in Lead : NoJob \notin JobsOf(l)
    BY LeadRowAssumption DEF JobsOf
  <2>3. ASSUME NEW l \in Lead PROVE OwnJob(l)' /\ Unmailed(l)'
    BY <2>1, <2>2 DEF FoundInv, OwnJob, Unmailed, Findable, NothingSent
  <2> QED
    BY <2>3 DEF FoundInv
<1> QED
  BY <1>1, <1>2, <1>3, <1>4, <1>5, <1>6, <1>7, <1>8, <1>9 DEF WorkerStep

\* An execution takes a step, and may write its lead's row.
LEMMA FoundMoves ==
  ASSUME TypeOK, TypeOK', FoundInv, NEW f \in Flight, NEW r, NEW row,
         flight' = [flight EXCEPT ![f] = r], flight[f].pc # "idle",
         r.job = flight[f].job \/ r.job = NoJob,
         lead' = [lead EXCEPT ![FlightLead(f)] = row],
         Renames(row, lead[FlightLead(f)], NoJob),
         \A l \in Lead : mailed[l] <= mailed'[l],
         mailed'[FlightLead(f)] = 0 =>
           /\ row = lead[FlightLead(f)] \/ Settles(row)
           /\ r.pc \notin {"sent", "record", "ok"}
           /\ r.pc = "refused" => \/ r.stepsRead = lead[FlightLead(f)].stepsSent
                                  \/ flight[f].pc = "refused" /\ r.stepsRead = flight[f].stepsRead,
         UNCHANGED <<kept, worker>>
  PROVE  FoundInv'
<1> DEFINE k == FlightLead(f)
<1>1. /\ k \in Lead /\ flight[f].job \in JobsOf(k) /\ lead \in [Lead -> Row]
      /\ \A l \in Lead : mailed[l] \in Nat /\ mailed'[l] \in Nat
  BY JobNames DEF FlightLead, TypeOK, FlightsOK, DbOK, HistoryOK
<1>2. /\ lead'[k] = row /\ \A l \in Lead : l # k => lead'[l] = lead[l]
      /\ flight'[f] = r /\ \A g \in Flight : g # f => flight'[g] = flight[g]
  BY <1>1 DEF TypeOK, FlightsOK
<1>3. \A l \in Lead : r.job \in JobsOf(l) => l = k /\ flight[f].job \in JobsOf(l)
  BY <1>1, LeadRowAssumption DEF JobsOf
<1>4. /\ Renames(row, lead[k], NoJob)
      /\ mailed'[k] = 0 =>
           /\ row = lead[k] \/ Settles(row)
           /\ r.pc \notin {"sent", "record", "ok"}
           /\ r.pc = "refused" => \/ r.stepsRead = lead[k].stepsSent
                                  \/ flight[f].pc = "refused" /\ r.stepsRead = flight[f].stepsRead
  OBVIOUS
<1> HIDE DEF k
<1>5. ASSUME NEW l \in Lead PROVE OwnJob(l)' /\ Unmailed(l)'
  <2>1. OwnJob(l)'
    BY <1>2, <1>4 DEF FoundInv, OwnJob, Renames
  <2>2. ASSUME mailed'[l] = 0 PROVE Findable(l)' /\ NothingSent(l)'
    <3>1. Findable(l) /\ NothingSent(l)
      BY <1>1, <2>2 DEF FoundInv, Unmailed
    <3>2. lead'[l] = lead[l] \/ Settles(lead'[l])
      BY <1>2, <1>4, <2>2
    <3>3. Findable(l)'
      <4>1. CASE Settles(lead'[l])
        BY <4>1, SettledIsFindable DEF Settles
      <4>2. CASE lead'[l] = lead[l]
        BY <3>1, <4>2 DEF Findable
      <4> QED
        BY <3>2, <4>1, <4>2
    <3>4. lead'[l].stepsSent = 0
      BY <3>1, <3>2 DEF NothingSent, Settles
    <3>5. ASSUME NEW g \in Flight, flight'[g].job \in JobsOf(l)
          PROVE  /\ flight'[g].pc \notin {"sent", "record", "ok"}
                 /\ flight'[g].pc = "refused" => flight'[g].stepsRead = 0
      BY <1>2, <1>3, <1>4, <2>2, <3>1, <3>5 DEF NothingSent
    <3> QED
      BY <3>1, <3>3, <3>4, <3>5 DEF NothingSent
  <2> QED
    BY <2>1, <2>2 DEF Unmailed
<1> QED
  BY <1>5 DEF FoundInv

LEMMA FoundFlight ==
  ASSUME TypeOK, TypeOK', FoundInv, NEW f \in Flight, FlightStep(f)
  PROVE  FoundInv'
<1> DEFINE k == FlightLead(f)
           r == flight'[f]
<1>f. flight \in [Flight -> FlightState] /\ lead \in [Lead -> Row] /\ mailed \in [Lead -> Nat]
  BY DEF TypeOK, FlightsOK, DbOK, HistoryOK
<1>i. flight[f].pc # "idle" /\ UNCHANGED <<kept, worker>>
  BY DEF FlightStep, Compose, SendRefused, SendSuppressed, SendCleared, SmtpAccepts, SmtpRefuses,
     RecordFailure, RecordRead, RecordWrite, RecordFails, RecordLost, ApiDies, FlightEnds, bullVars
<1>k. /\ k \in Lead /\ flight[f].job \in JobsOf(k) /\ lead[k] \in Row
      /\ mailed[k] = 0 =>
           /\ lead[k].stepsSent = 0 /\ flight[f].pc \notin {"sent", "record", "ok"}
           /\ flight[f].pc = "refused" => flight[f].stepsRead = 0
  <2>1. k \in Lead /\ flight[f].job \in JobsOf(k)
    BY <1>i, JobNames DEF FlightLead, TypeOK, FlightsOK
  <2> HIDE DEF k
  <2> QED
    BY <1>f, <2>1 DEF FoundInv, Unmailed, NothingSent
<1>r. flight' = [flight EXCEPT ![f] = r] /\ (r.job = flight[f].job \/ r.job = NoJob)
  <2>1. CASE FlightEnds(f)
    BY <2>1, <1>f DEF FlightEnds, IdleFlight
  <2>2. CASE Compose(f) \/ SendRefused(f) \/ SendSuppressed(f) \/ SendCleared(f) \/ SmtpAccepts(f)
    BY <2>2, <1>f DEF Compose, SendRefused, SendSuppressed, SendCleared, SmtpAccepts, FlightTo,
       FlightState
  <2>3. CASE SmtpRefuses(f) \/ RecordFailure(f) \/ RecordFails(f)
    BY <2>3, <1>f DEF SmtpRefuses, RecordFailure, RecordFails, FlightTo, ReadFailed, FlightState
  <2>4. CASE RecordRead(f) \/ RecordWrite(f) \/ RecordLost(f) \/ ApiDies(f)
    BY <2>4, <1>f DEF RecordRead, RecordWrite, RecordLost, ApiDies, FlightTo, FlightState
  <2> QED
    BY <2>1, <2>2, <2>3, <2>4 DEF FlightStep
\* The row as it is.
<1>s. UNCHANGED lead => lead' = [lead EXCEPT ![k] = lead[k]] /\ Renames(lead[k], lead[k], NoJob)
  BY <1>f, <1>k DEF Renames
<1>m. \A l \in Lead : mailed[l] <= mailed'[l]
  BY <1>f, <1>k DEF FlightStep, Compose, SendRefused, SendSuppressed, SendCleared, SmtpAccepts,
     SmtpRefuses, RecordFailure, RecordRead, RecordWrite, RecordFails, RecordLost, ApiDies,
     FlightEnds, history
<1>z. mailed'[k] = 0 => mailed[k] = 0
  BY <1>f, <1>k, <1>m DEF TypeOK, HistoryOK
\* The step goes by its row and what it read.
<1>a. ASSUME NEW row, lead' = [lead EXCEPT ![k] = row], Renames(row, lead[k], NoJob),
             mailed'[k] = 0 =>
               /\ row = lead[k] \/ Settles(row)
               /\ r.pc \notin {"sent", "record", "ok"}
               /\ r.pc = "refused" => \/ r.stepsRead = lead[k].stepsSent
                                      \/ flight[f].pc = "refused" /\ r.stepsRead = flight[f].stepsRead
      PROVE  FoundInv'
  BY <1>a, <1>i, <1>r, <1>m, FoundMoves
<1>1. CASE FlightEnds(f) \/ SendRefused(f) \/ SendCleared(f) \/ ApiDies(f) \/ RecordLost(f)
           \/ RecordRead(f) \/ RecordFails(f)
  <2>1. UNCHANGED lead
    BY <1>1 DEF FlightEnds, SendRefused, SendCleared, ApiDies, RecordLost, RecordRead, RecordFails,
                dbVars
  <2>2. mailed[k] = 0 => r.pc \notin {"sent", "record", "ok", "refused"}
    BY <1>1, <1>f, <1>k DEF FlightEnds, SendRefused, SendCleared, ApiDies, RecordLost, RecordRead,
       RecordFails, FlightTo, IdleFlight, FlightState
  <2> HIDE DEF k, r
  <2> QED
    BY <2>1, <2>2, <1>a, <1>s, <1>z
<1>2. CASE SmtpAccepts(f)
  <2>1. UNCHANGED lead /\ mailed'[k] # 0
    BY <1>2, <1>f, <1>k DEF SmtpAccepts, dbVars
  <2> HIDE DEF k, r
  <2> QED
    BY <2>1, <1>a, <1>s
<1>3. CASE Compose(f)
  <2>1. r.pc \in {"send", "failed"}
    BY <1>3, <1>f DEF Compose, FlightTo, FlightState
  <2>2. \/ UNCHANGED lead
        \/ lead[k].stepsSent > FollowUps /\ lead' = [lead EXCEPT ![k] = endSequence(lead[k])]
    BY <1>3 DEF Compose
  <2>3. lead[k].stepsSent > FollowUps => mailed'[k] # 0
    BY <1>k, <1>z, LeadRowAssumption
  <2>4. Renames(endSequence(lead[k]), lead[k], NoJob)
    BY <1>k, WritesRename
  <2> HIDE DEF k, r
  <2> QED
    BY <2>1, <2>2, <2>3, <2>4, <1>a, <1>s
<1>4. CASE SendSuppressed(f)
  <2>1. r.pc = "failed" /\ lead' = [lead EXCEPT ![k] = suppressAtSend(lead[k])]
    BY <1>4, <1>f DEF SendSuppressed, FlightTo, FlightState
  <2>2. /\ Renames(suppressAtSend(lead[k]), lead[k], NoJob)
        /\ mailed[k] = 0 => Settles(suppressAtSend(lead[k]))
    BY <1>k, WritesRename, WritesSettle
  <2> HIDE DEF k, r
  <2> QED
    BY <2>1, <2>2, <1>a, <1>z
<1>5. CASE SmtpRefuses(f)
  <2>1. \/ r.pc = "failed" /\ lead' = [lead EXCEPT ![k] = hardBounce(lead[k])]
        \/ r.pc = "refused" /\ r.stepsRead = lead[k].stepsSent /\ UNCHANGED lead
    BY <1>5, <1>f DEF SmtpRefuses, ReadFailed, FlightTo, FlightState
  <2>2. /\ Renames(hardBounce(lead[k]), lead[k], NoJob)
        /\ mailed[k] = 0 => Settles(hardBounce(lead[k]))
    BY <1>k, WritesRename, WritesSettle
  <2> HIDE DEF k, r
  <2>3. CASE r.pc = "failed" /\ lead' = [lead EXCEPT ![k] = hardBounce(lead[k])]
    BY <2>2, <2>3, <1>a, <1>z
  <2>4. CASE r.pc = "refused" /\ r.stepsRead = lead[k].stepsSent /\ UNCHANGED lead
    BY <2>4, <1>a, <1>s
  <2> QED
    BY <2>1, <2>3, <2>4
<1>6. CASE RecordFailure(f)
  <2> DEFINE row == softFailure(lead[k], flight[f].stepsRead, flight[f].retriesRead)
  <2>1. r.pc = "failed" /\ flight[f].pc = "refused" /\ lead' = [lead EXCEPT ![k] = row]
    BY <1>6, <1>f DEF RecordFailure, FlightTo, FlightState
  <2>2. Renames(row, lead[k], NoJob) /\ (mailed[k] = 0 => Settles(row))
    BY <2>1, <1>k, WritesRename, WritesSettle
  <2> HIDE DEF k, r, row
  <2> QED
    BY <2>1, <2>2, <1>a, <1>z
<1>7. CASE RecordWrite(f)
  <2> DEFINE row == recordSent(lead[k], flight[f].stepsRead, flight[f].followUp, MailboxOf(flight[f].job))
  <2>1. flight[f].pc = "record" /\ lead' = [lead EXCEPT ![k] = row]
    BY <1>7 DEF RecordWrite
  <2>2. Renames(row, lead[k], NoJob) /\ mailed'[k] # 0
    BY <2>1, <1>k, <1>z, WritesRename
  <2> HIDE DEF k, r, row
  <2> QED
    BY <2>1, <2>2, <1>a
<1> QED
  BY <1>1, <1>2, <1>3, <1>4, <1>5, <1>6, <1>7 DEF FlightStep

\* Rows written where no execution, no job and no count is.
LEMMA FoundRows ==
  ASSUME TypeOK, TypeOK', FoundInv, UNCHANGED <<kept, worker, flight, mailed>>,
         \A l \in Lead :
           /\ Renames(lead'[l], lead[l], NoJob)
           /\ mailed[l] = 0 /\ lead[l].stepsSent = 0 =>
                \/ Settles(lead'[l])
                \/ /\ lead'[l].status = lead[l].status /\ lead'[l].stepsSent = lead[l].stepsSent
                   /\ lead'[l].queuedJobId = lead[l].queuedJobId
                   /\ lead[l].nextRetryAt # "none" => lead'[l].nextRetryAt # "none"
  PROVE  FoundInv'
<1>1. ASSUME NEW l \in Lead PROVE OwnJob(l)' /\ Unmailed(l)'
  <2>1. OwnJob(l)'
    BY DEF FoundInv, OwnJob, Renames
  <2>2. ASSUME mailed[l] = 0 PROVE Findable(l)' /\ NothingSent(l)'
    <3>1. Findable(l) /\ NothingSent(l) /\ lead[l].stepsSent = 0
      BY <2>2 DEF FoundInv, Unmailed, NothingSent
    <3>2. CASE Settles(lead'[l])
      BY <3>1, <3>2, SettledIsFindable, NothingStays DEF Settles, SameFor
    <3>3. CASE ~Settles(lead'[l])
      BY <2>2, <3>1, <3>3, FindableStays, NothingStays DEF SameFor, RecordsStay
    <3> QED
      BY <3>2, <3>3
  <2> QED
    BY <2>1, <2>2 DEF Unmailed
<1> QED
  BY <1>1 DEF FoundInv

LEMMA FoundElse ==
  ASSUME TypeOK, TypeOK', RunsAgain, FoundInv, QueueStep \/ Crash \/ TimeStep \/ EnvStep
  PROVE  FoundInv'
<1>r. lead \in [Lead -> Row]
  BY DEF TypeOK, DbOK
<1>1. CASE QueueStep
  <2>1. UNCHANGED <<lead, flight, mailed, worker>> /\ kept' \subseteq kept
    BY <1>1 DEF QueueStep, RecoverStalled, Prune, RunsAgain, dbVars, history
  <2> QED
    BY <2>1, FoundElsewhere DEF RecordsStay
<1>2. CASE Crash
  <2>1. /\ UNCHANGED <<lead, kept, mailed>> /\ worker'.pc = "idle" /\ worker'.job = NoJob
        /\ \A f \in Flight : /\ flight'[f].job = flight[f].job /\ flight'[f].pc = flight[f].pc
                             /\ flight'[f].stepsRead = flight[f].stepsRead
    BY <1>2 DEF Crash, IdleWorker, TypeOK, FlightsOK, FlightState, dbVars, bullVars, history
  <2>2. \A l \in Lead : NoJob \notin JobsOf(l)
    BY LeadRowAssumption DEF JobsOf
  <2>3. ASSUME NEW l \in Lead PROVE OwnJob(l)' /\ Unmailed(l)'
    BY <2>1, <2>2 DEF FoundInv, OwnJob, Unmailed, Findable, NothingSent
  <2> QED
    BY <2>3 DEF FoundInv
<1>3. CASE \E l \in Lead : SlotOverdue(l) \/ DateComes(l)
  <2>1. PICK k \in Lead : SlotOverdue(k) \/ DateComes(k)
    BY <1>3
  <2>2. \A l \in Lead :
          /\ lead'[l].status = lead[l].status /\ lead'[l].stepsSent = lead[l].stepsSent
          /\ lead'[l].queuedJobId = lead[l].queuedJobId
          /\ lead[l].nextRetryAt # "none" => lead'[l].nextRetryAt # "none"
    BY <2>1, <1>r DEF SlotOverdue, DateComes, Row
  <2>3. UNCHANGED <<kept, worker, flight, mailed>>
    BY <2>1 DEF SlotOverdue, DateComes, bullVars, history
  <2> QED
    BY <2>2, <2>3, FoundRows DEF Renames
<1>4. CASE \E e \in Email : OptOut(e)
  <2>1. \A l \in Lead : lead'[l] = lead[l] \/ lead'[l] = suppressEmail(lead[l])
    BY <1>4 DEF OptOut
  <2>2. UNCHANGED <<kept, worker, flight, mailed>>
    BY <1>4 DEF OptOut, bullVars
  <2>3. ASSUME NEW l \in Lead
        PROVE  /\ Renames(lead'[l], lead[l], NoJob)
               /\ lead[l].stepsSent = 0 => lead'[l] = lead[l] \/ Settles(lead'[l])
    <3>1. lead[l] \in Row
      BY <1>r
    <3> QED
      BY <2>1, <3>1, WritesRename, WritesSettle DEF Renames
  <2> QED
    BY <2>2, <2>3, FoundRows
<1>5. CASE \E l \in Lead : ReplyMarks(l) \/ BounceReport(l)
  \* A lead with a reply was mailed, and one about to be written has one: the row settles.
  <2>1. PICK k \in Lead : ReplyMarks(k) \/ BounceReport(k)
    BY <1>5
  <2>2. /\ \A l \in Lead : l # k => lead'[l] = lead[l]
        /\ lead'[k] = replyArrives(lead[k]) \/ lead'[k] = bounceReported(lead[k])
        /\ UNCHANGED <<kept, worker, flight, mailed>>
    BY <2>1, <1>r DEF ReplyMarks, BounceReport, bullVars, history
  <2>3. Renames(lead'[k], lead[k], NoJob) /\ lead[k] \in Row
    BY <2>2, <1>r, WritesRename
  <2>4. lead[k].stepsSent = 0 => lead'[k] = lead[k] \/ Settles(lead'[k])
    BY <2>2, <2>3 DEF replyArrives, bounceReported, Unqueued, Waiting, Settles, Settled, Row
  <2>5. \A l \in Lead : Renames(lead'[l], lead[l], NoJob)
    BY <2>2, <2>3 DEF Renames
  <2> QED
    BY <2>2, <2>4, <2>5, FoundRows
<1>6. CASE \/ \E j \in JobId : SlotComes(j)
           \/ CampaignOpens \/ \E m \in Mailbox : MailboxToggles(m)
           \/ \E e \in Email : Unblock(e)
           \/ \E l \in Lead : ReplyStored(l) \/ ReplyMarkLost(l)
  <2>1. UNCHANGED <<lead, kept, worker, flight, mailed>>
    BY <1>6 DEF SlotComes, CampaignOpens, MailboxToggles, Unblock, ReplyStored, ReplyMarkLost,
       dbVars, bullVars, history
  <2> QED
    BY <2>1, FoundElsewhere DEF RecordsStay
<1> QED
  BY <1>1, <1>2, <1>3, <1>4, <1>5, <1>6 DEF TimeStep, EnvStep

LEMMA NextCrash ==
  ASSUME OneCrash, TypeOK, TypeOK', OneListener, CrashInv, [Next]_vars
  PROVE  CrashInv'
<1>1. JobsApart' /\ RunsAgain' /\ Listening'
  BY NextApart, NextRuns, NextListens DEF CrashInv
<1>2. FoundInv'
  <2>1. CASE UNCHANGED vars
    BY <2>1, FoundElsewhere DEF vars, dbVars, bullVars, history, RecordsStay, CrashInv
  <2> QED
    BY <2>1, FoundTicks, FoundWorker, FoundFlight, FoundElse DEF Next, CrashInv
<1> QED
  BY <1>1, <1>2 DEF CrashInv

LEMMA InitCrash ==
  ASSUME Init
  PROVE  CrashInv
<1>1. JobsApart /\ RunsAgain
  BY DEF Init, JobsApart, OnePlaceEach, WorkerHolds, TicksAdd, ReconAdds, RunsAgain, Adding,
     IdleTick, IdleWorker, IdleRecon
<1>2. Listening
  BY DEF Init, Listening, IdleFlight
<1>3. \A l \in Lead : NoJob \notin JobsOf(l)
  BY LeadRowAssumption DEF JobsOf
<1>4. FoundInv
  BY <1>3 DEF Init, FoundInv, OwnJob, Unmailed, Findable, NothingSent, NewLead, IdleWorker, IdleFlight
<1> QED
  BY <1>1, <1>2, <1>4 DEF CrashInv

(* reconcile.ts: no crash leaves "a lead that silently never gets emailed".  *)
(* However many leads, mailboxes, ticks and executions there are, whatever   *)
(* people do, and whether any writes, calls and ticks fail or the worker     *)
(* dies at any one step: a QUEUED lead that was never mailed has a date, or  *)
(* a job that BullMQ will run or reconciliation will miss.                   *)
THEOREM NobodyIsForgotten ==
  ASSUME OneCrash
  PROVE  Spec => []NoLeadForgotten
<1>1. TypeOK /\ CrashInv => NoLeadForgotten
  BY DEF CrashInv, FoundInv, Unmailed, Findable, NoLeadForgotten, Reachable
<1>2. ThreadInv => OneListener
  BY DEF ThreadInv
<1>3. TypeOK /\ ThreadInv /\ CrashInv /\ [Next]_vars => TypeOK' /\ ThreadInv' /\ CrashInv'
  BY <1>2, NextTypes, NextThread, NextCrash
<1> QED
  BY <1>1, <1>3, InitTypes, InitThread, InitCrash, PTL DEF Spec

-----------------------------------------------------------------------------
(* What crosses a reply, whichever ticks overlap and whatever fails.  Once a *)
(* lead has had the one mail too many, its next follow-up is a day off at    *)
(* least (MIN_WAIT_DAYS, sequence.ts) and a slot lies before the send window *)
(* closes (takeSlot, enqueuer.ts): when that date comes, what was booked for *)
(* the lead before has been worked off.  Without that a second booking, of a *)
(* tick that overlapped, meets the new date and sends one more.              *)
Drained ==
  \A l \in Lead :
    afterReply[l] > faults /\ DateComes(l) /\ lead[l].nextStepAt = "later" =>
      JobsOf(l) \intersect waiting = {} /\ recon.job \notin JobsOf(l)

\* A job that is queued, about to be, or given back by the processor.
Coming(j) ==
  \/ j \in waiting
  \/ \E t \in Tick : tick[t].pc \in {"add1", "add2"} /\ tick[t].job = j
  \/ worker.pc = "release" /\ worker.followUp /\ worker.job = j

\* The row names a job that is none of these: reconciliation may book it again.
Rebooks(l) == lead[l].queuedJobId # NoJob /\ ~Coming(lead[l].queuedJobId)

(* Until a mail after the reply is written down, what crossed it and what    *)
(* still may is paid for by the faults, save the execution that is heard.    *)
Crossing(l) == afterReply[l] + Cardinality(ToSend(l)) <= faults + One(Heard(l))

\* Once it is, the lead waits for its next date, and so does a lost booking.
Resting(l) ==
  /\ lead[l].nextStepAt # "now"
  /\ afterReply[l] + Cardinality(ToSend(l)) + One(AboutTo(l)) + One(Rebooks(l)) <= 1 + faults

\* Nobody has the lead, or will look for it.
LeftAlone(l) ==
  /\ lead[l].queuedJobId = NoJob
  /\ JobsOf(l) \intersect (waiting \union active) = {}
  /\ worker.job \notin JobsOf(l) /\ recon.job \notin JobsOf(l)
  /\ \A t \in Tick : tick[t].job \notin JobsOf(l) /\ \A p \in tick[t].todo : p[1] # l

\* When that date has come and the row named no job, it was the last.
Over(l) ==
  /\ afterReply[l] <= 1 + faults
  /\ \A f \in Flight : flight[f].job \notin JobsOf(l)
  /\ ~AboutTo(l)
  /\ lead[l].status = "CONTACTED" => LeftAlone(l)

Account(l) ==
  IF l \in replied
  THEN lead[l].stepsSent > 0 /\ (Crossing(l) \/ Resting(l) \/ Over(l))
  ELSE afterReply[l] = 0

Accounts == \A l \in Lead : Account(l)

\* Ticks and reconciliation are tidy, and rows name jobs of their own.
Tidy ==
  /\ \A t \in Tick : tick[t].pc = "idle" => tick[t] = IdleTick
  /\ recon.pc = "mark" => recon.job \in waiting /\ recon.job \in ahead
  /\ \A l \in Lead : OwnJob(l)

\* A write that moves no lead on to a follow-up.
Mild(r, row) == KeepsStep(r, row) /\ (r.status = "CONTACTED" => row.status = "CONTACTED")

LEMMA WritesAreMild ==
  ASSUME NEW row \in Row, NEW job \in JobId \union {NoJob}, NEW followUp \in BOOLEAN, NEW seen,
         NEW steps, NEW retries
  PROVE  /\ Mild(bookFollowUp(row, job), row) /\ Mild(bookFirstEmail(row, job), row)
         /\ Mild(releaseLead(row, followUp), row) /\ Mild(dispatchFailed(row, followUp, seen), row)
         /\ Mild(stopDeadAddress(row), row) /\ Mild(askAgainLater(row), row)
         /\ Mild(hardBounce(row), row) /\ Mild(endSequence(row), row)
         /\ Mild(suppressAtSend(row), row) /\ Mild(suppressEmail(row), row)
         /\ Mild(replyArrives(row), row) /\ Mild(bounceReported(row), row)
         /\ Mild(softFailure(row, steps, retries), row)
<1> USE DEF Mild, Unqueued, Row
<1>1. /\ Mild(bookFollowUp(row, job), row) /\ Mild(bookFirstEmail(row, job), row)
      /\ Mild(releaseLead(row, followUp), row) /\ Mild(dispatchFailed(row, followUp, seen), row)
  BY WritesKeepStep DEF bookFollowUp, bookFirstEmail, releaseLead, dispatchFailed
<1>2. /\ Mild(stopDeadAddress(row), row) /\ Mild(askAgainLater(row), row)
      /\ Mild(hardBounce(row), row) /\ Mild(endSequence(row), row)
  BY WritesKeepStep DEF stopDeadAddress, askAgainLater, hardBounce, endSequence
<1>3. /\ Mild(suppressAtSend(row), row) /\ Mild(suppressEmail(row), row)
      /\ Mild(replyArrives(row), row) /\ Mild(bounceReported(row), row)
  BY WritesKeepStep DEF suppressAtSend, suppressEmail, replyArrives, bounceReported
<1>4. Mild(softFailure(row, steps, retries), row)
  BY WritesKeepStep DEF softFailure
<1> QED
  BY <1>1, <1>2, <1>3, <1>4

\* A lead is named by a job of its own.
LEMMA OwnJobsStay ==
  ASSUME TypeOK, Tidy, NEW k \in Lead, NEW r, NEW j \in JobsOf(k) \union {NoJob},
         lead' = [lead EXCEPT ![k] = r], Renames(r, lead[k], j)
  PROVE  \A l \in Lead : OwnJob(l)'
BY DEF Tidy, OwnJob, Renames, TypeOK, DbOK

LEMMA TidyTicks ==
  ASSUME TypeOK, Tidy, NEW t \in Tick, TickStep(t)
  PROVE  Tidy'
<1>t. tick \in [Tick -> TickState]
  BY DEF TypeOK, TicksOK
<1>1. \A u \in Tick : tick'[u].pc = "idle" => tick'[u] = IdleTick
  <2>1. \A u \in Tick : u # t => tick'[u] = tick[u]
    BY <1>t DEF TickStep, TickStart, TickTakeSlot, TickSkip, TickMarkLead, TickAddJob,
       TickReadFirstEmails, TickEnd, TickFails
  <2>2. tick'[t].pc = "idle" => tick'[t] = IdleTick
    <3>1. CASE TickStart(t)
      BY <3>1, <1>t DEF TickStart
    <3>5. CASE \E l \in Lead, m \in Mailbox : TickTakeSlot(t, l, m)
      <4>1. tick'[t].pc \in {"mark1", "mark2"}
        BY <3>5, <1>t DEF TickTakeSlot
      <4> QED
        BY <4>1
    <3>2. CASE TickMarkLead(t) \/ TickReadFirstEmails(t)
      BY <3>2, <1>t DEF TickMarkLead, TickReadFirstEmails, TickState
    <3>4. CASE \E l \in Lead : TickSkip(t, l)
      <4>1. PICK l \in Lead : TickSkip(t, l)
        BY <3>4
      <4>2. tick'[t].pc = tick[t].pc /\ tick[t].pc # "idle"
        BY <4>1, <1>t DEF TickSkip, TickState
      <4> QED
        BY <4>2
    <3>3. CASE TickAddJob(t) \/ TickEnd(t) \/ TickFails(t)
      BY <3>3, <1>t DEF TickAddJob, TickEnd, TickFails, TickState
    <3> QED
      BY <3>1, <3>2, <3>3, <3>4, <3>5 DEF TickStep
  <2> QED
    BY <2>1, <2>2 DEF Tidy
<1>2. recon' = recon /\ waiting \subseteq waiting' /\ ahead \subseteq ahead'
  BY DEF TickStep, TickStart, TickTakeSlot, TickSkip, TickMarkLead, TickAddJob,
     TickReadFirstEmails, TickEnd, TickFails, bullVars, slotVars
<1>3. \A l \in Lead : OwnJob(l)'
  <2>1. CASE TickMarkLead(t)
    <3> DEFINE j == tick[t].job
               k == LeadOf(j)
    <3>1. k \in Lead /\ j \in JobsOf(k) /\ lead[k] \in Row
      BY <2>1, JobNames DEF TickMarkLead, TypeOK, TicksOK, DbOK
    <3>2. Renames(bookFollowUp(lead[k], j), lead[k], j) /\ Renames(bookFirstEmail(lead[k], j), lead[k], j)
      BY <3>1, WritesRename
    <3>3. \/ lead' = [lead EXCEPT ![k] = bookFollowUp(lead[k], j)]
          \/ lead' = [lead EXCEPT ![k] = bookFirstEmail(lead[k], j)]
      BY <2>1 DEF TickMarkLead
    <3> HIDE DEF j, k
    <3> QED
      BY <3>1, <3>2, <3>3, OwnJobsStay
  <2>2. CASE ~TickMarkLead(t)
    <3>1. UNCHANGED lead
      BY <2>2 DEF TickStep, TickStart, TickTakeSlot, TickSkip, TickAddJob, TickReadFirstEmails,
         TickEnd, TickFails, dbVars
    <3> QED
      BY <3>1 DEF Tidy, OwnJob
  <2> QED
    BY <2>1, <2>2
<1> QED
  BY <1>1, <1>2, <1>3 DEF Tidy

LEMMA TidyElse ==
  ASSUME ~Slow, TypeOK, Tidy, ReconStep \/ QueueStep \/ Crash \/ TimeStep \/ EnvStep
  PROVE  Tidy'
<1>r. lead \in [Lead -> Row]
  BY DEF TypeOK, DbOK
\* Ticks and reconciliation are as they were, and rows keep their names or have none.
<1>a. ASSUME UNCHANGED <<tick, recon>>, waiting \subseteq waiting',
             recon.job \in ahead => recon.job \in ahead',
             \A l \in Lead : Renames(lead'[l], lead[l], NoJob)
      PROVE  Tidy'
  BY <1>a DEF Tidy, OwnJob, Renames
<1>s. UNCHANGED lead => \A l \in Lead : Renames(lead'[l], lead[l], NoJob)
  BY DEF Renames
<1>1. CASE \E l \in Lead : ReconFind(l)
  <2>1. recon'.pc = "add" /\ UNCHANGED <<lead, tick>>
    BY <1>1 DEF ReconFind, dbVars
  <2> QED
    BY <2>1 DEF Tidy, OwnJob
<1>2. CASE ReconAdd
  <2>1. /\ UNCHANGED <<lead, tick>> /\ recon'.job = recon.job
        /\ waiting' = waiting \union {recon.job} /\ ahead' = ahead \union {recon.job}
    BY <1>2 DEF ReconAdd, dbVars, TypeOK, ReconOK, ReconState
  <2> QED
    BY <2>1 DEF Tidy, OwnJob
<1>3. CASE ReconMark
  <2> DEFINE k == LeadOf(recon.job)
  <2>1. k \in Lead /\ recon.job \in JobsOf(k) /\ lead[k] \in Row
    BY <1>3, JobNames DEF ReconMark, TypeOK, ReconOK, DbOK
  <2>2. Renames(bookFollowUp(lead[k], recon.job), lead[k], recon.job)
    BY <2>1, WritesRename
  <2>3. /\ lead' = [lead EXCEPT ![k] = bookFollowUp(lead[k], recon.job)]
        /\ recon'.pc = "idle" /\ UNCHANGED tick
    BY <1>3 DEF ReconMark, IdleRecon
  <2> HIDE DEF k
  <2>4. \A l \in Lead : OwnJob(l)'
    BY <2>1, <2>2, <2>3, OwnJobsStay
  <2> QED
    BY <2>3, <2>4 DEF Tidy
<1>4. CASE QueueStep
  <2>1. UNCHANGED <<lead, tick, recon, ahead>> /\ waiting \subseteq waiting'
    BY <1>4 DEF QueueStep, RecoverStalled, Prune, dbVars, slotVars
  <2> QED
    BY <2>1, <1>a, <1>s
<1>5. CASE Crash
  <2>1. UNCHANGED lead /\ recon'.pc = "idle" /\ \A t \in Tick : tick'[t] = IdleTick
    BY <1>5 DEF Crash, IdleRecon, dbVars
  <2> QED
    BY <2>1 DEF Tidy, OwnJob
<1>6. CASE \E j \in JobId : SlotComes(j)
  <2>1. PICK j \in JobId : SlotComes(j)
    BY <1>6
  <2>2. ahead' = ahead \ {j} /\ recon.job # j /\ UNCHANGED <<lead, tick, recon, waiting>>
    BY <2>1 DEF SlotComes, dbVars, bullVars
  <2> QED
    BY <2>2, <1>a, <1>s
<1>7. CASE \E l \in Lead : SlotOverdue(l) \/ DateComes(l)
  <2>1. PICK k \in Lead : SlotOverdue(k) \/ DateComes(k)
    BY <1>7
  <2>2. \A l \in Lead : lead'[l].queuedJobId = lead[l].queuedJobId
    BY <2>1, <1>r DEF SlotOverdue, DateComes, Row
  <2>3. UNCHANGED <<tick, recon, waiting, ahead>>
    BY <2>1 DEF SlotOverdue, DateComes, bullVars, slotVars
  <2> QED
    BY <2>2, <2>3, <1>a DEF Renames
<1>8. CASE EnvStep
  <2>1. UNCHANGED <<tick, recon, waiting, ahead>>
    BY <1>8 DEF EnvStep, CampaignOpens, MailboxToggles, OptOut, Unblock, ReplyStored, ReplyMarks,
       ReplyMarkLost, BounceReport, bullVars, slotVars
  <2>2. \A l \in Lead : \/ lead'[l] \in {lead[l], suppressEmail(lead[l])}
                        \/ lead'[l] \in {replyArrives(lead[l]), bounceReported(lead[l])}
    BY <1>8, <1>r DEF EnvStep, CampaignOpens, MailboxToggles, OptOut, Unblock, ReplyStored,
       ReplyMarks, ReplyMarkLost, BounceReport, dbVars
  <2>3. \A l \in Lead : Renames(lead'[l], lead[l], NoJob)
    <3> SUFFICES ASSUME NEW l \in Lead PROVE Renames(lead'[l], lead[l], NoJob)
      OBVIOUS
    <3>1. lead[l] \in Row
      BY <1>r
    <3> QED
      BY <2>2, <3>1, WritesRename DEF Renames
  <2> QED
    BY <2>1, <2>3, <1>a
<1> QED
  BY <1>1, <1>2, <1>3, <1>4, <1>5, <1>6, <1>7, <1>8 DEF ReconStep, TimeStep

LEMMA TidyWork ==
  ASSUME TypeOK, Tidy, WorkerStep \/ \E f \in Flight : FlightStep(f)
  PROVE  Tidy'
<1>r. lead \in [Lead -> Row]
  BY DEF TypeOK, DbOK
<1>1. UNCHANGED <<tick, recon, ahead>>
  <2>1. CASE WorkerStep
    BY <2>1 DEF WorkerStep, TakeJob, WorkerReleases, WorkerStopsDeadAddress, WorkerAsksAgainLater,
       WorkerDispatches, WorkerAnswered, WorkerWritesFailure, WorkerFetchRejects, WorkerFinishes,
       slotVars
  <2>2. CASE \E f \in Flight : FlightStep(f)
    BY <2>2 DEF FlightStep, Compose, SendRefused, SendSuppressed, SendCleared, SmtpAccepts,
       SmtpRefuses, RecordFailure, RecordRead, RecordWrite, RecordFails, RecordLost, ApiDies,
       FlightEnds, slotVars
  <2> QED
    BY <2>1, <2>2
<1>2. \A j \in ahead : j \in waiting => j \in waiting'
  <2>1. CASE WorkerStep
    BY <2>1 DEF WorkerStep, TakeJob, WorkerReleases, WorkerStopsDeadAddress, WorkerAsksAgainLater,
       WorkerDispatches, WorkerAnswered, WorkerWritesFailure, WorkerFetchRejects, WorkerFinishes,
       bullVars
  <2>2. CASE \E f \in Flight : FlightStep(f)
    BY <2>2 DEF FlightStep, Compose, SendRefused, SendSuppressed, SendCleared, SmtpAccepts,
       SmtpRefuses, RecordFailure, RecordRead, RecordWrite, RecordFails, RecordLost, ApiDies,
       FlightEnds, bullVars
  <2> QED
    BY <2>1, <2>2
<1>3. \A l \in Lead : OwnJob(l)'
  <2>1. CASE UNCHANGED lead
    BY <2>1 DEF Tidy, OwnJob
  <2>w. ASSUME NEW k \in Lead, NEW row, lead' = [lead EXCEPT ![k] = row],
               Renames(row, lead[k], NoJob)
        PROVE  \A l \in Lead : OwnJob(l)'
    BY <2>w, OwnJobsStay
  <2>2. CASE WorkerReleases \/ WorkerStopsDeadAddress \/ WorkerAsksAgainLater \/ WorkerWritesFailure
    <3>1. worker.pc # "idle" /\ LeadOf(worker.job) \in Lead /\ lead[LeadOf(worker.job)] \in Row
      BY <2>2, <1>r, JobNames DEF WorkerReleases, WorkerStopsDeadAddress, WorkerAsksAgainLater,
         WorkerWritesFailure, TypeOK, WorkerOK
    <3>2. PICK row : lead' = [lead EXCEPT ![LeadOf(worker.job)] = row]
                     /\ Renames(row, lead[LeadOf(worker.job)], NoJob)
      BY <2>2, <3>1, WritesRename DEF WorkerReleases, WorkerStopsDeadAddress,
         WorkerAsksAgainLater, WorkerWritesFailure, WorkerWrites
    <3> QED
      BY <3>1, <3>2, <2>w
  <2>3. CASE \E f \in Flight : FlightStep(f)
    <3>1. PICK f \in Flight : FlightStep(f)
      BY <2>3
    <3>2. flight[f].pc # "idle"
      BY <3>1 DEF FlightStep, Compose, SendRefused, SendSuppressed, SendCleared, SmtpAccepts,
         SmtpRefuses, RecordFailure, RecordRead, RecordWrite, RecordFails, RecordLost, ApiDies,
         FlightEnds
    <3>3. FlightLead(f) \in Lead /\ lead[FlightLead(f)] \in Row
      BY <3>2, FlightLeads
    <3>4. \/ UNCHANGED lead
          \/ \E row : lead' = [lead EXCEPT ![FlightLead(f)] = row]
                      /\ Renames(row, lead[FlightLead(f)], NoJob)
      BY <3>1, <3>3, WritesRename DEF FlightStep, Compose, SendRefused, SendSuppressed,
         SendCleared, SmtpAccepts, SmtpRefuses, RecordFailure, RecordRead, RecordWrite,
         RecordFails, RecordLost, ApiDies, FlightEnds, dbVars
    <3> QED
      BY <3>3, <3>4, <2>1, <2>w
  <2>4. CASE WorkerStep /\ ~(WorkerReleases \/ WorkerStopsDeadAddress \/ WorkerAsksAgainLater
                             \/ WorkerWritesFailure)
    BY <2>1, <2>4 DEF WorkerStep, TakeJob, WorkerDispatches, WorkerAnswered, WorkerFetchRejects,
       WorkerFinishes, dbVars
  <2> QED
    BY <2>2, <2>3, <2>4
<1> QED
  BY <1>1, <1>2, <1>3 DEF Tidy

LEMMA NextTidy ==
  ASSUME ~Slow, TypeOK, Tidy, [Next]_vars
  PROVE  Tidy'
<1>1. CASE UNCHANGED vars
  BY <1>1 DEF vars, dbVars, bullVars, slotVars, Tidy, OwnJob
<1> QED
  BY <1>1, TidyTicks, TidyWork, TidyElse DEF Next

-----------------------------------------------------------------------------
\* Nothing happened to lead l that its account would notice.
Undisturbed(l) ==
  /\ Mild(lead'[l], lead[l])
  /\ (l \in replied' <=> l \in replied) /\ afterReply'[l] = afterReply[l]
  /\ AboutTo(l)' => AboutTo(l)
  /\ l \in replied /\ Rebooks(l)' => Rebooks(l) \/ faults' = faults + 1
  /\ l \in replied /\ lead[l].status = "CONTACTED" /\ LeftAlone(l) => LeftAlone(l)'

\* Nor did its executions, save that one may be heard no more for a fault.
Unmoved(l) ==
  /\ ToSend(l)' = ToSend(l)
  /\ Heard(l) => Heard(l)' \/ faults' = faults + 1
  /\ \A f \in Flight : flight'[f].job \in JobsOf(l) => flight[f].job \in JobsOf(l)

LEMMA AccountTypes ==
  ASSUME TypeOK, NEW l \in Lead
  PROVE  afterReply[l] \in Nat /\ One(Rebooks(l)) \in 0..1 /\ One(Rebooks(l)') \in 0..1
BY DEF TypeOK, HistoryOK, One

LEMMA AccountStays ==
  ASSUME TypeOK, NEW l \in Lead, Account(l), Undisturbed(l), Unmoved(l),
         faults' = faults \/ faults' = faults + 1
  PROVE  Account(l)'
<1>1. CASE l \notin replied
  BY <1>1 DEF Account, Undisturbed
<1>2. CASE l \in replied
  <2>1. /\ ToSend(l)' = ToSend(l) /\ One(Heard(l)') \in 0..1
        /\ One(Heard(l)) <= One(Heard(l)') \/ faults' = faults + 1
    BY DEF Unmoved, One
  <2>2. /\ l \in replied' /\ lead[l].stepsSent > 0 /\ afterReply'[l] = afterReply[l]
        /\ lead'[l].stepsSent = lead[l].stepsSent
        /\ lead'[l].nextStepAt = "now" => lead[l].nextStepAt = "now"
    BY <1>2 DEF Account, Undisturbed, Mild, KeepsStep
  <2>3. CASE Crossing(l)
    <3>1. Crossing(l)'
      BY <2>1, <2>2, <2>3, Counts, AccountTypes DEF Crossing
    <3> QED
      BY <2>2, <3>1 DEF Account
  <2>4. CASE Resting(l)
    <3>1. One(AboutTo(l)') <= One(AboutTo(l)) /\ One(AboutTo(l)') \in 0..1
      BY DEF Undisturbed, One
    <3>2. One(Rebooks(l)') <= One(Rebooks(l)) \/ faults' = faults + 1
      BY <1>2 DEF Undisturbed, One
    <3>3. Resting(l)'
      BY <2>1, <2>2, <2>4, <3>1, <3>2, Counts, AccountTypes DEF Resting
    <3> QED
      BY <2>2, <3>3 DEF Account
  <2>5. CASE Over(l)
    <3>1. \A f \in Flight : flight'[f].job \notin JobsOf(l)
      BY <2>5 DEF Over, Unmoved
    <3>2. lead'[l].status = "CONTACTED" => LeftAlone(l)'
      BY <1>2, <2>5 DEF Over, Undisturbed, Mild
    <3>3. Over(l)'
      BY <2>2, <2>5, <3>1, <3>2, Counts, AccountTypes DEF Over, Undisturbed
    <3> QED
      BY <2>2, <3>3 DEF Account
  <2> QED
    BY <1>2, <2>3, <2>4, <2>5 DEF Account
<1> QED
  BY <1>1, <1>2

LEMMA SameUnmoved ==
  ASSUME NEW l \in Lead, SameFor(l)
  PROVE  Unmoved(l)
BY SameInflight DEF Unmoved, ToSend, SameFor

LEMMA NobodyDisturbed ==
  ASSUME TypeOK, Accounts, faults' = faults \/ faults' = faults + 1,
         \A l \in Lead : Unmoved(l) /\ (l \in replied \/ l \in replied' => Undisturbed(l)),
         \A l \in Lead : afterReply'[l] = afterReply[l]
  PROVE  Accounts'
<1> SUFFICES ASSUME NEW l \in Lead PROVE Account(l)'
  BY DEF Accounts
<1>1. CASE l \in replied \/ l \in replied'
  BY <1>1, AccountStays DEF Accounts
<1>2. CASE l \notin replied /\ l \notin replied'
  BY <1>2 DEF Accounts, Account
<1> QED
  BY <1>1, <1>2

\* Neither queue nor booking changed, and a row kept its name or lost it.
LEMMA NobodyComes ==
  ASSUME UNCHANGED <<waiting, active, tick, worker, recon>>, NEW l \in Lead,
         Renames(lead'[l], lead[l], NoJob)
  PROVE  /\ Rebooks(l)' => Rebooks(l)
         /\ LeftAlone(l) => LeftAlone(l)'
         /\ AboutTo(l)' = AboutTo(l)
<1>1. \A j : Coming(j)' = Coming(j)
  BY DEF Coming
<1>2. Rebooks(l)' => Rebooks(l)
  BY <1>1 DEF Rebooks, Renames
<1>3. LeftAlone(l) => LeftAlone(l)'
  BY DEF LeftAlone, Renames
<1> QED
  BY <1>2, <1>3 DEF AboutTo

(* An execution of lead k moved: a mail that left was one that might, and    *)
(* one that stopped with nothing to write down, or with a fault, counts no   *)
(* more.                                                                     *)
LEMMA AccountMoves ==
  ASSUME TypeOK, Accounts, NEW k \in Lead, NEW f \in Flight, NEW r, Moves(f, r, k),
         r.job = flight[f].job \/ r.job = NoJob,
         UNCHANGED <<waiting, active, tick, worker, recon, replied>>,
         \A l \in Lead : Mild(lead'[l], lead[l]) /\ Renames(lead'[l], lead[l], NoJob),
         \A l \in Lead : l # k \/ l \notin replied => afterReply'[l] = afterReply[l],
         faults' = faults \/ faults' = faults + 1, afterReply'[k] \in Nat,
         r.pc \in Unsent \union Unwritten => flight[f].pc \in Unsent \union Unwritten,
         afterReply'[k] + One(r.pc \in Unsent) <= afterReply[k] + One(flight[f].pc \in Unsent),
         Left(f, r) => afterReply'[k] + One(r.pc \in Unsent) + 1
                         <= afterReply[k] + One(flight[f].pc \in Unsent) + (faults' - faults)
  PROVE  Accounts'
<1> SUFFICES ASSUME NEW l \in Lead PROVE Account(l)'
  BY DEF Accounts
<1> FlightsOK
  BY DEF TypeOK
<1>1. CASE l # k
  <2>1. SameFor(l)
    BY <1>1, OthersStay DEF Moves
  <2>2. Undisturbed(l)
    BY <1>1, NobodyComes DEF Undisturbed
  <2> QED
    BY <2>1, <2>2, AccountStays, SameUnmoved DEF Accounts
<1>2. CASE l = k /\ l \notin replied
  BY <1>2 DEF Accounts, Account
<1>3. CASE l = k /\ l \in replied
  <2> DEFINE x == One(r.pc \in Unsent)
             y == One(flight[f].pc \in Unsent)
             a == afterReply[l]
             b == afterReply'[l]
             m == Cardinality(ToSend(l))
             n == Cardinality(ToSend(l)')
             h == One(Heard(l))
             i == One(Heard(l)')
  <2>1. n = m + x - y /\ n \in Nat
    BY <1>3, CardMoves DEF ToSend, Unsent
  <2>2. /\ x \in 0..1 /\ y \in 0..1 /\ h \in 0..1 /\ i \in 0..1 /\ m \in Nat
        /\ a \in Nat /\ b \in Nat /\ faults \in Nat
    BY <1>3, Counts, AccountTypes DEF One
  <2>3. b + x <= a + y /\ (Left(f, r) => b + x + 1 <= a + y + (faults' - faults))
    BY <1>3
  <2>4. Left(f, r) \/ i = h
    BY <1>3, HeardMoves DEF Left
  <2>5. /\ lead[l].stepsSent > 0 /\ lead'[l].stepsSent = lead[l].stepsSent
        /\ lead'[l].nextStepAt = "now" => lead[l].nextStepAt = "now"
    BY <1>3 DEF Accounts, Account, Mild, KeepsStep
  <2>6. CASE Crossing(l)
    <3>1. a + m <= faults + h
      BY <2>6 DEF Crossing
    <3> HIDE DEF x, y, a, b, m, n, h, i
    <3>2. b + n <= faults' + i
      <4>1. CASE Left(f, r)
        BY <2>1, <2>2, <2>3, <3>1, <4>1
      <4>2. CASE i = h
        BY <2>1, <2>2, <2>3, <3>1, <4>2
      <4> QED
        BY <2>4, <4>1, <4>2
    <3>3. Crossing(l)'
      BY <3>2 DEF Crossing, b, n, i
    <3> QED
      BY <1>3, <2>5, <3>3 DEF Account
  <2>7. CASE Resting(l)
    <3> DEFINE o == One(AboutTo(l))
               p == One(AboutTo(l)')
               u == One(Rebooks(l))
               v == One(Rebooks(l)')
    <3>1. p = o /\ v <= u /\ p \in 0..1 /\ u \in 0..1 /\ v \in 0..1
      BY NobodyComes DEF One
    <3>2. a + m + o + u <= 1 + faults
      BY <2>7 DEF Resting
    <3> HIDE DEF x, y, a, b, m, n, o, p, u, v
    <3>3. b + n + p + v <= 1 + faults'
      BY <2>1, <2>2, <2>3, <3>1, <3>2
    <3>4. Resting(l)'
      BY <2>5, <2>7, <3>3 DEF Resting, b, n, p, v
    <3> QED
      BY <1>3, <2>5, <3>4 DEF Account
  <2>8. ~Over(l)
    BY <1>3 DEF Over, Moves
  <2> QED
    BY <1>3, <2>6, <2>7, <2>8 DEF Accounts, Account
<1> QED
  BY <1>1, <1>2, <1>3

\* A mail is written down: its lead waits for the next date, and names no job.
LEMMA AccountWritten ==
  ASSUME TypeOK, Accounts, OneListener, NEW f \in Flight, RecordWrite(f)
  PROVE  Accounts'
<1> DEFINE k == FlightLead(f)
           row == recordSent(lead[k], flight[f].stepsRead, flight[f].followUp,
                             MailboxOf(flight[f].job))
<1>1. /\ flight[f].pc = "record" /\ FlightTo(f, "ok") /\ lead' = [lead EXCEPT ![k] = row]
      /\ UNCHANGED <<worker, faults, afterReply, waiting, active, tick, recon, replied>>
  BY DEF RecordWrite, history, bullVars
<1>2. /\ k \in Lead /\ flight[f].job \in JobsOf(k) /\ lead[k] \in Row
      /\ flight[f] \in FlightState /\ MailboxOf(flight[f].job) \in Mailbox
  BY <1>1, FlightLeads
<1>3. PICK r : Moves(f, r, k) /\ r.pc = "ok" /\ r.job = flight[f].job
  BY <1>1, PcMove
<1>4. row.stepsSent > 0 /\ row.nextStepAt # "now" /\ row.queuedJobId = NoJob
  <2>1. row.stepsSent = flight[f].stepsRead + 1 /\ row.nextStepAt # "now"
    BY <1>2, SentIsCounted DEF FlightState
  <2>2. row.queuedJobId = NoJob
    BY <1>2 DEF recordSent, Unqueued, Row
  <2> QED
    BY <1>2, <2>1, <2>2 DEF FlightState
<1> HIDE DEF k, row
<1> SUFFICES ASSUME NEW l \in Lead PROVE Account(l)'
  BY DEF Accounts
<1> FlightsOK
  BY DEF TypeOK
<1>5. CASE l # k
  <2>1. SameFor(l)
    BY <1>2, <1>3, <1>5, OthersStay DEF Moves
  <2>2. lead'[l] = lead[l]
    BY <1>1, <1>5 DEF TypeOK, DbOK
  <2>3. Undisturbed(l)
    BY <1>1, <2>2, NobodyComes DEF Undisturbed, Renames, Mild, KeepsStep
  <2> QED
    BY <1>1, <2>1, <2>3, AccountStays, SameUnmoved DEF Accounts
<1>6. CASE l = k /\ l \notin replied
  BY <1>1, <1>6 DEF Accounts, Account
<1>7. CASE l = k /\ l \in replied
  <2>1. lead'[l] = row
    BY <1>1, <1>7 DEF TypeOK, DbOK
  <2>2. Cardinality(ToSend(l)') = Cardinality(ToSend(l))
    <3>1. Cardinality(ToSend(l)') =
            Cardinality(ToSend(l)) + One(r.pc \in Unsent) - One(flight[f].pc \in Unsent)
      BY <1>3, <1>7, CardMoves DEF ToSend, Unsent
    <3>2. One(r.pc \in Unsent) = 0 /\ One(flight[f].pc \in Unsent) = 0
      BY <1>1, <1>3 DEF One, Unsent
    <3> QED
      BY <3>1, <3>2, Counts
  <2>3. One(AboutTo(l)') = One(AboutTo(l)) /\ One(Rebooks(l)') = 0
    BY <1>1, <1>4, <2>1 DEF One, AboutTo, Rebooks
  <2>4. One(Heard(l)) + One(AboutTo(l)) <= 1
    <3>1. ~(Heard(l) /\ AboutTo(l))
      BY DEF Heard, AboutTo, OneListener, ToSend, Sent, Inflight
    <3> QED
      BY <3>1 DEF One
  <2>5. ~Over(l)
    BY <1>2, <1>7 DEF Over
  <2>6. afterReply[l] + Cardinality(ToSend(l)) + One(AboutTo(l)) <= 1 + faults
    <3>1. CASE Crossing(l)
      BY <2>4, <3>1, Counts, AccountTypes DEF Crossing
    <3>2. CASE Resting(l)
      BY <3>2, Counts, AccountTypes DEF Resting
    <3> QED
      BY <1>7, <2>5, <3>1, <3>2 DEF Accounts, Account
  <2>7. Resting(l)'
    BY <1>1, <1>4, <2>1, <2>2, <2>3, <2>6, Counts, AccountTypes DEF Resting
  <2> QED
    BY <1>1, <1>4, <1>7, <2>1, <2>7 DEF Account
<1> QED
  BY <1>5, <1>6, <1>7

\* An execution that mails nothing and counts nothing.
LEMMA AccountQuiet ==
  ASSUME TypeOK, Accounts, NEW k \in Lead, NEW f \in Flight, NEW r, Moves(f, r, k),
         r.job = flight[f].job \/ r.job = NoJob,
         UNCHANGED <<waiting, active, tick, worker, recon, replied, afterReply>>,
         \A l \in Lead : Mild(lead'[l], lead[l]) /\ Renames(lead'[l], lead[l], NoJob),
         \/ /\ faults' = faults
            /\ \/ flight[f].pc \in Unsent /\ r.pc \in Unsent
               \/ flight[f].pc \in Unwritten /\ r.pc \in Unwritten
               \/ flight[f].pc \notin Unwritten /\ r.pc \notin Unsent \union Unwritten
         \/ faults' = faults + 1 /\ r.pc \notin Unsent \union Unwritten
  PROVE  Accounts'
<1> DEFINE x == One(r.pc \in Unsent)
           y == One(flight[f].pc \in Unsent)
<1>1. /\ x <= y /\ x \in 0..1 /\ y \in 0..1
      /\ r.pc \in Unsent \union Unwritten => flight[f].pc \in Unsent \union Unwritten
      /\ Left(f, r) => x + 1 <= y + (faults' - faults)
  BY Counts DEF One, Unsent, Unwritten, Left
<1> HIDE DEF x, y
<1>2. afterReply[k] \in Nat /\ faults \in Nat /\ afterReply'[k] = afterReply[k]
  BY AccountTypes, Counts
<1>3. afterReply'[k] + x <= afterReply[k] + y
  BY <1>1, <1>2
<1>4. Left(f, r) => afterReply'[k] + x + 1 <= afterReply[k] + y + (faults' - faults)
  BY <1>1, <1>2
<1>5. afterReply'[k] \in Nat /\ \A l \in Lead : afterReply'[l] = afterReply[l]
  BY <1>2
<1>6. faults' = faults \/ faults' = faults + 1
  OBVIOUS
<1> QED
  BY <1>1, <1>3, <1>4, <1>5, <1>6, AccountMoves DEF x, y

\* A mail that leaves was one that might.
LEMMA AccountMails ==
  ASSUME TypeOK, Accounts, NEW f \in Flight, SmtpAccepts(f)
  PROVE  Accounts'
<1> DEFINE k == FlightLead(f)
<1>1. /\ flight[f].pc = "smtp" /\ FlightTo(f, "sent")
      /\ afterReply' = [afterReply EXCEPT ![k] = IF k \in replied THEN @ + 1 ELSE @]
      /\ UNCHANGED <<lead, waiting, active, tick, worker, recon, replied, faults>>
  BY DEF SmtpAccepts, dbVars, bullVars
<1>2. k \in Lead
  BY <1>1, FlightLeads
<1>3. PICK r : Moves(f, r, k) /\ r.pc = "sent" /\ r.job = flight[f].job
  BY <1>1, PcMove
<1>4. afterReply \in [Lead -> Nat]
  BY DEF TypeOK, HistoryOK
<1> HIDE DEF k
<1>5. /\ \A l \in Lead : l # k \/ l \notin replied => afterReply'[l] = afterReply[l]
      /\ afterReply'[k] \in Nat /\ afterReply'[k] <= afterReply[k] + 1
  BY <1>1, <1>2, <1>4
<1>6. /\ One(r.pc \in Unsent) = 0 /\ One(flight[f].pc \in Unsent) = 1 /\ ~Left(f, r)
      /\ flight[f].pc \in Unsent \union Unwritten
  BY <1>1, <1>3 DEF One, Unsent, Unwritten, Left
<1>7. \A l \in Lead : Mild(lead'[l], lead[l]) /\ Renames(lead'[l], lead[l], NoJob)
  BY <1>1 DEF Mild, KeepsStep, Renames
<1>8. afterReply'[k] + One(r.pc \in Unsent) <= afterReply[k] + One(flight[f].pc \in Unsent)
  BY <1>2, <1>4, <1>5, <1>6
<1> QED
  BY <1>1, <1>2, <1>3, <1>5, <1>6, <1>7, <1>8, AccountMoves

LEMMA AccountFlight ==
  ASSUME TypeOK, OneListener, Accounts, NEW f \in Flight, FlightStep(f)
  PROVE  Accounts'
<1> DEFINE k == FlightLead(f)
<1>s. UNCHANGED lead => \A l \in Lead : Mild(lead'[l], lead[l]) /\ Renames(lead'[l], lead[l], NoJob)
  BY DEF Mild, KeepsStep, Renames
<1>a. ASSUME flight[f].pc # "idle", NEW pc \in {"send", "refused", "ok", "failed"}, FlightTo(f, pc),
             \A l \in Lead : Mild(lead'[l], lead[l]) /\ Renames(lead'[l], lead[l], NoJob),
             UNCHANGED <<waiting, active, tick, worker, recon, replied, afterReply>>,
             pc = "send" => flight[f].pc = "compose",
             \/ faults' = faults /\ flight[f].pc \notin Unwritten
             \/ faults' = faults + 1 /\ pc # "send"
      PROVE  Accounts'
  <2>1. PICK r : Moves(f, r, k) /\ r.pc = pc /\ r.job = flight[f].job
    BY <1>a, PcMove
  <2>2. k \in Lead
    BY <1>a, FlightLeads
  <2> HIDE DEF k
  <2>3. \/ /\ faults' = faults
           /\ \/ flight[f].pc \in Unsent /\ r.pc \in Unsent
              \/ flight[f].pc \notin Unwritten /\ r.pc \notin Unsent \union Unwritten
        \/ faults' = faults + 1 /\ r.pc \notin Unsent \union Unwritten
    BY <1>a, <2>1 DEF Unsent, Unwritten
  <2> QED
    BY <1>a, <2>1, <2>2, <2>3, AccountQuiet
<1>b. ASSUME flight[f].pc \in {"smtp", "sent"}, ReadFailed(f),
             UNCHANGED <<lead, waiting, active, tick, worker, recon, replied, afterReply>>,
             \/ faults' = faults /\ flight[f].pc = "smtp"
             \/ faults' = faults + 1
      PROVE  Accounts'
  <2> DEFINE r == [flight[f] EXCEPT !.pc = "refused", !.stepsRead = lead[k].stepsSent,
                                    !.retriesRead = lead[k].retryCount]
  <2>1. /\ k \in Lead /\ flight[f].job \in JobsOf(k) /\ flight[f] \in FlightState
        /\ lead[k] \in Row
    BY <1>b, FlightLeads
  <2>2. /\ r \in FlightState /\ r.pc = "refused" /\ r.job = flight[f].job
        /\ r.awaited = flight[f].awaited /\ flight' = [flight EXCEPT ![f] = r]
    BY <1>b, <2>1 DEF ReadFailed, FlightState, Row
  <2> HIDE DEF k, r
  <2>3. Moves(f, r, k)
    BY <2>1, <2>2 DEF Moves
  <2>4. \/ faults' = faults /\ flight[f].pc \notin Unwritten /\ r.pc \notin Unsent \union Unwritten
        \/ faults' = faults + 1 /\ r.pc \notin Unsent \union Unwritten
    BY <1>b, <2>2 DEF Unsent, Unwritten
  <2> QED
    BY <1>b, <1>s, <2>1, <2>2, <2>3, <2>4, AccountQuiet
<1>w. ASSUME flight[f].pc # "idle", NEW row, lead' = [lead EXCEPT ![k] = row],
             Mild(row, lead[k]), Renames(row, lead[k], NoJob)
      PROVE  \A l \in Lead : Mild(lead'[l], lead[l]) /\ Renames(lead'[l], lead[l], NoJob)
  <2>1. k \in Lead /\ lead \in [Lead -> Row]
    BY <1>w, FlightLeads DEF TypeOK, DbOK
  <2> HIDE DEF k
  <2> QED
    BY <1>w, <2>1 DEF Mild, KeepsStep, Renames
<1>r. /\ flight[f].pc # "idle" => lead[k] \in Row
      /\ flight[f].stepsRead \in Nat /\ flight[f].retriesRead \in Nat
  BY FlightLeads DEF TypeOK, FlightsOK, FlightState
<1>1. CASE Compose(f)
  <2>1. CASE lead[k].stepsSent > FollowUps
    <3>1. Mild(endSequence(lead[k]), lead[k]) /\ Renames(endSequence(lead[k]), lead[k], NoJob)
      BY <1>1, <1>r, WritesAreMild, WritesRename DEF Compose
    <3> QED
      BY <1>1, <2>1, <3>1, <1>a, <1>w DEF Compose, history, bullVars, Unwritten
  <2>2. CASE ~(lead[k].stepsSent > FollowUps)
    BY <1>1, <2>2, <1>a, <1>s DEF Compose, history, bullVars, Unwritten
  <2> QED
    BY <2>1, <2>2
<1>2. CASE SendRefused(f)
  BY <1>2, <1>a, <1>s DEF SendRefused, history, dbVars, bullVars, Unwritten
<1>3. CASE SendSuppressed(f)
  <2>1. Mild(suppressAtSend(lead[k]), lead[k]) /\ Renames(suppressAtSend(lead[k]), lead[k], NoJob)
    BY <1>3, <1>r, WritesAreMild, WritesRename DEF SendSuppressed
  <2> QED
    BY <1>3, <2>1, <1>a, <1>w DEF SendSuppressed, history, bullVars, Unwritten
<1>4. CASE SendCleared(f)
  <2> DEFINE r == [flight[f] EXCEPT !.pc = "smtp", !.followUp = lead[k].stepsSent > 0]
  <2>1. /\ k \in Lead /\ flight[f].job \in JobsOf(k) /\ flight[f] \in FlightState
        /\ flight[f].pc = "send"
        /\ UNCHANGED <<lead, waiting, active, tick, worker, recon, replied, afterReply, faults>>
    BY <1>4, FlightLeads DEF SendCleared, dbVars, bullVars, history
  <2>2. /\ r \in FlightState /\ r.pc = "smtp" /\ r.job = flight[f].job
        /\ r.awaited = flight[f].awaited /\ flight' = [flight EXCEPT ![f] = r]
    <3>1. (lead[k].stepsSent > 0) \in BOOLEAN
      OBVIOUS
    <3>2. flight' = [flight EXCEPT ![f] = r]
      BY <1>4, Zenon DEF SendCleared
    <3> QED
      BY <2>1, <3>1, <3>2 DEF FlightState
  <2> HIDE DEF k, r
  <2>3. Moves(f, r, k) /\ flight[f].pc \in Unsent /\ r.pc \in Unsent
    BY <2>1, <2>2 DEF Moves, Unsent
  <2> QED
    BY <1>s, <2>1, <2>2, <2>3, AccountQuiet
<1>5. CASE SmtpAccepts(f)
  BY <1>5, AccountMails
<1>6. CASE SmtpRefuses(f)
  <2>1. Mild(hardBounce(lead[k]), lead[k]) /\ Renames(hardBounce(lead[k]), lead[k], NoJob)
    BY <1>6, <1>r, WritesAreMild, WritesRename DEF SmtpRefuses
  <2>2. CASE lead' = [lead EXCEPT ![k] = hardBounce(@)] /\ FlightTo(f, "failed")
    BY <1>6, <2>1, <2>2, <1>a, <1>w DEF SmtpRefuses, history, bullVars, Unwritten
  <2>3. CASE UNCHANGED lead /\ ReadFailed(f)
    BY <1>6, <2>3, <1>b DEF SmtpRefuses, history, bullVars
  <2> QED
    BY <1>6, <2>2, <2>3 DEF SmtpRefuses
<1>7. CASE RecordFailure(f)
  <2> DEFINE row == softFailure(lead[k], flight[f].stepsRead, flight[f].retriesRead)
  <2>1. Mild(row, lead[k]) /\ Renames(row, lead[k], NoJob)
    BY <1>7, <1>r, WritesAreMild, WritesRename DEF RecordFailure
  <2> QED
    BY <1>7, <2>1, <1>a, <1>w DEF RecordFailure, history, bullVars, Unwritten
<1>8. CASE RecordRead(f)
  <2> DEFINE r == [flight[f] EXCEPT !.pc = "record", !.stepsRead = lead[k].stepsSent]
  <2>1. /\ k \in Lead /\ flight[f].job \in JobsOf(k) /\ flight[f] \in FlightState /\ lead[k] \in Row
        /\ flight[f].pc = "sent"
        /\ UNCHANGED <<lead, waiting, active, tick, worker, recon, replied, afterReply, faults>>
    BY <1>8, FlightLeads DEF RecordRead, dbVars, bullVars, history
  <2>2. /\ r \in FlightState /\ r.pc = "record" /\ r.job = flight[f].job
        /\ r.awaited = flight[f].awaited /\ flight' = [flight EXCEPT ![f] = r]
    BY <1>8, <2>1 DEF RecordRead, FlightState, Row
  <2> HIDE DEF k, r
  <2>3. Moves(f, r, k) /\ flight[f].pc \in Unwritten /\ r.pc \in Unwritten
    BY <2>1, <2>2 DEF Moves, Unwritten
  <2> QED
    BY <1>s, <2>1, <2>2, <2>3, AccountQuiet
<1>9. CASE RecordWrite(f)
  BY <1>9, AccountWritten
<1>10. CASE RecordFails(f)
  BY <1>10, <1>b DEF RecordFails, Fault, history, dbVars, bullVars
<1>11. CASE RecordLost(f) \/ ApiDies(f)
  BY <1>11, <1>a, <1>s DEF RecordLost, ApiDies, Fault, history, dbVars, bullVars
<1>12. CASE FlightEnds(f)
  <2>1. /\ k \in Lead /\ flight[f].job \in JobsOf(k)
        /\ UNCHANGED <<lead, waiting, active, tick, worker, recon, replied, afterReply, faults>>
    BY <1>12, FlightLeads DEF FlightEnds, dbVars, bullVars, history
  <2>2. IdleFlight \in FlightState /\ IdleFlight.pc = "idle" /\ IdleFlight.job = NoJob
    BY DEF IdleFlight, FlightState, Job
  <2> HIDE DEF k
  <2>3. Moves(f, IdleFlight, k)
    BY <1>12, <2>1, <2>2 DEF Moves, FlightEnds
  <2>4. flight[f].pc \notin Unwritten /\ IdleFlight.pc \notin Unsent \union Unwritten
    BY <1>12, <2>2 DEF FlightEnds, Unsent, Unwritten
  <2> QED
    BY <1>s, <2>1, <2>2, <2>3, <2>4, AccountQuiet
<1> QED
  BY <1>1, <1>2, <1>3, <1>4, <1>5, <1>6, <1>7, <1>8, <1>9, <1>10, <1>11, <1>12 DEF FlightStep

-----------------------------------------------------------------------------
(* The processor.                                                           *)

\* A job ends with a write, and whoever it was given back for loses its name.
LEMMA AccountWrites ==
  ASSUME TypeOK, Tidy, Accounts, worker.pc \in {"release", "ready", "failed"}, NEW row,
         WorkerWrites(row), Mild(row, lead[LeadOf(worker.job)]),
         Renames(row, lead[LeadOf(worker.job)], NoJob),
         worker.pc = "release" /\ worker.followUp => row.queuedJobId = NoJob,
         UNCHANGED <<flight, faults, history, bullVars, tick, recon>>
  PROVE  Accounts'
<1> DEFINE k == LeadOf(worker.job)
<1>1. /\ k \in Lead /\ lead' = [lead EXCEPT ![k] = row] /\ lead \in [Lead -> Row]
      /\ worker'.pc = "finish" /\ worker'.job = worker.job
  BY JobNames DEF TypeOK, WorkerOK, WorkerState, DbOK, WorkerWrites
<1>2. UNCHANGED <<flight, faults, afterReply, waiting, active, tick, recon, replied>>
  BY DEF history, bullVars, WorkerWrites
<1>3. \A j : LeadOf(j) # k \/ ~(worker.pc = "release" /\ worker.followUp) => (Coming(j) => Coming(j)')
  BY <1>1, <1>2 DEF Coming
<1>w. worker.pc = "release" /\ worker.followUp => row.queuedJobId = NoJob
  OBVIOUS
<1>m. Mild(row, lead[k]) /\ Renames(row, lead[k], NoJob)
  OBVIOUS
<1> HIDE DEF k
<1>4. ASSUME NEW l \in Lead
      PROVE  Unmoved(l) /\ Undisturbed(l)
  <2>1. Unmoved(l)
    BY <1>2, SameUnmoved DEF SameFor
  <2>2. Mild(lead'[l], lead[l]) /\ Renames(lead'[l], lead[l], NoJob)
    BY <1>1, <1>m DEF Mild, KeepsStep, Renames
  <2>3. ~AboutTo(l)'
    BY <1>1 DEF AboutTo
  <2>4. Rebooks(l)' => Rebooks(l)
    <3> SUFFICES ASSUME NEW i, i = lead[l].queuedJobId, i = lead'[l].queuedJobId,
                        i # NoJob, Coming(i)
                 PROVE  Coming(i)'
      BY <2>2 DEF Rebooks, Renames
    <3>1. LeadOf(i) = l
      BY DEF Tidy, OwnJob, JobsOf, LeadOf
    <3>2. l # k \/ ~(worker.pc = "release" /\ worker.followUp)
      BY <1>1, <1>w
    <3> QED
      BY <1>3, <3>1, <3>2
  <2>5. LeftAlone(l) => LeftAlone(l)'
    BY <1>1, <1>2, <2>2 DEF LeftAlone, Renames
  <2> QED
    BY <1>2, <2>1, <2>2, <2>3, <2>4, <2>5 DEF Undisturbed
<1> QED
  BY <1>2, <1>4, NobodyDisturbed

(* A job passes the processor only for a lead that is due: one whose mail    *)
(* is still to be written down.                                             *)
LEMMA AccountTakes ==
  ASSUME TypeOK, Tidy, Accounts, NEW j \in JobId, TakeJob(j)
  PROVE  Accounts'
<1>1. /\ UNCHANGED <<lead, replied, flight, faults, afterReply, tick, recon>> /\ worker.pc = "idle"
      /\ j \in waiting /\ waiting' = waiting \ {j} /\ active' = active \union {j}
      /\ worker'.job = j /\ worker'.pc \in {"ready", "release"}
      /\ worker'.followUp = (lead[LeadOf(j)].stepsSent > 0)
      /\ worker'.pc = "ready" => Fits(LeadOf(j), MailboxOf(j))
  BY DEF TakeJob, dbVars, history
<1> SUFFICES ASSUME NEW l \in Lead PROVE Account(l)'
  BY DEF Accounts
<1>2. Unmoved(l)
  BY <1>1, SameUnmoved DEF SameFor
<1>3. CASE l \notin replied
  BY <1>1, <1>3 DEF Accounts, Account
<1>4. CASE l \in replied /\ AboutTo(l)'
  <2>1. j \in JobsOf(l) /\ LeadOf(j) = l /\ lead[l].stepsSent > 0
    BY <1>1, <1>4 DEF AboutTo, JobsOf, LeadOf, Accounts, Account
  <2>2. lead[l].status = "CONTACTED" /\ lead[l].nextStepAt = "now"
    BY <1>1, <1>4, <2>1 DEF AboutTo, Fits
  <2>3. ~Resting(l) /\ ~Over(l)
    BY <1>1, <2>1, <2>2 DEF Resting, Over, LeftAlone
  <2>4. Crossing(l)
    BY <1>4, <2>3 DEF Accounts, Account
  <2>5. ToSend(l)' = ToSend(l) /\ Heard(l)' = Heard(l)
    BY <1>1, SameInflight DEF SameFor, ToSend
  <2>6. Crossing(l)'
    BY <1>1, <2>4, <2>5 DEF Crossing
  <2> QED
    BY <1>1, <1>4, <2>1, <2>6 DEF Account
<1>5. CASE l \in replied /\ ~AboutTo(l)'
  <2>1. lead[l].stepsSent > 0
    BY <1>5 DEF Accounts, Account
  <2>2. Rebooks(l)' => Rebooks(l)
    <3> DEFINE i == lead[l].queuedJobId
    <3>1. i # NoJob => i \in JobsOf(l) /\ LeadOf(i) = l
      BY DEF Tidy, OwnJob, JobsOf, LeadOf
    <3>2. i # NoJob /\ Coming(i) => Coming(i)'
      <4>1. CASE i = j /\ i # NoJob
        BY <1>1, <1>5, <2>1, <3>1, <4>1 DEF Coming, AboutTo
      <4>2. CASE i # j
        BY <1>1, <4>2 DEF Coming
      <4> QED
        BY <4>1, <4>2
    <3> QED
      BY <1>1, <3>2 DEF Rebooks
  <2>3. LeftAlone(l) => LeftAlone(l)'
    BY <1>1 DEF LeftAlone
  <2>4. Undisturbed(l)
    BY <1>1, <1>5, <2>2, <2>3 DEF Undisturbed, Mild, KeepsStep
  <2> QED
    BY <1>1, <1>2, <2>4, AccountStays DEF Accounts
<1> QED
  BY <1>3, <1>4, <1>5

\* The execution the processor starts is heard, and was about to be.
LEMMA AccountDispatches ==
  ASSUME TypeOK, OneListener, Accounts, NEW f \in Flight, WorkerDispatches(f)
  PROVE  Accounts'
<1> DEFINE r == [pc |-> "compose", job |-> worker.job, followUp |-> FALSE, stepsRead |-> 0,
                 retriesRead |-> 0, awaited |-> TRUE]
<1>1. /\ UNCHANGED <<lead, replied, faults, afterReply, waiting, active, tick, recon>>
      /\ worker.pc = "ready" /\ worker'.pc = "await" /\ worker'.job = worker.job
      /\ flight[f].pc = "idle" /\ flight' = [flight EXCEPT ![f] = r]
  BY DEF WorkerDispatches, dbVars, bullVars, history, TypeOK, WorkerOK, WorkerState
<1>a. /\ flight'[f] = r /\ \A g \in Flight : g # f => flight'[g] = flight[g]
      /\ r.pc = "compose" /\ r.job = worker.job /\ r.awaited
  BY <1>1 DEF TypeOK, FlightsOK
<1> HIDE DEF r
<1>2. \A j : Coming(j)' = Coming(j)
  BY <1>1 DEF Coming
<1> SUFFICES ASSUME NEW l \in Lead PROVE Account(l)'
  BY DEF Accounts
<1>3. ~AboutTo(l)' /\ ~Heard(l)
  BY <1>1 DEF AboutTo, OneListener, Heard, ToSend, Sent, Inflight
<1>4. /\ Rebooks(l)' = Rebooks(l)
      /\ LeftAlone(l) => LeftAlone(l)'
  BY <1>1, <1>2 DEF Rebooks, LeftAlone
<1>5. CASE l \notin replied
  BY <1>1, <1>5 DEF Accounts, Account
<1>6. CASE l \in replied /\ worker.job \in JobsOf(l)
  <2>1. ToSend(l)' = ToSend(l) \union {f} /\ f \notin ToSend(l)
    BY <1>1, <1>a, <1>6 DEF ToSend, Inflight, Unsent
  <2>2. Cardinality(ToSend(l)') = Cardinality(ToSend(l)) + 1
    BY <2>1, InflightFinite, FS_AddElement DEF ToSend
  <2>3. Heard(l)' /\ AboutTo(l)
    BY <1>1, <1>a, <1>6, <2>1 DEF Heard, AboutTo
  <2>4. One(Heard(l)') = 1 /\ One(Heard(l)) = 0 /\ One(AboutTo(l)) = 1 /\ One(AboutTo(l)') = 0
        /\ One(Rebooks(l)') = One(Rebooks(l))
    BY <1>3, <1>4, <2>3 DEF One
  <2>5. Crossing(l) => Crossing(l)'
    BY <1>1, <2>2, <2>4, Counts, AccountTypes DEF Crossing
  <2>6. Resting(l) => Resting(l)'
    BY <1>1, <2>2, <2>4, Counts, AccountTypes DEF Resting
  <2>7. ~Over(l)
    BY <2>3 DEF Over
  <2> QED
    BY <1>1, <1>6, <2>5, <2>6, <2>7 DEF Accounts, Account
<1>7. CASE l \in replied /\ worker.job \notin JobsOf(l)
  <2>1. ToSend(l)' = ToSend(l)
    BY <1>1, <1>a, <1>7 DEF ToSend, Inflight, Unsent
  <2>2. Unmoved(l)
    BY <1>3, <1>a, <1>7, <2>1 DEF Unmoved
  <2>3. Undisturbed(l)
    BY <1>1, <1>3, <1>4 DEF Undisturbed, Mild, KeepsStep
  <2> QED
    BY <1>1, <2>2, <2>3, AccountStays DEF Accounts
<1> QED
  BY <1>5, <1>6, <1>7

\* An answer ends an execution that was to mail nothing any more.
LEMMA AccountAnswered ==
  ASSUME TypeOK, OneListener, Accounts, NEW f \in Flight, WorkerAnswered(f)
  PROVE  Accounts'
<1>1. /\ UNCHANGED <<lead, replied, faults, afterReply, waiting, active, tick, recon>>
      /\ worker.pc = "await" /\ worker'.pc \in {"failed", "finish"} /\ worker'.job = worker.job
      /\ flight[f].pc \in {"ok", "failed"} /\ flight[f].awaited
      /\ flight' = [flight EXCEPT ![f] = IdleFlight]
  BY DEF WorkerAnswered, dbVars, bullVars, history, TypeOK, WorkerOK, WorkerState
<1>a. /\ flight'[f] = IdleFlight /\ \A g \in Flight : g # f => flight'[g] = flight[g]
      /\ ~IdleFlight.awaited /\ IdleFlight.job = NoJob /\ IdleFlight.pc = "idle"
  BY <1>1 DEF TypeOK, FlightsOK, IdleFlight
<1>2. \A j : Coming(j)' = Coming(j)
  BY <1>1 DEF Coming
<1>3. ASSUME NEW l \in Lead
      PROVE  Unmoved(l) /\ Undisturbed(l)
  <2>1. ToSend(l)' = ToSend(l)
    BY <1>1, <1>a DEF ToSend, Inflight, Unsent
  <2>2. ~Heard(l)
    <3>1. \A g \in ToSend(l) \union Sent(l) : g # f
      BY <1>1 DEF ToSend, Sent, Inflight, Unsent, Unwritten
    <3>2. \A g \in ToSend(l) \union Sent(l) : ~flight[g].awaited
      BY <1>1, <3>1 DEF OneListener, ToSend, Sent, Inflight
    <3> QED
      BY <3>2 DEF Heard
  <2>3. NoJob \notin JobsOf(l)
    BY LeadRowAssumption DEF JobsOf
  <2>4. Unmoved(l)
    BY <1>a, <2>1, <2>2, <2>3 DEF Unmoved
  <2>5. /\ Rebooks(l)' = Rebooks(l) /\ ~AboutTo(l)'
        /\ LeftAlone(l) => LeftAlone(l)'
    BY <1>1, <1>2 DEF Rebooks, LeftAlone, AboutTo
  <2> QED
    BY <1>1, <2>4, <2>5 DEF Undisturbed, Mild, KeepsStep
<1> QED
  BY <1>1, <1>3, NobodyDisturbed

\* What the processor, a tick or reconciliation had in hand is lost, for a fault.
LEMMA AccountUnheard ==
  ASSUME TypeOK, Accounts, UNCHANGED <<lead, replied, afterReply, waiting, active>>,
         faults' = faults + 1, worker'.pc # "ready",
         worker'.job \in {worker.job, NoJob}, recon'.job \in {recon.job, NoJob},
         \A t \in Tick : tick'[t] \in {tick[t], IdleTick},
         \A f \in Flight : flight'[f].pc = flight[f].pc /\ flight'[f].job = flight[f].job
  PROVE  Accounts'
<1>1. ASSUME NEW l \in Lead
      PROVE  Unmoved(l) /\ Undisturbed(l)
  <2>1. ToSend(l)' = ToSend(l)
    BY DEF ToSend, Inflight
  <2>2. NoJob \notin JobsOf(l)
    BY LeadRowAssumption DEF JobsOf
  <2>3. LeftAlone(l) => LeftAlone(l)'
    <3> SUFFICES ASSUME LeftAlone(l) PROVE LeftAlone(l)'
      OBVIOUS
    <3>1. ASSUME NEW t \in Tick
          PROVE  tick'[t].job \notin JobsOf(l) /\ \A p \in tick'[t].todo : p[1] # l
      BY <2>2 DEF LeftAlone, IdleTick
    <3> QED
      BY <2>2, <3>1 DEF LeftAlone
  <2>4. Undisturbed(l)
    BY <2>3 DEF Undisturbed, Mild, KeepsStep, AboutTo
  <2> QED
    BY <2>1, <2>4 DEF Unmoved
<1> QED
  BY <1>1, NobodyDisturbed

LEMMA AccountWorker ==
  ASSUME TypeOK, OneListener, Tidy, Accounts, WorkerStep \/ Crash
  PROVE  Accounts'
<1> DEFINE k == LeadOf(worker.job)
<1>1. /\ worker.pc # "idle" => lead[k] \in Row
      /\ worker.followUp \in BOOLEAN /\ worker.seen \in Job
      /\ flight \in [Flight -> FlightState]
  BY JobNames DEF TypeOK, WorkerOK, WorkerState, DbOK, FlightsOK
<1> HIDE DEF k
<1>u. \A f \in Flight : /\ [flight[f] EXCEPT !.awaited = FALSE].pc = flight[f].pc
                        /\ [flight[f] EXCEPT !.awaited = FALSE].job = flight[f].job
  BY <1>1 DEF FlightState
<1>2. CASE \E j \in JobId : TakeJob(j)
  BY <1>2, AccountTakes
<1>3. CASE WorkerReleases
  <2> DEFINE row == releaseLead(lead[k], worker.followUp)
  <2>1. worker.pc = "release" /\ WorkerWrites(row)
        /\ UNCHANGED <<flight, faults, history, bullVars, tick, recon>>
    BY <1>3 DEF WorkerReleases, k
  <2>2. Mild(row, lead[k]) /\ Renames(row, lead[k], NoJob)
    BY <1>1, <2>1, WritesAreMild, WritesRename
  <2>3. worker.followUp => row.queuedJobId = NoJob
    BY <1>1, <2>1 DEF releaseLead, Unqueued, Row
  <2> HIDE DEF row
  <2> QED
    BY <2>1, <2>2, <2>3, AccountWrites DEF k
<1>4. CASE WorkerStopsDeadAddress
  <2> DEFINE row == stopDeadAddress(lead[k])
  <2>1. worker.pc = "ready" /\ WorkerWrites(row)
        /\ UNCHANGED <<flight, faults, history, bullVars, tick, recon>>
    BY <1>4 DEF WorkerStopsDeadAddress, k
  <2>2. Mild(row, lead[k]) /\ Renames(row, lead[k], NoJob)
    BY <1>1, <2>1, WritesAreMild, WritesRename
  <2> HIDE DEF row
  <2> QED
    BY <2>1, <2>2, AccountWrites DEF k
<1>5. CASE WorkerAsksAgainLater
  <2> DEFINE row == askAgainLater(lead[k])
  <2>1. worker.pc = "ready" /\ WorkerWrites(row)
        /\ UNCHANGED <<flight, faults, history, bullVars, tick, recon>>
    BY <1>5 DEF WorkerAsksAgainLater, k
  <2>2. Mild(row, lead[k]) /\ Renames(row, lead[k], NoJob)
    BY <1>1, <2>1, WritesAreMild, WritesRename
  <2> HIDE DEF row
  <2> QED
    BY <2>1, <2>2, AccountWrites DEF k
<1>6. CASE \E f \in Flight : WorkerDispatches(f) \/ WorkerAnswered(f)
  BY <1>6, AccountDispatches, AccountAnswered
<1>7. CASE WorkerWritesFailure
  <2> DEFINE row == dispatchFailed(lead[k], worker.followUp, worker.seen)
  <2>1. worker.pc = "failed" /\ WorkerWrites(row)
        /\ UNCHANGED <<flight, faults, history, bullVars, tick, recon>>
    BY <1>7 DEF WorkerWritesFailure, k
  <2>2. Mild(row, lead[k]) /\ Renames(row, lead[k], NoJob)
    BY <1>1, <2>1, WritesAreMild, WritesRename
  <2> HIDE DEF row
  <2> QED
    BY <2>1, <2>2, AccountWrites DEF k
<1>8. CASE WorkerFetchRejects
  <2>1. /\ UNCHANGED <<lead, replied, afterReply, waiting, active, tick, recon>>
        /\ faults' = faults + 1 /\ worker'.pc = "finish" /\ worker'.job = worker.job
    BY <1>8 DEF WorkerFetchRejects, Fault, dbVars, bullVars, history, TypeOK, WorkerOK, WorkerState
  <2>2. \A f \in Flight : flight'[f].pc = flight[f].pc /\ flight'[f].job = flight[f].job
    BY <1>8, <1>u DEF WorkerFetchRejects
  <2> QED
    BY <2>1, <2>2, AccountUnheard
<1>9. CASE WorkerFinishes
  <2>1. /\ UNCHANGED <<lead, replied, afterReply, waiting, tick, recon, flight, faults>>
        /\ active' \subseteq active /\ worker.pc = "finish" /\ worker' = IdleWorker
    BY <1>9 DEF WorkerFinishes, dbVars, history
  <2>2. ASSUME NEW l \in Lead
        PROVE  Unmoved(l) /\ Undisturbed(l)
    <3>1. NoJob \notin JobsOf(l)
      BY LeadRowAssumption DEF JobsOf
    <3>2. \A j : Coming(j)' = Coming(j)
      BY <2>1 DEF Coming, IdleWorker
    <3>3. LeftAlone(l) => LeftAlone(l)'
      BY <2>1, <3>1 DEF LeftAlone, IdleWorker
    <3>4. Undisturbed(l)
      BY <2>1, <3>2, <3>3 DEF Undisturbed, Mild, KeepsStep, Rebooks, AboutTo, IdleWorker
    <3> QED
      BY <2>1, <3>4, SameUnmoved DEF SameFor
  <2> QED
    BY <2>1, <2>2, NobodyDisturbed
<1>10. CASE Crash
  <2>1. /\ UNCHANGED <<lead, replied, afterReply, waiting, active>> /\ faults' = faults + 1
        /\ worker'.pc = "idle" /\ worker'.job = NoJob /\ recon'.job = NoJob
        /\ \A t \in Tick : tick'[t] = IdleTick
    BY <1>10 DEF Crash, Fault, dbVars, bullVars, history, IdleWorker, IdleRecon
  <2>2. \A f \in Flight : flight'[f].pc = flight[f].pc /\ flight'[f].job = flight[f].job
    BY <1>10, <1>u DEF Crash
  <2> QED
    BY <2>1, <2>2, AccountUnheard
<1> QED
  BY <1>2, <1>3, <1>4, <1>5, <1>6, <1>7, <1>8, <1>9, <1>10 DEF WorkerStep

-----------------------------------------------------------------------------
(* Ticks, reconciliation and the queue.                                     *)

(* No execution moves and no job passes the processor: it is enough that     *)
(* what was coming still is, and who was left alone still is.                *)
LEMMA AccountElsewhere ==
  ASSUME TypeOK, Accounts, UNCHANGED <<flight, worker, replied, afterReply>>,
         faults' = faults \/ faults' = faults + 1,
         \A l \in Lead : Mild(lead'[l], lead[l]),
         \A l \in Lead : Rebooks(l)' => Rebooks(l) \/ faults' = faults + 1,
         \A l \in replied : lead[l].status = "CONTACTED" /\ LeftAlone(l) => LeftAlone(l)'
  PROVE  Accounts'
<1>1. ASSUME NEW l \in Lead
      PROVE  Unmoved(l) /\ Undisturbed(l)
  <2>1. Unmoved(l)
    BY SameUnmoved DEF SameFor
  <2> QED
    BY <2>1 DEF Undisturbed, AboutTo
<1> QED
  BY <1>1, NobodyDisturbed

LEMMA AccountTicks ==
  ASSUME TypeOK, Tidy, Accounts, NEW t \in Tick, TickStep(t)
  PROVE  Accounts'
<1>t. tick \in [Tick -> TickState] /\ lead \in [Lead -> Row]
  BY DEF TypeOK, TicksOK, DbOK
<1>n. \A l \in Lead : NoJob \notin JobsOf(l)
  BY LeadRowAssumption DEF JobsOf
\* A tick that writes no lead and adds no job.
<1>a. ASSUME UNCHANGED <<lead, replied, afterReply, flight, worker, waiting, active, recon>>,
             faults' = faults \/ faults' = faults + 1,
             NEW r, tick' = [tick EXCEPT ![t] = r],
             tick[t].pc \notin {"add1", "add2"} \/ faults' = faults + 1,
             \A l \in replied : lead[l].status = "CONTACTED" /\ LeftAlone(l) =>
               r.job \notin JobsOf(l) /\ \A p \in r.todo : p[1] # l
      PROVE  Accounts'
  <2>1. \A u \in Tick : tick'[u] = IF u = t THEN r ELSE tick[u]
    BY <1>a, <1>t
  <2>2. \A j : Coming(j) => Coming(j)' \/ faults' = faults + 1
    BY <1>a, <2>1 DEF Coming
  <2>3. \A l \in Lead : Rebooks(l)' => Rebooks(l) \/ faults' = faults + 1
    BY <1>a, <2>2 DEF Rebooks
  <2>4. ASSUME NEW l \in replied, lead[l].status = "CONTACTED", LeftAlone(l)
        PROVE  LeftAlone(l)'
    BY <1>a, <2>1, <2>4 DEF LeftAlone
  <2>5. \A l \in Lead : Mild(lead'[l], lead[l])
    BY <1>a DEF Mild, KeepsStep
  <2> QED
    BY <1>a, <2>3, <2>4, <2>5, AccountElsewhere
<1>1. CASE TickStart(t)
  <2> DEFINE r == [pc |-> "pass1", pool |-> Pool, job |-> NoJob,
        todo |-> {p \in Lead \X Pool : FollowUpDue(p[1]) /\ lead[p[1]].mailboxId = p[2]}]
  <2>1. /\ UNCHANGED <<lead, replied, afterReply, flight, worker, waiting, active, recon, faults>>
        /\ tick' = [tick EXCEPT ![t] = r] /\ tick[t].pc = "idle"
    BY <1>1 DEF TickStart, dbVars, bullVars, history
  <2>2. \A l \in replied : \A p \in r.todo : p[1] # l
    BY DEF FollowUpDue
  <2>3. r.job = NoJob /\ replied \subseteq Lead
    BY DEF TypeOK, DbOK
  <2> HIDE DEF r
  <2> QED
    BY <1>a, <1>n, <2>1, <2>2, <2>3
<1>2. CASE \E l \in Lead, m \in Mailbox : TickTakeSlot(t, l, m)
  <2>1. PICK k \in Lead, m \in Mailbox : TickTakeSlot(t, k, m)
    BY <1>2
  <2>2. PICK j \in NewJobs(k, m) :
          tick' = [tick EXCEPT ![t] =
            [pc |-> IF tick[t].pc = "pass1" THEN "mark1" ELSE "mark2",
             pool |-> tick[t].pool \ {m},
             todo |-> {p \in tick[t].todo : p[1] # k /\ p[2] # m},
             job |-> j]]
    BY <2>1 DEF TickTakeSlot
  <2> DEFINE r == [pc |-> IF tick[t].pc = "pass1" THEN "mark1" ELSE "mark2",
                   pool |-> tick[t].pool \ {m},
                   todo |-> {p \in tick[t].todo : p[1] # k /\ p[2] # m},
                   job |-> j]
  <2>3. /\ UNCHANGED <<lead, replied, afterReply, flight, worker, waiting, active, recon, faults>>
        /\ tick[t].pc \in {"pass1", "pass2"} /\ <<k, m>> \in tick[t].todo
    BY <2>1 DEF TickTakeSlot, dbVars, bullVars, history
  <2>4. j \in JobsOf(k) /\ r.job = j /\ r.todo \subseteq tick[t].todo
    BY DEF NewJobs, JobsOf
  <2>5. \A l \in Lead : LeftAlone(l) => l # k
    BY <2>3 DEF LeftAlone
  <2>6. \A l \in Lead : l # k => j \notin JobsOf(l)
    BY <2>4 DEF JobsOf
  <2>7. \A l \in replied : LeftAlone(l) => r.job \notin JobsOf(l) /\ \A p \in r.todo : p[1] # l
    BY <2>4, <2>5, <2>6 DEF LeftAlone, TypeOK, DbOK
  <2>8. tick' = [tick EXCEPT ![t] = r]
    BY <2>2
  <2> HIDE DEF r
  <2> QED
    BY <1>a, <2>3, <2>7, <2>8
<1>3. CASE \E l \in Lead : TickSkip(t, l)
  <2>1. PICK k \in Lead : TickSkip(t, k)
    BY <1>3
  <2> DEFINE r == [tick[t] EXCEPT !.todo = {p \in tick[t].todo : p[1] # k}]
  <2>2. /\ UNCHANGED <<lead, replied, afterReply, flight, worker, waiting, active, recon, faults>>
        /\ tick[t].pc \in {"pass1", "pass2"} /\ tick' = [tick EXCEPT ![t] = r]
    BY <2>1 DEF TickSkip, dbVars, bullVars, history
  <2>3. r.job = tick[t].job /\ r.todo \subseteq tick[t].todo
    BY <1>t DEF TickState
  <2>4. \A l \in replied : LeftAlone(l) => r.job \notin JobsOf(l) /\ \A p \in r.todo : p[1] # l
    BY <2>3 DEF LeftAlone
  <2> HIDE DEF r
  <2> QED
    BY <1>a, <2>2, <2>4
<1>4. CASE TickMarkLead(t)
  <2>j. PICK j \in JobId : j = tick[t].job
    BY <1>4 DEF TickMarkLead, TypeOK, TicksOK
  <2> DEFINE k == LeadOf(j)
  <2>1. k \in Lead /\ j \in JobsOf(k) /\ lead[k] \in Row
    BY JobNames DEF TypeOK, DbOK
  <2>2. PICK row : /\ lead' = [lead EXCEPT ![k] = row]
                   /\ Mild(row, lead[k]) /\ row.queuedJobId = j
    <3>1. /\ Mild(bookFollowUp(lead[k], j), lead[k]) /\ Mild(bookFirstEmail(lead[k], j), lead[k])
          /\ bookFollowUp(lead[k], j).queuedJobId = j /\ bookFirstEmail(lead[k], j).queuedJobId = j
      BY <2>1, WritesAreMild DEF bookFollowUp, bookFirstEmail, Row
    <3>2. \/ lead' = [lead EXCEPT ![k] = bookFollowUp(lead[k], j)]
          \/ lead' = [lead EXCEPT ![k] = bookFirstEmail(lead[k], j)]
      BY <1>4, <2>j DEF TickMarkLead
    <3> QED
      BY <3>1, <3>2
  <2>3. /\ UNCHANGED <<replied, afterReply, flight, worker, waiting, active, recon, faults>>
        /\ tick[t].pc \in {"mark1", "mark2"}
    BY <1>4 DEF TickMarkLead, bullVars, history
  <2>4. /\ tick'[t].pc \in {"add1", "add2"} /\ tick'[t].job = j /\ tick'[t].todo = tick[t].todo
        /\ \A u \in Tick : u # t => tick'[u] = tick[u]
    BY <1>4, <1>t, <2>j DEF TickMarkLead, TickState
  <2> HIDE DEF k
  <2>5. lead'[k] = row /\ \A l \in Lead : l # k => lead'[l] = lead[l]
    BY <1>t, <2>1, <2>2
  <2>6. Coming(j)' /\ \A i : Coming(i) => Coming(i)'
    BY <2>3, <2>4 DEF Coming
  <2>7. \A l \in Lead : Mild(lead'[l], lead[l])
    BY <2>2, <2>5 DEF Mild, KeepsStep
  <2>8. \A l \in Lead : Rebooks(l)' => Rebooks(l)
    BY <2>2, <2>5, <2>6 DEF Rebooks
  <2>9. ASSUME NEW l \in replied, LeftAlone(l)
        PROVE  LeftAlone(l)'
    <3>1. l # k /\ l \in Lead
      BY <2>j, <2>1, <2>9 DEF LeftAlone, TypeOK, DbOK
    <3>2. \A u \in Tick : tick'[u].job = tick[u].job /\ tick'[u].todo = tick[u].todo
      BY <2>j, <2>4
    <3> QED
      BY <2>3, <2>5, <2>9, <3>1, <3>2 DEF LeftAlone
  <2> QED
    BY <2>3, <2>7, <2>8, <2>9, AccountElsewhere
<1>5. CASE TickAddJob(t)
  <2> DEFINE j == tick[t].job
  <2>1. /\ UNCHANGED <<lead, replied, afterReply, flight, worker, active, recon, faults>>
        /\ waiting' = waiting \union {j}
    BY <1>5 DEF TickAddJob, dbVars, history
  <2>2. /\ tick'[t].job = NoJob /\ tick'[t].todo \subseteq tick[t].todo
        /\ \A u \in Tick : u # t => tick'[u] = tick[u]
    BY <1>5, <1>t DEF TickAddJob, TickState, IdleTick
  <2>3. \A i : Coming(i) => Coming(i)'
    BY <2>1, <2>2 DEF Coming
  <2>4. \A l \in Lead : Rebooks(l)' => Rebooks(l)
    BY <2>1, <2>3 DEF Rebooks
  <2>5. \A l \in replied : LeftAlone(l) => LeftAlone(l)'
    BY <1>n, <2>1, <2>2 DEF LeftAlone, TypeOK, DbOK
  <2>6. \A l \in Lead : Mild(lead'[l], lead[l])
    BY <2>1 DEF Mild, KeepsStep
  <2> QED
    BY <2>1, <2>4, <2>5, <2>6, AccountElsewhere
<1>6. CASE TickReadFirstEmails(t)
  <2> DEFINE r == [tick[t] EXCEPT !.pc = "pass2",
                                  !.todo = {l \in Lead : FirstEmailDue(l)}
                                             \X (Senders \intersect tick[t].pool)]
  <2>1. /\ UNCHANGED <<lead, replied, afterReply, flight, worker, waiting, active, recon, faults>>
        /\ tick[t].pc = "pass1" /\ tick' = [tick EXCEPT ![t] = r]
    BY <1>6 DEF TickReadFirstEmails, dbVars, bullVars, history
  <2>2. r.job = tick[t].job /\ \A p \in r.todo : FirstEmailDue(p[1])
    BY <1>t DEF TickState
  <2>3. \A l \in replied : lead[l].status = "CONTACTED" /\ LeftAlone(l) =>
          r.job \notin JobsOf(l) /\ \A p \in r.todo : p[1] # l
    BY <2>2 DEF LeftAlone, FirstEmailDue
  <2> HIDE DEF r
  <2> QED
    BY <1>a, <2>1, <2>3
<1>7. CASE TickEnd(t) \/ TickFails(t)
  <2>1. /\ UNCHANGED <<lead, replied, afterReply, flight, worker, waiting, active, recon>>
        /\ tick' = [tick EXCEPT ![t] = IdleTick]
        /\ (faults' = faults /\ tick[t].pc = "pass2") \/ faults' = faults + 1
    BY <1>7 DEF TickEnd, TickFails, Fault, dbVars, bullVars, history
  <2>2. IdleTick.job = NoJob /\ IdleTick.todo = {} /\ replied \subseteq Lead
    BY DEF IdleTick, TypeOK, DbOK
  <2> QED
    BY <1>a, <1>n, <2>1, <2>2
<1> QED
  BY <1>1, <1>2, <1>3, <1>4, <1>5, <1>6, <1>7 DEF TickStep

LEMMA AccountQueue ==
  ASSUME TypeOK, Tidy, Accounts, ReconStep \/ QueueStep
  PROVE  Accounts'
<1>r. lead \in [Lead -> Row] /\ replied \subseteq Lead
  BY DEF TypeOK, DbOK
<1>s. UNCHANGED lead => \A l \in Lead : Mild(lead'[l], lead[l])
  BY DEF Mild, KeepsStep
<1>n. \A l \in Lead : NoJob \notin JobsOf(l)
  BY LeadRowAssumption DEF JobsOf
<1>1. CASE \E l \in Lead : ReconFind(l)
  <2>1. PICK k \in Lead : ReconFind(k)
    BY <1>1
  <2>2. /\ UNCHANGED <<lead, flight, worker, replied, afterReply, faults, waiting, active, tick>>
        /\ lead[k].queuedJobId # NoJob
        /\ \E m : recon'.job \in NewJobs(k, m)
    BY <2>1 DEF ReconFind, Overdue, dbVars, bullVars, history
  <2>3. \A j : Coming(j)' = Coming(j)
    BY <2>2 DEF Coming
  <2>4. \A l \in replied : LeftAlone(l) => LeftAlone(l)'
    <3> SUFFICES ASSUME NEW l \in replied, LeftAlone(l) PROVE LeftAlone(l)'
      OBVIOUS
    <3>1. l # k
      BY <2>2 DEF LeftAlone
    <3>2. recon'.job \notin JobsOf(l)
      BY <2>2, <3>1 DEF NewJobs, JobsOf
    <3> QED
      BY <2>2, <3>2 DEF LeftAlone
  <2>5. \A l \in Lead : Rebooks(l)' => Rebooks(l)
    BY <2>2, <2>3 DEF Rebooks
  <2> QED
    BY <1>s, <2>2, <2>4, <2>5, AccountElsewhere
<1>2. CASE ReconAdd
  <2>1. /\ UNCHANGED <<lead, flight, worker, replied, afterReply, faults, active, tick>>
        /\ recon'.job = recon.job /\ waiting' = waiting \union {recon.job}
    BY <1>2 DEF ReconAdd, dbVars, history, TypeOK, ReconOK, ReconState
  <2>2. \A j : Coming(j) => Coming(j)'
    BY <2>1 DEF Coming
  <2>3. \A l \in Lead : Rebooks(l)' => Rebooks(l)
    BY <2>1, <2>2 DEF Rebooks
  <2>4. \A l \in replied : LeftAlone(l) => LeftAlone(l)'
    BY <2>1 DEF LeftAlone
  <2> QED
    BY <1>s, <2>1, <2>3, <2>4, AccountElsewhere
<1>3. CASE ReconMark
  <2>1. PICK j \in JobId : j = recon.job
    BY <1>3 DEF ReconMark, TypeOK, ReconOK
  <2> DEFINE k == LeadOf(j)
             row == bookFollowUp(lead[k], j)
  <2>2. /\ UNCHANGED <<flight, worker, replied, afterReply, faults, waiting, active, tick>>
        /\ lead' = [lead EXCEPT ![k] = row] /\ recon'.job = NoJob /\ j \in waiting
    BY <1>3, <2>1 DEF ReconMark, bullVars, history, IdleRecon, Tidy
  <2>3. k \in Lead /\ j \in JobsOf(k)
    BY JobNames
  <2>4. Mild(row, lead[k]) /\ row.queuedJobId = j
    BY <1>r, <2>3, WritesAreMild DEF bookFollowUp, Row
  <2> HIDE DEF k, row
  <2>5. lead'[k] = row /\ \A l \in Lead : l # k => lead'[l] = lead[l]
    BY <1>r, <2>2, <2>3
  <2>6. Coming(j)' /\ \A i : Coming(i)' = Coming(i)
    BY <2>2 DEF Coming
  <2>7. \A l \in Lead : Mild(lead'[l], lead[l])
    BY <2>4, <2>5 DEF Mild, KeepsStep
  <2>8. \A l \in Lead : Rebooks(l)' => Rebooks(l)
    BY <2>4, <2>5, <2>6 DEF Rebooks
  <2>9. ASSUME NEW l \in replied, LeftAlone(l)
        PROVE  LeftAlone(l)'
    <3>1. l # k /\ l \in Lead
      BY <1>r, <2>1, <2>3, <2>9 DEF LeftAlone
    <3> QED
      BY <1>n, <2>2, <2>5, <2>9, <3>1 DEF LeftAlone
  <2> QED
    BY <2>2, <2>7, <2>8, <2>9, AccountElsewhere
<1>4. CASE QueueStep
  <2>1. /\ UNCHANGED <<lead, flight, worker, replied, afterReply, faults, tick, recon>>
        /\ waiting \subseteq waiting'
        /\ waiting' \union active' \subseteq waiting \union active
    BY <1>4 DEF QueueStep, RecoverStalled, Prune, dbVars, history
  <2>2. \A l \in Lead : Rebooks(l)' => Rebooks(l)
    BY <2>1 DEF Rebooks, Coming
  <2>3. \A l \in replied : LeftAlone(l) => LeftAlone(l)'
    BY <2>1 DEF LeftAlone
  <2> QED
    BY <1>s, <2>1, <2>2, <2>3, AccountElsewhere
<1> QED
  BY <1>1, <1>2, <1>3, <1>4 DEF ReconStep

-----------------------------------------------------------------------------
(* Time and the recipients.                                                 *)

(* A date comes: the executions are over, so what has left is all that has   *)
(* to be paid for; a lead that got one mail more is over.                    *)
LEMMA AccountDate ==
  ASSUME ~Slow, TypeOK, Tidy, Accounts, NEW k \in Lead, DateComes(k), Drained
  PROVE  Accounts'
<1>1. /\ UNCHANGED <<worker, flight, faults, waiting, active, tick, recon, replied, afterReply>>
      /\ worker.job \notin JobsOf(k) /\ \A f \in Flight : flight[f].job \notin JobsOf(k)
      /\ \A t \in Tick : tick[t].pc = "idle"
      /\ JobsOf(k) \intersect ((waiting \ ahead) \union active) = {}
  BY DEF DateComes, Prompt, bullVars, history
<1>2. /\ \A l \in Lead : l # k => lead'[l] = lead[l]
      /\ lead'[k].stepsSent = lead[k].stepsSent /\ lead'[k].status = lead[k].status
      /\ lead'[k].queuedJobId = lead[k].queuedJobId
      /\ lead'[k].nextStepAt = lead[k].nextStepAt \/ lead[k].nextStepAt = "later"
  BY DEF DateComes, TypeOK, DbOK, Row
<1>3. \A l \in Lead : Unmoved(l)
  BY <1>1, SameUnmoved DEF SameFor
<1>4. \A l \in Lead : Renames(lead'[l], lead[l], NoJob)
  BY <1>2 DEF Renames
<1>5. ASSUME NEW l \in Lead, l # k \/ lead'[k].nextStepAt = lead[k].nextStepAt
      PROVE  Account(l)'
  <2>1. Mild(lead'[l], lead[l])
    BY <1>2, <1>5 DEF Mild, KeepsStep
  <2>2. Undisturbed(l)
    BY <1>1, <1>4, <2>1, NobodyComes DEF Undisturbed
  <2> QED
    BY <1>1, <1>3, <2>2, AccountStays DEF Accounts
<1>6. CASE k \notin replied
  <2>1. Account(k)'
    BY <1>1, <1>6 DEF Accounts, Account
  <2> QED
    BY <1>5, <2>1 DEF Accounts
<1>7. ASSUME k \in replied, lead[k].nextStepAt = "later"
      PROVE  Account(k)'
  <2>1. afterReply[k] > faults => JobsOf(k) \intersect waiting = {} /\ recon.job \notin JobsOf(k)
    BY <1>7 DEF Drained
  <2>2. ToSend(k)' = ToSend(k) /\ Heard(k)' = Heard(k) /\ ToSend(k) = {}
    BY <1>1, SameInflight DEF SameFor, ToSend, Inflight
  <2>3. Cardinality(ToSend(k)) = 0 /\ Cardinality(ToSend(k)') = 0
    BY <2>2, FS_EmptySet
  <2>4. ~AboutTo(k) /\ ~AboutTo(k)'
    BY <1>1 DEF AboutTo
  <2>5. k \in replied' /\ lead'[k].stepsSent > 0
    <3>1. Account(k)
      BY DEF Accounts
    <3> QED
      BY <1>1, <1>2, <1>7, <3>1 DEF Account
  <2>6. CASE Crossing(k)
    <3>1. Crossing(k)'
      BY <1>1, <2>2, <2>6 DEF Crossing
    <3> QED
      BY <2>5, <3>1 DEF Account
  <2>7. CASE afterReply[k] <= faults
    <3>1. One(Heard(k)') \in 0..1 /\ afterReply'[k] = afterReply[k] /\ faults' = faults
      BY <1>1 DEF One
    <3>2. Crossing(k)'
      BY <2>3, <2>7, <3>1, Counts, AccountTypes DEF Crossing
    <3> QED
      BY <2>5, <3>2 DEF Account
  <2>8. CASE Resting(k) /\ afterReply[k] > faults
    \* A booking lost for it would have left one mail less.
    <3>1. ~Rebooks(k)
      <4>1. One(Rebooks(k)) \in 0..1 /\ One(Rebooks(k)) # 1
        BY <2>3, <2>8, Counts, AccountTypes DEF Resting
      <4> QED
        BY <4>1 DEF One
    <3>2. lead[k].queuedJobId = NoJob
      <4>1. ~Coming(lead[k].queuedJobId) \/ lead[k].queuedJobId = NoJob
        BY <1>1, <2>1, <2>8 DEF Coming, Tidy, OwnJob
      <4> QED
        BY <3>1, <4>1 DEF Rebooks
    <3>3. afterReply'[k] <= 1 + faults'
      BY <1>1, <2>3, <2>8, Counts, AccountTypes DEF Resting
    <3>4. \A t \in Tick : tick[t].job = NoJob /\ tick[t].todo = {}
      BY <1>1 DEF Tidy, IdleTick
    <3>5. NoJob \notin JobsOf(k)
      BY LeadRowAssumption DEF JobsOf
    <3>6. LeftAlone(k)'
      BY <1>1, <1>2, <2>1, <2>8, <3>2, <3>4, <3>5 DEF LeftAlone
    <3>7. Over(k)'
      BY <1>1, <2>4, <3>3, <3>6 DEF Over
    <3> QED
      BY <2>5, <3>7 DEF Account
  <2>9. CASE Over(k)
    <3>1. LeftAlone(k) => LeftAlone(k)'
      BY <1>1, <1>2 DEF LeftAlone
    <3>2. Over(k)'
      BY <1>1, <1>2, <2>4, <2>9, <3>1 DEF Over
    <3> QED
      BY <2>5, <3>2 DEF Account
  <2>10. afterReply[k] <= faults \/ afterReply[k] > faults
    BY Counts, AccountTypes
  <2> QED
    BY <1>7, <2>10, <2>6, <2>8, <2>9, <2>7 DEF Accounts, Account
<1> QED
  BY <1>2, <1>5, <1>6, <1>7 DEF Accounts

(* A reply finds the lead on some step of its sequence, with mails counted   *)
(* on its row that have all left: what may still leave is what may exceed    *)
(* that count.                                                              *)
LEMMA AccountOpens ==
  ASSUME TypeOK, Steps, NothingElse, Accounts, NEW l \in Lead, l \notin replied, l \in replied',
         lead[l].stepsSent > 0, Mild(lead'[l], lead[l]), Renames(lead'[l], lead[l], NoJob),
         UNCHANGED <<flight, worker, faults, afterReply, waiting, tick>>
  PROVE  Account(l)'
<1>1. PICK b \in 0..(FollowUps + 1) : OnStep(l, b)
  BY DEF Steps
<1>2. b \in Nat /\ b <= lead[l].stepsSent /\ lead[l].stepsSent <= mailed[l] /\ afterReply[l] = 0
  BY <1>1, Counts, LeadRowAssumption DEF OnStep, NothingElse, CountsMails, Accounts, Account
<1>3. ToSend(l)' = ToSend(l) /\ Heard(l)' = Heard(l)
  BY SameInflight DEF SameFor, ToSend
<1>4. lead'[l].stepsSent > 0 /\ (lead'[l].nextStepAt = "now" => lead[l].nextStepAt = "now")
  BY DEF Mild, KeepsStep
<1>5. CASE Due(l, b)
  <2>1. Crossing(l)'
    BY <1>2, <1>3, <1>5, Counts DEF Due, Crossing
  <2> QED
    BY <1>4, <2>1 DEF Account
<1>6. CASE Paid(l, b)
  <2>1. One(AboutTo(l)') = One(AboutTo(l)) /\ One(Rebooks(l)') \in 0..1
    BY DEF One, AboutTo
  <2>2. Cardinality(ToSend(l)) + One(AboutTo(l)) <= faults
    BY <1>2, <1>6, Counts DEF Paid
  <2>3. Resting(l)'
    BY <1>2, <1>3, <1>4, <1>6, <2>1, <2>2, Counts DEF Paid, Resting
  <2> QED
    BY <1>4, <2>3 DEF Account
<1> QED
  BY <1>1, <1>5, <1>6 DEF OnStep

LEMMA AccountElse ==
  ASSUME ~Slow, TypeOK, Steps, NothingElse, Tidy, Accounts, Drained, TimeStep \/ EnvStep
  PROVE  Accounts'
<1>r. lead \in [Lead -> Row]
  BY DEF TypeOK, DbOK
<1>a. ASSUME UNCHANGED <<waiting, active, tick, worker, recon, flight, replied, afterReply>>,
             faults' = faults \/ faults' = faults + 1,
             \A l \in Lead : Mild(lead'[l], lead[l]) /\ Renames(lead'[l], lead[l], NoJob)
      PROVE  Accounts'
  BY <1>a, NobodyComes, AccountElsewhere DEF TypeOK, DbOK
<1>s. UNCHANGED lead => \A l \in Lead : Mild(lead'[l], lead[l]) /\ Renames(lead'[l], lead[l], NoJob)
  BY DEF Mild, KeepsStep, Renames
<1>w. ASSUME NEW k \in Lead, NEW row, lead' = [lead EXCEPT ![k] = row],
             Mild(row, lead[k]), Renames(row, lead[k], NoJob)
      PROVE  \A l \in Lead : Mild(lead'[l], lead[l]) /\ Renames(lead'[l], lead[l], NoJob)
  BY <1>w, <1>r DEF Mild, KeepsStep, Renames
<1>1. CASE \E l \in Lead : DateComes(l)
  BY <1>1, AccountDate
<1>2. CASE \/ \E j \in JobId : SlotComes(j)
           \/ CampaignOpens
           \/ \E m \in Mailbox : MailboxToggles(m)
           \/ \E e \in Email : Unblock(e)
           \/ \E l \in Lead : ReplyMarkLost(l)
  <2>1. /\ UNCHANGED <<lead, waiting, active, tick, worker, recon, flight, replied, afterReply>>
        /\ faults' = faults \/ faults' = faults + 1
    BY <1>2 DEF SlotComes, CampaignOpens, MailboxToggles, Unblock, ReplyMarkLost, Fault, dbVars,
       bullVars, history
  <2> QED
    BY <1>a, <1>s, <2>1
<1>3. CASE \E l \in Lead : SlotOverdue(l)
  <2>1. PICK k \in Lead : SlotOverdue(k)
    BY <1>3
  <2>2. /\ UNCHANGED <<waiting, active, tick, worker, recon, flight, replied, afterReply, faults>>
        /\ lead' = [lead EXCEPT ![k] = [lead[k] EXCEPT !.slotOverdue = TRUE]]
    BY <2>1 DEF SlotOverdue, bullVars, history
  <2> DEFINE row == [lead[k] EXCEPT !.slotOverdue = TRUE]
  <2>3. Mild(row, lead[k]) /\ Renames(row, lead[k], NoJob)
    BY <1>r DEF Mild, KeepsStep, Renames, Row
  <2>4. lead' = [lead EXCEPT ![k] = row]
    BY <2>2
  <2> HIDE DEF row
  <2> QED
    BY <1>a, <1>w, <2>2, <2>3, <2>4
<1>4. CASE \E e \in Email : OptOut(e)
  <2>1. /\ UNCHANGED <<waiting, active, tick, worker, recon, flight, replied, afterReply, faults>>
        /\ \A l \in Lead : lead'[l] \in {lead[l], suppressEmail(lead[l])}
    BY <1>4 DEF OptOut, bullVars
  <2>2. \A l \in Lead : /\ Mild(suppressEmail(lead[l]), lead[l])
                        /\ Renames(suppressEmail(lead[l]), lead[l], NoJob)
    BY <1>r, WritesAreMild, WritesRename
  <2>3. \A l \in Lead : Mild(lead[l], lead[l]) /\ Renames(lead[l], lead[l], NoJob)
    BY DEF Mild, KeepsStep, Renames
  <2>4. \A l \in Lead : Mild(lead'[l], lead[l]) /\ Renames(lead'[l], lead[l], NoJob)
    BY <2>1, <2>2, <2>3
  <2> QED
    BY <1>a, <2>1, <2>4
<1>5. CASE \E l \in Lead : ReplyMarks(l)
  <2>1. PICK k \in Lead : ReplyMarks(k)
    BY <1>5
  <2>2. /\ UNCHANGED <<waiting, active, tick, worker, recon, flight, replied, afterReply, faults>>
        /\ lead' = [lead EXCEPT ![k] = replyArrives(lead[k])]
    BY <2>1 DEF ReplyMarks, bullVars, history
  <2>3. Mild(replyArrives(lead[k]), lead[k]) /\ Renames(replyArrives(lead[k]), lead[k], NoJob)
    BY <1>r, WritesAreMild, WritesRename
  <2> QED
    BY <1>a, <1>w, <2>2, <2>3
<1>6. CASE \E l \in Lead : ReplyStored(l) \/ BounceReport(l)
  <2>1. PICK k \in Lead : ReplyStored(k) \/ BounceReport(k)
    BY <1>6
  <2>2. /\ UNCHANGED <<waiting, active, tick, worker, recon, flight, afterReply, faults>>
        /\ replied' = replied \union {k} /\ lead[k].stepsSent > 0
        /\ lead' = lead \/ lead' = [lead EXCEPT ![k] = bounceReported(lead[k])]
    BY <2>1 DEF ReplyStored, BounceReport, bullVars, history
  <2>3. Mild(bounceReported(lead[k]), lead[k]) /\ Renames(bounceReported(lead[k]), lead[k], NoJob)
    BY <1>r, WritesAreMild, WritesRename
  <2>4. \A l \in Lead : Mild(lead'[l], lead[l]) /\ Renames(lead'[l], lead[l], NoJob)
    BY <1>s, <1>w, <2>2, <2>3
  <2>5. CASE k \in replied
    <3>1. replied' = replied
      BY <2>2, <2>5
    <3> QED
      BY <1>a, <2>2, <2>4, <3>1
  <2>6. CASE k \notin replied
    <3> SUFFICES ASSUME NEW l \in Lead PROVE Account(l)'
      BY DEF Accounts
    <3>1. CASE l = k
      BY <2>2, <2>4, <2>6, <3>1, AccountOpens
    <3>2. CASE l # k
      <4>1. Undisturbed(l)
        BY <2>2, <2>4, <3>2, NobodyComes DEF Undisturbed
      <4>2. Unmoved(l)
        BY <2>2, SameUnmoved DEF SameFor
      <4> QED
        BY <2>2, <4>1, <4>2, AccountStays DEF Accounts
    <3> QED
      BY <3>1, <3>2
  <2> QED
    BY <2>5, <2>6
<1> QED
  BY <1>1, <1>2, <1>3, <1>4, <1>5, <1>6 DEF TimeStep, EnvStep

LEMMA NextAccount ==
  ASSUME ~Slow, TypeOK, ThreadInv, Tidy, Accounts, [Next]_vars, [Drained]_vars
  PROVE  Accounts'
<1>1. CASE UNCHANGED vars
  <2>1. /\ UNCHANGED <<flight, worker, replied, afterReply, faults, lead, waiting, active, tick, recon>>
        /\ replied \subseteq Lead
    BY <1>1 DEF vars, dbVars, bullVars, history, TypeOK, DbOK
  <2>2. \A l \in Lead : Mild(lead'[l], lead[l]) /\ Renames(lead'[l], lead[l], NoJob)
    BY <2>1 DEF Mild, KeepsStep, Renames
  <2> QED
    BY <2>1, <2>2, NobodyComes, AccountElsewhere
<1>2. CASE Next /\ Drained
  BY <1>2, AccountTicks, AccountWorker, AccountFlight, AccountQueue, AccountElse
     DEF Next, ThreadInv
<1> QED
  BY <1>1, <1>2

(* A recipient who replied gets the one mail that may have crossed the       *)
(* reply, and one more for each fault, however many ticks overlap and        *)
(* whatever fails.                                                           *)
THEOREM ReplyCostsOneMail ==
  ASSUME ~Slow
  PROVE  Spec /\ [][Drained]_vars => []ReplyCrossedOnce
<1>1. Init => Tidy /\ Accounts
  <2> SUFFICES ASSUME Init PROVE Tidy /\ Accounts
    OBVIOUS
  <2>1. /\ replied = {} /\ \A l \in Lead : afterReply[l] = 0 /\ lead[l].queuedJobId = NoJob
        /\ recon.pc = "idle" /\ \A t \in Tick : tick[t] = IdleTick
    BY DEF Init, NewLead, IdleRecon
  <2> QED
    BY <2>1 DEF Tidy, OwnJob, Accounts, Account
<1>2. TypeOK /\ ThreadInv /\ Tidy /\ Accounts /\ [Next]_vars /\ [Drained]_vars => (Tidy /\ Accounts)'
  BY NextTidy, NextAccount
<1>3. TypeOK /\ Accounts => ReplyCrossedOnce
  <2> SUFFICES ASSUME TypeOK, Accounts, NEW l \in Lead
               PROVE  afterReply[l] <= 1 + faults
    BY DEF ReplyCrossedOnce
  <2>1. CASE l \notin replied
    BY <2>1, Counts DEF Accounts, Account
  <2>2. CASE l \in replied
    BY <2>2, Counts, AccountTypes DEF Accounts, Account, Crossing, Resting, Over
  <2> QED
    BY <2>1, <2>2
<1> QED
  BY <1>1, <1>2, <1>3, InitThread, NextThread, DispatchTypes, PTL DEF Spec

=============================================================================
