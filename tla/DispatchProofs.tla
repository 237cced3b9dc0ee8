--------------------------- MODULE DispatchProofs ---------------------------
(***************************************************************************)
(* Theorems of Dispatch, for every number of leads, mailboxes, ticks,      *)
(* executions and faults: its type invariant, and how many mails cross an  *)
(* opt-out.                                                                *)
(***************************************************************************)
EXTENDS Dispatch, FiniteSetTheorems, TLAPS

-----------------------------------------------------------------------------
(* What the writes of LeadRow preserve.                                     *)

\* The row's own dates and statuses stay what they are.
LEMMA StepDateIsDate ==
  ASSUME NEW n \in Nat
  PROVE  nextStepAtAfter(n) \in Date
BY DEF nextStepAtAfter, Date

LEMMA UnqueuedIsRow ==
  ASSUME NEW row \in Row
  PROVE  Unqueued(row) \in Row
BY DEF Unqueued, Row

\* The worker's writes.
LEMMA WorkerWritesRows ==
  ASSUME NEW row \in Row, NEW job \in JobId \union {NoJob}, NEW followUp \in BOOLEAN, NEW seen
  PROVE  /\ bookFollowUp(row, job) \in Row
         /\ bookFirstEmail(row, job) \in Row
         /\ releaseLead(row, followUp) \in Row
         /\ stopDeadAddress(row) \in Row
         /\ askAgainLater(row) \in Row
         /\ dispatchFailed(row, followUp, seen) \in Row
<1>1. bookFollowUp(row, job) \in Row /\ bookFirstEmail(row, job) \in Row
  BY DEF bookFollowUp, bookFirstEmail, Row, LeadStatus, Date
<1>2. releaseLead(row, followUp) \in Row
  BY DEF releaseLead, Unqueued, Row, LeadStatus, Date
<1>3. stopDeadAddress(row) \in Row /\ askAgainLater(row) \in Row
  BY DEF stopDeadAddress, askAgainLater, Unqueued, Row, LeadStatus, Date
<1>4. dispatchFailed(row, followUp, seen) \in Row
  BY DEF dispatchFailed, Unqueued, Row, LeadStatus, Date
<1> QED
  BY <1>1, <1>2, <1>3, <1>4

\* The writes of the API's routes.
LEMMA RoutesWriteRows ==
  ASSUME NEW row \in Row
  PROVE  /\ hardBounce(row) \in Row /\ endSequence(row) \in Row
         /\ suppressAtSend(row) \in Row /\ suppressEmail(row) \in Row
         /\ replyArrives(row) \in Row /\ bounceReported(row) \in Row
<1>1. hardBounce(row) \in Row /\ endSequence(row) \in Row
  BY DEF hardBounce, endSequence, Unqueued, Row, LeadStatus, Date
<1>2. suppressAtSend(row) \in Row /\ suppressEmail(row) \in Row
  BY DEF suppressAtSend, suppressEmail, Row, LeadStatus, Date
<1>3. replyArrives(row) \in Row /\ bounceReported(row) \in Row
  BY DEF replyArrives, bounceReported, Unqueued, Row, LeadStatus, Date
<1> QED
  BY <1>1, <1>2, <1>3

\* What sendMail writes about a send.
LEMMA SendsWriteRows ==
  ASSUME NEW row \in Row, NEW steps \in Nat, NEW retries \in Nat, NEW followUp \in BOOLEAN,
         NEW mailbox \in Mailbox
  PROVE  /\ softFailure(row, steps, retries) \in Row
         /\ recordSent(row, steps, followUp, mailbox) \in Row
<1>1. softFailure(row, steps, retries) \in Row
  <2>1. Counted(row.retryCount) \in Nat
    BY DEF Counted, Row
  <2> QED
    BY <2>1 DEF softFailure, Unqueued, Row, LeadStatus, Date
<1>2. recordSent(row, steps, followUp, mailbox) \in Row
  <2> DEFINE u == Unqueued(row)
             n == steps + 1
             d == nextStepAtAfter(n)
             m == IF followUp THEN u.mailboxId ELSE mailbox
  <2>1. u \in Row
    BY UnqueuedIsRow
  <2>2. n \in Nat /\ d \in Date
    BY StepDateIsDate
  <2>3. m \in Mailbox \union {NoMailbox}
    BY <2>1 DEF Row
  <2>4. recordSent(row, steps, followUp, mailbox) =
          [u EXCEPT !.status = "CONTACTED", !.retryCount = 0, !.nextRetryAt = "none",
                    !.stepsSent = n, !.nextStepAt = d, !.mailboxId = m]
    BY DEF recordSent
  <2> HIDE DEF u, n, d, m
  <2> DEFINE v == [u EXCEPT !.status = "CONTACTED", !.retryCount = 0, !.nextRetryAt = "none"]
  <2>5. v \in Row
    BY <2>1 DEF Row, LeadStatus, Date
  <2>6. recordSent(row, steps, followUp, mailbox) =
          [v EXCEPT !.stepsSent = n, !.nextStepAt = d, !.mailboxId = m]
    BY <2>4
  <2> HIDE DEF v
  <2> QED
    BY <2>2, <2>3, <2>5, <2>6 DEF Row
<1> QED
  BY <1>1, <1>2

\* A job id names a lead and a mailbox, and is one of that lead's.
LEMMA JobNames ==
  ASSUME NEW j \in JobId
  PROVE  LeadOf(j) \in Lead /\ MailboxOf(j) \in Mailbox /\ j \in JobsOf(LeadOf(j))
BY DEF JobId, LeadOf, MailboxOf, JobsOf

\* A new job is one of the lead's that nothing names yet.
LEMMA NewJobIsJob ==
  ASSUME NEW l \in Lead, NEW m \in Mailbox, NEW j \in NewJobs(l, m)
  PROVE  j \in JobId
BY DEF NewJobs, JobId

-----------------------------------------------------------------------------
(* The type invariant.  An action touches one of its parts, or two or three; *)
(* the others follow from UNCHANGED.                                         *)

\* One lead row is written.
LEMMA RowWritten ==
  ASSUME DbOK, NEW l \in Lead, NEW r \in Row, lead' = [lead EXCEPT ![l] = r],
         UNCHANGED <<listed, replied, marking, envVars>>
  PROVE  DbOK'
BY DEF DbOK, envVars

\* One tick takes a step.
LEMMA TickMoved ==
  ASSUME TicksOK, NEW t \in Tick, NEW r \in TickState,
         r.pc \in {"mark1", "add1", "mark2", "add2"} => r.job \in JobId,
         tick' = [tick EXCEPT ![t] = r]
  PROVE  TicksOK'
BY DEF TicksOK

\* One execution takes a step.
LEMMA FlightMoved ==
  ASSUME FlightsOK, NEW f \in Flight, NEW r \in FlightState,
         r.pc # "idle" => r.job \in JobId,
         flight' = [flight EXCEPT ![f] = r]
  PROVE  FlightsOK'
BY DEF FlightsOK

\* What no action but their own changes.
LEMMA Untouched ==
  ASSUME TypeOK
  PROVE  /\ UNCHANGED <<dbVars, envVars>> => DbOK'
         /\ UNCHANGED <<slotVars, tries, bullVars>> => QueueOK'
         /\ UNCHANGED tick => TicksOK'
         /\ UNCHANGED worker => WorkerOK'
         /\ UNCHANGED recon => ReconOK'
         /\ UNCHANGED flight => FlightsOK'
         /\ UNCHANGED <<faults, history>> => HistoryOK'
BY DEF TypeOK, DbOK, QueueOK, TicksOK, WorkerOK, ReconOK, FlightsOK, HistoryOK,
       dbVars, envVars, slotVars, bullVars, history

\* A fault is one of at most MaxFaults.
LEMMA FaultCounted ==
  ASSUME HistoryOK, NEW kind, Fault(kind)
  PROVE  faults' \in 0..MaxFaults
BY DispatchAssumption DEF HistoryOK, Fault

\* The worker stops listening to every execution.
LEMMA Unheard ==
  ASSUME FlightsOK, flight' = [f \in Flight |-> [flight[f] EXCEPT !.awaited = FALSE]]
  PROVE  FlightsOK'
<1>1. ASSUME NEW f \in Flight
      PROVE  /\ flight'[f] \in FlightState
             /\ flight'[f].pc = flight[f].pc
             /\ flight'[f].job = flight[f].job
  <2>1. flight[f] \in FlightState /\ flight'[f] = [flight[f] EXCEPT !.awaited = FALSE]
    BY DEF FlightsOK
  <2> QED
    BY <2>1 DEF FlightState
<1> QED
  BY <1>1 DEF FlightsOK

LEMMA TickSteps ==
  ASSUME TypeOK, NEW t \in Tick, TickStep(t)
  PROVE  TypeOK'
<1> TypeOK /\ tick[t] \in TickState
  BY DEF TypeOK, TicksOK
<1>a. tick[t].pc \in {"mark1", "add1", "mark2", "add2"} => tick[t].job \in JobId
  BY DEF TypeOK, TicksOK
<1>1. CASE TickStart(t)
  <2>1. TicksOK'
    <3> DEFINE r == [pc |-> "pass1", pool |-> Pool, job |-> NoJob,
          todo |-> {p \in Lead \X Pool : FollowUpDue(p[1]) /\ lead[p[1]].mailboxId = p[2]}]
    <3>1. Pool \subseteq Mailbox
      BY DEF Pool, TypeOK, DbOK
    <3>2. r \in TickState
      BY <3>1 DEF TickState, Job
    <3> QED
      BY <1>1, <3>2, TickMoved DEF TickStart, TypeOK
  <2> QED
    BY <1>1, <2>1, Untouched DEF TickStart, TypeOK
<1>2. CASE \E l \in Lead, m \in Mailbox : TickTakeSlot(t, l, m)
  <2>1. PICK l \in Lead, m \in Mailbox : TickTakeSlot(t, l, m)
    BY <1>2
  <2>2. PICK j \in NewJobs(l, m) :
          /\ reserved' = [reserved EXCEPT ![m] = j]
          /\ ahead' = ahead \union {j}
          /\ tick' = [tick EXCEPT ![t] =
               [pc |-> IF tick[t].pc = "pass1" THEN "mark1" ELSE "mark2",
                pool |-> tick[t].pool \ {m},
                todo |-> {p \in tick[t].todo : p[1] # l /\ p[2] # m},
                job |-> j]]
    BY <2>1 DEF TickTakeSlot
  <2>3. j \in JobId
    BY NewJobIsJob
  <2>4. TicksOK'
    <3> DEFINE r == [pc |-> IF tick[t].pc = "pass1" THEN "mark1" ELSE "mark2",
                     pool |-> tick[t].pool \ {m},
                     todo |-> {p \in tick[t].todo : p[1] # l /\ p[2] # m}, job |-> j]
    <3>1. r \in TickState
      BY <2>3 DEF TickState, Job
    <3> QED
      BY <2>2, <2>3, <3>1, TickMoved DEF TypeOK
  <2>5. QueueOK'
    BY <2>1, <2>2, <2>3 DEF TickTakeSlot, TypeOK, QueueOK, Job, bullVars
  <2> QED
    BY <2>1, <2>4, <2>5, Untouched DEF TickTakeSlot, TypeOK
<1>3. CASE \E l \in Lead : TickSkip(t, l)
  <2>1. PICK l \in Lead : TickSkip(t, l)
    BY <1>3
  <2>2. TicksOK'
    <3> DEFINE r == [tick[t] EXCEPT !.todo = {p \in tick[t].todo : p[1] # l}]
    <3>1. r \in TickState /\ r.pc = tick[t].pc /\ r.job = tick[t].job
      BY DEF TickState
    <3>2. tick' = [tick EXCEPT ![t] = r]
      BY <2>1 DEF TickSkip
    <3> HIDE DEF r
    <3> QED
      BY <1>a, <3>1, <3>2, TickMoved DEF TypeOK
  <2> QED
    BY <2>1, <2>2, Untouched DEF TickSkip, TypeOK
<1>4. CASE TickMarkLead(t)
  <2> DEFINE j == tick[t].job
  <2>1. j \in JobId /\ LeadOf(j) \in Lead /\ lead[LeadOf(j)] \in Row
    BY <1>4, <1>a, JobNames DEF TickMarkLead, TypeOK, DbOK
  <2>2. TicksOK'
    <3>1. PICK pc \in {"add1", "add2"} : tick' = [tick EXCEPT ![t].pc = pc]
      BY <1>4 DEF TickMarkLead
    <3> DEFINE r == [tick[t] EXCEPT !.pc = pc]
    <3>2. r \in TickState /\ r.job = j
      BY DEF TickState
    <3>3. tick' = [tick EXCEPT ![t] = r]
      BY <3>1
    <3> HIDE DEF r
    <3> QED
      BY <2>1, <3>2, <3>3, TickMoved DEF TypeOK
  <2>3. DbOK'
    <3>1. PICK r \in Row : lead' = [lead EXCEPT ![LeadOf(j)] = r]
      <4>1. bookFollowUp(lead[LeadOf(j)], j) \in Row /\ bookFirstEmail(lead[LeadOf(j)], j) \in Row
        BY <2>1, WorkerWritesRows
      <4> QED
        BY <1>4, <4>1 DEF TickMarkLead
    <3> QED
      BY <1>4, <2>1, <3>1, RowWritten DEF TickMarkLead, TypeOK
  <2> QED
    BY <1>4, <2>2, <2>3, Untouched DEF TickMarkLead, TypeOK
<1>5. CASE TickAddJob(t)
  <2>1. tick[t].job \in JobId
    BY <1>5, <1>a DEF TickAddJob
  <2>2. QueueOK'
    BY <1>5, <2>1 DEF TickAddJob, TypeOK, QueueOK, slotVars
  <2>3. TicksOK'
    <3> DEFINE r == [tick[t] EXCEPT !.pc = IF tick[t].pc = "add1" THEN "pass1" ELSE "pass2",
                                    !.job = NoJob]
    <3>1. r \in TickState /\ r.pc \in {"pass1", "pass2"}
      BY DEF TickState, Job
    <3>2. IdleTick \in TickState /\ IdleTick.pc = "idle"
      BY DEF IdleTick, TickState, Job
    <3>3. tick' = [tick EXCEPT ![t] = IdleTick] \/ tick' = [tick EXCEPT ![t] = r]
      BY <1>5 DEF TickAddJob
    <3> HIDE DEF r
    <3> QED
      BY <3>1, <3>2, <3>3, TickMoved DEF TypeOK
  <2> QED
    BY <1>5, <2>2, <2>3, Untouched DEF TickAddJob, TypeOK
<1>6. CASE TickReadFirstEmails(t)
  <2>1. TicksOK'
    <3> DEFINE r == [tick[t] EXCEPT !.pc = "pass2",
                       !.todo = {l \in Lead : FirstEmailDue(l)} \X (Senders \intersect tick[t].pool)]
    <3>1. r \in TickState /\ r.pc = "pass2"
      BY DEF TickState
    <3>2. tick' = [tick EXCEPT ![t] = r]
      BY <1>6 DEF TickReadFirstEmails
    <3> HIDE DEF r
    <3> QED
      BY <3>1, <3>2, TickMoved DEF TypeOK
  <2> QED
    BY <1>6, <2>1, Untouched DEF TickReadFirstEmails, TypeOK
<1>7. CASE TickEnd(t) \/ TickFails(t)
  <2>1. IdleTick \in TickState /\ IdleTick.pc = "idle"
    BY DEF IdleTick, TickState, Job
  <2>2. TicksOK'
    BY <1>7, <2>1, TickMoved DEF TickEnd, TickFails, TypeOK
  <2>3. HistoryOK'
    BY <1>7, FaultCounted DEF TickEnd, TickFails, TypeOK, HistoryOK, history
  <2> QED
    BY <1>7, <2>2, <2>3, Untouched DEF TickEnd, TickFails, TypeOK
<1> QED
  BY <1>1, <1>2, <1>3, <1>4, <1>5, <1>6, <1>7 DEF TickStep

LEMMA WorkerSteps ==
  ASSUME TypeOK, WorkerStep
  PROVE  TypeOK'
<1> DEFINE j == worker.job
<1> TypeOK /\ worker \in WorkerState
  BY DEF TypeOK, WorkerOK
\* The writes that end a job: one row, and the worker's own state.
<1>a. ASSUME worker.pc # "idle", NEW r \in Row, WorkerWrites(r), UNCHANGED envVars
      PROVE  DbOK' /\ WorkerOK'
  <2>1. j \in JobId /\ LeadOf(j) \in Lead
    BY <1>a, JobNames DEF TypeOK, WorkerOK
  <2> QED
    BY <1>a, <2>1, RowWritten DEF WorkerWrites, TypeOK, WorkerOK, WorkerState
<1>b. ASSUME worker.pc # "idle", FreeSlot, UNCHANGED <<ahead, bullVars>>,
             tries' \in [Lead -> 0..MaxUnknownRetries]
      PROVE  QueueOK'
  <2>1. MailboxOf(j) \in Mailbox
    BY <1>b, JobNames DEF TypeOK, WorkerOK
  <2> QED
    BY <1>b, <2>1 DEF FreeSlot, TypeOK, QueueOK, Job, bullVars
<1>c. worker.pc # "idle" => LeadOf(j) \in Lead /\ lead[LeadOf(j)] \in Row
  BY JobNames DEF TypeOK, WorkerOK, DbOK
<1>d. worker.followUp \in BOOLEAN
  BY DEF WorkerState
<1>1. CASE \E i \in JobId : TakeJob(i)
  <2>1. PICK i \in JobId : TakeJob(i)
    BY <1>1
  <2>2. WorkerOK'
    <3>1. LeadOf(i) \in Lead /\ lead[LeadOf(i)] \in Row
      BY JobNames DEF TypeOK, DbOK
    <3> QED
      BY <2>1, <3>1 DEF TakeJob, WorkerOK, WorkerState, Job, Row
  <2>3. QueueOK'
    BY <2>1 DEF TakeJob, TypeOK, QueueOK, slotVars
  <2> QED
    BY <2>1, <2>2, <2>3, Untouched DEF TakeJob, TypeOK
<1>2. CASE WorkerReleases
  <2>1. releaseLead(lead[LeadOf(j)], worker.followUp) \in Row
    BY <1>2, <1>c, <1>d, WorkerWritesRows DEF WorkerReleases
  <2> QED
    BY <1>2, <1>a, <2>1, Untouched DEF WorkerReleases, TypeOK
<1>3. CASE WorkerStopsDeadAddress
  <2>1. stopDeadAddress(lead[LeadOf(j)]) \in Row
    BY <1>3, <1>c, WorkerWritesRows DEF WorkerStopsDeadAddress
  <2>2. QueueOK'
    BY <1>3, <1>b DEF WorkerStopsDeadAddress, TypeOK, QueueOK
  <2> QED
    BY <1>3, <1>a, <2>1, <2>2, Untouched DEF WorkerStopsDeadAddress, TypeOK
<1>4. CASE WorkerAsksAgainLater
  <2>1. askAgainLater(lead[LeadOf(j)]) \in Row
    BY <1>4, <1>c, WorkerWritesRows DEF WorkerAsksAgainLater
  <2>2. tries' \in [Lead -> 0..MaxUnknownRetries]
    <3>1. tries' = [tries EXCEPT ![LeadOf(j)] = tries[LeadOf(j)] + 1]
      BY <1>4 DEF WorkerAsksAgainLater
    <3>2. tries[LeadOf(j)] < MaxUnknownRetries /\ LeadOf(j) \in Lead
      BY <1>4, <1>c DEF WorkerAsksAgainLater, TriesLeft
    <3>3. tries[LeadOf(j)] + 1 \in 0..MaxUnknownRetries
      BY <3>2, DispatchAssumption DEF TypeOK, QueueOK
    <3> QED
      BY <3>1, <3>3 DEF TypeOK, QueueOK
  <2>3. QueueOK'
    BY <1>4, <1>b, <2>2 DEF WorkerAsksAgainLater
  <2> QED
    BY <1>4, <1>a, <2>1, <2>3, Untouched DEF WorkerAsksAgainLater, TypeOK
<1>5. CASE \E f \in Flight : WorkerDispatches(f)
  <2>1. PICK f \in Flight : WorkerDispatches(f)
    BY <1>5
  <2>2. j \in JobId
    BY <2>1 DEF WorkerDispatches, TypeOK, WorkerOK
  <2>3. WorkerOK'
    BY <2>1, <2>2 DEF WorkerDispatches, WorkerOK, WorkerState
  <2>4. FlightsOK'
    <3> DEFINE r == [pc |-> "compose", job |-> j, followUp |-> FALSE, stepsRead |-> 0,
                     retriesRead |-> 0, awaited |-> TRUE]
    <3>1. r \in FlightState
      BY <2>2 DEF FlightState, Job
    <3> QED
      BY <2>1, <2>2, <3>1, FlightMoved DEF WorkerDispatches, TypeOK
  <2> QED
    BY <2>1, <2>3, <2>4, Untouched DEF WorkerDispatches, TypeOK
<1>6. CASE \E f \in Flight : WorkerAnswered(f)
  <2>1. PICK f \in Flight : WorkerAnswered(f)
    BY <1>6
  <2>2. IdleFlight \in FlightState /\ IdleFlight.pc = "idle"
    BY DEF IdleFlight, FlightState, Job
  <2>3. FlightsOK'
    BY <2>1, <2>2, FlightMoved DEF WorkerAnswered, TypeOK
  <2>4. WorkerOK'
    <3> DEFINE seen == lead[LeadOf(j)].queuedJobId
               failed == [worker EXCEPT !.pc = "failed", !.seen = seen]
               done == [worker EXCEPT !.pc = "finish"]
    <3>1. j \in JobId /\ seen \in Job
      BY <2>1, <1>c DEF WorkerAnswered, TypeOK, WorkerOK, Row, Job
    <3>2. worker' = failed \/ worker' = done
      BY <2>1 DEF WorkerAnswered
    <3> HIDE DEF seen
    <3>3. failed \in WorkerState /\ failed.job = j /\ done \in WorkerState /\ done.job = j
      BY <3>1 DEF WorkerState
    <3> QED
      BY <3>1, <3>2, <3>3 DEF WorkerOK
  <2> QED
    BY <2>1, <2>3, <2>4, Untouched DEF WorkerAnswered, TypeOK
<1>9. CASE WorkerWritesFailure
  <2>1. dispatchFailed(lead[LeadOf(j)], worker.followUp, worker.seen) \in Row
    BY <1>9, <1>c, <1>d, WorkerWritesRows DEF WorkerWritesFailure
  <2> QED
    BY <1>9, <1>a, <2>1, Untouched DEF WorkerWritesFailure, TypeOK
<1>7. CASE WorkerFetchRejects
  <2>1. WorkerOK'
    BY <1>7 DEF WorkerFetchRejects, TypeOK, WorkerOK, WorkerState
  <2>2. FlightsOK'
    <3>1. CASE UNCHANGED flight
      BY <3>1, Untouched
    <3>2. CASE flight' = [f \in Flight |-> [flight[f] EXCEPT !.awaited = FALSE]]
      BY <3>2, Unheard DEF TypeOK
    <3> QED
      BY <1>7, <3>1, <3>2 DEF WorkerFetchRejects
  <2>3. HistoryOK'
    BY <1>7, FaultCounted DEF WorkerFetchRejects, TypeOK, HistoryOK, history
  <2> QED
    BY <1>7, <2>1, <2>2, <2>3, Untouched DEF WorkerFetchRejects, TypeOK
<1>8. CASE WorkerFinishes
  <2>1. WorkerOK'
    BY <1>8 DEF WorkerFinishes, WorkerOK, WorkerState, IdleWorker, Job
  <2>2. QueueOK'
    BY <1>8 DEF WorkerFinishes, TypeOK, QueueOK, WorkerOK, slotVars
  <2> QED
    BY <1>8, <2>1, <2>2, Untouched DEF WorkerFinishes, TypeOK
<1> QED
  BY <1>1, <1>2, <1>3, <1>4, <1>5, <1>6, <1>7, <1>8, <1>9 DEF WorkerStep

LEMMA FlightSteps ==
  ASSUME TypeOK, NEW f \in Flight, FlightStep(f)
  PROVE  TypeOK'
<1> DEFINE j == flight[f].job
           l == LeadOf(j)
<1> TypeOK /\ flight[f] \in FlightState
  BY DEF TypeOK, FlightsOK
<1>a. flight[f].pc # "idle" => j \in JobId /\ l \in Lead /\ MailboxOf(j) \in Mailbox
                               /\ lead[l] \in Row
  BY JobNames DEF TypeOK, DbOK, FlightsOK
\* Most steps only move the execution's program counter.
<1>b. ASSUME flight[f].pc # "idle", NEW r \in FlightState, r.job = j,
             flight' = [flight EXCEPT ![f] = r]
      PROVE  FlightsOK'
  BY <1>a, <1>b, FlightMoved DEF TypeOK
<1>c. ASSUME flight[f].pc # "idle",
             NEW pc \in {"send", "smtp", "sent", "record", "refused", "ok", "failed"},
             FlightTo(f, pc)
      PROVE  FlightsOK'
  <2> DEFINE r == [flight[f] EXCEPT !.pc = pc]
  <2>1. r \in FlightState /\ r.job = j
    BY DEF FlightState
  <2>2. flight' = [flight EXCEPT ![f] = r]
    BY <1>c DEF FlightTo
  <2> HIDE DEF r
  <2> QED
    BY <1>c, <2>1, <2>2, <1>b
<1>d. ASSUME flight[f].pc # "idle", NEW r \in Row, lead' = [lead EXCEPT ![l] = r],
             UNCHANGED <<listed, replied, marking, envVars>>
      PROVE  DbOK'
  BY <1>a, <1>d, RowWritten DEF TypeOK
<1>e. ASSUME flight[f].pc # "idle", ReadFailed(f)
      PROVE  FlightsOK'
  <2>1. PICK n \in Nat, k \in Nat : n = lead[l].stepsSent /\ k = lead[l].retryCount
    BY <1>a, <1>e DEF Row
  <2> DEFINE r == [flight[f] EXCEPT !.pc = "refused", !.stepsRead = n, !.retriesRead = k]
  <2>2. r \in FlightState /\ r.job = j
    BY DEF FlightState
  <2>3. flight' = [flight EXCEPT ![f] = r]
    BY <1>e, <2>1 DEF ReadFailed, FlightLead
  <2> HIDE DEF r
  <2> QED
    BY <1>b, <1>e, <2>2, <2>3
<1>1. CASE Compose(f)
  <2>1. FlightsOK'
    BY <1>1, <1>c DEF Compose
  <2>2. DbOK'
    <3>1. endSequence(lead[l]) \in Row
      BY <1>1, <1>a, RoutesWriteRows DEF Compose
    <3>2. CASE UNCHANGED lead
      BY <1>1, <3>2, Untouched DEF Compose, dbVars
    <3>3. CASE lead' = [lead EXCEPT ![l] = endSequence(lead[l])]
      BY <1>1, <1>d, <3>1, <3>3 DEF Compose
    <3> QED
      BY <1>1, <3>2, <3>3 DEF Compose, FlightLead
  <2> QED
    BY <1>1, <2>1, <2>2, Untouched DEF Compose, TypeOK
<1>2. CASE SendRefused(f)
  BY <1>2, <1>c, Untouched DEF SendRefused, TypeOK
<1>3. CASE SendSuppressed(f)
  <2>1. FlightsOK'
    BY <1>3, <1>c DEF SendSuppressed
  <2>2. suppressAtSend(lead[l]) \in Row
    BY <1>3, <1>a, RoutesWriteRows DEF SendSuppressed
  <2>3. DbOK'
    BY <1>3, <1>d, <2>2 DEF SendSuppressed, FlightLead
  <2> QED
    BY <1>3, <2>1, <2>3, Untouched DEF SendSuppressed, TypeOK
<1>4. CASE SendCleared(f)
  <2> DEFINE b == lead[l].stepsSent > 0
  <2>1. b \in BOOLEAN
    OBVIOUS
  <2> HIDE DEF b
  <2> DEFINE r == [flight[f] EXCEPT !.pc = "smtp", !.followUp = b]
  <2>2. r \in FlightState /\ r.job = j
    BY <2>1 DEF FlightState
  <2>3. flight' = [flight EXCEPT ![f] = r]
    BY <1>4 DEF SendCleared, FlightLead, b
  <2> HIDE DEF r
  <2> QED
    BY <1>4, <1>b, <2>2, <2>3, Untouched DEF SendCleared, TypeOK
<1>5. CASE SmtpAccepts(f)
  <2>1. FlightsOK'
    BY <1>5, <1>c DEF SmtpAccepts
  <2>2. HistoryOK'
    BY <1>5, <1>a DEF SmtpAccepts, FlightLead, TypeOK, HistoryOK
  <2> QED
    BY <1>5, <2>1, <2>2, Untouched DEF SmtpAccepts, TypeOK
<1>6. CASE SmtpRefuses(f)
  <2>1. FlightsOK'
    BY <1>6, <1>c, <1>e DEF SmtpRefuses
  <2>2. DbOK'
    <3>1. hardBounce(lead[l]) \in Row
      BY <1>6, <1>a, RoutesWriteRows DEF SmtpRefuses
    <3>2. CASE UNCHANGED lead
      BY <1>6, <3>2, Untouched DEF SmtpRefuses, dbVars
    <3>3. CASE lead' = [lead EXCEPT ![l] = hardBounce(lead[l])]
      BY <1>6, <1>d, <3>1, <3>3 DEF SmtpRefuses
    <3> QED
      BY <1>6, <3>2, <3>3 DEF SmtpRefuses, FlightLead
  <2> QED
    BY <1>6, <2>1, <2>2, Untouched DEF SmtpRefuses, TypeOK
<1>7. CASE RecordFailure(f)
  <2>1. FlightsOK'
    BY <1>7, <1>c DEF RecordFailure
  <2>2. softFailure(lead[l], flight[f].stepsRead, flight[f].retriesRead) \in Row
    BY <1>7, <1>a, SendsWriteRows DEF RecordFailure, FlightState
  <2>3. DbOK'
    BY <1>7, <1>d, <2>2 DEF RecordFailure, FlightLead
  <2> QED
    BY <1>7, <2>1, <2>3, Untouched DEF RecordFailure, TypeOK
<1>8. CASE RecordRead(f)
  <2> DEFINE r == [flight[f] EXCEPT !.pc = "record", !.stepsRead = lead[l].stepsSent]
  <2>1. lead[l].stepsSent \in Nat
    BY <1>8, <1>a DEF RecordRead, Row
  <2>2. r \in FlightState /\ r.job = j
    BY <2>1 DEF FlightState
  <2>3. flight' = [flight EXCEPT ![f] = r]
    BY <1>8 DEF RecordRead, FlightLead
  <2> HIDE DEF r
  <2> QED
    BY <1>8, <1>b, <2>2, <2>3, Untouched DEF RecordRead, TypeOK
<1>9. CASE RecordWrite(f)
  <2>1. FlightsOK'
    BY <1>9, <1>c DEF RecordWrite
  <2>2. recordSent(lead[l], flight[f].stepsRead, flight[f].followUp, MailboxOf(j)) \in Row
    BY <1>9, <1>a, SendsWriteRows DEF RecordWrite, FlightState
  <2>3. DbOK'
    BY <1>9, <1>d, <2>2 DEF RecordWrite, FlightLead
  <2> QED
    BY <1>9, <2>1, <2>3, Untouched DEF RecordWrite, TypeOK
<1>10. CASE RecordFails(f)
  <2>1. HistoryOK'
    BY <1>10, FaultCounted DEF RecordFails, TypeOK, HistoryOK, history
  <2> QED
    BY <1>10, <1>e, <2>1, Untouched DEF RecordFails, TypeOK
<1>11. CASE RecordLost(f) \/ ApiDies(f)
  <2>1. HistoryOK'
    BY <1>11, FaultCounted DEF RecordLost, ApiDies, TypeOK, HistoryOK, history
  <2>2. FlightsOK'
    BY <1>11, <1>c DEF RecordLost, ApiDies
  <2> QED
    BY <1>11, <2>1, <2>2, Untouched DEF RecordLost, ApiDies, TypeOK
<1>12. CASE FlightEnds(f)
  <2>1. IdleFlight \in FlightState /\ IdleFlight.pc = "idle"
    BY DEF IdleFlight, FlightState, Job
  <2> QED
    BY <1>12, <2>1, FlightMoved, Untouched DEF FlightEnds, TypeOK
<1> QED
  BY <1>1, <1>2, <1>3, <1>4, <1>5, <1>6, <1>7, <1>8, <1>9, <1>10, <1>11, <1>12 DEF FlightStep

LEMMA ReconSteps ==
  ASSUME TypeOK, ReconStep
  PROVE  TypeOK'
<1> DEFINE j == recon.job
<1> TypeOK /\ recon \in ReconState
  BY DEF TypeOK, ReconOK
<1>1. CASE \E l \in Lead : ReconFind(l)
  <2>1. PICK l \in Lead : ReconFind(l)
    BY <1>1
  <2>2. lead[l].queuedJobId \in JobId
    BY <2>1 DEF ReconFind, Overdue, TypeOK, DbOK, Row
  <2>3. PICK i \in NewJobs(l, MailboxOf(lead[l].queuedJobId)) : recon' = [pc |-> "add", job |-> i]
    BY <2>1 DEF ReconFind
  <2>4. i \in JobId
    BY <2>2, <2>3, JobNames, NewJobIsJob
  <2>5. ReconOK'
    BY <2>3, <2>4 DEF ReconOK, ReconState, Job
  <2> QED
    BY <2>1, <2>5, Untouched DEF ReconFind, TypeOK
<1>2. CASE ReconAdd
  <2>1. ReconOK'
    BY <1>2 DEF ReconAdd, TypeOK, ReconOK, ReconState
  <2>2. QueueOK'
    BY <1>2 DEF ReconAdd, TypeOK, QueueOK, ReconOK
  <2> QED
    BY <1>2, <2>1, <2>2, Untouched DEF ReconAdd, TypeOK
<1>3. CASE ReconMark
  <2>1. ReconOK'
    BY <1>3 DEF ReconMark, ReconOK, ReconState, IdleRecon, Job
  <2>2. j \in JobId /\ LeadOf(j) \in Lead /\ lead[LeadOf(j)] \in Row
    BY <1>3, JobNames DEF ReconMark, TypeOK, ReconOK, DbOK
  <2>3. bookFollowUp(lead[LeadOf(j)], j) \in Row
    BY <2>2, WorkerWritesRows
  <2>4. DbOK'
    BY <1>3, <2>2, <2>3, RowWritten DEF ReconMark, TypeOK
  <2> QED
    BY <1>3, <2>1, <2>4, Untouched DEF ReconMark, TypeOK
<1> QED
  BY <1>1, <1>2, <1>3 DEF ReconStep

LEMMA QueueSteps ==
  ASSUME TypeOK, QueueStep \/ Crash
  PROVE  TypeOK'
<1>1. CASE QueueStep
  <2>1. PICK j \in JobId : RecoverStalled(j) \/ Prune(j)
    BY <1>1 DEF QueueStep
  <2>2. QueueOK'
    BY <2>1 DEF RecoverStalled, Prune, TypeOK, QueueOK, slotVars
  <2> QED
    BY <2>1, <2>2, Untouched DEF RecoverStalled, Prune, TypeOK
<1>2. CASE Crash
  <2>1. TicksOK' /\ WorkerOK' /\ ReconOK'
    BY <1>2 DEF Crash, TicksOK, WorkerOK, ReconOK, TickState, IdleTick, WorkerState, IdleWorker,
                ReconState, IdleRecon, Job
  <2>2. FlightsOK'
    BY <1>2, Unheard DEF Crash, TypeOK
  <2>3. HistoryOK'
    BY <1>2, FaultCounted DEF Crash, TypeOK, HistoryOK, history
  <2> QED
    BY <1>2, <2>1, <2>2, <2>3, Untouched DEF Crash, TypeOK
<1> QED
  BY <1>1, <1>2

LEMMA TimeSteps ==
  ASSUME TypeOK, TimeStep
  PROVE  TypeOK'
<1>1. CASE \E j \in JobId : SlotComes(j)
  <2>1. PICK j \in JobId : SlotComes(j)
    BY <1>1
  <2>2. QueueOK'
    BY <2>1 DEF SlotComes, TypeOK, QueueOK, Job, bullVars
  <2> QED
    BY <2>1, <2>2, Untouched DEF SlotComes, TypeOK
<1>2. CASE \E l \in Lead : SlotOverdue(l) \/ DateComes(l)
  <2>1. PICK l \in Lead : SlotOverdue(l) \/ DateComes(l)
    BY <1>2
  <2>2. lead[l] \in Row
    BY DEF TypeOK, DbOK
  <2>3. PICK r \in Row : lead' = [lead EXCEPT ![l] = r]
    <3>1. /\ [lead[l] EXCEPT !.slotOverdue = TRUE] \in Row
          /\ [lead[l] EXCEPT !.nextStepAt = "now"] \in Row
          /\ [lead[l] EXCEPT !.nextRetryAt = "now"] \in Row
      BY <2>2 DEF Row, Date
    <3>2. \/ lead' = [lead EXCEPT ![l] = [lead[l] EXCEPT !.slotOverdue = TRUE]]
          \/ lead' = [lead EXCEPT ![l] = [lead[l] EXCEPT !.nextStepAt = "now"]]
          \/ lead' = [lead EXCEPT ![l] = [lead[l] EXCEPT !.nextRetryAt = "now"]]
      BY <2>1 DEF SlotOverdue, DateComes
    <3> QED
      BY <3>1, <3>2
  <2>4. DbOK'
    BY <2>1, <2>3, RowWritten DEF SlotOverdue, DateComes, TypeOK
  <2> QED
    BY <2>1, <2>4, Untouched DEF SlotOverdue, DateComes, TypeOK
<1> QED
  BY <1>1, <1>2 DEF TimeStep

LEMMA EnvSteps ==
  ASSUME TypeOK, EnvStep
  PROVE  TypeOK'
<1> TypeOK /\ \A l \in Lead : lead[l] \in Row
  BY DEF TypeOK, DbOK
<1>1. CASE CampaignOpens \/ \E m \in Mailbox : MailboxToggles(m)
  <2>1. DbOK'
    BY <1>1 DEF CampaignOpens, MailboxToggles, TypeOK, DbOK, dbVars
  <2> QED
    BY <1>1, <2>1, Untouched DEF CampaignOpens, MailboxToggles, TypeOK
<1>2. CASE \E e \in Email : OptOut(e)
  <2>1. PICK e \in Email : OptOut(e)
    BY <1>2
  <2>2. \A l \in Lead : suppressEmail(lead[l]) \in Row
    BY RoutesWriteRows
  <2>3. DbOK'
    BY <2>1, <2>2 DEF OptOut, TypeOK, DbOK, envVars
  <2>4. HistoryOK'
    BY <2>1 DEF OptOut, TypeOK, HistoryOK
  <2> QED
    BY <2>1, <2>3, <2>4, Untouched DEF OptOut, TypeOK
<1>3. CASE \E e \in Email : Unblock(e)
  <2>1. DbOK'
    BY <1>3 DEF Unblock, TypeOK, DbOK, envVars
  <2> QED
    BY <1>3, <2>1, Untouched DEF Unblock, TypeOK
<1>4. CASE \E l \in Lead : ReplyStored(l) \/ ReplyMarkLost(l)
  <2>1. DbOK'
    BY <1>4 DEF ReplyStored, ReplyMarkLost, TypeOK, DbOK, envVars
  <2>2. HistoryOK'
    BY <1>4, FaultCounted DEF ReplyStored, ReplyMarkLost, TypeOK, HistoryOK, history
  <2> QED
    BY <1>4, <2>1, <2>2, Untouched DEF ReplyStored, ReplyMarkLost, TypeOK
<1>5. CASE \E l \in Lead : ReplyMarks(l) \/ BounceReport(l)
  <2>1. PICK l \in Lead : ReplyMarks(l) \/ BounceReport(l)
    BY <1>5
  <2>2. replyArrives(lead[l]) \in Row /\ bounceReported(lead[l]) \in Row
    BY RoutesWriteRows
  <2>3. DbOK'
    BY <2>1, <2>2 DEF ReplyMarks, BounceReport, TypeOK, DbOK, envVars
  <2> QED
    BY <2>1, <2>3, Untouched DEF ReplyMarks, BounceReport, TypeOK
<1> QED
  BY <1>1, <1>2, <1>3, <1>4, <1>5 DEF EnvStep

\* Every step preserves the types.
LEMMA NextTypes ==
  ASSUME TypeOK, [Next]_vars
  PROVE  TypeOK'
<1>1. CASE UNCHANGED vars
  BY <1>1, Untouched DEF vars, TypeOK
<1> QED
  BY <1>1, TickSteps, WorkerSteps, FlightSteps, ReconSteps, QueueSteps, TimeSteps, EnvSteps DEF Next

LEMMA InitTypes ==
  ASSUME Init
  PROVE  TypeOK
<1>1. DbOK
  BY LeadRowAssumption DEF Init, DbOK, NewLead, Row, LeadStatus, Date
<1>2. QueueOK
  BY DispatchAssumption DEF Init, QueueOK, Job
<1>3. TicksOK /\ WorkerOK /\ ReconOK /\ FlightsOK
  BY DEF Init, TicksOK, WorkerOK, ReconOK, FlightsOK, TickState, IdleTick, WorkerState, IdleWorker,
         ReconState, IdleRecon, FlightState, IdleFlight, Job
<1>4. HistoryOK
  BY DispatchAssumption DEF Init, HistoryOK
<1> QED
  BY <1>1, <1>2, <1>3, <1>4 DEF TypeOK

(* Every row, job and step under way is what its type says: a job id an      *)
(* actor works on is never the null, and no address check is put off more    *)
(* than MaxUnknownRetries times.                                             *)
THEOREM DispatchTypes == Spec => []TypeOK
BY InitTypes, NextTypes, PTL DEF Spec

-----------------------------------------------------------------------------
(* How many mails cross an opt-out.  OptOutHolds is not inductive: it says   *)
(* nothing of the executions past the suppression look.  Each of them may    *)
(* still send one mail, so that is what Grace counts as well; nobody joins   *)
(* them while the address is listed, and each that sends leaves them.        *)
Past(l) == Inflight(l, {"smtp"})

Grace ==
  \A l \in Lead :
    EmailOf[l] \in listed => afterOptOut[l] + Cardinality(Past(l)) <= Cardinality(Flight)

LEMMA PastFinite ==
  ASSUME NEW l \in Lead
  PROVE  /\ IsFiniteSet(Past(l)) /\ Cardinality(Past(l)) \in Nat
         /\ Cardinality(Past(l)) <= Cardinality(Flight)
         /\ IsFiniteSet(Flight) /\ Cardinality(Flight) \in Nat
<1>1. IsFiniteSet(Flight) /\ Past(l) \in SUBSET Flight
  BY DispatchAssumption DEF Past, Inflight
<1>2. IsFiniteSet(Past(l)) /\ Cardinality(Past(l)) <= Cardinality(Flight)
  BY <1>1, FS_Subset
<1> QED
  BY <1>1, <1>2, FS_CardinalityType

\* Nobody joins them: a mail that is not sent yet costs nothing.
LEMMA GraceKept ==
  ASSUME TypeOK, Grace, UNCHANGED afterOptOut, listed' \subseteq listed,
         \A l \in Lead : EmailOf[l] \in listed => Past(l)' \subseteq Past(l)
  PROVE  Grace'
<1> SUFFICES ASSUME NEW l \in Lead, EmailOf[l] \in listed'
             PROVE  afterOptOut'[l] + Cardinality(Past(l)') <= Cardinality(Flight)
  BY DEF Grace
<1>1. /\ IsFiniteSet(Past(l)) /\ Cardinality(Past(l)) \in Nat /\ Cardinality(Flight) \in Nat
      /\ Past(l)' \in SUBSET Past(l) /\ EmailOf[l] \in listed
  BY PastFinite
<1>2. /\ IsFiniteSet(Past(l)') /\ Cardinality(Past(l)') <= Cardinality(Past(l))
      /\ Cardinality(Past(l)') \in Nat
  BY <1>1, FS_Subset, FS_CardinalityType
<1>3. afterOptOut[l] + Cardinality(Past(l)) <= Cardinality(Flight) /\ afterOptOut[l] \in Nat
  BY <1>1 DEF Grace, TypeOK, HistoryOK
<1> QED
  BY <1>1, <1>2, <1>3

\* An execution that moves anywhere but to SMTP.
LEMMA NobodyJoins ==
  ASSUME TypeOK, NEW f \in Flight, NEW r, r.pc # "smtp", flight' = [flight EXCEPT ![f] = r],
         NEW l \in Lead
  PROVE  Past(l)' \subseteq Past(l)
BY DEF TypeOK, FlightsOK, Past, Inflight

LEMMA SameFlights ==
  ASSUME UNCHANGED flight, NEW l \in Lead
  PROVE  Past(l)' = Past(l)
BY DEF Past, Inflight

\* What does not touch the list, the count or the executions.
LEMMA GraceElsewhere ==
  ASSUME TypeOK, Grace, UNCHANGED <<listed, afterOptOut, flight>>
  PROVE  Grace'
BY SameFlights, GraceKept

LEMMA GraceFlight ==
  ASSUME TypeOK, Grace, NEW f \in Flight, FlightStep(f)
  PROVE  Grace'
<1> USE DEF dbVars, history
<1>a. ASSUME NEW pc, pc # "smtp", FlightTo(f, pc), UNCHANGED <<listed, afterOptOut>>
      PROVE  Grace'
  <2> DEFINE r == [flight[f] EXCEPT !.pc = pc]
  <2>1. r.pc = pc /\ flight' = [flight EXCEPT ![f] = r]
    BY <1>a DEF FlightTo, TypeOK, FlightsOK, FlightState
  <2> HIDE DEF r
  <2> QED
    BY <1>a, <2>1, NobodyJoins, GraceKept
<1>b. ASSUME ReadFailed(f), UNCHANGED <<listed, afterOptOut>>
      PROVE  Grace'
  <2> DEFINE r == [flight[f] EXCEPT !.pc = "refused",
                                    !.stepsRead = lead[FlightLead(f)].stepsSent,
                                    !.retriesRead = lead[FlightLead(f)].retryCount]
  <2>1. r.pc = "refused" /\ flight' = [flight EXCEPT ![f] = r]
    BY <1>b DEF ReadFailed, TypeOK, FlightsOK, FlightState
  <2> HIDE DEF r
  <2> QED
    BY <1>b, <2>1, NobodyJoins, GraceKept
<1>1. CASE Compose(f)
  BY <1>1, <1>a DEF Compose
<1>2. CASE SendRefused(f)
  BY <1>2, <1>a DEF SendRefused
<1>3. CASE SendSuppressed(f)
  BY <1>3, <1>a DEF SendSuppressed
<1>4. CASE SendCleared(f)
  \* The one step that joins them: the lead it is for is not listed.
  <2>1. ASSUME NEW l \in Lead, EmailOf[l] \in listed
        PROVE  Past(l)' \subseteq Past(l)
    <3>1. flight[f].job \in JobId /\ flight[f].job \in JobsOf(LeadOf(flight[f].job))
      BY <1>4, JobNames DEF SendCleared, TypeOK, FlightsOK
    <3>2. LeadOf(flight[f].job) # l
      BY <1>4, <2>1 DEF SendCleared, isSuppressed, FlightLead
    <3>3. flight[f].job \notin JobsOf(l)
      BY <3>1, <3>2 DEF JobsOf, LeadOf
    <3>4. \A g \in Flight : /\ flight'[g].job = flight[g].job
                            /\ g # f => flight'[g].pc = flight[g].pc
      BY <1>4 DEF SendCleared, TypeOK, FlightsOK, FlightState
    <3> QED
      BY <3>3, <3>4 DEF Past, Inflight
  <2> QED
    BY <1>4, <2>1, GraceKept DEF SendCleared
<1>5. CASE SmtpAccepts(f)
  <2> DEFINE l == FlightLead(f)
             r == [flight[f] EXCEPT !.pc = "sent"]
  <2>1. /\ l \in Lead /\ f \in Past(l)
        /\ r.pc = "sent" /\ flight' = [flight EXCEPT ![f] = r]
    <3>1. flight[f].job \in JobId
      BY <1>5 DEF SmtpAccepts, TypeOK, FlightsOK
    <3>2. l \in Lead /\ f \in Past(l)
      BY <1>5, <3>1, JobNames DEF SmtpAccepts, FlightLead, Past, Inflight
    <3> QED
      BY <1>5, <3>2 DEF SmtpAccepts, FlightTo, TypeOK, FlightsOK, FlightState
  <2>2. afterOptOut' = [afterOptOut EXCEPT ![l] =
                          IF EmailOf[l] \in listed THEN afterOptOut[l] + 1 ELSE afterOptOut[l]]
    BY <1>5 DEF SmtpAccepts
  <2> HIDE DEF l, r
  <2> SUFFICES ASSUME NEW k \in Lead, EmailOf[k] \in listed
               PROVE  afterOptOut'[k] + Cardinality(Past(k)') <= Cardinality(Flight)
    BY <1>5 DEF Grace, SmtpAccepts
  <2>3. /\ afterOptOut[k] + Cardinality(Past(k)) <= Cardinality(Flight)
        /\ afterOptOut[k] \in Nat
        /\ IsFiniteSet(Past(k)) /\ Cardinality(Past(k)) \in Nat /\ Cardinality(Flight) \in Nat
    BY PastFinite DEF Grace, TypeOK, HistoryOK
  <2>4. CASE k # l
    <3>1. Past(k)' \in SUBSET Past(k)
      BY <2>1, NobodyJoins
    <3>2. Cardinality(Past(k)') <= Cardinality(Past(k)) /\ Cardinality(Past(k)') \in Nat
      BY <2>3, <3>1, FS_Subset, FS_CardinalityType
    <3>3. afterOptOut'[k] = afterOptOut[k]
      BY <2>2, <2>4 DEF TypeOK, HistoryOK
    <3> QED
      BY <2>3, <3>2, <3>3
  <2>5. CASE k = l
    <3>1. Past(k)' \in SUBSET (Past(k) \ {f})
      <4>1. Past(k)' \subseteq Past(k)
        BY <2>1, NobodyJoins
      <4>2. f \notin Past(k)'
        BY <2>1 DEF Past, Inflight, TypeOK, FlightsOK
      <4> QED
        BY <4>1, <4>2
    <3>2. f \in Past(k)
      BY <2>1, <2>5
    <3>3. /\ IsFiniteSet(Past(k) \ {f})
          /\ Cardinality(Past(k) \ {f}) = Cardinality(Past(k)) - 1
      BY <2>3, <3>2, FS_RemoveElement
    <3>4. /\ Cardinality(Past(k)') <= Cardinality(Past(k) \ {f})
          /\ Cardinality(Past(k)') \in Nat
      BY <3>1, <3>3, FS_Subset, FS_CardinalityType
    <3>5. afterOptOut'[k] = afterOptOut[k] + 1
      BY <2>1, <2>2, <2>5 DEF TypeOK, HistoryOK
    <3> QED
      BY <2>3, <3>3, <3>4, <3>5
  <2> QED
    BY <2>4, <2>5
<1>6. CASE SmtpRefuses(f)
  BY <1>6, <1>a, <1>b DEF SmtpRefuses
<1>7. CASE RecordFailure(f)
  BY <1>7, <1>a DEF RecordFailure
<1>8. CASE RecordRead(f)
  <2> DEFINE r == [flight[f] EXCEPT !.pc = "record", !.stepsRead = lead[FlightLead(f)].stepsSent]
  <2>1. r.pc = "record" /\ flight' = [flight EXCEPT ![f] = r]
    BY <1>8 DEF RecordRead, TypeOK, FlightsOK, FlightState
  <2> HIDE DEF r
  <2> QED
    BY <1>8, <2>1, NobodyJoins, GraceKept DEF RecordRead
<1>9. CASE RecordWrite(f)
  BY <1>9, <1>a DEF RecordWrite
<1>10. CASE RecordFails(f)
  BY <1>10, <1>b DEF RecordFails
<1>11. CASE RecordLost(f) \/ ApiDies(f)
  BY <1>11, <1>a DEF RecordLost, ApiDies
<1>12. CASE FlightEnds(f)
  BY <1>12, NobodyJoins, GraceKept DEF FlightEnds, IdleFlight
<1> QED
  BY <1>1, <1>2, <1>3, <1>4, <1>5, <1>6, <1>7, <1>8, <1>9, <1>10, <1>11, <1>12 DEF FlightStep

LEMMA GraceWorker ==
  ASSUME TypeOK, Grace, WorkerStep \/ Crash
  PROVE  Grace'
<1> USE DEF dbVars, history
<1>a. ASSUME flight' = [f \in Flight |-> [flight[f] EXCEPT !.awaited = FALSE]],
             UNCHANGED <<listed, afterOptOut>>
      PROVE  Grace'
  <2>1. ASSUME NEW f \in Flight
        PROVE  flight'[f].pc = flight[f].pc /\ flight'[f].job = flight[f].job
    BY <1>a DEF TypeOK, FlightsOK, FlightState
  <2>2. ASSUME NEW l \in Lead PROVE Past(l)' \subseteq Past(l)
    BY <2>1 DEF Past, Inflight
  <2> QED
    BY <1>a, <2>2, GraceKept
<1>1. CASE \E f \in Flight : WorkerDispatches(f)
  BY <1>1, NobodyJoins, GraceKept DEF WorkerDispatches
<1>2. CASE \E f \in Flight : WorkerAnswered(f)
  BY <1>2, NobodyJoins, GraceKept DEF WorkerAnswered, IdleFlight
<1>3. CASE WorkerFetchRejects \/ Crash
  BY <1>3, <1>a, GraceElsewhere DEF WorkerFetchRejects, Crash
<1>4. CASE (\E j \in JobId : TakeJob(j)) \/ WorkerReleases \/ WorkerStopsDeadAddress
             \/ WorkerAsksAgainLater \/ WorkerWritesFailure \/ WorkerFinishes
  BY <1>4, GraceElsewhere
     DEF TakeJob, WorkerReleases, WorkerStopsDeadAddress, WorkerAsksAgainLater,
         WorkerWritesFailure, WorkerFinishes, WorkerWrites
<1> QED
  BY <1>1, <1>2, <1>3, <1>4 DEF WorkerStep

LEMMA GraceElse ==
  ASSUME TypeOK, Grace,
         (\E t \in Tick : TickStep(t)) \/ ReconStep \/ QueueStep \/ TimeStep
  PROVE  Grace'
<1> USE DEF dbVars, history
<1>1. CASE \E t \in Tick : TickStep(t)
  BY <1>1, GraceElsewhere DEF TickStep, TickStart, TickTakeSlot, TickSkip, TickMarkLead, TickAddJob,
                              TickReadFirstEmails, TickEnd, TickFails
<1>2. CASE ReconStep \/ QueueStep \/ TimeStep
  BY <1>2, GraceElsewhere DEF ReconStep, ReconFind, ReconAdd, ReconMark, QueueStep, RecoverStalled,
                              Prune, TimeStep, SlotComes, SlotOverdue, DateComes
<1> QED
  BY <1>1, <1>2

LEMMA GraceEnv ==
  ASSUME TypeOK, Grace, EnvStep
  PROVE  Grace'
<1> USE DEF dbVars, history
<1>1. CASE \E e \in Email : OptOut(e)
  <2>1. PICK e \in Email : OptOut(e)
    BY <1>1
  <2> SUFFICES ASSUME NEW l \in Lead, EmailOf[l] \in listed'
               PROVE  afterOptOut'[l] + Cardinality(Past(l)') <= Cardinality(Flight)
    BY DEF Grace
  <2>2. Past(l)' = Past(l)
    BY <2>1, SameFlights DEF OptOut
  <2>3. Cardinality(Past(l)) \in Nat /\ Cardinality(Past(l)) <= Cardinality(Flight)
    BY PastFinite
  <2>4. CASE EmailOf[l] = e
    BY <2>1, <2>2, <2>3, <2>4 DEF OptOut
  <2>5. CASE EmailOf[l] # e
    BY <2>1, <2>2, <2>5 DEF OptOut, Grace
  <2> QED
    BY <2>4, <2>5
<1>2. CASE \E e \in Email : Unblock(e)
  BY <1>2, SameFlights, GraceKept DEF Unblock
<1>3. CASE CampaignOpens \/ \E m \in Mailbox : MailboxToggles(m)
  BY <1>3, GraceElsewhere DEF CampaignOpens, MailboxToggles
<1>4. CASE \E l \in Lead : ReplyStored(l) \/ ReplyMarks(l) \/ ReplyMarkLost(l) \/ BounceReport(l)
  BY <1>4, GraceElsewhere DEF ReplyStored, ReplyMarks, ReplyMarkLost, BounceReport
<1> QED
  BY <1>1, <1>2, <1>3, <1>4 DEF EnvStep

LEMMA NextGrace ==
  ASSUME TypeOK, Grace, [Next]_vars
  PROVE  Grace'
<1>1. CASE UNCHANGED vars
  BY <1>1, GraceElsewhere DEF vars, dbVars, history
<1> QED
  BY <1>1, GraceFlight, GraceWorker, GraceElse, GraceEnv DEF Next

(* suppression.ts: "no code path may bypass this".  Whatever ticks overlap,  *)
(* processes die or jobs run twice, an address that opted out gets at most   *)
(* the mails that were already past sendMail's look at the list, one for     *)
(* each execution n8n runs at once; and there is no mail after those.        *)
THEOREM OptOutIsKept == Spec => []OptOutHolds
<1>1. Init => Grace
  BY DEF Init, Grace
<1>2. TypeOK /\ Grace => OptOutHolds
  <2> SUFFICES ASSUME TypeOK, Grace, NEW l \in Lead, EmailOf[l] \in listed
               PROVE  afterOptOut[l] <= Cardinality(Flight)
    BY DEF OptOutHolds
  <2>1. Cardinality(Past(l)) \in Nat /\ Cardinality(Flight) \in Nat /\ afterOptOut[l] \in Nat
    BY PastFinite DEF TypeOK, HistoryOK
  <2> QED
    BY <2>1 DEF Grace
<1> QED
  BY <1>1, <1>2, DispatchTypes, NextGrace, PTL DEF Spec

=============================================================================
