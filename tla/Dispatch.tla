------------------------------ MODULE Dispatch ------------------------------
(***************************************************************************)
(* The dispatch pipeline of one campaign: how a lead's emails get from a   *)
(* row in Postgres to an SMTP server and back into the row.                *)
(*                                                                         *)
(*   worker process   enqueuer ticks -> BullMQ -> processor; reconcile     *)
(*   n8n              runs the dispatch workflow the processor's fetch     *)
(*                    starts, and goes on if the worker is gone            *)
(*   API process      sendMail, and the routes that reply, bounce and      *)
(*                    suppress; they share the lead rows with the worker   *)
(*                                                                         *)
(* A step is the code between two awaits, so that everything another       *)
(* handler can do in between is a behaviour of the model.  Reads that      *)
(* follow each other with nothing written in between are one step, taken   *)
(* at the last of them.                                                    *)
(***************************************************************************)
EXTENDS LeadRow, FiniteSets

CONSTANTS
  Tick,       \* enqueuer ticks that may run at once: setInterval does not wait
  Flight,     \* n8n executions that may be under way at once
  Email, EmailOf,   \* addresses; several leads may carry the same one
  Senders,    \* the campaign's mailboxes (CampaignMailbox)
  MaxUnknownRetries,   \* MAX_UNKNOWN_RETRIES, 3 in the code
  Faults,     \* the kinds of fault that happen: a subset of FaultKind
  MaxFaults,  \* a bound on how many
  Slow,       \* a tick or reconciliation may outlast the waits it books
  Events      \* what people and mailboxes do: a subset of EventKind

FaultKind == {"crash", "tick", "fetch", "api", "db"}
EventKind == {"campaign", "mailbox", "optout", "unblock", "reply", "bounce"}

ASSUME DispatchAssumption ==
  /\ EmailOf \in [Lead -> Email]
  /\ Senders \subseteq Mailbox
  /\ MaxUnknownRetries \in Nat
  /\ Faults \subseteq FaultKind
  /\ MaxFaults \in Nat
  /\ IsFiniteSet(Flight)
  /\ Slow \in BOOLEAN
  /\ Events \subseteq EventKind

VARIABLES
  lead,         \* Postgres: the lead rows
  listed,       \* Postgres: addresses on the suppression list
  replied,      \* Postgres: leads with a reply that ends their sequence
  marking,      \* replies stored whose lead is not written yet
  open,         \* the campaign is ACTIVE, not bounce-paused, its send window open
  canSend,      \* mailboxes ACTIVE, with a mailing address, under their daily limit
  reserved,     \* Redis: a mailbox's booked slot while it is still ahead
  tries,        \* Redis: how often a lead's address check was put off
  waiting,      \* BullMQ: jobs delayed or waiting
  active,       \* BullMQ: jobs a worker took
  kept,         \* BullMQ: records of finished jobs a lead still names
  stalledOnce,  \* BullMQ: jobs already recovered from a dead worker once
  ahead,        \* jobs whose slot time has not come
  tick,         \* the enqueuer's ticks
  worker,       \* the processor: one job at a time (concurrency 1)
  recon,        \* the reconciliation pass
  flight,       \* n8n executions and the sendMail call each makes
  faults,       \* faults so far
  mailed,       \* history: mails of a lead an SMTP server accepted
  from,         \* history: the mailboxes they left from
  afterOptOut,  \* history: those that left while the address was listed
  afterReply    \* history: those that left after a reply was stored

dbVars == <<lead, listed, replied, marking>>
bullVars == <<waiting, active, kept, stalledOnce>>
slotVars == <<reserved, ahead>>
envVars == <<open, canSend>>
history == <<mailed, from, afterOptOut, afterReply>>
vars == <<dbVars, envVars, slotVars, tries, bullVars, tick, worker, recon, flight,
          faults, history>>

-----------------------------------------------------------------------------
Job == JobId \union {NoJob}

TickState == [pc: {"idle", "pass1", "mark1", "add1", "pass2", "mark2", "add2"},
              pool: SUBSET Mailbox, todo: SUBSET (Lead \X Mailbox), job: Job]
IdleTick == [pc |-> "idle", pool |-> {}, todo |-> {}, job |-> NoJob]

\* seen: the queuedJobId the processor read last.
WorkerState == [pc: {"idle", "release", "ready", "await", "failed", "finish"},
                job: Job, seen: Job, followUp: BOOLEAN]
IdleWorker == [pc |-> "idle", job |-> NoJob, seen |-> NoJob, followUp |-> FALSE]

ReconState == [pc: {"idle", "add", "mark"}, job: Job]
IdleRecon == [pc |-> "idle", job |-> NoJob]

\* awaited: the processor still waits for this execution's answer.
FlightState ==
  [pc: {"idle", "compose", "send", "smtp", "sent", "record", "refused", "ok", "failed"},
   job: Job, followUp: BOOLEAN, stepsRead: Nat, retriesRead: Nat, awaited: BOOLEAN]
IdleFlight == [pc |-> "idle", job |-> NoJob, followUp |-> FALSE, stepsRead |-> 0,
               retriesRead |-> 0, awaited |-> FALSE]

(* The type invariant.  A step under way holds a job, not the null of one.  *)
DbOK ==
  /\ lead \in [Lead -> Row]
  /\ listed \subseteq Email
  /\ replied \subseteq Lead
  /\ marking \subseteq Lead
  /\ open \in BOOLEAN
  /\ canSend \subseteq Mailbox

QueueOK ==
  /\ reserved \in [Mailbox -> Job]
  /\ tries \in [Lead -> 0..MaxUnknownRetries]
  /\ waiting \subseteq JobId
  /\ active \subseteq JobId
  /\ kept \subseteq JobId
  /\ stalledOnce \subseteq JobId
  /\ ahead \subseteq JobId

TicksOK ==
  /\ tick \in [Tick -> TickState]
  /\ \A t \in Tick : tick[t].pc \in {"mark1", "add1", "mark2", "add2"} => tick[t].job \in JobId

WorkerOK == worker \in WorkerState /\ (worker.pc # "idle" => worker.job \in JobId)

ReconOK == recon \in ReconState /\ (recon.pc # "idle" => recon.job \in JobId)

FlightsOK ==
  /\ flight \in [Flight -> FlightState]
  /\ \A f \in Flight : flight[f].pc # "idle" => flight[f].job \in JobId

HistoryOK ==
  /\ faults \in 0..MaxFaults
  /\ mailed \in [Lead -> Nat]
  /\ from \in [Lead -> SUBSET Mailbox]
  /\ afterOptOut \in [Lead -> Nat]
  /\ afterReply \in [Lead -> Nat]

TypeOK == DbOK /\ QueueOK /\ TicksOK /\ WorkerOK /\ ReconOK /\ FlightsOK /\ HistoryOK

Init ==
  /\ lead = [l \in Lead |-> NewLead]
  /\ listed = {}
  /\ replied = {}
  /\ marking = {}
  /\ open = TRUE
  /\ canSend = Mailbox
  /\ reserved = [m \in Mailbox |-> NoJob]
  /\ tries = [l \in Lead |-> 0]
  /\ waiting = {} /\ active = {} /\ kept = {} /\ stalledOnce = {} /\ ahead = {}
  /\ tick = [t \in Tick |-> IdleTick]
  /\ worker = IdleWorker
  /\ recon = IdleRecon
  /\ flight = [f \in Flight |-> IdleFlight]
  /\ faults = 0
  /\ mailed = [l \in Lead |-> 0]
  /\ from = [l \in Lead |-> {}]
  /\ afterOptOut = [l \in Lead |-> 0]
  /\ afterReply = [l \in Lead |-> 0]

-----------------------------------------------------------------------------
(* Job ids.  A slot time is never used twice; the model reuses the lowest   *)
(* one nothing names any more.                                              *)
InRedis(j) == j \in waiting \/ j \in active \/ j \in kept

Fresh(j) ==
  /\ ~InRedis(j)
  /\ j \notin ahead
  /\ \A l \in Lead : lead[l].queuedJobId # j
  /\ \A t \in Tick : tick[t].job # j
  /\ worker.job # j /\ worker.seen # j
  /\ recon.job # j
  /\ \A f \in Flight : flight[f].job # j

NewJobs(l, m) ==
  {j \in {l} \X {m} \X Slot :
     Fresh(j) /\ \A s \in Slot : Fresh(<<l, m, s>>) => j[3] <= s}

Fault(kind) ==
  /\ kind \in Faults
  /\ faults < MaxFaults
  /\ faults' = faults + 1

-----------------------------------------------------------------------------
(* The enqueuer (enqueuer.ts, runEnqueuerTick).                             *)

\* mutant: replies are left to the status alone
FollowUpDue_AnyReply(l) ==
  lead[l].status = "CONTACTED" /\ lead[l].nextStepAt = "now" /\ lead[l].queuedJobId = NoJob

FollowUpDue(l) ==
  /\ lead[l].status = "CONTACTED"
  /\ lead[l].nextStepAt = "now"
  /\ lead[l].queuedJobId = NoJob
  /\ l \notin replied

FirstEmailDue(l) ==
  \/ lead[l].status = "UNTOUCHED"
  \/ lead[l].status = "QUEUED" /\ lead[l].nextRetryAt = "now"

\* Mailboxes that may take a lead this tick.
Pool == {m \in canSend : reserved[m] = NoJob}

(* Campaign, mailboxes and reservations are read, then the due follow-ups   *)
(* of the mailboxes in the pool.                                            *)
TickStart(t) ==
  /\ tick[t].pc = "idle"
  /\ open
  /\ Pool # {}
  /\ tick' = [tick EXCEPT ![t] =
       [pc |-> "pass1", pool |-> Pool, job |-> NoJob,
        todo |-> {p \in Lead \X Pool : FollowUpDue(p[1]) /\ lead[p[1]].mailboxId = p[2]}]]
  /\ UNCHANGED <<dbVars, envVars, slotVars, tries, bullVars, worker, recon, flight,
                 faults, history>>

(* takeSlot: a lead the tick read gets the next slot of a mailbox still in  *)
(* the pool, and the slot is reserved in Redis.  The mailbox leaves the     *)
(* pool, and the leads only it could take are passed over.                  *)
TickTakeSlot(t, l, m) ==
  /\ tick[t].pc \in {"pass1", "pass2"}
  /\ <<l, m>> \in tick[t].todo
  /\ \E j \in NewJobs(l, m) :
       /\ reserved' = [reserved EXCEPT ![m] = j]
       /\ ahead' = ahead \union {j}
       /\ tick' = [tick EXCEPT ![t] =
            [pc |-> IF tick[t].pc = "pass1" THEN "mark1" ELSE "mark2",
             pool |-> tick[t].pool \ {m},
             todo |-> {p \in tick[t].todo : p[1] # l /\ p[2] # m},
             job |-> j]]
  /\ UNCHANGED <<dbVars, envVars, tries, bullVars, worker, recon, flight, faults, history>>

(* A lead this tick leaves for later: its window is closed, the slot would  *)
(* land after the window, or its mailboxes are all taken.                   *)
TickSkip(t, l) ==
  /\ tick[t].pc \in {"pass1", "pass2"}
  /\ \E p \in tick[t].todo : p[1] = l
  /\ tick' = [tick EXCEPT ![t].todo = {p \in tick[t].todo : p[1] # l}]
  /\ UNCHANGED <<dbVars, envVars, slotVars, tries, bullVars, worker, recon, flight,
                 faults, history>>

(* prisma.lead.update by id alone: whatever the row has become meanwhile.   *)
TickMarkLead(t) ==
  LET j == tick[t].job IN
  /\ \/ /\ tick[t].pc = "mark1"
        /\ lead' = [lead EXCEPT ![LeadOf(j)] = bookFollowUp(@, j)]
        /\ tick' = [tick EXCEPT ![t].pc = "add1"]
     \/ /\ tick[t].pc = "mark2"
        /\ lead' = [lead EXCEPT ![LeadOf(j)] = bookFirstEmail(@, j)]
        /\ tick' = [tick EXCEPT ![t].pc = "add2"]
  /\ UNCHANGED <<listed, replied, marking, envVars, slotVars, tries, bullVars, worker, recon,
                 flight, faults, history>>

(* queue.add; with no mailbox left in the pool the tick is over.            *)
TickAddJob(t) ==
  /\ tick[t].pc \in {"add1", "add2"}
  /\ waiting' = waiting \union {tick[t].job}
  /\ \/ tick[t].pool = {} /\ tick' = [tick EXCEPT ![t] = IdleTick]
     \/ /\ tick[t].pool # {}
        /\ tick' = [tick EXCEPT ![t].pc = IF tick[t].pc = "add1" THEN "pass1" ELSE "pass2",
                                ![t].job = NoJob]
  /\ UNCHANGED <<dbVars, envVars, slotVars, tries, active, kept, stalledOnce, worker,
                 recon, flight, faults, history>>

(* The due follow-ups are done: the first emails are read.                  *)
TickReadFirstEmails(t) ==
  /\ tick[t].pc = "pass1"
  /\ tick[t].todo = {}
  /\ tick' = [tick EXCEPT ![t].pc = "pass2",
                          ![t].todo = {l \in Lead : FirstEmailDue(l)}
                                        \X (Senders \intersect tick[t].pool)]
  /\ UNCHANGED <<dbVars, envVars, slotVars, tries, bullVars, worker, recon, flight,
                 faults, history>>

TickEnd(t) ==
  /\ tick[t].pc = "pass2"
  /\ tick[t].todo = {}
  /\ tick' = [tick EXCEPT ![t] = IdleTick]
  /\ UNCHANGED <<dbVars, envVars, slotVars, tries, bullVars, worker, recon, flight,
                 faults, history>>

(* A query, a Redis command or queue.add throws: the tick is dropped where  *)
(* it stands (the timer logs it) and the next one starts over.              *)
TickFails(t) ==
  /\ Fault("tick")
  /\ tick[t].pc # "idle"
  /\ tick' = [tick EXCEPT ![t] = IdleTick]
  /\ UNCHANGED <<dbVars, envVars, slotVars, tries, bullVars, worker, recon, flight, history>>

-----------------------------------------------------------------------------
(* The processor (processor.ts, processDispatchJob).                        *)

\* Mailbox, campaign and lead still allow this job.
Fits(l, m) ==
  IF lead[l].stepsSent > 0
  THEN lead[l].mailboxId = m /\ lead[l].status = "CONTACTED" /\ lead[l].nextStepAt = "now"
  ELSE lead[l].status = "QUEUED" /\ m \in Senders

(* BullMQ hands over a job whose delay is over; mailbox and lead are read   *)
(* and judged.  Nothing compares the job with the lead's queuedJobId.       *)
TakeJob(j) ==
  /\ worker.pc = "idle"
  /\ j \in waiting \ ahead
  /\ waiting' = waiting \ {j}
  /\ active' = active \union {j}
  /\ worker' = [pc |-> IF open /\ MailboxOf(j) \in canSend /\ Fits(LeadOf(j), MailboxOf(j))
                       THEN "ready" ELSE "release",
                job |-> j, seen |-> lead[LeadOf(j)].queuedJobId,
                followUp |-> lead[LeadOf(j)].stepsSent > 0]
  /\ UNCHANGED <<dbVars, envVars, slotVars, tries, kept, stalledOnce, tick, recon, flight,
                 faults, history>>

\* The write a job ends with.
WorkerWrites(row) ==
  /\ lead' = [lead EXCEPT ![LeadOf(worker.job)] = row]
  /\ worker' = [worker EXCEPT !.pc = "finish"]
  /\ UNCHANGED <<listed, replied, marking>>

\* freeSlot deletes the reservation only while it still is the slot of the lead it read.
FreeSlot ==
  LET m == MailboxOf(worker.job) IN
  reserved' = [reserved EXCEPT ![m] = IF @ = worker.seen THEN NoJob ELSE @]

\* Not eligible any more: back to the enqueuer.
WorkerReleases ==
  /\ worker.pc = "release"
  /\ WorkerWrites(releaseLead(lead[LeadOf(worker.job)], worker.followUp))
  /\ UNCHANGED <<envVars, slotVars, tries, bullVars, tick, recon, flight, faults, history>>

\* A first email to a placeholder address, or one its server does not know.
WorkerStopsDeadAddress ==
  /\ worker.pc = "ready"
  /\ ~worker.followUp
  /\ WorkerWrites(stopDeadAddress(lead[LeadOf(worker.job)]))
  /\ FreeSlot
  /\ UNCHANGED <<envVars, ahead, tries, bullVars, tick, recon, flight, faults, history>>

\* mutant: one try too many
TriesLeft_OneMore(l) == tries[l] <= MaxUnknownRetries

TriesLeft(l) == tries[l] < MaxUnknownRetries

\* The recipient's server says "not now": asked again later, a few times.
WorkerAsksAgainLater ==
  LET l == LeadOf(worker.job) IN
  /\ worker.pc = "ready"
  /\ ~worker.followUp
  /\ TriesLeft(l)
  /\ tries' = [tries EXCEPT ![l] = @ + 1]
  /\ WorkerWrites(askAgainLater(lead[l]))
  /\ FreeSlot
  /\ UNCHANGED <<envVars, ahead, bullVars, tick, recon, flight, faults, history>>

\* The fetch that starts the n8n workflow.
WorkerDispatches(f) ==
  /\ worker.pc = "ready"
  /\ flight[f].pc = "idle"
  /\ worker' = [worker EXCEPT !.pc = "await"]
  /\ flight' = [flight EXCEPT ![f] =
       [pc |-> "compose", job |-> worker.job, followUp |-> FALSE, stepsRead |-> 0,
        retriesRead |-> 0, awaited |-> TRUE]]
  /\ UNCHANGED <<dbVars, envVars, slotVars, tries, bullVars, tick, recon, faults, history>>

(* n8n answered.  After a failure the lead is read again: one that still     *)
(* names a job has not been written about by sendMail ...                    *)
WorkerAnswered(f) ==
  LET row == lead[LeadOf(worker.job)]
      unwritten == row.queuedJobId # NoJob /\ (worker.followUp \/ row.status = "QUEUED")
  IN
  /\ worker.pc = "await"
  /\ flight[f].awaited
  /\ flight[f].pc \in {"ok", "failed"}
  /\ worker' = IF flight[f].pc = "failed" /\ unwritten
               THEN [worker EXCEPT !.pc = "failed", !.seen = row.queuedJobId]
               ELSE [worker EXCEPT !.pc = "finish"]
  /\ flight' = [flight EXCEPT ![f] = IdleFlight]
  /\ UNCHANGED <<dbVars, envVars, slotVars, tries, bullVars, tick, recon, faults, history>>

\* ... so the failure is written, and the job throws.
WorkerWritesFailure ==
  /\ worker.pc = "failed"
  /\ WorkerWrites(dispatchFailed(lead[LeadOf(worker.job)], worker.followUp, worker.seen))
  /\ UNCHANGED <<envVars, slotVars, tries, bullVars, tick, recon, flight, faults, history>>

(* The fetch itself rejects: n8n is down, or it answers too late and the    *)
(* execution goes on without a listener.  The job fails; the lead keeps the *)
(* id of a failed job.                                                      *)
WorkerFetchRejects ==
  /\ Fault("fetch")
  /\ \/ worker.pc = "ready" /\ UNCHANGED flight
     \/ /\ worker.pc = "await"
        /\ flight' = [f \in Flight |-> [flight[f] EXCEPT !.awaited = FALSE]]
  /\ worker' = [worker EXCEPT !.pc = "finish"]
  /\ UNCHANGED <<dbVars, envVars, slotVars, tries, bullVars, tick, recon, history>>

(* The job is completed or failed: either way BullMQ keeps its record.  The *)
(* model keeps it while it matters, that is while a lead names the job.     *)
WorkerFinishes ==
  LET j == worker.job IN
  /\ worker.pc = "finish"
  /\ worker' = IdleWorker
  /\ active' = active \ {j}
  /\ stalledOnce' = stalledOnce \ {j}
  /\ kept' = IF recon.job = j \/ \E l \in Lead : lead[l].queuedJobId = j
             THEN kept \union {j} ELSE kept
  /\ UNCHANGED <<dbVars, envVars, slotVars, tries, waiting, tick, recon, flight, faults,
                 history>>

-----------------------------------------------------------------------------
(* The n8n workflow and sendMail (dispatch.json, internalAi.ts,             *)
(* mailSender.ts).                                                          *)

FlightLead(f) == LeadOf(flight[f].job)
FlightTo(f, pc) == flight' = [flight EXCEPT ![f].pc = pc]

\* /internal/ai/personalize writes the email, or ends a sequence with nothing left.
Compose(f) ==
  LET l == FlightLead(f) IN
  /\ flight[f].pc = "compose"
  /\ IF lead[l].stepsSent > FollowUps
     THEN lead' = [lead EXCEPT ![l] = endSequence(@)] /\ FlightTo(f, "failed")
     ELSE UNCHANGED lead /\ FlightTo(f, "send")
  /\ UNCHANGED <<listed, replied, marking, envVars, slotVars, tries, bullVars, tick, worker, recon,
                 faults, history>>

\* sendMail's sender rules, read from the lead as it is now.
SenderRule(l, m) ==
  IF lead[l].stepsSent > 0 THEN lead[l].mailboxId \in {m, NoMailbox} ELSE m \in Senders

(* A workflow step fails, the mailbox has no credential, the compliance     *)
(* check refuses, the token is not renewed: the lead is left as it was.     *)
SendRefused(f) ==
  /\ flight[f].pc \in {"compose", "send"}
  /\ FlightTo(f, "failed")
  /\ UNCHANGED <<dbVars, envVars, slotVars, tries, bullVars, tick, worker, recon, faults,
                 history>>

\* mutant: the row is trusted to say what the list says
isSuppressed_ByRow(l) == lead[l].status = "SUPPRESSED"

isSuppressed(l) == EmailOf[l] \in listed

SendSuppressed(f) ==
  LET l == FlightLead(f) IN
  /\ flight[f].pc = "send"
  /\ SenderRule(l, MailboxOf(flight[f].job))
  /\ isSuppressed(l)
  /\ lead' = [lead EXCEPT ![l] = suppressAtSend(@)]
  /\ FlightTo(f, "failed")
  /\ UNCHANGED <<listed, replied, marking, envVars, slotVars, tries, bullVars, tick, worker, recon,
                 faults, history>>

\* The suppression floor is passed.  No status is looked at from here on.
SendCleared(f) ==
  LET l == FlightLead(f) IN
  /\ flight[f].pc = "send"
  /\ SenderRule(l, MailboxOf(flight[f].job))
  /\ ~isSuppressed(l)
  /\ flight' = [flight EXCEPT ![f].pc = "smtp", ![f].followUp = lead[l].stepsSent > 0]
  /\ UNCHANGED <<dbVars, envVars, slotVars, tries, bullVars, tick, worker, recon, faults,
                 history>>

SmtpAccepts(f) ==
  LET l == FlightLead(f) IN
  /\ flight[f].pc = "smtp"
  /\ FlightTo(f, "sent")
  /\ mailed' = [mailed EXCEPT ![l] = @ + 1]
  /\ from' = [from EXCEPT ![l] = @ \union {MailboxOf(flight[f].job)}]
  /\ afterOptOut' = [afterOptOut EXCEPT ![l] = IF EmailOf[l] \in listed THEN @ + 1 ELSE @]
  /\ afterReply' = [afterReply EXCEPT ![l] = IF l \in replied THEN @ + 1 ELSE @]
  /\ UNCHANGED <<dbVars, envVars, slotVars, tries, bullVars, tick, worker, recon, faults>>

(* recordSendFailure: a hard bounce is written at once; anything else reads  *)
(* the lead first, to see which email it was and how often it failed.        *)
ReadFailed(f) ==
  flight' = [flight EXCEPT ![f].pc = "refused",
                           ![f].stepsRead = lead[FlightLead(f)].stepsSent,
                           ![f].retriesRead = lead[FlightLead(f)].retryCount]

SmtpRefuses(f) ==
  /\ flight[f].pc = "smtp"
  /\ \/ lead' = [lead EXCEPT ![FlightLead(f)] = hardBounce(@)] /\ FlightTo(f, "failed")
     \/ UNCHANGED lead /\ ReadFailed(f)
  /\ UNCHANGED <<listed, replied, marking, envVars, slotVars, tries, bullVars, tick, worker,
                 recon, faults, history>>

RecordFailure(f) ==
  /\ flight[f].pc = "refused"
  /\ lead' = [lead EXCEPT ![FlightLead(f)] =
                softFailure(@, flight[f].stepsRead, flight[f].retriesRead)]
  /\ FlightTo(f, "failed")
  /\ UNCHANGED <<listed, replied, marking, envVars, slotVars, tries, bullVars, tick, worker,
                 recon, faults, history>>

\* The mailbox's counters are written, then stepsSent is read ...
RecordRead(f) ==
  /\ flight[f].pc = "sent"
  /\ flight' = [flight EXCEPT ![f].pc = "record", ![f].stepsRead = lead[FlightLead(f)].stepsSent]
  /\ UNCHANGED <<dbVars, envVars, slotVars, tries, bullVars, tick, worker, recon, faults,
                 history>>

\* ... and the lead is written, whatever its status is by now.
RecordWrite(f) ==
  LET l == FlightLead(f) IN
  /\ flight[f].pc = "record"
  /\ lead' = [lead EXCEPT ![l] = recordSent(@, flight[f].stepsRead, flight[f].followUp,
                                            MailboxOf(flight[f].job))]
  /\ FlightTo(f, "ok")
  /\ UNCHANGED <<listed, replied, marking, envVars, slotVars, tries, bullVars, tick, worker, recon,
                 faults, history>>

(* The mailbox row is gone or the database is, after the mail left: the     *)
(* same catch that handles an SMTP error files it as a failed send.         *)
RecordFails(f) ==
  /\ Fault("db")
  /\ flight[f].pc = "sent"
  /\ ReadFailed(f)
  /\ UNCHANGED <<dbVars, envVars, slotVars, tries, bullVars, tick, worker, recon, history>>

\* The write of the lead fails: the error is swallowed, the answer is the same.
RecordLost(f) ==
  /\ Fault("db")
  /\ \/ flight[f].pc = "record" /\ FlightTo(f, "ok")
     \/ flight[f].pc = "refused" /\ FlightTo(f, "failed")
  /\ UNCHANGED <<dbVars, envVars, slotVars, tries, bullVars, tick, worker, recon, history>>

\* The API process restarts under the call; n8n takes its failure branch.
ApiDies(f) ==
  /\ Fault("api")
  /\ flight[f].pc \in {"send", "smtp", "sent", "record", "refused"}
  /\ FlightTo(f, "failed")
  /\ UNCHANGED <<dbVars, envVars, slotVars, tries, bullVars, tick, worker, recon, history>>

\* Nobody listens for the answer.
FlightEnds(f) ==
  /\ flight[f].pc \in {"ok", "failed"}
  /\ ~flight[f].awaited
  /\ flight' = [flight EXCEPT ![f] = IdleFlight]
  /\ UNCHANGED <<dbVars, envVars, slotVars, tries, bullVars, tick, worker, recon, faults,
                 history>>

-----------------------------------------------------------------------------
(* Reconciliation (reconcile.ts, reconcileStuckLeads): a lead 15 minutes    *)
(* past its slot whose job BullMQ does not know gets a new job.             *)

\* mutant: as before there were follow-ups
Overdue_FirstEmail(l) ==
  lead[l].status = "QUEUED" /\ lead[l].queuedJobId # NoJob /\ lead[l].slotOverdue

Overdue(l) ==
  /\ lead[l].status \in {"QUEUED", "CONTACTED"}
  /\ lead[l].queuedJobId # NoJob
  /\ lead[l].slotOverdue

(* The query and getJob: a job missing when the lead is read never comes    *)
(* back, so it is missing when it is looked up.                             *)
ReconFind(l) ==
  LET old == lead[l].queuedJobId IN
  /\ recon.pc = "idle"
  /\ Overdue(l)
  /\ ~InRedis(old)
  /\ \E j \in NewJobs(l, MailboxOf(old)) : recon' = [pc |-> "add", job |-> j]
  /\ UNCHANGED <<dbVars, envVars, slotVars, tries, bullVars, tick, worker, flight, faults,
                 history>>

\* Thirty seconds from now, with no slot reserved.
ReconAdd ==
  /\ recon.pc = "add"
  /\ recon' = [recon EXCEPT !.pc = "mark"]
  /\ waiting' = waiting \union {recon.job}
  /\ ahead' = ahead \union {recon.job}
  /\ UNCHANGED <<dbVars, envVars, reserved, tries, active, kept, stalledOnce, tick, worker,
                 flight, faults, history>>

ReconMark ==
  /\ recon.pc = "mark"
  /\ recon' = IdleRecon
  /\ lead' = [lead EXCEPT ![LeadOf(recon.job)] = bookFollowUp(@, recon.job)]
  /\ UNCHANGED <<listed, replied, marking, envVars, slotVars, tries, bullVars, tick, worker,
                 flight, faults, history>>

-----------------------------------------------------------------------------
(* The worker process dies and comes back: its ticks, its job and its       *)
(* reconciliation are gone, n8n's executions go on unheard, and the job it  *)
(* held stays on BullMQ's active list until its lock has run out.           *)
Crash ==
  /\ Fault("crash")
  /\ tick' = [t \in Tick |-> IdleTick]
  /\ worker' = IdleWorker
  /\ recon' = IdleRecon
  /\ flight' = [f \in Flight |-> [flight[f] EXCEPT !.awaited = FALSE]]
  /\ UNCHANGED <<dbVars, envVars, slotVars, tries, bullVars, history>>

\* BullMQ's stalled check: run again the first time, failed the second.
RecoverStalled(j) ==
  /\ j \in active
  /\ worker.job # j
  /\ active' = active \ {j}
  /\ IF j \in stalledOnce
     THEN /\ stalledOnce' = stalledOnce \ {j}
          /\ kept' = kept \union {j}
          /\ UNCHANGED waiting
     ELSE /\ stalledOnce' = stalledOnce \union {j}
          /\ waiting' = waiting \union {j}
          /\ UNCHANGED kept
  /\ UNCHANGED <<dbVars, envVars, slotVars, tries, tick, worker, recon, flight, faults,
                 history>>

\* removeOnComplete, removeOnFail: a day, a week, or ten thousand records later.
Prune(j) ==
  /\ j \in kept
  /\ kept' = kept \ {j}
  /\ UNCHANGED <<dbVars, envVars, slotVars, tries, waiting, active, stalledOnce, tick,
                 worker, recon, flight, faults, history>>

-----------------------------------------------------------------------------
(* Time.  Unless Slow, a tick is over before the slots it books come (two    *)
(* and a half minutes at least) and before a date does, reconciliation has   *)
(* written a lead before the 30 seconds of its new job are over, and a job   *)
(* whose slot has come is worked off before the shortest retry (27 minutes). *)
(* Slow or not, nothing that works on a lead takes that long: the fetch      *)
(* gives up after 5 minutes, SMTP after 10.                                  *)
Prompt(l) ==
  /\ worker.job \notin JobsOf(l)
  /\ \A f \in Flight : flight[f].job \notin JobsOf(l)
  /\ Slow \/ /\ \A t \in Tick : tick[t].pc = "idle"
             /\ JobsOf(l) \intersect ((waiting \ ahead) \union active) = {}

\* A reservation outlives its slot by two minutes, but one that has come round
\* keeps no mailbox out of the pool: here it ends with the slot.
SlotComes(j) ==
  /\ j \in ahead
  /\ Slow \/ (recon.job # j /\ \A t \in Tick : tick[t].job # j)
  /\ ahead' = ahead \ {j}
  /\ reserved' = [m \in Mailbox |-> IF reserved[m] = j THEN NoJob ELSE reserved[m]]
  /\ UNCHANGED <<dbVars, envVars, tries, bullVars, tick, worker, recon, flight, faults,
                 history>>

\* Fifteen minutes on.
SlotOverdue(l) ==
  /\ lead[l].queuedJobId \notin ahead \union {NoJob}
  /\ ~lead[l].slotOverdue
  /\ Slow \/ \A t \in Tick : tick[t].job # lead[l].queuedJobId
  /\ lead' = [lead EXCEPT ![l].slotOverdue = TRUE]
  /\ UNCHANGED <<listed, replied, marking, envVars, slotVars, tries, bullVars, tick, worker,
                 recon, flight, faults, history>>

\* A follow-up's day comes, or a retry's backoff ends.
DateComes(l) ==
  /\ Prompt(l)
  /\ \/ /\ lead[l].nextStepAt = "later"
        /\ lead' = [lead EXCEPT ![l].nextStepAt = "now"]
     \/ /\ lead[l].nextRetryAt = "later"
        /\ lead' = [lead EXCEPT ![l].nextRetryAt = "now"]
  /\ UNCHANGED <<listed, replied, marking, envVars, slotVars, tries, bullVars, tick, worker,
                 recon, flight, faults, history>>

-----------------------------------------------------------------------------
(* The dashboard, the mailboxes and the recipients.                         *)

\* Launch, pause, archive, the bounce breaker, the send window.
CampaignOpens ==
  /\ "campaign" \in Events
  /\ open' = ~open
  /\ UNCHANGED <<dbVars, canSend, slotVars, tries, bullVars, tick, worker, recon, flight,
                 faults, history>>

\* Pause and resume, the daily limit, a mailing address added or taken away.
MailboxToggles(m) ==
  /\ "mailbox" \in Events
  /\ canSend' = IF m \in canSend THEN canSend \ {m} ELSE canSend \union {m}
  /\ UNCHANGED <<dbVars, open, slotVars, tries, bullVars, tick, worker, recon, flight,
                 faults, history>>

\* suppressEmail: the list and every row with the address, in one transaction.
OptOut(e) ==
  /\ "optout" \in Events
  /\ e \notin listed
  /\ listed' = listed \union {e}
  /\ lead' = [l \in Lead |-> IF EmailOf[l] = e THEN suppressEmail(lead[l]) ELSE lead[l]]
  /\ afterOptOut' = [l \in Lead |-> IF EmailOf[l] = e THEN 0 ELSE afterOptOut[l]]
  /\ UNCHANGED <<replied, marking, envVars, slotVars, tries, bullVars, tick, worker, recon,
                 flight, faults, mailed, from, afterReply>>

\* unsuppressEmail: the rows stay SUPPRESSED.
Unblock(e) ==
  /\ "unblock" \in Events
  /\ e \in listed
  /\ listed' = listed \ {e}
  /\ UNCHANGED <<lead, replied, marking, envVars, slotVars, tries, bullVars, tick, worker,
                 recon, flight, faults, history>>

(* n8n's poll found a reply to one of the lead's mails: it is stored, with  *)
(* no label yet, and the lead is written after that.                        *)
ReplyStored(l) ==
  /\ "reply" \in Events
  /\ lead[l].stepsSent > 0
  /\ l \notin replied
  /\ replied' = replied \union {l}
  /\ marking' = marking \union {l}
  /\ UNCHANGED <<lead, listed, envVars, slotVars, tries, bullVars, tick, worker, recon,
                 flight, faults, history>>

ReplyMarks(l) ==
  /\ l \in marking
  /\ marking' = marking \ {l}
  /\ lead' = [lead EXCEPT ![l] = replyArrives(@)]
  /\ UNCHANGED <<listed, replied, envVars, slotVars, tries, bullVars, tick, worker, recon,
                 flight, faults, history>>

\* The API restarts in between; the poll does not look for this reply again.
ReplyMarkLost(l) ==
  /\ Fault("api")
  /\ l \in marking
  /\ marking' = marking \ {l}
  /\ UNCHANGED <<lead, listed, replied, envVars, slotVars, tries, bullVars, tick, worker,
                 recon, flight, history>>

\* The poll found a bounce report instead; it counts as a reply on the lead too.
BounceReport(l) ==
  /\ "bounce" \in Events
  /\ lead[l].stepsSent > 0
  /\ lead[l].status \in Waiting
  /\ lead' = [lead EXCEPT ![l] = bounceReported(@)]
  /\ replied' = replied \union {l}
  /\ UNCHANGED <<listed, marking, envVars, slotVars, tries, bullVars, tick, worker, recon,
                 flight, faults, history>>

-----------------------------------------------------------------------------
TickStep(t) ==
  \/ TickStart(t)
  \/ \E l \in Lead, m \in Mailbox : TickTakeSlot(t, l, m)
  \/ \E l \in Lead : TickSkip(t, l)
  \/ TickMarkLead(t) \/ TickAddJob(t) \/ TickReadFirstEmails(t) \/ TickEnd(t)
  \/ TickFails(t)

WorkerStep ==
  \/ \E j \in JobId : TakeJob(j)
  \/ WorkerReleases \/ WorkerStopsDeadAddress \/ WorkerAsksAgainLater
  \/ \E f \in Flight : WorkerDispatches(f) \/ WorkerAnswered(f)
  \/ WorkerWritesFailure \/ WorkerFetchRejects \/ WorkerFinishes

FlightStep(f) ==
  \/ Compose(f) \/ SendRefused(f) \/ SendSuppressed(f) \/ SendCleared(f)
  \/ SmtpAccepts(f) \/ SmtpRefuses(f) \/ RecordFailure(f)
  \/ RecordRead(f) \/ RecordWrite(f) \/ RecordFails(f) \/ RecordLost(f)
  \/ ApiDies(f) \/ FlightEnds(f)

ReconStep == (\E l \in Lead : ReconFind(l)) \/ ReconAdd \/ ReconMark

QueueStep == \E j \in JobId : RecoverStalled(j) \/ Prune(j)

TimeStep == (\E j \in JobId : SlotComes(j)) \/ (\E l \in Lead : SlotOverdue(l) \/ DateComes(l))

EnvStep ==
  \/ CampaignOpens
  \/ \E m \in Mailbox : MailboxToggles(m)
  \/ \E e \in Email : OptOut(e) \/ Unblock(e)
  \/ \E l \in Lead : ReplyStored(l) \/ ReplyMarks(l) \/ ReplyMarkLost(l) \/ BounceReport(l)

Next ==
  \/ \E t \in Tick : TickStep(t)
  \/ WorkerStep
  \/ \E f \in Flight : FlightStep(f)
  \/ ReconStep \/ QueueStep \/ Crash \/ TimeStep \/ EnvStep

Spec == Init /\ [][Next]_vars

(* Fairness.  A tick, a job and a workflow that are under way go on: they    *)
(* are event-loop callbacks.  BullMQ hands out waiting jobs in order and     *)
(* looks for stalled ones on a timer.  Reconciliation visits every overdue   *)
(* lead every five minutes.  A tick need not find anything to start on, and  *)
(* people, faults and BullMQ's pruning need never do anything.               *)
TickGoesOn(t) ==
  \/ \E l \in Lead, m \in Mailbox : TickTakeSlot(t, l, m)
  \/ \E l \in Lead : TickSkip(t, l)
  \/ TickMarkLead(t) \/ TickAddJob(t) \/ TickReadFirstEmails(t) \/ TickEnd(t)

WorkerGoesOn ==
  \/ WorkerReleases \/ WorkerStopsDeadAddress \/ WorkerAsksAgainLater
  \/ \E f \in Flight : WorkerDispatches(f) \/ WorkerAnswered(f)
  \/ WorkerWritesFailure \/ WorkerFinishes

FlightGoesOn(f) ==
  \/ Compose(f) \/ SendRefused(f) \/ SendSuppressed(f) \/ SendCleared(f)
  \/ SmtpAccepts(f) \/ SmtpRefuses(f) \/ RecordFailure(f)
  \/ RecordRead(f) \/ RecordWrite(f) \/ FlightEnds(f)

Fairness ==
  /\ \A t \in Tick : WF_vars(TickGoesOn(t))
  /\ WF_vars(WorkerGoesOn)
  /\ \A f \in Flight : WF_vars(FlightGoesOn(f))
  /\ \A j \in JobId : SF_vars(TakeJob(j)) /\ WF_vars(RecoverStalled(j)) /\ WF_vars(SlotComes(j))
  /\ \A l \in Lead : SF_vars(ReconFind(l)) /\ WF_vars(SlotOverdue(l))
  /\ WF_vars(ReconAdd) /\ WF_vars(ReconMark)

FairSpec == Spec /\ Fairness

-----------------------------------------------------------------------------
(* Properties.                                                              *)

Inflight(l, pcs) == {f \in Flight : flight[f].job \in JobsOf(l) /\ flight[f].pc \in pcs}

(* The row counts the mails: every mail that left is in stepsSent or about   *)
(* to be, and each fault loses at most one (a restart between SMTP and the   *)
(* write, a send that is run again).  stepsSent never counts one that did    *)
(* not leave.  sendMail's read of stepsSent and its write straddle an await. *)
EveryMailCounted ==
  \A l \in Lead :
    mailed[l] - lead[l].stepsSent - Cardinality(Inflight(l, {"sent", "record"})) \in 0..faults

(* At-least-once delivery only repeats a mail when a process died: a thread  *)
(* has at most one email per step of the sequence, and one more per fault.   *)
MailsBounded == \A l \in Lead : mailed[l] <= FollowUps + 1 + faults

(* When a process dies, an execution nobody listens to may send the first    *)
(* email from its mailbox while the lead is booked again with another.  Each *)
(* further sender costs a fault, however long the thread: sendMail refuses a *)
(* follow-up that is not "from the lead's first mailbox", and executions     *)
(* past that look are no more than the faults.                               *)
SendersBounded == \A l \in Lead : Cardinality(from[l]) <= 1 + faults

\* What a lead receives when processes die: a fault costs a mail and a sender.
ThreadBounded == MailsBounded /\ SendersBounded

(* enqueuer.ts: "never another one, so the lead sees one sender in one       *)
(* thread".  Job, row and campaign name a mailbox each; they must agree by   *)
(* the time a mail leaves.                                                   *)
OneSender == \A l \in Lead : Cardinality(from[l]) <= 1

(* suppression.ts: no code path may bypass a suppressed email.  sendMail     *)
(* looks at the list once, before SMTP: what is past that look when the      *)
(* address opts out still leaves, one mail per execution, nothing after it.  *)
OptOutHolds ==
  \A l \in Lead : EmailOf[l] \in listed => afterOptOut[l] <= Cardinality(Flight)

(* replyOutcome.ts: a reply stops the sequence the moment it arrives.  The   *)
(* follow-up the worker had checked by then still leaves; booked ones, and   *)
(* the row a send writes back to CONTACTED, must not lead to another.        *)
ReplyCrossedOnce == \A l \in Lead : afterReply[l] <= 1 + faults

(* Somebody will come back to a QUEUED lead: it has a date to be retried at, *)
(* or a job that BullMQ still means to run or has forgotten, which is what    *)
(* reconciliation looks for.  The record of a finished job hides it from all. *)
Reachable(l) ==
  lead[l].status = "QUEUED" =>
    IF lead[l].queuedJobId = NoJob
    THEN lead[l].nextRetryAt # "none"
    ELSE lead[l].queuedJobId \in kept => worker.job = lead[l].queuedJobId

(* processor.ts: a lead whose dispatch failed goes back to the enqueuer       *)
(* instead of sitting "invisibly stalled".                                    *)
NoLeadStranded == \A l \in Lead : Reachable(l)

(* reconcile.ts: no crash leaves "a lead that silently never gets emailed".   *)
NoLeadForgotten == \A l \in Lead : mailed[l] = 0 => Reachable(l)

(* A lead taken for a send is not left in the air: its booking ends, with a  *)
(* mail or without one, whatever dies on the way.                            *)
BookingsResolve ==
  \A l \in Lead :
    (lead[l].queuedJobId # NoJob /\ lead[l].status \in {"QUEUED", "CONTACTED"})
      ~> (lead[l].queuedJobId = NoJob \/ lead[l].status \notin {"QUEUED", "CONTACTED"})

(* Dispatch implements what Thread promises a recipient, as long as no       *)
(* process fails: the mail on its way is the one past the suppression look.  *)
Promise == INSTANCE Thread WITH
  Emails <- FollowUps + 1,
  mails <- mailed, senders <- from, out <- listed, answered <- replied,
  onWay <- {l \in Lead : EmailOf[l] \in listed /\ Inflight(l, {"smtp"}) # {}},
  crossed <- {l \in Lead : afterReply[l] > 0}

ThreadPromise == Promise!Spec

=============================================================================
