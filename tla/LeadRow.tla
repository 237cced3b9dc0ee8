------------------------------- MODULE LeadRow -------------------------------
(***************************************************************************)
(* The row the whole send path turns on: `Lead` in schema.prisma.  One     *)
(* operator per write the code makes to that row, named after the function *)
(* that makes it, so that the modules which interleave those writes share  *)
(* one translation of each.                                                *)
(*                                                                         *)
(* Data abstraction.  A date column holds one of three values: "none" for  *)
(* null, "later" for a time still to come, "now" for a time that passed.   *)
(* `queuedSlotAt` is always written with `queuedJobId`; all the code asks  *)
(* of it afterwards is whether it is 15 minutes overdue: `slotOverdue`.    *)
(* A BullMQ job id is `leadId:mailboxId:slotAtMs`, here a triple.          *)
(* The status OPENED is left out: several queries accept it, no code of    *)
(* the repository ever writes it.                                          *)
(***************************************************************************)
EXTENDS Integers

CONSTANTS
  Lead, Mailbox,    \* lead ids, mailbox ids
  Slot,             \* slot times, one more bounded than the clock's
  NoJob, NoMailbox, \* the nulls of queuedJobId and mailboxId
  FollowUps,        \* follow-ups in the campaign's sequence (CampaignStep rows)
  MaxRetryAttempts  \* MAX_RETRY_ATTEMPTS, 4 in the code

ASSUME LeadRowAssumption ==
  /\ FollowUps \in Nat
  /\ MaxRetryAttempts \in Nat \ {0}
  /\ Slot \subseteq Nat
  /\ NoJob \notin Lead \X Mailbox \X Slot
  /\ NoMailbox \notin Mailbox

JobId == Lead \X Mailbox \X Slot
JobsOf(l) == {l} \X Mailbox \X Slot
LeadOf(j) == j[1]
MailboxOf(j) == j[2]

LeadStatus ==
  {"UNTOUCHED", "QUEUED", "CONTACTED", "REPLIED", "BOUNCED", "FAILED", "SUPPRESSED"}

Date == {"none", "later", "now"}

Row == [status: LeadStatus, stepsSent: Nat, retryCount: Nat,
        nextRetryAt: Date, nextStepAt: Date,
        queuedJobId: JobId \union {NoJob}, slotOverdue: BOOLEAN,
        mailboxId: Mailbox \union {NoMailbox}]

\* A lead as the import routes create it.
NewLead == [status |-> "UNTOUCHED", stepsSent |-> 0, retryCount |-> 0,
            nextRetryAt |-> "none", nextStepAt |-> "none",
            queuedJobId |-> NoJob, slotOverdue |-> FALSE, mailboxId |-> NoMailbox]

(* When the next follow-up is due after stepsSent emails: in at least one   *)
(* day, or never.                                                           *)
nextStepAtAfter(stepsSent) ==
  IF 1 <= stepsSent /\ stepsSent <= FollowUps THEN "later" ELSE "none"

-----------------------------------------------------------------------------
(* The worker's writes.                                                     *)

Unqueued(row) == [row EXCEPT !.queuedJobId = NoJob, !.slotOverdue = FALSE]

\* Pass 1 of a tick: a follow-up is marked queued by its job id alone.
bookFollowUp(row, job) == [row EXCEPT !.queuedJobId = job, !.slotOverdue = FALSE]

\* Pass 2: written over whatever the row has become since the tick read it.
bookFirstEmail(row, job) ==
  [row EXCEPT !.status = "QUEUED", !.nextRetryAt = "none",
              !.queuedJobId = job, !.slotOverdue = FALSE]

releaseLead(row, followUp) ==
  IF followUp THEN Unqueued(row)
  ELSE IF row.status = "QUEUED" THEN [Unqueued(row) EXCEPT !.status = "UNTOUCHED"]
  ELSE row

stopDeadAddress(row) ==
  IF row.status = "QUEUED"
  THEN [Unqueued(row) EXCEPT !.status = "FAILED", !.nextRetryAt = "none"]
  ELSE row

askAgainLater(row) ==
  IF row.status = "QUEUED" THEN [Unqueued(row) EXCEPT !.nextRetryAt = "later"] ELSE row

\* mutant: only a refused webhook call counted as a failure
dispatchFailed_Unheard(row, followUp, seen) == row

\* n8n answered "failed" and the lead still named a job: seen, when it was read.
dispatchFailed(row, followUp, seen) ==
  CASE followUp /\ row.queuedJobId = seen /\ row.nextStepAt # "none" ->
         [Unqueued(row) EXCEPT !.nextStepAt = "later"]
    [] ~followUp /\ row.status = "QUEUED" -> [Unqueued(row) EXCEPT !.nextRetryAt = "later"]
    [] OTHER -> row

-----------------------------------------------------------------------------
(* The API's writes.                                                        *)

\* recordSendFailure, a hard bounce.
hardBounce(row) == [Unqueued(row) EXCEPT !.status = "BOUNCED", !.nextStepAt = "none"]

\* recordSendFailure, anything else: retry with backoff until out of attempts.
\* retryCount stops at MaxRetryAttempts: no code tells larger values apart.
Counted(retryCount) == IF retryCount < MaxRetryAttempts THEN retryCount + 1 ELSE retryCount

\* mutant: a follow-up that fails is put back like a new lead
softFailure_StartsOver(row, stepsRead, retriesRead) ==
  [Unqueued(row) EXCEPT !.status = "QUEUED", !.stepsSent = 0, !.nextRetryAt = "later"]

softFailure(row, stepsRead, retriesRead) ==
  LET exhausted == retriesRead + 1 >= MaxRetryAttempts IN
  IF stepsRead > 0
  THEN [Unqueued(row) EXCEPT !.retryCount = IF exhausted THEN 0 ELSE Counted(@),
                             !.nextStepAt = IF exhausted THEN "none" ELSE "later"]
  ELSE IF exhausted
  THEN [row EXCEPT !.status = "SUPPRESSED", !.retryCount = Counted(@), !.nextRetryAt = "none"]
  ELSE [Unqueued(row) EXCEPT !.status = "QUEUED", !.retryCount = Counted(@),
                             !.nextRetryAt = "later"]

\* A mail that left: stepsSent is one more than what was read just before.
\* mutant: the step is not counted
recordSent_NotCounted(row, stepsRead, followUp, mailbox) ==
  [Unqueued(row) EXCEPT !.status = "CONTACTED", !.stepsSent = stepsRead,
                        !.nextStepAt = nextStepAtAfter(stepsRead + 1), !.mailboxId = mailbox]

recordSent(row, stepsRead, followUp, mailbox) ==
  [Unqueued(row) EXCEPT !.status = "CONTACTED", !.retryCount = 0, !.nextRetryAt = "none",
                        !.stepsSent = stepsRead + 1,
                        !.nextStepAt = nextStepAtAfter(stepsRead + 1),
                        !.mailboxId = IF followUp THEN @ ELSE mailbox]

\* sendMail finds the recipient on the suppression list.
suppressAtSend(row) ==
  IF row.status = "SUPPRESSED" THEN row
  ELSE [row EXCEPT !.status = "SUPPRESSED", !.nextRetryAt = "none"]

suppressEmail(row) ==
  IF row.status = "SUPPRESSED" THEN row
  ELSE [row EXCEPT !.status = "SUPPRESSED", !.nextRetryAt = "none", !.nextStepAt = "none"]

\* /internal/ai/personalize has no follow-up left to write.
endSequence(row) == [Unqueued(row) EXCEPT !.nextStepAt = "none"]

Waiting == {"CONTACTED", "QUEUED"}

replyArrives(row) ==
  IF row.status \in Waiting
  THEN [row EXCEPT !.status = "REPLIED", !.nextStepAt = "none", !.nextRetryAt = "none"]
  ELSE row

bounceReported(row) ==
  IF row.status \in Waiting
  THEN [Unqueued(row) EXCEPT !.status = "BOUNCED", !.nextStepAt = "none", !.nextRetryAt = "none"]
  ELSE row

=============================================================================
