---------------------------- MODULE MailboxStatus ----------------------------
(***************************************************************************)
(* Who may stop and start a mailbox.  Three parties write the status of    *)
(* one row: the bounce breaker (applyBounceCircuitBreaker), the warm-up    *)
(* tick (applyGraduation) and the owner (PATCH /mailboxes/:id).  Breaker   *)
(* and tick write by id what they decided from rows and counts they read   *)
(* before.  The breaker also pauses the campaign.                          *)
(*                                                                         *)
(* Log rows are counts: those of the last seven days, which the mailbox    *)
(* breaker reads, and older ones, which only the campaign breaker reads.   *)
(* A step is the code between two awaits; queries issued together are one. *)
(***************************************************************************)
EXTENDS WarmupPolicy, FiniteSets, FiniteSetsExt

CONSTANTS
  Mailbox,
  Evaluation,       \* breaker evaluations that may run at once for one mailbox
  MailboxPercent, MailboxSample,    \* MAILBOX_BOUNCE_*: 3 and 50 in the code
  CampaignPercent, CampaignSample,  \* the campaign's threshold (5) and 20
  Measured,         \* the placement counts a tick may find
  WarmupDays,       \* the warm-up days looked at; 0 is not started
  MaxRows,          \* bound: log rows of one kind
  Faults, MaxFaults \* what fails, and how often

BreakerFault == {"api", "log", "write"}

ASSUME MailboxStatusAssumption ==
  /\ MailboxPercent \in Nat /\ MailboxSample \in Nat
  /\ CampaignPercent \in Nat /\ CampaignSample \in Nat
  /\ Measured \subseteq PlacementCounts
  /\ WarmupDays \subseteq Nat /\ 0 \in WarmupDays
  /\ MaxRows \in Nat
  /\ Faults \subseteq BreakerFault
  /\ MaxFaults \in Nat

VARIABLES
  box,      \* Mailbox rows: status, autoFlaggedAt, warmupEnabled, warm-up day, warmupGraduatedAt
  log,      \* ExecutionLog: SENT and BOUNCED rows by age
  cpaused,  \* Campaign.pausedForBounceRate
  eval,     \* breaker evaluations under way
  tick,     \* the warm-up tick's decide step: rows read and not yet handled
  faults,
  stopped,  \* history: the last word on a mailbox was a stop (owner or breaker) ...
  unseen,   \* history: ... that the tick under way read too early to see
  owing,    \* history: a bounce took the mailbox over its limit, and it stayed over since
  cowing    \* history: the same of the campaign

history == <<stopped, unseen, owing, cowing>>
vars == <<box, log, cpaused, eval, tick, faults, history>>

Box == [status : MailboxStatus, flagged : BOOLEAN, enabled : BOOLEAN,
        day : WarmupDays, graduated : BOOLEAN]

NewBox == [status |-> "WARMUP", flagged |-> FALSE, enabled |-> TRUE,
           day |-> 0, graduated |-> FALSE]

Rows == [sent : Nat, bounced : Nat, oldSent : Nat, oldBounced : Nat]

Eval == [pc : {"idle", "count", "mailbox", "campaign"},
         over : BOOLEAN, campaignOver : BOOLEAN]

IdleEval == [pc |-> "idle", over |-> FALSE, campaignOver |-> FALSE]

NoTick == [todo |-> {}, read |-> [m \in Mailbox |-> NewBox]]

TypeOK ==
  /\ box \in [Mailbox -> Box]
  /\ log \in [Mailbox -> Rows]
  /\ cpaused \in BOOLEAN
  /\ eval \in [Mailbox \X Evaluation -> Eval]
  /\ tick \in [todo : SUBSET Mailbox, read : [Mailbox -> Box]]
  /\ faults \in 0..MaxFaults
  /\ stopped \in [Mailbox -> BOOLEAN]
  /\ unseen \in SUBSET Mailbox
  /\ owing \in [Mailbox -> BOOLEAN]
  /\ cowing \in BOOLEAN

-----------------------------------------------------------------------------
(* evaluateBounceCircuitBreaker *)

Over(sent, bounced, percent, sample) ==
  sent >= sample /\ 100 * bounced > percent * sent

MailboxOver(rows) ==
  Over(rows.sent + rows.bounced, rows.bounced, MailboxPercent, MailboxSample)

CampaignOver(rows) ==
  LET sent == MapThenSumSet(LAMBDA m : rows[m].sent + rows[m].oldSent, Mailbox)
      bounced == MapThenSumSet(LAMBDA m : rows[m].bounced + rows[m].oldBounced, Mailbox)
  IN  Over(sent + bounced, bounced, CampaignPercent, CampaignSample)

-----------------------------------------------------------------------------
Init ==
  /\ box = [m \in Mailbox |-> NewBox]
  /\ log = [m \in Mailbox |-> [sent |-> 0, bounced |-> 0, oldSent |-> 0, oldBounced |-> 0]]
  /\ cpaused = FALSE
  /\ eval = [e \in Mailbox \X Evaluation |-> IdleEval]
  /\ tick = NoTick
  /\ faults = 0
  /\ stopped = [m \in Mailbox |-> FALSE]
  /\ unseen = {}
  /\ owing = [m \in Mailbox |-> FALSE]
  /\ cowing = FALSE

-----------------------------------------------------------------------------
(* Log rows, and the breaker evaluation a bounce starts.                    *)

Fault(kind) ==
  /\ kind \in Faults
  /\ faults < MaxFaults
  /\ faults' = faults + 1

RowCount(m) == log[m].sent + log[m].bounced + log[m].oldSent + log[m].oldBounced

\* Counts changed and no bounce was added: a limit passed before may be kept again.
StillOwing ==
  /\ owing' = [m \in Mailbox |-> owing[m] /\ MailboxOver(log'[m])]
  /\ cowing' = (cowing /\ CampaignOver(log'))

\* A bounce was added to the counts of m.
NowOwing(m) ==
  /\ owing' = [owing EXCEPT ![m] = MailboxOver(log'[m])]
  /\ cowing' = CampaignOver(log')

Start(e) ==
  /\ eval[e].pc = "idle"
  /\ eval' = [eval EXCEPT ![e].pc = "count"]

(* A campaign send is logged SENT (mailSender.ts, sendMail).  It may be an  *)
(* execution that started before the mailbox was stopped.                   *)
Send(m) ==
  /\ RowCount(m) < MaxRows
  /\ log' = [log EXCEPT ![m].sent = @ + 1]
  /\ StillOwing
  /\ UNCHANGED <<box, cpaused, eval, tick, faults, stopped, unseen>>

\* mutant: the counts are taken before the bounce is logged
HardBounce_CountsFirst(e) ==
  /\ eval[e].pc = "idle"
  /\ eval' = [eval EXCEPT ![e] =
       [pc |-> "mailbox", over |-> MailboxOver(log[e[1]]),
        campaignOver |-> ~cpaused /\ CampaignOver(log)]]
  /\ RowCount(e[1]) < MaxRows
  /\ log' = [log EXCEPT ![e[1]].bounced = @ + 1]
  /\ NowOwing(e[1])
  /\ UNCHANGED <<box, cpaused, tick, faults, stopped, unseen>>

(* recordSendFailure, hard: a BOUNCED row is added, then the breakers run.  *)
HardBounce(e) ==
  /\ Start(e)
  /\ RowCount(e[1]) < MaxRows
  /\ log' = [log EXCEPT ![e[1]].bounced = @ + 1]
  /\ NowOwing(e[1])
  /\ UNCHANGED <<box, cpaused, tick, faults, stopped, unseen>>

(* The row cannot be added, or the reported bounce finds none because the   *)
(* SENT row could not be; the error was swallowed and the breakers run.     *)
HardBounceNotLogged(e) ==
  /\ Start(e)
  /\ Fault("log")
  /\ UNCHANGED <<box, log, cpaused, tick, history>>

(* POST /internal/replies with a bounce report: the lead's latest SENT row  *)
(* becomes BOUNCED, in the week it was sent in, then the breakers run.      *)
BounceReported(e) ==
  /\ Start(e)
  /\ \/ /\ log[e[1]].sent > 0
        /\ log' = [log EXCEPT ![e[1]].sent = @ - 1, ![e[1]].bounced = @ + 1]
     \/ /\ log[e[1]].oldSent > 0
        /\ log' = [log EXCEPT ![e[1]].oldSent = @ - 1, ![e[1]].oldBounced = @ + 1]
  /\ NowOwing(e[1])
  /\ UNCHANGED <<box, cpaused, tick, faults, stopped, unseen>>

(* A row gets older than the mailbox's window.                              *)
WindowSlides(m) ==
  /\ \/ /\ log[m].sent > 0
        /\ log' = [log EXCEPT ![m].sent = @ - 1, ![m].oldSent = @ + 1]
     \/ /\ log[m].bounced > 0
        /\ log' = [log EXCEPT ![m].bounced = @ - 1, ![m].oldBounced = @ + 1]
  /\ StillOwing
  /\ UNCHANGED <<box, cpaused, eval, tick, faults, stopped, unseen>>

-----------------------------------------------------------------------------
(* applyBounceCircuitBreaker: the counts and the campaign are read ...      *)
EvalCount(e) ==
  /\ eval[e].pc = "count"
  /\ eval' = [eval EXCEPT ![e] =
       [pc |-> "mailbox", over |-> MailboxOver(log[e[1]]),
        campaignOver |-> ~cpaused /\ CampaignOver(log)]]
  /\ UNCHANGED <<box, log, cpaused, tick, faults, history>>

\* A stop of m, for the history.
Stops(m) ==
  /\ stopped' = [stopped EXCEPT ![m] = TRUE]
  /\ unseen' = IF m \in tick.todo THEN unseen \cup {m} ELSE unseen

\* mutant: the campaign is looked at when the mailbox is over its limit
EvalMailbox_ThatOnly(e) ==
  /\ eval[e].pc = "mailbox"
  /\ eval' = [eval EXCEPT ![e] = IF @.over THEN [@ EXCEPT !.pc = "campaign"] ELSE IdleEval]
  /\ IF eval[e].over
       THEN box' = [box EXCEPT ![e[1]].status = "PAUSED", ![e[1]].flagged = TRUE] /\ Stops(e[1])
       ELSE UNCHANGED <<box, stopped, unseen>>
  /\ UNCHANGED <<log, cpaused, tick, faults, owing, cowing>>

(* ... then the mailbox is written ...                                      *)
EvalMailbox(e) ==
  /\ eval[e].pc = "mailbox"
  /\ eval' = [eval EXCEPT ![e].pc = "campaign"]
  /\ IF eval[e].over
       THEN box' = [box EXCEPT ![e[1]].status = "PAUSED", ![e[1]].flagged = TRUE] /\ Stops(e[1])
       ELSE UNCHANGED <<box, stopped, unseen>>
  /\ UNCHANGED <<log, cpaused, tick, faults, owing, cowing>>

(* ... then the campaign.                                                   *)
EvalCampaign(e) ==
  /\ eval[e].pc = "campaign"
  /\ eval' = [eval EXCEPT ![e] = IdleEval]
  /\ cpaused' = (cpaused \/ eval[e].campaignOver)
  /\ UNCHANGED <<box, log, tick, faults, history>>

(* Either write fails and its error is swallowed.                           *)
EvalWriteFails(e) ==
  /\ Fault("write")
  /\ \/ /\ eval[e].pc = "mailbox"
        /\ eval' = [eval EXCEPT ![e].pc = "campaign"]
        /\ owing' = [owing EXCEPT ![e[1]] = FALSE]
        /\ UNCHANGED cowing
     \/ /\ eval[e].pc = "campaign"
        /\ eval' = [eval EXCEPT ![e] = IdleEval]
        /\ cowing' = FALSE
        /\ UNCHANGED owing
  /\ UNCHANGED <<box, log, cpaused, tick, stopped, unseen>>

-----------------------------------------------------------------------------
(* The warm-up tick decides (engine.ts, applyGraduation).                   *)

\* The rows a tick decides on.
Decidable == {m \in Mailbox : /\ box[m].status \in {"WARMUP", "ACTIVE"}
                              /\ box[m].enabled
                              /\ box[m].day > 0}

(* Mailboxes and placements are read together.  One tick runs at a time.    *)
TickReads ==
  /\ tick.todo = {}
  /\ tick' = [todo |-> Decidable,
              read |-> [m \in Mailbox |-> IF m \in Decidable THEN box[m] ELSE NewBox]]
  /\ UNCHANGED <<box, log, cpaused, eval, faults, history>>

\* mutant: the whole row read is written back
TickDecides_WholeRow(m) ==
  /\ m \in tick.todo
  /\ tick' = [todo |-> tick.todo \ {m}, read |-> [tick.read EXCEPT ![m] = NewBox]]
  /\ unseen' = unseen \ {m}
  /\ box' = [box EXCEPT ![m] = tick.read[m]]
  /\ UNCHANGED <<log, cpaused, eval, faults, stopped, owing, cowing>>

(* The next mailbox of the tick: its status is written if the decision on   *)
(* the row read says so.                                                    *)
TickDecides(m) ==
  /\ m \in tick.todo
  /\ tick' = [todo |-> tick.todo \ {m}, read |-> [tick.read EXCEPT ![m] = NewBox]]
  /\ unseen' = unseen \ {m}
  /\ \E c \in Measured :
       LET decision == decideStatus(tick.read[m].status, tick.read[m].day, c) IN
       /\ box' = CASE decision = "graduate" ->
                        [box EXCEPT ![m].status = "ACTIVE", ![m].graduated = TRUE]
                    [] decision = "demote" ->
                        [box EXCEPT ![m].status = "WARMUP", ![m].graduated = FALSE]
                    [] OTHER -> box
       /\ stopped' = [stopped EXCEPT ![m] = @ /\ ~(decision # "none" /\ m \in unseen)]
       /\ owing' = [owing EXCEPT ![m] = @ /\ ~(decision # "none" /\ m \in unseen)]
  /\ UNCHANGED <<log, cpaused, eval, faults, cowing>>

-----------------------------------------------------------------------------
(* The owner, time, the process.                                            *)

(* PATCH /mailboxes/:id { warmupEnabled }.                                  *)
OwnerTurnsWarmup(m, on) ==
  /\ box[m].enabled # on
  /\ box' = [box EXCEPT ![m].enabled = on]
  /\ UNCHANGED <<log, cpaused, eval, tick, faults, history>>

(* PATCH /mailboxes/:id { status }: any status but PAUSED clears the flag.  *)
OwnerSetsStatus(m, s) ==
  /\ box' = [box EXCEPT ![m].status = s, ![m].flagged = @ /\ s = "PAUSED"]
  /\ IF s = "PAUSED"
       THEN Stops(m) /\ UNCHANGED owing
       ELSE /\ stopped' = [stopped EXCEPT ![m] = FALSE]
            /\ unseen' = unseen \ {m}
            /\ owing' = [owing EXCEPT ![m] = FALSE]
  /\ UNCHANGED <<log, cpaused, eval, tick, faults, cowing>>

(* PATCH /campaigns/:id { pausedForBounceRate }.                            *)
OwnerSetsCampaign(paused) ==
  /\ cpaused' = paused
  /\ cowing' = (cowing /\ paused)
  /\ UNCHANGED <<box, log, eval, tick, faults, stopped, unseen, owing>>

(* The first warm-up mail starts the days, by a tick that may have read the *)
(* row before it was paused; days pass.                                     *)
DaysPass(m) ==
  /\ \E d \in WarmupDays :
       /\ d > box[m].day
       /\ box' = [box EXCEPT ![m].day = d]
  /\ UNCHANGED <<log, cpaused, eval, tick, faults, history>>

(* The API process restarts: evaluations and the tick are gone.             *)
ApiDies ==
  /\ Fault("api")
  /\ eval' = [e \in Mailbox \X Evaluation |-> IdleEval]
  /\ tick' = NoTick
  /\ unseen' = {}
  /\ owing' = [m \in Mailbox |-> owing[m] /\ box[m].status = "PAUSED"]
  /\ cowing' = (cowing /\ cpaused)
  /\ UNCHANGED <<box, log, cpaused, stopped>>

-----------------------------------------------------------------------------
Next ==
  \/ \E m \in Mailbox :
       \/ Send(m)
       \/ WindowSlides(m)
       \/ TickDecides(m)
       \/ \E on \in BOOLEAN : OwnerTurnsWarmup(m, on)
       \/ \E s \in MailboxStatus : OwnerSetsStatus(m, s)
       \/ DaysPass(m)
  \/ \E e \in Mailbox \X Evaluation :
       \/ HardBounce(e)
       \/ HardBounceNotLogged(e)
       \/ BounceReported(e)
       \/ EvalCount(e)
       \/ EvalMailbox(e)
       \/ EvalCampaign(e)
       \/ EvalWriteFails(e)
  \/ TickReads
  \/ \E paused \in BOOLEAN : OwnerSetsCampaign(paused)
  \/ ApiDies

Spec == Init /\ [][Next]_vars

-----------------------------------------------------------------------------
(* Properties.                                                              *)

(* A mailbox that the owner or the breaker stopped stays PAUSED until the   *)
(* owner starts it again: neither the tick, which decides on rows read      *)
(* earlier, nor another evaluation, nor the warm-up switch lifts the stop.  *)
(* The one exception is a stop that falls between the tick's read and its   *)
(* write of the same mailbox.                                               *)
StopHolds == \A m \in Mailbox : stopped[m] => box[m].status = "PAUSED"

(* A bounce that takes a mailbox over its limit is never missed: however    *)
(* many evaluations overlap with sends, reports and each other, the mailbox *)
(* is PAUSED or an evaluation that will see the bounce is under way, for as *)
(* long as it stays over the limit and the owner does not start it.         *)
BreakerCatches ==
  \A m \in Mailbox :
    owing[m] => \/ box[m].status = "PAUSED"
                \/ \E k \in Evaluation :
                     \/ eval[<<m, k>>].pc = "count"
                     \/ (eval[<<m, k>>].pc = "mailbox" /\ eval[<<m, k>>].over)

(* The same of the campaign, over all its mailboxes.                        *)
CampaignCaught ==
  cowing => \/ cpaused
            \/ \E e \in Mailbox \X Evaluation :
                 \/ eval[e].pc = "count"
                 \/ (eval[e].pc \in {"mailbox", "campaign"} /\ eval[e].campaignOver)

=============================================================================
