# WarmHawk core engine: verification project

TLA+ models of the engine in `src/`, the TLC runs that check them on small
instances, and theorems proved with TLAPS for every instance. Modules are
translated from the source; `PROJECT.json` maps every definition to its lines.

## 1. The system

| part | state it keeps | operations | what makes it correct |
|---|---|---|---|
| Enqueuer (`worker/enqueuer.ts`, a tick every 30 s) | none of its own; writes `Lead`, Redis reservations, BullMQ | read due follow-ups and first emails, book a slot per mailbox | a lead is booked once, from the right mailbox, and never forgotten |
| Processor (`worker/processor.ts`, one job at a time) | none; writes `Lead`, deletes reservations | re-check, address check, call n8n, write failures | nothing ineligible is dispatched; every failure is written |
| Reconciliation (`worker/reconcile.ts`, every 5 min) | none | re-book a lead whose job is gone | no crash leaves a lead unsent |
| n8n (`n8n/workflows/*.json`) | executions | personalize, send, answer; reply poll; warm-up tick; seed poll | an execution goes on when its caller is gone |
| Campaign send (`api/lib/mailSender.ts`) | `Lead`, `Mailbox`, `ExecutionLog` | sender rules, suppression floor, SMTP, success and failure records | the row counts what left; one thread has one sender |
| Sequence (`api/lib/sequence.ts`, `routes/internalAi.ts`) | `Lead.stepsSent`, `nextStepAt` | next step, end of sequence | at most one mail per step |
| Suppression (`api/lib/suppression.ts`) | `SuppressionEntry`, `Lead.status` | opt out, unblock, bulk block | no mail after an opt-out |
| Replies (`routes/internalReplies.ts`, `lib/replyOutcome.ts`) | `Reply`, `Lead.status` | store, classify, resume after an away notice | a reply stops the sequence |
| Cadence (`computeNextSlotSeconds.ts`, `rollingSends.ts`, `sendWindow.ts`) | reservations, `lastSentAt`, `ExecutionLog` times | next slot, rolling limit, send window | eight minutes between sends; the daily limit |
| Campaigns (`routes/campaigns.ts`, `campaignCompletion.ts`) | `Campaign`, `CampaignStep`, `CampaignMailbox` | edit, launch, pause, archive, complete | editing a running campaign strands no lead |
| Mailbox status (`bounceCircuitBreaker.ts`, `routes/mailboxes.ts`, `warmup/engine.ts`) | `Mailbox.status`, `autoFlaggedAt`, cap | break, graduate, pause, resume | a mailbox that was stopped stays stopped |
| Warm-up (`api/lib/warmup/*`) | `WarmupMessage`, ramp | check, reply, promote, send | volume ramps up and never beyond its cap |
| Ingest and erasure (`leadIngest.ts`, `routes/leads.ts`) | `Lead` | import, webhook, erase | no suppressed address is imported |
| Connect (`connectRelay.ts`, `oauthCallback.ts`, `accessTokenCache.ts`) | sessions, tokens | start, poll, finish, mint | one grant per mailbox, no stale token |
| Address check (`worker/addressCheck.ts`, `addressRisk.ts`) | Redis verdicts and tries by lead | look ahead, ask, put back, stop | only a dead address is stopped; a server that stalls stops nobody for ever |
| Domains (`routes/domains.ts`, `lib/domainCheck.ts`, `serverName.ts`, `routes/internalDomains.ts`) | `Domain`, `InstanceSettings`, `LookalikeCandidate`, two caches | edit, check, use, scan, alert | no host or name is used that no check has confirmed |
| Seed placement (`seedPlacementPoller.ts`, `seedAccounts.ts`) | `SeedAccount`, `SeedPlacementResult` | sample, look, judge | every copy is judged or dropped |
| Writing (`composeCampaignEmail.ts`, `aiProviderClient.ts`) | none | try, check, try again, fall back; label a reply | the sender's offer survives; every key is asked |
| Forecast (`sendForecast.ts`, `routes/queue.ts`) | a minute's cache | play the days ahead | no plan beyond a cap |
| Others | | login throttle, sign-in health, scripts, dashboard routes | see `PROJECT.json` |

They run in three processes. The **worker** books leads and takes jobs; each
job is one HTTP call to **n8n**, whose workflow calls the **API** twice (write
the email, send it) and answers. All three share Postgres; worker and BullMQ
share Redis. Nothing locks a lead row: every writer goes by id and, at best, by
the status it expects. That is where the hard behaviour is: rows read before an
await and written after it, ticks that overlap, a worker that dies while n8n
goes on, jobs run twice, a reply or an opt-out in the middle of a send, one
write of several failing. `PROJECT.json` lists each as a hazard at its line.

## 2. Plan

| step | modules | runs |
|---|---|---|
| the pipeline of one email (done) | `LeadRow`, `Thread`, `Dispatch`, `MCDispatch`, `DispatchProofs`, `ThreadProofs`, `PromiseProofs` | `DispatchLead`, `DispatchOverlap`, `DispatchCrashLive`, `DispatchFaults`, `StrandedLead` |
| who may send (done) | `WarmupPolicy`, `MailboxStatus`, `MCMailboxStatus`, `MailboxStatusProofs` | `StatusOne` |
| when a mailbox sends (done) | `Cadence`, `MCCadence`, `CadenceProofs` | `Cadence` |
| what a campaign owes (done) | `Sequence`, `MCSequence`, `SequenceProofs` | `Sequence` |
| warm-up mails (done) | `Warmup`, `MCWarmup`, `WarmupProofs` | `Warmup` |
| requests beside the send path (done) | `Ingest`, `Connect`, `Domains`, `Lookalikes`, `AddressCheck`, `Writing`, `Forecast`, `MCDesk`, `DeskProofs` | `Desk`, `MailboxLost` |
| background checks (done) | `Domains`, `ServerName`, `SeedPlacement`, `AddressCheck`, `MCChecks` | `Checks` |

Every safety property that a passing run checks is proved. What could follow are
invariants for `ServerName` and `SeedPlacement`, whose properties are liveness.

## 3. Dispatch

`LeadRow` has the row and one operator per write the code makes to it, named
after the function that makes it. `Dispatch` interleaves those writes.

| variable | in the code |
|---|---|
| `lead` | the `Lead` rows of one campaign (`schema.prisma`) |
| `listed`, `replied`, `marking` | `SuppressionEntry`; leads with a `Reply` that ends their sequence; replies stored whose lead is not written yet |
| `open`, `canSend` | campaign ACTIVE, not bounce-paused, window open; mailboxes ACTIVE, addressed and under their limit |
| `reserved`, `tries` | Redis `mailbox:reserved:*` and the address-check counter |
| `waiting`, `active`, `kept`, `stalledOnce` | BullMQ's delayed and waiting jobs, its active list, finished records, jobs already recovered once |
| `ahead` | jobs whose slot time has not come |
| `tick`, `worker`, `recon`, `flight` | where a tick, the processor, a reconciliation pass and an n8n execution with its `sendMail` call are between two awaits |
| `mailed`, `from`, `afterOptOut`, `afterReply` | history, read by properties only |

**A step** is the code between two awaits. Reads that follow each other with
nothing written in between are one step, taken at the last of them. A tick is
`TickStart`, then per lead `TickTakeSlot` (Redis), `TickMarkLead` (Postgres),
`TickAddJob` (BullMQ), then `TickReadFirstEmails` and the same again, `TickEnd`.
The processor is `TakeJob`, then one of `WorkerReleases`,
`WorkerStopsDeadAddress`, `WorkerAsksAgainLater`, `WorkerDispatches`, and after
n8n's answer `WorkerAnswered`, `WorkerWritesFailure`, `WorkerFinishes`. An
execution is `Compose`, the sender rules and the suppression look
(`SendRefused`, `SendSuppressed`, `SendCleared`), SMTP (`SmtpAccepts`,
`SmtpRefuses`), and the records (`RecordRead`, `RecordWrite`, `RecordFailure`).
Reconciliation is `ReconFind`, `ReconAdd`, `ReconMark`.

**What is abstracted.**
- Dates are "none", "later", "now"; `DateComes` and `SlotComes` are time.
- Slot time, send window, spread, rolling limit, risk rotation and
  `maxNewLeadsPerDay` decide which lead gets which mailbox *this* tick; the
  model lets a tick pass over any lead (`TickSkip`) and take any due one.
- `syncCampaignCompletion` at the head of a tick moves a campaign with nothing
  left to send out of ACTIVE and back; both are in `CampaignOpens`.
- `freeSlot` is one step with the write before it. It matters only when the
  reservation is of a newer booking, which the compare keeps.
- The address-check counter's 12-hour expiry, the status OPENED (never written),
  lead and campaign deletion and unlabelled away notices are left out.
- A job id's slot time is never used twice in the code; the model reuses the
  lowest that nothing names any more, which keeps runs finite.

**External parts**, modelled from how the code uses them: BullMQ delivers a job
whose delay is over, keeps finished records until it prunes them, runs a stalled
job again once and fails it the second time; the clock.

**Time.** Unless `Slow`, a tick ends before the slots it books come (the
earliest is two and a half minutes off) and a job is worked off before the
shortest retry (27 minutes). Slow or not, nothing that works on a lead takes
that long: `fetch` gives up after five minutes, SMTP after ten (`Prompt`). These
are the only assumptions on timing; the 15 minutes of the reconciliation and its
30-second job are among the waits they cover.

**Faults**, each counted against `MaxFaults`: the worker process dies (`Crash`),
a tick throws half-way (`TickFails`), the fetch rejects (`WorkerFetchRejects`),
the API restarts under a call (`ApiDies`, `ReplyMarkLost`), a write fails
(`RecordFails`, `RecordLost`).

### Properties

| property | says |
|---|---|
| `EveryMailCounted` | mails that left are in `stepsSent` or about to be; each fault loses at most one |
| `ThreadBounded` | one mail per step and one sender (`MailsBounded`, `SendersBounded`), and one more per fault |
| `OneSender` | a thread comes from one mailbox |
| `OptOutHolds` | after an opt-out at most the executions past the look at the list send, once each |
| `ReplyCrossedOnce` | at most one follow-up crosses a reply |
| `NoLeadStranded`, `NoLeadForgotten` | somebody will come back to a QUEUED lead |
| `BookingsResolve` | a booking ends (liveness) |
| `ThreadPromise` | Dispatch implements `Thread` |

`Thread` is the promise to a recipient: mails one at a time, one sender, as many
as the sequence has, none after an opt-out but the one on its way, at most one
after a reply. `Promise == INSTANCE Thread WITH ...` maps the history and the
executions past the suppression look to it.

### Runs

| run | instance | shows |
|---|---|---|
| `DispatchLead` | 1 lead, 1 mailbox, 2 follow-ups, 2 attempts, all events, no fault | types, no lost booking, `Thread` |
| `DispatchOverlap` | 2 ticks, 2 mailboxes, `Slow` | one sender although ticks overlap |
| `DispatchCrashLive` | 1 crash, 1 follow-up, 2 executions, 2 slots, with fairness | no lead is lost before its first email; bookings end |
| `DispatchFaults` | any 1 fault of any kind, 2 follow-ups, 2 executions, 2 slots, 3 mailboxes up to symmetry | what a fault may cost |
| `StrandedLead` | a fetch that rejects | the violation of `NoLeadStranded`, section 8 |

Bounds. One lead is enough because leads meet only in mailboxes and addresses:
a mailbox that is taken is one more reason for a tick to pass a lead over, an
address that opts out by another lead is the same `OptOut`. `Slot` has as
many values as jobs one lead can have at once: a crash or a fault lets a second
one live. One fault needs three mailboxes for a sender too many. `Flight` is 2
where an execution can outlive its listener, else 1: the processor waits for its
answer. `MaxRetryAttempts` is 1 or 2 instead of 4
and `MaxUnknownRetries` 1 instead of 3: both counters are compared with their
bound only. `retryCount` stops at `MaxRetryAttempts` in the model. Two
follow-ups have a first, a middle and a last mail; the run with two ticks and
the run with fairness have one. `DispatchFaults` takes its mailboxes up to
symmetry: all three are senders and no step tells one from another.

Deadlock is not checked: with everything sent and every record pruned the
system has nothing to do until somebody imports a lead.

**Fairness** (`DispatchCrashLive`). Weak fairness on the next step of a tick, a
job and a workflow under way: they are event-loop callbacks. Strong fairness on
taking a given job, because BullMQ hands out in order while others come and go,
and on reconciliation finding a given lead, because it visits every overdue lead
every five minutes. Weak fairness on BullMQ's stalled check and on time. No
fairness for people, faults, pruning or the start of a tick.

## 4. MailboxStatus

Three parties write `Mailbox.status`: the bounce breaker, the warm-up tick and
the owner. `WarmupPolicy` has the tick's rules (`policy.ts`) with their numbers,
`MailboxStatus` the writes and what they are decided on.

| variable | in the code |
|---|---|
| `box` | the `Mailbox` row: `status`, `autoFlaggedAt`, `warmupEnabled`, warm-up day, `warmupGraduatedAt` |
| `log` | `ExecutionLog` rows as counts: SENT and BOUNCED, of the last seven days and older |
| `cpaused` | `Campaign.pausedForBounceRate` |
| `eval` | calls of `applyBounceCircuitBreaker` under way, by mailbox |
| `tick` | rows `applyGraduation` has read and not yet handled |
| `stopped`, `unseen`, `owing`, `cowing` | history, read by properties only |

A bounce, at the send (`HardBounce`) or reported later (`BounceReported`), is
logged and starts an evaluation: `EvalCount` reads counts and campaign,
`EvalMailbox` writes the mailbox, `EvalCampaign` the campaign, `EvalWriteFails`
is either write failing. The tick is `TickReads` (all rows and placements), then
`TickDecides` per mailbox, on the row read. `WindowSlides` and `DaysPass` are
time; `ApiDies` drops evaluations and tick.

Queries issued together (`Promise.all`) are one step. Placements are chosen anew
for each decision from `Measured`: windows that graduate, demote and are too
thin. One campaign; that a mailbox may be in several adds evaluations and rows,
which are there anyway. ExecutionLog's OPENED and REPLIED are never written.
Left out here: adding, connecting and deleting mailboxes (`Connect`, `Sequence`);
`dailyCap` and `senderName` are data.

| property | says |
|---|---|
| `StopHolds` | a stop is lifted by the owner only, or by a tick that had read the row before |
| `BreakerCatches` | a bounce over the limit finds the mailbox PAUSED or an evaluation that will pause it |
| `CampaignCaught` | the same of the campaign, over all its mailboxes |

`BreakerCatches` and `CampaignCaught` excuse what a fault breaks: a failed write
and a restart may miss a bounce, and nothing looks again before the next one.

| run | instance | shows |
|---|---|---|
| `StatusOne` | 1 mailbox, 2 evaluations, 3 rows, 1 fault | `StopHolds`, `BreakerCatches`, `CampaignCaught` |

Two evaluations overlap in every way a third could add to; limits are scaled
down (30 to 50 percent of 2 rows) so that 2 or 3 rows pass them, fall below them
when the window slides or a mail is sent, and pass them again. Mailboxes meet
only in the campaign's counts, where the old rows of one stand for those of
others: they take the campaign over its limit and not the mailbox. Warm-up days
are 0 (not started) and 14 (may graduate). Deadlock is not checked: when
nobody acts and nothing bounces there is nothing to do.

## 5. Time, campaigns, warm-up

### Cadence

When one mailbox sends. Nothing in the code bounds how late anything is: one
worker takes one job at a time, a fetch may hold it for five minutes, and
`setInterval` starts a tick beside one that is slow. So the model has a clock but
no bound on a tick, a job or a mail.

| variable | in the code |
|---|---|
| `booked` | every slot computed so far, by a tick alone, a tick beside another, or reconciliation |
| `resv` | `mailbox:reserved:<id>`: the booking it names and when it expires |
| `jobs`, `stuck` | BullMQ's jobs; bookings a lead's row names whose job is gone |
| `ticks` | what each tick read (`lastSentAt`, reservation, log rows, pace) and its slot on the way to BullMQ |
| `execs` | n8n executions with their `sendMail`; the processor awaits one at most (`heard`) |
| `last`, `mails`, `deferred` | `lastSentAt`; mails with their stamp and log row; the last deferral |
| `loose`, `lost`, `strays` | history: bookings no reservation watches over, mails without a log row, executions given up on |

A tick is `TickReads`, `TickBooks` (Redis), `TickAdds` (row, then job),
`TickEnds` when nothing fits, `TickDies` when it throws in between. The processor
is `TakeJob`, `ReleaseJob` (window closed, limit reached, lead does not fit),
`StopJob` (a dead or greylisted address: `freeSlot`), `FetchFails`. The send is
`SmtpAccepts`, `SmtpDefers`, `Records` (stamp, then the log row, which may fail),
`BreaksOff`. `Reconcile` requeues; `Crash` stops the worker; `Minute` is time.
`SlotDelays` is `computeNextSlotSeconds` with every jitter and noise as a choice.

| property | says |
|---|---|
| `GapKept` | a mail stamped while its reservation ran is followed by no later booking's mail closer than the floor, twice that after a deferral |
| `RollingLimit` | no 24 hours see more mails than the limit, those without a log row, and those of executions given up on |
| `OneSlotAhead` | of the slots still to come at most one is watched over by a reservation |

The repository's `README.md:29` and `enqueuer.ts:134` promise more than
`GapKept` and `OneSlotAhead`, and the code does not keep it. The exceptions are
these, and without any one of them TLC finds a behaviour that breaks the property:

- a mail stamped 120 s or more after its slot (`OnTime`): the reservation is gone
  and the next slot is anchored on an older send;
- a slot another tick wrote over (`index.ts:46`): that tick had read before it was
  booked, and its own slot comes next to it;
- a slot whose reservation `freeSlot` removed on behalf of another's: a lead that
  two ticks booked names one slot and its job may be the other's;
- a booking of reconciliation (`reconcile.ts:79`): half a minute away, whatever
  the mailbox just sent;
- for `RollingLimit`, a mail that wrote no row, and an execution that goes on
  after its fetch rejected or its worker died, while the processor counts again.

Bounds (`Cadence`): a unit is four minutes, so the floor is 2, the jitter 1 or 2
and the padding 1 (noise is less than a unit and left 0), and a requeued job is
one unit ahead; a day of 4 units and 2 mails a day, so that the limit slides;
horizon 5, a window that closes at 6, so that late slots fall outside it. Two ticks, two executions and three bookings:
one booked by each of two overlapping ticks, or one lost and its requeue, and one
more that follows. One fault or one overlapping tick: each exception needs one,
and what is no exception holds with one of any kind. Section 7 proves the same for
any values of these constants.

Abstractions. The queries at the head of a tick are one step, and so are a lead's
row and its job, and the stamp and the log row of a mail. Left out: a tick that
stays between row and job for a quarter of an hour while reconciliation requeues
its lead (its booking would be one more of reconciliation's kind), and BOUNCED
rows, which count towards the limit without a mail and only lower it. Several
mailboxes and the time zones of leads only move slots later.

### Sequence

What a campaign owes a lead. `Dispatch` follows one email through queue and
SMTP; here a mail is a few steps, and the owner and the replies move instead.
The owner launches, pauses, imports, edits senders and steps (`EditSteps` is the
whole of the PATCH that replaces the steps and dates contacted leads anew),
deletes a mailbox. The tick completes and reopens the campaign and books
(`TickCompletes`, `TickReopens`, `Book`). A mail is handed back, finds nothing
to write, is tried, accepted, recorded, or fails (`Release`, `NothingToWrite`,
`Attempt`, `Accepted`, `Recorded`, `Failed`). Replies come, are labelled in any
order and more than once, and `applyReplyOutcome` reads the row and writes it
later (`ReplyComes`, `Labels`, `OutcomeReads`, `OutcomeWrites`). `Day` moves
every date.

| property | says |
|---|---|
| `WaitKept` | no follow-up is earlier than the shortest wait its step had since the last mail |
| `AwayHeld` | nobody who is away gets a follow-up |
| `AnswerStops` | an answer stops the sequence, whatever else is labelled afterwards |
| `FollowUpsOwed` | a follow-up there is to send has a date |
| `OwnerStops` | what the owner stopped is neither completed nor reopened |
| `SendingEnds` | a campaign left alone sends what it owes and completes (liveness) |

Where the code writes on what it read before, the history variable `excused`
names the lead: an outcome that was worked out while a send, an edit or another
answer changed the row. `redated` names leads an edit dated while they were
away. Section 8 tells what these cost. Any other way to break a property is a
counterexample.

Bounds (`Sequence`): one lead, one mailbox; step lists `<<>>` and `<<1, 2>>`,
so that an edit adds, removes and moves follow-ups; 2 replies, one
to hold and one to stop; 3 acts of the owner; and one attempt, so that a
failure ends a sequence: attempts that are left are in the runs of `Dispatch`. One `applyReplyOutcome` runs per
lead at a time, and launch checks and writes in one step. Fairness: weak, on the
tick's completion, reopening and booking, on a mail under way, on an outcome
under way and on the day. None on the owner or on people.

### Warmup

The warm-up mails themselves: `mails` in order with what became of them,
`elapsed` since each mailbox's `warmupStartedAt`, `pool` (the seed inboxes
`loadPartnerPool` finds), `tick` (`runWarmupTick` in its middle). A tick first
looks up mails due for a check (`CheckStarts`, `Unreadable`, `NotFound`,
`Found`, `FoundRecorded`: rescue and filing away happen before the row is
written), then sends (`SendStarts`, `PassedOver`, `Sends`, `SentRecorded`,
`SentFailed`, `SendEnds`). A partner comes from the pool as the tick read it: a
seed deleted since gets its mail, but no row can name it, nor can the one about
the failure, and the tick is over (`RowRefused`). `TickDies` is a restart in any
of these places, `SendNow` the operator's button, `SeedRemoved` a deleted seed, `Hour` time. The
decisions about a mailbox's status are in `MailboxStatus`.

| property | says |
|---|---|
| `VolumeKept` | the ticks send at most the day's target, failures included |
| `OneInboxPerGap` | an inbox gets one mail per gap, over all mailboxes |
| `AnswersTrue` | a row says where its mail landed; each fault makes at most one untrue |
| `EveryMailJudged` | no mail stays PENDING (liveness) |

Bounds (`Warmup`): two mailboxes of one domain and one seed, so that the domain
rule, the seed preference and a contended inbox occur; targets 1 and 2; a day of
three half ticks; 2 mails in flight, one by hand, one fault. Fairness: the tick,
which n8n's schedule starts, and time.

## 6. Beside the send path

These parts share no row with each other. `MCDesk` and `MCChecks` compose them
so that a behaviour runs one part while the others stay where they start: their
state spaces add up instead of multiplying. `MCDesk` states safety without
fairness; `MCChecks` states liveness, and a part that does not run owes no step.
Each part alone interleaves its own requests and timers, reads apart from writes.

| module | code | state | actions | properties |
|---|---|---|---|---|
| `Ingest` | `routes/leads.ts`, `lib/suppression.ts`, `routes/unsubscribe.ts`, and of `worker/enqueuer.ts`, `lib/mailSender.ts` the status they write | `people`, `blocked`, requests between read and write | import in chunks, edit, erase row by row, delete, unsubscribe, block, unblock; a tick and a send that read a row and write its status by id; restarts of API and worker | `ListAgrees`, `ErasedStays` |
| `Connect` | `routes/oauthCallback.ts`, `lib/mailboxAccessToken.ts`, `lib/accessTokenCache.ts`, `routes/mailboxes.ts` | the row, consent tabs, calls, token cache | add, consent and its failures, exchange, save, mint, rotate, refuse, revoke, delete | `OneGrant`, `SignInKept` |
| `Domains` | `routes/domains.ts`, `lib/domainCheck.ts`, `lib/linkDomain.ts` | the row, an edit, a removal, two checks | each of these with its read and write; hosts stop answering | `LinkProven`, `LinkFails` |
| `Lookalikes` | `routes/internalDomains.ts` | candidates, scans, alerts | count, load, resolve, write, alert, end, die | `AlertedOnce` |
| `AddressCheck` | `worker/addressCheck.ts`, `addressRisk.ts`, `processor.ts` | verdict, tries, the look-ahead, the job | ask with every class of answer, save, release, retry, stop, expiry | `DeadIsDead`, `NotBlocked` |
| `Writing` | `lib/composeCampaignEmail.ts`, `lib/aiProviderClient.ts` | the request, what the provider said | try, retry, check and try again, fall back; label, next key | `OfferKept`, `EveryKeyAsked` |
| `Forecast` | `lib/sendForecast.ts`, `routes/queue.ts` | jobs and leads as read, the day being played, the plan, its cache | load, play follow-ups, play first emails, end the day, answer | `PlanFits` |
| `ServerName` | `lib/serverName.ts`, `worker/addressCheckName.ts` | the saved row, the API's and the worker's copy | ask, refresh, save, cache, fail, restart, a minute | `NameFollowsDns` |
| `SeedPlacement` | `lib/seedPlacementPoller.ts`, `lib/seedAccounts.ts`, `mailSender.ts` | seeds, rows, two callers of the check | pick, record, look, find, write, delete, switch | `EveryCopyJudged` |

What the properties say:

- `ListAgrees`: a listed address has no row that could be sent, but for rows
  written on a look from before the listing (`raced`): by an import or an edit that
  had checked the list, by a tick that had read the lead (`enqueuer.ts:379`), by
  a send that was past its look at the list (`mailSender.ts:556`, `:264`). A write
  that leaves the status as it is makes no exception. `ErasedStays`: an erased lead
  has no address again, with the same exception.
- `OneGrant`: after a reconnect no call uses a token of the old grant and the
  row keeps the new refresh token, unless a call was under way. `SignInKept`: no
  failed consent removes a mailbox that has a sign-in, except when the provider
  is not set up at all (section 8).
- `LinkProven`: no link host is used that no check has reached. `LinkFails`: one
  that no longer answers goes back to FAIL.
- `AlertedOnce`: a registration is reported, once, over all later scans.
- `DeadIsDead`: only an address nobody reads ends a lead, whatever a server says
  about us. `NotBlocked`: no server's silence keeps a lead waiting for ever.
- `OfferKept`: no text that lost or invented a price or a link goes out, and the
  sender's own email replaces the AI's only after two failures or two such
  answers. `EveryKeyAsked`: keywords label a reply only when every key failed.
- `PlanFits`: no mailbox and no campaign is planned past its limit, every lead
  is planned once or waits, and it waits for lack of room only.
- `NameFollowsDns`: the EHLO name follows DNS through both caches.
- `EveryCopyJudged`: no sampled copy stays pending.

Bounds, with why a case occurs in them:

| module | bound |
|---|---|
| `Ingest` | 2 requests, 2 leads, 2 addresses, 4 starts: a lead is imported, read by a tick and handed to a send, and one more request overtakes any of them |
| `Connect` | 1 tab, 2 grants, both callers of a token, 1 row: a sign-in, a reconnect and a call across it |
| `Domains` | 2 hosts (1 for liveness), 2 checks: an edit in the middle of either |
| `Lookalikes` | 2 candidates, 2 scans, 2 alerts |
| `AddressCheck` | 3 tries as in the code, 2 addresses and one correction (`Desk`), 1 address without (`Checks`) |
| `Writing` | 2 keys, every kind of answer |
| `Forecast` | 2 mailboxes, 2 campaigns that share one, caps up to 2, today and one more day |
| `ServerName` | a check is due after 1 minute, 1 restart or failure |
| `SeedPlacement` | 2 seeds, 1 sampled mail, one row per run (so that rows queue for a run), 1 unreadable spell |

Fairness (`Checks`): weak, on the hourly and ten-minute checks, on a caller
under way, on jobs and their retries and on time; all are timers or event-loop
continuations. None on people, DNS, other servers or restarts.

Deadlock is not checked in the runs of sections 5 and 6: the models stop at
their bounds.

| run | shows |
|---|---|
| `Cadence`, `Sequence`, `Warmup` | the properties of section 5 |
| `Desk` | the safety properties of section 6 |
| `Checks` | the liveness properties of section 6 |
| `MailboxLost` | a reconnect that deletes its mailbox, section 8 |

Each of these modules states its type invariant. No run lists them, the runs
being spent on the hazards; section 7 says which are proved.

## 7. Proofs

`DispatchProofs`, for every value of the constants that satisfies
`LeadRowAssumption` and `DispatchAssumption` (only that the sets fit together
and `Flight` is finite):

- `DispatchTypes == Spec => []TypeOK`. `TypeOK` is inductive because a step
  under way holds a job id and not the null of one, which `TypeOK` says. One
  lemma per actor (`TickSteps`, `WorkerSteps`, `FlightSteps`, `ReconSteps`,
  `QueueSteps`, `TimeSteps`, `EnvSteps`), one case per action; the writes of
  `LeadRow` keep rows rows (`WorkerWritesRows`, `SendsWriteRows`,
  `RoutesWriteRows`).
- `OptOutIsKept == Spec => []OptOutHolds`. `OptOutHolds` alone is not inductive:
  it says nothing of executions past the suppression look. `Grace` adds them:
  mails after the opt-out plus executions at SMTP are at most the executions
  there are. Nobody joins them while the address is listed (`SendCleared` looks
  at the list), each that sends moves from one term to the other (`SmtpAccepts`),
  and a new opt-out starts from nothing (`OptOut`). It holds with any number of
  overlapping ticks, faults and repeated jobs.

`MailboxStatusProofs`, for every value that satisfies
`MailboxStatusAssumption` (limits are numbers, `Measured` are placement counts):

- `StatusTypes == Spec => []TypeOK`, one lemma for each group of writers.
- `StopIsKept == Spec => []StopHolds`. The tick writes on what it read, so the
  invariant `IStop` adds: a PAUSED mailbox on the tick's list was paused after
  the read (`unseen`), because `Decidable` takes no PAUSED row.
- `BreakerIsSound == Spec => []BreakerCatches`. `IOwing` adds that a mailbox with
  an unanswered bounce is over its limit now: an evaluation that counts now
  therefore decides to pause, which is what keeps the promise when the step
  "count" turns into "write". Nothing is assumed of the limits.

- `CampaignBreakerIsSound == Spec => []CampaignCaught`, the same over the sum of
  any number of mailboxes' rows; `ICampaign` holds the campaign to its limit.

`ThreadProofs` is about `Dispatch` with every fault, overlapping ticks and slow
ones. What a lead receives is bounded by an account, `Steps`: a step of its
sequence began when `b` mails were counted, and until its mail is written down
(`Due`) the mails that left and the executions that still may send are at most
`b`, the faults, and one for the execution the processor listens to (`Heard`). A
restart, a timeout or a lost write takes a listener away and counts one fault, so
the account balances. Once the mail is written (`Paid`) the row is not due, and
only a job the processor has already passed (`AboutTo`) can add to it.

- `MailsAreCounted == Spec => []EveryMailCounted` and
  `MailsAreBounded == Spec => []MailsBounded` follow for any number of leads,
  ticks, executions, slots and faults.
- `OneSenderIsKept == ASSUME SendsDoNotFail PROVE Spec => []OneSender`: ticks may
  overlap, be slow and throw, nothing else may fail. Then one execution is under
  way (`AllHeard`), the row names the sender of what left (`RowNamesSender`), and
  what `sendMail` saw when it looked holds until it writes (`Steady`). The
  hypothesis is needed: section 8 has what a crash does.
- `SendersAreBounded == Spec => []SendersBounded` says how far it goes then, and
  has no hypothesis. Until a first mail is counted there are no more senders than
  mails, and `Due` bounds those. From then on `sendMail` lets a follow-up pass
  only from the row's mailbox, which is one of the senders (`Agreed`); only an
  execution that had passed before can bring another (`Strangers`). The senders
  and these executions together are at most 1 and the faults: each that leaves
  moves from the second to the first, and none is added. `ThreadIsBounded ==
  Spec => []ThreadBounded` is this and `MailsAreBounded`.
- `NobodyIsForgotten == ASSUME OneCrash PROVE Spec => []NoLeadForgotten`. A lead
  may be in several places after a crash, so `BookInv` below does not hold. Instead
  `JobsApart` keeps jobs apart: BullMQ has one in one place, the job a tick or
  reconciliation is about to add is nobody else's and not yet there, the one the
  processor holds is active. `RunsAgain` says that an active job nobody holds was
  not recovered before, so BullMQ will run it, and `Listening` that the execution
  the processor waits for is of its job. On these rests `FoundInv`: a row names
  only a job of its own lead, and while nothing was mailed no count and no answer
  says so, and the job it names gets no record as finished without the row being
  written first (`Unmailed`). `OneCrash` allows any number of failed ticks, writes
  and API calls, or one crash, and excludes what loses a lead in the code: a
  second crash, after which BullMQ fails a job that stalled twice, a rejecting
  fetch (run `StrandedLead`), and a reconciliation that marks a lead with a job
  that ran already (`Slow`); section 8 lists them.

- `ReplyCostsOneMail == ASSUME ~Slow PROVE Spec /\ [][Drained]_vars =>
  []ReplyCrossedOnce`, for any ticks that overlap and any faults. The invariant
  `Accounts` follows a lead from its reply on. Until a mail after the reply is
  written down (`Crossing`), each execution that may still send is paid for by a
  fault, save the one that is heard. Then the lead waits for its next date
  (`Resting`), and a booking that was lost counts too, for reconciliation may
  repeat it (`Rebooks`). When that date comes and the row names no job, nobody has
  the lead nor will look for it (`Over`, `LeftAlone`): due follow-ups are read
  without the leads that replied. `Drained` says of a lead that got more such mails
  than there were faults what the code's waits say: no job of it is still queued
  when its next follow-up's date comes. That date is a day at least after the mail
  (`sequence.ts:11`), and a slot lies before the window closes that was open when it
  was booked (`enqueuer.ts:231`). `ReplyIsCrossedOnce` below needs no `Drained`.

`PromiseProofs` adds `Orderly`: no fault, one tick, not `Slow`. It is what the
code takes for granted between two failures, and the setting of `DispatchLead`.

- `BookInv` says that a lead is in one place on its way from row to mail: read
  by the tick, being marked, being added, in BullMQ, or in the processor's hand
  (`OnePlace`); that a lead anywhere on the way is not due (`Waits`, `Handled`);
  and that the job a row names is one somebody will run (`Named`).
- `NobodyIsStranded == Spec => []NoLeadStranded` reads off `Named`;
  `ReplyIsCrossedOnce == Spec => []ReplyCrossedOnce` off the mail that crossed a
  reply having ended the booking (`CrossedOnce`).
- `PromiseIsKept == Spec => ThreadPromise`: under the mapping of section 3 every
  step of `Dispatch` is a step of `Thread` or a stutter. A mail that leaves is
  `Thread`'s mail because the counts, the one sender and the two bounds above
  are exactly its guards.

`CadenceProofs`, for every jitter, noise and limit, any number of overlapping
ticks, executions, bookings and faults, and however late anything runs:

- `CadenceTypes == Spec => []TypeOK`.
- `OneSlotIsAhead == Spec => []OneSlotAhead` has no hypothesis. `IWatch` says how
  a reservation watches over the bookings that are out and not `loose`: none of
  them is later than the one it names (`ILine`), a tick that has not missed one
  reckons from there (`ITick`), and one whose slot is ahead is the one named and
  will be missed by every tick that has read (`IAhead`).
- `FloorIsKept == ASSUME Paced PROVE Spec => []GapKept`. `IPairs` says that a
  booking that follows one sent in time leaves room for its padding and the floor.
  `Paced` is about the code's numbers, not its load: the 120 s of padding are at
  most the least jitter less the most noise, 240 s - 90 s.
- `RollingLimitHolds == Spec => []RollingLimit` has no hypothesis. `IRoll` counts
  the mails of the last day and the sends under way against the limit; a mail
  without a row is lost or in the hand of an execution (`Rowless`), and an
  execution nobody listens to was counted (`Strayed`), so the processor's count is
  short by no more than `lost` and `strays`.

`SequenceProofs`, for any leads, mailboxes, plans, holds and acts of the owner.
`WaitAssumption` says that no wait is longer than an age is followed, as in the
code, where both numbers are the same constant.

- `OwnerStopsIt` needs no invariant. `SequenceTypes` needs `Sane`: a mail on its
  way goes by a row that was due.
- `AnswersStopFollowUps`, `AwayIsHeld`, `WaitIsKept` and `FollowUpsAreOwed` rest
  on one part each of `Parts`: `Silent` (a lead booked for a follow-up has no
  answer), `Resting` (its date is not before the end of its absence), `Patient`
  (date and age add up to the shortest wait), `Dated` (with a step left it has a
  date). `Drawn` and `Going` carry them over the gap between an outcome's read
  and its write. That the later of two dates is there at all is `GreatestNat`.

`WarmupProofs`, for any inboxes, targets, ages, faults and mails by hand:

- `WarmupTypes == Spec => [](TypeOK /\ InHand)`: the tick writes only rows that
  are there and still unjudged.
- `InboxesRest == Spec => []OneInboxPerGap`: an inbox the tick may still choose
  got nothing for the gap (`FreeInboxes`).
- `PlacementsAreTrue == Spec => []AnswersTrue`: the mails whose row is wrong, or
  may become wrong, are no more than the faults (`AnswersPaid`).
- `TargetsAreKept == Spec => []VolumeKept`: a mailbox that is due has room below
  the day's target (`Volume`), a day being counted from the stamp the first send
  writes. It rests on two facts of the code that the model states: a unit of
  time sees one tick at most, and a target is at least 1.

`DeskProofs`, module by module, for any sizes of the sets and bounds:

- `LinkIsProven` (`ILink`): a check that no edit overtook looks at the row's
  host, and one that passed did reach it.
- `AlertsComeOnce` (`IAlert`): an alert that is owed is in a scan's hand.
- `TheStoppedAreDead` (`FoundDead`): what a verdict or a job about to stop says
  is so of the address, unless it was corrected.
- `OneGrantAtATime` and `SignInIsKept` (`ConnectInv`): a grant about to be saved
  is new to the row, the calls and the caches (`Fresh`), and what a call holds
  is of one grant (`OfOne`) until a sign-in is saved over it. The second is a
  property of steps.
- `ListIsAgreed` and `TheErasedStayErased` (`IIngest`): a request that may write
  what is listed or erased by now knows that it was overtaken (`Aware`), be it an
  import, an edit, a tick that read a lead, or a send past its look at the list;
  its lead is there (`Sane`), and only an erased or deleted row has no address
  (`Named`). The look of `sendMail` is what makes a send that had been overtaken
  before it up to date again.
- `TheOfferIsKept` and `AllKeysAreAsked` (`IWriting`): how many tries and answers
  brought a request to its phase (`EmailTries`, `LabelTries`).
- `TheForecastIsKept` (`IPlan`), for any mailboxes, campaigns, bookings and days.
  The plan and the two queues are sequences, so each part is an account of how
  many entries of a kind they hold; `CountAppend` and `CountLess` say what adding
  and removing one does. Inside a day the room left is the day's less what it
  planned (`RoomKept`); every wait that is over and not yet planned is still in a
  queue (`WaitsKept`); a campaign ends its day with its leads, its limit or its
  mailboxes' room (`PartKept`); and what was put off had no mailbox
  (`FollowUpsFirst`). It uses that a follow-up waits a day at least
  (`sequence.ts:11`).

Only model-checked:

- Liveness (`BookingsResolve`, `SendingEnds`, `EveryMailJudged` and the properties
  of `Checks`): it needs fairness and ENABLED, which are out of the prover's reach.

## 8. Disagreements between code and comments

Two runs expect a violation of what a comment says; `PROJECT.json` quotes it.

- `StrandedLead`: a fetch to n8n that rejects leaves its lead QUEUED under the id
  of a failed job, which nothing looks at until BullMQ forgets it.
- `MailboxLost`: reconnecting while neither an app nor a license is set up
  deletes the mailbox (`oauthCallback.ts:270`), which its own helper says it
  leaves alone (`:83`). A license that cannot be loaded counts as none.

The rest was met while modelling and has no run. Where a property is limited by
one of these, its comment names the exception.

Dispatch:
- A follow-up goes out after a reply that was stored behind the processor's
  check (`mailSender.ts:342` against `sequence.ts:7`).
- A failed counter update repeats a mail that left (`mailSender.ts:534` against
  `:515`).
- A suppressed row is written over by a tick that read it before
  (`enqueuer.ts:379`) and by a send past its look at the list, whether its mail
  left (`mailSender.ts:556`) or failed (`:264-286`): list and row disagree against
  `suppression.ts:7-9`. The address stays listed and `OptOutHolds` is kept.
  `ListAgrees` names these rows (`raced`).
- After a crash two executions of a job can leave a lead that was mailed QUEUED
  with neither job nor date (`NoLeadForgotten` is what remains); a job stalled
  twice strands its lead; with two mailboxes the first email of the second
  execution may come from the other one (`SendersBounded` is what remains); a tick
  or reconciliation slower than the wait it books can strand a lead.
- Two ticks that overlap may book a follow-up twice (`worker/src/index.ts:46` does
  not wait for the last one). The second job is given back because the row's next
  date is still ahead; nothing compares the job with the row's `queuedJobId`. Were
  the slot more than a day away, a second mail would cross a reply (`Drained`,
  section 7).

Mailbox status:
- A mailbox the breaker paused behind the tick's read becomes ACTIVE, flag and
  all, and a pause of the owner's is undone the same way (`engine.ts:354`
  against `mailboxes.ts:164`). That is the exception in `StopHolds`.
- The breaker's limit is 3 % of 50 (`mailSender.ts:167`), not the 5 % of 20 of
  the repository's `README.md:27`.

Cadence (section 5 has each as an exception that TLC shows to be needed):
- The 8-minute floor (`README.md:29`) is not kept after a mail stamped 120 s or
  more behind its slot, which a queue or one slow fetch is enough for; the
  processor does not look at the floor again (`processor.ts:144-155`).
- "Each mailbox holds at most one booked slot at a time" (`enqueuer.ts:134`) is
  not kept by two ticks that overlap (`index.ts:46`), by the reconciliation
  (`reconcile.ts:79`), nor when a lead two ticks booked has its slot freed
  (`processor.ts:30-50`); nor is the floor between such slots.
- The rolling limit is passed by executions the processor gave up on
  (`processor.ts:216`) and by mails whose log row failed (`mailSender.ts:598`).

Sequence:
- An edit of the steps dates a lead anew while it is away
  (`campaigns.ts:512` and on, against `replyOutcome.ts:7`).
- An edit passes over a lead that still names a job though its date was
  cleared: that follow-up is lost (`Missed`).
- A mailbox deleted under a send turns a mail that left into a failure. Leads of
  a deleted mailbox that an edit dates anew keep their campaign ACTIVE for good.
- An outcome races a send, an edit or another answer (`replyOutcome.ts:79`).
- A reply labelled again as an opt-out puts nobody on the list.
- A completed campaign is reopened without the checks of a launch.

Warm-up: a mail is filed away before its row is written, though
`placement.ts:66` says after; a restart after a rescue makes the next tick
record INBOX for what was spam; a mail that left but was written FAILED leaves
its inbox free for another; one whose row was never written is seen by nobody, and
a seed deleted while a tick runs is one way to that: the tick ends with an error
and the mailboxes after it wait for the next (`engine.ts:442-451`).

Leads: an edit that read before an erasure writes the address back.

Connections: a mint of an old grant during a reconnect writes its rotated
refresh token over the new one; a refusal of an old token flags a mailbox that
was just connected, until the next send.

Domains: a check overtaken by an edit of the host gives the new host PASS
(`linkDomain.ts:10`); DELETE counts mailboxes and then cascades
(`domains.ts:309-315`).

Look-alikes: the row is written before the alert, so a failed webhook ends the
scan and nobody hears of it; an HTTP error of the webhook goes unnoticed.

Address check: a verdict is kept by lead, not by address (`addressRisk.ts:61`),
and outlives a correction.

Writing: an answer that is only a placeholder or only a subject line leaves an
empty body, `composeCampaignEmail.ts:331` never fires, and the send stops at
`internalMail.ts:45`, against `internalAi.ts:99-100`.

Forecast: the plan for today does not take first emails already sent today off
`maxNewLeadsPerDay` (`sendForecast.ts:175`); jobs and leads are read at
different times.

Server name: a late read may put an older result back in the cache for a minute; while DNS is
silent every ask past the hour starts a check.

Seed placement: nothing claims a row, so a run that could not read an inbox may
delete a row the other one judged; `createMany` fails as a whole when one seed
was deleted in between; a row that is gone ends the run.

## 9. Not modelled

- Login throttle and rate limits: one Redis counter behind each route.
- The hourly sign-in check of mailboxes nothing else uses.
- Install, update and backup scripts; dashboard routes without state of their own.
- What SPF, DKIM, DMARC and blocklists answer: single writes of what DNS says.
- Wording: compliance text, prompts, spam words. Transports, DNS and SMTP I/O:
  their answers are choices.
- Left open, so that the models allow more than the code: the risk rotation of
  the first-email pass and `maxNewLeadsPerDay` in the tick.
