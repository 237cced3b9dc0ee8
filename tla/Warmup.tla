------------------------------- MODULE Warmup -------------------------------
(***************************************************************************)
(* The warm-up mails: one tick at a time looks for the mails sent before,   *)
(* records where each landed, and sends the ones that are due; the operator *)
(* can send one more at any time.  The decision taken between the two is    *)
(* WarmupPolicy's, with the mailbox rows it changes in MailboxStatus; here  *)
(* a mailbox stays in WARMUP.                                               *)
(*                                                                          *)
(* mails is what left, with the row that was written for it, or "none".     *)
(* A mail lands when it is first found; until then it may be under way,     *)
(* lost or bounced.  A reader's find finds it wherever it looks: the search *)
(* by Message-ID and the fallback by sender and subject are not told apart. *)
(* A unit of time is longer than the placement checks of a tick, and sees   *)
(* one tick at most.                                                        *)
(***************************************************************************)
EXTENDS Integers, Sequences, FiniteSets

CONSTANTS
  Mailboxes, Seeds,  \* inboxes WarmHawk reads: its own, and seed accounts
  SameDomain(_, _),  \* two inboxes share a domain
  Target,            \* dailyWarmupTarget, by warm-up day; the last one stays
  SendWindow,        \* SEND_WINDOW_HOURS
  Day,               \* DAY_MS
  CheckAfter, GiveUp, UncheckedAfter,  \* CHECK_AFTER_MS, CHECK_GIVE_UP_MS, ...
  RecipientGap,      \* RECIPIENT_GAP_MS
  MaxMails,          \* bound: mails
  MaxManual,         \* bound: mails sent by the operator
  MaxFaults          \* bound: crashes, and writes and sends that fail

Inboxes == Mailboxes \cup Seeds
None == -1

ASSUME WarmupAssumption ==
  /\ Target \in Seq(Nat \ {0}) /\ Target # <<>> \* WARMUP_START_PER_DAY, and it grows
  /\ {SendWindow, CheckAfter, RecipientGap, MaxMails, MaxManual, MaxFaults} \subseteq Nat
  /\ {GiveUp, UncheckedAfter, Day} \subseteq Nat \ {0}
  /\ CheckAfter <= GiveUp /\ GiveUp <= UncheckedAfter /\ UncheckedAfter <= Day
  /\ RecipientGap <= CheckAfter \* 5 minutes and 3; half a tick is one unit here

VARIABLES
  mails,    \* mails that left, or were tried, in order
  elapsed,  \* per mailbox: time since warmupStartedAt
  pool,     \* loadPartnerPool
  tick,     \* runWarmupTick, tickRunning
  faults    \* faults so far

vars == <<mails, elapsed, pool, tick, faults>>

Seen == {"inbox", "spam"}  \* Gmail's Promotions tab is an inbox here
Answers == {"INBOX", "SPAM", "MISSING", "BOUNCED", "UNCHECKED"}
Rows == Answers \cup {"none", "PENDING", "FAILED"}
Mail == [from : Mailboxes, to : Inboxes, age : 0..Day, manual : BOOLEAN,
         landed : Seen \cup {"none"}, at : Seen \cup {"none", "filed"}, row : Rows]
IdleTick == [pc |-> "idle", todo |-> {}, mail |-> 0, found |-> "none",
             due |-> {}, fresh |-> {}, busy |-> {}, partners |-> {}]

TypeOK ==
  /\ mails \in Seq(Mail) /\ Len(mails) <= MaxMails
  /\ elapsed \in [Mailboxes -> (0..Len(Target) * Day) \cup {None}]
  /\ pool \subseteq Inboxes
  /\ tick \in [pc : {"idle", "check", "found", "send", "sent", "done"}, todo : SUBSET (1..MaxMails),
               mail : 0..MaxMails, found : Seen \cup {"none"}, due : SUBSET Mailboxes,
               fresh : SUBSET Mailboxes, busy : SUBSET Inboxes, partners : SUBSET Inboxes]
  /\ faults \in 0..MaxFaults

Init ==
  /\ mails = <<>>
  /\ elapsed = [m \in Mailboxes |-> None]
  /\ pool = Inboxes
  /\ tick = IdleTick
  /\ faults = 0

-----------------------------------------------------------------------------
(* What is due.                                                             *)

Mails == 1..Len(mails)
SentBy(m) == {i \in Mails : mails[i].from = m /\ mails[i].row # "none"}

\* warmupDay, and the hours since warmupDayStart
WarmupDay(m) == IF elapsed[m] = None THEN 1 ELSE elapsed[m] \div Day + 1
DayTime(m) == IF elapsed[m] = None THEN 0 ELSE elapsed[m] % Day
DayTarget(m) == Target[WarmupDay(m)]

\* countSentThisWarmupDay: every row counts, a failed send's too
SentToday(m) == {i \in SentBy(m) : mails[i].age <= DayTime(m)}

\* mutant: a failed send does not count
IsSendDue_NotFailed(m) ==
  LET target == DayTarget(m) IN
  /\ Cardinality({i \in SentToday(m) : mails[i].row # "FAILED"}) < target
  /\ \A i \in SentBy(m) : mails[i].age >= SendWindow \div target

\* isSendDue, minSendGapMs
IsSendDue(m) ==
  LET target == DayTarget(m) IN
  /\ Cardinality(SentToday(m)) < target
  /\ \A i \in SentBy(m) : mails[i].age >= SendWindow \div target

\* the recipients a tick leaves out: mailed a moment ago
BusyInboxes == {mails[i].to : i \in {k \in Mails :
                  mails[k].row \notin {"none", "FAILED"} /\ mails[k].age < RecipientGap}}

\* recentRecipientCounts
RecentCount(m, p) == Cardinality({i \in SentBy(m) : mails[i].to = p /\ mails[i].age < Day})

\* partnersFor, choosePartner: another domain first, then the least written to
Partners(m, partners, busy) ==
  LET free == partners \ ({m} \cup busy)
      best == {p \in free : \A q \in free : SameDomain(m, p) => SameDomain(m, q)}
  IN  {p \in best : \A q \in best : RecentCount(m, p) <= RecentCount(m, q)}

-----------------------------------------------------------------------------
(* The tick, first part: the pending placements.                            *)

CheckStarts ==
  /\ tick.pc = "idle"
  /\ tick' = [IdleTick EXCEPT !.pc = "check",
                              !.todo = {i \in Mails : /\ mails[i].row = "PENDING"
                                                      /\ mails[i].age >= CheckAfter}]
  /\ UNCHANGED <<mails, elapsed, pool, faults>>

Records(i, answer) ==
  /\ mails' = [mails EXCEPT ![i].row = answer, ![i].at = "none"] \* nobody looks again
  /\ tick' = [tick EXCEPT !.todo = @ \ {i}, !.pc = "check"]

\* a failure report about a mail that never landed; a delay is none
findBounce(i) == mails[i].landed = "none"

\* recordBounce: the sender's inbox holds a report, and could be read
BounceOr(i, answer) ==
  \/ Records(i, answer)
  \/ findBounce(i) /\ Records(i, "BOUNCED")

Keeps(i) ==
  /\ tick' = [tick EXCEPT !.todo = @ \ {i}]
  /\ UNCHANGED mails

Checking(i) == tick.pc = "check" /\ i \in tick.todo

\* mutant: an inbox that cannot be read is asked again for ever
Unreadable_Waits(i) ==
  /\ Checking(i)
  /\ Keeps(i)
  /\ UNCHANGED <<elapsed, pool, faults>>

(* The recipient's inbox is gone, cannot be opened or does not answer.      *)
Unreadable(i) ==
  /\ Checking(i)
  /\ IF mails[i].age >= UncheckedAfter THEN BounceOr(i, "UNCHECKED") ELSE Keeps(i)
  /\ UNCHANGED <<elapsed, pool, faults>>

\* a seed account that was deleted has no reader, and no row can name it
Readable(i) == mails[i].to \in Mailboxes \cup pool

NotFound(i) ==
  /\ Checking(i)
  /\ Readable(i)
  /\ mails[i].at \in {"none", "filed"}
  /\ IF mails[i].age >= GiveUp THEN BounceOr(i, "MISSING") ELSE Keeps(i)
  /\ UNCHANGED <<elapsed, pool, faults>>

(* Found: rescued from spam or marked read, and filed away, as far as the   *)
(* server lets it; only then is the answer written.                         *)
Found(i) ==
  /\ Checking(i)
  /\ Readable(i)
  /\ \E where \in IF mails[i].at = "none" THEN Seen ELSE {mails[i].at} \cap Seen :
       /\ tick' = [tick EXCEPT !.pc = "found", !.mail = i, !.found = where]
       /\ \E at \in {where, "filed"} \cup (IF where = "spam" THEN {"inbox"} ELSE {}) :
            mails' = [mails EXCEPT ![i].at = at,
                                   ![i].landed = IF @ = "none" THEN where ELSE @]
  /\ UNCHANGED <<elapsed, pool, faults>>

\* mutant: the answer is what the inbox looks like after the rescue
FoundRecorded_Rescued ==
  /\ tick.pc = "found"
  /\ Records(tick.mail, IF mails[tick.mail].at = "spam" THEN "SPAM" ELSE "INBOX")
  /\ UNCHANGED <<elapsed, pool, faults>>

FoundRecorded ==
  /\ tick.pc = "found"
  /\ Records(tick.mail, IF tick.found = "spam" THEN "SPAM" ELSE "INBOX")
  /\ UNCHANGED <<elapsed, pool, faults>>

-----------------------------------------------------------------------------
(* The tick, last part: one mail for every mailbox that is due.             *)

(* sendDueWarmups reads everything it goes by, once.                        *)
SendStarts ==
  /\ tick.pc = "check" /\ tick.todo = {}
  /\ LET due == {m \in Mailboxes : IsSendDue(m)} IN
       tick' = [IdleTick EXCEPT !.pc = "send", !.due = due, !.busy = BusyInboxes,
                                !.fresh = {m \in due : elapsed[m] = None}, !.partners = pool]
  /\ UNCHANGED <<mails, elapsed, pool, faults>>

NewMail(m, p, manual) ==
  [from |-> m, to |-> p, age |-> 0, manual |-> manual,
   landed |-> "none", at |-> "none", row |-> "none"]

Stamps(m, fresh) == elapsed' = IF fresh THEN [elapsed EXCEPT ![m] = 0] ELSE elapsed

(* The mailbox was read as paused, disabled, flagged or not connected, or   *)
(* it has no partner, or they are all busy: it tries again next tick.       *)
PassedOver(m) ==
  /\ tick.pc = "send" /\ m \in tick.due
  /\ tick' = [tick EXCEPT !.due = @ \ {m}]
  /\ UNCHANGED <<mails, elapsed, pool, faults>>

Sends(m) ==
  /\ tick.pc = "send" /\ m \in tick.due
  /\ Len(mails) < MaxMails
  /\ Stamps(m, m \in tick.fresh)
  /\ \E p \in Partners(m, tick.partners, tick.busy) : mails' = Append(mails, NewMail(m, p, FALSE))
  /\ tick' = [tick EXCEPT !.pc = "sent", !.mail = Len(mails) + 1, !.due = @ \ {m}]
  /\ UNCHANGED <<pool, faults>>

\* mutant: the tick knows only the inboxes mailed before it
SentRecorded_NotBusy ==
  /\ tick.pc = "sent" /\ Readable(tick.mail)
  /\ mails' = [mails EXCEPT ![tick.mail].row = "PENDING"]
  /\ tick' = [tick EXCEPT !.pc = "send"]
  /\ UNCHANGED <<elapsed, pool, faults>>

SentRecorded ==
  /\ tick.pc = "sent" /\ Readable(tick.mail)
  /\ mails' = [mails EXCEPT ![tick.mail].row = "PENDING"]
  /\ tick' = [tick EXCEPT !.pc = "send", !.busy = @ \cup {mails[tick.mail].to}]
  /\ UNCHANGED <<elapsed, pool, faults>>

(* The send is refused, or it throws although the mail went out, or its row *)
(* cannot be written the first time: FAILED, and the inbox stays free.      *)
SentFailed ==
  /\ tick.pc = "sent" /\ Readable(tick.mail)
  /\ faults < MaxFaults
  /\ mails' = [mails EXCEPT ![tick.mail].row = "FAILED"]
  /\ tick' = [tick EXCEPT !.pc = "send"]
  /\ faults' = faults + 1
  /\ UNCHANGED <<elapsed, pool>>

(* The seed was deleted since the pool was read: no row can name it, the     *)
(* second attempt's neither, and the tick is over.                          *)
RowRefused ==
  /\ tick.pc = "sent" /\ ~Readable(tick.mail)
  /\ tick' = [IdleTick EXCEPT !.pc = "done"]
  /\ UNCHANGED <<mails, elapsed, pool, faults>>

SendEnds ==
  /\ tick.pc = "send" /\ tick.due = {}
  /\ tick' = [IdleTick EXCEPT !.pc = "done"]
  /\ UNCHANGED <<mails, elapsed, pool, faults>>

(* The API restarts, or a write throws: the tick is over where it stood.    *)
TickDies ==
  /\ tick.pc \notin {"idle", "done"}
  /\ faults < MaxFaults
  /\ tick' = [IdleTick EXCEPT !.pc = "done"]
  /\ faults' = faults + 1
  /\ UNCHANGED <<mails, elapsed, pool>>

-----------------------------------------------------------------------------
(* The world, and the operator.                                             *)

(* POST /warmup/:id/send-now: no look at the target, the gap or the busy    *)
(* inboxes.  The call is one step.                                          *)
SendNow(m) ==
  /\ m \in pool
  /\ Len(mails) < MaxMails
  /\ Cardinality({i \in Mails : mails[i].manual}) < MaxManual
  /\ Stamps(m, elapsed[m] = None)
  /\ \E p \in Partners(m, pool, {}) :
       mails' = Append(mails, [NewMail(m, p, TRUE) EXCEPT !.row = "PENDING"])
  /\ UNCHANGED <<pool, tick, faults>>

(* A seed account is deleted: the mails to it lose their recipient.         *)
SeedRemoved(s) ==
  /\ pool' = pool \ {s}
  /\ UNCHANGED <<mails, elapsed, tick, faults>>

(* Time passes; after it n8n may start another tick.                        *)
Hour ==
  /\ tick.pc \notin {"check", "found"}
  /\ mails' = [i \in Mails |-> [mails[i] EXCEPT !.age = IF @ < Day THEN @ + 1 ELSE @]]
  /\ elapsed' = [m \in Mailboxes |->
       CASE elapsed[m] = None -> None
         [] elapsed[m] + 1 = Len(Target) * Day -> (Len(Target) - 1) * Day
         [] OTHER -> elapsed[m] + 1]
  /\ tick' = IF tick.pc = "done" THEN IdleTick ELSE tick
  /\ UNCHANGED <<pool, faults>>

Tick ==
  \/ CheckStarts
  \/ \E i \in Mails : Unreadable(i) \/ NotFound(i) \/ Found(i)
  \/ FoundRecorded
  \/ SendStarts
  \/ \E m \in Mailboxes : PassedOver(m) \/ Sends(m)
  \/ SentRecorded
  \/ SentFailed
  \/ RowRefused
  \/ SendEnds

Next ==
  \/ Tick
  \/ TickDies
  \/ \E m \in Mailboxes : SendNow(m)
  \/ \E s \in Seeds : SeedRemoved(s)
  \/ Hour

(* n8n starts the next tick, and time passes; nothing else is promised.     *)
Spec == Init /\ [][Next]_vars /\ WF_vars(Tick) /\ WF_vars(Hour)

-----------------------------------------------------------------------------
(* Properties.                                                              *)

Ticked(i) == ~mails[i].manual /\ mails[i].row # "none"

(* The mails a tick sends a mailbox's warm-up day are at most that day's    *)
(* target, failed ones included; only a mail without a row is not seen.     *)
VolumeKept ==
  \A m \in Mailboxes :
    Cardinality({i \in SentToday(m) : ~mails[i].manual}) <= DayTarget(m)

(* Across mailboxes an inbox gets one of the ticks' mails per RecipientGap, *)
(* unless the first was not recorded as sent.                               *)
OneInboxPerGap ==
  \A i, j \in Mails :
    /\ i < j /\ Ticked(i) /\ ~mails[j].manual
    /\ mails[i].row # "FAILED" /\ mails[i].to = mails[j].to
    /\ mails[i].age < Day
    => mails[i].age - mails[j].age >= RecipientGap

TrueAnswers ==
  [inbox |-> {"INBOX"}, spam |-> {"SPAM"}, none |-> {"BOUNCED", "MISSING"}]

(* What a row says is where the mail landed, so that the health score a     *)
(* mailbox graduates on is earned: a tick that dies between moving a mail   *)
(* and writing the row is the only way to a wrong one.                      *)
AnswersTrue ==
  Cardinality({i \in Mails : /\ mails[i].row \in Answers \ {"UNCHECKED"}
                             /\ mails[i].row \notin TrueAnswers[mails[i].landed]}) <= faults

(* No mail stays PENDING, whatever happens to the inbox it went to.         *)
EveryMailJudged ==
  \A i \in 1..MaxMails :
    (i \in Mails /\ mails[i].row = "PENDING") ~> (i \in Mails /\ mails[i].row # "PENDING")

=============================================================================
