------------------------------ MODULE Sequence ------------------------------
(***************************************************************************)
(* A campaign's follow-ups while people change things under it: the owner   *)
(* edits steps and senders, pauses, archives, deletes a mailbox, imports;   *)
(* people answer, away notices come in and are labelled; the tick completes *)
(* and reopens the campaign.  Dispatch has the pipeline of one mail; here a *)
(* mail is booked, leaves and is recorded, and days pass.                   *)
(*                                                                          *)
(* Dates are days from today: 0 is due, None is null.  No day passes        *)
(* between the reads and the write of one call.  "ANSWER" stands for every  *)
(* label but away notice, auto-reply and not labelled.  A booking stands    *)
(* for its BullMQ job, which the reconciliation sees to.                    *)
(***************************************************************************)
EXTENDS Integers, Sequences, FiniteSets, FiniteSetsExt

CONSTANTS
  Lead, Mailbox, NoMailbox,
  MaxFollowUps,       \* MAX_FOLLOW_UPS
  Plans,              \* the lists of waits the owner may save, in days
  Lookback,           \* RESCHEDULE_LOOKBACK_DAYS
  Holds,              \* days an away notice may hold the follow-ups
  MaxRetryAttempts,   \* MAX_RETRY_ATTEMPTS
  MaxReplies,         \* bound: replies of a lead
  MaxActs             \* bound: things the owner does

None == -1

ASSUME SequenceAssumption ==
  /\ MaxFollowUps \in Nat /\ Plans \subseteq Seq(Nat) /\ Lookback \in Nat
  /\ Holds \subseteq Nat /\ MaxRetryAttempts \in Nat \ {0}
  /\ MaxReplies \in Nat /\ MaxActs \in Nat
  /\ NoMailbox \notin Mailbox
  /\ \A p \in Plans : Len(p) <= MaxFollowUps

\* MAX_WAIT_DAYS is RESCHEDULE_LOOKBACK_DAYS; an age counts one day further
ASSUME WaitAssumption == \A p \in Plans : \A i \in DOMAIN p : p[i] <= Lookback + 1

VARIABLES
  status,    \* Campaign.status; PAUSED stands for ARCHIVED too
  steps,     \* CampaignStep: waitDays by position
  senders,   \* CampaignMailbox
  boxes,     \* Mailbox rows
  lead,      \* Lead rows; ABSENT before the import
  replies,   \* Reply rows of a lead, oldest first
  send,      \* a lead's mail between the processor's check and its record
  call,      \* an applyReplyOutcome call for a lead
  acts,      \* bound: what the owner has done
  stopped,   \* history: paused, and not launched since
  ended,     \* history: sequences given up, or passed over by an edit
  least,     \* history: shortest wait for the next follow-up since the last mail
  excused,   \* history: leads written on what was no longer so
  redated,   \* history: leads an edit dated anew while they were away
  early, disturbed, answered  \* history: leads a follow-up reached too early,
                              \* in their absence, after their answer

campVars == <<status, steps, senders, boxes>>
pastVars == <<ended, least, excused, redated, early, disturbed, answered>>
vars == <<campVars, lead, replies, send, call, acts, stopped, pastVars>>

CampaignStatus == {"DRAFT", "ACTIVE", "PAUSED", "COMPLETED"}
LeadStatus == {"ABSENT", "UNTOUCHED", "QUEUED", "CONTACTED", "REPLIED", "SUPPRESSED"}
Label == {"UNCLASSIFIED", "OUT_OF_OFFICE", "AUTO_REPLY", "ANSWER"}
Date == Nat \cup {None}
Row == [status : LeadStatus, sent : 0..(MaxFollowUps + 1), retries : 0..MaxRetryAttempts,
        next : Date, age : 0..(Lookback + 1),
        job : Mailbox \cup {NoMailbox}, mailbox : Mailbox \cup {NoMailbox}]
NewRow == [status |-> "ABSENT", sent |-> 0, retries |-> 0, next |-> None, age |-> 0,
           job |-> NoMailbox, mailbox |-> NoMailbox]
Reply == [label : Label, hold : Nat]
Sends == [pc : {"none", "smtp", "write"}, row : Row, steps : Plans \cup {<<>>}]
Calls == [pc : {"none", "rest", "write"}, row : Row, replies : Seq(Reply),
          steps : Plans \cup {<<>>}, next : Date]
NoSend == [pc |-> "none", row |-> NewRow, steps |-> <<>>]
NoCall == [pc |-> "none", row |-> NewRow, replies |-> <<>>, steps |-> <<>>, next |-> None]

TypeOK ==
  /\ status \in CampaignStatus
  /\ steps \in Plans
  /\ senders \subseteq boxes /\ boxes \subseteq Mailbox
  /\ lead \in [Lead -> Row]
  /\ replies \in [Lead -> Seq(Reply)]
  /\ send \in [Lead -> Sends]
  /\ call \in [Lead -> Calls]
  /\ acts \in 0..MaxActs /\ stopped \in BOOLEAN
  /\ least \in [Lead -> Date]
  /\ {ended, excused, redated, early, disturbed, answered} \subseteq SUBSET Lead

Init ==
  /\ status = "DRAFT"
  /\ steps \in Plans
  /\ boxes = Mailbox
  /\ senders \in SUBSET Mailbox
  /\ lead = [l \in Lead |-> NewRow]
  /\ replies = [l \in Lead |-> <<>>]
  /\ send = [l \in Lead |-> NoSend]
  /\ call = [l \in Lead |-> NoCall]
  /\ acts = 0 /\ stopped = FALSE
  /\ least = [l \in Lead |-> None]
  /\ ended = {} /\ excused = {} /\ redated = {} /\ early = {} /\ disturbed = {} /\ answered = {}

-----------------------------------------------------------------------------
(* The rules of a sequence.                                                 *)

\* nextStepAtAfter: days from a mail, the sent-th, to the next one
nextStepAtAfter(ss, sent) == IF sent \in DOMAIN ss THEN ss[sent] ELSE None

\* a date that many days after one that is age days back
Since(wait, age) == IF wait = None THEN None ELSE IF wait > age THEN wait - age ELSE 0

Earlier(a, b) == IF a = None THEN b ELSE IF b = None THEN a ELSE Min({a, b})

\* keepsSequence, for all replies of a lead
Keeping(rs) == \A i \in DOMAIN rs : rs[i].label \in {"OUT_OF_OFFICE", "AUTO_REPLY"}

\* awayUntil: the days its away notices hold a lead
Held(rs) == {rs[i].hold : i \in {k \in DOMAIN rs : rs[k].label = "OUT_OF_OFFICE"}}

\* mutant: a follow-up somebody answered is owed all the same
StillToSend_AnyReply(l) ==
  \/ lead[l].status \in {"UNTOUCHED", "QUEUED"}
  \/ lead[l].status = "CONTACTED" /\ (lead[l].job # NoMailbox \/ lead[l].next # None)

\* LEAD_STILL_TO_SEND
StillToSend(l) ==
  \/ lead[l].status \in {"UNTOUCHED", "QUEUED"}
  \/ /\ lead[l].status = "CONTACTED"
     /\ lead[l].job # NoMailbox \/ (lead[l].next # None /\ Keeping(replies[l]))

Imported == {l \in Lead : lead[l].status # "ABSENT"}

-----------------------------------------------------------------------------
(* The owner (routes/campaigns.ts, routes/mailboxes.ts, imports).           *)

Acts == acts < MaxActs /\ acts' = acts + 1

(* The launch check wants a mailbox that may send; that its text, address   *)
(* and unsubscribe link are there is not told apart.                        *)
Launch ==
  /\ Acts
  /\ senders # {}
  /\ status' = "ACTIVE" /\ stopped' = FALSE
  /\ UNCHANGED <<steps, senders, boxes, lead, replies, send, call, pastVars>>

Pause ==
  /\ Acts
  /\ status' = "PAUSED" /\ stopped' = TRUE
  /\ UNCHANGED <<steps, senders, boxes, lead, replies, send, call, pastVars>>

Import(l) ==
  /\ lead[l].status = "ABSENT"
  /\ lead' = [lead EXCEPT ![l].status = "UNTOUCHED"]
  /\ UNCHANGED <<campVars, replies, send, call, acts, stopped, pastVars>>

EditSenders ==
  /\ Acts
  /\ senders' \in SUBSET boxes
  /\ UNCHANGED <<status, steps, boxes, lead, replies, send, call, stopped, pastVars>>

\* mutant: only a date that is there is moved
Redated_Dated(row) == row.status = "CONTACTED" /\ row.job = NoMailbox /\ row.sent >= 1 /\ row.next # None

\* the WHERE of the update that re-times waiting leads
Redated(row) ==
  /\ row.status = "CONTACTED" /\ row.job = NoMailbox /\ row.sent >= 1
  /\ row.next # None \/ row.age <= Lookback

\* history: an ended sequence the edit does not reach
Missed(row) == row.next = None /\ (row.job # NoMailbox \/ row.age > Lookback)

(* writeSendersAndSteps: new steps, and the waiting leads re-timed, in one  *)
(* transaction.                                                             *)
EditSteps ==
  /\ Acts
  /\ steps' \in Plans
  /\ lead' = [l \in Lead |->
       IF Redated(lead[l])
       THEN [lead[l] EXCEPT !.next = Since(nextStepAtAfter(steps', lead[l].sent), lead[l].age)]
       ELSE lead[l]]
  /\ ended' = {l \in Lead : IF lead[l].status = "CONTACTED" THEN Missed(lead[l]) ELSE l \in ended}
  /\ least' = [l \in Lead |-> Earlier(least[l], nextStepAtAfter(steps', lead[l].sent))]
  /\ redated' = redated \cup {l \in Lead : Redated(lead[l]) /\ \E h \in Held(replies[l]) : h > 0}
  /\ UNCHANGED <<status, senders, boxes, replies, send, call, stopped,
                 excused, early, disturbed, answered>>

(* A mailbox goes, and the sequences of its leads with it.                  *)
DeleteMailbox(m) ==
  /\ Acts
  /\ m \in boxes
  /\ boxes' = boxes \ {m} /\ senders' = senders \ {m}
  /\ lead' = [l \in Lead |-> IF lead[l].mailbox = m
                             THEN [lead[l] EXCEPT !.mailbox = NoMailbox, !.next = None]
                             ELSE lead[l]]
  /\ UNCHANGED <<status, steps, replies, send, call, stopped, pastVars>>

-----------------------------------------------------------------------------
(* The worker's tick, and a mail.                                           *)

\* mutant: the update does not look at the status it replaces
TickCompletes_Any ==
  /\ Imported # {} /\ \A l \in Lead : ~StillToSend(l)
  /\ status' = "COMPLETED"
  /\ UNCHANGED <<steps, senders, boxes, lead, replies, send, call, acts, stopped, pastVars>>

\* syncCampaignCompletion
TickCompletes ==
  /\ status = "ACTIVE"
  /\ Imported # {} /\ \A l \in Lead : ~StillToSend(l)
  /\ status' = "COMPLETED"
  /\ UNCHANGED <<steps, senders, boxes, lead, replies, send, call, acts, stopped, pastVars>>

TickReopens ==
  /\ status = "COMPLETED"
  /\ \E l \in Lead : StillToSend(l)
  /\ status' = "ACTIVE"
  /\ UNCHANGED <<steps, senders, boxes, lead, replies, send, call, acts, stopped, pastVars>>

FollowUpDue(l) ==
  /\ lead[l].status = "CONTACTED" /\ lead[l].next = 0 /\ lead[l].job = NoMailbox
  /\ Keeping(replies[l])

FirstEmailDue(l) ==
  lead[l].status = "UNTOUCHED" \/ (lead[l].status = "QUEUED" /\ lead[l].job = NoMailbox)

Book(l, m) ==
  /\ status = "ACTIVE" /\ m \in boxes
  /\ \/ /\ FollowUpDue(l) /\ m = lead[l].mailbox
        /\ lead' = [lead EXCEPT ![l].job = m]
     \/ /\ FirstEmailDue(l) /\ m \in senders
        /\ lead' = [lead EXCEPT ![l].job = m, ![l].status = "QUEUED"]
  /\ UNCHANGED <<campVars, replies, send, call, acts, stopped, pastVars>>

\* processDispatchJob: may the booked mail go?
Fits(row) ==
  /\ status = "ACTIVE" /\ row.job \in boxes
  /\ IF row.sent > 0 THEN row.mailbox = row.job /\ row.status = "CONTACTED" /\ row.next = 0
     ELSE row.status = "QUEUED" /\ row.job \in senders

Booked(l) == lead[l].job # NoMailbox /\ send[l] = NoSend

\* releaseLead
Release(l) ==
  /\ Booked(l) /\ ~Fits(lead[l])
  /\ lead' = [lead EXCEPT ![l].job = NoMailbox,
                         ![l].status = IF @ = "QUEUED" THEN "UNTOUCHED" ELSE @]
  /\ UNCHANGED <<campVars, replies, send, call, acts, stopped, pastVars>>

Composable(row) == row.sent = 0 \/ row.sent \in DOMAIN steps

(* The step is gone: /personalize ends the sequence.                        *)
NothingToWrite(l) ==
  /\ Booked(l) /\ Fits(lead[l]) /\ ~Composable(lead[l])
  /\ lead' = [lead EXCEPT ![l].job = NoMailbox, ![l].next = None]
  /\ UNCHANGED <<campVars, replies, send, call, acts, stopped, pastVars>>

(* The mail is written and handed to SMTP.                                  *)
Attempt(l) ==
  LET row == lead[l] IN
  /\ Booked(l) /\ Fits(row) /\ Composable(row)
  /\ send' = [send EXCEPT ![l] = [NoSend EXCEPT !.pc = "smtp", !.row = row]]
  /\ early' = IF row.sent > 0 /\ row.age < least[l] THEN early \cup {l} ELSE early
  /\ disturbed' = IF row.sent > 0 /\ call[l] = NoCall /\ \E h \in Held(replies[l]) : h > 0
                  THEN disturbed \cup {l} ELSE disturbed
  /\ answered' = IF row.sent > 0 /\ ~Keeping(replies[l]) THEN answered \cup {l} ELSE answered
  /\ UNCHANGED <<campVars, lead, replies, call, acts, stopped, ended, least, excused, redated>>

(* It left; row and steps are read to record it.                            *)
Accepted(l) ==
  /\ send[l].pc = "smtp" /\ send[l].row.job \in boxes
  /\ send' = [send EXCEPT ![l].pc = "write", ![l].steps = steps]
  /\ least' = [least EXCEPT ![l] = nextStepAtAfter(steps, send[l].row.sent + 1)]
  /\ UNCHANGED <<campVars, lead, replies, call, acts, stopped,
                 ended, excused, redated, early, disturbed, answered>>

\* a label dated the lead anew while its mail was on its way
Overtaken(l) == lead[l].status = "CONTACTED" /\ lead[l].next # send[l].row.next

(* The success record.  A first email pins its mailbox: if that was deleted *)
(* just now the update fails and is swallowed, and the lead stays booked.   *)
Recorded(l) ==
  LET row == lead[l]
      from == send[l].row.job
      recorded == [row EXCEPT !.status = "CONTACTED", !.retries = 0, !.sent = @ + 1, !.age = 0,
                              !.next = nextStepAtAfter(send[l].steps, row.sent + 1),
                              !.job = NoMailbox]
  IN
  /\ send[l].pc = "write"
  /\ send' = [send EXCEPT ![l] = NoSend]
  /\ lead' = [lead EXCEPT ![l] =
       IF row.sent > 0 THEN recorded
       ELSE IF from \in boxes THEN [recorded EXCEPT !.mailbox = from]
       ELSE row]
  /\ excused' = IF Overtaken(l) \/ steps # send[l].steps THEN excused \cup {l} ELSE excused
  /\ UNCHANGED <<campVars, replies, call, acts, stopped, ended, least, redated, early, disturbed, answered>>

Exhausted(row) == row.retries + 1 >= MaxRetryAttempts

Again(row) ==
  [row EXCEPT !.retries = IF row.sent > 0 /\ Exhausted(row) THEN 0 ELSE @ + 1, !.job = NoMailbox]

(* recordSendFailure: SMTP refused it for now, or it left and its mailbox   *)
(* was deleted under it, which fails the records.  (A suppressed row keeps  *)
(* its job id in the code, where nothing asks for it any more.)             *)
Failed(l) ==
  LET row == lead[l] IN
  /\ send[l].pc = "smtp"
  /\ send' = [send EXCEPT ![l] = NoSend]
  /\ lead' = [lead EXCEPT ![l] =
       IF row.sent > 0
       THEN [Again(row) EXCEPT !.next = IF Exhausted(row) THEN None ELSE 0]
       ELSE [Again(row) EXCEPT !.status = IF Exhausted(row) THEN "SUPPRESSED" ELSE "QUEUED"]]
  /\ ended' = IF row.sent > 0 /\ Exhausted(row) THEN ended \cup {l} ELSE ended
  /\ excused' = IF Overtaken(l) THEN excused \cup {l} ELSE excused
  /\ UNCHANGED <<campVars, replies, call, acts, stopped, least, redated, early, disturbed, answered>>

-----------------------------------------------------------------------------
(* Answers.                                                                 *)

(* POST /internal/replies: stored, and the lead stopped until it is         *)
(* labelled.                                                                *)
ReplyComes(l) ==
  /\ lead[l].sent > 0 /\ Len(replies[l]) < MaxReplies
  /\ replies' = [replies EXCEPT ![l] = Append(@, [label |-> "UNCLASSIFIED", hold |-> 0])]
  /\ lead' = [lead EXCEPT ![l] =
       IF @.status \in {"CONTACTED", "QUEUED"} THEN [@ EXCEPT !.status = "REPLIED", !.next = None]
       ELSE @]
  /\ UNCHANGED <<campVars, send, call, acts, stopped, pastVars>>

(* /classify-reply, or the owner: a label that ends the sequence stops the  *)
(* lead, one that keeps it starts a call that works out its next date.      *)
Labels(l, i, label) ==
  LET row == lead[l] IN
  /\ call[l] = NoCall
  /\ \/ replies[l][i].label = "UNCLASSIFIED" /\ UNCHANGED acts
     \/ replies[l][i].label \notin {"UNCLASSIFIED", label} /\ Acts
  /\ \E h \in IF label = "OUT_OF_OFFICE" THEN Holds ELSE {0} :
       replies' = [replies EXCEPT ![l][i] = [label |-> label, hold |-> h]]
  /\ IF label = "ANSWER"
     THEN /\ lead' = [lead EXCEPT ![l] =
               IF row.status \in {"CONTACTED", "QUEUED"}
               THEN [row EXCEPT !.status = "REPLIED", !.next = None] ELSE row]
          /\ UNCHANGED call
     ELSE /\ call' = IF row.status \in {"REPLIED", "CONTACTED"}
                     THEN [call EXCEPT ![l] = [NoCall EXCEPT !.pc = "rest", !.row = row]]
                     ELSE call
          /\ UNCHANGED lead
  /\ UNCHANGED <<campVars, send, stopped, pastVars>>

\* mutant: counted from one mail too far back
Resumed_OneBack(row, rs) ==
  LET scheduled == IF row.status # "REPLIED" THEN row.next
                   ELSE Since(nextStepAtAfter(steps, row.sent - 1), row.age)
  IN  IF scheduled = None THEN None ELSE Max({scheduled} \cup Held(rs))

\* mutant: away notices do not hold it
Resumed_NotHeld(row, rs) ==
  IF row.status # "REPLIED" THEN row.next
  ELSE Since(nextStepAtAfter(steps, row.sent), row.age)

\* when a lead that was read as row goes on
Resumed(row, rs) ==
  LET scheduled == IF row.status # "REPLIED" THEN row.next
                   ELSE Since(nextStepAtAfter(steps, row.sent), row.age)
  IN  IF scheduled = None THEN None ELSE Max({scheduled} \cup Held(rs))

\* mutant: the lead's other replies are not asked
OutcomeReads_OneReply(l) ==
  LET c == call[l] IN
  /\ c.pc = "rest"
  /\ call' = [call EXCEPT ![l] =
        [c EXCEPT !.pc = "write", !.replies = replies[l], !.steps = steps,
                  !.next = Resumed(c.row, replies[l])]]
  /\ UNCHANGED <<campVars, lead, replies, send, acts, stopped, pastVars>>

(* applyReplyOutcome reads the lead's replies and the campaign's steps ...   *)
OutcomeReads(l) ==
  LET c == call[l] IN
  /\ c.pc = "rest"
  /\ call' = [call EXCEPT ![l] =
       IF ~Keeping(replies[l]) THEN NoCall
       ELSE [c EXCEPT !.pc = "write", !.replies = replies[l], !.steps = steps,
                      !.next = Resumed(c.row, replies[l])]]
  /\ UNCHANGED <<campVars, lead, replies, send, acts, stopped, pastVars>>

(* ... and writes, if the lead still has the status it was read with.       *)
OutcomeWrites(l) ==
  LET c == call[l] IN
  /\ c.pc = "write"
  /\ call' = [call EXCEPT ![l] = NoCall]
  /\ lead' = [lead EXCEPT ![l] = IF @.status = c.row.status
                                THEN [@ EXCEPT !.status = "CONTACTED", !.next = c.next] ELSE @]
  /\ excused' = IF lead[l] = c.row /\ replies[l] = c.replies /\ steps = c.steps
                THEN excused ELSE excused \cup {l}
  /\ UNCHANGED <<campVars, replies, send, acts, stopped, ended, least, redated, early, disturbed, answered>>

-----------------------------------------------------------------------------
(* A day passes.                                                            *)
Day ==
  /\ \A l \in Lead : send[l] = NoSend /\ call[l] = NoCall
  /\ lead' = [l \in Lead |->
       [lead[l] EXCEPT !.next = IF @ > 0 THEN @ - 1 ELSE @,
                       !.age = IF lead[l].sent > 0 /\ @ <= Lookback THEN @ + 1 ELSE @]]
  /\ replies' = [l \in Lead |-> [i \in DOMAIN replies[l] |->
       [replies[l][i] EXCEPT !.hold = IF @ > 0 THEN @ - 1 ELSE @]]]
  /\ UNCHANGED <<campVars, send, call, acts, stopped, pastVars>>

Owner ==
  \/ Launch
  \/ Pause
  \/ EditSenders
  \/ EditSteps
  \/ \E m \in Mailbox : DeleteMailbox(m)
  \/ \E l \in Lead : Import(l)

Tick == TickCompletes \/ TickReopens \/ \E l \in Lead, m \in Mailbox : Book(l, m)

Mail(l) ==
  Release(l) \/ NothingToWrite(l) \/ Attempt(l) \/ Accepted(l) \/ Recorded(l) \/ Failed(l)

Answer(l) ==
  \/ ReplyComes(l)
  \/ \E i \in DOMAIN replies[l], label \in Label \ {"UNCLASSIFIED"} : Labels(l, i, label)

Outcome(l) == OutcomeReads(l) \/ OutcomeWrites(l)

Next == Owner \/ Tick \/ Day \/ \E l \in Lead : Mail(l) \/ Answer(l) \/ Outcome(l)

Fairness ==
  /\ WF_vars(TickCompletes) /\ WF_vars(TickReopens) /\ WF_vars(Day)
  /\ \A l \in Lead :
       /\ WF_vars(\E m \in Mailbox : Book(l, m))
       /\ WF_vars(Mail(l)) /\ WF_vars(Outcome(l))

Spec == Init /\ [][Next]_vars /\ Fairness

-----------------------------------------------------------------------------
(* Properties.                                                              *)

(* A follow-up waits as long as its step says, counted from the mail before *)
(* it (sequence.ts), by the shortest wait the owner set meanwhile: neither  *)
(* an edit nor a label that resumes the lead makes it earlier.              *)
WaitKept == early \subseteq excused

(* Nobody who is away gets a follow-up, unless the owner edited the steps   *)
(* meanwhile: that dates the lead anew.                                     *)
AwayHeld == disturbed \subseteq excused \cup redated

(* A reply stops the follow-ups the moment it is stored, and a label on     *)
(* another reply does not start them again (replyOutcome.ts).               *)
AnswerStops == answered \subseteq excused

(* A follow-up that is there to send has a date, whatever was edited,       *)
(* answered, labelled and retried in which order.                           *)
FollowUpsOwed ==
  \A l \in Lead :
    /\ send[l] = NoSend /\ call[l] = NoCall
    /\ lead[l].sent \in DOMAIN steps /\ lead[l].mailbox \in boxes
    /\ Keeping(replies[l])
    /\ l \notin ended \cup excused
    => lead[l].status = "CONTACTED" /\ lead[l].next # None

(* A campaign its owner paused or archived is neither completed nor         *)
(* reopened: only a launch starts it again.                                 *)
OwnerStops == stopped => status = "PAUSED"

\* nobody can send what this lead is owed
Stuck(l) ==
  IF lead[l].sent = 0 THEN FirstEmailDue(l) /\ senders = {}
  ELSE lead[l].status = "CONTACTED" /\ lead[l].next # None /\ lead[l].mailbox \notin boxes

(* A campaign left alone sends what it owes and completes, unless a mailbox *)
(* it needs is gone.                                                        *)
SendingEnds ==
  <>[](status = "ACTIVE" => Imported = {} \/ \E l \in Lead : Stuck(l))

=============================================================================
