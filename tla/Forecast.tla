------------------------------ MODULE Forecast ------------------------------
(***************************************************************************)
(* The Live Queue's forecast: GET /queue/status counts the booked jobs,     *)
(* loads the mailboxes, campaigns and leads, and plays the enqueuer's rules *)
(* forward a day at a time; follow-ups first, then first emails spread over *)
(* each campaign's mailboxes.  The answer is kept for a minute.             *)
(*                                                                          *)
(* Time is in days from today (0).  What the load finds is any input within *)
(* the bounds; the queue moves between the two reads, so a booked lead may  *)
(* also be counted among the sends, or among neither.                       *)
(***************************************************************************)
EXTENDS Integers, Sequences, FiniteSets, FiniteSetsExt

CONSTANTS
  ForecastMailbox,
  ForecastCampaign,
  MailboxIds,       \* the mailboxes each campaign sends from
  MaxNewLeads,      \* maxNewLeadsPerDay of each campaign
  FirstWait,        \* days before a campaign's first follow-up (its only one)
  FirstLeft,        \* bound: leads of a campaign without their first email
  Bookings,         \* bound: jobs per mailbox the queue may hold
  ForecastDays,     \* bound: days ahead
  MaxCap            \* bound: a mailbox's daily cap

ASSUME ForecastAssumption ==
  /\ {ForecastDays, MaxCap} \subseteq Nat
  /\ Bookings \subseteq [ForecastMailbox -> Nat]
  /\ MailboxIds \in [ForecastCampaign -> SUBSET ForecastMailbox]
  /\ {MaxNewLeads, FirstLeft} \subseteq [ForecastCampaign -> Nat]
  /\ FirstWait \in [ForecastCampaign -> Nat \ {0}] \* MIN_WAIT_DAYS is 1

VARIABLES
  booked,     \* dispatch jobs per mailbox, as the request read them
  input,      \* what loadForecastInput found
  play,       \* the day being played
  plan,       \* the sends planned, in order
  cached      \* the booked jobs the kept forecast is for, or none

forecastVars == <<booked, input, play, plan, cached>>

Offsets == 0..ForecastDays
FollowUp == [campaign : ForecastCampaign, mailbox : ForecastMailbox,
             stepsSent : 1..2, dueAt : -1..(2 * ForecastDays + 1)]
NoBookings == [m \in ForecastMailbox |-> 0]
NoInput == [cap |-> NoBookings, grown |-> NoBookings, sent |-> NoBookings, followUps |-> <<>>,
            open |-> [c \in ForecastCampaign |-> {}], left |-> [c \in ForecastCampaign |-> 0]]
Still == [pc |-> "idle", offset |-> 0, capLeft |-> NoBookings, pending |-> <<>>,
          next |-> <<>>, newLeft |-> [c \in ForecastCampaign |-> 0],
          left |-> [c \in ForecastCampaign |-> 0], round |-> {}]
NotCached == [m \in ForecastMailbox |-> -1]

ForecastTypeOK ==
  /\ booked \in Bookings \cup {NoBookings}
  /\ play.round \subseteq ForecastCampaign
  /\ play.pc \in {"idle", "load", "day", "followUps", "firsts"}
  /\ play.offset \in 0..(ForecastDays + 1)
  /\ \A m \in ForecastMailbox : play.capLeft[m] \in Int
  /\ play.pending \in Seq(FollowUp) /\ play.next \in Seq(FollowUp)
  /\ play.newLeft \in [ForecastCampaign -> Nat] /\ play.left \in [ForecastCampaign -> Nat]
  /\ cached \in Bookings \cup {NotCached}

ForecastInit ==
  /\ booked = NoBookings
  /\ input = NoInput
  /\ play = Still
  /\ plan = <<>>
  /\ cached = NotCached

-----------------------------------------------------------------------------
(* The request and its inputs.                                              *)

StatusReadsQueue ==
  /\ play = Still
  /\ \E b \in Bookings :
       IF cached = b
       THEN UNCHANGED <<booked, play>>
       ELSE booked' = b /\ play' = [Still EXCEPT !.pc = "load"]
  /\ UNCHANGED <<input, plan, cached>>

\* campaignCapToday: the daily cap, or below it while the ramp grows
CapOn(m, d) == Min({input.cap[m], input.grown[m] + d})

(* Follow-ups already due, and first emails, of leads no job holds.         *)
loadForecastInput ==
  /\ play.pc = "load"
  /\ \E cap \in [ForecastMailbox -> 1..MaxCap], grown \in [ForecastMailbox -> {1, MaxCap}],
        sent \in [ForecastMailbox -> {0, MaxCap}],
        open \in [ForecastCampaign -> {Offsets, Offsets \ {0}}],
        left \in {f \in [ForecastCampaign -> 0..Max({FirstLeft[c] : c \in ForecastCampaign})] :
                    \A c \in ForecastCampaign : f[c] \in {0, FirstLeft[c]}},
        due \in {<<>>} \cup {<<f>> : f \in {g \in FollowUp :
                    /\ g.mailbox \in MailboxIds[g.campaign]
                    /\ g.stepsSent = 1 /\ g.dueAt \in {-1, 1}}} :
       /\ \A m \in ForecastMailbox : grown[m] <= cap[m]
       /\ input' = [cap |-> cap, grown |-> grown, sent |-> sent, followUps |-> due,
                    open |-> open, left |-> left]
  /\ play' = [play EXCEPT !.pc = "day", !.pending = input'.followUps, !.left = input'.left]
  /\ UNCHANGED <<booked, plan, cached>>

-----------------------------------------------------------------------------
(* One day: the room each mailbox has, the follow-ups, the first emails.    *)

Open(c) == play.offset \in input.open[c]

StartDay ==
  /\ play.pc = "day" /\ play.offset <= ForecastDays
  /\ play' = [play EXCEPT
       !.pc = "followUps",
       !.capLeft = [m \in ForecastMailbox |->
         CapOn(m, play.offset) - (IF play.offset = 0 THEN input.sent[m] + booked[m] ELSE 0)]]
  /\ UNCHANGED <<booked, input, plan, cached>>

\* mutant: a follow-up leaves its mailbox's room as it was
send_FollowUpsFree(p, m, c, step) ==
  [p EXCEPT !.capLeft[m] = IF step = 1 THEN @ - 1 ELSE @,
            !.next = IF step = 1
                     THEN Append(@, [campaign |-> c, mailbox |-> m, stepsSent |-> 1,
                                     dueAt |-> p.offset + FirstWait[c]])
                     ELSE @]

(* One send takes room and books the next step, when there is one.          *)
send(p, m, c, step) ==
  [p EXCEPT !.capLeft[m] = @ - 1,
            !.next = IF step = 1
                     THEN Append(@, [campaign |-> c, mailbox |-> m, stepsSent |-> 1,
                                     dueAt |-> p.offset + FirstWait[c]])
                     ELSE @]

Planned(m, c, step) ==
  [day |-> play.offset, mailbox |-> m, campaign |-> c, step |-> step]

(* Soonest first.                                                           *)
PlayFollowUp ==
  /\ play.pc = "followUps" /\ play.pending # <<>>
  /\ \E i \in DOMAIN play.pending :
       LET f == play.pending[i]
           rest == [play EXCEPT !.pending = SubSeq(@, 1, i - 1) \o SubSeq(@, i + 1, Len(@))]
           fits == f.dueAt <= play.offset /\ Open(f.campaign) /\ play.capLeft[f.mailbox] > 0
       IN /\ \A j \in DOMAIN play.pending : f.dueAt <= play.pending[j].dueAt
          /\ IF fits
             THEN /\ play' = send(rest, f.mailbox, f.campaign, f.stepsSent + 1)
                  /\ plan' = Append(plan, Planned(f.mailbox, f.campaign, f.stepsSent + 1))
             ELSE /\ play' = [rest EXCEPT !.next = Append(@, f)]
                  /\ UNCHANGED plan
  /\ UNCHANGED <<booked, input, cached>>

StartFirsts ==
  /\ play.pc = "followUps" /\ play.pending = <<>>
  /\ LET newLeft == [c \in ForecastCampaign |->
                       IF Open(c) THEN Min({play.left[c], MaxNewLeads[c]}) ELSE 0]
     IN play' = [play EXCEPT !.pc = "firsts", !.newLeft = newLeft,
                             !.round = {c \in ForecastCampaign : newLeft[c] > 0}]
  /\ UNCHANGED <<booked, input, plan, cached>>

\* the rest of the round, or the next one
AfterTurn(p, c) ==
  [p EXCEPT !.round = IF p.round = {c} THEN {o \in ForecastCampaign : p.newLeft[o] > 0}
                      ELSE @ \ {c}]

(* A lead per campaign in turn, each to its mailbox with the most room.     *)
PlayFirst(c) ==
  /\ play.pc = "firsts" /\ c \in play.round
  /\ LET able == {m \in MailboxIds[c] : play.capLeft[m] > 0}
     IN IF able = {}
        THEN play' = AfterTurn([play EXCEPT !.newLeft[c] = 0], c) /\ UNCHANGED plan
        ELSE \E m \in able :
               /\ \A o \in able : play.capLeft[o] <= play.capLeft[m]
               /\ play' = AfterTurn([send(play, m, c, 1) EXCEPT
                                       !.newLeft[c] = @ - 1, !.left[c] = @ - 1], c)
               /\ plan' = Append(plan, Planned(m, c, 1))
  /\ UNCHANGED <<booked, input, cached>>

EndDay ==
  /\ play.pc = "firsts" /\ play.round = {}
  /\ play' = [play EXCEPT !.pc = "day", !.offset = @ + 1, !.pending = play.next, !.next = <<>>]
  /\ UNCHANGED <<booked, input, plan, cached>>

StatusAnswers ==
  /\ play.pc = "day" /\ play.offset > ForecastDays
  /\ cached' = booked
  /\ play' = Still /\ input' = NoInput /\ plan' = <<>> /\ booked' = NoBookings

(* A minute, or midnight.                                                   *)
CacheExpires ==
  /\ cached # NotCached
  /\ cached' = NotCached
  /\ UNCHANGED <<booked, input, play, plan>>

ForecastNext ==
  \/ StatusReadsQueue \/ loadForecastInput
  \/ StartDay \/ PlayFollowUp \/ StartFirsts \/ EndDay \/ StatusAnswers
  \/ \E c \in ForecastCampaign : PlayFirst(c)
  \/ CacheExpires

ForecastSpec == ForecastInit /\ [][ForecastNext]_forecastVars

-----------------------------------------------------------------------------
(* Properties.                                                              *)

Room(m, d) == CapOn(m, d) - (IF d = 0 THEN input.sent[m] + booked[m] ELSE 0)

\* what is planned from a mailbox, or for a campaign, and what waits in a queue
Count(s, Kind) == Cardinality({i \in DOMAIN s : s[i] \in Kind})
FromMailbox(m, steps, d) ==
  Count(plan, [day : {d}, mailbox : {m}, campaign : ForecastCampaign, step : steps])
ForCampaign(c, step, days) ==
  Count(plan, [day : days, mailbox : ForecastMailbox, campaign : {c}, step : {step}])
Due(queue, c, days) ==
  Count(queue, [campaign : {c}, mailbox : ForecastMailbox, stepsSent : {1}, dueAt : days])
Waiting(c) == Due(play.pending, c, Int) + Due(play.next, c, Int)

(* "Plays the enqueuer's rules forward" (sendForecast.ts): no mailbox is     *)
(* given more than its cap less what has left or is booked, no campaign more *)
(* first emails a day than it allows; every lead is planned once or still    *)
(* waiting, a follow-up never before its wait; and at the end of a day an    *)
(* email waits only because no mailbox it may leave from has room, with no   *)
(* first email in a due follow-up's place.                                   *)
PlanFits ==
  LET over == play.offset - 1
      Closed(c) == over \notin input.open[c]
  IN play.pc \notin {"idle", "load"} =>
     /\ \A m \in ForecastMailbox, d \in Offsets :
          FromMailbox(m, {1, 2}, d) <= Max({0, Room(m, d)})
     /\ \A c \in ForecastCampaign :
          /\ ForCampaign(c, 1, Offsets) + play.left[c] = input.left[c]
          /\ ForCampaign(c, 2, Offsets) + Waiting(c)
               = Due(input.followUps, c, Int) + ForCampaign(c, 1, Offsets)
          /\ \A d \in Offsets :
               /\ ForCampaign(c, 1, {d}) <= MaxNewLeads[c]
               /\ d \notin input.open[c] => ForCampaign(c, 1, {d}) + ForCampaign(c, 2, {d}) = 0
               /\ ForCampaign(c, 2, 0..d) <= ForCampaign(c, 1, 0..(d - FirstWait[c]))
                                             + Due(input.followUps, c, -1..d)
     /\ play.pc = "day" /\ play.offset > 0 =>
          /\ \A c \in ForecastCampaign :
               play.left[c] > 0 /\ ~Closed(c) /\ ForCampaign(c, 1, {over}) < MaxNewLeads[c] =>
                 \A m \in MailboxIds[c] : play.capLeft[m] <= 0
          /\ \A i \in DOMAIN play.pending :
               LET f == play.pending[i]
               IN f.dueAt <= over /\ ~Closed(f.campaign) =>
                    play.capLeft[f.mailbox] <= 0 /\ FromMailbox(f.mailbox, {1}, over) = 0

=============================================================================
