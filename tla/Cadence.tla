------------------------------ MODULE Cadence ------------------------------
(***************************************************************************)
(* When one mailbox sends.  The enqueuer's tick reads the mailbox's last    *)
(* send, its log rows and its reservation, books the next slot in Redis,    *)
(* and only then adds the delayed job.  Ticks may overlap: a timer starts   *)
(* the next one whether or not the last one is over.  The processor takes   *)
(* the job whenever it gets to it and looks at the rolling limit again, the *)
(* email goes out, the mailbox is stamped and the log row written.  A       *)
(* booking whose job was lost is requeued without a reservation.            *)
(*                                                                          *)
(* Leads are not told apart: there is always one to send to.  Nothing says  *)
(* how long a tick, a job or an email may take.  Times are minutes, scaled; *)
(* now is real time, while a tick counts from its start.                    *)
(***************************************************************************)
EXTENDS Integers, Sequences, FiniteSets

CONSTANTS
  Floor,            \* CADENCE_FLOOR_MS
  Jitter, Noise,    \* the jitter band, and the noise added to it
  MinDelay,         \* MIN_DELAY_SECONDS
  Padding,          \* RESERVATION_TTL_PADDING_SECONDS
  Grace, Requeue,   \* RECONCILE_OVERDUE_GRACE_MINUTES, RECONCILE_REQUEUE_DELAY_SECONDS
  Day,              \* DAY_MS
  Cap,              \* campaignCapToday
  Closes,           \* when the send window closes
  Tick,             \* ticks that may be under way at once
  Exec,             \* n8n executions that may be under way at once
  MaxBooked,        \* bound: bookings
  MaxFaults,        \* bound: ticks started beside another, and ticks, emails, calls
                    \* of n8n and workers that break off
  Horizon           \* bound: the last minute looked at

None == -1

ASSUME CadenceAssumption ==
  /\ Floor \in Nat /\ MinDelay \in Nat /\ Padding \in Nat /\ Day \in Nat
  /\ Grace \in Nat /\ Requeue \in Nat
  /\ Cap \in Nat \ {0} /\ Closes \in Nat
  /\ MaxBooked \in Nat /\ MaxFaults \in Nat /\ Horizon \in Nat
  /\ Jitter \subseteq Nat /\ Noise \subseteq Int
  /\ \A j \in Jitter, n \in Noise : j + n >= 0
  /\ IsFiniteSet(Exec)

VARIABLES
  now,
  booked,    \* every booking so far: its slot, its pace, and how it was made
  resv,      \* mailbox:reserved: the booking it names, and when it expires
  jobs,      \* delayed and waiting jobs: a booking, and when it is due
  stuck,     \* bookings that a lead's row names and no job stands for
  ticks,     \* what each tick under way has read
  execs,     \* the executions of n8n, one of which the processor may await
  last,      \* Mailbox.lastSentAt
  mails,     \* the mails that left: when, when the mailbox was stamped, and the log row
  deferred,  \* ExecutionLog: the latest FAILED row that is a deferral
  loose,     \* history: bookings no reservation watches over any more
  lost,      \* history: mails that got no log row
  strays,    \* history: executions the processor stopped waiting for
  faults

vars == <<now, booked, resv, jobs, stuck, ticks, execs, last, mails, deferred,
          loose, lost, strays, faults>>

Time == 0..Horizon
Id == 1..Len(booked)
\* alone and beside: by a tick with no other under way, or started beside one
Booking == [slot : Nat, pace : {1, 2}, by : {"alone", "beside", "reconcile"}]
Mail == [id : Nat, at : Time, stamp : Time \cup {None}, row : BOOLEAN]
TickState == [pc : {"idle", "book", "add"}, at : Time, last : Time \cup {None},
              pending : Nat \cup {None}, spread : Int, pace : {1, 2},
              by : {"alone", "beside"}, missed : SUBSET Id, id : Id \cup {0}, delay : Nat]
ExecState == [pc : {"idle", "send", "record"}, id : Id \cup {0},
              mail : DOMAIN mails \cup {0}, heard : BOOLEAN]
NoReservation == [id |-> 0, expires |-> 0]
IdleTick == [pc |-> "idle", at |-> 0, last |-> None, pending |-> None, spread |-> 0,
             pace |-> 1, by |-> "alone", missed |-> {}, id |-> 0, delay |-> 0]
IdleExec == [pc |-> "idle", id |-> 0, mail |-> 0, heard |-> FALSE]

TypeOK ==
  /\ now \in Time
  /\ booked \in Seq(Booking)
  /\ resv \in [id : Id \cup {0}, expires : Nat]
  /\ jobs \subseteq [id : Id, due : Nat]
  /\ stuck \subseteq Id
  /\ ticks \in [Tick -> TickState]
  /\ \A t \in Tick : ticks[t].pc = "add" => ticks[t].id \in Id
  /\ execs \in [Exec -> ExecState]
  /\ \A e \in Exec : /\ execs[e].pc # "idle" => execs[e].id \in Id
                     /\ execs[e].pc = "record" => execs[e].mail \in DOMAIN mails
                     /\ execs[e].heard => execs[e].pc # "idle"
  /\ last \in Time \cup {None}
  /\ mails \in Seq(Mail)
  /\ \A m \in DOMAIN mails : mails[m].id \in Id
  /\ deferred \in Time \cup {None}
  /\ loose \subseteq Id
  /\ lost \in Nat /\ strays \in Nat /\ faults \in 0..MaxFaults

Init ==
  /\ now = 0
  /\ booked = <<>>
  /\ resv = NoReservation
  /\ jobs = {}
  /\ stuck = {}
  /\ ticks = [t \in Tick |-> IdleTick]
  /\ execs = [e \in Exec |-> IdleExec]
  /\ last = None
  /\ mails = <<>>
  /\ deferred = None
  /\ loose = {}
  /\ lost = 0
  /\ strays = 0
  /\ faults = 0

-----------------------------------------------------------------------------
(* What the log says, and the arithmetic of a slot.                         *)

larger(a, b) == IF a >= b THEN a ELSE b

\* recentSendTimes, recentSendCount: the log rows of the last 24 hours
RowsAfter(t) == {m \in DOMAIN mails : mails[m].row /\ mails[m].stamp > t}
SentToday == Cardinality(RowsAfter(now - Day))

\* deferredMailboxes
Slowed == deferred # None /\ deferred > now - Day

\* spreadGapMs: the rest of the window over the sends left in it
SpreadGap(cap) ==
  (Closes - now)
    \div larger(1, cap - Cardinality(RowsAfter(now - Day) \cap RowsAfter(Closes - Day)))

\* computeNextSlotSeconds: the delays a tick that started at t may draw
SlotDelays(t, lastSent, pending, spread, pace) ==
  LET anchor == larger(lastSent, pending)
      base == IF anchor = None THEN t ELSE larger(t, anchor + Floor * pace)
      gaps == IF anchor = None \/ spread <= 0 THEN {0}
              ELSE (8 * spread) \div 10 .. (12 * spread) \div 10
  IN  {larger(MinDelay, larger(base + j * pace + n, anchor + g) - t) :
         j \in Jitter, n \in Noise, g \in gaps}

TickDelays(tick) == SlotDelays(tick.at, tick.last, tick.pending, tick.spread, tick.pace)

-----------------------------------------------------------------------------
(* The enqueuer.                                                            *)

Live == resv.id # 0 /\ now < resv.expires
Reserved == IF Live THEN booked[resv.id].slot ELSE None

Alone == \A t \in Tick : ticks[t].pc = "idle"

StartsTick(t) ==
  /\ ticks[t].pc = "idle"
  /\ now < Closes
  /\ Alone \/ faults < MaxFaults
  /\ faults' = IF Alone THEN faults ELSE faults + 1
  /\ LET cap == IF Slowed THEN larger(1, Cap \div 2) ELSE Cap IN
       /\ SentToday < cap
       /\ ticks' = [ticks EXCEPT ![t] =
            [pc |-> "book", at |-> now, last |-> last, pending |-> Reserved,
             spread |-> SpreadGap(cap), pace |-> IF Slowed THEN 2 ELSE 1,
             by |-> IF Alone THEN "alone" ELSE "beside",
             missed |-> {}, id |-> 0, delay |-> 0]]
  /\ UNCHANGED <<now, booked, resv, jobs, stuck, execs, last, mails, deferred,
                 loose, lost, strays>>

\* mutant: the mailbox is looked at while its slot has not come round
TickReads_Booked(t) == StartsTick(t)

(* The mailbox is in the pool: its window is open, it is under its limit    *)
(* (half of it after a deferral), and no slot of it is still to come.       *)
TickReads(t) ==
  /\ Reserved <= now
  /\ StartsTick(t)

(* takeSlot for the first lead that fits: the slot is put over whatever     *)
(* Redis holds.  Other ticks go on with what they read.                     *)
Books(t, delays) ==
  LET tick == ticks[t]
      new == Len(booked) + 1
  IN  /\ tick.pc = "book"
      /\ Len(booked) < MaxBooked
      /\ \E d \in delays :
           /\ d < Closes - tick.at
           /\ booked' = Append(booked, [slot |-> tick.at + d, pace |-> tick.pace,
                                        by |-> tick.by])
           /\ resv' = [id |-> new, expires |-> now + d + Padding]
           /\ ticks' = [u \in Tick |->
                CASE u = t -> [IdleTick EXCEPT !.pc = "add", !.id = new, !.delay = d]
                  [] u # t /\ ticks[u].pc = "book" ->
                       [ticks[u] EXCEPT !.missed = @ \cup {new}]
                  [] OTHER -> ticks[u]]
      /\ loose' = loose \cup tick.missed
      /\ UNCHANGED <<now, jobs, stuck, execs, last, mails, deferred, lost, strays, faults>>

\* mutant: the slot follows the last send only, not the slot booked before it
TickBooks_IgnoresBooked(t) ==
  Books(t, SlotDelays(ticks[t].at, ticks[t].last, None, ticks[t].spread, ticks[t].pace))

TickBooks(t) == Books(t, TickDelays(ticks[t]))

(* The lead's row is marked and the job added, its delay counted from now.  *)
TickAdds(t) ==
  /\ ticks[t].pc = "add"
  /\ jobs' = jobs \cup {[id |-> ticks[t].id, due |-> now + ticks[t].delay]}
  /\ ticks' = [ticks EXCEPT ![t] = IdleTick]
  /\ UNCHANGED <<now, booked, resv, stuck, execs, last, mails, deferred,
                 loose, lost, strays, faults>>

(* No lead fits, or every slot drawn falls behind the window's end.         *)
TickEnds(t) ==
  /\ ticks[t].pc = "book"
  /\ ticks' = [ticks EXCEPT ![t] = IdleTick]
  /\ UNCHANGED <<now, booked, resv, jobs, stuck, execs, last, mails, deferred,
                 loose, lost, strays, faults>>

(* The tick throws with its slot taken: before or after it marked the row.  *)
TickDies(t) ==
  /\ ticks[t].pc = "add"
  /\ faults < MaxFaults
  /\ faults' = faults + 1
  /\ stuck' \in {stuck, stuck \cup {ticks[t].id}}
  /\ ticks' = [ticks EXCEPT ![t] = IdleTick]
  /\ UNCHANGED <<now, booked, resv, jobs, execs, last, mails, deferred,
                 loose, lost, strays>>

(* reconcileStuckLeads: a new job half a minute away, and no reservation.   *)
Reconcile(id) ==
  LET new == Len(booked) + 1 IN
  /\ Len(booked) < MaxBooked
  /\ booked[id].slot < now - Grace
  /\ booked' = Append(booked, [slot |-> now + Requeue, pace |-> 1, by |-> "reconcile"])
  /\ jobs' = jobs \cup {[id |-> new, due |-> now + Requeue]}
  /\ stuck' = stuck \ {id}
  /\ loose' = loose \cup {new}
  /\ UNCHANGED <<now, resv, ticks, execs, last, mails, deferred, lost, strays, faults>>

-----------------------------------------------------------------------------
(* The processor, one job at a time.                                        *)

Takes(j) ==
  /\ \A e \in Exec : ~execs[e].heard
  /\ j.due <= now
  /\ jobs' = jobs \ {j}

HandsOver(j, e) ==
  /\ Takes(j)
  /\ now < Closes
  /\ execs[e].pc = "idle"
  /\ execs' = [execs EXCEPT ![e] = [pc |-> "send", id |-> j.id, mail |-> 0, heard |-> TRUE]]
  /\ UNCHANGED <<now, booked, resv, stuck, ticks, last, mails, deferred,
                 loose, lost, strays, faults>>

\* mutant: only the enqueuer looks at the rolling limit
TakeJob_NoLimit(j, e) == HandsOver(j, e)

(* processDispatchJob: the mailbox may still send, n8n is called.           *)
TakeJob(j, e) ==
  /\ SentToday < Cap
  /\ HandsOver(j, e)

(* It may not, or the lead no longer fits: the lead is put back.            *)
ReleaseJob(j) ==
  /\ Takes(j)
  /\ UNCHANGED <<now, booked, resv, stuck, ticks, execs, last, mails, deferred,
                 loose, lost, strays, faults>>

Adding == {ticks[t].id : t \in {u \in Tick : ticks[u].pc = "add"}}
Waiting == {j.id : j \in jobs}
InHand == {execs[e].id : e \in {f \in Exec : execs[f].pc # "idle"}}
Out == Adding \cup Waiting \cup InHand

(* The address is dead or greylisted: freeSlot hands back the slot that the *)
(* lead's row names, unless Redis holds another.  Two ticks side by side    *)
(* may have booked one lead, whose row then names either slot.              *)
StopJob(j) ==
  /\ Takes(j)
  /\ Live
  /\ j.id = resv.id \/ "beside" \in {booked[j.id].by, booked[resv.id].by}
  /\ resv' = NoReservation
  /\ UNCHANGED <<now, booked, stuck, ticks, execs, last, mails, deferred,
                 lost, strays, faults>>
  /\ loose' = loose \cup Out'

(* The call of n8n breaks, at the latest after fetch's five minutes: the    *)
(* job has failed, and the execution goes on unheard.                       *)
FetchFails(e) ==
  /\ execs[e].heard
  /\ faults < MaxFaults
  /\ faults' = faults + 1
  /\ execs' = [execs EXCEPT ![e].heard = FALSE]
  /\ strays' = strays + 1
  /\ UNCHANGED <<now, booked, resv, jobs, stuck, ticks, last, mails, deferred,
                 loose, lost>>

(* The worker stops.  Its ticks are gone, marked rows or not, its job comes *)
(* back as stalled, and the execution goes on unheard.                      *)
Crash ==
  LET awaited == {e \in Exec : execs[e].heard} IN
  /\ faults < MaxFaults
  /\ faults' = faults + 1
  /\ \E marked \in SUBSET Adding : stuck' = stuck \cup marked
  /\ ticks' = [t \in Tick |-> IdleTick]
  /\ jobs' = jobs \cup {[id |-> execs[e].id, due |-> now] : e \in awaited}
  /\ execs' = [e \in Exec |-> [execs[e] EXCEPT !.heard = FALSE]]
  /\ strays' = strays + Cardinality(awaited)
  /\ UNCHANGED <<now, booked, resv, last, mails, deferred, loose, lost>>

-----------------------------------------------------------------------------
(* sendMail.                                                                *)

SmtpAccepts(e) ==
  /\ execs[e].pc = "send"
  /\ mails' = Append(mails, [id |-> execs[e].id, at |-> now, stamp |-> None, row |-> FALSE])
  /\ execs' = [execs EXCEPT ![e] = [pc |-> "record", id |-> @.id, mail |-> Len(mails) + 1,
                                    heard |-> @.heard]]
  /\ UNCHANGED <<now, booked, resv, jobs, stuck, ticks, last, deferred,
                 loose, lost, strays, faults>>

(* The provider defers: a FAILED row, and half pace for a day.              *)
SmtpDefers(e) ==
  /\ execs[e].pc = "send"
  /\ execs' = [execs EXCEPT ![e] = IdleExec]
  /\ deferred' = now
  /\ UNCHANGED <<now, booked, resv, jobs, stuck, ticks, last, mails,
                 loose, lost, strays, faults>>

(* The mailbox is stamped and the SENT row written, which the rolling limit *)
(* counts.  The row may fail: its error is swallowed.                       *)
Records(e) ==
  /\ execs[e].pc = "record"
  /\ last' = now
  /\ \E row \in BOOLEAN :
       /\ row \/ faults < MaxFaults
       /\ mails' = [mails EXCEPT ![execs[e].mail].stamp = now, ![execs[e].mail].row = row]
       /\ lost' = IF row THEN lost ELSE lost + 1
       /\ faults' = IF row THEN faults ELSE faults + 1
  /\ execs' = [execs EXCEPT ![e] = IdleExec]
  /\ UNCHANGED <<now, booked, resv, jobs, stuck, ticks, deferred, loose, strays>>

(* The send stops half-way, the API restarted or the stamp thrown: nothing  *)
(* tells of the mail, and the lead may stay marked as queued.               *)
BreaksOff(e) ==
  /\ execs[e].pc # "idle"
  /\ faults < MaxFaults
  /\ faults' = faults + 1
  /\ lost' = IF execs[e].pc = "send" THEN lost ELSE lost + 1
  /\ stuck' \in {stuck, stuck \cup ({execs[e].id} \ Waiting)}
  /\ execs' = [execs EXCEPT ![e] = IdleExec]
  /\ UNCHANGED <<now, booked, resv, jobs, ticks, last, mails, deferred, loose, strays>>

Minute ==
  /\ now < Horizon
  /\ now' = now + 1
  /\ UNCHANGED <<booked, resv, jobs, stuck, ticks, execs, last, mails, deferred,
                 loose, lost, strays, faults>>

Next ==
  \/ \E t \in Tick : TickReads(t) \/ TickBooks(t) \/ TickAdds(t) \/ TickEnds(t) \/ TickDies(t)
  \/ \E id \in stuck : Reconcile(id)
  \/ \E j \in jobs : ReleaseJob(j) \/ StopJob(j) \/ \E e \in Exec : TakeJob(j, e)
  \/ \E e \in Exec : SmtpAccepts(e) \/ SmtpDefers(e) \/ Records(e) \/ BreaksOff(e)
                     \/ FetchFails(e)
  \/ Crash
  \/ Minute

Spec == Init /\ [][Next]_vars

-----------------------------------------------------------------------------
(* Properties.                                                              *)

(* The code's numbers: the reservation outlives its slot (by 120 seconds)   *)
(* for no longer than the least jitter less the most noise (240 - 90).      *)
Paced == \A j \in Jitter, n \in Noise : Padding <= j + n

\* The mailbox was stamped while the mail's reservation had time to run.
OnTime(mail) == mail.stamp # None /\ mail.stamp < booked[mail.id].slot + Padding

(* The 8-minute floor, twice that for a slot booked after a deferral, as    *)
(* far as the code keeps it.  computeNextSlotSeconds keeps it between slots *)
(* it is told of; this says which mails, at the times they really leave,    *)
(* keep it: a mail whose stamp came while its reservation ran is followed   *)
(* by no mail of a later booking that is closer.  Not so after a mail       *)
(* stamped later than that, one whose reservation another tick wrote over   *)
(* or freeSlot removed, or before one that reconciliation requeued.         *)
GapKept ==
  \A i, k \in DOMAIN mails :
    /\ mails[i].id < mails[k].id
    /\ OnTime(mails[i])
    /\ mails[i].id \notin loose
    /\ booked[mails[k].id].by # "reconcile"
    => mails[k].at - mails[i].at >= Floor * booked[mails[k].id].pace

(* The rolling limit, however late jobs run: no 24 hours see more mails     *)
(* than the limit, but for those that got no log row and those of           *)
(* executions the processor stopped waiting for.                            *)
RollingLimit ==
  \A i \in DOMAIN mails :
    Cardinality({k \in 1..i : mails[k].at > mails[i].at - Day}) <= Cap + lost + strays

(* "Each mailbox holds at most one booked slot at a time" (enqueuer.ts:134) *)
(* as far as it goes: of the slots still to come no more than one is        *)
(* watched over.  The others were written over by a tick that had read      *)
(* before them, set free with another's, or requeued by reconciliation.     *)
OneSlotAhead ==
  \A x, y \in Out \ loose : booked[x].slot > now /\ booked[y].slot > now => x = y

=============================================================================
