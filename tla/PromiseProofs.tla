--------------------------- MODULE PromiseProofs ---------------------------
(***************************************************************************)
(* What Dispatch keeps while no process dies, one tick runs at a time and  *)
(* none outlasts the slots it books: no lead is stranded, no second mail   *)
(* crosses a reply, and a recipient gets all that Thread promises.         *)
(***************************************************************************)
EXTENDS ThreadProofs

-----------------------------------------------------------------------------
(* The bookings of a lead.  From here on nothing fails, ticks do not overlap *)
(* and all are as fast as the code expects: then a lead is in one place at a *)
(* time on its way from the row to the mail.                                 *)
Orderly ==
  /\ Faults = {}
  /\ ~Slow
  /\ \A t, u \in Tick : t = u

HasTodo(k, l) == \E p \in k.todo : p[1] = l

\* Where it can be: read by a tick, being marked, marked but not added ...
Reads1(l) == \E t \in Tick : tick[t].pc \in {"pass1", "mark1", "add1"} /\ HasTodo(tick[t], l)
Reads2(l) == \E t \in Tick : tick[t].pc \in {"pass2", "mark2", "add2"} /\ HasTodo(tick[t], l)
Marks1(l) == \E t \in Tick : tick[t].pc = "mark1" /\ tick[t].job \in JobsOf(l)
Marks2(l) == \E t \in Tick : tick[t].pc = "mark2" /\ tick[t].job \in JobsOf(l)
AddsJob(j) == \E t \in Tick : tick[t].pc \in {"add1", "add2"} /\ tick[t].job = j
Adds(l) == \E j \in JobsOf(l) : AddsJob(j)

\* ... in BullMQ, or in the processor's hand until its row is written.
InQueue(l) == \E j \in JobsOf(l) : j \in waiting
InHand(l) == worker.pc \in {"release", "ready", "await", "failed"} /\ worker.job \in JobsOf(l)

OnePlace(l) ==
  /\ Reads1(l) \/ Reads2(l) =>
       ~Marks1(l) /\ ~Marks2(l) /\ ~Adds(l) /\ ~InQueue(l) /\ ~InHand(l)
  /\ Marks1(l) \/ Marks2(l) \/ Adds(l) => ~InQueue(l) /\ ~InHand(l)
  /\ InQueue(l) => ~InHand(l)
  /\ \A i, j \in JobsOf(l) : i \in waiting /\ j \in waiting => i = j

\* Statuses that a tick, the processor or reconciliation still act on.
Booked(row) == row.status \in {"QUEUED", "CONTACTED"} /\ row.queuedJobId # NoJob

Sane(row, l) ==
  /\ row.queuedJobId \in JobsOf(l) \union {NoJob}
  /\ row.status = "CONTACTED" => row.stepsSent > 0
  /\ row.stepsSent > 0 => row.status \notin {"UNTOUCHED", "QUEUED"}
  /\ row.status = "QUEUED" /\ row.queuedJobId = NoJob => row.nextRetryAt # "none"
  /\ row.status = "CONTACTED" /\ row.queuedJobId # NoJob => row.nextStepAt = "now"

RowSane(l) ==
  /\ Sane(lead[l], l)
  /\ l \in replied => lead[l].stepsSent > 0
  /\ l \in marking => l \in replied

\* What a tick has read is still what it will mark.
ReadRight(l) ==
  /\ Reads1(l) \/ Marks1(l) =>
       lead[l].stepsSent > 0 /\ (lead[l].status = "CONTACTED" => lead[l].nextStepAt = "now")
  /\ Reads2(l) \/ Marks2(l) => lead[l].stepsSent = 0

\* A lead with a job is not due.
Waits(l) ==
  LET row == lead[l] IN
  Adds(l) \/ InQueue(l) =>
    /\ row.status # "UNTOUCHED"
    /\ row.status \in {"QUEUED", "CONTACTED"} => row.queuedJobId # NoJob
    /\ row.status = "QUEUED" => row.nextRetryAt = "none"

\* Nor is one in the processor's hand, whatever the send writes.
NotDue(row) ==
  /\ row.status # "UNTOUCHED"
  /\ row.status = "QUEUED" => row.nextRetryAt # "now"
  /\ row.status = "CONTACTED" /\ row.queuedJobId = NoJob => row.nextStepAt # "now"

Handled(l) == InHand(l) => NotDue(lead[l])

\* The job a row names is one somebody will run.
Named(l) ==
  LET row == lead[l] IN
  Booked(row) =>
    \/ row.queuedJobId \in waiting
    \/ InHand(l) /\ row.queuedJobId = worker.job
    \/ AddsJob(row.queuedJobId) /\ ~row.slotOverdue

\* What the processor and the execution know of the lead they work on.
Worked(l) ==
  LET row == lead[l] IN
  worker.job \in JobsOf(l) =>
    /\ worker.pc \in {"release", "ready", "failed"} => worker.followUp = (row.stepsSent > 0)
    /\ worker.pc = "failed" /\ Booked(row) => row.queuedJobId = worker.seen
    /\ \A f \in Flight :
         /\ flight[f].pc \notin {"idle", "ok"} => worker.followUp = (row.stepsSent > 0)
         /\ flight[f].pc = "ok" => ~Booked(row)
         /\ flight[f].pc \in {"refused", "record"} => flight[f].stepsRead = row.stepsSent

\* The one mail that crossed the reply was the last.
CrossedOnce(l) ==
  afterReply[l] > 0 =>
    /\ afterReply[l] = 1
    /\ l \in replied
    /\ ~Reads1(l) /\ ~Reads2(l) /\ ~Marks1(l) /\ ~Marks2(l) /\ ~Adds(l) /\ ~InQueue(l)
    /\ worker.job \in JobsOf(l) => worker.pc \notin {"release", "ready"}
    /\ ToSend(l) = {}

LeadInv(l) ==
  /\ OnePlace(l) /\ RowSane(l) /\ ReadRight(l)
  /\ Waits(l) /\ Handled(l) /\ Named(l) /\ Worked(l) /\ CrossedOnce(l)

\* BullMQ runs what the processor has in hand, and nothing is queued twice.
QueueInv ==
  /\ faults = 0
  /\ recon.pc = "idle"
  /\ worker.pc = "idle" => worker.job = NoJob
  /\ \A f \in Flight : flight[f].pc = "idle" => flight[f].job = NoJob
  /\ \A j \in JobId : j \in active <=> (worker.pc # "idle" /\ worker.job = j)
  /\ \A j \in waiting : j \notin kept /\ (worker.pc # "idle" => worker.job # j)
  /\ \A t \in Tick : tick[t].pc \in {"mark1", "add1", "mark2", "add2"} =>
       /\ tick[t].job \notin kept \union waiting
       /\ worker.pc # "idle" => worker.job # tick[t].job

BookInv == QueueInv /\ \A l \in Lead : LeadInv(l)

\* Lead l is where it was; a tick may have dropped it.
PlacesSame(l) ==
  /\ Reads1(l)' => Reads1(l)
  /\ Reads2(l)' => Reads2(l)
  /\ Marks1(l)' => Marks1(l)
  /\ Marks2(l)' => Marks2(l)
  /\ \A j \in JobsOf(l) : (AddsJob(j)' <=> AddsJob(j)) /\ (j \in waiting' <=> j \in waiting)

\* Nobody works on it who did not before.
HandSame(l) ==
  \/ UNCHANGED <<worker, flight>>
  \/ /\ worker.job \notin JobsOf(l) \/ worker.pc = "finish"
     /\ worker'.job \notin JobsOf(l)
     /\ SameFor(l)

LEMMA LeadStays ==
  ASSUME NEW l \in Lead, LeadInv(l), PlacesSame(l), HandSame(l), lead'[l] = lead[l],
         l \in replied' <=> l \in replied, l \in marking' => l \in marking,
         afterReply'[l] = afterReply[l]
  PROVE  LeadInv(l)'
<1>1. /\ Adds(l)' = Adds(l) /\ InQueue(l)' = InQueue(l) /\ InHand(l)' = InHand(l)
      /\ NoJob \notin JobsOf(l)
  BY LeadRowAssumption DEF PlacesSame, Adds, InQueue, HandSame, InHand, JobsOf
<1>2. OnePlace(l)'
  BY <1>1 DEF LeadInv, OnePlace, PlacesSame
<1>3. RowSane(l)'
  BY DEF LeadInv, RowSane, Sane
<1>4. ReadRight(l)'
  BY DEF LeadInv, ReadRight, PlacesSame
<1>5. Waits(l)' /\ Handled(l)'
  BY <1>1 DEF LeadInv, Waits, Handled, NotDue
<1>6. Named(l)'
  BY <1>1 DEF LeadInv, Named, Booked, PlacesSame, RowSane, Sane, HandSame, InHand
<1>7. Worked(l)'
  BY DEF LeadInv, Worked, Booked, HandSame
<1>8. CrossedOnce(l)'
  <2>1. ToSend(l)' = ToSend(l)
    BY SameInflight DEF HandSame, ToSend, SameFor, Inflight
  <2> QED
    BY <1>1, <2>1 DEF LeadInv, CrossedOnce, PlacesSame, HandSame
<1> QED
  BY <1>2, <1>3, <1>4, <1>5, <1>6, <1>7, <1>8 DEF LeadInv


(* Ticks.  There is one.                                                    *)
LEMMA OneTick ==
  ASSUME Orderly, NEW t \in Tick, NEW l
  PROVE  /\ Reads1(l) <=> tick[t].pc \in {"pass1", "mark1", "add1"} /\ HasTodo(tick[t], l)
         /\ Reads2(l) <=> tick[t].pc \in {"pass2", "mark2", "add2"} /\ HasTodo(tick[t], l)
         /\ Marks1(l) <=> tick[t].pc = "mark1" /\ tick[t].job \in JobsOf(l)
         /\ Marks2(l) <=> tick[t].pc = "mark2" /\ tick[t].job \in JobsOf(l)
         /\ \A j : AddsJob(j) <=> tick[t].pc \in {"add1", "add2"} /\ tick[t].job = j
         /\ Reads1(l)' <=> tick'[t].pc \in {"pass1", "mark1", "add1"} /\ HasTodo(tick'[t], l)
         /\ Reads2(l)' <=> tick'[t].pc \in {"pass2", "mark2", "add2"} /\ HasTodo(tick'[t], l)
         /\ Marks1(l)' <=> tick'[t].pc = "mark1" /\ tick'[t].job \in JobsOf(l)
         /\ Marks2(l)' <=> tick'[t].pc = "mark2" /\ tick'[t].job \in JobsOf(l)
         /\ \A j : AddsJob(j)' <=> tick'[t].pc \in {"add1", "add2"} /\ tick'[t].job = j
<1>1. \A u \in Tick : u = t
  BY DEF Orderly
<1> QED
  BY <1>1 DEF Reads1, Reads2, Marks1, Marks2, AddsJob, HasTodo

\* What a tick leaves alone unless it marks a lead or adds its job.
TickLeaves == UNCHANGED <<lead, replied, marking, worker, flight, recon, faults, afterReply,
                          waiting, active, kept>>

\* The tick neither marks a lead nor holds a job afterwards.
LEMMA QueueStays ==
  ASSUME Orderly, BookInv, TickLeaves, NEW t \in Tick,
         tick'[t].pc \in {"mark1", "add1", "mark2", "add2"} =>
           /\ tick'[t].job \notin kept \union waiting
           /\ worker.pc # "idle" => worker.job # tick'[t].job
  PROVE  QueueInv'
<1>1. \A u \in Tick : u = t
  BY DEF Orderly
<1>2. \A u \in Tick : tick'[u].pc \in {"mark1", "add1", "mark2", "add2"} =>
        /\ tick'[u].job \notin kept \union waiting
        /\ worker.pc # "idle" => worker.job # tick'[u].job
  BY <1>1
<1> QED
  BY <1>2 DEF BookInv, QueueInv, TickLeaves

\* A lead the tick does not touch, or drops.
LEMMA TickPasses ==
  ASSUME Orderly, BookInv, TickLeaves, NEW t \in Tick, NEW l \in Lead,
         Reads1(l)' => Reads1(l), Reads2(l)' => Reads2(l),
         tick[t].pc \in {"mark1", "add1", "mark2", "add2"} => tick[t].job \notin JobsOf(l),
         tick'[t].pc \in {"mark1", "add1", "mark2", "add2"} => tick'[t].job \notin JobsOf(l)
  PROVE  LeadInv(l)'
<1>1. /\ Marks1(l)' => Marks1(l)
      /\ Marks2(l)' => Marks2(l)
  BY OneTick
<1>2. ASSUME NEW j \in JobsOf(l) PROVE ~AddsJob(j) /\ ~AddsJob(j)'
  BY OneTick
<1>3. PlacesSame(l)
  BY <1>1, <1>2 DEF PlacesSame, TickLeaves
<1> QED
  BY <1>3, LeadStays DEF BookInv, HandSame, TickLeaves

LEMMA BookTickStart ==
  ASSUME Orderly, TypeOK, BookInv, NEW t \in Tick, TickStart(t)
  PROVE  BookInv'
<1>1. TickLeaves /\ tick[t].pc = "idle"
  BY DEF TickStart, TickLeaves, dbVars, bullVars, history
<1>2. /\ tick'[t].pc = "pass1"
      /\ tick'[t].todo = {p \in Lead \X Pool : FollowUpDue(p[1]) /\ lead[p[1]].mailboxId = p[2]}
  BY DEF TickStart, TypeOK, TicksOK
<1>3. ASSUME NEW l \in Lead, HasTodo(tick'[t], l) PROVE FollowUpDue(l)
  BY <1>2, <1>3 DEF HasTodo
<1>4. QueueInv'
  BY <1>1, <1>2, QueueStays
<1>5. ASSUME NEW l \in Lead PROVE LeadInv(l)'
  <2>1. CASE ~HasTodo(tick'[t], l)
    BY <1>1, <1>2, <2>1, OneTick, TickPasses
  <2>2. CASE HasTodo(tick'[t], l)
    <3>1. /\ lead[l].status = "CONTACTED" /\ lead[l].nextStepAt = "now"
          /\ lead[l].queuedJobId = NoJob /\ l \notin replied
      BY <1>3, <2>2 DEF FollowUpDue
    <3>2. /\ Reads1(l)' /\ ~Reads2(l)' /\ ~Marks1(l)' /\ ~Marks2(l)'
          /\ ~Adds(l) /\ ~Adds(l)' /\ \A j : ~AddsJob(j)'
      BY <1>1, <1>2, <2>2, OneTick DEF Adds
    <3>3. LeadInv(l) /\ UNCHANGED <<lead, replied, marking, worker, flight, afterReply, waiting>>
      BY <1>1 DEF BookInv, TickLeaves
    <3>4. ~InQueue(l) /\ ~InHand(l)
      BY <3>1, <3>3 DEF LeadInv, Waits, Handled, NotDue
    <3>5. ~InQueue(l)' /\ ~InHand(l)'
      BY <3>3, <3>4 DEF InQueue, InHand
    <3>6. OnePlace(l)'
      BY <3>2, <3>3, <3>5 DEF LeadInv, OnePlace
    <3>7. RowSane(l)' /\ ReadRight(l)'
      BY <3>1, <3>2, <3>3 DEF LeadInv, RowSane, Sane, ReadRight
    <3>8. Waits(l)' /\ Handled(l)' /\ Named(l)'
      BY <3>1, <3>2, <3>3, <3>5 DEF Waits, Handled, NotDue, Named, Booked
    <3>9. Worked(l)'
      BY <3>3 DEF LeadInv, Worked, Booked
    <3>10. CrossedOnce(l)'
      BY <3>1, <3>3 DEF LeadInv, CrossedOnce
    <3> QED
      BY <3>6, <3>7, <3>8, <3>9, <3>10 DEF LeadInv
  <2> QED
    BY <2>1, <2>2
<1> QED
  BY <1>4, <1>5 DEF BookInv

LEMMA BookTakeSlot ==
  ASSUME Orderly, TypeOK, BookInv, NEW t \in Tick, NEW l \in Lead, NEW m \in Mailbox,
         TickTakeSlot(t, l, m)
  PROVE  BookInv'
<1>1. TickLeaves /\ tick[t].pc \in {"pass1", "pass2"} /\ <<l, m>> \in tick[t].todo
  BY DEF TickTakeSlot, TickLeaves, dbVars, bullVars, history
<1>2. PICK j \in NewJobs(l, m) :
        tick' = [tick EXCEPT ![t] =
          [pc |-> IF tick[t].pc = "pass1" THEN "mark1" ELSE "mark2",
           pool |-> tick[t].pool \ {m},
           todo |-> {p \in tick[t].todo : p[1] # l /\ p[2] # m},
           job |-> j]]
  BY DEF TickTakeSlot
<1>3. /\ tick'[t].job = j
      /\ tick'[t].todo = {p \in tick[t].todo : p[1] # l /\ p[2] # m}
      /\ tick[t].pc = "pass1" => tick'[t].pc = "mark1"
      /\ tick[t].pc = "pass2" => tick'[t].pc = "mark2"
  BY <1>1, <1>2 DEF TypeOK, TicksOK
<1>4. j \in JobsOf(l) /\ Fresh(j)
  BY DEF NewJobs, JobsOf
<1>5. j \notin kept \union waiting /\ worker.job # j
  BY <1>4 DEF Fresh, InRedis
<1>6. QueueInv'
  BY <1>1, <1>3, <1>5, QueueStays
<1>7. ASSUME NEW k \in Lead PROVE LeadInv(k)'
  <2>1. HasTodo(tick'[t], k) => HasTodo(tick[t], k) /\ k # l
    BY <1>3 DEF HasTodo
  <2>2. CASE k # l
    <3>1. j \notin JobsOf(k)
      BY <1>4, <2>2 DEF JobsOf
    <3> QED
      BY <1>1, <1>3, <2>1, <3>1, OneTick, TickPasses
  <2>3. CASE k = l
    <3>1. HasTodo(tick[t], k)
      BY <1>1, <2>3 DEF HasTodo
    <3>2. /\ ~Reads1(k)' /\ ~Reads2(k)' /\ (Marks1(k)' => Reads1(k)) /\ (Marks2(k)' => Reads2(k))
          /\ Reads1(k) \/ Reads2(k)
          /\ ~Adds(k) /\ ~Adds(k)' /\ \A i : ~AddsJob(i)
      BY <1>1, <1>3, <1>4, <2>1, <2>3, <3>1, OneTick DEF Adds
    <3>3. LeadInv(k) /\ UNCHANGED <<lead, replied, marking, worker, flight, afterReply, waiting>>
      BY <1>1 DEF BookInv, TickLeaves
    <3>4. ~InQueue(k) /\ ~InHand(k) /\ ~InQueue(k)' /\ ~InHand(k)'
      BY <3>2, <3>3 DEF LeadInv, OnePlace, InQueue, InHand
    <3>5. OnePlace(k)'
      BY <3>2, <3>3, <3>4 DEF LeadInv, OnePlace
    <3>6. RowSane(k)' /\ ReadRight(k)'
      BY <3>2, <3>3 DEF LeadInv, RowSane, Sane, ReadRight
    <3>7. Waits(k)' /\ Handled(k)' /\ Named(k)'
      BY <3>2, <3>3, <3>4 DEF LeadInv, Waits, Handled, NotDue, Named
    <3>8. Worked(k)'
      BY <3>3 DEF LeadInv, Worked, Booked
    <3>9. CrossedOnce(k)'
      BY <3>2, <3>3 DEF LeadInv, CrossedOnce
    <3> QED
      BY <3>5, <3>6, <3>7, <3>8, <3>9 DEF LeadInv
  <2> QED
    BY <2>2, <2>3
<1> QED
  BY <1>6, <1>7 DEF BookInv

LEMMA BookTickPasses ==
  ASSUME Orderly, TypeOK, BookInv, NEW t \in Tick, TickEnd(t) \/ \E l \in Lead : TickSkip(t, l)
  PROVE  BookInv'
<1>1. TickLeaves /\ tick[t].pc \in {"pass1", "pass2"}
  BY DEF TickEnd, TickSkip, TickLeaves, dbVars, bullVars, history
<1>2. /\ tick'[t].pc \in {"idle", tick[t].pc}
      /\ tick'[t].pc # "idle" => tick'[t].todo \subseteq tick[t].todo
  BY DEF TickEnd, TickSkip, TypeOK, TicksOK, IdleTick, TickState
<1>3. QueueInv'
  BY <1>1, <1>2, QueueStays
<1>4. ASSUME NEW l \in Lead PROVE LeadInv(l)'
  <2>1. tick'[t].pc # "idle" => (HasTodo(tick'[t], l) => HasTodo(tick[t], l))
    BY <1>2 DEF HasTodo
  <2>2. (Reads1(l)' => Reads1(l)) /\ (Reads2(l)' => Reads2(l))
    BY <1>1, <1>2, <2>1, OneTick
  <2> QED
    BY <1>1, <1>2, <2>2, TickPasses
<1> QED
  BY <1>3, <1>4 DEF BookInv

LEMMA BookReadFirstEmails ==
  ASSUME Orderly, TypeOK, BookInv, NEW t \in Tick, TickReadFirstEmails(t)
  PROVE  BookInv'
<1>1. TickLeaves /\ tick[t].pc = "pass1" /\ tick[t].todo = {}
  BY DEF TickReadFirstEmails, TickLeaves, dbVars, bullVars, history
<1>2. /\ tick'[t].pc = "pass2"
      /\ tick'[t].todo = {l \in Lead : FirstEmailDue(l)} \X (Senders \intersect tick[t].pool)
  BY DEF TickReadFirstEmails, TypeOK, TicksOK, TickState
<1>3. ASSUME NEW l \in Lead, HasTodo(tick'[t], l) PROVE FirstEmailDue(l)
  BY <1>2, <1>3 DEF HasTodo
<1>4. QueueInv'
  BY <1>1, <1>2, QueueStays
<1>5. ASSUME NEW l \in Lead PROVE LeadInv(l)'
  <2>1. CASE ~HasTodo(tick'[t], l)
    BY <1>1, <1>2, <2>1, OneTick, TickPasses
  <2>2. CASE HasTodo(tick'[t], l)
    <3>1. \/ lead[l].status = "UNTOUCHED"
          \/ lead[l].status = "QUEUED" /\ lead[l].nextRetryAt = "now"
      BY <1>3, <2>2 DEF FirstEmailDue
    <3>2. /\ Reads2(l)' /\ ~Reads1(l)' /\ ~Marks1(l)' /\ ~Marks2(l)'
          /\ ~Adds(l) /\ ~Adds(l)' /\ \A j : ~AddsJob(j)
      BY <1>1, <1>2, <2>2, OneTick DEF Adds
    <3>3. LeadInv(l) /\ UNCHANGED <<lead, replied, marking, worker, flight, afterReply, waiting>>
      BY <1>1 DEF BookInv, TickLeaves
    <3>4. ~InQueue(l) /\ ~InHand(l)
      BY <3>1, <3>3 DEF LeadInv, Waits, Handled, NotDue
    <3>5. ~InQueue(l)' /\ ~InHand(l)'
      BY <3>3, <3>4 DEF InQueue, InHand
    <3>6. OnePlace(l)'
      BY <3>2, <3>3, <3>5 DEF LeadInv, OnePlace
    <3>7. lead[l].stepsSent = 0 /\ l \notin replied
      BY <3>1, <3>3, Counts DEF LeadInv, RowSane, Sane
    <3>8. RowSane(l)' /\ ReadRight(l)'
      BY <3>2, <3>3, <3>7 DEF LeadInv, RowSane, Sane, ReadRight
    <3>9. Waits(l)' /\ Handled(l)'
      BY <3>2, <3>5 DEF Waits, Handled, NotDue
    <3>10. Named(l)'
      BY <3>2, <3>3, <3>4, <3>5 DEF LeadInv, Named, Booked
    <3>11. Worked(l)'
      BY <3>3 DEF LeadInv, Worked, Booked
    <3>12. CrossedOnce(l)'
      BY <3>3, <3>7 DEF LeadInv, CrossedOnce
    <3> QED
      BY <3>6, <3>8, <3>9, <3>10, <3>11, <3>12 DEF LeadInv
  <2> QED
    BY <2>1, <2>2
<1> QED
  BY <1>4, <1>5 DEF BookInv

LEMMA BookMarkLead ==
  ASSUME Orderly, TypeOK, SenderInv, BookInv, NEW t \in Tick, TickMarkLead(t)
  PROVE  BookInv'
<1>0. PICK j \in JobId : j = tick[t].job
  BY DEF TickMarkLead, TypeOK, TicksOK
<1>k. PICK k \in Lead : k = LeadOf(j)
  BY JobNames
<1>1. /\ UNCHANGED <<replied, marking, worker, flight, recon, faults, afterReply, waiting,
                     active, kept>>
      /\ tick[t].pc \in {"mark1", "mark2"}
  BY DEF TickMarkLead, bullVars, history
<1>2. /\ k \in Lead /\ j \in JobsOf(k) /\ lead[k] \in Row /\ j # NoJob
      /\ \A l \in Lead : l # k => j \notin JobsOf(l)
  BY <1>k, JobNames, LeadRowAssumption DEF TypeOK, DbOK, JobsOf, JobId, LeadOf
<1>3. /\ tick'[t].job = j /\ tick'[t].todo = tick[t].todo
      /\ tick[t].pc = "mark1" => tick'[t].pc = "add1"
      /\ tick[t].pc = "mark2" => tick'[t].pc = "add2"
  BY <1>0 DEF TickMarkLead, TypeOK, TicksOK, TickState
<1>4. \A l \in Lead : l # k => lead'[l] = lead[l]
  BY <1>0, <1>k, <1>2 DEF TickMarkLead, TypeOK, DbOK
<1>5. /\ tick[t].pc = "mark1" => lead'[k] = bookFollowUp(lead[k], j)
      /\ tick[t].pc = "mark2" => lead'[k] = bookFirstEmail(lead[k], j)
  BY <1>0, <1>k, <1>2 DEF TickMarkLead, TypeOK, DbOK
<1>6. QueueInv'
  <2>1. \A u \in Tick : u = t
    BY DEF Orderly
  <2>2. j \notin kept \union waiting /\ (worker.pc # "idle" => worker.job # j)
    BY <1>0, <1>1 DEF BookInv, QueueInv
  <2> QED
    BY <1>1, <1>3, <2>1, <2>2 DEF BookInv, QueueInv
<1>7. ASSUME NEW l \in Lead, l # k PROVE LeadInv(l)'
  <2>1. j \notin JobsOf(l) /\ (HasTodo(tick'[t], l) <=> HasTodo(tick[t], l))
    BY <1>2, <1>3, <1>7 DEF HasTodo
  <2>2. /\ Reads1(l)' => Reads1(l)
        /\ Reads2(l)' => Reads2(l)
    BY <1>1, <1>3, <2>1, OneTick
  <2>3. ~Marks1(l)' /\ ~Marks2(l)' /\ \A i \in JobsOf(l) : ~AddsJob(i) /\ ~AddsJob(i)'
    BY <1>1, <1>3, <2>1, <1>0, OneTick
  <2>4. PlacesSame(l)
    BY <1>1, <2>2, <2>3 DEF PlacesSame
  <2> QED
    BY <1>1, <1>4, <1>7, <2>4, LeadStays DEF BookInv, HandSame
<1>8. LeadInv(k)'
  <2>1. LeadInv(k)
    BY <1>2 DEF BookInv
  <2>2. Marks1(k) \/ Marks2(k)
    BY <1>1, <1>2, <1>0, OneTick
  <2>3. /\ ~Marks1(k)' /\ ~Marks2(k)' /\ ~Reads1(k)' /\ ~Reads2(k)' /\ AddsJob(j)'
    <3>1. ~Reads1(k) /\ ~Reads2(k) /\ (HasTodo(tick'[t], k) <=> HasTodo(tick[t], k))
      BY <1>3, <2>1, <2>2 DEF LeadInv, OnePlace, HasTodo
    <3> QED
      BY <1>1, <1>3, <3>1, OneTick
  <2>4. ~InQueue(k) /\ ~InHand(k) /\ ~InQueue(k)' /\ ~InHand(k)'
    BY <1>1, <2>1, <2>2 DEF LeadInv, OnePlace, InQueue, InHand
  <2>5. OnePlace(k)'
    BY <2>3, <2>4 DEF OnePlace, InQueue
  <2>6. /\ lead[k].stepsSent \in Nat /\ lead'[k].stepsSent = lead[k].stepsSent
        /\ lead'[k].queuedJobId = j /\ ~lead'[k].slotOverdue
        /\ tick[t].pc = "mark1" => /\ Marks1(k)
                                   /\ lead'[k].status = lead[k].status
                                   /\ lead'[k].nextStepAt = lead[k].nextStepAt
        /\ tick[t].pc = "mark2" => /\ Marks2(k)
                                   /\ lead'[k].status = "QUEUED"
                                   /\ lead'[k].nextRetryAt = "none"
    <3>0. lead[k].stepsSent \in Nat
      BY <1>2 DEF Row
    <3>1. CASE tick[t].pc = "mark1"
      <4>1. Marks1(k)
        BY <2>2, <3>1, OneTick
      <4> QED
        BY <1>2, <1>5, <3>0, <3>1, <4>1 DEF bookFollowUp, Row
    <3>2. CASE tick[t].pc = "mark2"
      <4>1. Marks2(k)
        BY <2>2, <3>2, OneTick
      <4> QED
        BY <1>2, <1>5, <3>0, <3>2, <4>1 DEF bookFirstEmail, Row
    <3> QED
      BY <1>1, <3>1, <3>2
  <2>7. RowSane(k) /\ ReadRight(k)
    BY <2>1 DEF LeadInv
  <2>8. RowSane(k)'
    <3>1. CASE tick[t].pc = "mark1"
      BY <1>1, <1>2, <2>6, <2>7, <3>1 DEF RowSane, Sane, ReadRight
    <3>2. CASE tick[t].pc = "mark2"
      BY <1>1, <1>2, <2>6, <2>7, <3>2 DEF RowSane, Sane, ReadRight
    <3> QED
      BY <1>1, <3>1, <3>2
  <2>9. ReadRight(k)' /\ Handled(k)'
    BY <2>3, <2>4 DEF ReadRight, Handled, NotDue
  <2>10. Waits(k)'
    BY <1>1, <1>2, <2>6, <2>7 DEF Waits, RowSane, Sane, ReadRight
  <2>11. Named(k)'
    BY <2>3, <2>6 DEF Named
  <2>12. Worked(k)'
    <3>1. worker.job \in JobsOf(k) => worker.pc \in {"idle", "finish"}
      BY <2>4 DEF InHand, TypeOK, WorkerOK, WorkerState
    <3>2. worker.job \in JobsOf(k) => \A f \in Flight : flight[f].pc = "idle"
      BY <3>1, OneUnderWay DEF SenderInv
    <3> QED
      BY <1>1, <3>1, <3>2 DEF Worked
  <2>13. CrossedOnce(k)'
    BY <1>1, <2>1, <2>2 DEF LeadInv, CrossedOnce
  <2> QED
    BY <2>5, <2>8, <2>9, <2>10, <2>11, <2>12, <2>13 DEF LeadInv
<1> QED
  BY <1>6, <1>7, <1>8 DEF BookInv

LEMMA BookAddJob ==
  ASSUME Orderly, TypeOK, BookInv, NEW t \in Tick, TickAddJob(t)
  PROVE  BookInv'
<1>0. PICK j \in JobId : j = tick[t].job
  BY DEF TickAddJob, TypeOK, TicksOK
<1>k. PICK k \in Lead : k = LeadOf(j)
  BY JobNames
<1>1. /\ UNCHANGED <<lead, replied, marking, worker, flight, recon, faults, afterReply, active,
                     kept>>
      /\ tick[t].pc \in {"add1", "add2"} /\ waiting' = waiting \union {j}
  BY <1>0 DEF TickAddJob, dbVars, history
<1>2. /\ k \in Lead /\ j \in JobsOf(k)
      /\ \A l \in Lead : l # k => j \notin JobsOf(l)
  BY <1>k, JobNames DEF JobsOf, JobId, LeadOf
<1>3. /\ tick'[t].pc \in {"idle", "pass1", "pass2"}
      /\ tick'[t].pc # "idle" => tick'[t].todo = tick[t].todo
      /\ tick'[t].pc = "pass1" => tick[t].pc = "add1"
      /\ tick'[t].pc = "pass2" => tick[t].pc = "add2"
  <2>1. CASE tick' = [tick EXCEPT ![t] = IdleTick]
    BY <2>1 DEF TypeOK, TicksOK, TickState, IdleTick
  <2>2. CASE tick' = [tick EXCEPT ![t].pc = IF tick[t].pc = "add1" THEN "pass1" ELSE "pass2",
                                  ![t].job = NoJob]
    BY <1>1, <2>2 DEF TypeOK, TicksOK, TickState
  <2> QED
    BY <2>1, <2>2 DEF TickAddJob
<1>4. QueueInv'
  <2>1. \A u \in Tick : u = t
    BY DEF Orderly
  <2>2. j \notin kept \union waiting /\ (worker.pc # "idle" => worker.job # j)
    BY <1>0, <1>1 DEF BookInv, QueueInv
  <2> QED
    BY <1>1, <1>3, <2>1, <2>2 DEF BookInv, QueueInv
<1>5. ASSUME NEW l \in Lead
      PROVE  /\ Reads1(l)' => Reads1(l)
             /\ Reads2(l)' => Reads2(l)
             /\ ~Marks1(l)' /\ ~Marks2(l)' /\ \A i : ~AddsJob(i)'
  <2>1. tick'[t].pc # "idle" => (HasTodo(tick'[t], l) <=> HasTodo(tick[t], l))
    BY <1>3 DEF HasTodo
  <2> QED
    BY <1>1, <1>3, <2>1, OneTick
<1>6. ASSUME NEW l \in Lead, l # k PROVE LeadInv(l)'
  <2>1. j \notin JobsOf(l)
    BY <1>2, <1>6
  <2>2. \A i \in JobsOf(l) : ~AddsJob(i) /\ (i \in waiting' <=> i \in waiting)
    BY <1>1, <2>1, <1>0, OneTick
  <2>3. PlacesSame(l)
    BY <1>5, <2>2 DEF PlacesSame
  <2> QED
    BY <1>1, <2>3, LeadStays DEF BookInv, HandSame
<1>7. LeadInv(k)'
  <2>1. LeadInv(k) /\ \A i : AddsJob(i) <=> i = j
    BY <1>1, <1>2, <1>0, OneTick DEF BookInv
  <2>2. Adds(k)
    BY <1>2, <2>1 DEF Adds
  <2>3. /\ ~Reads1(k) /\ ~Reads2(k) /\ ~InQueue(k) /\ ~InHand(k) /\ ~InHand(k)'
    BY <1>1, <2>1, <2>2 DEF LeadInv, OnePlace, InHand
  <2>4. ~Reads1(k)' /\ ~Reads2(k)' /\ ~Marks1(k)' /\ ~Marks2(k)' /\ ~Adds(k)'
    BY <1>2, <1>5, <2>3 DEF Adds
  <2>5. \A i \in JobsOf(k) : i \in waiting' <=> i = j
    BY <1>1, <1>2, <2>3 DEF InQueue
  <2>6. OnePlace(k)'
    BY <2>3, <2>4, <2>5 DEF OnePlace
  <2>7. RowSane(k)' /\ ReadRight(k)'
    BY <1>1, <2>1, <2>4 DEF LeadInv, RowSane, Sane, ReadRight
  <2>8. Waits(k)' /\ Handled(k)'
    BY <1>1, <2>1, <2>2, <2>3 DEF LeadInv, Waits, Handled, NotDue
  <2>9. Named(k)'
    BY <1>1, <2>1, <2>3 DEF LeadInv, Named, Booked
  <2>10. Worked(k)'
    BY <1>1, <2>1 DEF LeadInv, Worked, Booked
  <2>11. CrossedOnce(k)'
    BY <1>1, <2>1, <2>2 DEF LeadInv, CrossedOnce
  <2> QED
    BY <2>6, <2>7, <2>8, <2>9, <2>10, <2>11 DEF LeadInv
<1> QED
  BY <1>4, <1>6, <1>7 DEF BookInv

LEMMA BookTicks ==
  ASSUME Orderly, TypeOK, SenderInv, BookInv, NEW t \in Tick, TickStep(t)
  PROVE  BookInv'
<1>1. ~TickFails(t)
  BY DEF TickFails, Fault, Orderly
<1> QED
  BY <1>1, BookTickStart, BookTakeSlot, BookTickPasses, BookMarkLead, BookAddJob,
     BookReadFirstEmails DEF TickStep


-----------------------------------------------------------------------------
(* The processor.  Each of its writes ends the booking.                     *)
LEMMA JobEnds ==
  ASSUME NEW k \in Lead, NEW row \in Row, Sane(row, k), NEW followUp \in BOOLEAN,
         followUp <=> row.stepsSent > 0, NEW seen
  PROVE  /\ Sane(releaseLead(row, followUp), k) /\ ~Booked(releaseLead(row, followUp))
         /\ ~followUp => /\ Sane(stopDeadAddress(row), k) /\ ~Booked(stopDeadAddress(row))
                         /\ Sane(askAgainLater(row), k) /\ ~Booked(askAgainLater(row))
         /\ (Booked(row) => row.queuedJobId = seen) =>
              /\ Sane(dispatchFailed(row, followUp, seen), k)
              /\ ~Booked(dispatchFailed(row, followUp, seen))
<1> DEFINE u == Unqueued(row)
<1>1. /\ u \in Row /\ u.queuedJobId = NoJob /\ u.status = row.status
      /\ u.stepsSent = row.stepsSent /\ u.nextRetryAt = row.nextRetryAt
      /\ row.stepsSent \in Nat
  BY UnqueuedIsRow DEF Unqueued, Row
<1> HIDE DEF u
<1>2. Sane(releaseLead(row, followUp), k) /\ ~Booked(releaseLead(row, followUp))
  <2>1. CASE followUp
    <3>1. releaseLead(row, followUp) = u
      BY <2>1 DEF releaseLead, u
    <3> QED
      BY <1>1, <2>1, <3>1 DEF Sane, Booked
  <2>2. CASE ~followUp /\ row.status = "QUEUED"
    <3>1. releaseLead(row, followUp) = [u EXCEPT !.status = "UNTOUCHED"]
      BY <2>2 DEF releaseLead, u
    <3> QED
      BY <1>1, <2>2, <3>1 DEF Sane, Booked, Row
  <2>3. CASE ~followUp /\ row.status # "QUEUED"
    <3>1. releaseLead(row, followUp) = row
      BY <2>3 DEF releaseLead
    <3> QED
      BY <1>1, <2>3, <3>1 DEF Sane, Booked
  <2> QED
    BY <2>1, <2>2, <2>3
<1>3. ASSUME ~followUp
      PROVE  /\ Sane(stopDeadAddress(row), k) /\ ~Booked(stopDeadAddress(row))
             /\ Sane(askAgainLater(row), k) /\ ~Booked(askAgainLater(row))
  <2>1. CASE row.status = "QUEUED"
    <3>1. /\ stopDeadAddress(row) = [u EXCEPT !.status = "FAILED", !.nextRetryAt = "none"]
          /\ askAgainLater(row) = [u EXCEPT !.nextRetryAt = "later"]
      BY <2>1 DEF stopDeadAddress, askAgainLater, u
    <3> QED
      BY <1>1, <1>3, <2>1, <3>1 DEF Sane, Booked, Row
  <2>2. CASE row.status # "QUEUED"
    <3>1. stopDeadAddress(row) = row /\ askAgainLater(row) = row
      BY <2>2 DEF stopDeadAddress, askAgainLater
    <3> QED
      BY <1>1, <1>3, <2>2, <3>1 DEF Sane, Booked
  <2> QED
    BY <2>1, <2>2
<1>4. ASSUME Booked(row) => row.queuedJobId = seen
      PROVE  /\ Sane(dispatchFailed(row, followUp, seen), k)
             /\ ~Booked(dispatchFailed(row, followUp, seen))
  <2>1. CASE followUp /\ row.queuedJobId = seen /\ row.nextStepAt # "none"
    <3>1. dispatchFailed(row, followUp, seen) = [u EXCEPT !.nextStepAt = "later"]
      BY <2>1 DEF dispatchFailed, u
    <3> QED
      BY <1>1, <2>1, <3>1 DEF Sane, Booked, Row
  <2>2. CASE ~followUp /\ row.status = "QUEUED"
    <3>1. dispatchFailed(row, followUp, seen) = [u EXCEPT !.nextRetryAt = "later"]
      BY <2>2 DEF dispatchFailed, u
    <3> QED
      BY <1>1, <2>2, <3>1 DEF Sane, Booked, Row
  <2>3. CASE /\ ~(followUp /\ row.queuedJobId = seen /\ row.nextStepAt # "none")
             /\ ~(~followUp /\ row.status = "QUEUED")
    <3>1. dispatchFailed(row, followUp, seen) = row
      BY <2>3 DEF dispatchFailed
    <3> QED
      BY <1>1, <1>4, <2>3, <3>1 DEF Sane, Booked
  <2> QED
    BY <2>1, <2>2, <2>3
<1> QED
  BY <1>2, <1>3, <1>4

LEMMA BookEnds ==
  ASSUME TypeOK, SenderInv, BookInv, worker.pc \in {"release", "ready", "failed"},
         NEW k \in Lead, worker.job \in JobsOf(k), k = LeadOf(worker.job),
         NEW row, WorkerWrites(row), KeepsSender(row, lead[k]), Sane(row, k), ~Booked(row),
         UNCHANGED <<tick, waiting, active, kept, flight, recon, faults, afterReply>>
  PROVE  BookInv'
<1>1. /\ worker'.pc = "finish" /\ worker'.job = worker.job
      /\ lead'[k] = row /\ \A l \in Lead : l # k => lead'[l] = lead[l]
      /\ UNCHANGED <<replied, marking>>
  BY DEF WorkerWrites, TypeOK, WorkerOK, WorkerState, DbOK
<1>2. QueueInv'
  BY <1>1 DEF BookInv, QueueInv
<1>3. ASSUME NEW l \in Lead, l # k PROVE LeadInv(l)'
  <2>1. worker.job \notin JobsOf(l)
    BY <1>3 DEF JobsOf
  <2>2. PlacesSame(l) /\ HandSame(l)
    BY <1>1, <2>1 DEF PlacesSame, HandSame, SameFor, Reads1, Reads2, Marks1, Marks2, AddsJob, HasTodo
  <2> QED
    BY <1>1, <1>3, <2>2, LeadStays DEF BookInv
<1>4. LeadInv(k)'
  <2>1. LeadInv(k) /\ InHand(k) /\ ~InHand(k)'
    BY <1>1 DEF BookInv, InHand
  <2>2. /\ ~Reads1(k) /\ ~Reads2(k) /\ ~Marks1(k) /\ ~Marks2(k) /\ ~Adds(k) /\ ~InQueue(k)
    BY <2>1 DEF LeadInv, OnePlace
  <2>3. /\ ~Reads1(k)' /\ ~Reads2(k)' /\ ~Marks1(k)' /\ ~Marks2(k)' /\ ~Adds(k)' /\ ~InQueue(k)'
    BY <2>2 DEF Reads1, Reads2, Marks1, Marks2, Adds, AddsJob, InQueue, HasTodo
  <2>4. \A f \in Flight : flight[f].pc = "idle"
    BY OneUnderWay DEF SenderInv
  <2>5. OnePlace(k)' /\ ReadRight(k)' /\ Waits(k)' /\ Handled(k)'
    BY <2>1, <2>3 DEF OnePlace, ReadRight, Waits, Handled, InQueue
  <2>6. RowSane(k)'
    BY <1>1, <2>1 DEF LeadInv, RowSane, KeepsSender, Sane
  <2>7. Named(k)'
    BY <1>1 DEF Named, Booked
  <2>8. Worked(k)'
    BY <1>1, <2>4 DEF Worked
  <2>9. CrossedOnce(k)'
    BY <1>1, <2>1, <2>3, <2>4 DEF LeadInv, CrossedOnce, ToSend, Inflight, Unsent
  <2> QED
    BY <2>5, <2>6, <2>7, <2>8, <2>9 DEF LeadInv
<1> QED
  BY <1>2, <1>3, <1>4 DEF BookInv


\* The leads whose job is not the processor's.
LEMMA OthersWait ==
  ASSUME BookInv, NEW l \in Lead, lead'[l] = lead[l],
         worker.job \notin JobsOf(l) \/ worker.pc = "finish", worker'.job \notin JobsOf(l),
         SameFor(l), \A j \in JobsOf(l) : j \in waiting' <=> j \in waiting,
         UNCHANGED <<tick, replied, marking>>, afterReply'[l] = afterReply[l]
  PROVE  LeadInv(l)'
<1>1. PlacesSame(l)
  BY DEF PlacesSame, Reads1, Reads2, Marks1, Marks2, AddsJob, HasTodo
<1> QED
  BY <1>1, LeadStays DEF BookInv, HandSame

\* Its own lead, when only what the processor holds changes.
LEMMA OwnPlaces ==
  ASSUME BookInv, NEW k \in Lead, InHand(k), UNCHANGED <<tick, waiting>>
  PROVE  /\ LeadInv(k)
         /\ OnePlace(k)' /\ ReadRight(k)' /\ Waits(k)'
         /\ ~Reads1(k)' /\ ~Reads2(k)' /\ ~Marks1(k)' /\ ~Marks2(k)' /\ ~Adds(k)' /\ ~InQueue(k)'
<1>1. /\ LeadInv(k)
      /\ ~Reads1(k) /\ ~Reads2(k) /\ ~Marks1(k) /\ ~Marks2(k) /\ ~Adds(k) /\ ~InQueue(k)
  BY DEF BookInv, LeadInv, OnePlace
<1>2. /\ ~Reads1(k)' /\ ~Reads2(k)' /\ ~Marks1(k)' /\ ~Marks2(k)' /\ ~Adds(k)' /\ ~InQueue(k)'
  BY <1>1 DEF Reads1, Reads2, Marks1, Marks2, Adds, AddsJob, InQueue, HasTodo
<1> QED
  BY <1>1, <1>2 DEF OnePlace, ReadRight, Waits, InQueue

LEMMA BookTakeJob ==
  ASSUME TypeOK, SenderInv, BookInv, NEW j \in JobId, TakeJob(j)
  PROVE  BookInv'
<1>0. PICK k \in Lead : k = LeadOf(j) /\ j \in JobsOf(k)
  BY JobNames
<1>1. /\ worker.pc = "idle" /\ worker.job = NoJob /\ j \in waiting
      /\ waiting' = waiting \ {j} /\ active' = active \union {j}
      /\ UNCHANGED <<lead, replied, marking, kept, tick, recon, flight, faults, afterReply>>
  BY DEF TakeJob, dbVars, history, BookInv, QueueInv
<1>2. /\ worker'.pc \in {"ready", "release"} /\ worker'.job = j
      /\ worker'.followUp = (lead[k].stepsSent > 0)
  BY <1>0 DEF TakeJob
<1>3. QueueInv'
  <2>1. \A i \in JobId : i \in active' <=> i = j
    BY <1>1 DEF BookInv, QueueInv
  <2>2. \A i \in waiting' : i \notin kept /\ i # j
    BY <1>1 DEF BookInv, QueueInv
  <2>3. \A t \in Tick : tick[t].pc \in {"mark1", "add1", "mark2", "add2"} =>
          tick[t].job \notin kept \union waiting /\ tick[t].job # j
    BY <1>1 DEF BookInv, QueueInv
  <2>4. /\ faults' = 0 /\ recon'.pc = "idle"
        /\ \A f \in Flight : flight'[f].pc = "idle" => flight'[f].job = NoJob
    BY <1>1 DEF BookInv, QueueInv
  <2> QED
    BY <1>1, <1>2, <2>1, <2>2, <2>3, <2>4 DEF QueueInv
<1>4. ASSUME NEW l \in Lead, l # k PROVE LeadInv(l)'
  <2>1. j \notin JobsOf(l) /\ NoJob \notin JobsOf(l)
    BY <1>0, <1>4, LeadRowAssumption DEF JobsOf
  <2> QED
    BY <1>1, <1>2, <2>1, OthersWait DEF SameFor
<1>5. LeadInv(k)'
  <2>1. LeadInv(k) /\ InQueue(k) /\ ~InHand(k)
    BY <1>0, <1>1 DEF BookInv, InQueue, InHand
  <2>2. /\ ~Reads1(k) /\ ~Reads2(k) /\ ~Marks1(k) /\ ~Marks2(k) /\ ~Adds(k)
        /\ \A i \in JobsOf(k) : i \in waiting => i = j
    BY <1>0, <1>1, <2>1 DEF LeadInv, OnePlace
  <2>3. /\ ~Reads1(k)' /\ ~Reads2(k)' /\ ~Marks1(k)' /\ ~Marks2(k)' /\ ~Adds(k)' /\ ~InQueue(k)'
    BY <1>1, <2>2 DEF Reads1, Reads2, Marks1, Marks2, Adds, AddsJob, InQueue, HasTodo
  <2>4. InHand(k)'
    BY <1>0, <1>2 DEF InHand
  <2>5. OnePlace(k)' /\ ReadRight(k)' /\ Waits(k)'
    BY <2>3 DEF OnePlace, ReadRight, Waits, InQueue
  <2>6. RowSane(k)'
    BY <1>1, <2>1 DEF LeadInv, RowSane, Sane
  <2>7. Handled(k)'
    BY <1>1, <2>1 DEF LeadInv, Handled, NotDue, Waits
  <2>8. Named(k)'
    <3>1. lead[k].queuedJobId \in JobsOf(k) \union {NoJob}
      BY <2>1 DEF LeadInv, RowSane, Sane
    <3>2. Booked(lead[k]) => lead[k].queuedJobId = j
      <4>1. Booked(lead[k]) => lead[k].queuedJobId \in JobsOf(k)
        BY <3>1 DEF Booked
      <4>2. Booked(lead[k]) => ~AddsJob(lead[k].queuedJobId)
        BY <2>2, <4>1 DEF Adds
      <4> QED
        BY <2>1, <2>2, <4>1, <4>2 DEF LeadInv, Named
    <3> QED
      BY <1>1, <1>2, <2>4, <3>2 DEF Named
  <2>9. Worked(k)'
    <3>1. \A f \in Flight : flight[f].pc = "idle"
      BY <1>1, OneUnderWay DEF SenderInv
    <3> QED
      BY <1>1, <1>2, <3>1 DEF Worked
  <2>10. CrossedOnce(k)'
    BY <1>1, <2>1 DEF LeadInv, CrossedOnce
  <2> QED
    BY <2>5, <2>6, <2>7, <2>8, <2>9, <2>10 DEF LeadInv
<1> QED
  BY <1>3, <1>4, <1>5 DEF BookInv

LEMMA BookDispatch ==
  ASSUME TypeOK, SenderInv, BookInv, NEW f \in Flight, WorkerDispatches(f)
  PROVE  BookInv'
<1>1. /\ worker.pc = "ready" /\ UNCHANGED <<lead, replied, marking, waiting, active, kept, tick,
                                            recon, faults, afterReply>>
      /\ worker'.pc = "await" /\ worker'.job = worker.job /\ worker'.followUp = worker.followUp
  BY DEF WorkerDispatches, dbVars, bullVars, history, TypeOK, WorkerOK, WorkerState
<1>0. PICK k \in Lead : k = LeadOf(worker.job) /\ worker.job \in JobsOf(k)
  BY <1>1, JobNames DEF TypeOK, WorkerOK
<1>2. /\ flight'[f].pc = "compose" /\ flight'[f].job = worker.job
      /\ \A g \in Flight : flight[g].pc = "idle" /\ (g # f => flight'[g] = flight[g])
  <2>1. \A g \in Flight : flight[g].pc = "idle"
    BY <1>1, OneUnderWay DEF SenderInv
  <2> QED
    BY <2>1 DEF WorkerDispatches, TypeOK, FlightsOK
<1>3. QueueInv'
  <2>1. \A g \in Flight : flight'[g].pc = "idle" => flight'[g].job = NoJob
    BY <1>2 DEF BookInv, QueueInv
  <2> QED
    BY <1>1, <2>1 DEF BookInv, QueueInv
<1>4. ASSUME NEW l \in Lead, l # k PROVE LeadInv(l)'
  <2>1. worker.job \notin JobsOf(l)
    BY <1>0, <1>4 DEF JobsOf
  <2>2. flight[f].job \notin JobsOf(l)
    <3>1. flight[f].job = NoJob
      BY <1>2 DEF BookInv, QueueInv
    <3> QED
      BY <3>1, LeadRowAssumption DEF JobsOf
  <2> QED
    BY <1>1, <1>2, <2>1, <2>2, OthersWait DEF SameFor
<1>5. LeadInv(k)'
  <2>1. InHand(k) /\ InHand(k)'
    BY <1>0, <1>1 DEF InHand
  <2>2. LeadInv(k) /\ OnePlace(k)' /\ ReadRight(k)' /\ Waits(k)'
    BY <1>1, <2>1, OwnPlaces
  <2>3. RowSane(k)' /\ Handled(k)' /\ Named(k)'
    <3>1. ~AddsJob(worker.job)
      BY <1>0, <2>1, <2>2 DEF LeadInv, OnePlace, Adds
    <3> QED
      BY <1>1, <2>1, <2>2 DEF LeadInv, RowSane, Sane, Handled, NotDue, Named, AddsJob
  <2>4. Worked(k)'
    BY <1>0, <1>1, <1>2, <2>2 DEF LeadInv, Worked
  <2>5. CrossedOnce(k)'
    BY <1>0, <1>1, <2>2 DEF LeadInv, CrossedOnce
  <2> QED
    BY <2>2, <2>3, <2>4, <2>5 DEF LeadInv
<1> QED
  BY <1>3, <1>4, <1>5 DEF BookInv

LEMMA BookAnswered ==
  ASSUME TypeOK, SenderInv, BookInv, NEW f \in Flight, WorkerAnswered(f)
  PROVE  BookInv'
<1>1. /\ worker.pc = "await" /\ flight[f].awaited /\ flight[f].pc \in {"ok", "failed"}
      /\ flight' = [flight EXCEPT ![f] = IdleFlight]
      /\ UNCHANGED <<lead, replied, marking, waiting, active, kept, tick, recon, faults,
                     afterReply>>
  BY DEF WorkerAnswered, dbVars, bullVars, history
<1>0. PICK k \in Lead : k = LeadOf(worker.job) /\ worker.job \in JobsOf(k)
  BY <1>1, JobNames DEF TypeOK, WorkerOK
<1> DEFINE row == lead[k]
           unwritten == row.queuedJobId # NoJob /\ (worker.followUp \/ row.status = "QUEUED")
<1>2. /\ worker'.job = worker.job /\ worker'.followUp = worker.followUp
      /\ IF flight[f].pc = "failed" /\ unwritten
         THEN worker'.pc = "failed" /\ worker'.seen = row.queuedJobId
         ELSE worker'.pc = "finish"
  BY <1>0 DEF WorkerAnswered, TypeOK, WorkerOK, WorkerState
<1>3. /\ flight[f].job = worker.job
      /\ \A g \in Flight : flight'[g].pc = "idle" /\ (g # f => flight'[g] = flight[g])
      /\ flight'[f].job = NoJob
  BY <1>1, OneUnderWay DEF SenderInv, TypeOK, FlightsOK, IdleFlight
<1>4. QueueInv'
  BY <1>1, <1>2, <1>3 DEF BookInv, QueueInv
<1>5. ASSUME NEW l \in Lead, l # k PROVE LeadInv(l)'
  <2>1. worker.job \notin JobsOf(l) /\ NoJob \notin JobsOf(l)
    BY <1>0, <1>5, LeadRowAssumption DEF JobsOf
  <2> QED
    BY <1>1, <1>2, <1>3, <2>1, OthersWait DEF SameFor
<1>6. LeadInv(k)'
  <2>1. InHand(k)
    BY <1>0, <1>1 DEF InHand
  <2>2. LeadInv(k) /\ OnePlace(k)' /\ ReadRight(k)' /\ Waits(k)'
    BY <1>1, <2>1, OwnPlaces
  <2>3. RowSane(k)' /\ Handled(k)'
    BY <1>1, <2>1, <2>2 DEF LeadInv, RowSane, Sane, Handled, NotDue
  <2>4. worker'.pc = "finish" => ~Booked(row)
    <3>1. CASE flight[f].pc = "ok"
      BY <1>0, <2>2, <3>1 DEF LeadInv, Worked
    <3>2. CASE flight[f].pc = "failed"
      <4>1. worker.followUp <=> row.stepsSent > 0
        BY <1>0, <2>2, <3>2 DEF LeadInv, Worked
      <4>2. row.status = "CONTACTED" => row.stepsSent > 0
        BY <2>2 DEF LeadInv, RowSane, Sane
      <4> QED
        BY <1>2, <3>2, <4>1, <4>2 DEF Booked
    <3> QED
      BY <1>1, <3>1, <3>2
  <2>5. Named(k)'
    <3>1. CASE worker'.pc = "finish"
      BY <1>1, <2>4, <3>1 DEF Named, Booked
    <3>2. CASE worker'.pc = "failed"
      <4>1. InHand(k)' /\ ~AddsJob(worker.job)
        BY <1>0, <1>2, <2>1, <2>2, <3>2 DEF LeadInv, OnePlace, Adds, InHand
      <4> QED
        BY <1>1, <1>2, <2>1, <2>2, <4>1 DEF LeadInv, Named, AddsJob
    <3> QED
      BY <1>2, <3>1, <3>2
  <2>6. Worked(k)'
    <3>1. worker'.pc = "failed" => worker'.followUp = (row.stepsSent > 0)
      BY <1>0, <1>1, <1>2, <2>2 DEF LeadInv, Worked
    <3> QED
      BY <1>1, <1>2, <1>3, <3>1 DEF Worked
  <2>7. CrossedOnce(k)'
    <3>1. ToSend(k)' = {}
      BY <1>3 DEF ToSend, Inflight, Unsent
    <3> QED
      BY <1>1, <1>2, <2>2, <3>1, OwnPlaces, <2>1 DEF LeadInv, CrossedOnce
  <2> QED
    BY <2>2, <2>3, <2>5, <2>6, <2>7 DEF LeadInv
<1> QED
  BY <1>4, <1>5, <1>6 DEF BookInv


LEMMA BookFinishes ==
  ASSUME TypeOK, BookInv, WorkerFinishes
  PROVE  BookInv'
<1> DEFINE j == worker.job
<1>1. /\ worker.pc = "finish" /\ worker' = IdleWorker /\ active' = active \ {j}
      /\ kept' \subseteq kept \union {j}
      /\ UNCHANGED <<lead, replied, marking, waiting, tick, recon, flight, faults, afterReply>>
  BY DEF WorkerFinishes, dbVars, history
<1>2. worker'.pc = "idle" /\ worker'.job = NoJob
  BY <1>1 DEF IdleWorker
<1>3. j \in JobId
  BY <1>1 DEF TypeOK, WorkerOK
<1>4. QueueInv'
  <2>1. \A i \in JobId : i \notin active'
    BY <1>1 DEF BookInv, QueueInv
  <2>2. \A i \in waiting : i \notin kept'
    BY <1>1 DEF BookInv, QueueInv
  <2>3. \A t \in Tick : tick[t].pc \in {"mark1", "add1", "mark2", "add2"} =>
          tick[t].job \notin kept' \union waiting
    BY <1>1 DEF BookInv, QueueInv
  <2>4. /\ faults' = 0 /\ recon'.pc = "idle"
        /\ \A f \in Flight : flight'[f].pc = "idle" => flight'[f].job = NoJob
    BY <1>1 DEF BookInv, QueueInv
  <2> QED
    BY <1>1, <1>2, <2>1, <2>2, <2>3, <2>4 DEF QueueInv
<1>5. ASSUME NEW l \in Lead PROVE LeadInv(l)'
  <2>1. NoJob \notin JobsOf(l)
    BY LeadRowAssumption DEF JobsOf
  <2> QED
    BY <1>1, <1>2, <2>1, OthersWait DEF SameFor
<1> QED
  BY <1>4, <1>5 DEF BookInv

LEMMA BookWorker ==
  ASSUME Orderly, TypeOK, SenderInv, BookInv, WorkerStep
  PROVE  BookInv'
<1>a. ASSUME worker.pc \in {"release", "ready", "failed"}
      PROVE  \E k \in Lead : /\ k = LeadOf(worker.job) /\ worker.job \in JobsOf(k)
                             /\ lead[k] \in Row /\ Sane(lead[k], k)
                             /\ worker.followUp \in BOOLEAN
                             /\ worker.followUp <=> lead[k].stepsSent > 0
                             /\ worker.pc = "failed" /\ Booked(lead[k]) =>
                                  lead[k].queuedJobId = worker.seen
  <2>1. PICK k \in Lead : k = LeadOf(worker.job) /\ worker.job \in JobsOf(k)
    BY <1>a, JobNames DEF TypeOK, WorkerOK
  <2>2. lead[k] \in Row /\ worker.followUp \in BOOLEAN /\ LeadInv(k)
    BY DEF TypeOK, DbOK, WorkerOK, WorkerState, BookInv
  <2>3. worker.followUp = (lead[k].stepsSent > 0)
    BY <1>a, <2>1, <2>2 DEF LeadInv, Worked
  <2>4. worker.pc = "failed" /\ Booked(lead[k]) => lead[k].queuedJobId = worker.seen
    BY <2>1, <2>2 DEF LeadInv, Worked
  <2> QED
    BY <2>1, <2>2, <2>3, <2>4 DEF LeadInv, RowSane
<1>1. CASE WorkerReleases
  <2>1. /\ worker.pc = "release" /\ WorkerWrites(releaseLead(lead[LeadOf(worker.job)], worker.followUp))
        /\ UNCHANGED <<tick, waiting, active, kept, flight, recon, faults, afterReply>>
    BY <1>1 DEF WorkerReleases, bullVars, history
  <2>2. PICK k \in Lead : /\ k = LeadOf(worker.job) /\ worker.job \in JobsOf(k)
                          /\ lead[k] \in Row /\ Sane(lead[k], k)
                          /\ worker.followUp \in BOOLEAN
                          /\ worker.followUp <=> lead[k].stepsSent > 0
    BY <1>a, <2>1
  <2> DEFINE row == releaseLead(lead[k], worker.followUp)
  <2>3. KeepsSender(row, lead[k]) /\ Sane(row, k) /\ ~Booked(row)
    BY <2>2, WritesKeepSender, JobEnds
  <2> HIDE DEF row
  <2> QED
    BY <2>1, <2>2, <2>3, BookEnds DEF row
<1>2. CASE WorkerStopsDeadAddress
  <2>1. /\ worker.pc = "ready" /\ WorkerWrites(stopDeadAddress(lead[LeadOf(worker.job)]))
        /\ UNCHANGED <<tick, waiting, active, kept, flight, recon, faults, afterReply>>
        /\ ~worker.followUp
    BY <1>2 DEF WorkerStopsDeadAddress, bullVars, history
  <2>2. PICK k \in Lead : /\ k = LeadOf(worker.job) /\ worker.job \in JobsOf(k)
                          /\ lead[k] \in Row /\ Sane(lead[k], k)
                          /\ worker.followUp \in BOOLEAN
                          /\ worker.followUp <=> lead[k].stepsSent > 0
    BY <1>a, <2>1
  <2> DEFINE row == stopDeadAddress(lead[k])
  <2>3. KeepsSender(row, lead[k]) /\ Sane(row, k) /\ ~Booked(row)
    BY <2>1, <2>2, WritesKeepSender, JobEnds
  <2> HIDE DEF row
  <2> QED
    BY <2>1, <2>2, <2>3, BookEnds DEF row
<1>3. CASE WorkerAsksAgainLater
  <2>1. /\ worker.pc = "ready" /\ WorkerWrites(askAgainLater(lead[LeadOf(worker.job)]))
        /\ UNCHANGED <<tick, waiting, active, kept, flight, recon, faults, afterReply>>
        /\ ~worker.followUp
    BY <1>3 DEF WorkerAsksAgainLater, bullVars, history
  <2>2. PICK k \in Lead : /\ k = LeadOf(worker.job) /\ worker.job \in JobsOf(k)
                          /\ lead[k] \in Row /\ Sane(lead[k], k)
                          /\ worker.followUp \in BOOLEAN
                          /\ worker.followUp <=> lead[k].stepsSent > 0
    BY <1>a, <2>1
  <2> DEFINE row == askAgainLater(lead[k])
  <2>3. KeepsSender(row, lead[k]) /\ Sane(row, k) /\ ~Booked(row)
    BY <2>1, <2>2, WritesKeepSender, JobEnds
  <2> HIDE DEF row
  <2> QED
    BY <2>1, <2>2, <2>3, BookEnds DEF row
<1>4. CASE WorkerWritesFailure
  <2>1. /\ worker.pc = "failed"
        /\ WorkerWrites(dispatchFailed(lead[LeadOf(worker.job)], worker.followUp, worker.seen))
        /\ UNCHANGED <<tick, waiting, active, kept, flight, recon, faults, afterReply>>
    BY <1>4 DEF WorkerWritesFailure, bullVars, history
  <2>2. PICK k \in Lead : /\ k = LeadOf(worker.job) /\ worker.job \in JobsOf(k)
                          /\ lead[k] \in Row /\ Sane(lead[k], k)
                          /\ worker.followUp \in BOOLEAN
                          /\ worker.followUp <=> lead[k].stepsSent > 0
                          /\ Booked(lead[k]) => lead[k].queuedJobId = worker.seen
    BY <1>a, <2>1
  <2> DEFINE row == dispatchFailed(lead[k], worker.followUp, worker.seen)
  <2>3. KeepsSender(row, lead[k]) /\ Sane(row, k) /\ ~Booked(row)
    BY <2>2, WritesKeepSender, JobEnds
  <2> HIDE DEF row
  <2> QED
    BY <2>1, <2>2, <2>3, BookEnds DEF row
<1>5. ~WorkerFetchRejects
  BY DEF WorkerFetchRejects, Fault, Orderly
<1> QED
  BY <1>1, <1>2, <1>3, <1>4, <1>5, BookTakeJob, BookDispatch, BookAnswered, BookFinishes
     DEF WorkerStep

-----------------------------------------------------------------------------
(* The execution.  What it writes ends the booking or leaves it as it is.   *)
Stops(r, row) ==
  \/ r = row
  \/ /\ r.status \notin {"UNTOUCHED", "QUEUED", "CONTACTED"}
     /\ r.stepsSent = row.stepsSent
     /\ r.queuedJobId \in {row.queuedJobId, NoJob}

LEMMA RowStops ==
  ASSUME NEW row \in Row
  PROVE  /\ Stops(suppressEmail(row), row) /\ Stops(suppressAtSend(row), row)
         /\ Stops(hardBounce(row), row)
         /\ Stops(replyArrives(row), row) /\ Stops(bounceReported(row), row)
<1> DEFINE u == Unqueued(row)
<1>1. /\ u \in Row /\ u.queuedJobId = NoJob /\ u.stepsSent = row.stepsSent
  BY UnqueuedIsRow DEF Unqueued, Row
<1> HIDE DEF u
<1>2. Stops(hardBounce(row), row)
  <2>1. hardBounce(row) = [u EXCEPT !.status = "BOUNCED", !.nextStepAt = "none"]
    BY DEF hardBounce, u
  <2> QED
    BY <1>1, <2>1 DEF Stops, Row
<1>3. Stops(bounceReported(row), row)
  <2>1. \/ bounceReported(row) = [u EXCEPT !.status = "BOUNCED", !.nextStepAt = "none",
                                           !.nextRetryAt = "none"]
        \/ bounceReported(row) = row
    BY DEF bounceReported, u
  <2> QED
    BY <1>1, <2>1 DEF Stops, Row
<1>4. Stops(suppressEmail(row), row) /\ Stops(suppressAtSend(row), row)
  BY DEF suppressEmail, suppressAtSend, Stops, Row
<1>5. Stops(replyArrives(row), row)
  BY DEF replyArrives, Stops, Row
<1> QED
  BY <1>2, <1>3, <1>4, <1>5

LEMMA StopsStaysSane ==
  ASSUME NEW k \in Lead, NEW row, NEW r, Stops(r, row), Sane(row, k), NotDue(row)
  PROVE  Sane(r, k) /\ NotDue(r) /\ (Booked(r) => Booked(row) /\ r.queuedJobId = row.queuedJobId)
BY DEF Stops, Sane, NotDue, Booked

LEMMA SendEnds ==
  ASSUME NEW k \in Lead, NEW row \in Row, Sane(row, k), NotDue(row), NEW retries \in Nat
  PROVE  /\ row.stepsSent > 0 =>
              Sane(endSequence(row), k) /\ NotDue(endSequence(row)) /\ ~Booked(endSequence(row))
         /\ LET r == softFailure(row, row.stepsSent, retries)
            IN  Sane(r, k) /\ NotDue(r) /\ ~Booked(r)
         /\ \A followUp \in BOOLEAN, m \in Mailbox :
              LET r == recordSent(row, row.stepsSent, followUp, m)
              IN  Sane(r, k) /\ NotDue(r) /\ ~Booked(r)
<1> DEFINE u == Unqueued(row)
<1>1. /\ u \in Row /\ u.queuedJobId = NoJob /\ u.status = row.status
      /\ u.stepsSent = row.stepsSent /\ row.stepsSent \in Nat
  BY UnqueuedIsRow DEF Unqueued, Row
<1> HIDE DEF u
<1>2. ASSUME row.stepsSent > 0
      PROVE  Sane(endSequence(row), k) /\ NotDue(endSequence(row)) /\ ~Booked(endSequence(row))
  <2>1. endSequence(row) = [u EXCEPT !.nextStepAt = "none"]
    BY DEF endSequence, u
  <2> QED
    BY <1>1, <1>2, <2>1 DEF Sane, NotDue, Booked, Row
<1>3. LET r == softFailure(row, row.stepsSent, retries)
      IN  Sane(r, k) /\ NotDue(r) /\ ~Booked(r)
  <2> DEFINE exhausted == retries + 1 >= MaxRetryAttempts
             c == Counted(row.retryCount)
             n == IF exhausted THEN 0 ELSE Counted(u.retryCount)
             d == IF exhausted THEN "none" ELSE "later"
             r == softFailure(row, row.stepsSent, retries)
  <2>1. d \in {"none", "later"}
    OBVIOUS
  <2>2. CASE row.stepsSent > 0
    <3>1. r = [u EXCEPT !.retryCount = n, !.nextStepAt = d]
      BY <2>2, Zenon DEF softFailure, u
    <3> HIDE DEF n, d, r
    <3>2. Sane(r, k) /\ NotDue(r) /\ ~Booked(r)
      BY <1>1, <2>1, <2>2, <3>1 DEF Sane, NotDue, Booked, Row
    <3> QED
      BY <3>2 DEF r
  <2>3. CASE ~(row.stepsSent > 0) /\ exhausted
    <3>1. r = [row EXCEPT !.status = "SUPPRESSED", !.retryCount = c, !.nextRetryAt = "none"]
      BY <2>3, Zenon DEF softFailure
    <3> HIDE DEF c, r
    <3>2. Sane(r, k) /\ NotDue(r) /\ ~Booked(r)
      BY <1>1, <2>3, <3>1 DEF Sane, NotDue, Booked, Row
    <3> QED
      BY <3>2 DEF r
  <2>4. CASE ~(row.stepsSent > 0) /\ ~exhausted
    <3> DEFINE cu == Counted(u.retryCount)
    <3>1. r = [u EXCEPT !.status = "QUEUED", !.retryCount = cu, !.nextRetryAt = "later"]
      BY <2>4, Zenon DEF softFailure, u
    <3> HIDE DEF cu, r
    <3>2. Sane(r, k) /\ NotDue(r) /\ ~Booked(r)
      BY <1>1, <2>4, <3>1 DEF Sane, NotDue, Booked, Row
    <3> QED
      BY <3>2 DEF r
  <2> QED
    BY <2>2, <2>3, <2>4
<1>4. ASSUME NEW followUp \in BOOLEAN, NEW m \in Mailbox
      PROVE  LET r == recordSent(row, row.stepsSent, followUp, m)
             IN  Sane(r, k) /\ NotDue(r) /\ ~Booked(r)
  <2> DEFINE r == recordSent(row, row.stepsSent, followUp, m)
  <2>1. /\ r.stepsSent = row.stepsSent + 1 /\ r.nextStepAt # "now"
        /\ r.status = "CONTACTED" /\ r.queuedJobId = NoJob
    BY <1>1, SentIsCounted
  <2> HIDE DEF r
  <2>2. Sane(r, k) /\ NotDue(r) /\ ~Booked(r)
    BY <1>1, <2>1 DEF Sane, NotDue, Booked
  <2> QED
    BY <2>2 DEF r
<1> QED
  BY <1>2, <1>3, <1>4


\* The mail that crosses the reply, or none.
Crosses(f, r, k) ==
  \/ afterReply'[k] = afterReply[k] /\ (r.pc \in Unsent => flight[f].pc \in Unsent)
  \/ /\ flight[f].pc \in Unsent /\ r.pc \notin Unsent
     /\ afterReply'[k] = afterReply[k] + 1 /\ k \in replied

LEMMA BookMoves ==
  ASSUME TypeOK, SenderInv, BookInv, NEW f \in Flight, flight[f].pc \notin {"idle", "ok", "failed"},
         NEW k \in Lead, NEW r, Moves(f, r, k), r.pc # "idle",
         UNCHANGED <<replied, marking, tick, worker, waiting, active, kept, recon, faults>>,
         \A l \in Lead : l # k => lead'[l] = lead[l] /\ afterReply'[l] = afterReply[l],
         Sane(lead'[k], k), NotDue(lead'[k]),
         Booked(lead'[k]) => Booked(lead[k]) /\ lead'[k].queuedJobId = lead[k].queuedJobId,
         lead[k].stepsSent > 0 => lead'[k].stepsSent > 0,
         r.pc = "ok" \/ lead'[k].stepsSent = lead[k].stepsSent,
         r.pc = "ok" => ~Booked(lead'[k]),
         r.pc \in {"refused", "record"} => r.stepsRead = lead'[k].stepsSent,
         Crosses(f, r, k)
  PROVE  BookInv'
<1>1. /\ worker.pc = "await" /\ flight[f].job = worker.job /\ worker.job \in JobsOf(k)
      /\ \A g \in Flight : g # f => flight[g].pc = "idle" /\ flight'[g] = flight[g]
      /\ flight'[f] = r /\ r.job = worker.job
  BY OneUnderWay DEF SenderInv, Moves, TypeOK, FlightsOK
<1>2. QueueInv'
  <2>1. \A g \in Flight : flight'[g].pc = "idle" => flight'[g].job = NoJob
    BY <1>1 DEF BookInv, QueueInv
  <2> QED
    BY <2>1 DEF BookInv, QueueInv
<1>3. ASSUME NEW l \in Lead, l # k PROVE LeadInv(l)'
  <2>1. worker.job \notin JobsOf(l)
    BY <1>1, <1>3 DEF JobsOf
  <2> QED
    BY <1>1, <1>3, <2>1, OthersWait DEF SameFor
<1>4. LeadInv(k)'
  <2>1. InHand(k) /\ InHand(k)'
    BY <1>1 DEF InHand
  <2>2. /\ LeadInv(k) /\ OnePlace(k)' /\ ReadRight(k)' /\ Waits(k)'
        /\ ~Reads1(k)' /\ ~Reads2(k)' /\ ~Marks1(k)' /\ ~Marks2(k)' /\ ~Adds(k)' /\ ~InQueue(k)'
    BY <2>1, OwnPlaces
  <2>3. RowSane(k)' /\ Handled(k)'
    BY <2>2 DEF LeadInv, RowSane, Handled
  <2>4. Named(k)'
    <3>1. ~AddsJob(worker.job) /\ ~InQueue(k)
      BY <1>1, <2>1, <2>2 DEF LeadInv, OnePlace, Adds
    <3>2. Booked(lead[k]) => lead[k].queuedJobId = worker.job
      <4>1. Booked(lead[k]) => lead[k].queuedJobId \in JobsOf(k)
        BY <2>2 DEF LeadInv, RowSane, Sane, Booked
      <4>2. \A j \in JobsOf(k) : ~AddsJob(j)
        BY <2>1, <2>2 DEF LeadInv, OnePlace, Adds
      <4> QED
        BY <2>2, <3>1, <4>1, <4>2 DEF LeadInv, Named, InQueue
    <3> QED
      BY <2>1, <3>2 DEF Named
  <2>5. Worked(k)'
    <3>1. worker.followUp = (lead[k].stepsSent > 0)
      BY <1>1, <2>2 DEF LeadInv, Worked
    <3>2. r.pc # "ok" => worker.followUp = (lead'[k].stepsSent > 0)
      BY <3>1
    <3> QED
      BY <1>1, <3>2 DEF Worked
  <2>6. CrossedOnce(k)'
    <3>1. /\ flight[f].pc \in Unsent <=> f \in ToSend(k)
          /\ ToSend(k)' = IF r.pc \in Unsent THEN {f} ELSE {}
      BY <1>1 DEF ToSend, Inflight, Unsent
    <3>2. afterReply[k] \in Nat
      BY DEF TypeOK, HistoryOK
    <3>3. CASE afterReply'[k] = afterReply[k] /\ (r.pc \in Unsent => flight[f].pc \in Unsent)
      BY <1>1, <2>2, <3>1, <3>3 DEF LeadInv, CrossedOnce
    <3>4. CASE /\ flight[f].pc \in Unsent /\ r.pc \notin Unsent
               /\ afterReply'[k] = afterReply[k] + 1 /\ k \in replied
      <4>1. afterReply[k] = 0
        BY <2>2, <3>1, <3>2, <3>4 DEF LeadInv, CrossedOnce
      <4> QED
        BY <1>1, <2>2, <3>1, <3>4, <4>1 DEF CrossedOnce
    <3> QED
      BY <3>3, <3>4 DEF Crosses
  <2> QED
    BY <2>2, <2>3, <2>4, <2>5, <2>6 DEF LeadInv
<1> QED
  BY <1>2, <1>3, <1>4 DEF BookInv

LEMMA BookFlight ==
  ASSUME Orderly, TypeOK, SenderInv, BookInv, NEW f \in Flight, FlightStep(f)
  PROVE  BookInv'
<1>0. ASSUME flight[f].pc # "idle"
      PROVE  \E k \in Lead :
               /\ k = FlightLead(f) /\ flight[f].job \in JobsOf(k) /\ flight[f] \in FlightState
               /\ lead[k] \in Row /\ Sane(lead[k], k) /\ NotDue(lead[k]) /\ afterReply[k] \in Nat
               /\ flight[f].pc \in {"refused", "record"} => flight[f].stepsRead = lead[k].stepsSent
               /\ MailboxOf(flight[f].job) \in Mailbox
  <2>1. PICK k \in Lead : /\ k = FlightLead(f) /\ flight[f].job \in JobsOf(k)
                          /\ flight[f] \in FlightState /\ lead[k] \in Row
                          /\ MailboxOf(flight[f].job) \in Mailbox
    BY <1>0, FlightLeads
  <2>2. worker.pc = "await" /\ worker.job \in JobsOf(k)
    BY <1>0, <2>1, OneUnderWay DEF SenderInv
  <2>3. LeadInv(k) /\ InHand(k)
    BY <2>2 DEF BookInv, InHand
  <2>4. Sane(lead[k], k) /\ NotDue(lead[k])
    BY <2>3 DEF LeadInv, RowSane, Handled
  <2>5. flight[f].pc \in {"refused", "record"} => flight[f].stepsRead = lead[k].stepsSent
    BY <2>2, <2>3 DEF LeadInv, Worked
  <2> QED
    BY <2>1, <2>4, <2>5 DEF TypeOK, HistoryOK
\* Only pc moves; the row ends, or stays.
<1>a. ASSUME NEW k \in Lead, k = FlightLead(f), flight[f].pc \notin {"idle", "ok", "failed"},
             NEW pc \in {"send", "failed", "ok"}, FlightTo(f, pc),
             pc = "send" => flight[f].pc = "compose",
             NEW row, \/ lead' = [lead EXCEPT ![k] = row]
                      \/ row = lead[k] /\ lead' = lead,
             Sane(row, k), NotDue(row), pc = "ok" => ~Booked(row),
             Booked(row) => Booked(lead[k]) /\ row.queuedJobId = lead[k].queuedJobId,
             lead[k].stepsSent > 0 => row.stepsSent > 0,
             pc = "ok" \/ row.stepsSent = lead[k].stepsSent,
             UNCHANGED <<replied, marking, tick, worker, waiting, active, kept, recon, faults,
                         afterReply>>
      PROVE  BookInv'
  <2>1. PICK r : Moves(f, r, k) /\ r.pc = pc
    BY <1>a, PcMove
  <2>2. lead'[k] = row /\ \A l \in Lead : l # k => lead'[l] = lead[l]
    BY <1>a DEF TypeOK, DbOK
  <2>3. Crosses(f, r, k)
    BY <1>a, <2>1 DEF Crosses, Unsent
  <2> QED
    BY <1>a, <2>1, <2>2, <2>3, BookMoves
\* The row stays, pc and what was read move.
<1>b. ASSUME NEW k \in Lead, flight[f].job \in JobsOf(k), lead[k] \in Row,
             flight[f].pc \in {"send", "smtp", "sent"}, NEW r \in FlightState,
             flight' = [flight EXCEPT ![f] = r], r.job = flight[f].job,
             r.awaited = flight[f].awaited,
             \/ r.pc = "smtp" /\ flight[f].pc = "send"
             \/ r.pc \in {"refused", "record"} /\ r.stepsRead = lead[k].stepsSent,
             Sane(lead[k], k), NotDue(lead[k]),
             UNCHANGED <<lead, replied, marking, tick, worker, waiting, active, kept, recon, faults,
                         afterReply>>
      PROVE  BookInv'
  <2>1. Moves(f, r, k)
    BY <1>b DEF Moves
  <2>2. Crosses(f, r, k)
    BY <1>b DEF Crosses, Unsent
  <2> QED
    BY <1>b, <2>1, <2>2, BookMoves
<1> USE DEF dbVars, bullVars, history
<1>1. CASE Compose(f)
  <2>1. flight[f].pc = "compose"
    BY <1>1 DEF Compose
  <2>2. PICK k \in Lead : /\ k = FlightLead(f) /\ flight[f].job \in JobsOf(k)
                          /\ lead[k] \in Row /\ Sane(lead[k], k) /\ NotDue(lead[k])
    BY <1>0, <2>1
  <2>3. CASE lead[k].stepsSent > FollowUps
    <3> DEFINE row == endSequence(lead[k])
    <3>1. lead[k].stepsSent > 0
      BY <2>2, <2>3, LeadRowAssumption DEF Row
    <3>2. Sane(row, k) /\ NotDue(row) /\ ~Booked(row) /\ KeepsSender(row, lead[k])
      BY <2>2, <3>1, SendEnds, WritesKeepSender
    <3>3. lead' = [lead EXCEPT ![k] = row] /\ FlightTo(f, "failed")
      BY <1>1, <2>2, <2>3 DEF Compose
    <3> HIDE DEF row
    <3>u. /\ flight[f].pc = "compose"
          /\ UNCHANGED <<replied, marking, tick, worker, waiting, active, kept, recon, faults,
                         afterReply>>
      BY <1>1 DEF Compose
    <3>s. row.stepsSent = lead[k].stepsSent
      BY <3>2 DEF KeepsSender
    <3> QED
      BY <1>a, <2>1, <2>2, <3>2, <3>3, <3>u, <3>s
  <2>4. CASE ~(lead[k].stepsSent > FollowUps)
    <3>1. lead' = lead /\ FlightTo(f, "send")
      BY <1>1, <2>2, <2>4 DEF Compose
    <3> QED
      BY <1>1, <1>a, <2>1, <2>2, <3>1 DEF Compose
  <2> QED
    BY <2>3, <2>4
<1>2. CASE SendRefused(f)
  <2>1. PICK k \in Lead : k = FlightLead(f) /\ Sane(lead[k], k) /\ NotDue(lead[k])
    BY <1>0, <1>2 DEF SendRefused
  <2> QED
    BY <1>2, <1>a, <2>1 DEF SendRefused
<1>3. CASE SendSuppressed(f)
  <2>1. PICK k \in Lead : /\ k = FlightLead(f)
                          /\ lead[k] \in Row /\ Sane(lead[k], k) /\ NotDue(lead[k])
    BY <1>0, <1>3 DEF SendSuppressed
  <2> DEFINE row == suppressAtSend(lead[k])
  <2>2. Stops(row, lead[k]) /\ KeepsSender(row, lead[k])
    BY <2>1, RowStops, WritesKeepSender
  <2>3. lead' = [lead EXCEPT ![k] = row]
    BY <1>3, <2>1 DEF SendSuppressed
  <2> HIDE DEF row
  <2>4. /\ Sane(row, k) /\ NotDue(row)
        /\ Booked(row) => Booked(lead[k]) /\ row.queuedJobId = lead[k].queuedJobId
    BY <2>1, <2>2, StopsStaysSane
  <2>u. /\ flight[f].pc = "send" /\ FlightTo(f, "failed")
        /\ UNCHANGED <<replied, marking, tick, worker, waiting, active, kept, recon, faults,
                       afterReply>>
    BY <1>3 DEF SendSuppressed
  <2>s. row.stepsSent = lead[k].stepsSent
    BY <2>2 DEF KeepsSender
  <2> QED
    BY <1>a, <2>1, <2>3, <2>4, <2>u, <2>s
<1>4. CASE SendCleared(f)
  <2>1. PICK k \in Lead : /\ k = FlightLead(f) /\ flight[f].job \in JobsOf(k)
                          /\ flight[f] \in FlightState
                          /\ lead[k] \in Row /\ Sane(lead[k], k) /\ NotDue(lead[k])
    BY <1>0, <1>4 DEF SendCleared
  <2> DEFINE q == lead[k].stepsSent > 0
             r == [flight[f] EXCEPT !.pc = "smtp", !.followUp = q]
  <2>2. flight' = [flight EXCEPT ![f] = r]
    BY <1>4, <2>1, Zenon DEF SendCleared
  <2>3. q \in BOOLEAN
    OBVIOUS
  <2> HIDE DEF q
  <2>4. r \in FlightState /\ r.pc = "smtp" /\ r.job = flight[f].job /\ r.awaited = flight[f].awaited
    BY <2>1, <2>3 DEF FlightState
  <2> HIDE DEF r
  <2>5. /\ flight[f].pc = "send"
        /\ UNCHANGED <<lead, replied, marking, tick, worker, waiting, active, kept, recon, faults,
                       afterReply>>
    BY <1>4 DEF SendCleared
  <2> QED
    BY <1>b, <2>1, <2>2, <2>4, <2>5
<1>5. CASE SmtpAccepts(f)
  <2>1. PICK k \in Lead : /\ k = FlightLead(f) /\ lead[k] \in Row /\ Sane(lead[k], k)
                          /\ NotDue(lead[k]) /\ afterReply[k] \in Nat
    BY <1>0, <1>5 DEF SmtpAccepts
  <2>2. PICK r : Moves(f, r, k) /\ r.pc = "sent"
    BY <1>5, <2>1, PcMove DEF SmtpAccepts
  <2>3. /\ afterReply'[k] = IF k \in replied THEN afterReply[k] + 1 ELSE afterReply[k]
        /\ \A l \in Lead : l # k => afterReply'[l] = afterReply[l]
    BY <1>5, <2>1 DEF SmtpAccepts, TypeOK, HistoryOK
  <2>4. flight[f].pc = "smtp"
    BY <1>5 DEF SmtpAccepts
  <2>5. Crosses(f, r, k)
    BY <2>2, <2>3, <2>4 DEF Crosses, Unsent
  <2> QED
    BY <1>5, <2>1, <2>2, <2>3, <2>4, <2>5, BookMoves DEF SmtpAccepts
<1>6. CASE SmtpRefuses(f)
  <2>1. PICK k \in Lead : /\ k = FlightLead(f) /\ flight[f].job \in JobsOf(k)
                          /\ flight[f] \in FlightState
                          /\ lead[k] \in Row /\ Sane(lead[k], k) /\ NotDue(lead[k])
    BY <1>0, <1>6 DEF SmtpRefuses
  <2>2. CASE lead' = [lead EXCEPT ![FlightLead(f)] = hardBounce(@)] /\ FlightTo(f, "failed")
    <3> DEFINE row == hardBounce(lead[k])
    <3>1. Stops(row, lead[k]) /\ KeepsSender(row, lead[k])
      BY <2>1, RowStops, WritesKeepSender
    <3>2. lead' = [lead EXCEPT ![k] = row]
      BY <2>1, <2>2
    <3> HIDE DEF row
    <3>3. /\ Sane(row, k) /\ NotDue(row)
          /\ Booked(row) => Booked(lead[k]) /\ row.queuedJobId = lead[k].queuedJobId
      BY <2>1, <3>1, StopsStaysSane
    <3>u. /\ flight[f].pc = "smtp" /\ FlightTo(f, "failed")
          /\ UNCHANGED <<replied, marking, tick, worker, waiting, active, kept, recon, faults,
                         afterReply>>
      BY <1>6, <2>2 DEF SmtpRefuses
    <3>s. row.stepsSent = lead[k].stepsSent
      BY <3>1 DEF KeepsSender
    <3> QED
      BY <1>a, <2>1, <3>2, <3>3, <3>u, <3>s
  <2>3. CASE UNCHANGED lead /\ ReadFailed(f)
    <3> DEFINE r == [flight[f] EXCEPT !.pc = "refused", !.stepsRead = lead[k].stepsSent,
                                      !.retriesRead = lead[k].retryCount]
    <3>1. /\ r \in FlightState /\ r.pc = "refused" /\ r.job = flight[f].job
          /\ r.awaited = flight[f].awaited /\ r.stepsRead = lead[k].stepsSent
          /\ flight' = [flight EXCEPT ![f] = r]
      BY <2>1, <2>3 DEF ReadFailed, FlightState, Row
    <3> HIDE DEF r
    <3> QED
      BY <1>6, <1>b, <2>1, <2>3, <3>1 DEF SmtpRefuses
  <2> QED
    BY <1>6, <2>2, <2>3 DEF SmtpRefuses
<1>7. CASE RecordFailure(f)
  <2>1. PICK k \in Lead : /\ k = FlightLead(f) /\ flight[f] \in FlightState
                          /\ lead[k] \in Row /\ Sane(lead[k], k) /\ NotDue(lead[k])
                          /\ flight[f].stepsRead = lead[k].stepsSent
    BY <1>0, <1>7 DEF RecordFailure
  <2> DEFINE row == softFailure(lead[k], lead[k].stepsSent, flight[f].retriesRead)
  <2>2. flight[f].retriesRead \in Nat
    BY <2>1 DEF FlightState
  <2>3. Sane(row, k) /\ NotDue(row) /\ ~Booked(row)
    BY <2>1, <2>2, SendEnds
  <2>4. KeepsSender(row, lead[k])
    BY <2>1, WritesKeepSender
  <2>5. lead' = [lead EXCEPT ![k] = row]
    BY <1>7, <2>1 DEF RecordFailure
  <2> HIDE DEF row
  <2>u. /\ flight[f].pc = "refused" /\ FlightTo(f, "failed")
        /\ UNCHANGED <<replied, marking, tick, worker, waiting, active, kept, recon, faults,
                       afterReply>>
    BY <1>7 DEF RecordFailure
  <2>s. row.stepsSent = lead[k].stepsSent
    BY <2>4 DEF KeepsSender
  <2> QED
    BY <1>a, <2>1, <2>3, <2>5, <2>u, <2>s
<1>8. CASE RecordRead(f)
  <2>1. PICK k \in Lead : /\ k = FlightLead(f) /\ flight[f].job \in JobsOf(k)
                          /\ flight[f] \in FlightState
                          /\ lead[k] \in Row /\ Sane(lead[k], k) /\ NotDue(lead[k])
    BY <1>0, <1>8 DEF RecordRead
  <2> DEFINE r == [flight[f] EXCEPT !.pc = "record", !.stepsRead = lead[k].stepsSent]
  <2>2. /\ r \in FlightState /\ r.pc = "record" /\ r.job = flight[f].job
        /\ r.awaited = flight[f].awaited /\ r.stepsRead = lead[k].stepsSent
        /\ flight' = [flight EXCEPT ![f] = r]
    BY <1>8, <2>1 DEF RecordRead, FlightState, Row
  <2> HIDE DEF r
  <2> QED
    BY <1>8, <1>b, <2>1, <2>2 DEF RecordRead
<1>9. CASE RecordWrite(f)
  <2>1. PICK k \in Lead : /\ k = FlightLead(f) /\ flight[f] \in FlightState
                          /\ lead[k] \in Row /\ Sane(lead[k], k) /\ NotDue(lead[k])
                          /\ flight[f].stepsRead = lead[k].stepsSent
                          /\ MailboxOf(flight[f].job) \in Mailbox
    BY <1>0, <1>9 DEF RecordWrite
  <2> DEFINE row == recordSent(lead[k], lead[k].stepsSent, flight[f].followUp,
                               MailboxOf(flight[f].job))
  <2>2. flight[f].followUp \in BOOLEAN /\ lead[k].stepsSent \in Nat
    BY <2>1 DEF FlightState, Row
  <2>3. Sane(row, k) /\ NotDue(row) /\ ~Booked(row)
    BY <2>1, <2>2, SendEnds
  <2>4. row.stepsSent = lead[k].stepsSent + 1
    BY <2>1, <2>2, SentIsCounted
  <2>5. lead' = [lead EXCEPT ![k] = row]
    BY <1>9, <2>1 DEF RecordWrite
  <2> HIDE DEF row
  <2>6. row.stepsSent > 0
    BY <2>2, <2>4
  <2>u. /\ flight[f].pc = "record" /\ FlightTo(f, "ok")
        /\ UNCHANGED <<replied, marking, tick, worker, waiting, active, kept, recon, faults,
                       afterReply>>
    BY <1>9 DEF RecordWrite
  <2> QED
    BY <1>a, <2>1, <2>3, <2>5, <2>6, <2>u
<1>10. CASE RecordFails(f) \/ RecordLost(f) \/ ApiDies(f)
  BY <1>10 DEF RecordFails, RecordLost, ApiDies, Fault, Orderly
<1>11. CASE FlightEnds(f)
  BY <1>11 DEF FlightEnds, SenderInv, AllHeard
<1> QED
  BY <1>1, <1>2, <1>3, <1>4, <1>5, <1>6, <1>7, <1>8, <1>9, <1>10, <1>11 DEF FlightStep


-----------------------------------------------------------------------------
(* Everything else.  Nothing here moves a lead; a reply, a bounce and an     *)
(* opt-out end it.                                                          *)
LEMMA LeadStops ==
  ASSUME NEW l \in Lead, LeadInv(l), UNCHANGED <<tick, worker, flight, waiting, afterReply>>,
         Stops(lead'[l], lead[l]), l \in replied => l \in replied',
         l \in replied' => lead'[l].stepsSent > 0, l \in marking' => l \in replied'
  PROVE  LeadInv(l)'
<1>1. /\ OnePlace(l)' <=> OnePlace(l)
      /\ ToSend(l)' = ToSend(l)
  BY DEF OnePlace, Reads1, Reads2, Marks1, Marks2, Adds, AddsJob, InQueue, InHand, HasTodo,
         ToSend, Inflight
<1>2. /\ Reads1(l)' <=> Reads1(l)
      /\ Reads2(l)' <=> Reads2(l)
      /\ Marks1(l)' <=> Marks1(l)
      /\ Marks2(l)' <=> Marks2(l)
      /\ Adds(l)' <=> Adds(l)
      /\ InQueue(l)' <=> InQueue(l)
      /\ InHand(l)' <=> InHand(l)
      /\ \A j : AddsJob(j)' <=> AddsJob(j)
  BY DEF Reads1, Reads2, Marks1, Marks2, Adds, AddsJob, InQueue, InHand, HasTodo
<1>3. CASE lead'[l] = lead[l]
  <2>1. RowSane(l)' /\ ReadRight(l)' /\ Waits(l)' /\ Handled(l)'
    BY <1>2, <1>3 DEF LeadInv, RowSane, ReadRight, Waits, Handled
  <2>2. Named(l)' /\ Worked(l)' /\ CrossedOnce(l)'
    BY <1>1, <1>2, <1>3 DEF LeadInv, Named, Worked, CrossedOnce
  <2> QED
    BY <1>1, <2>1, <2>2 DEF LeadInv
<1>4. CASE /\ lead'[l].status \notin {"UNTOUCHED", "QUEUED", "CONTACTED"}
           /\ lead'[l].stepsSent = lead[l].stepsSent
           /\ lead'[l].queuedJobId \in {lead[l].queuedJobId, NoJob}
  <2>1. RowSane(l)' /\ ReadRight(l)' /\ Waits(l)' /\ Handled(l)'
    BY <1>2, <1>4 DEF LeadInv, RowSane, Sane, ReadRight, Waits, Handled, NotDue
  <2>2. Named(l)'
    BY <1>4 DEF Named, Booked
  <2>3. Worked(l)' /\ CrossedOnce(l)'
    BY <1>1, <1>2, <1>4 DEF LeadInv, Worked, Booked, CrossedOnce
  <2> QED
    BY <1>1, <2>1, <2>2, <2>3 DEF LeadInv
<1> QED
  BY <1>3, <1>4 DEF Stops

LEMMA BookStops ==
  ASSUME BookInv, UNCHANGED <<tick, worker, flight, waiting, active, recon, faults, afterReply>>,
         kept' \subseteq kept, \A l \in Lead : Stops(lead'[l], lead[l]), replied \subseteq replied',
         \A l \in replied' : lead'[l].stepsSent > 0, marking' \subseteq replied'
  PROVE  BookInv'
<1>1. QueueInv'
  BY DEF BookInv, QueueInv
<1>2. ASSUME NEW l \in Lead PROVE LeadInv(l)'
  BY LeadStops DEF BookInv
<1> QED
  BY <1>1, <1>2 DEF BookInv

\* Only dates move.
LEMMA BookTime ==
  ASSUME Orderly, TypeOK, BookInv, TimeStep
  PROVE  BookInv'
<1>1. CASE \E j \in JobId : SlotComes(j)
  <2>1. UNCHANGED <<lead, replied, marking, tick, worker, flight, waiting, active, kept, recon,
                    faults, afterReply>>
    BY <1>1 DEF SlotComes, dbVars, bullVars, history
  <2>2. /\ \A l \in Lead : Stops(lead'[l], lead[l])
        /\ \A l \in replied : lead[l].stepsSent > 0
        /\ marking \subseteq replied
    BY <2>1 DEF Stops, BookInv, LeadInv, RowSane, TypeOK, DbOK
  <2> QED
    BY <2>1, <2>2, BookStops
<1>2. CASE \E l \in Lead : SlotOverdue(l) \/ DateComes(l)
  <2>1. PICK k \in Lead : SlotOverdue(k) \/ DateComes(k)
    BY <1>2
  <2>2. /\ UNCHANGED <<replied, marking, tick, worker, flight, waiting, active, kept, recon,
                       faults, afterReply>>
        /\ \A l \in Lead : l # k => lead'[l] = lead[l]
    BY <2>1 DEF SlotOverdue, DateComes, bullVars, history, TypeOK, DbOK
  <2>3. QueueInv'
    BY <2>2 DEF BookInv, QueueInv
  <2>4. \A l \in Lead : /\ PlacesSame(l) /\ HandSame(l)
                        /\ Reads1(l)' <=> Reads1(l)
                        /\ Reads2(l)' <=> Reads2(l)
                        /\ InHand(l)' <=> InHand(l)
                        /\ InQueue(l)' <=> InQueue(l)
                        /\ Adds(l)' <=> Adds(l)
                        /\ \A j : AddsJob(j)' <=> AddsJob(j)
                        /\ ToSend(l)' = ToSend(l)
    BY <2>2 DEF PlacesSame, HandSame, Reads1, Reads2, Marks1, Marks2, Adds, AddsJob, InQueue,
         InHand, HasTodo, ToSend, Inflight
  <2>5. ASSUME NEW l \in Lead, l # k PROVE LeadInv(l)'
    BY <2>2, <2>4, <2>5, LeadStays DEF BookInv
  <2>6. lead[k] \in Row /\ LeadInv(k)
    BY DEF TypeOK, DbOK, BookInv
  <2>7. ASSUME SlotOverdue(k) PROVE LeadInv(k)'
    <3>1. /\ lead'[k] = [lead[k] EXCEPT !.slotOverdue = TRUE]
          /\ \A t \in Tick : tick[t].job # lead[k].queuedJobId
      BY <2>7 DEF SlotOverdue, Orderly, TypeOK, DbOK
    <3>2. /\ lead'[k].status = lead[k].status
          /\ lead'[k].stepsSent = lead[k].stepsSent /\ lead'[k].queuedJobId = lead[k].queuedJobId
          /\ lead'[k].nextStepAt = lead[k].nextStepAt /\ lead'[k].nextRetryAt = lead[k].nextRetryAt
      BY <2>6, <3>1 DEF Row
    <3>3. OnePlace(k)' /\ RowSane(k)' /\ ReadRight(k)' /\ Waits(k)' /\ Handled(k)'
      BY <2>2, <2>4, <2>6, <3>2 DEF LeadInv, OnePlace, RowSane, Sane, ReadRight, Waits, Handled,
         NotDue, PlacesSame
    <3>4. Named(k)'
      BY <2>2, <2>4, <2>6, <3>1, <3>2 DEF LeadInv, Named, Booked, AddsJob
    <3>5. Worked(k)' /\ CrossedOnce(k)'
      BY <2>2, <2>4, <2>6, <3>2 DEF LeadInv, Worked, Booked, CrossedOnce, PlacesSame
    <3> QED
      BY <3>3, <3>4, <3>5 DEF LeadInv
  <2>8. ASSUME DateComes(k) PROVE LeadInv(k)'
    <3>1. /\ \/ /\ lead[k].nextStepAt = "later"
                /\ lead'[k] = [lead[k] EXCEPT !.nextStepAt = "now"]
             \/ /\ lead[k].nextRetryAt = "later"
                /\ lead'[k] = [lead[k] EXCEPT !.nextRetryAt = "now"]
          /\ worker.job \notin JobsOf(k)
          /\ \A t \in Tick : tick[t].pc = "idle"
      BY <2>8 DEF DateComes, Prompt, Orderly, TypeOK, DbOK
    <3>2. /\ lead'[k].status = lead[k].status
          /\ lead'[k].stepsSent = lead[k].stepsSent /\ lead'[k].queuedJobId = lead[k].queuedJobId
          /\ lead'[k].slotOverdue = lead[k].slotOverdue
          /\ lead'[k].nextStepAt \in {lead[k].nextStepAt, "now"}
          /\ \/ lead'[k].nextRetryAt = lead[k].nextRetryAt
             \/ lead'[k].nextRetryAt = "now" /\ lead[k].nextRetryAt = "later"
      BY <2>6, <3>1 DEF Row
    <3>3. ~InHand(k) /\ ~Adds(k)
      BY <3>1 DEF InHand, Adds, AddsJob
    <3>4. OnePlace(k)' /\ RowSane(k)' /\ ReadRight(k)' /\ Waits(k)' /\ Handled(k)'
      <4>1. OnePlace(k)'
        BY <2>2, <2>4, <2>6, <3>2 DEF LeadInv, OnePlace, PlacesSame
      <4>2. RowSane(k)'
        BY <2>2, <2>6, <3>2 DEF LeadInv, RowSane, Sane
      <4>3. ReadRight(k)'
        BY <2>4, <2>6, <3>2 DEF LeadInv, ReadRight, PlacesSame
      <4>4. Waits(k)' /\ Handled(k)'
        BY <2>4, <2>6, <3>2, <3>3 DEF LeadInv, Waits, Handled
      <4> QED
        BY <4>1, <4>2, <4>3, <4>4
    <3>5. Named(k)'
      BY <2>2, <2>4, <2>6, <3>2 DEF LeadInv, Named, Booked
    <3>6. Worked(k)' /\ CrossedOnce(k)'
      BY <2>2, <2>4, <2>6, <3>1, <3>2 DEF LeadInv, Worked, CrossedOnce, PlacesSame
    <3> QED
      BY <3>4, <3>5, <3>6 DEF LeadInv
  <2> QED
    BY <2>1, <2>3, <2>5, <2>7, <2>8 DEF BookInv
<1> QED
  BY <1>1, <1>2 DEF TimeStep

LEMMA BookEnv ==
  ASSUME Orderly, TypeOK, BookInv, EnvStep
  PROVE  BookInv'
<1>r. \A l \in Lead : lead[l] \in Row
  BY DEF TypeOK, DbOK
<1>0. /\ \A l \in replied : lead[l].stepsSent > 0 /\ l \in Lead
      /\ marking \subseteq replied /\ marking \subseteq Lead
  BY DEF BookInv, LeadInv, RowSane, TypeOK, DbOK
<1>s. ASSUME NEW l \in Lead
      PROVE  /\ Stops(lead[l], lead[l])
             /\ Stops(suppressEmail(lead[l]), lead[l]) /\ Stops(replyArrives(lead[l]), lead[l])
             /\ Stops(bounceReported(lead[l]), lead[l])
             /\ suppressEmail(lead[l]).stepsSent = lead[l].stepsSent
             /\ replyArrives(lead[l]).stepsSent = lead[l].stepsSent
             /\ bounceReported(lead[l]).stepsSent = lead[l].stepsSent
  <2>1. lead[l] \in Row
    BY <1>r
  <2>2. /\ KeepsSender(suppressEmail(lead[l]), lead[l]) /\ KeepsSender(replyArrives(lead[l]), lead[l])
        /\ KeepsSender(bounceReported(lead[l]), lead[l])
    BY <2>1, WritesKeepSender
  <2> QED
    BY <2>1, <2>2, RowStops DEF KeepsSender, Stops
<1>1. CASE CampaignOpens \/ (\E m \in Mailbox : MailboxToggles(m)) \/ (\E e \in Email : Unblock(e))
  <2>1. UNCHANGED <<lead, replied, marking, tick, worker, flight, waiting, active, kept, recon,
                    faults, afterReply>>
    BY <1>1 DEF CampaignOpens, MailboxToggles, Unblock, dbVars, bullVars, history
  <2> QED
    BY <1>0, <1>s, <2>1, BookStops
<1>2. CASE \E e \in Email : OptOut(e)
  <2>1. UNCHANGED <<replied, marking, tick, worker, flight, waiting, active, kept, recon,
                    faults, afterReply>>
    BY <1>2 DEF OptOut, bullVars
  <2>2. \A l \in Lead : lead'[l] \in {lead[l], suppressEmail(lead[l])}
    BY <1>2 DEF OptOut
  <2>3. \A l \in Lead : Stops(lead'[l], lead[l]) /\ lead'[l].stepsSent = lead[l].stepsSent
    BY <1>s, <2>2
  <2> QED
    BY <1>0, <2>1, <2>3, BookStops
<1>3. CASE \E l \in Lead : ReplyStored(l)
  <2>1. PICK k \in Lead : ReplyStored(k)
    BY <1>3
  <2>2. /\ UNCHANGED <<lead, tick, worker, flight, waiting, active, kept, recon, faults, afterReply>>
        /\ replied' = replied \union {k} /\ marking' = marking \union {k}
        /\ lead[k].stepsSent > 0
    BY <2>1 DEF ReplyStored, bullVars, history
  <2> QED
    BY <1>0, <1>s, <2>2, BookStops
<1>4. CASE \E l \in Lead : ReplyMarks(l)
  <2>1. PICK k \in Lead : ReplyMarks(k)
    BY <1>4
  <2>2. /\ UNCHANGED <<replied, tick, worker, flight, waiting, active, kept, recon, faults,
                       afterReply>>
        /\ marking' = marking \ {k}
    BY <2>1 DEF ReplyMarks, bullVars, history
  <2>3. \A l \in Lead : lead'[l] \in {lead[l], replyArrives(lead[l])}
    BY <2>1 DEF ReplyMarks, TypeOK, DbOK
  <2>4. \A l \in Lead : Stops(lead'[l], lead[l]) /\ lead'[l].stepsSent = lead[l].stepsSent
    BY <1>s, <2>3
  <2> QED
    BY <1>0, <2>2, <2>4, BookStops
<1>5. CASE \E l \in Lead : BounceReport(l)
  <2>1. PICK k \in Lead : BounceReport(k)
    BY <1>5
  <2>2. /\ UNCHANGED <<marking, tick, worker, flight, waiting, active, kept, recon, faults,
                       afterReply>>
        /\ replied' = replied \union {k} /\ lead[k].stepsSent > 0
    BY <2>1 DEF BounceReport, bullVars, history
  <2>3. \A l \in Lead : lead'[l] \in {lead[l], bounceReported(lead[l])}
    BY <2>1 DEF BounceReport, TypeOK, DbOK
  <2>4. \A l \in Lead : Stops(lead'[l], lead[l]) /\ lead'[l].stepsSent = lead[l].stepsSent
    BY <1>s, <2>3
  <2> QED
    BY <1>0, <2>2, <2>4, BookStops
<1>6. ASSUME NEW l \in Lead PROVE ~ReplyMarkLost(l)
  BY DEF ReplyMarkLost, Fault, Orderly
<1> QED
  BY <1>1, <1>2, <1>3, <1>4, <1>5, <1>6 DEF EnvStep

\* Reconciliation finds nothing, no job stalls, nobody dies.
LEMMA BookIdle ==
  ASSUME Orderly, TypeOK, BookInv, ReconStep \/ QueueStep \/ Crash
  PROVE  BookInv'
<1>1. ~Crash
  BY DEF Crash, Fault, Orderly
<1>2. ~ReconAdd /\ ~ReconMark
  BY DEF ReconAdd, ReconMark, BookInv, QueueInv
<1>3. ASSUME NEW l \in Lead PROVE ~ReconFind(l)
  <2>1. SUFFICES ASSUME ReconFind(l) PROVE FALSE
    OBVIOUS
  <2> DEFINE j == lead[l].queuedJobId
  <2>2. Booked(lead[l]) /\ lead[l].slotOverdue /\ ~InRedis(j)
    BY <2>1 DEF ReconFind, Overdue, Booked
  <2>3. j \in JobId
    BY <2>2 DEF Booked, TypeOK, DbOK, Row
  <2>4. j \notin waiting /\ j \notin active
    BY <2>2 DEF InRedis
  <2>5. InHand(l) /\ j = worker.job
    BY <2>2, <2>4 DEF BookInv, LeadInv, Named
  <2> QED
    BY <2>3, <2>4, <2>5 DEF BookInv, QueueInv, InHand
<1>4. ASSUME NEW j \in JobId PROVE ~RecoverStalled(j)
  BY DEF RecoverStalled, BookInv, QueueInv
<1>5. CASE \E j \in JobId : Prune(j)
  <2>1. /\ UNCHANGED <<lead, replied, marking, tick, worker, flight, waiting, active, recon,
                       faults, afterReply>>
        /\ kept' \subseteq kept
    BY <1>5 DEF Prune, dbVars, history
  <2>2. /\ \A l \in Lead : Stops(lead'[l], lead[l])
        /\ \A l \in replied : lead[l].stepsSent > 0
        /\ marking \subseteq replied
    BY <2>1 DEF Stops, BookInv, LeadInv, RowSane, TypeOK, DbOK
  <2> QED
    BY <2>1, <2>2, BookStops
<1> QED
  BY <1>1, <1>2, <1>3, <1>4, <1>5 DEF ReconStep, QueueStep

LEMMA NextBook ==
  ASSUME Orderly, TypeOK, SenderInv, BookInv, [Next]_vars
  PROVE  BookInv'
<1>1. CASE UNCHANGED vars
  <2>1. UNCHANGED <<lead, replied, marking, tick, worker, flight, waiting, active, kept, recon,
                    faults, afterReply>>
    BY <1>1 DEF vars, dbVars, bullVars, history
  <2>2. /\ \A l \in Lead : Stops(lead'[l], lead[l])
        /\ \A l \in replied : lead[l].stepsSent > 0
        /\ marking \subseteq replied
    BY <2>1 DEF Stops, BookInv, LeadInv, RowSane, TypeOK, DbOK
  <2> QED
    BY <2>1, <2>2, BookStops
<1> QED
  BY <1>1, BookTicks, BookWorker, BookFlight, BookIdle, BookTime, BookEnv DEF Next

LEMMA InitBook ==
  ASSUME Init
  PROVE  BookInv
<1>1. QueueInv
  BY DEF Init, QueueInv, IdleTick, IdleWorker, IdleRecon, IdleFlight
<1>2. ASSUME NEW l \in Lead PROVE LeadInv(l)
  <2>1. /\ ~Reads1(l) /\ ~Reads2(l) /\ ~Marks1(l) /\ ~Marks2(l) /\ ~Adds(l) /\ ~InQueue(l)
        /\ ~InHand(l)
    BY DEF Init, Reads1, Reads2, Marks1, Marks2, Adds, AddsJob, InQueue, InHand, IdleTick, IdleWorker
  <2>2. lead[l] = NewLead /\ l \notin replied /\ l \notin marking /\ afterReply[l] = 0
        /\ worker.job = NoJob /\ NoJob \notin JobsOf(l)
    BY LeadRowAssumption DEF Init, IdleWorker, JobsOf
  <2>3. OnePlace(l) /\ ReadRight(l) /\ Waits(l) /\ Handled(l)
    BY <2>1, <2>2 DEF OnePlace, ReadRight, Waits, Handled, InQueue, Init
  <2>4. RowSane(l) /\ Named(l) /\ Worked(l) /\ CrossedOnce(l)
    BY <2>2 DEF RowSane, Sane, Named, Booked, Worked, CrossedOnce, NewLead
  <2> QED
    BY <2>3, <2>4 DEF LeadInv
<1> QED
  BY <1>1, <1>2 DEF BookInv

LEMMA OrderlySends ==
  ASSUME Orderly
  PROVE  SendsDoNotFail
BY DEF Orderly, SendsDoNotFail

LEMMA BookingsHold ==
  ASSUME Orderly
  PROVE  Spec => [](TypeOK /\ SenderInv /\ BookInv)
<1>1. Init => SenderInv /\ BookInv
  BY InitSender, InitBook
<1>2. TypeOK /\ (SenderInv /\ BookInv) /\ [Next]_vars => (SenderInv /\ BookInv)'
  BY OrderlySends, NextSender, NextBook
<1> QED
  BY <1>1, <1>2, DispatchTypes, PTL DEF Spec

(* processor.ts: a lead whose dispatch failed goes back to the enqueuer       *)
(* instead of sitting "invisibly stalled".  While no process dies and no tick *)
(* outlasts its slots, a QUEUED lead always has a retry date or a job that    *)
(* BullMQ still means to run: no failed workflow, refused mail, opt-out,      *)
(* reply or paused mailbox leaves it with the record of a job already over.   *)
THEOREM NobodyIsStranded ==
  ASSUME Orderly
  PROVE  Spec => []NoLeadStranded
<1>1. TypeOK /\ SenderInv /\ BookInv => NoLeadStranded
  <2> SUFFICES ASSUME TypeOK, BookInv, NEW l \in Lead, lead[l].status = "QUEUED"
               PROVE  IF lead[l].queuedJobId = NoJob
                      THEN lead[l].nextRetryAt # "none"
                      ELSE lead[l].queuedJobId \in kept => worker.job = lead[l].queuedJobId
    BY DEF NoLeadStranded, Reachable
  <2>1. CASE lead[l].queuedJobId = NoJob
    BY <2>1 DEF BookInv, LeadInv, RowSane, Sane
  <2>2. CASE lead[l].queuedJobId # NoJob
    <3>1. Booked(lead[l])
      BY <2>2 DEF Booked
    <3>2. AddsJob(lead[l].queuedJobId) => lead[l].queuedJobId \notin kept
      BY DEF AddsJob, BookInv, QueueInv
    <3>3. lead[l].queuedJobId \in waiting => lead[l].queuedJobId \notin kept
      BY DEF BookInv, QueueInv
    <3> QED
      BY <2>2, <3>1, <3>2, <3>3 DEF BookInv, LeadInv, Named
  <2> QED
    BY <2>1, <2>2
<1> QED
  BY <1>1, BookingsHold, PTL

(* replyOutcome.ts: a reply stops the sequence the moment it arrives.  While  *)
(* no process dies and no tick outlasts its slots, at most one mail leaves    *)
(* after a reply was stored, whatever was read, booked or under way by then.  *)
THEOREM ReplyIsCrossedOnce ==
  ASSUME Orderly
  PROVE  Spec => []ReplyCrossedOnce
<1>1. TypeOK /\ SenderInv /\ BookInv => ReplyCrossedOnce
  <2> SUFFICES ASSUME TypeOK, BookInv, NEW l \in Lead
               PROVE  afterReply[l] <= 1 + faults
    BY DEF ReplyCrossedOnce
  <2>1. afterReply[l] \in Nat /\ faults = 0 /\ CrossedOnce(l)
    BY DEF TypeOK, HistoryOK, BookInv, QueueInv, LeadInv
  <2> QED
    BY <2>1 DEF CrossedOnce
<1> QED
  BY <1>1, BookingsHold, PTL


-----------------------------------------------------------------------------
(* Dispatch implements Thread.  A mail that leaves is the abstract mail; one *)
(* refused past the look at the list is the mail given up; opt-outs and      *)
(* replies map to themselves; every other step stutters.                     *)
OnWay == {l \in Lead : EmailOf[l] \in listed /\ Past(l) # {}}
Crossed == {l \in Lead : afterReply[l] > 0}

PromiseVars == <<mailed, from, listed, OnWay, replied, Crossed>>

LEMMA PromiseNames ==
  /\ Promise!vars = PromiseVars
  /\ (Promise!vars)' = PromiseVars'
BY DEF Promise!vars, PromiseVars, OnWay, Crossed, Past

LEMMA PastSame ==
  ASSUME TypeOK, NEW f \in Flight, NEW r, flight' = [flight EXCEPT ![f] = r],
         flight[f].pc # "smtp", r.pc # "smtp"
  PROVE  \A l \in Lead : Past(l)' = Past(l)
<1>1. flight'[f] = r /\ \A g \in Flight : g # f => flight'[g] = flight[g]
  BY DEF TypeOK, FlightsOK
<1> QED
  BY <1>1 DEF Past, Inflight

LEMMA Stutters ==
  ASSUME UNCHANGED <<mailed, from, listed, replied, afterReply>>,
         \A l \in Lead : EmailOf[l] \in listed => Past(l)' = Past(l)
  PROVE  UNCHANGED PromiseVars
<1>1. OnWay' = OnWay
  BY DEF OnWay
<1>2. Crossed' = Crossed
  BY DEF Crossed
<1> QED
  BY <1>1, <1>2 DEF PromiseVars

LEMMA FlightKeepsPromise ==
  ASSUME Orderly, TypeOK, SenderInv, BookInv, MailsBounded', NEW f \in Flight, FlightStep(f)
  PROVE  Promise!Next \/ UNCHANGED PromiseVars
<1> USE DEF dbVars, history
<1>a. ASSUME flight[f].pc \notin {"idle", "smtp"}, UNCHANGED <<history, listed, replied>>,
             NEW pc \in {"send", "record", "refused", "ok", "failed"}, FlightTo(f, pc)
      PROVE  UNCHANGED PromiseVars
  <2>1. PICK r : Moves(f, r, FlightLead(f)) /\ r.pc = pc
    BY <1>a, PcMove
  <2>2. \A l \in Lead : Past(l)' = Past(l)
    BY <1>a, <2>1, PastSame DEF Moves
  <2> QED
    BY <1>a, <2>2, Stutters
<1>1. CASE Compose(f) \/ SendRefused(f) \/ SendSuppressed(f) \/ RecordFailure(f) \/ RecordWrite(f)
  BY <1>1, <1>a DEF Compose, SendRefused, SendSuppressed, RecordFailure, RecordWrite
<1>2. CASE RecordRead(f)
  <2>1. /\ flight[f].pc = "sent" /\ UNCHANGED <<mailed, from, listed, replied, afterReply>>
        /\ flight' = [flight EXCEPT ![f].pc = "record",
                                    ![f].stepsRead = lead[FlightLead(f)].stepsSent]
    BY <1>2 DEF RecordRead
  <2>2. /\ flight'[f].pc = "record" /\ \A g \in Flight : g # f => flight'[g] = flight[g]
    BY <2>1 DEF TypeOK, FlightsOK, FlightState
  <2>3. \A l \in Lead : Past(l)' = Past(l)
    BY <2>1, <2>2 DEF Past, Inflight
  <2> QED
    BY <2>1, <2>3, Stutters
<1>3. CASE SendCleared(f)
  <2>1. /\ flight[f].pc = "send" /\ UNCHANGED <<mailed, from, listed, replied, afterReply>>
        /\ EmailOf[FlightLead(f)] \notin listed
    BY <1>3 DEF SendCleared, isSuppressed
  <2>2. PICK k \in Lead : k = FlightLead(f) /\ flight[f].job \in JobsOf(k)
    BY <2>1, FlightLeads
  <2>3. /\ flight'[f].job = flight[f].job /\ \A g \in Flight : g # f => flight'[g] = flight[g]
    BY <1>3 DEF SendCleared, TypeOK, FlightsOK, FlightState
  <2>4. \A l \in Lead : l # k => Past(l)' = Past(l)
    BY <2>2, <2>3 DEF Past, Inflight, JobsOf
  <2> QED
    BY <2>1, <2>2, <2>4, Stutters
<1>s. ASSUME flight[f].pc = "smtp"
      PROVE  \E k \in Lead : /\ k = FlightLead(f) /\ flight[f].job \in JobsOf(k)
                             /\ MailboxOf(flight[f].job) \in Mailbox
                             /\ f \in Past(k) /\ f \in ToSend(k)
                             /\ \A g \in Flight : g # f => flight[g].pc = "idle"
  BY <1>s, FlightLeads, OneUnderWay DEF SenderInv, Past, ToSend, Inflight, Unsent
<1>l. ASSUME NEW k \in Lead, flight[f].pc = "smtp", flight[f].job \in JobsOf(k),
             flight'[f].pc # "smtp", flight'[f].job = flight[f].job,
             \A g \in Flight : g # f => flight'[g] = flight[g] /\ flight[g].pc = "idle",
             UNCHANGED listed
      PROVE  OnWay' = OnWay \ {k}
  <2>1. Past(k)' = {}
    BY <1>l DEF Past, Inflight
  <2>2. \A l \in Lead : l # k => Past(l)' = Past(l)
    BY <1>l DEF Past, Inflight, JobsOf
  <2> QED
    BY <1>l, <2>1, <2>2 DEF OnWay
<1>4. CASE SmtpAccepts(f)
  <2>1. /\ flight[f].pc = "smtp" /\ UNCHANGED <<listed, replied>> /\ FlightTo(f, "sent")
    BY <1>4 DEF SmtpAccepts
  <2>2. PICK k \in Lead : /\ k = FlightLead(f) /\ flight[f].job \in JobsOf(k)
                          /\ MailboxOf(flight[f].job) \in Mailbox
                          /\ f \in Past(k) /\ f \in ToSend(k)
                          /\ \A g \in Flight : g # f => flight[g].pc = "idle"
    BY <1>s, <2>1
  <2>3. PICK m \in Mailbox : m = MailboxOf(flight[f].job)
    BY <2>2
  <2>4. /\ mailed' = [mailed EXCEPT ![k] = @ + 1]
        /\ from' = [from EXCEPT ![k] = @ \union {m}]
        /\ afterReply' = [afterReply EXCEPT ![k] = IF k \in replied THEN @ + 1 ELSE @]
    BY <1>4, <2>2, <2>3 DEF SmtpAccepts
  <2>5. /\ mailed[k] \in Nat /\ afterReply[k] \in Nat /\ from[k] \in SUBSET Mailbox
        /\ mailed \in [Lead -> Nat] /\ from \in [Lead -> SUBSET Mailbox]
        /\ afterReply \in [Lead -> Nat] /\ FollowUps \in Nat
    BY LeadRowAssumption DEF TypeOK, HistoryOK
  <2>6. mailed[k] < FollowUps + 1
    <3>1. faults' = 0
      BY <1>4 DEF SmtpAccepts, BookInv, QueueInv
    <3>2. mailed'[k] <= FollowUps + 1 + faults'
      BY DEF MailsBounded
    <3>3. mailed'[k] = mailed[k] + 1
      BY <2>4, <2>5
    <3> QED
      BY <2>5, <3>1, <3>2, <3>3
  <2>7. from[k] \subseteq {m}
    BY <1>4, <2>2, <2>3, SenderMails
  <2>8. afterReply[k] = 0
    BY <2>2, <2>5 DEF BookInv, LeadInv, CrossedOnce
  <2>9. EmailOf[k] \in listed => k \in OnWay
    BY <2>2 DEF OnWay
  <2>10. OnWay' = OnWay \ {k}
    <3>1. PICK r : Moves(f, r, k) /\ r.pc = "sent" /\ r.job = flight[f].job
      BY <2>1, <2>2, PcMove
    <3>2. flight'[f] = r /\ \A g \in Flight : g # f => flight'[g] = flight[g]
      BY <3>1 DEF Moves, TypeOK, FlightsOK
    <3> QED
      BY <1>l, <2>1, <2>2, <3>1, <3>2
  <2>11. from' = [from EXCEPT ![k] = {m}]
    <3>1. from[k] \union {m} = {m}
      BY <2>7
    <3> QED
      BY <2>4, <2>5, <3>1
  <2>12. Crossed' = Crossed \union ({k} \intersect replied) /\ k \notin Crossed
    BY <2>4, <2>5, <2>8 DEF Crossed
  <2>13. Promise!Mail(k, m)
    BY <2>1, <2>4, <2>6, <2>7, <2>9, <2>10, <2>11, <2>12
       DEF Promise!Mail, OnWay, Crossed, Past
  <2> QED
    BY <2>13 DEF Promise!Next
<1>5. CASE SmtpRefuses(f)
  <2>1. flight[f].pc = "smtp" /\ UNCHANGED <<mailed, from, listed, replied, afterReply>>
    BY <1>5 DEF SmtpRefuses
  <2>2. PICK k \in Lead : /\ k = FlightLead(f) /\ flight[f].job \in JobsOf(k)
                          /\ \A g \in Flight : g # f => flight[g].pc = "idle"
    BY <1>s, <2>1
  <2>3. /\ flight'[f].pc \in {"failed", "refused"} /\ flight'[f].job = flight[f].job
        /\ \A g \in Flight : g # f => flight'[g] = flight[g]
    BY <1>5 DEF SmtpRefuses, FlightTo, ReadFailed, TypeOK, FlightsOK, FlightState
  <2>4. OnWay' = OnWay \ {k}
    BY <1>l, <2>1, <2>2, <2>3
  <2>5. Crossed' = Crossed
    BY <2>1 DEF Crossed
  <2>6. CASE k \in OnWay
    <3>1. Promise!Abandon(k)
      BY <2>1, <2>4, <2>5, <2>6 DEF Promise!Abandon, OnWay, Crossed, Past
    <3> QED
      BY <3>1 DEF Promise!Next
  <2>7. CASE k \notin OnWay
    BY <2>1, <2>4, <2>5, <2>7 DEF PromiseVars
  <2> QED
    BY <2>6, <2>7
<1>6. CASE RecordFails(f) \/ RecordLost(f) \/ ApiDies(f)
  BY <1>6 DEF RecordFails, RecordLost, ApiDies, Fault, Orderly
<1>7. CASE FlightEnds(f)
  BY <1>7 DEF FlightEnds, SenderInv, AllHeard
<1> QED
  BY <1>1, <1>2, <1>3, <1>4, <1>5, <1>6, <1>7 DEF FlightStep

LEMMA RestKeepsPromise ==
  ASSUME Orderly, TypeOK, SenderInv, BookInv,
         (\E t \in Tick : TickStep(t)) \/ WorkerStep \/ ReconStep \/ QueueStep \/ Crash \/ TimeStep
  PROVE  UNCHANGED PromiseVars
<1>h. UNCHANGED <<mailed, from, listed, replied, afterReply>>
  <2> USE DEF dbVars, history
  <2>1. CASE \E t \in Tick : TickStep(t)
    BY <2>1 DEF TickStep, TickStart, TickTakeSlot, TickSkip, TickMarkLead, TickAddJob,
                TickReadFirstEmails, TickEnd, TickFails
  <2>2. CASE WorkerStep
    BY <2>2 DEF WorkerStep, TakeJob, WorkerReleases, WorkerStopsDeadAddress, WorkerAsksAgainLater,
                WorkerDispatches, WorkerAnswered, WorkerWritesFailure, WorkerFetchRejects,
                WorkerFinishes, WorkerWrites
  <2>3. CASE ReconStep \/ QueueStep \/ Crash
    BY <2>3 DEF ReconStep, ReconFind, ReconAdd, ReconMark, QueueStep, RecoverStalled, Prune, Crash
  <2>4. CASE TimeStep
    BY <2>4 DEF TimeStep, SlotComes, SlotOverdue, DateComes
  <2> QED
    BY <2>1, <2>2, <2>3, <2>4
<1>1. CASE \E f \in Flight : WorkerDispatches(f) \/ WorkerAnswered(f)
  <2>1. PICK f \in Flight : WorkerDispatches(f) \/ WorkerAnswered(f)
    BY <1>1
  <2>2. PICK r : flight' = [flight EXCEPT ![f] = r] /\ r.pc \in {"idle", "compose"}
    <3>1. CASE WorkerDispatches(f)
      <4> DEFINE r == [pc |-> "compose", job |-> worker.job, followUp |-> FALSE, stepsRead |-> 0,
                       retriesRead |-> 0, awaited |-> TRUE]
      <4>1. flight' = [flight EXCEPT ![f] = r]
        BY <3>1 DEF WorkerDispatches
      <4>2. r.pc = "compose"
        OBVIOUS
      <4> HIDE DEF r
      <4> QED
        BY <4>1, <4>2
    <3>2. CASE WorkerAnswered(f)
      <4>1. flight' = [flight EXCEPT ![f] = IdleFlight]
        BY <3>2 DEF WorkerAnswered
      <4>2. IdleFlight.pc = "idle"
        BY DEF IdleFlight
      <4> QED
        BY <4>1, <4>2
    <3> QED
      BY <2>1, <3>1, <3>2
  <2>3. flight[f].pc # "smtp"
    BY <2>1 DEF WorkerDispatches, WorkerAnswered
  <2>4. \A l \in Lead : Past(l)' = Past(l)
    BY <2>2, <2>3, PastSame
  <2> QED
    BY <1>h, <2>4, Stutters
<1>2. CASE ~\E f \in Flight : WorkerDispatches(f) \/ WorkerAnswered(f)
  <2>1. ~WorkerFetchRejects /\ ~Crash
    BY DEF WorkerFetchRejects, Crash, Fault, Orderly
  <2>2. UNCHANGED flight
    <3>1. CASE \E t \in Tick : TickStep(t)
      BY <3>1 DEF TickStep, TickStart, TickTakeSlot, TickSkip, TickMarkLead, TickAddJob,
                  TickReadFirstEmails, TickEnd, TickFails
    <3>2. CASE WorkerStep
      BY <1>2, <2>1, <3>2 DEF WorkerStep, TakeJob, WorkerReleases, WorkerStopsDeadAddress,
         WorkerAsksAgainLater, WorkerWritesFailure, WorkerFinishes
    <3>3. CASE ReconStep \/ QueueStep
      BY <3>3 DEF ReconStep, ReconFind, ReconAdd, ReconMark, QueueStep, RecoverStalled, Prune
    <3>4. CASE TimeStep
      BY <3>4 DEF TimeStep, SlotComes, SlotOverdue, DateComes
    <3> QED
      BY <2>1, <3>1, <3>2, <3>3, <3>4
  <2>3. \A l \in Lead : Past(l)' = Past(l)
    BY <2>2 DEF Past, Inflight
  <2> QED
    BY <1>h, <2>3, Stutters
<1> QED
  BY <1>1, <1>2

LEMMA EnvKeepsPromise ==
  ASSUME Orderly, TypeOK, EveryMailCounted, BookInv, EnvStep
  PROVE  Promise!Next \/ UNCHANGED PromiseVars
<1> USE DEF dbVars, history
<1>p. UNCHANGED flight => \A l \in Lead : Past(l)' = Past(l)
  BY DEF Past, Inflight
<1>m. ASSUME NEW l \in Lead, lead[l].stepsSent > 0 PROVE mailed[l] > 0
  <2>1. /\ mailed[l] \in Nat /\ lead[l].stepsSent \in Nat
        /\ Cardinality(Inflight(l, {"sent", "record"})) \in Nat
    BY Counts DEF Sent, Unwritten
  <2>2. mailed[l] - lead[l].stepsSent - Cardinality(Inflight(l, {"sent", "record"})) >= 0
    <3>1. faults = 0
      BY DEF BookInv, QueueInv
    <3> QED
      BY <2>1, <3>1 DEF EveryMailCounted
  <2> QED
    BY <1>m, <2>1, <2>2
<1>1. CASE \/ CampaignOpens
           \/ \E m \in Mailbox : MailboxToggles(m)
           \/ \E l \in Lead : ReplyMarks(l) \/ ReplyMarkLost(l)
  <2>1. UNCHANGED <<flight, mailed, from, listed, replied, afterReply>>
    BY <1>1 DEF CampaignOpens, MailboxToggles, ReplyMarks, ReplyMarkLost
  <2> QED
    BY <1>p, <2>1, Stutters
<1>2. CASE \E e \in Email : OptOut(e)
  <2>1. PICK e \in Email : OptOut(e)
    BY <1>2
  <2>2. /\ e \notin listed /\ listed' = listed \union {e}
        /\ UNCHANGED <<flight, mailed, from, replied, afterReply>>
    BY <2>1 DEF OptOut
  <2> DEFINE now == {l \in Lead : EmailOf[l] = e /\ Past(l) # {}}
  <2>3. OnWay' = OnWay \union now
    BY <1>p, <2>2 DEF OnWay
  <2>4. now \in SUBSET {l \in Lead : EmailOf[l] = e}
    OBVIOUS
  <2>5. Crossed' = Crossed
    BY <2>2 DEF Crossed
  <2> HIDE DEF now
  <2>6. Promise!OptOut(e)
    BY <2>2, <2>3, <2>4, <2>5 DEF Promise!OptOut, OnWay, Crossed, Past
  <2> QED
    BY <2>6 DEF Promise!Next
<1>3. CASE \E e \in Email : Unblock(e)
  <2>1. PICK e \in Email : Unblock(e)
    BY <1>3
  <2>2. /\ e \in listed /\ listed' = listed \ {e}
        /\ UNCHANGED <<flight, mailed, from, replied, afterReply>>
    BY <2>1 DEF Unblock
  <2>3. OnWay' = {l \in OnWay : EmailOf[l] # e}
    BY <1>p, <2>2 DEF OnWay
  <2>4. Crossed' = Crossed
    BY <2>2 DEF Crossed
  <2>5. Promise!Unblock(e)
    BY <2>2, <2>3, <2>4 DEF Promise!Unblock, OnWay, Crossed, Past
  <2> QED
    BY <2>5 DEF Promise!Next
<1>4. CASE \E l \in Lead : ReplyStored(l) \/ BounceReport(l)
  <2>1. PICK l \in Lead : ReplyStored(l) \/ BounceReport(l)
    BY <1>4
  <2>2. /\ lead[l].stepsSent > 0 /\ replied' = replied \union {l}
        /\ UNCHANGED <<flight, mailed, from, listed, afterReply>>
    BY <2>1 DEF ReplyStored, BounceReport
  <2>3. OnWay' = OnWay /\ Crossed' = Crossed
    BY <1>p, <2>2 DEF OnWay, Crossed
  <2>4. Promise!Reply(l)
    BY <1>m, <2>2, <2>3 DEF Promise!Reply, OnWay, Crossed, Past
  <2> QED
    BY <2>4 DEF Promise!Next
<1> QED
  BY <1>1, <1>2, <1>3, <1>4 DEF EnvStep

(* All that Thread promises a recipient, and in its order: one thread of at   *)
(* most FollowUps + 1 mails from one mailbox; after an opt-out only the mail  *)
(* past sendMail's look at the list; after a reply at most one.  The code     *)
(* keeps it for any leads, mailboxes and sequence while no process dies and   *)
(* no tick outlasts its slots.                                                *)
THEOREM PromiseIsKept ==
  ASSUME Orderly
  PROVE  Spec => ThreadPromise
<1>1. Init => Promise!Init
  BY DEF Init, Promise!Init
<1>2. TypeOK /\ SenderInv /\ BookInv /\ EveryMailCounted /\ MailsBounded' /\ [Next]_vars
        => [Promise!Next]_(Promise!vars)
  <2> SUFFICES ASSUME TypeOK, SenderInv, BookInv, EveryMailCounted, MailsBounded', [Next]_vars
               PROVE  Promise!Next \/ UNCHANGED PromiseVars
    BY PromiseNames
  <2>1. CASE UNCHANGED vars
    <3>1. UNCHANGED <<flight, mailed, from, listed, replied, afterReply>>
      BY <2>1 DEF vars, dbVars, history
    <3>2. \A l \in Lead : Past(l)' = Past(l)
      BY <3>1 DEF Past, Inflight
    <3> QED
      BY <3>1, <3>2, Stutters
  <2> QED
    BY <2>1, FlightKeepsPromise, RestKeepsPromise, EnvKeepsPromise DEF Next
<1> QED
  BY <1>1, <1>2, BookingsHold, MailsAreCounted, MailsAreBounded, PTL
     DEF Spec, ThreadPromise, Promise!Spec

=============================================================================
