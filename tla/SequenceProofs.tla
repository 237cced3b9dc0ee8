---------------------------- MODULE SequenceProofs ----------------------------
(* Proofs about Sequence, for any leads, mailboxes, plans and bounds.       *)
EXTENDS Sequence, FiniteSetTheorems, WellFoundedInduction, TLAPS

-----------------------------------------------------------------------------
(* What the properties rest on, of one lead.  After each: who would break it.*)

\* a lead that was mailed is CONTACTED or REPLIED, and a mail on its way
\* goes by a row that was due
Sane(l) ==
  /\ lead[l].sent > 0 <=> lead[l].status \in {"CONTACTED", "REPLIED"}
  /\ lead[l].sent = 0 => replies[l] = <<>>
  /\ lead[l].status # "SUPPRESSED" => lead[l].retries < MaxRetryAttempts
  /\ send[l].pc = "none" => send[l] = NoSend
  /\ send[l].pc # "none" =>
       /\ send[l].row.sent = lead[l].sent /\ lead[l].sent <= MaxFollowUps
       /\ IF lead[l].sent > 0 THEN send[l].row.next = 0
          ELSE lead[l].status = "QUEUED" /\ lead[l].job # NoMailbox
  /\ call[l].pc = "none" => call[l] = NoCall
  /\ call[l].pc # "none" => call[l].row.status \in {"CONTACTED", "REPLIED"} /\ lead[l].sent > 0

\* when the follow-up of a lead read as row is scheduled, by these steps
Scheduled(row, ss) ==
  IF row.status # "REPLIED" THEN row.next
  ELSE Since(nextStepAtAfter(ss, row.sent), row.age)

\* an outcome is written by what was read
Drawn(l) ==
  LET c == call[l]
      due == Scheduled(c.row, c.steps)
  IN  c.pc = "write" =>
        /\ Keeping(c.replies)
        /\ c.next = None <=> due = None
        /\ due # None => c.next >= due /\ \A h \in Held(c.replies) : h <= c.next

\* a lead that is booked for a follow-up has no answer
Silent(l) ==
  l \notin excused =>
    /\ lead[l].status = "CONTACTED" /\ lead[l].job # NoMailbox => Keeping(replies[l])
    /\ l \notin answered

\* a lead whose replies all keep the sequence is not left stopped
Going(l) ==
  l \notin excused =>
    ~(lead[l].status = "REPLIED" /\ Keeping(replies[l]) /\ call[l].pc = "none")

\* a follow-up is not dated before the absence ends
Resting(l) ==
  l \notin excused \cup redated =>
    /\ /\ lead[l].status = "CONTACTED" /\ lead[l].next # None
       /\ Keeping(replies[l]) /\ call[l].pc = "none"
       => \A h \in Held(replies[l]) : h <= lead[l].next
    /\ l \notin disturbed

\* a lead with a step left has a date
Dated(l) ==
  /\ send[l].pc = "none"
  /\ lead[l].status = "CONTACTED"
  /\ lead[l].sent \in DOMAIN steps /\ lead[l].mailbox \in boxes
  /\ l \notin ended \cup excused
  => lead[l].next # None

\* days is no less than the shortest wait
Waited(l, days) == least[l] # None /\ least[l] <= days

\* date and age add up to the shortest wait at least
Patient(l) ==
  /\ least[l] <= Lookback + 1
  /\ l \notin excused =>
       /\ send[l].pc = "none" /\ lead[l].status = "CONTACTED" /\ lead[l].next # None =>
            Waited(l, lead[l].next + lead[l].age)
       /\ send[l].pc = "smtp" /\ lead[l].sent > 0 => Waited(l, lead[l].age)
       /\ send[l].pc # "write" /\ lead[l].sent \in DOMAIN steps =>
            Waited(l, steps[lead[l].sent])
       /\ send[l].pc = "write" /\ lead[l].sent + 1 \in DOMAIN send[l].steps =>
            Waited(l, send[l].steps[lead[l].sent + 1])
       /\ l \notin early

ISane == \A l \in Lead : Sane(l)

-----------------------------------------------------------------------------
(* The later of a date and the days somebody is away.                       *)
LEMMA LeastNat ==
  ASSUME NEW T \in SUBSET Nat, T # {}
  PROVE  \E x \in T : \A y \in T : x <= y
<1>1. PICK x \in T : \A y \in T : ~ (<<y, x>> \in OpToRel(<, Nat))
  BY NatLessThanWellFounded, WFMin
<1>2. ASSUME NEW y \in T PROVE x <= y
  <2>1. ~(y < x)
    BY <1>1 DEF OpToRel
  <2> QED
    BY <2>1
<1> QED
  BY <1>2

LEMMA GreatestNat ==
  ASSUME NEW S \in SUBSET Nat, S # {}, NEW b \in Nat, \A x \in S : x <= b
  PROVE  /\ Max(S) \in S
         /\ \A x \in S : x <= Max(S)
<1> DEFINE T == {b - x : x \in S}
<1>1. T \subseteq Nat /\ T # {}
  <2>1. ASSUME NEW x \in S PROVE b - x \in Nat
    <3>1. x \in Nat /\ x <= b
      OBVIOUS
    <3> QED
      BY <3>1
  <2> QED
    BY <2>1
<1>2. PICK t \in T : \A u \in T : t <= u
  BY <1>1, LeastNat
<1>3. PICK m \in S : t = b - m
  BY <1>2
<1>4. \A x \in S : m >= x
  <2>1. ASSUME NEW x \in S PROVE m >= x
    <3>1. b - x \in T
      BY <2>1
    <3>2. b - m <= b - x
      BY <1>2, <1>3, <3>1
    <3> QED
      BY <3>2
  <2> QED
    BY <2>1
<1> QED
  BY <1>4 DEF Max

(* The holds of a list of replies are bounded: else take the shortest        *)
(* prefix whose holds are not.                                              *)
LEMMA HeldBounded ==
  ASSUME NEW rs \in Seq(Reply)
  PROVE  \E b \in Nat : \A i \in DOMAIN rs : rs[i].hold \in Nat /\ rs[i].hold <= b
<1> DEFINE Bounded(k) == \E b \in Nat : \A i \in 1..k : rs[i].hold <= b
           T == {k \in 0..Len(rs) : ~Bounded(k)}
<1>1. /\ Len(rs) \in Nat /\ DOMAIN rs = 1..Len(rs)
      /\ \A i \in 1..Len(rs) : rs[i].hold \in Nat
  <2>1. \A i \in 1..Len(rs) : rs[i] \in Reply
    OBVIOUS
  <2> QED
    BY <2>1 DEF Reply
<1>2. Bounded(0)
  <2>1. 1..0 = {}
    OBVIOUS
  <2> QED
    BY <2>1
<1>3. ASSUME NEW k \in 1..Len(rs), Bounded(k - 1) PROVE Bounded(k)
  <2>1. PICK b \in Nat : \A i \in 1..(k - 1) : rs[i].hold <= b
    BY <1>3
  <2>2. PICK c \in Nat : c >= b /\ c >= rs[k].hold
    <3>1. CASE b >= rs[k].hold
      BY <3>1
    <3>2. CASE rs[k].hold >= b
      BY <1>1, <3>2
    <3> QED
      BY <1>1, <3>1, <3>2
  <2>3. ASSUME NEW i \in 1..k PROVE rs[i].hold <= c
    <3>1. CASE i = k
      BY <2>2, <3>1
    <3>2. CASE i \in 1..(k - 1)
      <4>1. rs[i].hold <= b /\ rs[i].hold \in Nat
        BY <1>1, <2>1, <3>2
      <4> QED
        BY <2>2, <4>1
    <3> QED
      BY <1>1, <3>1, <3>2
  <2> QED
    BY <2>3
<1> HIDE DEF Bounded
<1>4. T = {}
  <2> SUFFICES ASSUME T # {} PROVE FALSE
    OBVIOUS
  <2>1. T \subseteq Nat
    OBVIOUS
  <2>2. PICK k \in T : \A u \in T : k <= u
    BY <2>1, LeastNat
  <2>3. k \in 0..Len(rs) /\ ~Bounded(k) /\ k # 0
    BY <1>2, <2>2
  <2>4. k - 1 \in 0..Len(rs) /\ k - 1 \notin T
    BY <1>1, <2>2, <2>3
  <2> QED
    BY <1>1, <1>3, <2>3, <2>4
<1>5. Bounded(Len(rs))
  BY <1>1, <1>4
<1> QED
  BY <1>1, <1>5 DEF Bounded

LEMMA LaterOf ==
  ASSUME NEW rs \in Seq(Reply), NEW n \in Nat
  PROVE  /\ Max({n} \cup Held(rs)) \in Nat
         /\ n <= Max({n} \cup Held(rs))
         /\ \A h \in Held(rs) : h <= Max({n} \cup Held(rs))
<1>1. PICK b \in Nat : \A i \in DOMAIN rs : rs[i].hold \in Nat /\ rs[i].hold <= b
  BY HeldBounded
<1>2. ASSUME NEW h \in Held(rs) PROVE h \in Nat /\ h <= b
  BY <1>1 DEF Held
<1> DEFINE S == {n} \cup Held(rs)
<1>3. PICK c \in Nat : n <= c /\ b <= c
  <2>1. CASE n <= b
    BY <2>1
  <2>2. CASE b <= n
    BY <2>2
  <2> QED
    BY <2>1, <2>2
<1>4. S \in SUBSET Nat /\ S # {} /\ \A x \in S : x <= c
  <2>1. ASSUME NEW x \in S PROVE x \in Nat /\ x <= c
    <3>1. CASE x = n
      BY <1>3, <3>1
    <3>2. CASE x \in Held(rs)
      BY <1>2, <1>3, <3>2
    <3> QED
      BY <3>1, <3>2
  <2> QED
    BY <2>1
<1>5. Max(S) \in S /\ \A x \in S : x <= Max(S)
  BY <1>4, GreatestNat
<1> QED
  BY <1>4, <1>5

-----------------------------------------------------------------------------
(* OwnerStops needs none of it: nothing but a launch leaves PAUSED.          *)

(* A campaign its owner stopped stays stopped, whatever the tick, the       *)
(* processor and the answers do meanwhile.                                  *)
THEOREM OwnerStopsIt == Spec => []OwnerStops
<1>1. Init => OwnerStops
  BY DEF Init, OwnerStops
<1>2. OwnerStops /\ [Next]_vars => OwnerStops'
  <2> SUFFICES ASSUME OwnerStops, [Next]_vars PROVE OwnerStops'
    OBVIOUS
  <2>1. CASE Launch \/ Pause \/ TickCompletes \/ TickReopens
    BY <2>1 DEF OwnerStops, Launch, Pause, TickCompletes, TickReopens
  <2>2. CASE \/ EditSenders \/ EditSteps
             \/ \E m \in Mailbox : DeleteMailbox(m)
             \/ \E l \in Lead : Import(l)
             \/ \E l \in Lead, m \in Mailbox : Book(l, m)
             \/ Day \/ UNCHANGED vars
    BY <2>2 DEF OwnerStops, EditSenders, EditSteps, DeleteMailbox, Import, Book, Day, vars, campVars
  <2>3. ASSUME NEW l \in Lead, Mail(l) \/ Answer(l) \/ Outcome(l) PROVE OwnerStops'
    BY <2>3 DEF OwnerStops, Mail, Release, NothingToWrite, Attempt, Accepted, Recorded, Failed,
                Answer, ReplyComes, Labels, Outcome, OutcomeReads, OutcomeWrites, campVars
  <2> QED
    BY <2>1, <2>2, <2>3 DEF Next, Owner, Tick
<1> QED
  BY <1>1, <1>2, PTL DEF Spec

-----------------------------------------------------------------------------
(* Types, and Sane with them.                                               *)
LEMMA Rows ==
  ASSUME NEW r \in Row
  PROVE  /\ r.status \in LeadStatus /\ r.sent \in Nat /\ r.retries \in Nat
         /\ r.next \in Date /\ r.next \in Int /\ (r.next # None => r.next \in Nat)
         /\ r.age \in Nat /\ r.age <= Lookback + 1
  BY SequenceAssumption DEF Row, Date, None

LEMMA Dates ==
  /\ None \in Date /\ 0 \in Date /\ None \in Int
  /\ \A d \in Date : d \in Int /\ (d # None => d \in Nat)
  /\ \A n \in Nat : n \in Date /\ n # None
  BY DEF Date, None

LEMMA StepWaits ==
  ASSUME NEW ss \in Plans \cup {<<>>}, NEW n \in Nat
  PROVE  /\ nextStepAtAfter(ss, n) \in Date
         /\ n \in DOMAIN ss => /\ nextStepAtAfter(ss, n) = ss[n]
                               /\ ss[n] \in Nat /\ ss[n] <= Lookback + 1
                               /\ n > 0 /\ n <= MaxFollowUps
         /\ n \notin DOMAIN ss => nextStepAtAfter(ss, n) = None
<1>1. CASE ss = <<>>
  BY <1>1, Dates DEF nextStepAtAfter
<1>2. CASE ss \in Plans
  <2>1. ss \in Seq(Nat) /\ Len(ss) <= MaxFollowUps
    BY <1>2, SequenceAssumption
  <2>2. DOMAIN ss = 1..Len(ss) /\ Len(ss) \in Nat
    BY <2>1
  <2>3. ASSUME n \in DOMAIN ss
        PROVE  ss[n] \in Nat /\ ss[n] <= Lookback + 1 /\ n > 0 /\ n <= MaxFollowUps
    BY <1>2, <2>1, <2>2, <2>3, WaitAssumption, SequenceAssumption
  <2> QED
    BY <2>3, Dates DEF nextStepAtAfter
<1> QED
  BY <1>1, <1>2

LEMMA SinceDate ==
  ASSUME NEW w \in Date, NEW a \in Nat
  PROVE  /\ Since(w, a) \in Date
         /\ Since(w, a) = None <=> w = None
         /\ w # None => w <= Since(w, a) + a
  BY Dates DEF Since, None

LEMMA ResumedDate ==
  ASSUME steps \in Plans \cup {<<>>}, NEW r \in Row, NEW rs \in Seq(Reply)
  PROVE  LET s == Scheduled(r, steps)
         IN  /\ s \in Date
             /\ Resumed(r, rs) \in Date
             /\ Resumed(r, rs) = None <=> s = None
             /\ s # None => s <= Resumed(r, rs) /\ \A h \in Held(rs) : h <= Resumed(r, rs)
<1> DEFINE s == Scheduled(r, steps)
<1>1. s \in Date
  BY Rows, StepWaits, SinceDate DEF Scheduled
<1>2. Resumed(r, rs) = IF s = None THEN None ELSE Max({s} \cup Held(rs))
  BY DEF Resumed, Scheduled
<1>3. CASE s = None
  BY <1>1, <1>2, <1>3
<1>4. CASE s # None
  <2>1. s \in Nat
    BY <1>1, <1>4, Dates
  <2>2. /\ Resumed(r, rs) \in Nat /\ s <= Resumed(r, rs)
        /\ \A h \in Held(rs) : h <= Resumed(r, rs)
    <3> HIDE DEF s
    <3> QED
      BY <1>2, <1>4, <2>1, LaterOf
  <2>3. Resumed(r, rs) \in Date /\ Resumed(r, rs) # None
    BY <2>2, Dates
  <2> QED
    BY <1>1, <1>4, <2>2, <2>3
<1> QED
  BY <1>3, <1>4

LEMMA NothingUnderWay ==
  /\ NewRow \in Row /\ NoSend \in Sends /\ NoCall \in Calls
  /\ NoSend.pc = "none" /\ NoCall.pc = "none"
<1> USE SequenceAssumption
<1>1. NewRow \in Row
  BY DEF NewRow, Row, LeadStatus, Date
<1> QED
  BY <1>1, Dates DEF NoSend, NoCall, Sends, Calls

LEMMA TypeInit == Init => TypeOK /\ ISane
<1> SUFFICES ASSUME Init PROVE TypeOK /\ ISane
  OBVIOUS
<1> USE SequenceAssumption
<1>1. NewRow \in Row
  BY DEF NewRow, Row, LeadStatus, Date
<1>2. NoSend \in Sends /\ NoCall \in Calls
  BY NothingUnderWay
<1>3. TypeOK
  <2>1. /\ status \in CampaignStatus /\ steps \in Plans /\ senders \subseteq boxes
        /\ boxes \subseteq Mailbox /\ stopped \in BOOLEAN
    BY DEF Init, CampaignStatus
  <2>5. acts \in 0..MaxActs
    BY DEF Init
  <2>4. {ended, excused, redated, early, disturbed, answered} \subseteq SUBSET Lead
    BY DEF Init
  <2>2. lead \in [Lead -> Row] /\ least \in [Lead -> Date]
    BY <1>1, Dates DEF Init
  <2>3. replies \in [Lead -> Seq(Reply)]
    BY DEF Init
  <2> QED
    BY <1>2, <2>1, <2>2, <2>3, <2>4, <2>5 DEF Init, TypeOK
<1>4. ISane
  BY DEF Init, ISane, Sane, NewRow, NoSend, NoCall
<1> QED
  BY <1>3, <1>4

\* what a step does not touch of a lead
Same(k) ==
  /\ UNCHANGED <<lead[k], replies[k], send[k], call[k], least[k]>>
  /\ k \in ended' <=> k \in ended
  /\ k \in excused' <=> k \in excused
  /\ k \in redated' <=> k \in redated
  /\ k \in early' <=> k \in early
  /\ k \in disturbed' <=> k \in disturbed
  /\ k \in answered' <=> k \in answered

Others(l) ==
  /\ UNCHANGED <<steps, boxes>>
  /\ \A k \in Lead \ {l} : Same(k)

OfLead(l) ==
  \/ Import(l)
  \/ \E m \in Mailbox : Book(l, m)
  \/ Mail(l)
  \/ Answer(l)
  \/ Outcome(l)

LEMMA OneLead == ASSUME TypeOK, NEW l \in Lead, OfLead(l) PROVE Others(l)
<1> USE DEF TypeOK, Others, Same, campVars, pastVars
<1>1. CASE Import(l) \/ \E m \in Mailbox : Book(l, m)
  BY <1>1 DEF Import, Book
<1>2. CASE Release(l) \/ NothingToWrite(l)
  BY <1>2 DEF Release, NothingToWrite
<1>3. CASE Attempt(l) \/ Accepted(l)
  BY <1>3 DEF Attempt, Accepted
<1>4. CASE Recorded(l) \/ Failed(l)
  BY <1>4 DEF Recorded, Failed
<1>5. CASE Answer(l)
  BY <1>5 DEF Answer, ReplyComes, Labels
<1>6. CASE Outcome(l)
  BY <1>6 DEF Outcome, OutcomeReads, OutcomeWrites
<1> QED
  BY <1>1, <1>2, <1>3, <1>4, <1>5, <1>6 DEF OfLead, Mail

\* a new row, and what it must agree with the old one in
LEMMA Rewrites ==
  ASSUME NEW r \in Row,
         NEW st \in LeadStatus, NEW d \in Date, NEW j \in Mailbox \cup {NoMailbox}
  PROVE  /\ [r EXCEPT !.status = st] \in Row
         /\ [r EXCEPT !.next = d] \in Row
         /\ [r EXCEPT !.job = j] \in Row
         /\ [r EXCEPT !.mailbox = j] \in Row
         /\ [r EXCEPT !.job = j, !.status = st] \in Row
         /\ [r EXCEPT !.job = j, !.next = d] \in Row
         /\ [r EXCEPT !.status = st, !.next = d] \in Row
         /\ [r EXCEPT !.mailbox = j, !.next = d] \in Row
  BY DEF Row

\* a step that writes one row of the same number of mails and retries
LEMMA Rewritten ==
  ASSUME TypeOK, ISane, NEW l \in Lead, NEW r \in Row,
         UNCHANGED <<steps, boxes, replies, send, call, acts, stopped, least,
                     ended, excused, redated, early, disturbed, answered, status, senders>>,
         lead' = [lead EXCEPT ![l] = r],
         r.sent = lead[l].sent, r.retries = lead[l].retries,
         \/ r.status = lead[l].status
         \/ /\ lead[l].status \in {"ABSENT", "UNTOUCHED", "QUEUED"}
            /\ r.status \in {"UNTOUCHED", "QUEUED"},
         send[l].pc = "none" \/ lead[l].sent > 0
  PROVE  TypeOK' /\ Sane(l)'
<1>1. lead'[l] = r /\ lead' \in [Lead -> Row]
  BY DEF TypeOK
<1>2. TypeOK'
  BY <1>1 DEF TypeOK
<1>3. Sane(l)'
  BY <1>1 DEF ISane, Sane
<1> QED
  BY <1>2, <1>3

LEMMA BookSane ==
  ASSUME TypeOK, ISane, NEW l \in Lead, Import(l) \/ \E m \in Mailbox : Book(l, m)
  PROVE  TypeOK' /\ Sane(l)'
<1> USE DEF campVars, pastVars
<1>0. lead \in [Lead -> Row] /\ lead[l] \in Row
  BY DEF TypeOK
<1>1. CASE Import(l)
  <2> DEFINE r == [lead[l] EXCEPT !.status = "UNTOUCHED"]
  <2>1. r \in Row
    BY <1>0, Rewrites, Dates DEF LeadStatus
  <2>2. lead' = [lead EXCEPT ![l] = r]
    BY <1>0, <1>1 DEF Import
  <2>3. r.sent = lead[l].sent /\ r.retries = lead[l].retries /\ r.status = "UNTOUCHED"
        /\ lead[l].status = "ABSENT" /\ (send[l].pc = "none" \/ lead[l].sent > 0)
    BY <1>0, <1>1 DEF Import, Row, ISane, Sane
  <2> HIDE DEF r
  <2> QED
    BY <1>1, <2>1, <2>2, <2>3, Rewritten DEF Import
<1>2. ASSUME NEW m \in Mailbox, Book(l, m) PROVE TypeOK' /\ Sane(l)'
  <2> DEFINE r == IF FollowUpDue(l) /\ m = lead[l].mailbox THEN [lead[l] EXCEPT !.job = m]
                  ELSE [lead[l] EXCEPT !.job = m, !.status = "QUEUED"]
  <2>1. r \in Row
    BY <1>0, Rewrites, Dates DEF LeadStatus
  <2>2. /\ lead' = [lead EXCEPT ![l] = r]
        /\ r.status = lead[l].status \/ (FirstEmailDue(l) /\ r.status = "QUEUED")
    BY <1>0, <1>2 DEF Book, FollowUpDue, FirstEmailDue, Row
  <2>3. r.sent = lead[l].sent /\ r.retries = lead[l].retries
    BY <1>0 DEF Row
  <2>4. send[l].pc = "none" \/ lead[l].sent > 0
    BY <1>2 DEF Book, FollowUpDue, FirstEmailDue, ISane, Sane
  <2> HIDE DEF r
  <2> QED
    BY <1>2, <2>1, <2>2, <2>3, <2>4, Rewritten DEF Book, FirstEmailDue
<1> QED
  BY <1>1, <1>2

LEMMA ReleaseSane ==
  ASSUME TypeOK, ISane, NEW l \in Lead, Release(l) \/ NothingToWrite(l)
  PROVE  TypeOK' /\ Sane(l)'
<1> USE DEF campVars, pastVars
<1>0. lead \in [Lead -> Row] /\ lead[l] \in Row
  BY DEF TypeOK
<1>1. CASE Release(l)
  <2> DEFINE st == IF lead[l].status = "QUEUED" THEN "UNTOUCHED" ELSE lead[l].status
             r == [lead[l] EXCEPT !.job = NoMailbox, !.status = st]
  <2>1. r \in Row
    <3>1. st \in LeadStatus
      BY <1>0, Rows DEF LeadStatus
    <3> HIDE DEF st
    <3> QED
      BY <1>0, <3>1, Rewrites, Dates
  <2>2. lead' = [lead EXCEPT ![l] = r]
    BY <1>0, <1>1 DEF Release
  <2>3. r.sent = lead[l].sent /\ r.retries = lead[l].retries /\ r.status = st
    BY <1>0 DEF Row
  <2> HIDE DEF r
  <2> QED
    BY <1>1, <2>1, <2>2, <2>3, NothingUnderWay, Rewritten DEF Release, Booked
<1>2. CASE NothingToWrite(l)
  <2> DEFINE r == [lead[l] EXCEPT !.job = NoMailbox, !.next = None]
  <2>1. r \in Row
    <3>1. lead[l].status \in LeadStatus
      BY <1>0, Rows
    <3> QED
      BY <1>0, <3>1, Rewrites, Dates
  <2>2. lead' = [lead EXCEPT ![l] = r]
    BY <1>0, <1>2 DEF NothingToWrite
  <2>3. r.sent = lead[l].sent /\ r.retries = lead[l].retries /\ r.status = lead[l].status
    BY <1>0 DEF Row
  <2> HIDE DEF r
  <2> QED
    BY <1>2, <2>1, <2>2, <2>3, NothingUnderWay, Rewritten DEF NothingToWrite, Booked
<1> QED
  BY <1>1, <1>2

LEMMA AttemptSane ==
  ASSUME TypeOK, ISane, NEW l \in Lead, Attempt(l)
  PROVE  TypeOK' /\ Sane(l)'
<1> USE DEF campVars
<1> DEFINE x == [NoSend EXCEPT !.pc = "smtp", !.row = lead[l]]
<1>1. lead[l] \in Row /\ send \in [Lead -> Sends]
  BY DEF TypeOK
<1>2. x \in Sends /\ x.pc = "smtp" /\ x.row = lead[l]
  BY <1>1 DEF NoSend, Sends
<1>3. send' = [send EXCEPT ![l] = x] /\ send'[l] = x
  BY <1>1 DEF Attempt
<1> HIDE DEF x
<1>4. send' \in [Lead -> Sends]
  BY <1>1, <1>2, <1>3
<1>5. {early', disturbed', answered'} \subseteq SUBSET Lead
  BY DEF Attempt, TypeOK
<1>6. TypeOK'
  BY <1>4, <1>5 DEF Attempt, TypeOK
<1>7. /\ lead[l].sent <= MaxFollowUps /\ lead[l].job # NoMailbox
      /\ IF lead[l].sent > 0 THEN lead[l].status = "CONTACTED" /\ lead[l].next = 0
         ELSE lead[l].status = "QUEUED"
  <2>1. lead[l].sent \in Nat /\ steps \in Plans
    BY <1>1, Rows DEF TypeOK
  <2>2. lead[l].sent = 0 \/ lead[l].sent <= MaxFollowUps
    BY <2>1, StepWaits DEF Attempt, Composable
  <2> QED
    BY <2>1, <2>2, SequenceAssumption DEF Attempt, Fits, Booked
<1>8. Sane(l)'
  BY <1>2, <1>3, <1>7 DEF ISane, Sane, Attempt
<1> QED
  BY <1>6, <1>8

LEMMA AcceptedSane ==
  ASSUME TypeOK, ISane, NEW l \in Lead, Accepted(l)
  PROVE  TypeOK' /\ Sane(l)'
<1> USE DEF campVars
<1> DEFINE x == [send[l] EXCEPT !.pc = "write", !.steps = steps]
           d == nextStepAtAfter(steps, send[l].row.sent + 1)
<1>1. send[l] \in Sends /\ send \in [Lead -> Sends] /\ steps \in Plans /\ least \in [Lead -> Date]
  BY DEF TypeOK
<1>2. x \in Sends /\ x.pc = "write" /\ x.row = send[l].row
  BY <1>1 DEF Sends
<1>3. send' = [send EXCEPT ![l] = x] /\ send'[l] = x
  BY <1>1 DEF Accepted
<1>4. d \in Date
  <2>1. send[l].row.sent + 1 \in Nat
    BY <1>1, Rows DEF Sends
  <2> QED
    BY <1>1, <2>1, StepWaits
<1>5. least' = [least EXCEPT ![l] = d]
  BY DEF Accepted
<1> HIDE DEF x, d
<1>6. send' \in [Lead -> Sends] /\ least' \in [Lead -> Date]
  BY <1>1, <1>2, <1>3, <1>4, <1>5
<1>7. TypeOK'
  BY <1>6 DEF Accepted, TypeOK
<1>8. Sane(l)'
  BY <1>2, <1>3 DEF ISane, Sane, Accepted
<1> QED
  BY <1>7, <1>8

LEMMA RecordedSane ==
  ASSUME TypeOK, ISane, NEW l \in Lead, Recorded(l)
  PROVE  TypeOK' /\ Sane(l)'
<1> USE DEF campVars
<1> DEFINE row == lead[l]
           from == send[l].row.job
           d == nextStepAtAfter(send[l].steps, row.sent + 1)
           recorded == [row EXCEPT !.status = "CONTACTED", !.retries = 0, !.sent = @ + 1,
                                   !.age = 0, !.next = d, !.job = NoMailbox]
           pinned == [recorded EXCEPT !.mailbox = from]
           r == lead'[l]
<1>1. /\ row \in Row /\ send[l].steps \in Plans \cup {<<>>}
      /\ send[l].pc = "write" /\ row.sent \in Nat
      /\ lead \in [Lead -> Row] /\ send \in [Lead -> Sends] /\ boxes \subseteq Mailbox
  BY Rows DEF TypeOK, Sends, Recorded
<1>2. row.sent <= MaxFollowUps /\ Sane(l)
  BY <1>1 DEF ISane, Sane
<1>3. d \in Date
  <2>1. row.sent + 1 \in Nat
    BY <1>1
  <2> QED
    BY <1>1, <2>1, StepWaits
<1>4. /\ recorded \in Row /\ pinned.sent = row.sent + 1 /\ recorded.sent = row.sent + 1
      /\ recorded.status = "CONTACTED" /\ pinned.status = "CONTACTED"
      /\ recorded.retries = 0 /\ pinned.retries = 0
  <2> HIDE DEF d
  <2>1. /\ row.sent + 1 \in 0..(MaxFollowUps + 1) /\ 0 \in 0..MaxRetryAttempts
        /\ 0 \in 0..(Lookback + 1)
    BY <1>1, <1>2, SequenceAssumption
  <2>2. recorded \in Row
    BY <1>1, <1>3, <2>1 DEF Row, LeadStatus
  <2> QED
    BY <1>1, <2>2 DEF Row
<1>5. from \in boxes => pinned \in Row
  <2> HIDE DEF d, recorded
  <2> QED
    BY <1>1, <1>4 DEF Row
<1>6. r = IF row.sent > 0 THEN recorded ELSE IF from \in boxes THEN pinned ELSE row
  <2> DEFINE x == IF row.sent > 0 THEN recorded ELSE IF from \in boxes THEN pinned ELSE row
  <2>1. lead' = [lead EXCEPT ![l] = x]
    BY Zenon DEF Recorded
  <2> HIDE DEF x
  <2>2. lead'[l] = x
    BY <1>1, <2>1
  <2> QED
    BY <2>2 DEF x
<1> HIDE DEF recorded, pinned, d
<1>7. r \in Row /\ lead' \in [Lead -> Row]
  <2>1. r \in Row
    BY <1>1, <1>4, <1>5, <1>6
  <2> HIDE DEF r
  <2>2. lead' = [lead EXCEPT ![l] = r]
    BY <1>1 DEF Recorded, r
  <2> QED
    BY <1>1, <2>1, <2>2
<1>8. send' = [send EXCEPT ![l] = NoSend] /\ send'[l] = NoSend /\ send' \in [Lead -> Sends]
  BY <1>1, NothingUnderWay DEF Recorded
<1>9. excused' \subseteq Lead
  BY DEF Recorded, TypeOK
<1>10. TypeOK'
  BY <1>7, <1>8, <1>9 DEF Recorded, TypeOK
<1>11. Sane(l)'
  <2>1. UNCHANGED <<replies, call>> /\ Sane(l)
    BY DEF Recorded, ISane
  <2>2. CASE r = row /\ row.sent = 0
    BY <1>2, <1>8, <2>1, <2>2, NothingUnderWay DEF Sane
  <2>3. CASE r.sent = row.sent + 1 /\ r.status = "CONTACTED" /\ r.retries = 0
    <3>1. r.sent > 0 /\ r.sent # 0
      BY <1>1, <2>3
    <3> QED
      BY <1>8, <2>1, <2>3, <3>1, NothingUnderWay, SequenceAssumption DEF Sane
  <2> QED
    BY <1>1, <1>4, <1>6, <2>2, <2>3
<1> QED
  BY <1>10, <1>11

LEMMA FailedSane ==
  ASSUME TypeOK, ISane, NEW l \in Lead, Failed(l)
  PROVE  TypeOK' /\ Sane(l)'
<1> USE DEF campVars
<1> DEFINE row == lead[l]
           n == IF row.sent > 0 /\ Exhausted(row) THEN 0 ELSE row.retries + 1
           d == IF Exhausted(row) THEN None ELSE 0
           st == IF Exhausted(row) THEN "SUPPRESSED" ELSE "QUEUED"
           later == [row EXCEPT !.retries = n, !.job = NoMailbox, !.next = d]
           first == [row EXCEPT !.retries = n, !.job = NoMailbox, !.status = st]
           r == lead'[l]
<1>1. /\ row \in Row /\ send[l].pc = "smtp" /\ row.sent \in Nat /\ row.retries \in Nat
      /\ lead \in [Lead -> Row] /\ send \in [Lead -> Sends]
  BY Rows DEF TypeOK, Sends, Failed
<1>2. row.retries < MaxRetryAttempts
  BY <1>1 DEF ISane, Sane
<1>3. /\ n \in 0..MaxRetryAttempts /\ d \in Date /\ st \in LeadStatus
      /\ row.sent > 0 \/ st # "SUPPRESSED" => n < MaxRetryAttempts
  BY <1>1, <1>2, SequenceAssumption, Dates DEF Exhausted, LeadStatus
<1>4. r = IF row.sent > 0 THEN later ELSE first
  <2> DEFINE x == IF row.sent > 0 THEN [Again(row) EXCEPT !.next = d]
                  ELSE [Again(row) EXCEPT !.status = st]
  <2>1. lead' = [lead EXCEPT ![l] = x]
    BY Zenon DEF Failed
  <2>2. x = IF row.sent > 0 THEN later ELSE first
    <3> HIDE DEF d, st
    <3> QED
      BY <1>1 DEF Again, Row
  <2> HIDE DEF x
  <2>3. lead'[l] = x
    BY <1>1, <2>1
  <2> QED
    BY <2>2, <2>3
<1> HIDE DEF n, d, st
<1>5. /\ later \in Row /\ first \in Row
      /\ later.sent = row.sent /\ later.retries = n /\ later.status = row.status
      /\ first.sent = row.sent /\ first.retries = n /\ first.status = st
  BY <1>1, <1>3 DEF Row
<1> HIDE DEF later, first
<1>6. r \in Row /\ lead' \in [Lead -> Row]
  <2>1. r \in Row
    BY <1>4, <1>5
  <2> HIDE DEF r
  <2>2. lead' = [lead EXCEPT ![l] = r]
    BY <1>1 DEF Failed, r
  <2> QED
    BY <1>1, <2>1, <2>2
<1>7. send' = [send EXCEPT ![l] = NoSend] /\ send'[l] = NoSend /\ send' \in [Lead -> Sends]
  BY <1>1, NothingUnderWay DEF Failed
<1>8. excused' \subseteq Lead /\ ended' \subseteq Lead
  BY DEF Failed, TypeOK
<1>9. TypeOK'
  BY <1>6, <1>7, <1>8 DEF Failed, TypeOK
<1>10. Sane(l)'
  <2>1. UNCHANGED <<replies, call>> /\ Sane(l)
    BY DEF Failed, ISane
  <2>2. st \in {"SUPPRESSED", "QUEUED"}
    BY DEF st
  <2>3. CASE row.sent > 0
    BY <1>1, <1>2, <1>3, <1>4, <1>5, <1>7, <2>1, <2>3, NothingUnderWay DEF Sane
  <2>4. CASE row.sent = 0
    BY <1>1, <1>2, <1>3, <1>4, <1>5, <1>7, <2>1, <2>2, <2>4, NothingUnderWay DEF Sane
  <2> QED
    BY <1>1, <2>3, <2>4
<1> QED
  BY <1>9, <1>10

LEMMA ReplySane ==
  ASSUME TypeOK, ISane, NEW l \in Lead, ReplyComes(l)
  PROVE  TypeOK' /\ Sane(l)'
<1> USE DEF campVars, pastVars
<1> DEFINE row == lead[l]
           r == IF row.status \in {"CONTACTED", "QUEUED"}
                THEN [row EXCEPT !.status = "REPLIED", !.next = None] ELSE row
           rs == Append(replies[l], [label |-> "UNCLASSIFIED", hold |-> 0])
<1>1. /\ lead \in [Lead -> Row] /\ row \in Row /\ row.sent > 0 /\ row.sent # 0
      /\ replies \in [Lead -> Seq(Reply)]
  BY Rows DEF TypeOK, ReplyComes
<1>2. lead' = [lead EXCEPT ![l] = r] /\ replies' = [replies EXCEPT ![l] = rs]
  BY DEF ReplyComes
<1>3. r \in Row
  BY <1>1, Rewrites, Dates DEF LeadStatus
<1>4. r.sent = row.sent /\ r.retries = row.retries
      /\ (r.status = row.status \/ (row.status \in {"CONTACTED", "QUEUED"} /\ r.status = "REPLIED"))
  BY <1>1 DEF Row
<1>5. rs \in Seq(Reply)
  <2>1. [label |-> "UNCLASSIFIED", hold |-> 0] \in Reply
    BY DEF Reply, Label
  <2> QED
    BY <1>1, <2>1
<1> HIDE DEF r, rs
<1>6. lead' \in [Lead -> Row] /\ replies' \in [Lead -> Seq(Reply)] /\ lead'[l] = r
  BY <1>1, <1>2, <1>3, <1>5
<1>7. TypeOK'
  BY <1>6 DEF ReplyComes, TypeOK
<1>8. Sane(l)'
  BY <1>1, <1>4, <1>6 DEF ReplyComes, ISane, Sane
<1> QED
  BY <1>7, <1>8

LEMMA LabelsSane ==
  ASSUME TypeOK, ISane, NEW l \in Lead, NEW i \in DOMAIN replies[l],
         NEW label \in Label \ {"UNCLASSIFIED"}, Labels(l, i, label)
  PROVE  TypeOK' /\ Sane(l)'
<1> USE DEF campVars, pastVars
<1> DEFINE row == lead[l]
           stop == IF row.status \in {"CONTACTED", "QUEUED"}
                   THEN [row EXCEPT !.status = "REPLIED", !.next = None] ELSE row
           start == [NoCall EXCEPT !.pc = "rest", !.row = row]
<1>1. /\ lead \in [Lead -> Row] /\ row \in Row /\ row.sent \in Nat
      /\ replies \in [Lead -> Seq(Reply)] /\ call \in [Lead -> Calls]
  BY Rows DEF TypeOK
<1>2. row.sent # 0 /\ row.sent > 0 /\ row.status \in {"CONTACTED", "REPLIED"}
  <2>1. row.sent # 0
    BY DEF ISane, Sane
  <2> QED
    BY <1>1, <2>1 DEF ISane, Sane
<1>3. acts' \in 0..MaxActs
  BY SequenceAssumption DEF Labels, Acts, TypeOK
<1>4. PICK h \in IF label = "OUT_OF_OFFICE" THEN Holds ELSE {0} :
        replies' = [replies EXCEPT ![l][i] = [label |-> label, hold |-> h]]
  BY DEF Labels
<1>5. replies' \in [Lead -> Seq(Reply)] /\ (replies'[l] = <<>> <=> replies[l] = <<>>)
  <2> DEFINE x == [label |-> label, hold |-> h]
             rs == [replies[l] EXCEPT ![i] = x]
  <2>1. x \in Reply
    BY SequenceAssumption DEF Reply
  <2>2. replies' = [replies EXCEPT ![l] = rs]
    BY <1>1, <1>4
  <2> HIDE DEF x
  <2>3. rs \in Seq(Reply) /\ rs # <<>>
    <3>1. replies[l] \in Seq(Reply) /\ DOMAIN replies[l] = 1..Len(replies[l])
      BY <1>1
    <3>2. DOMAIN rs = DOMAIN replies[l]
      OBVIOUS
    <3> QED
      BY <2>1, <3>1, <3>2
  <2>4. replies[l] # <<>>
    OBVIOUS
  <2> HIDE DEF rs
  <2> QED
    BY <1>1, <2>2, <2>3, <2>4
<1>6. stop \in Row /\ stop.status = "REPLIED" /\ stop.sent = row.sent /\ stop.retries = row.retries
  <2>1. stop \in Row
    BY <1>1, Rewrites, Dates DEF LeadStatus
  <2> QED
    BY <1>1, <1>2, <2>1 DEF Row
<1>7. start \in Calls /\ start.pc = "rest" /\ start.row = row
  BY <1>1, NothingUnderWay DEF Calls, NoCall
<1>8. /\ \/ lead' = [lead EXCEPT ![l] = stop] \/ UNCHANGED lead
      /\ \/ call' = [call EXCEPT ![l] = start] \/ UNCHANGED call
  <2>1. CASE label = "ANSWER"
    BY <2>1, Zenon DEF Labels
  <2>2. CASE label # "ANSWER"
    <3>1. UNCHANGED lead /\ call' = IF row.status \in {"REPLIED", "CONTACTED"}
                                    THEN [call EXCEPT ![l] = start] ELSE call
      BY <2>2, Zenon DEF Labels
    <3> HIDE DEF start
    <3> QED
      BY <3>1
  <2> QED
    BY <2>1, <2>2
<1> HIDE DEF stop, start
<1>9. lead' \in [Lead -> Row] /\ lead'[l] \in {row, stop} /\ call' \in [Lead -> Calls]
      /\ call'[l] \in {call[l], start}
  BY <1>1, <1>6, <1>7, <1>8
<1>10. TypeOK'
  BY <1>3, <1>5, <1>9 DEF Labels, TypeOK
<1>11. Sane(l)'
  <2>1. UNCHANGED send
    BY DEF Labels
  <2>2. /\ lead'[l].sent = row.sent /\ lead'[l].retries = row.retries
        /\ lead'[l].status \in {"CONTACTED", "REPLIED"}
    BY <1>2, <1>6, <1>9
  <2> QED
    BY <1>2, <1>7, <1>9, <2>1, <2>2 DEF ISane, Sane
<1> QED
  BY <1>10, <1>11

LEMMA OutcomeSane ==
  ASSUME TypeOK, ISane, NEW l \in Lead, Outcome(l)
  PROVE  TypeOK' /\ Sane(l)'
<1> USE DEF campVars, pastVars
<1> DEFINE c == call[l]
<1>1. /\ lead \in [Lead -> Row] /\ lead[l] \in Row /\ call \in [Lead -> Calls]
      /\ c \in Calls /\ c.row \in Row /\ c.replies \in Seq(Reply) /\ c.next \in Date
      /\ replies[l] \in Seq(Reply) /\ steps \in Plans /\ Sane(l)
  BY DEF TypeOK, Calls, ISane
<1>2. CASE OutcomeReads(l)
  <2> DEFINE x == [c EXCEPT !.pc = "write", !.replies = replies[l], !.steps = steps,
                            !.next = Resumed(c.row, replies[l])]
             y == IF ~Keeping(replies[l]) THEN NoCall ELSE x
  <2>1. Resumed(c.row, replies[l]) \in Date
    BY <1>1, ResumedDate
  <2>2. x \in Calls /\ x.pc = "write" /\ x.row = c.row
    BY <1>1, <2>1 DEF Calls
  <2>3. call' = [call EXCEPT ![l] = y]
    BY <1>2 DEF OutcomeReads
  <2> HIDE DEF x
  <2>4. call'[l] = y /\ call' \in [Lead -> Calls]
    BY <1>1, <2>2, <2>3, NothingUnderWay
  <2>5. TypeOK'
    BY <1>2, <2>4 DEF OutcomeReads, TypeOK
  <2>6. Sane(l)'
    BY <1>1, <1>2, <2>2, <2>4, NothingUnderWay DEF OutcomeReads, Sane
  <2> QED
    BY <2>5, <2>6
<1>3. CASE OutcomeWrites(l)
  <2> DEFINE r == IF lead[l].status = c.row.status
                  THEN [lead[l] EXCEPT !.status = "CONTACTED", !.next = c.next] ELSE lead[l]
  <2>1. r \in Row
    BY <1>1, Rewrites DEF LeadStatus
  <2>2. r.sent = lead[l].sent /\ r.retries = lead[l].retries
        /\ (r.status = lead[l].status \/ (r.status = "CONTACTED" /\ lead[l].status = c.row.status))
    BY <1>1 DEF Row
  <2>3. lead' = [lead EXCEPT ![l] = r] /\ call' = [call EXCEPT ![l] = NoCall]
    BY <1>3 DEF OutcomeWrites
  <2> HIDE DEF r
  <2>4. /\ lead'[l] = r /\ lead' \in [Lead -> Row]
        /\ call'[l] = NoCall /\ call' \in [Lead -> Calls]
    BY <1>1, <2>1, <2>3, NothingUnderWay
  <2>5. excused' \subseteq Lead
    BY <1>3 DEF OutcomeWrites, TypeOK
  <2>6. TypeOK'
    BY <1>3, <2>4, <2>5 DEF OutcomeWrites, TypeOK
  <2>7. Sane(l)'
    BY <1>1, <1>3, <2>2, <2>4, NothingUnderWay DEF OutcomeWrites, Sane
  <2> QED
    BY <2>6, <2>7
<1> QED
  BY <1>2, <1>3 DEF Outcome

LEMMA EarlierDate ==
  ASSUME NEW a \in Date, NEW b \in Date
  PROVE  /\ Earlier(a, b) \in Date
         /\ b # None => Earlier(a, b) # None /\ Earlier(a, b) <= b
         /\ a # None => Earlier(a, b) # None /\ Earlier(a, b) <= a
         /\ Earlier(a, b) \in {a, b}
<1>1. CASE a = None \/ b = None
  BY <1>1, Dates DEF Earlier
<1>2. CASE a # None /\ b # None
  <2>1. a \in Nat /\ b \in Nat
    BY <1>2, Dates
  <2>2. PICK m \in {a, b} : \A y \in {a, b} : m <= y
    BY <2>1
  <2>3. Min({a, b}) \in {a, b} /\ \A y \in {a, b} : Min({a, b}) <= y
    BY <2>2, Zenon DEF Min
  <2> QED
    BY <1>2, <2>1, <2>3, Dates DEF Earlier
<1> QED
  BY <1>1, <1>2

\* every row keeps its number of mails, its retries and its status
LEMMA AllRewritten ==
  ASSUME TypeOK, ISane, lead' \in [Lead -> Row],
         \A l \in Lead : /\ lead'[l].sent = lead[l].sent
                         /\ lead'[l].retries = lead[l].retries
                         /\ lead'[l].status = lead[l].status
                         /\ lead'[l].job = lead[l].job,
         \A l \in Lead : replies[l] = <<>> => replies'[l] = <<>>,
         UNCHANGED <<send, call>>
  PROVE  ISane'
  BY DEF TypeOK, ISane, Sane

LEMMA Acted == ASSUME acts \in 0..MaxActs, Acts PROVE acts' \in 0..MaxActs
  BY SequenceAssumption DEF Acts

LEMMA EditSane == ASSUME TypeOK, ISane, EditSteps PROVE TypeOK' /\ ISane'
<1> USE DEF TypeOK
<1> DEFINE d(l) == Since(nextStepAtAfter(steps', lead[l].sent), lead[l].age)
           r(l) == IF Redated(lead[l]) THEN [lead[l] EXCEPT !.next = d(l)] ELSE lead[l]
<1>1. steps' \in Plans /\ lead' = [l \in Lead |-> r(l)]
  BY DEF EditSteps
<1>2. ASSUME NEW l \in Lead
      PROVE  /\ r(l) \in Row /\ r(l).sent = lead[l].sent /\ r(l).retries = lead[l].retries
             /\ r(l).status = lead[l].status /\ r(l).job = lead[l].job
  <2>1. lead[l] \in Row /\ d(l) \in Date
    BY <1>1, Rows, StepWaits, SinceDate
  <2> HIDE DEF d
  <2>2. r(l) \in Row
    <3>1. lead[l].status \in LeadStatus
      BY <2>1, Rows
    <3> QED
      BY <2>1, <3>1, Rewrites
  <2> QED
    BY <2>1, <2>2 DEF Row
<1>3. least' \in [Lead -> Date]
  <2>1. ASSUME NEW l \in Lead PROVE Earlier(least[l], nextStepAtAfter(steps', lead[l].sent)) \in Date
    <3>1. lead[l].sent \in Nat /\ least[l] \in Date
      BY Rows
    <3> QED
      BY <1>1, <3>1, StepWaits, EarlierDate
  <2> QED
    BY <2>1 DEF EditSteps
<1> HIDE DEF r
<1>4. lead' \in [Lead -> Row]
  BY <1>1, <1>2
<1>5. acts' \in 0..MaxActs
  BY Acted DEF EditSteps
<1>6. ended' \subseteq Lead /\ redated' \subseteq Lead
  BY DEF EditSteps
<1>7. TypeOK'
  BY <1>1, <1>3, <1>4, <1>5, <1>6 DEF EditSteps
<1>8. ISane'
  BY <1>1, <1>2, <1>4, AllRewritten DEF EditSteps
<1> QED
  BY <1>7, <1>8

LEMMA DeleteSane ==
  ASSUME TypeOK, ISane, NEW m \in Mailbox, DeleteMailbox(m) PROVE TypeOK' /\ ISane'
<1> USE DEF TypeOK, pastVars
<1> DEFINE r(l) == IF lead[l].mailbox = m THEN [lead[l] EXCEPT !.mailbox = NoMailbox, !.next = None]
                   ELSE lead[l]
<1>1. lead' = [l \in Lead |-> r(l)]
  BY DEF DeleteMailbox
<1>2. ASSUME NEW l \in Lead
      PROVE  /\ r(l) \in Row /\ r(l).sent = lead[l].sent /\ r(l).retries = lead[l].retries
             /\ r(l).status = lead[l].status /\ r(l).job = lead[l].job
  <2>1. lead[l] \in Row
    OBVIOUS
  <2>2. r(l) \in Row
    <3>1. lead[l].status \in LeadStatus
      BY <2>1, Rows
    <3> QED
      BY <2>1, <3>1, Rewrites, Dates
  <2> QED
    BY <2>1, <2>2 DEF Row
<1> HIDE DEF r
<1>3. lead' \in [Lead -> Row]
  BY <1>1, <1>2
<1>4. acts' \in 0..MaxActs
  BY Acted DEF DeleteMailbox
<1>5. TypeOK'
  BY <1>3, <1>4 DEF DeleteMailbox
<1>6. ISane'
  BY <1>1, <1>2, <1>3, AllRewritten DEF DeleteMailbox
<1> QED
  BY <1>5, <1>6

LEMMA DaySane == ASSUME TypeOK, ISane, Day PROVE TypeOK' /\ ISane'
<1> USE DEF TypeOK, pastVars
<1> DEFINE n(l) == IF lead[l].next > 0 THEN lead[l].next - 1 ELSE lead[l].next
           a(l) == IF lead[l].sent > 0 /\ lead[l].age <= Lookback THEN lead[l].age + 1
                   ELSE lead[l].age
           r(l) == [lead[l] EXCEPT !.next = n(l), !.age = a(l)]
           x(l, i) == [replies[l][i] EXCEPT
                         !.hold = IF replies[l][i].hold > 0 THEN replies[l][i].hold - 1
                                  ELSE replies[l][i].hold]
           rs(l) == [i \in DOMAIN replies[l] |-> x(l, i)]
<1>1. lead' = [l \in Lead |-> r(l)] /\ replies' = [l \in Lead |-> rs(l)]
  BY DEF Day
<1>2. ASSUME NEW l \in Lead
      PROVE  /\ r(l) \in Row /\ r(l).sent = lead[l].sent /\ r(l).retries = lead[l].retries
             /\ r(l).status = lead[l].status /\ r(l).job = lead[l].job
  <2>1. lead[l] \in Row
    OBVIOUS
  <2>2. n(l) \in Date /\ a(l) \in 0..(Lookback + 1)
    BY <2>1, Rows, Dates, SequenceAssumption
  <2> HIDE DEF n, a
  <2> QED
    BY <2>1, <2>2 DEF Row
<1>3. ASSUME NEW l \in Lead PROVE rs(l) \in Seq(Reply) /\ (replies[l] = <<>> => rs(l) = <<>>)
  <2>1. replies[l] \in Seq(Reply)
    OBVIOUS
  <2>2. ASSUME NEW i \in DOMAIN replies[l] PROVE x(l, i) \in Reply
    <3> DEFINE h == IF replies[l][i].hold > 0 THEN replies[l][i].hold - 1
                    ELSE replies[l][i].hold
    <3>1. replies[l][i] \in Reply
      BY <2>1
    <3>2. h \in Nat
      BY <3>1 DEF Reply
    <3> HIDE DEF h
    <3>3. [replies[l][i] EXCEPT !.hold = h] \in Reply
      BY <3>1, <3>2 DEF Reply
    <3> QED
      BY <3>3 DEF x, h
  <2> HIDE DEF x
  <2>3. rs(l) \in [1..Len(replies[l]) -> Reply] /\ Len(replies[l]) \in Nat
    BY <2>1, <2>2
  <2>4. rs(l) \in Seq(Reply)
    BY <2>3
  <2>5. replies[l] = <<>> => rs(l) = <<>>
    BY <2>1, <2>3, <2>4
  <2> QED
    BY <2>4, <2>5
<1> HIDE DEF r, rs
<1>4. lead' \in [Lead -> Row] /\ replies' \in [Lead -> Seq(Reply)]
  BY <1>1, <1>2, <1>3
<1>5. TypeOK'
  BY <1>4 DEF Day, campVars
<1>6. ISane'
  BY <1>1, <1>2, <1>3, <1>4, AllRewritten DEF Day
<1> QED
  BY <1>5, <1>6

\* nobody's mail, date or answer changes
Idle ==
  UNCHANGED <<steps, boxes, lead, replies, send, call, pastVars>>

LEMMA IdleSane ==
  ASSUME TypeOK, ISane,
         Launch \/ Pause \/ EditSenders \/ TickCompletes \/ TickReopens \/ UNCHANGED vars
  PROVE  TypeOK' /\ ISane' /\ Idle
<1>1. Idle
  BY DEF Launch, Pause, EditSenders, TickCompletes, TickReopens, vars, Idle, campVars, pastVars
<1>2. /\ senders' \subseteq boxes' /\ status' \in CampaignStatus /\ stopped' \in BOOLEAN
  BY DEF Launch, Pause, EditSenders, TickCompletes, TickReopens, vars, campVars,
         CampaignStatus, TypeOK
<1>3. acts' \in 0..MaxActs
  <2>1. acts \in 0..MaxActs
    BY DEF TypeOK
  <2> QED
    BY <2>1, Acted DEF Launch, Pause, EditSenders, TickCompletes, TickReopens, vars
<1>4. TypeOK'
  BY <1>1, <1>2, <1>3 DEF TypeOK, Idle, pastVars
<1>5. ISane'
  BY <1>1 DEF ISane, Sane, Idle
<1> QED
  BY <1>1, <1>4, <1>5

\* a step of one lead, one of all, or one that touches none
LEMMA StepKinds ==
  ASSUME [Next]_vars
  PROVE  \/ Launch \/ Pause \/ EditSenders \/ TickCompletes \/ TickReopens \/ UNCHANGED vars
         \/ EditSteps \/ Day \/ \E m \in Mailbox : DeleteMailbox(m)
         \/ \E l \in Lead : OfLead(l)
  BY DEF Next, Owner, Tick, OfLead

LEMMA SaneStep == TypeOK /\ ISane /\ [Next]_vars => TypeOK' /\ ISane'
<1> SUFFICES ASSUME TypeOK, ISane, [Next]_vars PROVE TypeOK' /\ ISane'
  OBVIOUS
<1>1. ASSUME NEW l \in Lead, OfLead(l) PROVE TypeOK' /\ ISane'
  <2>1. TypeOK' /\ Sane(l)'
    BY <1>1, BookSane, ReleaseSane, AttemptSane, AcceptedSane, RecordedSane, FailedSane,
       ReplySane, LabelsSane, OutcomeSane DEF OfLead, Mail, Answer
  <2>2. ASSUME NEW k \in Lead \ {l} PROVE Sane(k)'
    BY <1>1, <2>2, OneLead DEF Others, Same, ISane, Sane
  <2> QED
    BY <2>1, <2>2 DEF ISane
<1> QED
  BY <1>1, StepKinds, IdleSane, EditSane, DeleteSane, DaySane

(* Rows, replies, mails on their way and calls under way keep their types.   *)
THEOREM SequenceTypes == Spec => []TypeOK
  BY TypeInit, SaneStep, PTL DEF Spec

-----------------------------------------------------------------------------
(* The other parts hold together: each leans on the ones before it.          *)
Parts(l) ==
  /\ Drawn(l)
  /\ Silent(l)
  /\ Going(l)
  /\ Resting(l)
  /\ Dated(l)
  /\ Patient(l)

IParts == \A l \in Lead : Parts(l)

\* what is known of a lead wherever types and Sane hold
LEMMA Known ==
  ASSUME TypeOK, ISane, NEW l \in Lead
  PROVE  /\ lead \in [Lead -> Row] /\ lead[l] \in Row
         /\ lead[l].sent \in Nat /\ lead[l].age \in Nat /\ lead[l].age <= Lookback + 1
         /\ lead[l].next \in Date /\ lead[l].next \in Int
         /\ lead[l].next # None => lead[l].next \in Nat
         /\ replies \in [Lead -> Seq(Reply)] /\ replies[l] \in Seq(Reply)
         /\ send \in [Lead -> Sends] /\ send[l] \in Sends
         /\ call \in [Lead -> Calls] /\ call[l] \in Calls
         /\ least \in [Lead -> Date] /\ least[l] \in Date /\ least[l] \in Int
         /\ steps \in Plans
         /\ Sane(l)
<1>1. lead[l] \in Row /\ least[l] \in Date
  BY DEF TypeOK
<1>2. least[l] \in Int
  BY <1>1, Dates
<1> QED
  BY <1>1, <1>2, Rows DEF TypeOK, ISane

LEMMA SamePart ==
  ASSUME NEW k \in Lead, Parts(k), Same(k), UNCHANGED <<steps, boxes>>
  PROVE  Parts(k)'
<1> USE DEF Same, Parts
<1>1. (Drawn(k) /\ Silent(k) /\ Going(k) /\ Resting(k) /\ Dated(k))'
  BY DEF Drawn, Silent, Going, Resting, Dated
<1>2. Patient(k)'
  BY DEF Patient, Waited
<1> QED
  BY <1>1, <1>2

LEMMA PartsInit == Init => IParts
<1> SUFFICES ASSUME Init, NEW l \in Lead PROVE Parts(l)
  BY DEF IParts
<1>1. /\ lead[l] = NewRow /\ send[l] = NoSend /\ call[l] = NoCall /\ least[l] = None
      /\ l \notin answered \cup disturbed \cup early
  BY DEF Init
<1>2. /\ lead[l].status = "ABSENT" /\ lead[l].sent = 0 /\ send[l].pc = "none"
      /\ call[l].pc = "none"
  BY <1>1 DEF NewRow, NoSend, NoCall
<1>3. 0 \notin DOMAIN steps
  BY SequenceAssumption DEF Init
<1>4. None <= Lookback + 1
  BY SequenceAssumption DEF None
<1> QED
  BY <1>1, <1>2, <1>3, <1>4
  DEF Parts, Drawn, Silent, Going, Resting, Dated, Patient

LEMMA BookParts ==
  ASSUME TypeOK, ISane, NEW l \in Lead, Parts(l), Import(l) \/ \E m \in Mailbox : Book(l, m)
  PROVE  Parts(l)'
<1>0. /\ UNCHANGED <<steps, boxes, replies, send, call, least, ended, excused, redated,
                     early, disturbed, answered>>
  BY DEF Import, Book, campVars, pastVars
<1>1. /\ lead'[l].sent = lead[l].sent /\ lead'[l].next = lead[l].next
      /\ lead'[l].age = lead[l].age /\ lead'[l].mailbox = lead[l].mailbox
      /\ \/ lead'[l].status = lead[l].status /\ Keeping(replies[l])
         \/ lead'[l].status \in {"UNTOUCHED", "QUEUED"}
  <2>0. lead \in [Lead -> Row] /\ lead[l] \in Row
    BY Known
  <2>1. CASE Import(l)
    BY <2>0, <2>1 DEF Import, Row
  <2>2. ASSUME NEW m \in Mailbox, FollowUpDue(l), lead' = [lead EXCEPT ![l].job = m]
        PROVE  lead'[l] = [lead[l] EXCEPT !.job = m] /\ Keeping(replies[l])
    BY <2>0, <2>2 DEF FollowUpDue
  <2>3. ASSUME NEW m \in Mailbox, lead' = [lead EXCEPT ![l].job = m, ![l].status = "QUEUED"]
        PROVE  lead'[l] = [lead[l] EXCEPT !.job = m, !.status = "QUEUED"]
    BY <2>0, <2>3
  <2>4. ASSUME NEW m \in Mailbox, Book(l, m)
        PROVE  \/ lead'[l] = [lead[l] EXCEPT !.job = m] /\ Keeping(replies[l])
               \/ lead'[l] = [lead[l] EXCEPT !.job = m, !.status = "QUEUED"]
    BY <2>2, <2>3, <2>4 DEF Book
  <2> QED
    BY <2>0, <2>1, <2>4 DEF Row
<1> QED
  BY <1>0, <1>1
  DEF Parts, Drawn, Silent, Going, Resting, Dated, Patient, Waited

LEMMA ReleaseParts ==
  ASSUME TypeOK, ISane, NEW l \in Lead, Parts(l), Release(l) \/ NothingToWrite(l)
  PROVE  Parts(l)'
<1>0. /\ UNCHANGED <<steps, boxes, replies, send, call, least, ended, excused, redated,
                     early, disturbed, answered>>
  BY DEF Release, NothingToWrite, campVars, pastVars
<1>1. /\ lead'[l].sent = lead[l].sent /\ lead'[l].job = NoMailbox
      /\ lead'[l].age = lead[l].age /\ lead'[l].mailbox = lead[l].mailbox
      /\ \/ lead'[l].status = lead[l].status
         \/ lead'[l].status = "UNTOUCHED"
      /\ \/ lead'[l].next = lead[l].next
         \/ lead'[l].next = None /\ lead[l].sent \notin DOMAIN steps
  BY Known DEF Release, NothingToWrite, Composable, Row
<1> QED
  BY <1>0, <1>1
  DEF Parts, Drawn, Silent, Going, Resting, Dated, Patient, Waited

LEMMA AttemptParts ==
  ASSUME TypeOK, ISane, NEW l \in Lead, Parts(l), Attempt(l)
  PROVE  Parts(l)'
<1>0. UNCHANGED <<steps, boxes, lead, replies, call, least, ended, excused, redated>>
  BY DEF Attempt, campVars
<1>1. send[l].pc = "none" /\ send'[l].pc = "smtp" /\ lead[l].job # NoMailbox
      /\ (lead[l].sent > 0 => lead[l].status = "CONTACTED" /\ lead[l].next = 0)
  BY Known, NothingUnderWay DEF Attempt, Booked, Fits, NoSend, Sends
<1>2. /\ l \in early' => l \in early \/ (lead[l].sent > 0 /\ lead[l].age < least[l])
      /\ l \in answered' => l \in answered \/ (lead[l].sent > 0 /\ ~Keeping(replies[l]))
      /\ l \in disturbed' => \/ l \in disturbed
                             \/ /\ lead[l].sent > 0 /\ call[l] = NoCall
                                /\ \E h \in Held(replies[l]) : h > 0
  BY DEF Attempt
<1>3. lead[l].sent > 0 /\ l \notin excused => Waited(l, lead[l].age)
  BY <1>1, Known, Dates DEF Parts, Patient, Waited, None
<1>4. Patient(l)'
  BY <1>0, <1>1, <1>2, <1>3, Known DEF Parts, Patient, Waited
<1>5. Silent(l)'
  BY <1>0, <1>1, <1>2 DEF Parts, Silent
<1>6. Resting(l)'
  <2>1. ASSUME l \notin excused \cup redated, lead[l].sent > 0, call[l] = NoCall,
               NEW h \in Held(replies[l]), h > 0
        PROVE  FALSE
    <3>1. Keeping(replies[l]) /\ lead[l].next # None
      BY <1>1, <2>1, Dates DEF Parts, Silent, None
    <3>2. h <= 0
      BY <1>1, <2>1, <3>1, NothingUnderWay DEF Parts, Resting
    <3>3. h \in Nat
      BY HeldBounded, Known DEF Held
    <3> QED
      BY <2>1, <3>2, <3>3
  <2> QED
    BY <1>0, <1>1, <1>2, <2>1 DEF Parts, Resting
<1>7. (Drawn(l) /\ Going(l) /\ Dated(l))'
  BY <1>0, <1>1 DEF Parts, Drawn, Going, Dated
<1> QED
  BY <1>4, <1>5, <1>6, <1>7 DEF Parts

LEMMA AcceptedParts ==
  ASSUME TypeOK, ISane, NEW l \in Lead, Parts(l), Accepted(l)
  PROVE  Parts(l)'
<1>0. UNCHANGED <<steps, boxes, lead, replies, call, ended, excused, redated,
                  early, disturbed, answered>>
  BY DEF Accepted, campVars
<1> DEFINE n == lead[l].sent + 1
<1>1. /\ send[l].pc = "smtp" /\ send'[l].pc = "write" /\ send'[l].steps = steps
      /\ least'[l] = nextStepAtAfter(steps, n)
  BY Known DEF Accepted, Sane, Sends
<1>2. /\ least'[l] <= Lookback + 1
      /\ n \in DOMAIN steps => least'[l] # None /\ least'[l] <= steps[n]
  <2>1. n \in Nat /\ steps \in Plans /\ None <= Lookback + 1
    BY Known, SequenceAssumption DEF None
  <2>2. n \in DOMAIN steps => steps[n] \in Nat
    BY <2>1, StepWaits
  <2> HIDE DEF n
  <2> QED
    BY <1>1, <2>1, <2>2, StepWaits, Dates
<1>3. Patient(l)'
  BY <1>0, <1>1, <1>2 DEF Parts, Patient, Waited
<1>4. (Drawn(l) /\ Silent(l) /\ Going(l) /\ Resting(l) /\ Dated(l))'
  BY <1>0, <1>1 DEF Parts, Drawn, Silent, Going, Resting, Dated
<1> QED
  BY <1>3, <1>4 DEF Parts

LEMMA RecordedParts ==
  ASSUME TypeOK, ISane, NEW l \in Lead, Parts(l), Recorded(l)
  PROVE  Parts(l)'
<1>0. /\ UNCHANGED <<steps, boxes, replies, call, least, ended, redated,
                     early, disturbed, answered>>
      /\ l \in excused => l \in excused'
  BY DEF Recorded, campVars
<1> DEFINE n == lead[l].sent + 1
           d == nextStepAtAfter(send[l].steps, n)
<1>1. /\ send[l].pc = "write" /\ send'[l].pc = "none" /\ n \in Nat /\ Sane(l)
      /\ send[l].steps \in Plans \cup {<<>>}
      /\ l \notin excused' => steps = send[l].steps /\ ~Overtaken(l)
  BY Known, NothingUnderWay DEF Recorded, Sends
<1>2. \/ lead'[l] = lead[l] /\ lead[l].sent = 0
      \/ /\ lead'[l].status = "CONTACTED" /\ lead'[l].job = NoMailbox
         /\ lead'[l].sent = n /\ lead'[l].next = d /\ lead'[l].age = 0
  <2> DEFINE row == lead[l]
             from == send[l].row.job
             recorded == [row EXCEPT !.status = "CONTACTED", !.retries = 0, !.sent = @ + 1,
                                     !.age = 0, !.next = d, !.job = NoMailbox]
             pinned == [recorded EXCEPT !.mailbox = from]
             x == IF row.sent > 0 THEN recorded ELSE IF from \in boxes THEN pinned ELSE row
  <2>1. lead' = [lead EXCEPT ![l] = x]
    BY Zenon DEF Recorded
  <2>2. lead'[l] = x
    <3> HIDE DEF x
    <3> QED
      BY <2>1, Known
  <2> HIDE DEF d
  <2> QED
    BY <2>2, Known DEF Row
<1>3. /\ d \in Date
      /\ n \in DOMAIN send[l].steps => d = send[l].steps[n] /\ d # None /\ d \in Nat
      /\ n \notin DOMAIN send[l].steps => d = None
  <2> HIDE DEF n
  <2> QED
    BY <1>1, StepWaits, Dates
<1> HIDE DEF d
<1>4. CASE lead'[l] = lead[l] /\ lead[l].sent = 0
  <2>1. lead[l].status \notin {"CONTACTED", "REPLIED"} /\ 0 \notin DOMAIN steps
    <3>1. steps \in Seq(Nat)
      BY Known, SequenceAssumption
    <3> QED
      BY <1>1, <1>4, <3>1 DEF Sane
  <2> QED
    BY <1>0, <1>1, <1>4, <2>1
    DEF Parts, Drawn, Silent, Going, Resting, Dated, Patient, Waited
<1>5. CASE /\ lead'[l].status = "CONTACTED" /\ lead'[l].job = NoMailbox
           /\ lead'[l].sent = n /\ lead'[l].next = d /\ lead'[l].age = 0
  <2>1. Resting(l)'
    <3>1. ASSUME l \notin excused' \cup redated, d # None, Keeping(replies[l]),
                 call[l].pc = "none", NEW h \in Held(replies[l])
          PROVE  h <= d
      <4>1. lead[l].sent > 0
        <5>1. lead[l].sent # 0
          BY <1>1, <3>1 DEF Sane, Held
        <5> QED
          BY <5>1, Known
      <4>2. lead[l].status = "CONTACTED" /\ lead[l].next = 0
        BY <1>0, <1>1, <3>1, <4>1 DEF Overtaken, Sane, Parts, Going
      <4>3. h <= 0
        BY <1>0, <3>1, <4>2, Dates DEF Parts, Resting, None
      <4>4. h \in Nat /\ d \in Nat
        BY <1>3, <3>1, HeldBounded, Known, Dates DEF Held
      <4> QED
        BY <4>3, <4>4
    <3> QED
      BY <1>0, <1>5, <3>1 DEF Parts, Resting
  <2>2. Dated(l)'
    BY <1>0, <1>1, <1>3, <1>5 DEF Dated
  <2>3. Patient(l)'
    <3>1. ASSUME l \notin excused', n \in DOMAIN send[l].steps
          PROVE  Waited(l, d)
      BY <1>0, <1>1, <1>3, <3>1 DEF Parts, Patient, Waited
    <3>2. ASSUME l \notin excused', d # None PROVE Waited(l, d + 0)
      <4>1. d + 0 = d
        BY <1>3, Dates
      <4> QED
        BY <1>3, <3>1, <3>2, <4>1
    <3>3. l \notin excused' /\ n \in DOMAIN steps => Waited(l, steps[n])
      BY <1>1, <1>3, <3>1
    <3> HIDE DEF n
    <3>4. /\ least'[l] <= Lookback + 1
          /\ l \notin excused' => l \notin early
      BY <1>0 DEF Parts, Patient
    <3> QED
      BY <1>0, <1>1, <1>5, <3>2, <3>3, <3>4 DEF Patient, Waited
  <2>4. (Drawn(l) /\ Silent(l) /\ Going(l))'
    BY <1>0, <1>5 DEF Parts, Drawn, Silent, Going
  <2> QED
    BY <2>1, <2>2, <2>3, <2>4 DEF Parts
<1> QED
  BY <1>2, <1>4, <1>5

LEMMA FailedParts ==
  ASSUME TypeOK, ISane, NEW l \in Lead, Parts(l), Failed(l)
  PROVE  Parts(l)'
<1>0. /\ UNCHANGED <<steps, boxes, replies, call, least, redated, early, disturbed, answered>>
      /\ l \in excused => l \in excused'
      /\ l \notin excused' => ~Overtaken(l)
      /\ l \in ended => l \in ended'
      /\ lead[l].sent > 0 /\ Exhausted(lead[l]) => l \in ended'
  BY Known DEF Failed, campVars
<1>1. send[l].pc = "smtp" /\ send'[l].pc = "none" /\ Sane(l)
  BY Known, NothingUnderWay DEF Failed
<1>2. /\ lead'[l].sent = lead[l].sent /\ lead'[l].job = NoMailbox
      /\ lead'[l].age = lead[l].age /\ lead'[l].mailbox = lead[l].mailbox
      /\ IF lead[l].sent > 0
         THEN /\ lead'[l].status = lead[l].status
              /\ lead'[l].next = IF Exhausted(lead[l]) THEN None ELSE 0
         ELSE lead'[l].status \in {"SUPPRESSED", "QUEUED"}
  <2> DEFINE row == lead[l]
             d == IF Exhausted(row) THEN None ELSE 0
             st == IF Exhausted(row) THEN "SUPPRESSED" ELSE "QUEUED"
             x == IF row.sent > 0 THEN [Again(row) EXCEPT !.next = d]
                  ELSE [Again(row) EXCEPT !.status = st]
  <2>1. lead' = [lead EXCEPT ![l] = x]
    BY Zenon DEF Failed
  <2>2. lead'[l] = x
    <3> HIDE DEF x
    <3> QED
      BY <2>1, Known
  <2>3. st \in {"SUPPRESSED", "QUEUED"}
    OBVIOUS
  <2> HIDE DEF d, st
  <2>4. /\ lead'[l].sent = lead[l].sent /\ lead'[l].job = NoMailbox
        /\ lead'[l].age = lead[l].age /\ lead'[l].mailbox = lead[l].mailbox
        /\ IF lead[l].sent > 0 THEN lead'[l].status = lead[l].status /\ lead'[l].next = d
           ELSE lead'[l].status = st
    BY <2>2, Known DEF Row, Again
  <2> QED
    BY <2>3, <2>4 DEF d
<1>3. Resting(l)'
  <2>1. ASSUME l \notin excused' \cup redated, lead[l].status = "CONTACTED", lead[l].sent > 0,
               Keeping(replies[l]), call[l].pc = "none", NEW h \in Held(replies[l])
        PROVE  h <= 0
    <3>1. lead[l].next = 0
      BY <1>0, <1>1, <2>1 DEF Overtaken, Sane
    <3> QED
      BY <1>0, <2>1, <3>1, Dates DEF Parts, Resting, None
  <2>2. lead'[l].status = "CONTACTED" => lead[l].sent > 0 /\ lead[l].status = "CONTACTED"
    BY <1>2
  <2> QED
    BY <1>0, <1>2, <2>1, <2>2 DEF Parts, Resting
<1>4. Dated(l)'
  BY <1>0, <1>1, <1>2, Dates DEF Dated, None
<1>5. Patient(l)'
  <2>1. ASSUME l \notin excused', lead'[l].status = "CONTACTED", lead'[l].next # None
        PROVE  Waited(l, lead'[l].next + lead[l].age)
    <3>1. lead[l].sent > 0 /\ lead'[l].next = 0
      BY <1>2, <2>1
    <3>2. Waited(l, lead[l].age) /\ lead'[l].next + lead[l].age = lead[l].age
      BY <1>0, <1>1, <2>1, <3>1, Known DEF Parts, Patient
    <3> QED
      BY <3>2
  <2> QED
    BY <1>0, <1>1, <1>2, <2>1 DEF Parts, Patient, Waited
<1>6. (Drawn(l) /\ Silent(l) /\ Going(l))'
  BY <1>0, <1>2 DEF Parts, Drawn, Silent, Going
<1> QED
  BY <1>3, <1>4, <1>5, <1>6 DEF Parts

LEMMA ReplyParts ==
  ASSUME TypeOK, ISane, NEW l \in Lead, Parts(l), ReplyComes(l)
  PROVE  Parts(l)'
<1>0. UNCHANGED <<steps, boxes, send, call, least, ended, excused, redated,
                  early, disturbed, answered>>
  BY DEF ReplyComes, campVars, pastVars
<1>1. /\ lead'[l].status = "REPLIED"
      /\ lead'[l].sent = lead[l].sent /\ lead'[l].age = lead[l].age
  <2>1. lead[l].sent > 0 /\ Sane(l)
    BY Known DEF ReplyComes
  <2>2. lead[l].status \in {"CONTACTED", "REPLIED"}
    BY <2>1 DEF Sane
  <2> QED
    BY <2>2, Known DEF ReplyComes, Row
<1>2. ~Keeping(replies'[l])
  <2> DEFINE x == [label |-> "UNCLASSIFIED", hold |-> 0]
             n == Len(replies[l]) + 1
  <2>1. replies'[l] = Append(replies[l], x)
    BY Known DEF ReplyComes
  <2>2. n \in DOMAIN replies'[l] /\ replies'[l][n] = x
    <3>1. x \in Reply
      BY DEF Reply, Label
    <3> HIDE DEF x
    <3> QED
      BY <2>1, <3>1, Known
  <2>3. replies'[l][n].label = "UNCLASSIFIED"
    BY <2>2
  <2> HIDE DEF n, x
  <2> QED
    BY <2>2, <2>3 DEF Keeping
<1> QED
  BY <1>0, <1>1, <1>2 DEF Parts, Drawn, Silent, Going, Resting, Dated, Patient, Waited

LEMMA LabelsParts ==
  ASSUME TypeOK, ISane, NEW l \in Lead, Parts(l), NEW i \in DOMAIN replies[l],
         NEW label \in Label \ {"UNCLASSIFIED"}, Labels(l, i, label)
  PROVE  Parts(l)'
<1>0. UNCHANGED <<steps, boxes, send, least, ended, excused, redated,
                  early, disturbed, answered>>
  BY DEF Labels, campVars, pastVars
<1>1. call[l].pc = "none" /\ lead[l].status \in {"CONTACTED", "REPLIED"}
  <2>1. replies[l] # <<>>
    OBVIOUS
  <2>2. lead[l].sent # 0
    BY <2>1, Known DEF Sane
  <2>3. lead[l].status \in {"CONTACTED", "REPLIED"}
    BY <2>2, Known DEF Sane
  <2> QED
    BY <2>3, NothingUnderWay DEF Labels
<1>2. PICK h : replies' = [replies EXCEPT ![l][i] = [label |-> label, hold |-> h]]
  BY DEF Labels
<1>3. /\ DOMAIN replies'[l] = DOMAIN replies[l] /\ replies'[l][i].label = label
      /\ \A j \in DOMAIN replies[l] : j # i => replies'[l][j] = replies[l][j]
  BY <1>2, Known
<1>4. CASE label = "ANSWER"
  <2>1. ~Keeping(replies'[l])
    BY <1>3, <1>4 DEF Keeping
  <2>2. /\ lead'[l].status = "REPLIED" /\ UNCHANGED call
        /\ lead'[l].sent = lead[l].sent /\ lead'[l].age = lead[l].age
    <3>1. /\ lead' = [lead EXCEPT ![l] =
               IF lead[l].status \in {"CONTACTED", "QUEUED"}
               THEN [lead[l] EXCEPT !.status = "REPLIED", !.next = None] ELSE lead[l]]
          /\ UNCHANGED call
      BY <1>4, Zenon DEF Labels
    <3> QED
      BY <1>1, <3>1, Known DEF Row
  <2> QED
    BY <1>0, <2>1, <2>2 DEF Parts, Drawn, Silent, Going, Resting, Dated, Patient, Waited
<1>5. CASE label # "ANSWER"
  <2>1. UNCHANGED lead /\ call'[l].pc = "rest"
    <3>1. /\ UNCHANGED lead
          /\ call' = IF lead[l].status \in {"REPLIED", "CONTACTED"}
                     THEN [call EXCEPT ![l] = [NoCall EXCEPT !.pc = "rest", !.row = lead[l]]]
                     ELSE call
      BY <1>5, Zenon DEF Labels
    <3> QED
      BY <1>1, <3>1, Known DEF NoCall
  <2>2. Keeping(replies[l]) => Keeping(replies'[l])
    BY <1>3, <1>5 DEF Keeping, Label
  <2> QED
    BY <1>0, <2>1, <2>2 DEF Parts, Drawn, Silent, Going, Resting, Dated, Patient, Waited
<1> QED
  BY <1>4, <1>5

LEMMA ReadsParts ==
  ASSUME TypeOK, ISane, NEW l \in Lead, Parts(l), OutcomeReads(l)
  PROVE  Parts(l)'
<1>0. UNCHANGED <<steps, boxes, lead, replies, send, least, ended, excused, redated,
                  early, disturbed, answered>>
  BY DEF OutcomeReads, campVars, pastVars
<1> DEFINE c == call[l]
           x == [c EXCEPT !.pc = "write", !.replies = replies[l], !.steps = steps,
                          !.next = Resumed(c.row, replies[l])]
<1>1. call'[l] = IF ~Keeping(replies[l]) THEN NoCall ELSE x
  BY Known DEF OutcomeReads
<1>2. Drawn(l)'
  <2>1. CASE ~Keeping(replies[l])
    BY <1>1, <2>1, NothingUnderWay DEF Drawn
  <2>2. CASE Keeping(replies[l])
    <3>1. /\ x.row = c.row /\ x.replies = replies[l] /\ x.steps = steps
          /\ x.next = Resumed(c.row, replies[l])
      BY Known DEF Calls
    <3>2. c.row \in Row
      BY Known DEF Calls
    <3>3. LET s == Scheduled(c.row, steps)
          IN  /\ x.next = None <=> s = None
              /\ s # None => s <= x.next /\ \A h \in Held(replies[l]) : h <= x.next
      BY <3>1, <3>2, Known, ResumedDate
    <3>4. call'[l] = x
      BY <1>1, <2>2
    <3>5. Scheduled(c.row, steps) \in Int /\ x.next \in Int
      BY <3>1, <3>2, Known, ResumedDate, Dates
    <3> HIDE DEF x
    <3> QED
      BY <2>2, <3>1, <3>3, <3>4, <3>5 DEF Drawn
  <2> QED
    BY <2>1, <2>2
<1>3. call'[l].pc = "write" \/ ~Keeping(replies[l])
  BY <1>1, Known DEF Calls
<1>4. Patient(l)'
  BY <1>0 DEF Parts, Patient, Waited
<1>5. (Silent(l) /\ Going(l) /\ Resting(l) /\ Dated(l))'
  BY <1>0, <1>3 DEF Parts, Silent, Going, Resting, Dated
<1> QED
  BY <1>2, <1>4, <1>5 DEF Parts

LEMMA WritesParts ==
  ASSUME TypeOK, ISane, NEW l \in Lead, Parts(l), OutcomeWrites(l)
  PROVE  Parts(l)'
<1> DEFINE c == call[l]
           due == Scheduled(lead[l], steps)
<1>0. /\ UNCHANGED <<steps, boxes, replies, send, least, ended, redated,
                     early, disturbed, answered>>
      /\ l \in excused => l \in excused'
      /\ c.pc = "write" /\ call'[l] = NoCall /\ call'[l].pc = "none"
      /\ l \notin excused' => lead[l] = c.row /\ replies[l] = c.replies /\ steps = c.steps
  BY Known, NothingUnderWay DEF OutcomeWrites, campVars
<1>1. lead'[l] = IF lead[l].status = c.row.status
                 THEN [lead[l] EXCEPT !.status = "CONTACTED", !.next = c.next] ELSE lead[l]
  BY Known DEF OutcomeWrites
<1>2. lead'[l].sent = lead[l].sent /\ lead'[l].age = lead[l].age
      /\ lead'[l].mailbox = lead[l].mailbox
  BY <1>1, Known DEF Row
<1>3. CASE l \in excused'
  BY <1>0, <1>2, <1>3
  DEF Parts, Drawn, Silent, Going, Resting, Dated, Patient, Waited
<1>4. CASE l \notin excused'
  <2>1. lead'[l].status = "CONTACTED" /\ lead'[l].next = c.next
    BY <1>0, <1>1, <1>4, Known DEF Row
  <2>2. /\ Keeping(replies[l]) /\ (c.next = None <=> due = None)
        /\ due # None => c.next >= due /\ \A h \in Held(replies[l]) : h <= c.next
    BY <1>0, <1>4 DEF Parts, Drawn
  <2>3. due \in Date /\ due \in Int /\ c.next \in Int
    BY Known, ResumedDate, Dates DEF Calls
  <2>4. lead[l].status \in {"CONTACTED", "REPLIED"}
    BY <1>0, <1>4, Known DEF Sane
  <2> DEFINE n == lead[l].sent
  <2>5. n \in Nat /\ lead[l].age \in Nat
    BY Known
  <2>6. lead[l].status = "CONTACTED" => due = lead[l].next
    BY DEF Scheduled
  <2>7. ASSUME lead[l].status = "REPLIED"
        PROVE  /\ due = None <=> n \notin DOMAIN steps
               /\ due # None => steps[n] \in Nat /\ steps[n] <= due + lead[l].age
    <3>1. due = Since(nextStepAtAfter(steps, n), lead[l].age)
      BY <2>7 DEF Scheduled
    <3> HIDE DEF n, due
    <3>2. CASE n \in DOMAIN steps
      <4>1. nextStepAtAfter(steps, n) = steps[n] /\ steps[n] \in Nat
        BY <2>5, <3>2, Known, StepWaits
      <4>2. steps[n] \in Date /\ steps[n] # None
        BY <4>1, Dates
      <4> QED
        BY <2>5, <3>1, <3>2, <4>1, <4>2, SinceDate
    <3>3. CASE n \notin DOMAIN steps
      <4>1. nextStepAtAfter(steps, n) = None
        BY <2>5, <3>3, Known, StepWaits
      <4> QED
        BY <2>5, <3>1, <3>3, <4>1, SinceDate, Dates
    <3> QED
      BY <3>2, <3>3
  <2> HIDE DEF due
  <2>8. Dated(l)'
    BY <1>0, <1>2, <1>4, <2>1, <2>2, <2>4, <2>6, <2>7 DEF Parts, Dated
  <2>9. Patient(l)'
    <3>1. ASSUME send[l].pc = "none", c.next # None
          PROVE  Waited(l, c.next + lead[l].age)
      <4>1. due # None /\ c.next >= due
        BY <2>2, <3>1
      <4>2. Waited(l, due + lead[l].age)
        <5>1. CASE lead[l].status = "CONTACTED"
          BY <1>0, <1>4, <2>6, <3>1, <4>1, <5>1 DEF Parts, Patient
        <5>2. CASE lead[l].status = "REPLIED"
          <6>1. Waited(l, steps[n])
            BY <1>0, <1>4, <2>7, <3>1, <4>1, <5>2 DEF Parts, Patient
          <6>2. steps[n] \in Nat /\ steps[n] <= due + lead[l].age
            BY <2>7, <4>1, <5>2
          <6> QED
            BY <2>3, <2>5, <6>1, <6>2, Known DEF Waited
        <5> QED
          BY <2>4, <5>1, <5>2
      <4> QED
        BY <2>3, <2>5, <4>1, <4>2, Known DEF Waited
    <3>2. /\ least[l] <= Lookback + 1 /\ l \notin early
          /\ send[l].pc = "smtp" /\ n > 0 => Waited(l, lead[l].age)
          /\ send[l].pc # "write" /\ n \in DOMAIN steps => Waited(l, steps[n])
          /\ send[l].pc = "write" /\ n + 1 \in DOMAIN send[l].steps =>
               Waited(l, send[l].steps[n + 1])
      BY <1>0, <1>4 DEF Parts, Patient
    <3> QED
      BY <1>0, <1>2, <2>1, <3>1, <3>2 DEF Patient, Waited
  <2>10. Resting(l)'
    BY <1>0, <2>1, <2>2, <1>4 DEF Parts, Resting
  <2>11. (Drawn(l) /\ Silent(l) /\ Going(l))'
    BY <1>0, <2>1, <2>2, <1>4 DEF Parts, Drawn, Silent, Going
  <2> QED
    BY <2>8, <2>9, <2>10, <2>11 DEF Parts
<1> QED
  BY <1>3, <1>4

LEMMA EditParts ==
  ASSUME TypeOK, ISane, NEW l \in Lead, Parts(l), EditSteps
  PROVE  Parts(l)'
<1> DEFINE n == lead[l].sent
           w == nextStepAtAfter(steps', n)
           d == Since(w, lead[l].age)
<1>0. /\ UNCHANGED <<boxes, replies, send, call, excused, early, disturbed, answered>>
      /\ steps' \in Plans
      /\ n \in Nat /\ lead[l].age \in Nat /\ lead[l].next \in Int /\ least[l] \in Date
      /\ Sane(l)
      /\ l \in redated => l \in redated'
  BY Known DEF EditSteps
<1>1. lead'[l] = IF Redated(lead[l]) THEN [lead[l] EXCEPT !.next = d] ELSE lead[l]
  BY Known DEF EditSteps
<1>2. /\ lead'[l].sent = n /\ lead'[l].age = lead[l].age
      /\ lead'[l].mailbox = lead[l].mailbox /\ lead'[l].status = lead[l].status
      /\ lead'[l].job = lead[l].job
      /\ lead'[l].next = IF Redated(lead[l]) THEN d ELSE lead[l].next
  BY <1>1, Known DEF Row
<1>3. least'[l] = Earlier(least[l], w)
  BY Known DEF EditSteps
<1>4. /\ w \in Date /\ d \in Date /\ (d = None <=> w = None)
      /\ d # None => w <= d + lead[l].age
      /\ n \in DOMAIN steps' <=> w # None
      /\ n \in DOMAIN steps' => w = steps'[n]
      /\ w <= Lookback + 1
  <2> HIDE DEF n, w
  <2>1. /\ w \in Date /\ w <= Lookback + 1
        /\ n \in DOMAIN steps' <=> w # None
        /\ n \in DOMAIN steps' => w = steps'[n]
    <3>1. None <= Lookback + 1
      BY SequenceAssumption DEF None
    <3>2. CASE n \in DOMAIN steps'
      BY <1>0, <3>2, StepWaits, Dates DEF w
    <3>3. CASE n \notin DOMAIN steps'
      BY <1>0, <3>1, <3>3, StepWaits DEF w
    <3> QED
      BY <1>0, <3>2, <3>3, StepWaits DEF w
  <2> QED
    BY <1>0, <2>1, SinceDate
<1> HIDE DEF w
<1>5. /\ least'[l] \in {least[l], w} /\ least'[l] \in Date
      /\ w # None => least'[l] # None /\ least'[l] <= w
      /\ least[l] # None => least'[l] # None /\ least'[l] <= least[l]
  BY <1>0, <1>3, <1>4, EarlierDate
<1>6. /\ least'[l] \in Int /\ least[l] \in Int /\ w \in Int /\ d \in Int
  BY <1>0, <1>4, <1>5, Dates
<1> HIDE DEF d
<1>7. Resting(l)'
  <2>1. ASSUME l \notin redated', d # None, Redated(lead[l]), NEW h \in Held(replies[l])
        PROVE  h <= d
    <3>1. ~(h > 0)
      BY <2>1, Known DEF EditSteps
    <3>2. h \in Nat
      BY <2>1, HeldBounded, Known DEF Held
    <3>3. d \in Nat
      BY <1>4, <2>1, Dates
    <3> QED
      BY <3>1, <3>2, <3>3
  <2> QED
    BY <1>0, <1>2, <2>1 DEF Parts, Resting
<1>8. Dated(l)'
  <2>1. ASSUME lead[l].status = "CONTACTED", n \in DOMAIN steps', l \notin ended'
        PROVE  lead'[l].next # None
    <3>1. ~Missed(lead[l])
      BY <2>1, Known DEF EditSteps
    <3>2. n > 0
      BY <1>0, <2>1, StepWaits
    <3> QED
      BY <1>0, <1>2, <1>4, <2>1, <3>1, <3>2, SequenceAssumption DEF Missed, Redated
  <2> QED
    BY <1>0, <1>2, <2>1 DEF Dated
<1>9. Patient(l)'
  <2>1. least'[l] <= Lookback + 1
    BY <1>4, <1>5 DEF Parts, Patient
  <2>2. ASSUME l \notin excused, send[l].pc = "none", lead[l].status = "CONTACTED",
               lead'[l].next # None
        PROVE  least'[l] # None /\ least'[l] <= lead'[l].next + lead[l].age
    <3>1. CASE Redated(lead[l])
      BY <1>0, <1>2, <1>4, <1>5, <1>6, <2>2, <3>1
    <3>2. CASE ~Redated(lead[l])
      <4>1. Waited(l, lead[l].next + lead[l].age)
        BY <1>2, <2>2, <3>2 DEF Parts, Patient
      <4> QED
        BY <1>0, <1>2, <1>5, <1>6, <3>2, <4>1 DEF Waited
    <3> QED
      BY <3>1, <3>2
  <2>3. ASSUME l \notin excused, send[l].pc = "smtp", n > 0
        PROVE  least'[l] # None /\ least'[l] <= lead[l].age
    BY <1>0, <1>5, <1>6, <2>3 DEF Parts, Patient, Waited
  <2>4. n \in DOMAIN steps' => least'[l] # None /\ least'[l] <= steps'[n]
    BY <1>4, <1>5
  <2>5. ASSUME l \notin excused, send[l].pc = "write", n + 1 \in DOMAIN send[l].steps
        PROVE  least'[l] # None /\ least'[l] <= send[l].steps[n + 1]
    <3>1. least[l] # None /\ least[l] <= send[l].steps[n + 1]
      BY <2>5 DEF Parts, Patient, Waited
    <3>2. send[l].steps[n + 1] \in Nat
      <4>1. send[l].steps \in Plans \cup {<<>>} /\ n + 1 \in Nat
        BY <1>0, Known DEF Sends
      <4> QED
        BY <2>5, <4>1, StepWaits
    <3> QED
      BY <1>5, <1>6, <3>1, <3>2
  <2>6. l \notin excused => l \notin early
    BY DEF Parts, Patient
  <2> HIDE DEF n
  <2> QED
    BY <1>0, <1>2, <2>1, <2>2, <2>3, <2>4, <2>5, <2>6 DEF Patient, Waited
<1>10. (Drawn(l) /\ Silent(l) /\ Going(l))'
  BY <1>0, <1>2 DEF Parts, Drawn, Silent, Going
<1> QED
  BY <1>7, <1>8, <1>9, <1>10 DEF Parts

LEMMA DeleteParts ==
  ASSUME TypeOK, ISane, NEW l \in Lead, Parts(l), NEW m \in Mailbox, DeleteMailbox(m)
  PROVE  Parts(l)'
<1>0. /\ UNCHANGED <<steps, replies, send, call, least, ended, excused, redated,
                     early, disturbed, answered>>
      /\ boxes' \subseteq boxes
      /\ NoMailbox \notin boxes'
  BY SequenceAssumption DEF DeleteMailbox, pastVars, TypeOK
<1>1. /\ lead'[l].sent = lead[l].sent /\ lead'[l].age = lead[l].age
      /\ lead'[l].status = lead[l].status /\ lead'[l].job = lead[l].job
      /\ \/ lead'[l].mailbox = lead[l].mailbox /\ lead'[l].next = lead[l].next
         \/ lead'[l].mailbox = NoMailbox /\ lead'[l].next = None
  BY Known DEF DeleteMailbox, Row
<1>2. Patient(l)'
  BY <1>0, <1>1 DEF Parts, Patient, Waited
<1>3. (Resting(l) /\ Dated(l))'
  BY <1>0, <1>1 DEF Parts, Resting, Dated
<1>4. (Drawn(l) /\ Silent(l) /\ Going(l))'
  BY <1>0, <1>1 DEF Parts, Drawn, Silent, Going
<1> QED
  BY <1>2, <1>3, <1>4 DEF Parts

LEMMA DayParts ==
  ASSUME TypeOK, ISane, NEW l \in Lead, Parts(l), Day
  PROVE  Parts(l)'
<1> DEFINE n == IF lead[l].next > 0 THEN lead[l].next - 1 ELSE lead[l].next
           a == IF lead[l].sent > 0 /\ lead[l].age <= Lookback THEN lead[l].age + 1
                ELSE lead[l].age
<1>0. /\ UNCHANGED <<steps, boxes, send, call, least, ended, excused, redated,
                     early, disturbed, answered>>
      /\ send[l].pc = "none" /\ call[l].pc = "none"
  BY NothingUnderWay DEF Day, campVars, pastVars
<1>1. /\ lead'[l].sent = lead[l].sent /\ lead'[l].status = lead[l].status
      /\ lead'[l].job = lead[l].job /\ lead'[l].mailbox = lead[l].mailbox
      /\ lead'[l].next = n /\ lead'[l].age = a
  <2>1. lead' = [k \in Lead |->
          [lead[k] EXCEPT !.next = IF lead[k].next > 0 THEN lead[k].next - 1 ELSE lead[k].next,
                          !.age = IF lead[k].sent > 0 /\ lead[k].age <= Lookback
                                  THEN lead[k].age + 1 ELSE lead[k].age]]
    BY DEF Day
  <2>2. lead'[l] = [lead[l] EXCEPT !.next = n, !.age = a]
    BY <2>1
  <2> HIDE DEF n, a
  <2> QED
    BY <2>2, Known DEF Row
<1>2. /\ DOMAIN replies'[l] = DOMAIN replies[l]
      /\ \A i \in DOMAIN replies[l] :
           /\ replies'[l][i].label = replies[l][i].label
           /\ replies'[l][i].hold = IF replies[l][i].hold > 0 THEN replies[l][i].hold - 1
                                    ELSE replies[l][i].hold
  <2>1. replies' = [k \in Lead |-> [i \in DOMAIN replies[k] |->
          [replies[k][i] EXCEPT !.hold = IF replies[k][i].hold > 0 THEN replies[k][i].hold - 1
                                         ELSE replies[k][i].hold]]]
    BY DEF Day
  <2>2. \A i \in DOMAIN replies[l] : replies[l][i] \in Reply
    BY Known
  <2> QED
    BY <2>1, <2>2 DEF Reply
<1>3. Keeping(replies'[l]) <=> Keeping(replies[l])
  BY <1>2 DEF Keeping
<1>4. /\ n \in Int /\ (n = None <=> lead[l].next = None)
      /\ n # None => n \in Nat /\ lead[l].next \in Nat
      /\ a \in Nat
  BY Known DEF None
<1>5. Resting(l)'
  <2>1. ASSUME l \notin excused \cup redated, lead[l].status = "CONTACTED", n # None,
               Keeping(replies[l]), NEW h \in Held(replies'[l])
        PROVE  h <= n
    <3>1. PICK i \in DOMAIN replies[l] :
            replies[l][i].label = "OUT_OF_OFFICE" /\ h = replies'[l][i].hold
      BY <1>2 DEF Held
    <3>2. replies[l][i].hold \in Held(replies[l])
      BY <3>1 DEF Held
    <3>3. replies[l][i].hold <= lead[l].next
      BY <1>0, <1>4, <2>1, <3>2 DEF Parts, Resting
    <3>4. replies[l][i].hold \in Nat
      BY HeldBounded, Known
    <3> QED
      BY <1>2, <1>4, <2>1, <3>1, <3>3, <3>4
  <2> HIDE DEF n
  <2> QED
    BY <1>0, <1>1, <1>3, <2>1 DEF Parts, Resting
<1>6. Patient(l)'
  <2>1. ASSUME l \notin excused, lead[l].status = "CONTACTED", n # None
        PROVE  least[l] # None /\ least[l] <= n + a
    <3>1. least[l] # None /\ least[l] <= lead[l].next + lead[l].age /\ least[l] <= Lookback + 1
      BY <1>0, <1>4, <2>1 DEF Parts, Patient, Waited
    <3>2. lead[l].sent > 0
      BY <2>1, Known DEF Sane
    <3> QED
      BY <1>4, <2>1, <3>1, <3>2, Known, SequenceAssumption
  <2> HIDE DEF n, a
  <2> QED
    BY <1>0, <1>1, <2>1 DEF Parts, Patient, Waited
<1>7. Dated(l)'
  BY <1>0, <1>1, <1>4 DEF Parts, Dated
<1>8. (Drawn(l) /\ Silent(l) /\ Going(l))'
  BY <1>0, <1>1, <1>3 DEF Parts, Drawn, Silent, Going
<1> QED
  BY <1>5, <1>6, <1>7, <1>8 DEF Parts

Inv == TypeOK /\ ISane /\ IParts

LEMMA InvStep == Inv /\ [Next]_vars => Inv'
<1> SUFFICES ASSUME Inv, [Next]_vars PROVE Inv'
  OBVIOUS
<1>1. TypeOK /\ ISane /\ TypeOK' /\ ISane' /\ \A l \in Lead : Parts(l)
  BY SaneStep DEF Inv, IParts
<1>2. ASSUME NEW l \in Lead, OfLead(l), NEW k \in Lead PROVE Parts(k)'
  <2>1. CASE k = l
    BY <1>1, <1>2, <2>1, BookParts, ReleaseParts, AttemptParts, AcceptedParts, RecordedParts,
       FailedParts, ReplyParts, LabelsParts, ReadsParts, WritesParts
    DEF OfLead, Mail, Answer, Outcome
  <2>2. CASE k # l
    BY <1>1, <1>2, <2>2, OneLead, SamePart DEF Others
  <2> QED
    BY <2>1, <2>2
<1>3. ASSUME Idle, NEW k \in Lead PROVE Parts(k)'
  BY <1>1, <1>3, SamePart DEF Idle, Same, pastVars
<1> QED
  BY <1>1, <1>2, <1>3, StepKinds, IdleSane, EditParts, DeleteParts, DayParts DEF Inv, IParts

LEMMA InvAlways == Spec => []Inv
<1>1. Init => Inv
  BY TypeInit, PartsInit DEF Inv
<1> QED
  BY <1>1, InvStep, PTL DEF Spec

(* A reply stops the follow-ups the moment it is stored, whatever is         *)
(* labelled, edited or resumed afterwards, but where an outcome or a record *)
(* went by what was no longer so.                                           *)
THEOREM AnswersStopFollowUps == Spec => []AnswerStops
<1>1. Inv => AnswerStops
  BY DEF Inv, TypeOK, IParts, Parts, Silent, AnswerStops
<1> QED
  BY <1>1, InvAlways, PTL

(* Nobody gets a follow-up while away, with the same exception and that of   *)
(* an edit of the steps, which dates the lead anew.                         *)
THEOREM AwayIsHeld == Spec => []AwayHeld
<1>1. Inv => AwayHeld
  BY DEF Inv, TypeOK, IParts, Parts, Resting, AwayHeld
<1> QED
  BY <1>1, InvAlways, PTL

(* No follow-up comes before its wait is over, by the shortest wait the      *)
(* owner set meanwhile, for any plans, holds and order of events.           *)
THEOREM WaitIsKept == Spec => []WaitKept
<1>1. Inv => WaitKept
  BY DEF Inv, TypeOK, IParts, Parts, Patient, WaitKept
<1> QED
  BY <1>1, InvAlways, PTL

(* No follow-up is forgotten: while there is a step left for a lead and its  *)
(* mailbox is there, the lead has a date.                                   *)
THEOREM FollowUpsAreOwed == Spec => []FollowUpsOwed
<1>1. Inv => FollowUpsOwed
  <2> SUFFICES ASSUME Inv, NEW l \in Lead, send[l] = NoSend, call[l] = NoCall,
                      lead[l].sent \in DOMAIN steps, lead[l].mailbox \in boxes,
                      Keeping(replies[l]), l \notin ended \cup excused
               PROVE  lead[l].status = "CONTACTED" /\ lead[l].next # None
    BY DEF FollowUpsOwed
  <2>1. TypeOK /\ ISane /\ Parts(l)
    BY DEF Inv, IParts
  <2>2. lead[l].sent > 0
    BY <2>1, Known, StepWaits
  <2>3. lead[l].status \in {"CONTACTED", "REPLIED"}
    BY <2>1, <2>2, Known DEF Sane
  <2>4. send[l].pc = "none" /\ call[l].pc = "none"
    BY NothingUnderWay
  <2> QED
    BY <2>1, <2>3, <2>4 DEF Parts, Going, Dated
<1> QED
  BY <1>1, InvAlways, PTL

=============================================================================
