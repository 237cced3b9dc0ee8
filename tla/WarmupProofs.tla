---------------------------- MODULE WarmupProofs ----------------------------
(***************************************************************************)
(* Theorems of Warmup for every number of inboxes, mails, targets, faults   *)
(* and extra mails of the operator's: the day's volume, the gap per inbox   *)
(* and the placements hold, wherever a tick dies.                           *)
(***************************************************************************)
EXTENDS Warmup, FiniteSetTheorems, SequenceTheorems, TLAPS

-----------------------------------------------------------------------------
(* What the tick has in hand.                                               *)
InHand ==
  /\ tick.todo \subseteq {i \in Mails : mails[i].row = "PENDING"}
  /\ tick.pc \notin {"check", "found"} => tick.todo = {}
  /\ tick.pc = "found" => tick.mail \in tick.todo /\ tick.found \in Seen
  /\ tick.pc = "sent" =>
       /\ tick.mail \in Mails
       /\ mails[tick.mail].row = "none" /\ ~mails[tick.mail].manual
       /\ \A k \in Mails : k > tick.mail => mails[k].manual
  /\ \A i \in Mails : mails[i].row = "none" => mails[i].landed = "none"
  /\ \A m \in Mailboxes : elapsed[m] < Len(Target) * Day

(* An inbox the tick may still choose got nothing for RecipientGap.         *)
FreeInboxes ==
  tick.pc \in {"send", "sent"} =>
    \A i \in Mails : Ticked(i) /\ mails[i].row # "FAILED" /\ mails[i].to \notin tick.busy
                       => mails[i].age >= RecipientGap

(* The mails a wrong row is, or may be, written for: those found by a tick   *)
(* that died before it wrote.                                               *)
Untrue(i) ==
  /\ mails[i].row \in Answers \ {"UNCHECKED"}
  /\ mails[i].row \notin TrueAnswers[mails[i].landed]
AboutToSay(i) == tick.pc = "found" /\ tick.mail = i /\ tick.found = mails[i].landed
Doubtful(i) == mails[i].row = "PENDING" /\ mails[i].landed # "none" /\ ~AboutToSay(i)
Odd == {i \in Mails : Untrue(i) \/ Doubtful(i)}

AnswersPaid == Cardinality(Odd) <= faults

(* The day's mails of the ticks, and the room a mailbox that is due has.    *)
ByTicks(m) == {i \in SentToday(m) : ~mails[i].manual}
Rested(m) == \A i \in SentBy(m) : ~mails[i].manual => mails[i].age >= 1
HasRoom(m) == Cardinality(ByTicks(m)) < DayTarget(m)

Volume ==
  /\ VolumeKept
  /\ tick.pc \in {"idle", "check", "found"} => \A m \in Mailboxes : Rested(m)
  /\ tick.pc \in {"send", "sent"} => \A m \in tick.due : Rested(m) /\ HasRoom(m)
  /\ tick.pc = "sent" => LET m == mails[tick.mail].from IN m \notin tick.due /\ HasRoom(m)

-----------------------------------------------------------------------------
(* Arithmetic of warm-up days.                                              *)
LEMMA Assumed ==
  /\ Target \in Seq(Nat \ {0}) /\ Len(Target) \in Nat \ {0}
  /\ Day \in Nat \ {0} /\ MaxMails \in Nat /\ MaxFaults \in Nat /\ MaxManual \in Nat
  /\ GiveUp \in Nat \ {0} /\ UncheckedAfter \in Nat \ {0}
  /\ CheckAfter \in Nat /\ RecipientGap \in Nat /\ SendWindow \in Nat
  /\ RecipientGap <= Day
<1>1. /\ Target \in Seq(Nat \ {0}) /\ Target # <<>>
      /\ Day \in Nat \ {0} /\ MaxMails \in Nat /\ MaxFaults \in Nat /\ MaxManual \in Nat
      /\ GiveUp \in Nat \ {0} /\ UncheckedAfter \in Nat \ {0}
      /\ CheckAfter \in Nat /\ RecipientGap \in Nat /\ SendWindow \in Nat
      /\ RecipientGap <= CheckAfter /\ CheckAfter <= GiveUp /\ GiveUp <= UncheckedAfter
      /\ UncheckedAfter <= Day
  BY WarmupAssumption
<1>2. Len(Target) \in Nat \ {0}
  BY <1>1, LenProperties, EmptySeq
<1> QED
  BY <1>1, <1>2

LEMMA DivMod ==
  ASSUME NEW e \in Nat
  PROVE  /\ e \div Day \in Nat /\ (e % Day) \in 0..(Day - 1)
         /\ e = (e \div Day) * Day + (e % Day)
<1>1. Day \in Nat /\ Day > 0
  BY Assumed
<1>2. e \div Day \in Nat /\ (e % Day) \in 0..(Day - 1)
  BY <1>1
<1>3. e = (e \div Day) * Day + (e % Day)
  BY <1>1
<1> QED
  BY <1>2, <1>3

LEMMA OneDivMod ==
  ASSUME NEW e \in Nat, NEW q \in Nat, NEW r \in 0..(Day - 1), e = q * Day + r
  PROVE  e \div Day = q /\ (e % Day) = r
<1>1. Day \in Nat /\ Day > 0
  BY Assumed
<1>2. e \div Day = q
  BY <1>1
<1>3. (e % Day) = r
  BY <1>1
<1> QED
  BY <1>2, <1>3

\* one unit later the day is the same and its time one more, or it is a new day
LEMMA NextUnit ==
  ASSUME NEW e \in Nat
  PROVE  \/ ((e + 1) % Day) = 0
         \/ ((e + 1) % Day) = (e % Day) + 1 /\ (e + 1) \div Day = e \div Day
<1> DEFINE q == e \div Day
           r == e % Day
<1>1. q \in Nat /\ r \in 0..(Day - 1) /\ e = q * Day + r
  BY DivMod
<1> HIDE DEF q, r
<1>2. CASE r + 1 = Day
  <2>1. e + 1 = (q + 1) * Day + 0
    BY <1>1, <1>2, Assumed
  <2>2. ((e + 1) % Day) = 0
    BY <2>1, <1>1, OneDivMod, Assumed
  <2> QED
    BY <2>2
<1>3. CASE r + 1 < Day
  <2>1. e + 1 = q * Day + (r + 1)
    BY <1>1, <1>3, Assumed
  <2>2. (e + 1) \div Day = q /\ ((e + 1) % Day) = r + 1
    BY <2>1, <1>1, <1>3, OneDivMod, Assumed
  <2> QED
    BY <2>2 DEF q, r
<1> QED
  BY <1>1, <1>2, <1>3, Assumed

\* elapsed stays below the last day's end, so it has a target
LEMMA DayIsKnown ==
  ASSUME NEW e \in Nat, NEW n \in Nat \ {0}, e < n * Day
  PROVE  e \div Day + 1 \in 1..n
<1> DEFINE q == e \div Day
           r == e % Day
<1>0. q \in Nat /\ r \in 0..(Day - 1) /\ e = q * Day + r
  BY DivMod
<1> HIDE DEF r
<1> HIDE DEF q
<1>1. q \in Nat /\ q * Day <= e
  <2>1. q * Day \in Nat /\ r \in Nat
    BY <1>0, Assumed
  <2> QED
    BY <1>0, <2>1
<1>2. q >= n => q * Day >= n * Day
  BY <1>1, Assumed
<1>3. q * Day < n * Day
  <2>1. n * Day \in Nat /\ q * Day \in Nat
    BY <1>1, Assumed
  <2> QED
    BY <1>1, <2>1
<1>4. q < n
  <2>1. n * Day \in Nat /\ q * Day \in Nat
    BY <1>1, Assumed
  <2> QED
    BY <1>1, <1>2, <1>3, <2>1
<1>5. q + 1 \in 1..n
  BY <1>1, <1>4
<1> QED
  BY <1>5 DEF q

-----------------------------------------------------------------------------
(* Types.                                                                   *)
TickRecord ==
  [pc : {"idle", "check", "found", "send", "sent", "done"}, todo : SUBSET (1..MaxMails),
   mail : 0..MaxMails, found : Seen \cup {"none"}, due : SUBSET Mailboxes,
   fresh : SUBSET Mailboxes, busy : SUBSET Inboxes, partners : SUBSET Inboxes]

LEMMA MailsAre ==
  ASSUME TypeOK
  PROVE  /\ Len(mails) \in Nat /\ DOMAIN mails = Mails /\ Mails \subseteq 1..MaxMails
         /\ \A i \in Mails : mails[i] \in Mail
         /\ tick \in TickRecord /\ IsFiniteSet(Mails)
<1>1. mails \in Seq(Mail) /\ Len(mails) <= MaxMails /\ tick \in TickRecord
  BY DEF TypeOK, TickRecord
<1>2. Len(mails) \in Nat /\ DOMAIN mails = Mails /\ \A i \in Mails : mails[i] \in Mail
  BY <1>1, LenProperties, ElementOfSeq DEF Mails
<1>3. Mails \subseteq 1..MaxMails /\ IsFiniteSet(Mails)
  BY <1>1, <1>2, FS_Interval, Assumed DEF Mails
<1> QED
  BY <1>1, <1>2, <1>3

LEMMA OneChanges ==
  ASSUME TypeOK, NEW i \in Mails, NEW x \in Mail
  PROVE  /\ [mails EXCEPT ![i] = x] \in Seq(Mail)
         /\ Len([mails EXCEPT ![i] = x]) = Len(mails)
         /\ [mails EXCEPT ![i] = x][i] = x
         /\ \A k \in Mails : k # i => [mails EXCEPT ![i] = x][k] = mails[k]
<1>1. mails \in Seq(Mail) /\ i \in 1..Len(mails) /\ DOMAIN mails = Mails
  BY MailsAre DEF TypeOK, Mails
<1>2. [mails EXCEPT ![i] = x] \in Seq(Mail) /\ Len([mails EXCEPT ![i] = x]) = Len(mails)
  BY <1>1, ExceptSeq
<1> QED
  BY <1>1, <1>2

LEMMA OneMore ==
  ASSUME TypeOK, NEW x \in Mail
  PROVE  /\ Append(mails, x) \in Seq(Mail)
         /\ Len(Append(mails, x)) = Len(mails) + 1
         /\ Append(mails, x)[Len(mails) + 1] = x
         /\ \A k \in Mails : Append(mails, x)[k] = mails[k]
  BY AppendProperties DEF TypeOK, Mails

LEMMA MailRecords ==
  /\ \A x \in Mail, r \in Rows : [x EXCEPT !.row = r] \in Mail
  /\ \A x \in Mail, r \in Rows : [x EXCEPT !.row = r, !.at = "none"] \in Mail
  /\ \A x \in Mail, a \in Seen \cup {"none", "filed"}, w \in Seen \cup {"none"} :
       [x EXCEPT !.at = a, !.landed = w] \in Mail
  /\ \A m \in Mailboxes, p \in Inboxes, b \in BOOLEAN : NewMail(m, p, b) \in Mail
  /\ \A x \in Mail : [x EXCEPT !.age = IF @ < Day THEN @ + 1 ELSE @] \in Mail
<1>1. \A x \in Mail, r \in Rows : [x EXCEPT !.row = r] \in Mail
  BY DEF Mail
<1>2. \A x \in Mail, r \in Rows : [x EXCEPT !.row = r, !.at = "none"] \in Mail
  BY DEF Mail
<1>3. \A x \in Mail, a \in Seen \cup {"none", "filed"}, w \in Seen \cup {"none"} :
        [x EXCEPT !.at = a, !.landed = w] \in Mail
  BY DEF Mail
<1>4. \A m \in Mailboxes, p \in Inboxes, b \in BOOLEAN : NewMail(m, p, b) \in Mail
  BY Assumed DEF Mail, NewMail, Rows
<1>5. ASSUME NEW x \in Mail PROVE [x EXCEPT !.age = IF @ < Day THEN @ + 1 ELSE @] \in Mail
  <2> DEFINE a == IF x.age < Day THEN x.age + 1 ELSE x.age
  <2>1. a \in 0..Day
    BY Assumed DEF Mail
  <2> HIDE DEF a
  <2>2. [x EXCEPT !.age = a] \in Mail
    BY <2>1 DEF Mail
  <2> QED
    BY <2>2 DEF a
<1> QED
  BY <1>1, <1>2, <1>3, <1>4, <1>5

-----------------------------------------------------------------------------
(* What a step leaves of the mails sent: to whom, when, by whom, and whether *)
(* they count.                                                              *)
Alike(k) ==
  /\ mails'[k].from = mails[k].from /\ mails'[k].to = mails[k].to
  /\ mails'[k].age = mails[k].age /\ (mails'[k].manual <=> mails[k].manual)
  /\ mails'[k].row = "none" <=> mails[k].row = "none"
  /\ mails'[k].row = "FAILED" <=> mails[k].row = "FAILED"
SendsStay ==
  /\ Len(mails') = Len(mails)
  /\ \A k \in Mails : Alike(k)
  /\ elapsed' = elapsed

LEMMA ATickRecord ==
  ASSUME TypeOK
  PROVE  /\ IdleTick \in TickRecord
         /\ \A k \in TickRecord, td \in SUBSET (1..MaxMails), b \in SUBSET Inboxes :
              /\ [k EXCEPT !.todo = td, !.pc = "check"] \in TickRecord
              /\ [k EXCEPT !.todo = td] \in TickRecord
              /\ [k EXCEPT !.pc = "send"] \in TickRecord
              /\ [k EXCEPT !.pc = "send", !.busy = b] \in TickRecord
         /\ \A k \in TickRecord, i \in 0..MaxMails, w \in Seen, d \in SUBSET Mailboxes :
              /\ [k EXCEPT !.pc = "found", !.mail = i, !.found = w] \in TickRecord
              /\ [k EXCEPT !.due = d] \in TickRecord
              /\ [k EXCEPT !.pc = "sent", !.mail = i, !.due = d] \in TickRecord
<1>1. IdleTick \in TickRecord
  BY Assumed DEF IdleTick, TickRecord
<1>2. ASSUME NEW k \in TickRecord, NEW td \in SUBSET (1..MaxMails), NEW b \in SUBSET Inboxes
      PROVE  /\ [k EXCEPT !.todo = td, !.pc = "check"] \in TickRecord
             /\ [k EXCEPT !.todo = td] \in TickRecord
             /\ [k EXCEPT !.pc = "send"] \in TickRecord
             /\ [k EXCEPT !.pc = "send", !.busy = b] \in TickRecord
  BY DEF TickRecord
<1>3. ASSUME NEW k \in TickRecord, NEW i \in 0..MaxMails, NEW w \in Seen,
             NEW d \in SUBSET Mailboxes
      PROVE  /\ [k EXCEPT !.pc = "found", !.mail = i, !.found = w] \in TickRecord
             /\ [k EXCEPT !.due = d] \in TickRecord
             /\ [k EXCEPT !.pc = "sent", !.mail = i, !.due = d] \in TickRecord
  BY DEF TickRecord
<1> QED
  BY <1>1, <1>2, <1>3

(* One step of a check leaves the sends; what it does to one row, or to the *)
(* tick, keeps the types.                                                   *)
LEMMA ARowIsWritten ==
  ASSUME TypeOK, InHand, tick.pc \in {"check", "found"}, NEW i \in tick.todo,
         NEW a \in Answers, Records(i, a), UNCHANGED <<elapsed, pool, faults>>
  PROVE  /\ TypeOK' /\ InHand' /\ SendsStay /\ tick'.pc = "check"
         /\ mails'[i] = [mails[i] EXCEPT !.row = a, !.at = "none"]
         /\ \A k \in Mails : k # i => mails'[k] = mails[k]
<1> DEFINE x == [mails[i] EXCEPT !.row = a, !.at = "none"]
<1>1. i \in Mails /\ mails[i] \in Mail /\ mails[i].row = "PENDING" /\ tick \in TickRecord
  BY MailsAre DEF InHand
<1>2. x \in Mail
  BY <1>1, MailRecords DEF Rows
<1>3. mails' = [mails EXCEPT ![i] = x]
  BY Zenon DEF Records
<1>4. x.from = mails[i].from /\ x.to = mails[i].to /\ x.age = mails[i].age
      /\ x.manual = mails[i].manual /\ x.row = a /\ x.landed = mails[i].landed
  BY <1>1 DEF Mail
<1>5. x = [mails[i] EXCEPT !.row = a, !.at = "none"]
  OBVIOUS
<1> HIDE DEF x
<1>6. /\ mails' \in Seq(Mail) /\ Len(mails') = Len(mails) /\ mails'[i] = x
      /\ \A k \in Mails : k # i => mails'[k] = mails[k]
  BY <1>1, <1>2, <1>3, OneChanges
<1>7. a # "none" /\ a # "FAILED" /\ a # "PENDING"
  BY DEF Answers
<1>8. tick' = [tick EXCEPT !.todo = @ \ {i}, !.pc = "check"]
  BY DEF Records
<1>9. tick' \in TickRecord /\ tick'.pc = "check" /\ tick'.todo = tick.todo \ {i}
  <2>1. tick.todo \ {i} \in SUBSET (1..MaxMails)
    BY <1>1 DEF TickRecord
  <2>2. tick' \in TickRecord
    BY <1>1, <1>8, <2>1, ATickRecord
  <2> QED
    BY <1>1, <1>8, <2>2 DEF TickRecord
<1>10. TypeOK'
  BY <1>6, <1>9 DEF TypeOK, TickRecord
<1>11. SendsStay
  BY <1>1, <1>4, <1>6, <1>7 DEF SendsStay, Alike
<1>12. Mails' = Mails
  BY <1>6 DEF Mails
<1>13. InHand'
  <2>1. tick'.todo \subseteq {k \in Mails : mails'[k].row = "PENDING"}
    BY <1>6, <1>9 DEF InHand
  <2>2. \A k \in Mails : mails'[k].row = "none" => mails'[k].landed = "none"
    BY <1>4, <1>6, <1>7 DEF InHand
  <2>3. \A m \in Mailboxes : elapsed'[m] < Len(Target) * Day
    BY DEF InHand
  <2> QED
    BY <1>9, <1>12, <2>1, <2>2, <2>3 DEF InHand
<1> QED
  BY <1>5, <1>6, <1>9, <1>10, <1>11, <1>13

LEMMA AMailIsKept ==
  ASSUME TypeOK, InHand, NEW i, Checking(i), Keeps(i), UNCHANGED <<elapsed, pool, faults>>
  PROVE  TypeOK' /\ InHand' /\ SendsStay /\ tick'.pc = "check" /\ mails' = mails
<1>1. tick' = [tick EXCEPT !.todo = @ \ {i}] /\ mails' = mails /\ tick.pc = "check"
  BY DEF Keeps, Checking
<1>2. tick \in TickRecord /\ tick.todo \ {i} \in SUBSET (1..MaxMails)
  BY MailsAre DEF InHand
<1>3. tick' \in TickRecord
  BY <1>1, <1>2, ATickRecord
<1>4. tick'.pc = "check" /\ tick'.todo = tick.todo \ {i}
  BY <1>1, <1>2 DEF TickRecord
<1>5. TypeOK'
  BY <1>1, <1>3 DEF TypeOK, TickRecord
<1>6. SendsStay
  BY <1>1 DEF SendsStay, Alike
<1>7. InHand'
  <2>1. Mails' = Mails
    BY <1>1 DEF Mails
  <2>2. tick'.todo \subseteq {k \in Mails : mails'[k].row = "PENDING"}
    BY <1>1, <1>4 DEF InHand
  <2>3. /\ \A k \in Mails : mails'[k].row = "none" => mails'[k].landed = "none"
        /\ \A m \in Mailboxes : elapsed'[m] < Len(Target) * Day
    BY <1>1 DEF InHand
  <2> QED
    BY <1>4, <2>1, <2>2, <2>3 DEF InHand
<1> QED
  BY <1>1, <1>4, <1>5, <1>6, <1>7

CheckPart ==
  \/ CheckStarts
  \/ \E i \in Mails : Unreadable(i) \/ NotFound(i) \/ Found(i)
  \/ FoundRecorded

\* a mail that was looked for and not found is kept, or gets an answer
LEMMA NotThere ==
  ASSUME TypeOK, InHand, NEW i \in Mails, Unreadable(i) \/ NotFound(i)
  PROVE  /\ UNCHANGED <<elapsed, pool, faults>> /\ Checking(i) /\ tick.pc = "check"
         /\ i \in tick.todo
         /\ \/ Keeps(i)
            \/ Records(i, "UNCHECKED")
            \/ Records(i, "MISSING") /\ mails[i].at \in {"none", "filed"}
            \/ Records(i, "BOUNCED") /\ mails[i].landed = "none"
  BY DEF Unreadable, NotFound, BounceOr, findBounce, Checking

LEMMA AMailIsFound ==
  ASSUME TypeOK, InHand, NEW i \in Mails, Found(i)
  PROVE  /\ TypeOK' /\ InHand' /\ SendsStay /\ tick'.pc = "found"
         /\ tick.pc = "check" /\ mails[i].row = "PENDING" /\ faults' = faults
         /\ tick'.mail = i
         /\ \A k \in Mails : k # i => mails'[k] = mails[k]
         /\ mails'[i].row = "PENDING"
         /\ mails'[i].landed =
              IF mails[i].landed = "none" THEN tick'.found ELSE mails[i].landed
<1>1. PICK where \in Seen, at \in Seen \cup {"none", "filed"} :
        /\ tick' = [tick EXCEPT !.pc = "found", !.mail = i, !.found = where]
        /\ mails' = [mails EXCEPT ![i].at = at,
                                  ![i].landed = IF @ = "none" THEN where ELSE @]
  BY DEF Found, Seen
<1> DEFINE land == IF mails[i].landed = "none" THEN where ELSE mails[i].landed
           x == [mails[i] EXCEPT !.at = at, !.landed = land]
<1>2. mails' = [mails EXCEPT ![i] = x]
  BY <1>1, Zenon
<1>3. /\ tick.pc = "check" /\ i \in tick.todo /\ mails[i] \in Mail /\ tick \in TickRecord
      /\ UNCHANGED <<elapsed, pool, faults>> /\ mails[i].row = "PENDING"
  BY MailsAre DEF Found, Checking, InHand
<1>4. land \in Seen \cup {"none"}
  BY <1>3 DEF Mail
<1>5. land = IF mails[i].landed = "none" THEN where ELSE mails[i].landed
  OBVIOUS
<1> HIDE DEF land
<1>6. x \in Mail
  BY <1>3, <1>4, MailRecords
<1>7. x.from = mails[i].from /\ x.to = mails[i].to /\ x.age = mails[i].age
      /\ x.manual = mails[i].manual /\ x.row = mails[i].row /\ x.landed = land
  BY <1>3 DEF Mail
<1> HIDE DEF x
<1>8. /\ mails' \in Seq(Mail) /\ Len(mails') = Len(mails) /\ mails'[i] = x
      /\ \A k \in Mails : k # i => mails'[k] = mails[k]
  BY <1>2, <1>6, OneChanges
<1>9. /\ tick' \in TickRecord /\ tick'.pc = "found" /\ tick'.todo = tick.todo
      /\ tick'.mail = i /\ tick'.found = where
  <2>1. i \in 0..MaxMails
    BY MailsAre
  <2>2. tick' \in TickRecord
    BY <1>1, <1>3, <2>1, ATickRecord
  <2> QED
    BY <1>1, <1>3, <2>2 DEF TickRecord
<1>10. TypeOK'
  BY <1>3, <1>8, <1>9 DEF TypeOK, TickRecord
<1>11. SendsStay
  BY <1>3, <1>7, <1>8 DEF SendsStay, Alike
<1>12. Mails' = Mails
  BY <1>8 DEF Mails
<1>13. InHand'
  <2>1. tick'.todo \subseteq {k \in Mails : mails'[k].row = "PENDING"}
    BY <1>3, <1>7, <1>8, <1>9 DEF InHand
  <2>2. \A k \in Mails : mails'[k].row = "none" => mails'[k].landed = "none"
    BY <1>3, <1>7, <1>8 DEF InHand
  <2>3. \A m \in Mailboxes : elapsed'[m] < Len(Target) * Day
    BY <1>3 DEF InHand
  <2> QED
    BY <1>3, <1>9, <1>12, <2>1, <2>2, <2>3 DEF InHand
<1> QED
  BY <1>3, <1>5, <1>7, <1>8, <1>9, <1>10, <1>11, <1>13

LEMMA ACheckStarts ==
  ASSUME TypeOK, InHand, CheckStarts
  PROVE  TypeOK' /\ InHand' /\ SendsStay /\ tick'.pc = "check" /\ tick.pc = "idle"
         /\ mails' = mails /\ faults' = faults
<1> DEFINE td == {i \in Mails : mails[i].row = "PENDING" /\ mails[i].age >= CheckAfter}
<1>1. /\ tick.pc = "idle" /\ UNCHANGED <<mails, elapsed, pool, faults>>
      /\ tick' = [IdleTick EXCEPT !.pc = "check", !.todo = td]
  BY DEF CheckStarts
<1>2. td \in SUBSET (1..MaxMails) /\ td \subseteq {i \in Mails : mails[i].row = "PENDING"}
  BY MailsAre
<1> HIDE DEF td
<1>3. tick' = [IdleTick EXCEPT !.todo = td, !.pc = "check"]
  BY <1>1 DEF IdleTick
<1>4. tick' \in TickRecord
  BY <1>2, <1>3, ATickRecord
<1>5. tick'.pc = "check" /\ tick'.todo = td
  BY <1>1 DEF IdleTick
<1>6. TypeOK' /\ SendsStay
  BY <1>1, <1>4 DEF TypeOK, TickRecord, SendsStay, Alike
<1>7. Mails' = Mails
  BY <1>1 DEF Mails
<1>8. InHand'
  BY <1>1, <1>2, <1>5, <1>7 DEF InHand
<1> QED
  BY <1>1, <1>5, <1>6, <1>8

(* The first part of a tick changes no mail's sender, recipient, age or     *)
(* standing.                                                                *)
LEMMA Checks ==
  ASSUME TypeOK, InHand, CheckPart
  PROVE  /\ TypeOK' /\ InHand' /\ SendsStay
         /\ tick.pc \in {"idle", "check", "found"} /\ tick'.pc \in {"check", "found"}
         /\ faults' = faults
<1>1. CASE CheckStarts
  BY <1>1, ACheckStarts
<1>2. ASSUME NEW i \in Mails, Unreadable(i) \/ NotFound(i)
      PROVE  /\ TypeOK' /\ InHand' /\ SendsStay /\ tick.pc = "check"
             /\ tick'.pc = "check" /\ faults' = faults
  BY <1>2, NotThere, AMailIsKept, ARowIsWritten DEF Answers
<1>3. ASSUME NEW i \in Mails, Found(i)
      PROVE  /\ TypeOK' /\ InHand' /\ SendsStay /\ tick.pc = "check"
             /\ tick'.pc = "found" /\ faults' = faults
  BY <1>3, AMailIsFound
<1>4. CASE FoundRecorded
  <2>1. PICK a \in {"SPAM", "INBOX"} : Records(tick.mail, a)
    BY <1>4 DEF FoundRecorded
  <2>2. tick.pc = "found" /\ UNCHANGED <<elapsed, pool, faults>> /\ tick.mail \in tick.todo
    BY <1>4 DEF FoundRecorded, InHand
  <2> QED
    BY <2>1, <2>2, ARowIsWritten DEF Answers
<1> QED
  BY <1>1, <1>2, <1>3, <1>4 DEF CheckPart

\* steps that write no row and no mailbox
QuietPart ==
  \/ SendStarts
  \/ \E m \in Mailboxes : PassedOver(m)
  \/ SendEnds
  \/ TickDies
  \/ RowRefused
  \/ \E s \in Seeds : SeedRemoved(s)

LEMMA QuietTypes ==
  ASSUME TypeOK, InHand, mails' = mails, elapsed' = elapsed, faults' \in 0..MaxFaults,
         pool' \subseteq Inboxes, tick' \in TickRecord,
         tick' = tick \/ (tick'.pc \notin {"check", "found", "sent"} /\ tick'.todo = {})
  PROVE  TypeOK' /\ InHand' /\ SendsStay
<1>1. TypeOK' /\ SendsStay
  BY DEF TypeOK, TickRecord, SendsStay, Alike
<1>2. Mails' = Mails
  BY DEF Mails
<1>3. InHand'
  <2>1. \A k \in Mails : mails'[k].row = "none" => mails'[k].landed = "none"
    BY DEF InHand
  <2>2. \A m \in Mailboxes : elapsed'[m] < Len(Target) * Day
    BY DEF InHand
  <2>3. CASE tick' = tick
    BY <1>2, <2>1, <2>2, <2>3 DEF InHand
  <2>4. CASE tick'.pc \notin {"check", "found", "sent"} /\ tick'.todo = {}
    BY <1>2, <2>1, <2>2, <2>4 DEF InHand
  <2> QED
    BY <2>3, <2>4
<1> QED
  BY <1>1, <1>3

LEMMA TheSendsStart ==
  ASSUME TypeOK, InHand, SendStarts
  PROVE  /\ TypeOK' /\ InHand' /\ SendsStay /\ mails' = mails /\ faults' = faults
         /\ tick.pc = "check" /\ tick'.pc = "send"
         /\ tick'.due = {m \in Mailboxes : IsSendDue(m)} /\ tick'.busy = BusyInboxes
         /\ tick'.fresh = {m \in tick'.due : elapsed[m] = None}
<1> DEFINE due == {m \in Mailboxes : IsSendDue(m)}
           fresh == {m \in due : elapsed[m] = None}
<1>1. /\ tick.pc = "check" /\ UNCHANGED <<mails, elapsed, pool, faults>>
      /\ tick' = [IdleTick EXCEPT !.pc = "send", !.due = due, !.busy = BusyInboxes,
                                  !.fresh = fresh, !.partners = pool]
  BY DEF SendStarts
<1>2. due \in SUBSET Mailboxes /\ fresh \in SUBSET Mailboxes
  OBVIOUS
<1>3. BusyInboxes \in SUBSET Inboxes
  BY MailsAre DEF BusyInboxes, Mail
<1>4. fresh = {m \in due : elapsed[m] = None} /\ due = {m \in Mailboxes : IsSendDue(m)}
  OBVIOUS
<1> HIDE DEF due, fresh
<1>5. /\ tick' \in TickRecord /\ tick'.todo = {} /\ tick'.pc = "send" /\ tick'.due = due
      /\ tick'.busy = BusyInboxes /\ tick'.fresh = fresh
  <2>1. IdleTick \in TickRecord /\ IdleTick.todo = {}
    BY ATickRecord DEF IdleTick
  <2> DEFINE busy == BusyInboxes
  <2>2. busy \in SUBSET Inboxes
    BY <1>3
  <2> HIDE DEF busy
  <2>3. tick' = [IdleTick EXCEPT !.pc = "send", !.due = due, !.busy = busy, !.fresh = fresh,
                                    !.partners = pool]
    BY <1>1 DEF busy
  <2>4. /\ tick' \in TickRecord /\ tick'.todo = {} /\ tick'.pc = "send" /\ tick'.due = due
        /\ tick'.busy = busy /\ tick'.fresh = fresh
    BY <1>2, <2>1, <2>2, <2>3 DEF TickRecord, TypeOK
  <2> QED
    BY <2>4 DEF busy
<1>6. TypeOK' /\ InHand' /\ SendsStay
  BY <1>1, <1>5, QuietTypes DEF TypeOK
<1> QED
  BY <1>1, <1>4, <1>5, <1>6

LEMMA AnIdleTick ==
  ASSUME TypeOK, InHand, mails' = mails, elapsed' = elapsed, pool' = pool,
         faults' \in 0..MaxFaults, tick' = [IdleTick EXCEPT !.pc = "done"]
  PROVE  TypeOK' /\ InHand' /\ SendsStay /\ tick'.pc = "done"
<1>1. IdleTick \in TickRecord /\ IdleTick.todo = {}
  BY ATickRecord DEF IdleTick
<1>2. tick' \in TickRecord /\ tick'.pc = "done" /\ tick'.todo = {}
  BY <1>1 DEF TickRecord
<1> QED
  BY <1>2, QuietTypes DEF TypeOK

LEMMA Quiet ==
  ASSUME TypeOK, InHand, QuietPart
  PROVE  /\ TypeOK' /\ InHand' /\ SendsStay /\ mails' = mails
         /\ \/ SendStarts
            \/ /\ tick.pc = "send" /\ tick'.pc = "send" /\ faults' = faults
               /\ tick'.busy = tick.busy /\ tick'.due \subseteq tick.due
            \/ tick'.pc = "done" /\ faults' = faults /\ tick.pc \in {"send", "sent"}
            \/ tick'.pc = "done" /\ faults' = faults + 1
            \/ tick' = tick /\ faults' = faults
<1>1. CASE SendStarts
  BY <1>1, TheSendsStart
<1>2. ASSUME NEW m \in Mailboxes, PassedOver(m)
      PROVE  /\ TypeOK' /\ InHand' /\ SendsStay /\ mails' = mails
             /\ tick.pc = "send" /\ tick'.pc = "send" /\ faults' = faults
             /\ tick'.busy = tick.busy /\ tick'.due \subseteq tick.due
  <2>1. /\ tick.pc = "send" /\ UNCHANGED <<mails, elapsed, pool, faults>>
        /\ tick' = [tick EXCEPT !.due = @ \ {m}] /\ tick \in TickRecord
    BY <1>2, MailsAre DEF PassedOver
  <2>2. tick.due \ {m} \in SUBSET Mailboxes
    BY <2>1 DEF TickRecord
  <2>3. tick' \in TickRecord
    BY <2>1, <2>2 DEF TickRecord
  <2>4. /\ tick'.pc = "send" /\ tick'.todo = {} /\ tick'.busy = tick.busy
        /\ tick'.due = tick.due \ {m}
    BY <2>1 DEF TickRecord, InHand
  <2>5. TypeOK' /\ InHand' /\ SendsStay
    BY <2>1, <2>3, <2>4, QuietTypes DEF TypeOK
  <2> QED
    BY <2>1, <2>4, <2>5
<1>3. CASE SendEnds
  BY <1>3, AnIdleTick DEF SendEnds, TypeOK
<1>4. CASE TickDies
  <2>1. faults' = faults + 1 /\ faults' \in 0..MaxFaults
    BY <1>4, Assumed DEF TickDies, TypeOK
  <2> QED
    BY <1>4, <2>1, AnIdleTick DEF TickDies
<1>6. CASE RowRefused
  BY <1>6, AnIdleTick DEF RowRefused, TypeOK
<1>5. ASSUME NEW s \in Seeds, SeedRemoved(s)
      PROVE  TypeOK' /\ InHand' /\ SendsStay /\ mails' = mails /\ tick' = tick /\ faults' = faults
  <2>1. /\ pool' \subseteq Inboxes /\ mails' = mails /\ elapsed' = elapsed
        /\ tick' = tick /\ faults' = faults
    BY <1>5 DEF SeedRemoved, TypeOK
  <2>2. tick' \in TickRecord /\ faults' \in 0..MaxFaults
    BY <2>1, MailsAre DEF TypeOK
  <2>3. TypeOK' /\ InHand' /\ SendsStay
    BY <2>1, <2>2, QuietTypes
  <2> QED
    BY <2>1, <2>3
<1> QED
  BY <1>1, <1>2, <1>3, <1>4, <1>5, <1>6 DEF QuietPart

\* a mail is added at the end, by the tick or by hand
MailAdded(x) ==
  /\ mails' = Append(mails, x)
  /\ Len(mails') = Len(mails) + 1 /\ mails'[Len(mails) + 1] = x
  /\ \A k \in Mails : mails'[k] = mails[k]
  /\ Mails' = Mails \cup {Len(mails) + 1} /\ Len(mails) + 1 \notin Mails

LEMMA Adding ==
  ASSUME TypeOK, NEW x \in Mail, mails' = Append(mails, x)
  PROVE  MailAdded(x) /\ mails' \in Seq(Mail)
<1>1. Len(mails) \in Nat
  BY MailsAre
<1>2. /\ mails' \in Seq(Mail) /\ Len(mails') = Len(mails) + 1
      /\ mails'[Len(mails) + 1] = x /\ \A k \in Mails : mails'[k] = mails[k]
  BY OneMore
<1>3. Mails' = Mails \cup {Len(mails) + 1} /\ Len(mails) + 1 \notin Mails
  BY <1>1, <1>2 DEF Mails
<1> QED
  BY <1>2, <1>3 DEF MailAdded

LEMMA Stamped ==
  ASSUME TypeOK, InHand, NEW m \in Mailboxes, NEW fresh \in BOOLEAN, Stamps(m, fresh)
  PROVE  /\ elapsed' \in [Mailboxes -> (0..Len(Target) * Day) \cup {None}]
         /\ \A n \in Mailboxes : elapsed'[n] < Len(Target) * Day
         /\ elapsed'[m] = IF fresh THEN 0 ELSE elapsed[m]
         /\ \A n \in Mailboxes : n # m => elapsed'[n] = elapsed[n]
<1>1. /\ elapsed \in [Mailboxes -> (0..Len(Target) * Day) \cup {None}]
      /\ \A n \in Mailboxes : elapsed[n] < Len(Target) * Day
  BY DEF TypeOK, InHand
<1>2. Len(Target) * Day \in Nat /\ 0 < Len(Target) * Day
  <2>1. Len(Target) \in Nat /\ Day \in Nat /\ Len(Target) > 0 /\ Day > 0
    BY Assumed
  <2> QED
    BY <2>1
<1> DEFINE all == Len(Target) * Day
<1> HIDE DEF all
<1>3. /\ elapsed \in [Mailboxes -> (0..all) \cup {None}] /\ \A n \in Mailboxes : elapsed[n] < all
      /\ all \in Nat /\ 0 < all
  BY <1>1, <1>2 DEF all
<1>4. CASE fresh
  <2>1. elapsed' = [elapsed EXCEPT ![m] = 0]
    BY <1>4 DEF Stamps
  <2> QED
    BY <1>3, <1>4, <2>1 DEF all
<1>5. CASE ~fresh
  BY <1>1, <1>5 DEF Stamps
<1> QED
  BY <1>4, <1>5

LEMMA TheTickSends ==
  ASSUME TypeOK, InHand, NEW m \in Mailboxes, Sends(m)
  PROVE  /\ TypeOK' /\ InHand' /\ faults' = faults
         /\ tick.pc = "send" /\ m \in tick.due /\ tick'.pc = "sent"
         /\ tick'.mail = Len(mails) + 1 /\ tick'.due = tick.due \ {m}
         /\ tick'.busy = tick.busy
         /\ Stamps(m, m \in tick.fresh)
         /\ \E p \in Inboxes \ tick.busy : MailAdded(NewMail(m, p, FALSE))
<1>1. /\ tick.pc = "send" /\ m \in tick.due /\ Len(mails) < MaxMails
      /\ Stamps(m, m \in tick.fresh) /\ pool' = pool /\ faults' = faults
      /\ tick' = [tick EXCEPT !.pc = "sent", !.mail = Len(mails) + 1, !.due = @ \ {m}]
  BY DEF Sends
<1>2. PICK p \in Partners(m, tick.partners, tick.busy) : mails' = Append(mails, NewMail(m, p, FALSE))
  BY DEF Sends
<1>3. p \in Inboxes \ tick.busy
  BY DEF Partners, TypeOK
<1> DEFINE x == NewMail(m, p, FALSE)
<1>4. x \in Mail
  BY <1>3, MailRecords
<1>5. x.row = "none" /\ x.landed = "none" /\ x.manual = FALSE
  BY DEF NewMail
<1> HIDE DEF x
<1>6. MailAdded(x) /\ mails' \in Seq(Mail)
  BY <1>2, <1>4, Adding DEF x
<1>7. Len(mails) \in Nat /\ tick \in TickRecord
  BY MailsAre
<1>8. Len(mails') <= MaxMails /\ Len(mails) + 1 \in 0..MaxMails
  BY <1>1, <1>6, <1>7, Assumed DEF MailAdded
<1>9. /\ tick' \in TickRecord /\ tick'.pc = "sent" /\ tick'.mail = Len(mails) + 1
      /\ tick'.due = tick.due \ {m} /\ tick'.busy = tick.busy /\ tick'.todo = tick.todo
  <2> DEFINE n == Len(mails) + 1
  <2>1. n \in 0..MaxMails /\ tick.due \ {m} \in SUBSET Mailboxes
    BY <1>7, <1>8 DEF TickRecord
  <2>2. tick' = [tick EXCEPT !.pc = "sent", !.mail = n, !.due = @ \ {m}]
    BY <1>1
  <2> HIDE DEF n
  <2>3. /\ tick' \in TickRecord /\ tick'.pc = "sent" /\ tick'.mail = n
        /\ tick'.due = tick.due \ {m} /\ tick'.busy = tick.busy /\ tick'.todo = tick.todo
    BY <1>7, <2>1, <2>2 DEF TickRecord
  <2> QED
    BY <2>3 DEF n
<1>10. /\ elapsed' \in [Mailboxes -> (0..Len(Target) * Day) \cup {None}]
       /\ \A n \in Mailboxes : elapsed'[n] < Len(Target) * Day
  <2> DEFINE fresh == m \in tick.fresh
  <2>1. fresh \in BOOLEAN /\ Stamps(m, fresh)
    BY <1>1
  <2> HIDE DEF fresh
  <2> QED
    BY <2>1, Stamped
<1>11. TypeOK'
  BY <1>1, <1>6, <1>8, <1>9, <1>10 DEF TypeOK, TickRecord
<1>12. InHand'
  <2>1. tick.todo = {}
    BY <1>1 DEF InHand
  <2>2. /\ tick'.mail \in Mails' /\ mails'[tick'.mail].row = "none" /\ ~mails'[tick'.mail].manual
    BY <1>5, <1>6, <1>9 DEF MailAdded
  <2>3. \A k \in Mails' : ~(k > tick'.mail)
    BY <1>6, <1>7, <1>9 DEF MailAdded, Mails
  <2>4. \A k \in Mails' : mails'[k].row = "none" => mails'[k].landed = "none"
    BY <1>5, <1>6 DEF MailAdded, InHand
  <2> QED
    BY <1>9, <1>10, <2>1, <2>2, <2>3, <2>4 DEF InHand
<1> QED
  BY <1>1, <1>3, <1>6, <1>9, <1>11, <1>12 DEF x

\* the tick writes its mail's row, at last
LEMMA TheSendIsWritten ==
  ASSUME TypeOK, InHand, SentRecorded \/ SentFailed
  PROVE  /\ TypeOK' /\ InHand' /\ elapsed' = elapsed
         /\ tick.pc = "sent" /\ tick'.pc = "send" /\ tick'.due = tick.due
         /\ Len(mails') = Len(mails)
         /\ \A k \in Mails : k # tick.mail => mails'[k] = mails[k]
         /\ \E r \in {"PENDING", "FAILED"} :
              /\ mails'[tick.mail] = [mails[tick.mail] EXCEPT !.row = r]
              /\ r = "PENDING" => /\ faults' = faults
                                  /\ tick'.busy = tick.busy \cup {mails[tick.mail].to}
              /\ r = "FAILED" => faults' = faults + 1 /\ tick'.busy = tick.busy
<1>1. /\ tick.pc = "sent" /\ tick \in TickRecord /\ tick.mail \in Mails
      /\ mails[tick.mail] \in Mail /\ mails[tick.mail].row = "none" /\ tick.todo = {}
      /\ ~mails[tick.mail].manual /\ mails[tick.mail].landed = "none"
      /\ elapsed' = elapsed /\ pool' = pool
  BY MailsAre DEF SentRecorded, SentFailed, InHand
<1>2. PICK r \in {"PENDING", "FAILED"} :
        /\ mails' = [mails EXCEPT ![tick.mail].row = r]
        /\ r = "PENDING" => /\ faults' = faults
                            /\ tick' = [tick EXCEPT !.pc = "send",
                                                    !.busy = @ \cup {mails[tick.mail].to}]
        /\ r = "FAILED" => /\ faults < MaxFaults /\ faults' = faults + 1
                           /\ tick' = [tick EXCEPT !.pc = "send"]
  <2>1. CASE SentRecorded
    BY <2>1 DEF SentRecorded
  <2>2. CASE SentFailed
    BY <2>2 DEF SentFailed
  <2> QED
    BY <2>1, <2>2
<1> DEFINE x == [mails[tick.mail] EXCEPT !.row = r]
<1>3. x \in Mail /\ x.row = r /\ x.landed = "none"
  BY <1>1 DEF Mail, Rows
<1>4. x = [mails[tick.mail] EXCEPT !.row = r]
  OBVIOUS
<1>5. mails' = [mails EXCEPT ![tick.mail] = x]
  BY <1>2, Zenon
<1> HIDE DEF x
<1>6. /\ mails' \in Seq(Mail) /\ Len(mails') = Len(mails) /\ mails'[tick.mail] = x
      /\ \A k \in Mails : k # tick.mail => mails'[k] = mails[k]
  BY <1>1, <1>3, <1>5, OneChanges
<1>7. /\ tick' \in TickRecord /\ tick'.pc = "send" /\ tick'.due = tick.due /\ tick'.todo = {}
      /\ r = "PENDING" => tick'.busy = tick.busy \cup {mails[tick.mail].to}
      /\ r = "FAILED" => tick'.busy = tick.busy
  <2> DEFINE b == tick.busy \cup {mails[tick.mail].to}
  <2>1. b \in SUBSET Inboxes
    BY <1>1 DEF TickRecord, Mail
  <2>2. r = "PENDING" => tick' = [tick EXCEPT !.pc = "send", !.busy = b]
    BY <1>2
  <2> HIDE DEF b
  <2>3. CASE r = "PENDING"
    <3>1. /\ tick' \in TickRecord /\ tick'.pc = "send" /\ tick'.due = tick.due /\ tick'.todo = {}
          /\ tick'.busy = b
      BY <1>1, <2>1, <2>2, <2>3 DEF TickRecord
    <3> QED
      BY <2>3, <3>1 DEF b
  <2>4. CASE r = "FAILED"
    BY <1>1, <1>2, <2>4 DEF TickRecord
  <2> QED
    BY <2>3, <2>4
<1>8. faults' \in 0..MaxFaults
  BY <1>2, Assumed DEF TypeOK
<1>9. TypeOK'
  BY <1>1, <1>6, <1>7, <1>8 DEF TypeOK, TickRecord
<1>10. InHand'
  <2>1. Mails' = Mails
    BY <1>6 DEF Mails
  <2>2. \A k \in Mails : mails'[k].row = "none" => mails'[k].landed = "none"
    BY <1>3, <1>6 DEF InHand
  <2>3. \A m \in Mailboxes : elapsed'[m] < Len(Target) * Day
    BY <1>1 DEF InHand
  <2> QED
    BY <1>7, <2>1, <2>2, <2>3 DEF InHand
<1> QED
  BY <1>1, <1>2, <1>4, <1>6, <1>7, <1>9, <1>10

LEMMA TheOperatorSends ==
  ASSUME TypeOK, InHand, NEW m \in Mailboxes, SendNow(m)
  PROVE  /\ TypeOK' /\ InHand' /\ tick' = tick /\ faults' = faults
         /\ \A n \in Mailboxes : elapsed'[n] # elapsed[n] => elapsed'[n] = 0 /\ elapsed[n] = None
         /\ \E x \in Mail : MailAdded(x) /\ x.manual /\ x.row = "PENDING" /\ x.landed = "none"
<1>1. /\ Len(mails) < MaxMails /\ UNCHANGED <<pool, tick, faults>>
      /\ Stamps(m, elapsed[m] = None)
  BY DEF SendNow
<1>2. PICK p \in Partners(m, pool, {}) :
        mails' = Append(mails, [NewMail(m, p, TRUE) EXCEPT !.row = "PENDING"])
  BY DEF SendNow
<1>3. p \in Inboxes
  BY DEF Partners, TypeOK
<1> DEFINE x == [NewMail(m, p, TRUE) EXCEPT !.row = "PENDING"]
<1>4. x \in Mail /\ x.manual /\ x.row = "PENDING" /\ x.landed = "none"
  <2>1. NewMail(m, p, TRUE) \in Mail
    BY <1>3, MailRecords
  <2>2. x \in Mail
    BY <2>1, MailRecords DEF Rows
  <2>3. x.manual = TRUE /\ x.row = "PENDING" /\ x.landed = "none"
    BY DEF NewMail
  <2> QED
    BY <2>2, <2>3
<1> HIDE DEF x
<1>5. MailAdded(x) /\ mails' \in Seq(Mail)
  BY <1>2, <1>4, Adding DEF x
<1>6. /\ elapsed' \in [Mailboxes -> (0..Len(Target) * Day) \cup {None}]
      /\ \A n \in Mailboxes : elapsed'[n] < Len(Target) * Day
      /\ \A n \in Mailboxes : elapsed'[n] # elapsed[n] => elapsed'[n] = 0 /\ elapsed[n] = None
  <2> DEFINE fresh == elapsed[m] = None
  <2>1. fresh \in BOOLEAN /\ Stamps(m, fresh)
    BY <1>1
  <2>2. fresh <=> elapsed[m] = None
    OBVIOUS
  <2> HIDE DEF fresh
  <2>3. /\ elapsed' \in [Mailboxes -> (0..Len(Target) * Day) \cup {None}]
        /\ \A n \in Mailboxes : elapsed'[n] < Len(Target) * Day
        /\ elapsed'[m] = IF fresh THEN 0 ELSE elapsed[m]
        /\ \A n \in Mailboxes : n # m => elapsed'[n] = elapsed[n]
    BY <2>1, Stamped
  <2> QED
    BY <2>2, <2>3
<1>7. Len(mails) \in Nat /\ Len(mails') <= MaxMails
  BY <1>1, <1>5, MailsAre, Assumed DEF MailAdded
<1>8. TypeOK'
  BY <1>1, <1>5, <1>6, <1>7 DEF TypeOK
<1>9. InHand'
  <2>1. tick.todo \subseteq {i \in Mails' : mails'[i].row = "PENDING"}
    BY <1>5 DEF InHand, MailAdded
  <2>2. tick.pc = "sent" =>
          /\ tick.mail \in Mails' /\ mails'[tick.mail] = mails[tick.mail]
          /\ \A k \in Mails' : k > tick.mail => mails'[k].manual
    <3> SUFFICES ASSUME tick.pc = "sent"
                 PROVE  /\ tick.mail \in Mails' /\ mails'[tick.mail] = mails[tick.mail]
                        /\ \A k \in Mails' : k > tick.mail => mails'[k].manual
      OBVIOUS
    <3>1. tick.mail \in Mails /\ \A k \in Mails : k > tick.mail => mails[k].manual
      BY DEF InHand
    <3>2. tick.mail \in Mails' /\ mails'[tick.mail] = mails[tick.mail]
      BY <1>5, <3>1 DEF MailAdded
    <3>3. ASSUME NEW k \in Mails', k > tick.mail PROVE mails'[k].manual
      <4>1. CASE k \in Mails
        BY <1>5, <3>1, <3>3, <4>1 DEF MailAdded
      <4>2. CASE k = Len(mails) + 1
        BY <1>4, <1>5, <4>2 DEF MailAdded
      <4> QED
        BY <1>5, <3>3, <4>1, <4>2 DEF MailAdded
    <3> QED
      BY <3>2, <3>3
  <2>3. ASSUME NEW k \in Mails', mails'[k].row = "none" PROVE mails'[k].landed = "none"
    <3>1. \A j \in Mails : mails[j].row = "none" => mails[j].landed = "none"
      BY DEF InHand
    <3>2. k \in Mails
      BY <1>4, <1>5, <2>3 DEF MailAdded
    <3> QED
      BY <1>5, <2>3, <3>1, <3>2 DEF MailAdded
  <2>4. tick' = tick
    BY <1>1
  <2> QED
    BY <1>6, <2>1, <2>2, <2>3, <2>4 DEF InHand
<1> QED
  BY <1>1, <1>4, <1>5, <1>6, <1>8, <1>9

\* an age goes up by one, until it is a day
LEMMA AnHourPasses ==
  ASSUME TypeOK, InHand, Hour
  PROVE  /\ TypeOK' /\ InHand' /\ faults' = faults
         /\ Mails' = Mails /\ tick.pc \notin {"check", "found"}
         /\ \A i \in Mails :
              mails'[i] = [mails[i] EXCEPT !.age = IF @ < Day THEN @ + 1 ELSE @]
         /\ IF tick.pc = "done" THEN tick' = IdleTick ELSE tick' = tick
         /\ \A m \in Mailboxes :
              \/ elapsed[m] = None /\ elapsed'[m] = None
              \/ /\ elapsed[m] \in Nat
                 /\ \/ elapsed'[m] = elapsed[m] + 1
                    \/ elapsed'[m] = (Len(Target) - 1) * Day
<1>1. /\ tick.pc \notin {"check", "found"} /\ pool' = pool /\ faults' = faults
      /\ mails' = [i \in Mails |-> [mails[i] EXCEPT !.age = IF @ < Day THEN @ + 1 ELSE @]]
      /\ IF tick.pc = "done" THEN tick' = IdleTick ELSE tick' = tick
  BY DEF Hour
<1>2. /\ mails' \in Seq(Mail) /\ Len(mails') = Len(mails)
      /\ \A i \in Mails : mails'[i] = [mails[i] EXCEPT !.age = IF @ < Day THEN @ + 1 ELSE @]
  <2> DEFINE x(i) == [mails[i] EXCEPT !.age = IF @ < Day THEN @ + 1 ELSE @]
  <2>1. \A i \in 1..Len(mails) : x(i) \in Mail
    BY MailsAre, MailRecords DEF Mails
  <2>2. mails' = [i \in 1..Len(mails) |-> x(i)]
    BY <1>1 DEF Mails
  <2>3. \A i \in Mails : mails'[i] = x(i)
    BY <2>2 DEF Mails
  <2> HIDE DEF x
  <2>4. mails' \in Seq(Mail) /\ Len(mails') = Len(mails)
    <3>1. Len(mails) \in Nat
      BY MailsAre
    <3>2. mails' \in [1..Len(mails) -> Mail]
      BY <2>1, <2>2
    <3>3. mails' \in Seq(Mail)
      BY <3>1, <3>2, SeqDef
    <3> QED
      BY <3>1, <3>2, <3>3, LenProperties
  <2> QED
    BY <2>3, <2>4 DEF x
<1>3. Mails' = Mails
  BY <1>2 DEF Mails
<1> DEFINE all == Len(Target) * Day
           last == (Len(Target) - 1) * Day
<1>4. all \in Nat /\ last \in Nat /\ last < all /\ 0 < all
  <2>1. Len(Target) \in Nat /\ Day \in Nat /\ Len(Target) > 0 /\ Day > 0
    BY Assumed
  <2>2. all = last + Day
    BY <2>1
  <2>3. last \in Nat
    BY <2>1
  <2> QED
    BY <2>1, <2>2, <2>3
<1> DEFINE e(m) == CASE elapsed[m] = None -> None
                     [] elapsed[m] + 1 = Len(Target) * Day -> (Len(Target) - 1) * Day
                     [] OTHER -> elapsed[m] + 1
<1>0. elapsed' = [m \in Mailboxes |-> e(m)]
  BY DEF Hour
<1>5. ASSUME NEW m \in Mailboxes
      PROVE  elapsed'[m] = IF elapsed[m] = None THEN None
                           ELSE IF elapsed[m] + 1 = all THEN last ELSE elapsed[m] + 1
  <2>1. elapsed'[m] = e(m)
    <3> HIDE DEF e
    <3> QED
      BY <1>0
  <2>2. elapsed[m] = None => elapsed[m] + 1 # Len(Target) * Day
    <3>1. elapsed[m] = None => elapsed[m] + 1 = 0
      BY DEF None
    <3> HIDE DEF e, last
    <3> QED
      BY <1>4, <3>1
  <2> QED
    BY <2>1, <2>2, Zenon
<1>6. DOMAIN elapsed' = Mailboxes /\ elapsed' = [m \in Mailboxes |-> elapsed'[m]]
  <2> HIDE DEF e
  <2> QED
    BY <1>0
<1> HIDE DEF e
<1>7. elapsed \in [Mailboxes -> (0..all) \cup {None}] /\ \A m \in Mailboxes : elapsed[m] < all
  BY DEF TypeOK, InHand
<1> HIDE DEF all, last
<1>8. \A m \in Mailboxes : /\ elapsed'[m] \in (0..all) \cup {None} /\ elapsed'[m] < all
                           /\ \/ elapsed[m] = None /\ elapsed'[m] = None
                              \/ /\ elapsed[m] \in Nat
                                 /\ (elapsed'[m] = elapsed[m] + 1 \/ elapsed'[m] = last)
  BY <1>4, <1>5, <1>7 DEF None
<1>9. tick' \in TickRecord
  BY <1>1, MailsAre, ATickRecord
<1>10. TypeOK'
  <2>1. elapsed' \in [Mailboxes -> (0..all) \cup {None}]
    BY <1>6, <1>8
  <2> QED
    BY <1>1, <1>2, <1>9, <2>1 DEF TypeOK, TickRecord, all
<1>11. InHand'
  <2>1. \A i \in Mails : /\ mails'[i].row = mails[i].row /\ mails'[i].landed = mails[i].landed
                         /\ mails'[i].manual = mails[i].manual
    BY <1>2, MailsAre DEF Mail
  <2>2. \A m \in Mailboxes : elapsed'[m] < Len(Target) * Day
    BY <1>8 DEF all
  <2>3. \A i \in Mails : mails'[i].row = "none" => mails'[i].landed = "none"
    BY <2>1 DEF InHand
  <2>4. CASE tick' = IdleTick
    <3>1. tick'.pc = "idle" /\ tick'.todo = {}
      BY <2>4 DEF IdleTick
    <3> QED
      BY <1>3, <2>2, <2>3, <3>1 DEF InHand
  <2>5. CASE tick' = tick
    <3>1. tick.todo \subseteq {i \in Mails : mails'[i].row = "PENDING"}
      BY <2>1 DEF InHand
    <3>2. tick.pc = "sent" =>
            /\ tick.mail \in Mails
            /\ mails'[tick.mail].row = "none" /\ ~mails'[tick.mail].manual
            /\ \A k \in Mails : k > tick.mail => mails'[k].manual
      BY <2>1 DEF InHand
    <3>3. (tick.pc \notin {"check", "found"} => tick.todo = {}) /\ tick.pc # "found"
      BY <1>1 DEF InHand
    <3> QED
      BY <1>3, <2>2, <2>3, <2>5, <3>1, <3>2, <3>3 DEF InHand
  <2> QED
    BY <1>1, <2>4, <2>5
<1>12. \A m \in Mailboxes :
         \/ elapsed[m] = None /\ elapsed'[m] = None
         \/ /\ elapsed[m] \in Nat
            /\ (elapsed'[m] = elapsed[m] + 1 \/ elapsed'[m] = (Len(Target) - 1) * Day)
  BY <1>8 DEF last
<1> QED
  BY <1>1, <1>2, <1>3, <1>10, <1>11, <1>12

-----------------------------------------------------------------------------
(* The gap per inbox.                                                       *)
TypesAndHand == TypeOK /\ InHand

LEMMA SameMails ==
  ASSUME TypeOK, SendsStay
  PROVE  Mails' = Mails
BY DEF SendsStay, Mails

LEMMA GapStays ==
  ASSUME TypeOK, SendsStay, OneInboxPerGap
  PROVE  OneInboxPerGap'
<1>1. Mails' = Mails /\ \A k \in Mails : Alike(k)
  BY SameMails DEF SendsStay
<1> SUFFICES ASSUME NEW i \in Mails, NEW j \in Mails,
                    i < j, Ticked(i)', ~mails'[j].manual, mails'[i].row # "FAILED",
                    mails'[i].to = mails'[j].to, mails'[i].age < Day
             PROVE  mails'[i].age - mails'[j].age >= RecipientGap
  BY <1>1 DEF OneInboxPerGap
<1>2. /\ Ticked(i) /\ ~mails[j].manual /\ mails[i].row # "FAILED"
      /\ mails[i].to = mails[j].to /\ mails[i].age < Day
      /\ mails'[i].age = mails[i].age /\ mails'[j].age = mails[j].age
  BY <1>1 DEF Alike, Ticked
<1> QED
  BY <1>2 DEF OneInboxPerGap

LEMMA FreeStays ==
  ASSUME TypeOK, SendsStay, FreeInboxes, tick.busy \subseteq tick'.busy,
         tick.pc \in {"send", "sent"}
  PROVE  FreeInboxes'
<1>1. Mails' = Mails /\ \A k \in Mails : Alike(k)
  BY SameMails DEF SendsStay
<1> SUFFICES ASSUME NEW i \in Mails, Ticked(i)', mails'[i].row # "FAILED",
                    mails'[i].to \notin tick'.busy
             PROVE  mails'[i].age >= RecipientGap
  BY <1>1 DEF FreeInboxes
<1>2. /\ Ticked(i) /\ mails[i].row # "FAILED" /\ mails[i].to \notin tick.busy
      /\ mails'[i].age = mails[i].age
  BY <1>1 DEF Alike, Ticked
<1> QED
  BY <1>2 DEF FreeInboxes

\* what a tick read when it began to send
LEMMA BusyIsRead ==
  ASSUME TypeOK, NEW i \in Mails, Ticked(i), mails[i].row # "FAILED",
         mails[i].to \notin BusyInboxes
  PROVE  mails[i].age >= RecipientGap
<1>1. ~(mails[i].age < RecipientGap)
  BY DEF BusyInboxes, Ticked
<1> QED
  BY <1>1, MailsAre, Assumed DEF Mail

LEMMA QuietGap ==
  ASSUME TypesAndHand, OneInboxPerGap, FreeInboxes, QuietPart
  PROVE  OneInboxPerGap' /\ FreeInboxes'
<1>0. TypeOK /\ InHand
  BY DEF TypesAndHand
<1>1. SendsStay /\ mails' = mails /\ OneInboxPerGap'
  BY <1>0, Quiet, GapStays
<1>2. CASE SendStarts
  <2>1. tick'.busy = BusyInboxes /\ Mails' = Mails /\ mails' = mails
    BY <1>0, <1>2, TheSendsStart, SameMails, <1>1
  <2> SUFFICES ASSUME NEW i \in Mails, Ticked(i)', mails'[i].row # "FAILED",
                      mails'[i].to \notin tick'.busy
               PROVE  mails'[i].age >= RecipientGap
    BY <1>1, <2>1 DEF FreeInboxes
  <2>2. Ticked(i) /\ mails[i].row # "FAILED" /\ mails[i].to \notin BusyInboxes
    BY <2>1 DEF Ticked
  <2> QED
    BY <1>0, <2>1, <2>2, BusyIsRead
<1>3. CASE tick.pc = "send" /\ tick'.busy = tick.busy
  BY <1>0, <1>1, <1>3, FreeStays
<1>4. CASE tick'.pc = "done"
  BY <1>1, <1>4 DEF FreeInboxes
<1>5. CASE tick' = tick
  <2>1. CASE tick.pc \in {"send", "sent"}
    BY <1>0, <1>1, <1>5, <2>1, FreeStays
  <2>2. CASE tick.pc \notin {"send", "sent"}
    BY <1>1, <1>5, <2>2 DEF FreeInboxes
  <2> QED
    BY <2>1, <2>2
<1> QED
  BY <1>0, <1>1, <1>2, <1>3, <1>4, <1>5, Quiet

\* the tick chooses an inbox that is free; it is busy once the row is written
LEMMA SendGap ==
  ASSUME TypesAndHand, OneInboxPerGap, FreeInboxes, NEW m \in Mailboxes, Sends(m)
  PROVE  OneInboxPerGap' /\ FreeInboxes'
<1>0. TypeOK /\ InHand
  BY DEF TypesAndHand
<1>1. /\ tick.pc = "send" /\ tick'.pc = "sent" /\ tick'.busy = tick.busy
      /\ \E p \in Inboxes \ tick.busy : MailAdded(NewMail(m, p, FALSE))
  BY <1>0, TheTickSends
<1>2. PICK p \in Inboxes \ tick.busy : MailAdded(NewMail(m, p, FALSE))
  BY <1>1
<1> DEFINE n == Len(mails) + 1
           x == NewMail(m, p, FALSE)
<1>3. x.to = p /\ x.age = 0 /\ x.row = "none"
  BY DEF NewMail
<1> HIDE DEF x
<1>4. /\ mails'[n] = x /\ \A k \in Mails : mails'[k] = mails[k]
      /\ Mails' = Mails \cup {n} /\ n \notin Mails /\ Mails = 1..Len(mails) /\ Len(mails) \in Nat
  BY <1>0, <1>2, MailsAre DEF MailAdded, Mails, x
<1> HIDE DEF n
<1>5. ASSUME NEW i \in Mails', NEW j \in Mails',
             i < j, Ticked(i)', ~mails'[j].manual, mails'[i].row # "FAILED",
             mails'[i].to = mails'[j].to, mails'[i].age < Day
      PROVE  mails'[i].age - mails'[j].age >= RecipientGap
  <2>1. i \in Mails /\ Ticked(i) /\ mails'[i] = mails[i]
    BY <1>3, <1>4, <1>5 DEF Ticked
  <2>2. CASE j \in Mails
    BY <1>4, <1>5, <2>1, <2>2 DEF OneInboxPerGap
  <2>3. CASE j = n
    <3>1. mails[i].age >= RecipientGap
      BY <1>1, <1>3, <1>4, <1>5, <2>1, <2>3 DEF FreeInboxes
    <3>2. mails[i].age \in Nat
      BY <1>0, <2>1, MailsAre, Assumed DEF Mail
    <3> QED
      BY <1>3, <1>4, <2>1, <2>3, <3>1, <3>2, Assumed
  <2> QED
    BY <1>4, <2>2, <2>3
<1>6. ASSUME NEW i \in Mails', Ticked(i)', mails'[i].row # "FAILED",
             mails'[i].to \notin tick'.busy
      PROVE  mails'[i].age >= RecipientGap
  <2>1. i \in Mails /\ Ticked(i) /\ mails'[i] = mails[i]
    BY <1>3, <1>4, <1>6 DEF Ticked
  <2> QED
    BY <1>1, <1>6, <2>1 DEF FreeInboxes
<1> QED
  BY <1>5, <1>6 DEF OneInboxPerGap, FreeInboxes

LEMMA RowGap ==
  ASSUME TypesAndHand, OneInboxPerGap, FreeInboxes, SentRecorded \/ SentFailed
  PROVE  OneInboxPerGap' /\ FreeInboxes'
<1>0. TypeOK /\ InHand
  BY DEF TypesAndHand
<1>1. /\ tick.pc = "sent" /\ Len(mails') = Len(mails)
      /\ \A k \in Mails : k # tick.mail => mails'[k] = mails[k]
      /\ \E r \in {"PENDING", "FAILED"} :
           /\ mails'[tick.mail] = [mails[tick.mail] EXCEPT !.row = r]
           /\ r = "PENDING" => tick'.busy = tick.busy \cup {mails[tick.mail].to}
           /\ r = "FAILED" => tick'.busy = tick.busy
  BY <1>0, TheSendIsWritten
<1>2. PICK r \in {"PENDING", "FAILED"} :
        /\ mails'[tick.mail] = [mails[tick.mail] EXCEPT !.row = r]
        /\ r = "PENDING" => tick'.busy = tick.busy \cup {mails[tick.mail].to}
        /\ r = "FAILED" => tick'.busy = tick.busy
  BY <1>1
<1>3. PICK n \in Mails :
        /\ n = tick.mail /\ mails[n].row = "none" /\ ~mails[n].manual
        /\ \A k \in Mails : k > n => mails[k].manual
  BY <1>0, <1>1 DEF InHand
<1>4. /\ Mails' = Mails /\ \A k \in Mails : k # n => mails'[k] = mails[k]
      /\ mails'[n].row = r /\ mails'[n].to = mails[n].to /\ mails'[n].age = mails[n].age
      /\ mails'[n].manual = mails[n].manual
  BY <1>0, <1>1, <1>2, <1>3, MailsAre DEF Mails, Mail
<1>5. ASSUME NEW i \in Mails', NEW j \in Mails',
             i < j, Ticked(i)', ~mails'[j].manual, mails'[i].row # "FAILED",
             mails'[i].to = mails'[j].to, mails'[i].age < Day
      PROVE  mails'[i].age - mails'[j].age >= RecipientGap
  <2>1. i \in Mails /\ j \in Mails /\ ~mails[j].manual
    BY <1>4, <1>5
  <2>2. i # n
    BY <1>3, <1>5, <2>1
  <2>3. Ticked(i) /\ mails[i].row # "FAILED" /\ mails[i].to = mails[j].to
        /\ mails[i].age < Day /\ mails'[i].age = mails[i].age /\ mails'[j].age = mails[j].age
    BY <1>4, <1>5, <2>1, <2>2 DEF Ticked
  <2> QED
    BY <1>5, <2>1, <2>3 DEF OneInboxPerGap
<1>6. ASSUME NEW i \in Mails', Ticked(i)', mails'[i].row # "FAILED",
             mails'[i].to \notin tick'.busy
      PROVE  mails'[i].age >= RecipientGap
  <2>1. i \in Mails /\ i # n
    BY <1>2, <1>3, <1>4, <1>6
  <2>2. Ticked(i) /\ mails[i].row # "FAILED" /\ mails'[i].age = mails[i].age
        /\ mails[i].to \notin tick.busy
    BY <1>2, <1>4, <1>6, <2>1 DEF Ticked
  <2> QED
    BY <1>1, <2>1, <2>2 DEF FreeInboxes
<1> QED
  BY <1>5, <1>6 DEF OneInboxPerGap, FreeInboxes

LEMMA ByHandGap ==
  ASSUME TypesAndHand, OneInboxPerGap, FreeInboxes, NEW m \in Mailboxes, SendNow(m)
  PROVE  OneInboxPerGap' /\ FreeInboxes'
<1>0. TypeOK /\ InHand
  BY DEF TypesAndHand
<1>1. tick' = tick
  BY <1>0, TheOperatorSends
<1>2. PICK x \in Mail : MailAdded(x) /\ x.manual
  BY <1>0, TheOperatorSends
<1> DEFINE n == Len(mails) + 1
<1>3. /\ mails'[n] = x /\ \A k \in Mails : mails'[k] = mails[k]
      /\ Mails' = Mails \cup {n} /\ n \notin Mails
  BY <1>2 DEF MailAdded
<1> HIDE DEF n
<1>4. ASSUME NEW i \in Mails', NEW j \in Mails',
             i < j, Ticked(i)', ~mails'[j].manual, mails'[i].row # "FAILED",
             mails'[i].to = mails'[j].to, mails'[i].age < Day
      PROVE  mails'[i].age - mails'[j].age >= RecipientGap
  <2>1. i \in Mails /\ j \in Mails /\ Ticked(i) /\ mails'[i] = mails[i] /\ mails'[j] = mails[j]
    BY <1>2, <1>3, <1>4 DEF Ticked
  <2> QED
    BY <1>4, <2>1 DEF OneInboxPerGap
<1>5. ASSUME tick.pc \in {"send", "sent"}, NEW i \in Mails', Ticked(i)',
             mails'[i].row # "FAILED", mails'[i].to \notin tick'.busy
      PROVE  mails'[i].age >= RecipientGap
  <2>1. i \in Mails /\ Ticked(i) /\ mails'[i] = mails[i]
    BY <1>2, <1>3, <1>5 DEF Ticked
  <2> QED
    BY <1>1, <1>5, <2>1 DEF FreeInboxes
<1> QED
  BY <1>1, <1>4, <1>5 DEF OneInboxPerGap, FreeInboxes

LEMMA HourGap ==
  ASSUME TypesAndHand, OneInboxPerGap, FreeInboxes, Hour
  PROVE  OneInboxPerGap' /\ FreeInboxes'
<1>0. TypeOK /\ InHand
  BY DEF TypesAndHand
<1>1. /\ Mails' = Mails
      /\ \A i \in Mails :
           mails'[i] = [mails[i] EXCEPT !.age = IF @ < Day THEN @ + 1 ELSE @]
      /\ IF tick.pc = "done" THEN tick' = IdleTick ELSE tick' = tick
  BY <1>0, AnHourPasses
<1>2. ASSUME NEW i \in Mails
      PROVE  /\ mails[i].age \in 0..Day
             /\ mails'[i].age = IF mails[i].age < Day THEN mails[i].age + 1 ELSE mails[i].age
             /\ mails'[i].to = mails[i].to /\ mails'[i].row = mails[i].row
             /\ mails'[i].manual = mails[i].manual
  BY <1>0, <1>1, MailsAre DEF Mail
<1>3. ASSUME NEW i \in Mails', NEW j \in Mails',
             i < j, Ticked(i)', ~mails'[j].manual, mails'[i].row # "FAILED",
             mails'[i].to = mails'[j].to, mails'[i].age < Day
      PROVE  mails'[i].age - mails'[j].age >= RecipientGap
  <2>1. i \in Mails /\ j \in Mails /\ Ticked(i)
    BY <1>1, <1>2, <1>3 DEF Ticked
  <2>2. mails[i].age < Day
    BY <1>2, <1>3, <2>1, Assumed
  <2>3. mails[i].age - mails[j].age >= RecipientGap
    BY <1>2, <1>3, <2>1, <2>2 DEF OneInboxPerGap
  <2>4. mails'[i].age = mails[i].age + 1 /\ mails[i].age \in Int
    BY <1>2, <2>1, <2>2, Assumed
  <2>5. mails'[j].age <= mails[j].age + 1 /\ mails[j].age \in Int /\ mails'[j].age \in Int
    BY <1>2, <2>1, Assumed
  <2>6. PICK a \in Int, b \in Int, a2 \in Int, b2 \in Int :
          /\ a = mails[i].age /\ b = mails[j].age /\ a2 = mails'[i].age /\ b2 = mails'[j].age
    BY <2>4, <2>5
  <2>7. a - b >= RecipientGap /\ a2 = a + 1 /\ b2 <= b + 1 /\ RecipientGap \in Int
    BY <2>3, <2>4, <2>5, <2>6, Assumed
  <2>8. a2 - b2 >= RecipientGap
    BY <2>7
  <2> QED
    BY <2>6, <2>8
<1>4. ASSUME tick'.pc \in {"send", "sent"}, NEW i \in Mails', Ticked(i)',
             mails'[i].row # "FAILED", mails'[i].to \notin tick'.busy
      PROVE  mails'[i].age >= RecipientGap
  <2>1. i \in Mails /\ Ticked(i)
    BY <1>1, <1>2, <1>4 DEF Ticked
  <2>2. tick' = tick
    BY <1>1, <1>4 DEF IdleTick
  <2>3. mails[i].age >= RecipientGap
    BY <1>2, <1>4, <2>1, <2>2 DEF FreeInboxes
  <2> QED
    BY <1>2, <2>1, <2>3, Assumed
<1> QED
  BY <1>3, <1>4 DEF OneInboxPerGap, FreeInboxes

LEMMA CheckGap ==
  ASSUME TypesAndHand, OneInboxPerGap, CheckPart
  PROVE  OneInboxPerGap' /\ FreeInboxes'
<1>1. SendsStay /\ tick'.pc \in {"check", "found"}
  BY Checks DEF TypesAndHand
<1>2. OneInboxPerGap'
  BY <1>1, GapStays DEF TypesAndHand
<1> QED
  BY <1>1, <1>2 DEF FreeInboxes

LEMMA NextParts ==
  ASSUME Next
  PROVE  \/ CheckPart \/ QuietPart
         \/ \E m \in Mailboxes : Sends(m) \/ SendNow(m)
         \/ SentRecorded \/ SentFailed \/ Hour
  BY DEF Next, Tick, CheckPart, QuietPart

LEMMA NextTypes ==
  ASSUME TypesAndHand, [Next]_vars
  PROVE  TypesAndHand'
<1>0. TypeOK /\ InHand
  BY DEF TypesAndHand
<1>1. CASE UNCHANGED vars
  <2>1. mails' = mails /\ elapsed' = elapsed /\ pool' = pool /\ tick' = tick /\ faults' = faults
    BY <1>1 DEF vars
  <2>2. tick' \in TickRecord /\ faults' \in 0..MaxFaults /\ pool' \subseteq Inboxes
    BY <1>0, <2>1, MailsAre DEF TypeOK
  <2> QED
    BY <1>0, <2>1, <2>2, QuietTypes DEF TypesAndHand
<1>2. CASE CheckPart
  BY <1>0, <1>2, Checks DEF TypesAndHand
<1>3. CASE QuietPart
  BY <1>0, <1>3, Quiet DEF TypesAndHand
<1>4. ASSUME NEW m \in Mailboxes, Sends(m) \/ SendNow(m) PROVE TypesAndHand'
  BY <1>0, <1>4, TheTickSends, TheOperatorSends DEF TypesAndHand
<1>5. CASE SentRecorded \/ SentFailed
  BY <1>0, <1>5, TheSendIsWritten DEF TypesAndHand
<1>6. CASE Hour
  BY <1>0, <1>6, AnHourPasses DEF TypesAndHand
<1> QED
  BY <1>1, <1>2, <1>3, <1>4, <1>5, <1>6, NextParts

(* Rows, ages and the tick keep their types, and the tick writes only rows   *)
(* that are there; for any inboxes, mails and faults.                       *)
THEOREM WarmupTypes == Spec => [](TypeOK /\ InHand)
<1>1. Init => TypesAndHand
  <2> SUFFICES ASSUME Init PROVE TypesAndHand
    OBVIOUS
  <2>1. /\ mails = <<>> /\ mails \in Seq(Mail) /\ Len(mails) = 0 /\ Mails = {}
        /\ pool = Inboxes /\ faults = 0 /\ tick = IdleTick
    BY EmptySeq DEF Init, Mails
  <2>2. elapsed \in [Mailboxes -> (0..Len(Target) * Day) \cup {None}]
    BY DEF Init
  <2>3. IdleTick \in TickRecord
    BY Assumed DEF IdleTick, TickRecord
  <2>4. TypeOK
    BY <2>1, <2>2, <2>3, Assumed DEF TypeOK, TickRecord
  <2>5. \A m \in Mailboxes : elapsed[m] < Len(Target) * Day
    <3>1. Len(Target) * Day \in Nat
      BY Assumed
    <3> QED
      BY <3>1 DEF Init, None
  <2>6. IdleTick.pc = "idle" /\ IdleTick.todo = {}
    BY DEF IdleTick
  <2>7. InHand
    BY <2>1, <2>5, <2>6 DEF InHand
  <2> QED
    BY <2>4, <2>7 DEF TypesAndHand
<1>2. TypesAndHand => TypeOK /\ InHand
  BY DEF TypesAndHand
<1> QED
  BY <1>1, <1>2, NextTypes, PTL DEF Spec

(* Mailboxes choose recipients in one tick, from one list of busy inboxes,  *)
(* while ticks die and the operator sends by hand: across all mailboxes no  *)
(* inbox gets two of the ticks' mails within the gap.                       *)
THEOREM InboxesRest == Spec => []OneInboxPerGap
<1> DEFINE Gap == OneInboxPerGap /\ FreeInboxes
<1>1. Init => Gap
  <2> SUFFICES ASSUME Init PROVE Gap
    OBVIOUS
  <2>1. Mails = {} /\ tick.pc = "idle"
    BY EmptySeq DEF Init, Mails, IdleTick
  <2> QED
    BY <2>1 DEF OneInboxPerGap, FreeInboxes
<1>2. TypesAndHand /\ Gap /\ [Next]_vars => Gap'
  <2> SUFFICES ASSUME TypesAndHand, OneInboxPerGap, FreeInboxes, [Next]_vars
               PROVE  OneInboxPerGap' /\ FreeInboxes'
    OBVIOUS
  <2>1. CASE UNCHANGED vars
    BY <2>1 DEF vars, OneInboxPerGap, FreeInboxes, Ticked, Mails
  <2>2. CASE CheckPart
    BY <2>2, CheckGap
  <2>3. CASE QuietPart
    BY <2>3, QuietGap
  <2>4. ASSUME NEW m \in Mailboxes, Sends(m) \/ SendNow(m)
        PROVE  OneInboxPerGap' /\ FreeInboxes'
    BY <2>4, SendGap, ByHandGap
  <2>5. CASE SentRecorded \/ SentFailed
    BY <2>5, RowGap
  <2>6. CASE Hour
    BY <2>6, HourGap
  <2> QED
    BY <2>1, <2>2, <2>3, <2>4, <2>5, <2>6, NextParts
<1>3. TypeOK /\ InHand => TypesAndHand
  BY DEF TypesAndHand
<1> QED
  BY <1>1, <1>2, <1>3, WarmupTypes, PTL DEF Spec

-----------------------------------------------------------------------------
(* The placements.                                                          *)
HasLanded == tick.pc = "found" => mails[tick.mail].landed # "none"

\* a mail becomes odd only where a tick dies
LEMMA OddArePaid ==
  ASSUME TypeOK, TypeOK', AnswersPaid,
         \/ Odd' \subseteq Odd /\ faults' >= faults
         \/ Odd' \subseteq Odd \cup {tick.mail} /\ faults' = faults + 1
  PROVE  AnswersPaid'
<1>1. IsFiniteSet(Odd) /\ Cardinality(Odd) \in Nat /\ Cardinality(Odd) <= faults
  BY MailsAre, FS_Subset, FS_CardinalityType DEF Odd, AnswersPaid
<1>2. faults \in Nat /\ faults' \in Nat
  BY Assumed DEF TypeOK
<1>3. CASE Odd' \subseteq Odd /\ faults' >= faults
  <2>1. Cardinality(Odd') <= Cardinality(Odd) /\ Cardinality(Odd') \in Nat
    BY <1>1, <1>3, FS_Subset, FS_CardinalityType
  <2> QED
    BY <1>1, <1>2, <1>3, <2>1 DEF AnswersPaid
<1>4. CASE Odd' \subseteq Odd \cup {tick.mail} /\ faults' = faults + 1
  <2>1. /\ IsFiniteSet(Odd \cup {tick.mail})
        /\ Cardinality(Odd \cup {tick.mail}) <= Cardinality(Odd) + 1
        /\ Cardinality(Odd \cup {tick.mail}) \in Nat
    <3> DEFINE i == tick.mail
    <3> HIDE DEF i
    <3>1. IsFiniteSet(Odd \cup {i}) /\ Cardinality(Odd \cup {i}) \in Nat
      BY <1>1, FS_AddElement, FS_CardinalityType
    <3>2. Cardinality(Odd \cup {i}) = IF i \in Odd THEN Cardinality(Odd) ELSE Cardinality(Odd) + 1
      BY <1>1, FS_AddElement
    <3>3. Cardinality(Odd \cup {i}) <= Cardinality(Odd) + 1
      BY <1>1, <3>2
    <3> QED
      BY <3>1, <3>3 DEF i
  <2>2. Cardinality(Odd') <= Cardinality(Odd \cup {tick.mail}) /\ Cardinality(Odd') \in Nat
    BY <1>4, <2>1, FS_Subset, FS_CardinalityType
  <2> QED
    BY <1>1, <1>2, <1>4, <2>1, <2>2 DEF AnswersPaid
<1> QED
  BY <1>3, <1>4

\* an answer that is true, or none yet
LEMMA TrueRows ==
  /\ \A i : mails[i].row \in {"none", "PENDING", "FAILED", "UNCHECKED"} => ~Untrue(i)
  /\ \A i : mails[i].landed = "none" /\ mails[i].row \in {"BOUNCED", "MISSING"} => ~Untrue(i)
  /\ \A i : mails[i].landed = "inbox" /\ mails[i].row = "INBOX" => ~Untrue(i)
  /\ \A i : mails[i].landed = "spam" /\ mails[i].row = "SPAM" => ~Untrue(i)
BY DEF Untrue, TrueAnswers, Answers

\* mails that keep their row and their place stay as odd as they were
LEMMA StaysOdd ==
  ASSUME NEW k, mails'[k].row = mails[k].row, mails'[k].landed = mails[k].landed,
         tick' = tick \/ ~AboutToSay(k)
  PROVE  (Untrue(k)' => Untrue(k)) /\ (Doubtful(k)' => Doubtful(k))
<1>1. Untrue(k)' => Untrue(k)
  BY DEF Untrue
<1>2. AboutToSay(k) => AboutToSay(k)'
  BY DEF AboutToSay
<1>3. Doubtful(k)' => Doubtful(k)
  BY <1>2 DEF Doubtful
<1> QED
  BY <1>1, <1>3

\* a row is written for a mail in the tick's hand
LEMMA ARowIsPaid ==
  ASSUME TypesAndHand, tick.pc \in {"check", "found"}, NEW i \in tick.todo, NEW a \in Answers,
         Records(i, a), UNCHANGED <<elapsed, pool, faults>>,
         tick.pc = "found" => tick.mail = i,
         \/ a = "UNCHECKED" \/ Doubtful(i)
         \/ mails[i].landed = "none" /\ a \in {"BOUNCED", "MISSING"}
         \/ mails[i].landed = "inbox" /\ a = "INBOX"
         \/ mails[i].landed = "spam" /\ a = "SPAM"
  PROVE  Odd' \subseteq Odd /\ tick'.pc = "check" /\ faults' = faults
<1>1. /\ SendsStay /\ mails'[i] = [mails[i] EXCEPT !.row = a, !.at = "none"] /\ tick'.pc = "check"
      /\ \A k \in Mails : k # i => mails'[k] = mails[k]
  BY ARowIsWritten DEF TypesAndHand
<1>2. i \in Mails /\ mails[i] \in Mail /\ TypeOK
  BY MailsAre DEF TypesAndHand, InHand
<1>3. mails'[i].row = a /\ mails'[i].landed = mails[i].landed /\ a # "PENDING"
  BY <1>1, <1>2 DEF Mail, Answers
<1>4. Mails' = Mails
  BY <1>1, <1>2, SameMails
<1>5. ASSUME NEW k \in Mails, Untrue(k)' \/ Doubtful(k)' PROVE Untrue(k) \/ Doubtful(k)
  <2>1. CASE k # i
    <3>1. ~AboutToSay(k)
      BY <2>1 DEF AboutToSay
    <3> QED
      BY <1>1, <1>5, <2>1, <3>1, StaysOdd
  <2>2. CASE k = i
    <3>1. ~Doubtful(i)'
      BY <1>3 DEF Doubtful
    <3>2. ~Doubtful(i) => ~Untrue(i)'
      BY <1>3 DEF Untrue, TrueAnswers, Answers
    <3> QED
      BY <1>5, <2>2, <3>1, <3>2
  <2> QED
    BY <2>1, <2>2
<1> QED
  BY <1>1, <1>4, <1>5 DEF Odd

LEMMA CheckIsPaid ==
  ASSUME TypesAndHand, HasLanded, CheckPart
  PROVE  Odd' \subseteq Odd /\ HasLanded' /\ faults' = faults
<1>0. TypeOK /\ InHand /\ SendsStay /\ Mails' = Mails /\ faults' = faults
  BY Checks, SameMails DEF TypesAndHand
<1>1. CASE CheckStarts
  <2>1. mails' = mails /\ tick.pc = "idle" /\ tick'.pc = "check"
    BY <1>0, <1>1, ACheckStarts
  <2>2. \A k \in Mails : ~AboutToSay(k)
    BY <2>1 DEF AboutToSay
  <2>3. \A k \in Mails : (Untrue(k)' => Untrue(k)) /\ (Doubtful(k)' => Doubtful(k))
    BY <2>1, <2>2, StaysOdd
  <2> QED
    BY <1>0, <2>1, <2>3 DEF Odd, HasLanded
<1>2. ASSUME NEW i \in Mails, Unreadable(i) \/ NotFound(i)
      PROVE  Odd' \subseteq Odd /\ HasLanded'
  <2>1. /\ UNCHANGED <<elapsed, pool, faults>> /\ Checking(i) /\ tick.pc = "check" /\ i \in tick.todo
        /\ \/ Keeps(i)
           \/ Records(i, "UNCHECKED")
           \/ Records(i, "MISSING") /\ mails[i].at \in {"none", "filed"}
           \/ Records(i, "BOUNCED") /\ mails[i].landed = "none"
    BY <1>0, <1>2, NotThere
  <2>2. \A k : ~AboutToSay(k)
    BY <2>1 DEF AboutToSay
  <2>3. mails[i].row = "PENDING" /\ (mails[i].landed # "none" => Doubtful(i))
    BY <1>0, <2>1, <2>2 DEF InHand, Doubtful
  <2>4. CASE Keeps(i)
    <3>1. mails' = mails /\ tick'.pc = "check"
      BY <1>0, <2>1, <2>4, AMailIsKept
    <3>2. \A k \in Mails : (Untrue(k)' => Untrue(k)) /\ (Doubtful(k)' => Doubtful(k))
      BY <2>2, <3>1, StaysOdd
    <3> QED
      BY <1>0, <3>1, <3>2 DEF Odd, HasLanded
  <2>5. ASSUME NEW a \in {"UNCHECKED", "MISSING", "BOUNCED"}, Records(i, a),
               a = "BOUNCED" => mails[i].landed = "none"
        PROVE  Odd' \subseteq Odd /\ HasLanded'
    <3>1. a \in Answers
      BY DEF Answers
    <3>2. Odd' \subseteq Odd /\ tick'.pc = "check"
      BY <2>1, <2>3, <2>5, <3>1, ARowIsPaid
    <3> QED
      BY <3>2 DEF HasLanded
  <2> QED
    BY <2>1, <2>4, <2>5
<1>3. ASSUME NEW i \in Mails, Found(i) PROVE Odd' \subseteq Odd /\ HasLanded'
  <2>1. /\ tick'.pc = "found" /\ tick.pc = "check" /\ mails[i].row = "PENDING" /\ tick'.mail = i
        /\ \A k \in Mails : k # i => mails'[k] = mails[k]
        /\ mails'[i].row = "PENDING"
        /\ mails'[i].landed = IF mails[i].landed = "none" THEN tick'.found ELSE mails[i].landed
        /\ InHand'
    BY <1>0, <1>3, AMailIsFound
  <2>2. tick'.found \in Seen
    BY <2>1 DEF InHand
  <2>3. HasLanded'
    BY <2>1, <2>2 DEF HasLanded, Seen
  <2>4. \A k : ~AboutToSay(k)
    BY <2>1 DEF AboutToSay
  <2>5. ASSUME NEW k \in Mails, Untrue(k)' \/ Doubtful(k)' PROVE Untrue(k) \/ Doubtful(k)
    <3>1. CASE k # i
      BY <2>1, <2>4, <2>5, <3>1, StaysOdd
    <3>2. CASE k = i
      <4>1. ~Untrue(i)'
        BY <2>1 DEF Untrue, Answers
      <4>2. mails[i].landed = "none" => AboutToSay(i)'
        BY <2>1 DEF AboutToSay
      <4>3. Doubtful(i)' => Doubtful(i)
        BY <2>1, <2>4, <4>2 DEF Doubtful
      <4> QED
        BY <2>5, <3>2, <4>1, <4>3
    <3> QED
      BY <3>1, <3>2
  <2> QED
    BY <1>0, <2>3, <2>5 DEF Odd
<1>4. CASE FoundRecorded
  <2> DEFINE a == IF tick.found = "spam" THEN "SPAM" ELSE "INBOX"
  <2>1. /\ tick.pc = "found" /\ Records(tick.mail, a) /\ UNCHANGED <<elapsed, pool, faults>>
    BY <1>4 DEF FoundRecorded
  <2>2. /\ tick.mail \in tick.todo /\ tick.found \in Seen /\ tick.mail \in Mails
        /\ mails[tick.mail].row = "PENDING" /\ mails[tick.mail].landed # "none"
    BY <1>0, <2>1 DEF InHand, HasLanded
  <2>3. \/ Doubtful(tick.mail) \/ mails[tick.mail].landed = tick.found
    BY <2>2 DEF Doubtful, AboutToSay
  <2>4. a \in Answers /\ (tick.found = "inbox" => a = "INBOX") /\ (tick.found = "spam" => a = "SPAM")
    BY <2>2 DEF Answers
  <2>5. tick.found = "inbox" \/ tick.found = "spam"
    BY <2>2 DEF Seen
  <2> HIDE DEF a
  <2>6. Odd' \subseteq Odd /\ tick'.pc = "check"
    BY <2>1, <2>2, <2>3, <2>4, <2>5, ARowIsPaid
  <2> QED
    BY <1>0, <2>6 DEF HasLanded
<1> QED
  BY <1>0, <1>1, <1>2, <1>3, <1>4 DEF CheckPart

LEMMA QuietIsPaid ==
  ASSUME TypesAndHand, HasLanded, QuietPart
  PROVE  /\ HasLanded'
         /\ \/ Odd' \subseteq Odd /\ faults' >= faults
            \/ Odd' \subseteq Odd \cup {tick.mail} /\ faults' = faults + 1
<1>0. TypeOK /\ InHand /\ mails' = mails /\ Mails' = Mails /\ faults \in Nat
  <2>1. TypeOK /\ InHand /\ mails' = mails
    BY Quiet DEF TypesAndHand
  <2>2. faults \in Nat
    BY <2>1, Assumed DEF TypeOK
  <2> QED
    BY <2>1, <2>2 DEF Mails
<1>1. \/ tick.pc \in {"check", "send", "sent"} /\ tick'.pc \in {"send", "done"} /\ faults' = faults
      \/ tick'.pc = "done" /\ faults' = faults + 1
      \/ tick' = tick /\ faults' = faults
  BY <1>0, Quiet, TheSendsStart
<1>2. HasLanded'
  BY <1>0, <1>1 DEF HasLanded
<1>3. CASE tick.pc \in {"check", "send", "sent"} /\ faults' = faults
  <2>1. \A k \in Mails : ~AboutToSay(k)
    BY <1>3 DEF AboutToSay
  <2>2. \A k \in Mails : (Untrue(k)' => Untrue(k)) /\ (Doubtful(k)' => Doubtful(k))
    BY <1>0, <2>1, StaysOdd
  <2> QED
    BY <1>0, <1>2, <1>3, <2>2 DEF Odd
<1>4. CASE tick'.pc = "done" /\ faults' = faults + 1
  <2>1. \A k \in Mails : k # tick.mail => ~AboutToSay(k)
    BY DEF AboutToSay
  <2>2. \A k \in Mails : k # tick.mail => (Untrue(k)' => Untrue(k)) /\ (Doubtful(k)' => Doubtful(k))
    BY <1>0, <2>1, StaysOdd
  <2> QED
    BY <1>0, <1>2, <1>4, <2>2 DEF Odd
<1>5. CASE tick' = tick /\ faults' = faults
  <2>1. \A k \in Mails : (Untrue(k)' => Untrue(k)) /\ (Doubtful(k)' => Doubtful(k))
    BY <1>0, <1>5, StaysOdd
  <2> QED
    BY <1>0, <1>2, <1>5, <2>1 DEF Odd
<1> QED
  BY <1>1, <1>3, <1>4, <1>5

\* a mail that leaves has landed nowhere
LEMMA NewIsPaid ==
  ASSUME TypesAndHand, HasLanded, NEW m \in Mailboxes, Sends(m) \/ SendNow(m)
  PROVE  Odd' \subseteq Odd /\ HasLanded' /\ faults' = faults
<1>0. TypeOK /\ InHand /\ Len(mails) + 1 \notin 1..Len(mails)
  BY MailsAre DEF TypesAndHand
<1>1. \E x : MailAdded(x) /\ x.landed = "none" /\ x.row \in {"none", "PENDING"}
  <2>1. CASE Sends(m)
    <3>1. PICK p : MailAdded(NewMail(m, p, FALSE))
      BY <1>0, <2>1, TheTickSends
    <3>2. NewMail(m, p, FALSE).landed = "none" /\ NewMail(m, p, FALSE).row = "none"
      BY DEF NewMail
    <3> QED
      BY <3>1, <3>2
  <2>2. CASE SendNow(m)
    BY <1>0, <2>2, TheOperatorSends
  <2> QED
    BY <2>1, <2>2
<1>2. /\ faults' = faults
      /\ tick' = tick \/ (tick.pc = "send" /\ tick'.pc = "sent")
  BY <1>0, TheTickSends, TheOperatorSends
<1>3. PICK x : MailAdded(x) /\ x.landed = "none" /\ x.row \in {"none", "PENDING"}
  BY <1>1
<1>4. PICK n : /\ mails'[n] = x /\ Mails' = Mails \cup {n} /\ n \notin Mails
               /\ \A k \in Mails : mails'[k] = mails[k]
  BY <1>3 DEF MailAdded
<1>5. \A k \in Mails : tick' = tick \/ ~AboutToSay(k)
  BY <1>2 DEF AboutToSay
<1>6. \A k \in Mails : (Untrue(k)' => Untrue(k)) /\ (Doubtful(k)' => Doubtful(k))
  BY <1>4, <1>5, StaysOdd
<1>7. ~Untrue(n)' /\ ~Doubtful(n)'
  BY <1>3, <1>4 DEF Untrue, Doubtful, Answers
<1>8. HasLanded'
  <2>1. tick.pc = "found" => tick.mail \in Mails
    BY <1>0 DEF InHand
  <2> QED
    BY <1>2, <1>4, <2>1 DEF HasLanded
<1> QED
  BY <1>2, <1>4, <1>6, <1>7, <1>8 DEF Odd

LEMMA SentIsPaid ==
  ASSUME TypesAndHand, SentRecorded \/ SentFailed
  PROVE  Odd' \subseteq Odd /\ HasLanded' /\ faults' >= faults
<1>0. TypeOK /\ InHand
  BY DEF TypesAndHand
<1>1. /\ tick.pc = "sent" /\ tick'.pc = "send" /\ Len(mails') = Len(mails)
      /\ \A k \in Mails : k # tick.mail => mails'[k] = mails[k]
      /\ \E r \in {"PENDING", "FAILED"} : mails'[tick.mail] = [mails[tick.mail] EXCEPT !.row = r]
      /\ faults' = faults \/ faults' = faults + 1
  BY <1>0, TheSendIsWritten
<1>2. PICK r \in {"PENDING", "FAILED"} : mails'[tick.mail] = [mails[tick.mail] EXCEPT !.row = r]
  BY <1>1
<1>3. PICK n \in Mails : n = tick.mail /\ mails[n] \in Mail /\ mails[n].landed = "none"
  BY <1>0, <1>1, MailsAre DEF InHand
<1>4. mails'[n].row = r /\ mails'[n].landed = "none"
  BY <1>2, <1>3 DEF Mail
<1>5. ~Untrue(n)' /\ ~Doubtful(n)'
  BY <1>4 DEF Untrue, Doubtful, Answers
<1>6. \A k \in Mails : ~AboutToSay(k)
  BY <1>1 DEF AboutToSay
<1>7. \A k \in Mails : k # n => (Untrue(k)' => Untrue(k)) /\ (Doubtful(k)' => Doubtful(k))
  BY <1>1, <1>3, <1>6, StaysOdd
<1>8. Mails' = Mails /\ faults' >= faults /\ HasLanded'
  BY <1>0, <1>1, Assumed DEF Mails, HasLanded, TypeOK
<1> QED
  BY <1>3, <1>5, <1>7, <1>8 DEF Odd

LEMMA HourIsPaid ==
  ASSUME TypesAndHand, Hour
  PROVE  Odd' \subseteq Odd /\ HasLanded' /\ faults' = faults
<1>0. TypeOK /\ InHand
  BY DEF TypesAndHand
<1>1. /\ Mails' = Mails /\ tick.pc \notin {"check", "found"} /\ faults' = faults
      /\ \A i \in Mails :
           mails'[i] = [mails[i] EXCEPT !.age = IF @ < Day THEN @ + 1 ELSE @]
      /\ IF tick.pc = "done" THEN tick' = IdleTick ELSE tick' = tick
  BY <1>0, AnHourPasses
<1>2. \A i \in Mails : mails'[i].row = mails[i].row /\ mails'[i].landed = mails[i].landed
  BY <1>0, <1>1, MailsAre DEF Mail
<1>3. tick'.pc # "found"
  BY <1>1 DEF IdleTick
<1>4. \A k \in Mails : ~AboutToSay(k)
  BY <1>1 DEF AboutToSay
<1>5. \A k \in Mails : (Untrue(k)' => Untrue(k)) /\ (Doubtful(k)' => Doubtful(k))
  BY <1>2, <1>4, StaysOdd
<1> QED
  BY <1>1, <1>3, <1>5 DEF Odd, HasLanded

(* A row says where its mail landed, wherever a tick dies, for as many rows  *)
(* as ticks did not die: a wrong one is written for a mail that a tick moved *)
(* and did not write, which the tick after it finds elsewhere or not at all. *)
THEOREM PlacementsAreTrue == Spec => []AnswersTrue
<1> DEFINE Paid == AnswersPaid /\ HasLanded
<1>1. Init => Paid
  <2> SUFFICES ASSUME Init PROVE Paid
    OBVIOUS
  <2>1. Odd = {} /\ faults = 0 /\ tick.pc = "idle"
    BY EmptySeq DEF Init, Odd, Mails, IdleTick
  <2>2. Cardinality(Odd) = 0
    BY <2>1, FS_EmptySet
  <2> QED
    BY <2>1, <2>2 DEF AnswersPaid, HasLanded
<1>2. TypesAndHand /\ Paid /\ [Next]_vars => Paid'
  <2> SUFFICES ASSUME TypesAndHand, AnswersPaid, HasLanded, [Next]_vars
               PROVE  AnswersPaid' /\ HasLanded'
    OBVIOUS
  <2>0. TypeOK /\ TypeOK' /\ faults \in Nat /\ (faults' = faults => faults' >= faults)
    <3>1. TypeOK /\ TypeOK'
      BY NextTypes DEF TypesAndHand
    <3>2. faults \in Nat
      BY <3>1, Assumed DEF TypeOK
    <3> QED
      BY <3>1, <3>2
  <2>1. CASE UNCHANGED vars
    BY <2>1 DEF vars, AnswersPaid, Odd, Untrue, Doubtful, AboutToSay, Mails, HasLanded
  <2>2. CASE CheckPart
    BY <2>0, <2>2, CheckIsPaid, OddArePaid
  <2>3. CASE QuietPart
    BY <2>0, <2>3, QuietIsPaid, OddArePaid
  <2>4. ASSUME NEW m \in Mailboxes, Sends(m) \/ SendNow(m)
        PROVE  AnswersPaid' /\ HasLanded'
    BY <2>0, <2>4, NewIsPaid, OddArePaid
  <2>5. CASE SentRecorded \/ SentFailed
    BY <2>0, <2>5, SentIsPaid, OddArePaid
  <2>6. CASE Hour
    BY <2>0, <2>6, HourIsPaid, OddArePaid
  <2> QED
    BY <2>1, <2>2, <2>3, <2>4, <2>5, <2>6, NextParts
<1>3. TypeOK /\ InHand => TypesAndHand
  BY DEF TypesAndHand
<1>4. TypesAndHand /\ Paid => AnswersTrue
  <2> SUFFICES ASSUME TypeOK, AnswersPaid PROVE AnswersTrue
    BY DEF TypesAndHand
  <2> DEFINE Wrong == {i \in Mails : /\ mails[i].row \in Answers \ {"UNCHECKED"}
                                     /\ mails[i].row \notin TrueAnswers[mails[i].landed]}
  <2>1. Wrong \subseteq Odd /\ IsFiniteSet(Odd)
    BY MailsAre, FS_Subset DEF Odd, Untrue
  <2>2. /\ Cardinality(Wrong) <= Cardinality(Odd) /\ Cardinality(Odd) <= faults
        /\ Cardinality(Wrong) \in Nat /\ Cardinality(Odd) \in Nat /\ faults \in Nat
    BY <2>1, FS_Subset, FS_CardinalityType, Assumed DEF AnswersPaid, TypeOK
  <2>3. Cardinality(Wrong) <= faults
    <3> HIDE DEF Wrong
    <3> QED
      BY <2>2
  <2> QED
    BY <2>3 DEF AnswersTrue
<1> QED
  BY <1>1, <1>2, <1>3, <1>4, WarmupTypes, PTL DEF Spec

-----------------------------------------------------------------------------
(* The day's volume.                                                        *)
\* a mailbox always has a warm-up day, and that day a target
LEMMA ATarget ==
  ASSUME TypeOK, InHand, NEW m \in Mailboxes
  PROVE  DayTarget(m) \in Nat \ {0} /\ DayTime(m) \in 0..(Day - 1)
<1>1. elapsed[m] = None \/ (elapsed[m] \in Nat /\ elapsed[m] < Len(Target) * Day)
  <2> DEFINE all == Len(Target) * Day
  <2>1. elapsed \in [Mailboxes -> (0..all) \cup {None}] /\ elapsed[m] < all /\ all \in Nat
    BY Assumed DEF TypeOK, InHand
  <2> HIDE DEF all
  <2>2. elapsed[m] = None \/ (elapsed[m] \in Nat /\ elapsed[m] < all)
    BY <2>1
  <2> QED
    BY <2>2 DEF all
<1>2. WarmupDay(m) \in 1..Len(Target)
  <2>1. CASE elapsed[m] = None
    BY <2>1, Assumed DEF WarmupDay
  <2>2. CASE elapsed[m] # None
    BY <1>1, <2>2, DayIsKnown, Assumed DEF WarmupDay
  <2> QED
    BY <2>1, <2>2
<1>3. DayTarget(m) \in Nat \ {0}
  BY <1>2, Assumed, ElementOfSeq DEF DayTarget
<1>4. DayTime(m) \in 0..(Day - 1)
  <2>1. CASE elapsed[m] = None
    BY <2>1, Assumed DEF DayTime
  <2>2. CASE elapsed[m] # None
    BY <1>1, <2>2, DivMod DEF DayTime
  <2> QED
    BY <2>1, <2>2
<1> QED
  BY <1>3, <1>4

TargetsAre == \A m \in Mailboxes : DayTarget(m) \in Nat \ {0}
LEMMA Targets == TypesAndHand => TargetsAre
  BY ATarget DEF TypesAndHand, TargetsAre

LEMMA TargetsToCome ==
  TypesAndHand' => \A m \in Mailboxes : DayTarget(m)' \in Nat \ {0}
<1>1. TypesAndHand' => TargetsAre'
  BY Targets, PTL
<1> QED
  BY <1>1 DEF TargetsAre

LEMMA ByTicksAre ==
  ASSUME TypeOK, NEW m \in Mailboxes
  PROVE  /\ ByTicks(m) \subseteq Mails /\ IsFiniteSet(ByTicks(m))
         /\ Cardinality(ByTicks(m)) \in Nat
         /\ \A i : i \in ByTicks(m) <=>
              /\ i \in Mails /\ mails[i].from = m /\ mails[i].row # "none"
              /\ mails[i].age <= DayTime(m) /\ ~mails[i].manual
<1>1. \A i : i \in ByTicks(m) <=>
              /\ i \in Mails /\ mails[i].from = m /\ mails[i].row # "none"
              /\ mails[i].age <= DayTime(m) /\ ~mails[i].manual
  BY DEF ByTicks, SentToday, SentBy
<1>2. ByTicks(m) \subseteq Mails
  BY <1>1
<1> QED
  BY <1>1, <1>2, MailsAre, FS_Subset, FS_CardinalityType

\* the day's mails against the day's target
DayKept(m) == Cardinality(ByTicks(m)) <= DayTarget(m)

LEMMA KeptIs == VolumeKept <=> \A m \in Mailboxes : DayKept(m)
  BY DEF VolumeKept, DayKept, ByTicks

\* fewer mails against the same target
LEMMA FewerCount ==
  ASSUME TypesAndHand, TypesAndHand', NEW m \in Mailboxes,
         ByTicks(m)' \subseteq ByTicks(m), DayTarget(m)' = DayTarget(m)
  PROVE  (DayKept(m) => DayKept(m)') /\ (HasRoom(m) => HasRoom(m)')
<1>1. /\ IsFiniteSet(ByTicks(m)) /\ Cardinality(ByTicks(m)) \in Nat
      /\ Cardinality(ByTicks(m)') \in Nat /\ DayTarget(m) \in Nat
  BY ByTicksAre, ATarget, FS_Subset, FS_CardinalityType DEF TypesAndHand
<1>2. Cardinality(ByTicks(m)') <= Cardinality(ByTicks(m))
  BY <1>1, FS_Subset
<1> QED
  BY <1>1, <1>2 DEF DayKept, HasRoom

\* a new day has room
LEMMA NewDay ==
  ASSUME TypesAndHand', NEW m \in Mailboxes, ByTicks(m)' = {}
  PROVE  DayKept(m)' /\ HasRoom(m)'
<1>1. Cardinality(ByTicks(m)') = 0
  BY FS_EmptySet
<1>2. DayTarget(m)' \in Nat \ {0}
  BY TargetsToCome
<1> QED
  BY <1>1, <1>2 DEF DayKept, HasRoom

LEMMA ByTicksNext ==
  ASSUME NEW m
  PROVE  \A i : i \in ByTicks(m)' <=>
           /\ i \in Mails' /\ mails'[i].from = m /\ mails'[i].row # "none"
           /\ mails'[i].age <= DayTime(m)' /\ ~mails'[i].manual
BY DEF ByTicks, SentToday, SentBy

\* a step that leaves the sends leaves the counts
LEMMA SameCount ==
  ASSUME TypesAndHand, TypesAndHand', SendsStay, NEW m \in Mailboxes
  PROVE  /\ DayKept(m) => DayKept(m)'
         /\ HasRoom(m) => HasRoom(m)'
         /\ Rested(m) => Rested(m)'
<1>1. DayTarget(m)' = DayTarget(m) /\ DayTime(m)' = DayTime(m)
  BY DEF SendsStay, DayTarget, WarmupDay, DayTime
<1>2. Mails' = Mails /\ \A k \in Mails : Alike(k)
  BY SameMails DEF TypesAndHand, SendsStay
<1>3. ASSUME NEW i \in ByTicks(m)' PROVE i \in ByTicks(m)
  BY <1>1, <1>2, <1>3, ByTicksNext, ByTicksAre DEF TypesAndHand, Alike
<1>4. Rested(m) => Rested(m)'
  BY <1>2 DEF Rested, SentBy, Alike
<1> QED
  BY <1>1, <1>3, <1>4, FewerCount

LEMMA CheckVolume ==
  ASSUME TypesAndHand, TypesAndHand', Volume, CheckPart
  PROVE  Volume'
<1>1. SendsStay /\ tick.pc \in {"idle", "check", "found"} /\ tick'.pc \in {"check", "found"}
  BY Checks DEF TypesAndHand
<1>2. \A m \in Mailboxes : DayKept(m)' /\ Rested(m)'
  BY <1>1, SameCount, KeptIs DEF Volume
<1>3. VolumeKept'
  BY <1>2 DEF VolumeKept, DayKept, ByTicks
<1> QED
  BY <1>1, <1>2, <1>3 DEF Volume

\* what a mailbox that is due was read with
LEMMA DueHasRoom ==
  ASSUME TypesAndHand, NEW m \in Mailboxes, IsSendDue(m)
  PROVE  HasRoom(m)
<1>1. Cardinality(SentToday(m)) < DayTarget(m) /\ DayTarget(m) \in Nat
  BY Targets DEF IsSendDue, TargetsAre
<1>2. IsFiniteSet(SentToday(m)) /\ ByTicks(m) \subseteq SentToday(m)
  <2>1. SentToday(m) \subseteq Mails
    BY DEF SentToday, SentBy
  <2> QED
    BY <2>1, MailsAre, FS_Subset DEF TypesAndHand, ByTicks
<1>3. /\ Cardinality(ByTicks(m)) <= Cardinality(SentToday(m))
      /\ Cardinality(ByTicks(m)) \in Nat /\ Cardinality(SentToday(m)) \in Nat
  BY <1>2, FS_Subset, FS_CardinalityType
<1> QED
  BY <1>1, <1>3 DEF HasRoom

LEMMA QuietVolume ==
  ASSUME TypesAndHand, TypesAndHand', Volume, QuietPart
  PROVE  Volume'
<1>1. SendsStay /\ mails' = mails
  BY Quiet DEF TypesAndHand
<1>2. \A m \in Mailboxes : DayKept(m)'
  BY <1>1, SameCount, KeptIs DEF Volume
<1>3. VolumeKept'
  BY <1>2 DEF VolumeKept, DayKept, ByTicks
<1>4. CASE SendStarts
  <2>1. /\ tick.pc = "check" /\ tick'.pc = "send"
        /\ tick'.due = {m \in Mailboxes : IsSendDue(m)}
    BY <1>4, TheSendsStart DEF TypesAndHand
  <2>2. \A m \in tick'.due : Rested(m)' /\ HasRoom(m)'
    BY <1>1, <2>1, SameCount, DueHasRoom DEF Volume
  <2> QED
    BY <1>3, <2>1, <2>2 DEF Volume
<1>5. CASE tick.pc = "send" /\ tick'.pc = "send" /\ tick'.due \subseteq tick.due
  <2>1. tick.due \subseteq Mailboxes
    BY DEF TypesAndHand, TypeOK
  <2>2. \A m \in tick'.due : Rested(m)' /\ HasRoom(m)'
    BY <1>1, <1>5, <2>1, SameCount DEF Volume
  <2> QED
    BY <1>3, <1>5, <2>2 DEF Volume
<1>6. CASE tick'.pc = "done"
  BY <1>3, <1>6 DEF Volume
<1>7. CASE tick' = tick
  <2>1. tick.due \subseteq Mailboxes
    BY DEF TypesAndHand, TypeOK
  <2>2. tick'.pc \in {"idle", "check", "found"} => \A m \in Mailboxes : Rested(m)'
    BY <1>1, <1>7, SameCount DEF Volume
  <2>3. tick'.pc \in {"send", "sent"} => \A m \in tick'.due : Rested(m)' /\ HasRoom(m)'
    BY <1>1, <1>7, <2>1, SameCount DEF Volume
  <2>4. ASSUME tick'.pc = "sent"
        PROVE  mails'[tick'.mail].from \notin tick'.due /\ HasRoom(mails[tick.mail].from)'
    <3>1. tick.pc = "sent" /\ tick'.due = tick.due /\ mails'[tick'.mail] = mails[tick.mail]
      BY <1>1, <1>7, <2>4
    <3>2. PICK m \in Mailboxes : m = mails[tick.mail].from
      BY <3>1, MailsAre DEF TypesAndHand, InHand, Mail
    <3>3. m \notin tick.due /\ HasRoom(m)
      BY <3>1, <3>2 DEF Volume
    <3>4. HasRoom(m)'
      BY <1>1, <3>3, SameCount
    <3> QED
      BY <1>1, <3>1, <3>2, <3>3, <3>4 DEF HasRoom
  <2> QED
    BY <1>1, <1>3, <1>7, <2>2, <2>3, <2>4 DEF Volume
<1> QED
  BY <1>4, <1>5, <1>6, <1>7, Quiet DEF TypesAndHand

\* a mail that the counts do not see: its row is not written, or it is by hand
LEMMA UnseenMail ==
  ASSUME TypesAndHand, TypesAndHand', NEW x, MailAdded(x), x.row = "none" \/ x.manual,
         NEW m \in Mailboxes, elapsed'[m] = elapsed[m] \/ (elapsed[m] = None /\ elapsed'[m] = 0)
  PROVE  /\ DayKept(m) => DayKept(m)'
         /\ HasRoom(m) => HasRoom(m)'
<1>1. DayTime(m)' = DayTime(m) /\ DayTarget(m)' = DayTarget(m)
  <2>1. CASE elapsed'[m] = elapsed[m]
    BY <2>1 DEF DayTime, WarmupDay, DayTarget
  <2>2. CASE elapsed[m] = None /\ elapsed'[m] = 0
    <3>1. 0 \div Day = 0 /\ (0 % Day) = 0
      BY OneDivMod, Assumed
    <3>2. 0 # None
      BY DEF None
    <3> QED
      BY <2>2, <3>1, <3>2 DEF DayTime, WarmupDay, DayTarget
  <2> QED
    BY <2>1, <2>2
<1>2. PICK n : /\ mails'[n] = x /\ Mails' = Mails \cup {n}
               /\ \A k \in Mails : mails'[k] = mails[k]
  BY DEF MailAdded
<1>3. ASSUME NEW i \in ByTicks(m)' PROVE i \in ByTicks(m)
  BY <1>1, <1>2, <1>3, ByTicksNext, ByTicksAre DEF TypesAndHand
<1> QED
  BY <1>1, <1>3, FewerCount

LEMMA RestedStays ==
  ASSUME NEW x, MailAdded(x), x.row = "none" \/ x.manual, NEW m, Rested(m)
  PROVE  Rested(m)'
<1>1. PICK n : /\ mails'[n] = x /\ Mails' = Mails \cup {n}
               /\ \A k \in Mails : mails'[k] = mails[k]
  BY DEF MailAdded
<1> QED
  BY <1>1 DEF Rested, SentBy

\* the stamp of a first send may be a second one, after the operator's: the day
\* starts over, with no mail in it
LEMMA SendVolume ==
  ASSUME TypesAndHand, TypesAndHand', Volume, NEW m \in Mailboxes, Sends(m)
  PROVE  Volume'
<1>0. TypeOK /\ InHand
  BY DEF TypesAndHand
<1>1. /\ tick.pc = "send" /\ m \in tick.due /\ tick'.pc = "sent"
      /\ tick'.mail = Len(mails) + 1 /\ tick'.due = tick.due \ {m}
      /\ Stamps(m, m \in tick.fresh) /\ tick.due \subseteq Mailboxes
  BY <1>0, TheTickSends DEF TypeOK
<1>2. PICK p : MailAdded(NewMail(m, p, FALSE))
  BY <1>0, TheTickSends
<1> DEFINE x == NewMail(m, p, FALSE)
<1>3. x.row = "none" /\ x.from = m /\ MailAdded(x)
  BY <1>2 DEF NewMail
<1> HIDE DEF x
<1>4. mails'[tick'.mail] = x
  BY <1>1, <1>3 DEF MailAdded
<1>5. /\ \A k \in Mailboxes : k # m => elapsed'[k] = elapsed[k]
      /\ elapsed'[m] = 0 \/ elapsed'[m] = elapsed[m]
  <2> DEFINE fresh == m \in tick.fresh
  <2>1. fresh \in BOOLEAN /\ Stamps(m, fresh)
    BY <1>1
  <2> HIDE DEF fresh
  <2> QED
    BY <1>0, <2>1, Stamped
<1>6. \A k \in Mailboxes : k # m => (DayKept(k) => DayKept(k)') /\ (HasRoom(k) => HasRoom(k)')
  BY <1>3, <1>5, UnseenMail
<1>7. DayKept(m)' /\ HasRoom(m)'
  <2>1. Rested(m) /\ HasRoom(m) /\ DayKept(m)
    BY <1>1, KeptIs DEF Volume
  <2>2. CASE elapsed'[m] = elapsed[m]
    BY <1>3, <2>1, <2>2, UnseenMail
  <2>3. CASE elapsed'[m] = 0
    <3>1. (0 % Day) = 0 /\ 0 # None
      BY OneDivMod, Assumed DEF None
    <3>2. DayTime(m)' = 0
      BY <2>3, <3>1 DEF DayTime
    <3>3. Rested(m)'
      BY <1>3, <2>1, RestedStays
    <3>4. ASSUME NEW i \in ByTicks(m)' PROVE FALSE
      <4>1. /\ i \in Mails' /\ mails'[i].from = m /\ mails'[i].row # "none"
            /\ mails'[i].age <= 0 /\ ~mails'[i].manual
        BY <3>2, <3>4, ByTicksNext
      <4>2. mails'[i].age >= 1
        BY <3>3, <4>1 DEF Rested, SentBy
      <4>3. mails'[i].age \in Nat
        <5>1. mails' \in Seq(Mail)
          BY DEF TypesAndHand, TypeOK
        <5>2. mails'[i] \in Mail
          BY <4>1, <5>1, ElementOfSeq DEF Mails
        <5> QED
          BY <5>2, Assumed DEF Mail
      <4> QED
        BY <4>1, <4>2, <4>3
    <3> QED
      BY <3>4, NewDay
  <2> QED
    BY <1>5, <2>2, <2>3
<1>8. VolumeKept'
  <2>1. \A k \in Mailboxes : DayKept(k)'
    BY <1>6, <1>7, KeptIs DEF Volume
  <2> QED
    BY <2>1 DEF VolumeKept, DayKept, ByTicks
<1>9. \A k \in tick'.due : Rested(k)' /\ HasRoom(k)'
  BY <1>1, <1>3, <1>6, RestedStays DEF Volume
<1>10. m \notin tick'.due
  BY <1>1
<1> QED
  BY <1>1, <1>3, <1>4, <1>7, <1>8, <1>9, <1>10 DEF Volume, HasRoom

LEMMA ByHandVolume ==
  ASSUME TypesAndHand, TypesAndHand', Volume, NEW m \in Mailboxes, SendNow(m)
  PROVE  Volume'
<1>0. TypeOK /\ InHand /\ tick.due \subseteq Mailboxes
  BY DEF TypesAndHand, TypeOK
<1>1. PICK x : MailAdded(x) /\ x.manual
  BY <1>0, TheOperatorSends
<1>2. tick' = tick /\ \A k \in Mailboxes :
        elapsed'[k] = elapsed[k] \/ (elapsed[k] = None /\ elapsed'[k] = 0)
  BY <1>0, TheOperatorSends
<1>3. \A k \in Mailboxes : /\ DayKept(k) => DayKept(k)'
                           /\ HasRoom(k) => HasRoom(k)'
                           /\ Rested(k) => Rested(k)'
  BY <1>1, <1>2, UnseenMail, RestedStays
<1>4. VolumeKept'
  <2>1. \A k \in Mailboxes : DayKept(k)'
    BY <1>3, KeptIs DEF Volume
  <2> QED
    BY <2>1 DEF VolumeKept, DayKept, ByTicks
<1>5. ASSUME tick'.pc = "sent"
      PROVE  mails'[tick'.mail].from \notin tick'.due /\ HasRoom(mails[tick.mail].from)'
  <2>1. tick.pc = "sent" /\ tick.mail \in Mails
    BY <1>0, <1>2, <1>5 DEF InHand
  <2>2. mails'[tick'.mail] = mails[tick.mail]
    BY <1>1, <1>2, <2>1 DEF MailAdded
  <2>3. PICK k \in Mailboxes : k = mails[tick.mail].from
    BY <1>0, <2>1, MailsAre DEF Mail
  <2>4. k \notin tick.due /\ HasRoom(k)'
    BY <1>3, <2>1, <2>3 DEF Volume
  <2> QED
    BY <1>2, <2>2, <2>3, <2>4 DEF HasRoom
<1>6. tick'.pc \in {"idle", "check", "found"} => \A k \in Mailboxes : Rested(k)'
  BY <1>2, <1>3 DEF Volume
<1>7. tick'.pc \in {"send", "sent"} => \A k \in tick'.due : Rested(k)' /\ HasRoom(k)'
  BY <1>0, <1>2, <1>3 DEF Volume
<1> QED
  BY <1>4, <1>5, <1>6, <1>7 DEF Volume

\* the row counts one mail more for its sender, which had room
LEMMA SentVolume ==
  ASSUME TypesAndHand, TypesAndHand', Volume, SentRecorded \/ SentFailed
  PROVE  Volume'
<1>0. TypeOK /\ InHand /\ tick.due \subseteq Mailboxes
  BY DEF TypesAndHand, TypeOK
<1>1. /\ tick.pc = "sent" /\ tick'.pc = "send" /\ tick'.due = tick.due /\ elapsed' = elapsed
      /\ Len(mails') = Len(mails)
      /\ \A k \in Mails : k # tick.mail => mails'[k] = mails[k]
      /\ \E r \in {"PENDING", "FAILED"} : mails'[tick.mail] = [mails[tick.mail] EXCEPT !.row = r]
  BY <1>0, TheSendIsWritten
<1>2. PICK r \in {"PENDING", "FAILED"} : mails'[tick.mail] = [mails[tick.mail] EXCEPT !.row = r]
  BY <1>1
<1>3. PICK n \in Mails : n = tick.mail /\ mails[n] \in Mail
  BY <1>0, <1>1, MailsAre DEF InHand
<1>4. PICK m \in Mailboxes : m = mails[n].from
  BY <1>3 DEF Mail
<1>5. m \notin tick.due /\ HasRoom(m)
  BY <1>1, <1>3, <1>4 DEF Volume
<1>6. /\ Mails' = Mails /\ \A k \in Mails : k # n => mails'[k] = mails[k]
      /\ mails'[n].from = m
  BY <1>1, <1>2, <1>3, <1>4 DEF Mails, Mail
<1>7. \A k : DayTime(k)' = DayTime(k) /\ DayTarget(k)' = DayTarget(k)
  BY <1>1 DEF DayTime, DayTarget, WarmupDay
<1>8. ASSUME NEW k \in Mailboxes, k # m
      PROVE  /\ DayKept(k) => DayKept(k)'
             /\ HasRoom(k) => HasRoom(k)'
             /\ Rested(k) => Rested(k)'
  <2>1. ASSUME NEW i \in ByTicks(k)' PROVE i \in ByTicks(k)
    BY <1>0, <1>6, <1>7, <1>8, <2>1, ByTicksNext, ByTicksAre
  <2>2. Rested(k) => Rested(k)'
    BY <1>6, <1>8 DEF Rested, SentBy
  <2> QED
    BY <1>7, <2>1, <2>2, FewerCount
<1>9. DayKept(m)'
  <2>1. ASSUME NEW i \in ByTicks(m)', i # n PROVE i \in ByTicks(m)
    BY <1>0, <1>6, <1>7, <2>1, ByTicksNext, ByTicksAre
  <2>2. ByTicks(m)' \subseteq ByTicks(m) \cup {n}
    BY <2>1
  <2>3. /\ IsFiniteSet(ByTicks(m)) /\ Cardinality(ByTicks(m)) \in Nat
        /\ DayTarget(m) \in Nat /\ Cardinality(ByTicks(m)) < DayTarget(m)
    BY <1>0, <1>5, ByTicksAre, ATarget DEF HasRoom
  <2>4. /\ IsFiniteSet(ByTicks(m) \cup {n})
        /\ Cardinality(ByTicks(m) \cup {n}) =
             IF n \in ByTicks(m) THEN Cardinality(ByTicks(m)) ELSE Cardinality(ByTicks(m)) + 1
    BY <2>3, FS_AddElement
  <2>5. /\ Cardinality(ByTicks(m)') <= Cardinality(ByTicks(m) \cup {n})
        /\ Cardinality(ByTicks(m)') \in Nat
    BY <2>2, <2>4, FS_Subset, FS_CardinalityType
  <2>6. Cardinality(ByTicks(m)') <= DayTarget(m)
    BY <2>3, <2>4, <2>5
  <2> QED
    BY <1>7, <2>6 DEF DayKept
<1>10. VolumeKept'
  <2>1. \A k \in Mailboxes : DayKept(k)'
    BY <1>8, <1>9, KeptIs DEF Volume
  <2> QED
    BY <2>1 DEF VolumeKept, DayKept, ByTicks
<1>11. \A k \in tick'.due : Rested(k)' /\ HasRoom(k)'
  BY <1>0, <1>1, <1>5, <1>8 DEF Volume
<1> QED
  BY <1>1, <1>10, <1>11 DEF Volume

\* a unit later a mail counts today only if it counted before
LEMMA HourCounts ==
  ASSUME TypesAndHand, TypesAndHand', Hour, NEW m \in Mailboxes
  PROVE  /\ DayKept(m) => DayKept(m)'
         /\ HasRoom(m) => HasRoom(m)'
         /\ Rested(m)'
<1>0. TypeOK /\ InHand
  BY DEF TypesAndHand
<1>1. /\ Mails' = Mails
      /\ \A i \in Mails :
           mails'[i] = [mails[i] EXCEPT !.age = IF @ < Day THEN @ + 1 ELSE @]
  BY <1>0, AnHourPasses
<1>2. ASSUME NEW i \in Mails
      PROVE  /\ mails[i].age \in 0..Day
             /\ mails'[i].age = IF mails[i].age < Day THEN mails[i].age + 1 ELSE mails[i].age
             /\ mails'[i].from = mails[i].from /\ mails'[i].row = mails[i].row
             /\ mails'[i].manual = mails[i].manual
  BY <1>0, <1>1, MailsAre DEF Mail
<1>3. \A i \in Mails : mails'[i].age >= 1
  BY <1>2, Assumed
<1>4. Rested(m)'
  BY <1>1, <1>3 DEF Rested, SentBy
<1>5. ASSUME DayTime(m)' = 0 PROVE DayKept(m)' /\ HasRoom(m)'
  <2>1. ASSUME NEW i \in ByTicks(m)' PROVE FALSE
    <3>1. i \in Mails /\ mails'[i].age <= 0
      BY <1>1, <1>5, <2>1, ByTicksNext
    <3> QED
      BY <1>2, <1>3, <3>1, Assumed
  <2> QED
    BY <2>1, NewDay
<1>6. ASSUME DayTime(m)' = DayTime(m) + 1, DayTarget(m)' = DayTarget(m),
             DayTime(m)' \in 0..(Day - 1)
      PROVE  (DayKept(m) => DayKept(m)') /\ (HasRoom(m) => HasRoom(m)')
  <2>0. DayTime(m) \in 0..(Day - 1)
    BY <1>0, ATarget
  <2>1. ASSUME NEW i \in ByTicks(m)' PROVE i \in ByTicks(m)
    <3>1. /\ i \in Mails /\ mails'[i].from = m /\ mails'[i].row # "none"
          /\ mails'[i].age <= DayTime(m) + 1 /\ ~mails'[i].manual
      BY <1>1, <1>6, <2>1, ByTicksNext
    <3>2. DayTime(m) + 1 < Day
      BY <1>6, <2>0, Assumed
    <3>3. mails[i].age <= DayTime(m)
      BY <1>2, <2>0, <3>1, <3>2, Assumed
    <3> QED
      BY <1>0, <1>2, <3>1, <3>3, ByTicksAre
  <2> QED
    BY <1>6, <2>1, FewerCount
<1>7. \/ elapsed[m] = None /\ elapsed'[m] = None
      \/ /\ elapsed[m] \in Nat
         /\ (elapsed'[m] = elapsed[m] + 1 \/ elapsed'[m] = (Len(Target) - 1) * Day)
  BY <1>0, AnHourPasses
<1>8. CASE elapsed'[m] = None
  BY <1>4, <1>5, <1>8 DEF DayTime
<1>9. CASE elapsed[m] \in Nat /\ elapsed'[m] = elapsed[m] + 1
  <2> DEFINE e == elapsed[m]
  <2>1. e \in Nat /\ e # None /\ e + 1 # None
    BY <1>9 DEF None
  <2>2. \/ ((e + 1) % Day) = 0
        \/ ((e + 1) % Day) = (e % Day) + 1 /\ (e + 1) \div Day = e \div Day
    BY <2>1, NextUnit
  <2>3. ((e + 1) % Day) \in 0..(Day - 1)
    BY <2>1, DivMod
  <2>4. DayTime(m)' = ((e + 1) % Day) /\ DayTime(m) = (e % Day)
    BY <1>9, <2>1, Zenon DEF DayTime
  <2>5. /\ DayTarget(m)' = Target[(e + 1) \div Day + 1]
        /\ DayTarget(m) = Target[e \div Day + 1]
    BY <1>9, <2>1, Zenon DEF DayTarget, WarmupDay
  <2> HIDE DEF e
  <2>6. CASE ((e + 1) % Day) = 0
    BY <1>4, <1>5, <2>4, <2>6
  <2>7. CASE ((e + 1) % Day) = (e % Day) + 1 /\ (e + 1) \div Day = e \div Day
    <3>1. DayTime(m)' = DayTime(m) + 1 /\ DayTime(m)' \in 0..(Day - 1)
      BY <2>3, <2>4, <2>7
    <3>2. DayTarget(m)' = DayTarget(m)
      BY <2>5, <2>7
    <3> QED
      BY <1>4, <1>6, <3>1, <3>2
  <2> QED
    BY <2>2, <2>6, <2>7
<1>10. CASE elapsed'[m] = (Len(Target) - 1) * Day
  <2> DEFINE d == Len(Target) - 1
             e == d * Day
  <2>1. d \in Nat
    BY Assumed
  <2> HIDE DEF d
  <2>2. e \in Nat /\ e = d * Day + 0
    BY <2>1, Assumed
  <2>3. elapsed'[m] = e
    BY <1>10 DEF d
  <2> HIDE DEF e
  <2>4. (e % Day) = 0
    BY <2>1, <2>2, OneDivMod, Assumed DEF e
  <2>5. DayTime(m)' = 0
    BY <2>2, <2>3, <2>4 DEF DayTime, None
  <2> QED
    BY <1>4, <1>5, <2>5
<1> QED
  BY <1>7, <1>8, <1>9, <1>10

LEMMA HourVolume ==
  ASSUME TypesAndHand, TypesAndHand', Volume, Hour
  PROVE  Volume'
<1>0. TypeOK /\ InHand /\ tick.due \subseteq Mailboxes
  BY DEF TypesAndHand, TypeOK
<1>1. /\ Mails' = Mails
      /\ \A i \in Mails :
           mails'[i] = [mails[i] EXCEPT !.age = IF @ < Day THEN @ + 1 ELSE @]
      /\ IF tick.pc = "done" THEN tick' = IdleTick ELSE tick' = tick
  BY <1>0, AnHourPasses
<1>2. \A k \in Mailboxes : /\ DayKept(k) => DayKept(k)'
                           /\ HasRoom(k) => HasRoom(k)'
                           /\ Rested(k)'
  BY HourCounts
<1>3. VolumeKept'
  <2>1. \A k \in Mailboxes : DayKept(k)'
    BY <1>2, KeptIs DEF Volume
  <2> QED
    BY <2>1 DEF VolumeKept, DayKept, ByTicks
<1>4. CASE tick' = IdleTick
  <2>1. tick'.pc = "idle"
    BY <1>4 DEF IdleTick
  <2> QED
    BY <1>2, <1>3, <2>1 DEF Volume
<1>5. CASE tick' = tick
  <2>1. ASSUME tick'.pc = "sent"
        PROVE  mails'[tick'.mail].from \notin tick'.due /\ HasRoom(mails[tick.mail].from)'
    <3>1. PICK n \in Mails : n = tick.mail /\ tick.pc = "sent" /\ mails[n] \in Mail
      BY <1>0, <1>5, <2>1, MailsAre DEF InHand
    <3>2. mails'[n].from = mails[n].from
      BY <1>1, <3>1 DEF Mail
    <3>3. PICK k \in Mailboxes : k = mails[n].from
      BY <3>1 DEF Mail
    <3>4. k \notin tick.due /\ HasRoom(k)'
      BY <1>2, <3>1, <3>3 DEF Volume
    <3>5. mails'[tick'.mail].from = k
      BY <1>5, <3>1, <3>2, <3>3
    <3> QED
      BY <1>5, <3>4, <3>5 DEF HasRoom
  <2>2. tick'.pc \in {"send", "sent"} => \A k \in tick'.due : Rested(k)' /\ HasRoom(k)'
    BY <1>0, <1>2, <1>5 DEF Volume
  <2> QED
    BY <1>2, <1>3, <2>1, <2>2 DEF Volume
<1> QED
  BY <1>1, <1>4, <1>5

(* A mailbox's warm-up day counts what its ticks sent, from a stamp that the *)
(* first send of two, a tick's and the operator's, both write; still no day  *)
(* gets more of the ticks' mails than its target, for any targets.           *)
THEOREM TargetsAreKept == Spec => []VolumeKept
<1>1. Init => Volume
  <2> SUFFICES ASSUME Init PROVE Volume
    OBVIOUS
  <2>1. Mails = {} /\ tick.pc = "idle"
    BY EmptySeq DEF Init, Mails, IdleTick
  <2>2. ASSUME NEW m \in Mailboxes PROVE DayKept(m)
    <3>1. ByTicks(m) = {}
      BY <2>1 DEF ByTicks, SentToday, SentBy
    <3>2. DayTarget(m) = Target[1] /\ 1 \in 1..Len(Target)
      BY Assumed DEF Init, DayTarget, WarmupDay
    <3>3. DayTarget(m) \in Nat
      BY <3>2, Assumed, ElementOfSeq
    <3> QED
      BY <3>1, <3>3, FS_EmptySet DEF DayKept
  <2>3. \A m \in Mailboxes : Rested(m)
    BY <2>1 DEF Rested, SentBy
  <2> QED
    BY <2>1, <2>2, <2>3, KeptIs DEF Volume
<1>2. TypesAndHand /\ TypesAndHand' /\ Volume /\ [Next]_vars => Volume'
  <2> SUFFICES ASSUME TypesAndHand, TypesAndHand', Volume, [Next]_vars PROVE Volume'
    OBVIOUS
  <2>1. CASE UNCHANGED vars
    BY <2>1 DEF vars, Volume, VolumeKept, Rested, HasRoom, ByTicks, SentToday, SentBy, DayTime,
                DayTarget, WarmupDay, Mails
  <2>2. CASE CheckPart
    BY <2>2, CheckVolume
  <2>3. CASE QuietPart
    BY <2>3, QuietVolume
  <2>4. ASSUME NEW m \in Mailboxes, Sends(m) \/ SendNow(m) PROVE Volume'
    BY <2>4, SendVolume, ByHandVolume
  <2>5. CASE SentRecorded \/ SentFailed
    BY <2>5, SentVolume
  <2>6. CASE Hour
    BY <2>6, HourVolume
  <2> QED
    BY <2>1, <2>2, <2>3, <2>4, <2>5, <2>6, NextParts
<1>3. TypeOK /\ InHand => TypesAndHand
  BY DEF TypesAndHand
<1>4. Volume => VolumeKept
  BY DEF Volume
<1> QED
  BY <1>1, <1>2, <1>3, <1>4, WarmupTypes, PTL DEF Spec
=============================================================================
