---------------------------- MODULE CadenceProofs ----------------------------
(* Proofs about Cadence, for any jitter, noise, limits and numbers of ticks  *)
(* and executions, and however late anything runs.                          *)
EXTENDS Cadence, FiniteSetTheorems, TLAPS

-----------------------------------------------------------------------------
(* Every step keeps the types.                                              *)
LEMMA LargerOfTwo ==
  ASSUME NEW a \in Int, NEW b \in Int
  PROVE  larger(a, b) \in Int /\ larger(a, b) >= a /\ larger(a, b) >= b
  BY DEF larger

LEMMA Pacing ==
  ASSUME NEW p \in {1, 2}
  PROVE  Floor * p \in Nat /\ (Floor > 0 => Floor * p > 0)
<1>1. CASE p = 1
  BY <1>1, CadenceAssumption
<1>2. CASE p = 2
  BY <1>2, CadenceAssumption
<1> QED
  BY <1>1, <1>2

(* A delay leads at least as far as base, jitter and noise: past the anchor *)
(* by the floor and by what the noise leaves of the jitter.                 *)
Reaches(t, anchor, pace, slot) ==
  \E j \in Jitter, n \in Noise :
    /\ slot >= t + j + n
    /\ anchor # None => slot >= anchor + Floor * pace + j + n

LEMMA DelayBounds ==
  ASSUME NEW t \in Nat, NEW lastSent \in Nat \cup {None}, NEW pending \in Nat \cup {None},
         NEW spread, NEW pace \in {1, 2},
         NEW d \in SlotDelays(t, lastSent, pending, spread, pace)
  PROVE  d \in Nat /\ Reaches(t, larger(lastSent, pending), pace, t + d)
<1> DEFINE anchor == larger(lastSent, pending)
           base == IF anchor = None THEN t ELSE larger(t, anchor + Floor * pace)
           gaps == IF anchor = None \/ spread <= 0 THEN {0}
                   ELSE (8 * spread) \div 10 .. (12 * spread) \div 10
<1>1. PICK j \in Jitter, n \in Noise, g \in gaps :
        d = larger(MinDelay, larger(base + j * pace + n, anchor + g) - t)
  BY DEF SlotDelays
<1>2. j \in Nat /\ n \in Int /\ g \in Int /\ anchor \in Int
  BY CadenceAssumption DEF larger, None
<1>3. j * pace \in Nat /\ j * pace >= j
  <2>1. CASE pace = 1
    BY <1>2, <2>1
  <2>2. CASE pace = 2
    BY <1>2, <2>2
  <2> QED
    BY <2>1, <2>2
<1>4. /\ base \in Int /\ base >= t
      /\ anchor # None => base >= anchor + Floor * pace
  BY <1>2, LargerOfTwo, Pacing DEF larger
<1>5. d \in Int /\ d >= MinDelay /\ d >= base + j * pace + n - t
  <2> DEFINE near == base + j * pace + n
             far == larger(near, anchor + g)
  <2>1. far \in Int /\ far >= near
    <3> HIDE DEF base, anchor
    <3>1. near \in Int /\ anchor + g \in Int
      BY <1>2, <1>3, <1>4
    <3> HIDE DEF near
    <3> QED
      BY <3>1, LargerOfTwo
  <2> HIDE DEF far, base, anchor
  <2> QED
    BY <1>1, <1>2, <1>3, <1>4, <2>1, CadenceAssumption DEF larger, far, base, anchor
<1>6. d \in Nat
  BY <1>5, CadenceAssumption
<1> HIDE DEF base, anchor
<1>7. t + d >= t + j + n
  BY <1>2, <1>3, <1>4, <1>5
<1>8. anchor # None => t + d >= anchor + Floor * pace + j + n
  BY <1>2, <1>3, <1>4, <1>5, Pacing
<1> QED
  BY <1>2, <1>6, <1>7, <1>8 DEF anchor, Reaches

LEMMA BookedDelay ==
  ASSUME TypeOK, NEW t \in Tick, NEW d \in TickDelays(ticks[t])
  PROVE  /\ d \in Nat
         /\ Reaches(ticks[t].at, larger(ticks[t].last, ticks[t].pending),
                    ticks[t].pace, ticks[t].at + d)
<1>1. /\ ticks[t].at \in Nat /\ ticks[t].pace \in {1, 2}
      /\ ticks[t].last \in Nat \cup {None} /\ ticks[t].pending \in Nat \cup {None}
  BY CadenceAssumption DEF TypeOK, TickState, Time
<1> QED
  BY <1>1, DelayBounds DEF TickDelays

(* A booking is added at the end: what was booked keeps its id.             *)
LEMMA BookingAdded ==
  ASSUME TypeOK, NEW b \in Booking, booked' = Append(booked, b)
  PROVE  /\ booked' \in Seq(Booking)
         /\ Len(booked) + 1 \in Id' /\ Id' = Id \cup {Len(booked) + 1}
         /\ Len(booked) \in Nat /\ Len(booked) + 1 \notin Id
         /\ \A x \in Id : booked'[x] = booked[x]
         /\ booked'[Len(booked) + 1] = b
<1>1. booked \in Seq(Booking)
  BY DEF TypeOK
<1> HIDE DEF Booking
<1>2. /\ Len(booked) \in Nat /\ Len(booked') = Len(booked) + 1
      /\ booked' \in Seq(Booking)
      /\ \A x \in 1..Len(booked) : booked'[x] = booked[x]
      /\ booked'[Len(booked) + 1] = b
  BY <1>1
<1> QED
  BY <1>2 DEF Id

LEMMA BookingTypes ==
  ASSUME TypeOK
  PROVE  /\ Len(booked) \in Nat
         /\ \A x \in Id : /\ booked[x] \in Booking
                          /\ x \in Nat /\ x > 0
                          /\ booked[x].slot \in Nat /\ booked[x].pace \in {1, 2}
                          /\ booked[x].by \in {"alone", "beside", "reconcile"}
<1>1. booked \in Seq(Booking)
  BY DEF TypeOK
<1>2. /\ Len(booked) \in Nat
      /\ \A x \in Id : booked[x] \in Booking /\ x \in Nat /\ x > 0
  <2> HIDE DEF Booking
  <2> QED
    BY <1>1 DEF Id
<1> QED
  BY <1>2 DEF Booking

LEMMA MailTypes ==
  ASSUME TypeOK
  PROVE  /\ Len(mails) \in Nat /\ DOMAIN mails = 1..Len(mails)
         /\ IsFiniteSet(DOMAIN mails)
         /\ \A m \in DOMAIN mails :
              /\ mails[m] \in Mail /\ mails[m].id \in Id
              /\ mails[m].at \in Nat /\ mails[m].at \in Int
              /\ mails[m].stamp \in Nat \cup {None}
              /\ mails[m].row \in BOOLEAN
<1>1. mails \in Seq(Mail)
  BY DEF TypeOK
<1>2. /\ Len(mails) \in Nat /\ DOMAIN mails = 1..Len(mails)
      /\ \A m \in DOMAIN mails : mails[m] \in Mail
  <2> HIDE DEF Mail
  <2> QED
    BY <1>1
<1>3. IsFiniteSet(1..Len(mails))
  BY <1>2, FS_Interval
<1> QED
  BY <1>2, <1>3, CadenceAssumption DEF Mail, Time, TypeOK

LEMMA RowsCounted ==
  ASSUME TypeOK, NEW t
  PROVE  IsFiniteSet(RowsAfter(t)) /\ Cardinality(RowsAfter(t)) \in Nat
  BY MailTypes, FS_Subset, FS_CardinalityType DEF RowsAfter

LEMMA Types ==
  ASSUME TypeOK
  PROVE  /\ now \in Nat /\ last \in Nat \cup {None} /\ resv.expires \in Nat
         /\ resv.id \in Id \cup {0}
         /\ Reserved \in Nat \cup {None}
         /\ Out \subseteq Id
         /\ \A j \in jobs : j.id \in Id /\ j.due \in Nat
         /\ \A t \in Tick : /\ ticks[t].at \in Nat /\ ticks[t].delay \in Nat
                            /\ ticks[t].last \in Nat \cup {None}
                            /\ ticks[t].pending \in Nat \cup {None}
                            /\ ticks[t].pace \in {1, 2} /\ ticks[t].missed \subseteq Id
                            /\ ticks[t].by \in {"alone", "beside"}
<1>1. /\ now \in Nat /\ last \in Nat \cup {None} /\ resv.expires \in Nat
      /\ resv.id \in Id \cup {0}
      /\ \A j \in jobs : j.id \in Id /\ j.due \in Nat
  BY CadenceAssumption DEF TypeOK, Time
<1>2. Reserved \in Nat \cup {None}
  BY <1>1, BookingTypes DEF Reserved, Live
<1>3. Out \subseteq Id
  BY DEF TypeOK, Out, Adding, Waiting, InHand
<1>4. \A t \in Tick : ticks[t] \in TickState
  BY DEF TypeOK
<1> QED
  BY <1>1, <1>2, <1>3, <1>4, CadenceAssumption DEF TickState, Time

LEMMA TypeInit == Init => TypeOK
<1> SUFFICES ASSUME Init PROVE TypeOK
  OBVIOUS
<1>1. Len(booked) = 0 /\ booked \in Seq(Booking)
  BY DEF Init
<1>2. DOMAIN mails = {} /\ mails \in Seq(Mail)
  BY DEF Init
<1>3. 0 \in Time /\ 0 \in Nat
  BY CadenceAssumption DEF Time
<1>4. IdleTick \in TickState /\ IdleExec \in ExecState
  BY <1>3 DEF IdleTick, TickState, IdleExec, ExecState
<1>5. ticks \in [Tick -> TickState] /\ execs \in [Exec -> ExecState]
  BY <1>4 DEF Init
<1>6. /\ \A t \in Tick : ticks[t].pc = "idle"
      /\ \A e \in Exec : execs[e].pc = "idle" /\ ~execs[e].heard
  BY DEF Init, IdleTick, IdleExec
<1>7. Id = {}
  BY <1>1 DEF Id
<1>8. now \in Time /\ resv \in [id : Id \cup {0}, expires : Nat] /\ faults \in 0..MaxFaults
  BY <1>3, CadenceAssumption DEF Init, NoReservation
<1> QED
  BY <1>1, <1>2, <1>3, <1>5, <1>6, <1>8 DEF Init, TypeOK

LEMMA TypeReads == ASSUME TypeOK, NEW t \in Tick, StartsTick(t) PROVE TypeOK'
<1>1. PICK cap \in {Cap, larger(1, Cap \div 2)} :
        ticks' = [ticks EXCEPT ![t] =
            [pc |-> "book", at |-> now, last |-> last, pending |-> Reserved,
             spread |-> SpreadGap(cap), pace |-> IF Slowed THEN 2 ELSE 1,
             by |-> IF Alone THEN "alone" ELSE "beside",
             missed |-> {}, id |-> 0, delay |-> 0]]
  BY DEF StartsTick
<1>2. /\ UNCHANGED <<now, booked, resv, jobs, stuck, execs, last, mails, deferred,
                      loose, lost, strays>>
      /\ faults' = faults \/ (faults < MaxFaults /\ faults' = faults + 1)
  BY DEF StartsTick
<1>3. SpreadGap(cap) \in Int
  <2> DEFINE R == RowsAfter(now - Day) \cap RowsAfter(Closes - Day)
  <2>1. Cardinality(R) \in Nat
    <3>1. IsFiniteSet(R)
      BY RowsCounted, FS_Subset
    <3> QED
      BY <3>1, FS_CardinalityType
  <2>2. cap \in Nat
    BY CadenceAssumption DEF larger
  <2> HIDE DEF R
  <2>3. larger(1, cap - Cardinality(R)) \in Nat \ {0}
    BY <2>1, <2>2 DEF larger
  <2>4. Closes - now \in Int
    BY Types, CadenceAssumption
  <2> QED
    BY <2>3, <2>4 DEF SpreadGap, R
<1>4. ticks' \in [Tick -> TickState]
  <2>1. now \in Time /\ last \in Time \cup {None} /\ ticks \in [Tick -> TickState]
    BY DEF TypeOK
  <2>2. ticks'[t] \in TickState
    BY <1>1, <1>3, <2>1, Types DEF TickState
  <2> QED
    BY <1>1, <2>1, <2>2
<1>5. \A u \in Tick : ticks'[u].pc = "add" => ticks'[u].id \in Id
  BY <1>1 DEF TypeOK
<1>6. TickState' = TickState /\ ExecState' = ExecState /\ Id' = Id
  BY <1>2 DEF TickState, ExecState, Id, Time
<1>7. faults' \in 0..MaxFaults
  BY <1>2, CadenceAssumption DEF TypeOK
<1> QED
  BY <1>2, <1>4, <1>5, <1>6, <1>7 DEF TypeOK, Time

LEMMA TypeBooks ==
  ASSUME TypeOK, NEW t \in Tick, TickBooks(t)
  PROVE  TypeOK'
<1> DEFINE new == Len(booked) + 1
<1>1. PICK d \in TickDelays(ticks[t]) :
        /\ booked' = Append(booked, [slot |-> ticks[t].at + d, pace |-> ticks[t].pace,
                                     by |-> ticks[t].by])
        /\ resv' = [id |-> new, expires |-> now + d + Padding]
        /\ ticks' = [u \in Tick |->
             CASE u = t -> [IdleTick EXCEPT !.pc = "add", !.id = new, !.delay = d]
               [] u # t /\ ticks[u].pc = "book" ->
                    [ticks[u] EXCEPT !.missed = @ \cup {new}]
               [] OTHER -> ticks[u]]
  BY DEF TickBooks, Books
<1>2. /\ UNCHANGED <<now, jobs, stuck, execs, last, mails, deferred, lost, strays, faults>>
      /\ loose' = loose \cup ticks[t].missed
  BY DEF TickBooks, Books
<1>3. d \in Nat
  BY BookedDelay
<1> DEFINE b == [slot |-> ticks[t].at + d, pace |-> ticks[t].pace, by |-> ticks[t].by]
<1>4. b \in Booking
  BY <1>3, Types DEF Booking
<1>5. /\ booked' \in Seq(Booking) /\ new \in Id' /\ Id' = Id \cup {new}
  <2> HIDE DEF b
  <2>1. booked' = Append(booked, b)
    BY <1>1 DEF b
  <2> QED
    BY <1>4, <2>1, BookingAdded
<1> HIDE DEF new, b
<1>6. ticks' \in [Tick -> TickState']
  <2>1. ticks \in [Tick -> TickState] /\ now \in Time /\ 0 \in Time
    BY CadenceAssumption DEF TypeOK, Time
  <2>0. TickState' = [pc : {"idle", "book", "add"}, at : Time, last : Time \cup {None},
              pending : Nat \cup {None}, spread : Int, pace : {1, 2},
              by : {"alone", "beside"}, missed : SUBSET (Id \cup {new}),
              id : (Id \cup {new}) \cup {0}, delay : Nat]
    BY <1>5 DEF TickState, Time
  <2>2. TickState \subseteq TickState'
    BY <1>2, <1>5 DEF TickState, Time
  <2>3. ASSUME NEW u \in Tick PROVE ticks'[u] \in TickState'
    <3>1. CASE u = t
      <4>1. ticks'[u] = [IdleTick EXCEPT !.pc = "add", !.id = new, !.delay = d]
        BY <1>1, <3>1
      <4>2. ticks'[u] = [pc |-> "add", at |-> 0, last |-> None, pending |-> None,
                         spread |-> 0, pace |-> 1, by |-> "alone", missed |-> {},
                         id |-> new, delay |-> d]
        BY <4>1 DEF IdleTick
      <4> QED
        BY <1>3, <2>0, <2>1, <4>2
    <3>2. CASE u # t /\ ticks[u].pc = "book"
      <4>1. ticks'[u] = [ticks[u] EXCEPT !.missed = @ \cup {new}]
        BY <1>1, <3>2
      <4>2. ticks[u] \in TickState
        BY <2>1
      <4> QED
        BY <2>0, <4>1, <4>2 DEF TickState
    <3>3. CASE u # t /\ ticks[u].pc # "book"
      <4>1. ticks'[u] = ticks[u]
        BY <1>1, <3>3
      <4> QED
        BY <2>1, <2>2, <4>1
    <3> QED
      BY <3>1, <3>2, <3>3
  <2> QED
    BY <1>1, <2>3
<1>7. \A u \in Tick : ticks'[u].pc = "add" => ticks'[u].id \in Id'
  <2> TAKE u \in Tick
  <2>1. CASE u = t
    BY <1>1, <1>5, <2>1 DEF IdleTick
  <2>2. CASE u # t /\ ticks[u].pc = "book"
    <3>1. ticks'[u].pc = ticks[u].pc
      BY <1>1, <2>2 DEF TypeOK, TickState
    <3> QED
      BY <2>2, <3>1
  <2>3. CASE u # t /\ ticks[u].pc # "book"
    <3>1. ticks'[u] = ticks[u]
      BY <1>1, <2>3
    <3> QED
      BY <1>5, <3>1 DEF TypeOK
  <2> QED
    BY <2>1, <2>2, <2>3
<1>8. ExecState \subseteq ExecState'
  BY <1>2, <1>5 DEF ExecState
<1>9. resv' \in [id : Id' \cup {0}, expires : Nat] /\ loose' \subseteq Id'
  <2>1. now + d + Padding \in Nat
    BY <1>3, Types, CadenceAssumption
  <2>2. loose \subseteq Id /\ ticks[t].missed \subseteq Id
    BY Types DEF TypeOK
  <2> QED
    BY <1>1, <1>2, <1>5, <2>1, <2>2
<1>10. jobs' \subseteq [id : Id', due : Nat] /\ stuck' \subseteq Id'
  BY <1>2, <1>5 DEF TypeOK
<1>11. execs' \in [Exec -> ExecState']
  BY <1>2, <1>8 DEF TypeOK
<1>12. /\ \A e \in Exec : execs'[e].pc # "idle" => execs'[e].id \in Id'
       /\ \A e \in Exec : /\ execs'[e].pc = "record" => execs'[e].mail \in DOMAIN mails'
                          /\ execs'[e].heard => execs'[e].pc # "idle"
       /\ \A m \in DOMAIN mails' : mails'[m].id \in Id'
  BY <1>2, <1>5 DEF TypeOK
<1>13. /\ now \in Time /\ last \in Time \cup {None} /\ mails \in Seq(Mail)
       /\ deferred \in Time \cup {None}
       /\ lost \in Nat /\ strays \in Nat /\ faults \in 0..MaxFaults
  BY DEF TypeOK
<1> QED
  BY <1>2, <1>5, <1>6, <1>7, <1>9, <1>10, <1>11, <1>12, <1>13 DEF TypeOK

LEMMA TypeTick ==
  ASSUME TypeOK, NEW t \in Tick, TickAdds(t) \/ TickEnds(t) \/ TickDies(t)
  PROVE  TypeOK'
<1>1. /\ UNCHANGED <<now, booked, resv, execs, last, mails, deferred, loose, lost, strays>>
      /\ ticks' = [ticks EXCEPT ![t] = IdleTick]
  BY DEF TickAdds, TickEnds, TickDies
<1>2. TickState' = TickState /\ ExecState' = ExecState /\ Id' = Id
  BY <1>1 DEF TickState, ExecState, Id, Time
<1>3. IdleTick \in TickState
  BY CadenceAssumption DEF IdleTick, TickState, Time
<1>4. ticks' \in [Tick -> TickState]
  BY <1>1, <1>3 DEF TypeOK
<1>5. \A u \in Tick : ticks'[u].pc = "add" => ticks'[u].id \in Id
  BY <1>1 DEF TypeOK, IdleTick
<1>6. jobs' \subseteq [id : Id, due : Nat] /\ stuck' \subseteq Id /\ faults' \in 0..MaxFaults
  <2>1. CASE TickAdds(t)
    BY <2>1, Types DEF TickAdds, TypeOK
  <2>2. CASE TickEnds(t)
    BY <2>2 DEF TickEnds, TypeOK
  <2>3. CASE TickDies(t)
    BY <2>3, CadenceAssumption DEF TickDies, TypeOK
  <2> QED
    BY <2>1, <2>2, <2>3
<1> QED
  BY <1>1, <1>2, <1>4, <1>5, <1>6 DEF TypeOK, Time

LEMMA TypeReconcile == ASSUME TypeOK, NEW id \in stuck, Reconcile(id) PROVE TypeOK'
<1> DEFINE new == Len(booked) + 1
           b == [slot |-> now + Requeue, pace |-> 1, by |-> "reconcile"]
<1>1. /\ booked' = Append(booked, b)
      /\ jobs' = jobs \cup {[id |-> new, due |-> now + Requeue]}
      /\ stuck' = stuck \ {id} /\ loose' = loose \cup {new}
      /\ UNCHANGED <<now, resv, ticks, execs, last, mails, deferred, lost, strays, faults>>
  BY DEF Reconcile
<1>2. b \in Booking /\ now + Requeue \in Nat
  BY Types, CadenceAssumption DEF Booking
<1>3. /\ booked' \in Seq(Booking) /\ new \in Id' /\ Id' = Id \cup {new}
  <2> HIDE DEF b
  <2> QED
    BY <1>1, <1>2, BookingAdded
<1> HIDE DEF new, b
<1>4. ExecState \subseteq ExecState' /\ TickState \subseteq TickState'
  BY <1>1, <1>3 DEF ExecState, TickState, Time
<1>5. execs' \in [Exec -> ExecState'] /\ ticks' \in [Tick -> TickState']
  BY <1>1, <1>4 DEF TypeOK
<1>6. jobs' \subseteq [id : Id', due : Nat] /\ stuck' \subseteq Id' /\ loose' \subseteq Id'
  BY <1>1, <1>2, <1>3 DEF TypeOK
<1>7. /\ \A e \in Exec : execs'[e].pc # "idle" => execs'[e].id \in Id'
      /\ \A m \in DOMAIN mails' : mails'[m].id \in Id'
      /\ \A t \in Tick : ticks'[t].pc = "add" => ticks'[t].id \in Id'
      /\ resv' \in [id : Id' \cup {0}, expires : Nat]
  BY <1>1, <1>3 DEF TypeOK
<1> QED
  BY <1>1, <1>3, <1>5, <1>6, <1>7 DEF TypeOK, Time

(* A job is taken, or an execution moves on: bookings and ticks stay.       *)
LEMMA TypeJob ==
  ASSUME TypeOK, NEW j \in jobs,
         ReleaseJob(j) \/ StopJob(j) \/ \E e \in Exec : TakeJob(j, e)
  PROVE  TypeOK'
<1>1. /\ UNCHANGED <<now, booked, stuck, ticks, last, mails, deferred, lost, strays, faults>>
      /\ jobs' = jobs \ {j}
  BY DEF ReleaseJob, StopJob, TakeJob, HandsOver, Takes
<1>2. TickState' = TickState /\ ExecState' = ExecState /\ Id' = Id
  BY <1>1 DEF TickState, ExecState, Id, Time
<1>3. resv' \in [id : Id \cup {0}, expires : Nat]
  BY DEF ReleaseJob, StopJob, TakeJob, HandsOver, NoReservation, TypeOK
<1>4. /\ execs' \in [Exec -> ExecState]
      /\ \A e \in Exec : /\ execs'[e].pc # "idle" => execs'[e].id \in Id
                         /\ execs'[e].pc = "record" => execs'[e].mail \in DOMAIN mails
                         /\ execs'[e].heard => execs'[e].pc # "idle"
  <2>1. CASE ReleaseJob(j) \/ StopJob(j)
    BY <2>1 DEF ReleaseJob, StopJob, TypeOK
  <2>2. ASSUME NEW e \in Exec, TakeJob(j, e) PROVE <1>4!:
    <3>1. execs' = [execs EXCEPT ![e] =
            [pc |-> "send", id |-> j.id, mail |-> 0, heard |-> TRUE]]
      BY <2>2 DEF TakeJob, HandsOver
    <3>2. j.id \in Id
      BY Types
    <3> QED
      BY <3>1, <3>2 DEF TypeOK, ExecState
  <2> QED
    BY <2>1, <2>2
<1>5. loose' \subseteq Id
  <2>1. CASE StopJob(j)
    <3>1. loose' = loose \cup Out' /\ UNCHANGED <<ticks, execs>>
      BY <2>1 DEF StopJob
    <3>2. Out' \subseteq Out
      BY <1>1, <3>1 DEF Out, Adding, Waiting, InHand
    <3> QED
      BY <3>1, <3>2, Types DEF TypeOK
  <2>2. CASE ReleaseJob(j) \/ \E e \in Exec : TakeJob(j, e)
    BY <2>2 DEF ReleaseJob, TakeJob, HandsOver, TypeOK
  <2> QED
    BY <2>1, <2>2
<1> QED
  BY <1>1, <1>2, <1>3, <1>4, <1>5 DEF TypeOK, Time

(* A mail is added at the end, and nothing else of it changes later.        *)
LEMMA MailAppended ==
  ASSUME TypeOK, NEW e \in Exec, SmtpAccepts(e)
  PROVE  /\ mails' \in Seq(Mail) /\ Len(mails) \in Nat
         /\ Len(mails) + 1 \notin DOMAIN mails
         /\ DOMAIN mails' = DOMAIN mails \cup {Len(mails) + 1}
         /\ DOMAIN mails' = 1..(Len(mails) + 1)
         /\ \A m \in DOMAIN mails : mails'[m] = mails[m]
         /\ mails'[Len(mails) + 1] =
              [id |-> execs[e].id, at |-> now, stamp |-> None, row |-> FALSE]
<1> DEFINE mail == [id |-> execs[e].id, at |-> now, stamp |-> None, row |-> FALSE]
<1>1. mails \in Seq(Mail) /\ mails' = Append(mails, mail)
  BY DEF TypeOK, SmtpAccepts
<1>2. mail \in Mail
  <2>1. execs[e].id \in Nat
    BY BookingTypes DEF TypeOK, SmtpAccepts
  <2> QED
    BY <2>1 DEF Mail, TypeOK
<1> HIDE DEF mail, Mail
<1>3. /\ Len(mails) \in Nat /\ Len(mails') = Len(mails) + 1
      /\ DOMAIN mails = 1..Len(mails) /\ DOMAIN mails' = 1..Len(mails')
      /\ mails' \in Seq(Mail)
      /\ \A m \in 1..Len(mails) : mails'[m] = mails[m]
      /\ mails'[Len(mails) + 1] = mail
  BY <1>1, <1>2
<1>4. 1..(Len(mails) + 1) = 1..Len(mails) \cup {Len(mails) + 1}
  BY <1>3
<1> QED
  BY <1>3, <1>4 DEF mail

LEMMA MailMarked ==
  ASSUME TypeOK, NEW e \in Exec, Records(e)
  PROVE  /\ execs[e].mail \in DOMAIN mails
         /\ mails' \in Seq(Mail) /\ DOMAIN mails' = DOMAIN mails
         /\ \A m \in DOMAIN mails :
              /\ m # execs[e].mail => mails'[m] = mails[m]
              /\ mails'[m].id = mails[m].id /\ mails'[m].at = mails[m].at
         /\ mails'[execs[e].mail].stamp = now
         /\ \/ mails'[execs[e].mail].row /\ lost' = lost /\ faults' = faults
            \/ /\ ~mails'[execs[e].mail].row /\ lost' = lost + 1
               /\ faults < MaxFaults /\ faults' = faults + 1
<1> DEFINE i == execs[e].mail
<1>1. PICK row \in BOOLEAN :
        /\ row \/ faults < MaxFaults
        /\ mails' = [mails EXCEPT ![i].stamp = now, ![i].row = row]
        /\ lost' = IF row THEN lost ELSE lost + 1
        /\ faults' = IF row THEN faults ELSE faults + 1
  BY DEF Records
<1>2. i \in DOMAIN mails
  BY DEF Records, TypeOK
<1>3. /\ mails \in Seq(Mail) /\ now \in Time
      /\ \A m \in DOMAIN mails : mails[m] \in Mail
  BY MailTypes DEF TypeOK
<1> HIDE DEF i
<1>4. /\ DOMAIN mails' = DOMAIN mails
      /\ mails'[i] = [mails[i] EXCEPT !.stamp = now, !.row = row]
      /\ \A m \in DOMAIN mails : m # i => mails'[m] = mails[m]
  BY <1>1, <1>2
<1>5. /\ mails'[i] = [id |-> mails[i].id, at |-> mails[i].at, stamp |-> now, row |-> row]
      /\ mails'[i] \in Mail
  <2>1. mails[i] \in Mail
    BY <1>2, <1>3
  <2>2. mails[i] = [id |-> mails[i].id, at |-> mails[i].at,
                    stamp |-> mails[i].stamp, row |-> mails[i].row]
    BY <2>1 DEF Mail
  <2>3. mails'[i] = [id |-> mails[i].id, at |-> mails[i].at, stamp |-> now, row |-> row]
    BY <1>4, <2>1 DEF Mail
  <2> QED
    BY <1>3, <2>1, <2>3 DEF Mail
<1>6. mails' \in Seq(Mail)
  <2>1. \A m \in DOMAIN mails : mails'[m] \in Mail
    BY <1>3, <1>4, <1>5
  <2>2. Len(mails) \in Nat /\ DOMAIN mails = 1..Len(mails)
    BY MailTypes
  <2>3. mails' \in [1..Len(mails) -> Mail]
    <3>1. mails' = [m \in DOMAIN mails |-> mails'[m]]
      BY <1>1
    <3> QED
      BY <2>1, <2>2, <3>1
  <2> QED
    BY <2>2, <2>3
<1> QED
  BY <1>1, <1>2, <1>4, <1>5, <1>6 DEF i

LEMMA Unheard ==
  ASSUME NEW r \in ExecState, NEW q, q = [r EXCEPT !.heard = FALSE]
  PROVE  q = [pc |-> r.pc, id |-> r.id, mail |-> r.mail, heard |-> FALSE]
  BY DEF ExecState

LEMMA TypeMail ==
  ASSUME TypeOK, NEW e \in Exec,
         SmtpAccepts(e) \/ SmtpDefers(e) \/ Records(e) \/ BreaksOff(e) \/ FetchFails(e)
  PROVE  TypeOK'
<1>1. UNCHANGED <<now, booked, resv, jobs, ticks, loose>>
  BY DEF SmtpAccepts, SmtpDefers, Records, BreaksOff, FetchFails
<1>2. TickState' = TickState /\ Id' = Id
  BY <1>1 DEF TickState, Id, Time
<1>3. /\ mails' \in Seq(Mail) /\ DOMAIN mails \subseteq DOMAIN mails'
      /\ \A m \in DOMAIN mails' : mails'[m].id \in Id
  <2>1. CASE SmtpAccepts(e)
    <3>1. execs[e].id \in Id
      BY <2>1 DEF SmtpAccepts, TypeOK
    <3>2. \A m \in DOMAIN mails : mails[m].id \in Id
      BY DEF TypeOK
    <3> DEFINE n == Len(mails) + 1
    <3>3. /\ mails' \in Seq(Mail) /\ DOMAIN mails' = DOMAIN mails \cup {n}
          /\ \A m \in DOMAIN mails : mails'[m] = mails[m]
          /\ mails'[n] = [id |-> execs[e].id, at |-> now, stamp |-> None, row |-> FALSE]
      BY <2>1, MailAppended
    <3> HIDE DEF n
    <3>4. ASSUME NEW m \in DOMAIN mails' PROVE mails'[m].id \in Id
      BY <3>1, <3>2, <3>3
    <3> QED
      BY <3>3, <3>4
  <2>2. CASE Records(e)
    <3>1. \A m \in DOMAIN mails : mails[m].id \in Id
      BY DEF TypeOK
    <3> QED
      BY <2>2, <3>1, MailMarked
  <2>3. CASE SmtpDefers(e) \/ BreaksOff(e) \/ FetchFails(e)
    BY <2>3 DEF SmtpDefers, BreaksOff, FetchFails, TypeOK
  <2> QED
    BY <2>1, <2>2, <2>3
<1>4. ExecState \subseteq ExecState'
  BY <1>2, <1>3 DEF ExecState
<1>5. /\ execs' \in [Exec -> ExecState']
      /\ \A f \in Exec : /\ execs'[f].pc # "idle" => execs'[f].id \in Id
                         /\ execs'[f].pc = "record" => execs'[f].mail \in DOMAIN mails'
                         /\ execs'[f].heard => execs'[f].pc # "idle"
  <2> DEFINE Fits(x) == /\ x \in ExecState'
                        /\ x.pc # "idle" => x.id \in Id
                        /\ x.pc = "record" => x.mail \in DOMAIN mails'
                        /\ x.heard => x.pc # "idle"
  <2>1. \A f \in Exec : Fits(execs[f])
    BY <1>3, <1>4 DEF TypeOK
  <2>2. Fits(IdleExec)
    BY <1>2 DEF IdleExec, ExecState
  <2>3. PICK x : execs' = [execs EXCEPT ![e] = x] /\ Fits(x)
    <3>1. CASE SmtpAccepts(e)
      <4> DEFINE x == [pc |-> "record", id |-> execs[e].id, mail |-> Len(mails) + 1,
                       heard |-> execs[e].heard]
      <4>1. execs' = [execs EXCEPT ![e] = x]
        BY <3>1 DEF SmtpAccepts
      <4>2. execs[e] \in ExecState /\ execs[e].pc = "send"
        BY <3>1 DEF SmtpAccepts, TypeOK
      <4>3. Len(mails) + 1 \in DOMAIN mails'
        BY <3>1, MailAppended
      <4>5. execs[e].id \in Id /\ execs[e].heard \in BOOLEAN
        BY <4>2 DEF ExecState, TypeOK
      <4>6. Fits(x)
        BY <1>2, <4>3, <4>5 DEF ExecState
      <4> QED
        BY <4>1, <4>6
    <3>2. CASE FetchFails(e)
      <4> DEFINE x == [execs[e] EXCEPT !.heard = FALSE]
      <4>1. execs' = [execs EXCEPT ![e] = x]
        BY <3>2 DEF FetchFails
      <4>2. execs[e] \in ExecState /\ Fits(execs[e])
        BY <2>1 DEF TypeOK
      <4>3. x = [pc |-> execs[e].pc, id |-> execs[e].id, mail |-> execs[e].mail,
                 heard |-> FALSE]
        <5> DEFINE r == execs[e]
        <5>1. r \in ExecState /\ x = [r EXCEPT !.heard = FALSE]
          BY <4>2
        <5> HIDE DEF x, r
        <5>2. x = [pc |-> r.pc, id |-> r.id, mail |-> r.mail, heard |-> FALSE]
          BY <5>1, Unheard
        <5> QED
          BY <5>2 DEF r
      <4>4. Fits(x)
        <5> HIDE DEF x
        <5> QED
          BY <1>2, <4>2, <4>3 DEF ExecState
      <4> QED
        BY <4>1, <4>4
    <3>3. CASE SmtpDefers(e) \/ Records(e) \/ BreaksOff(e)
      <4>1. execs' = [execs EXCEPT ![e] = IdleExec]
        BY <3>3 DEF SmtpDefers, Records, BreaksOff
      <4> QED
        BY <2>2, <4>1
    <3> QED
      BY <3>1, <3>2, <3>3
  <2> HIDE DEF Fits
  <2>4. \A f \in Exec : execs'[f] = IF f = e THEN x ELSE execs[f]
    BY <2>3 DEF TypeOK
  <2>5. \A f \in Exec : Fits(execs'[f])
    BY <2>1, <2>3, <2>4
  <2>6. DOMAIN execs' = Exec /\ execs' = [f \in Exec |-> execs'[f]]
    BY <2>3 DEF TypeOK
  <2> QED
    BY <2>5, <2>6 DEF Fits
<1>6. /\ last' \in Time \cup {None} /\ deferred' \in Time \cup {None} /\ stuck' \subseteq Id
      /\ lost' \in Nat /\ strays' \in Nat /\ faults' \in 0..MaxFaults
  <2>1. /\ last \in Time \cup {None} /\ deferred \in Time \cup {None} /\ stuck \subseteq Id
        /\ lost \in Nat /\ strays \in Nat /\ faults \in 0..MaxFaults /\ now \in Time
        /\ execs[e].pc # "idle" => execs[e].id \in Id
    BY DEF TypeOK
  <2>2. CASE SmtpAccepts(e) \/ SmtpDefers(e)
    BY <2>1, <2>2 DEF SmtpAccepts, SmtpDefers
  <2>3. CASE Records(e)
    <3>1. /\ last' = now /\ UNCHANGED <<deferred, stuck, strays>>
          /\ \/ lost' = lost /\ faults' = faults
             \/ lost' = lost + 1 /\ faults < MaxFaults /\ faults' = faults + 1
      BY <2>3, MailMarked DEF Records
    <3> QED
      BY <2>1, <3>1, CadenceAssumption
  <2>4. CASE BreaksOff(e)
    BY <2>1, <2>4, CadenceAssumption DEF BreaksOff
  <2>5. CASE FetchFails(e)
    BY <2>1, <2>5, CadenceAssumption DEF FetchFails
  <2> QED
    BY <2>2, <2>3, <2>4, <2>5
<1>7. now \in Time /\ ticks \in [Tick -> TickState] /\ jobs \subseteq [id : Id, due : Nat]
      /\ resv \in [id : Id \cup {0}, expires : Nat] /\ loose \subseteq Id
      /\ booked \in Seq(Booking)
      /\ \A t \in Tick : ticks[t].pc = "add" => ticks[t].id \in Id
  BY DEF TypeOK
<1> QED
  BY <1>1, <1>2, <1>3, <1>5, <1>6, <1>7 DEF TypeOK

LEMMA ExecsFinite ==
  ASSUME NEW S, S \subseteq Exec
  PROVE  IsFiniteSet(S) /\ Cardinality(S) \in Nat
  BY CadenceAssumption, FS_Subset, FS_CardinalityType

LEMMA TypeCrash == ASSUME TypeOK, Crash PROVE TypeOK'
<1> DEFINE awaited == {e \in Exec : execs[e].heard}
<1>1. /\ UNCHANGED <<now, booked, resv, last, mails, deferred, loose, lost>>
      /\ faults < MaxFaults /\ faults' = faults + 1
      /\ ticks' = [t \in Tick |-> IdleTick]
      /\ jobs' = jobs \cup {[id |-> execs[e].id, due |-> now] : e \in awaited}
      /\ execs' = [e \in Exec |-> [execs[e] EXCEPT !.heard = FALSE]]
      /\ strays' = strays + Cardinality(awaited)
      /\ \E marked \in SUBSET Adding : stuck' = stuck \cup marked
  BY DEF Crash
<1>2. TickState' = TickState /\ ExecState' = ExecState /\ Id' = Id
  BY <1>1 DEF TickState, ExecState, Id, Time
<1>3. IdleTick \in TickState
  BY CadenceAssumption DEF IdleTick, TickState, Time
<1>4. Cardinality(awaited) \in Nat
  BY ExecsFinite
<1>5. ASSUME NEW e \in Exec
      PROVE  /\ execs'[e] \in ExecState
             /\ execs'[e].pc = execs[e].pc /\ execs'[e].id = execs[e].id
             /\ execs'[e].mail = execs[e].mail /\ ~execs'[e].heard
  <2> DEFINE r == execs[e]
             q == execs'[e]
  <2>1. r \in ExecState /\ q = [r EXCEPT !.heard = FALSE]
    BY <1>1 DEF TypeOK
  <2> HIDE DEF r, q
  <2>2. q = [pc |-> r.pc, id |-> r.id, mail |-> r.mail, heard |-> FALSE]
    BY <2>1, Unheard
  <2>3. q \in ExecState /\ q.pc = r.pc /\ q.id = r.id /\ q.mail = r.mail /\ ~q.heard
    BY <2>1, <2>2 DEF ExecState
  <2> QED
    BY <2>3 DEF r, q
<1>6. execs' \in [Exec -> ExecState]
  <2>1. execs' = [e \in Exec |-> execs'[e]]
    BY <1>1
  <2> QED
    BY <1>5, <2>1
<1>7. jobs' \subseteq [id : Id, due : Nat] /\ stuck' \subseteq Id
  <2>1. \A e \in awaited : execs[e].id \in Id
    BY DEF TypeOK
  <2>2. Adding \subseteq Id /\ now \in Nat
    BY Types DEF Out
  <2> QED
    BY <1>1, <2>1, <2>2 DEF TypeOK
<1>8. ticks' \in [Tick -> TickState] /\ \A t \in Tick : ticks'[t].pc = "idle"
  BY <1>1, <1>3 DEF IdleTick
<1>9. faults' \in 0..MaxFaults /\ strays' \in Nat
  <2>1. faults \in 0..MaxFaults /\ strays \in Nat /\ MaxFaults \in Nat
    BY CadenceAssumption DEF TypeOK
  <2> HIDE DEF awaited
  <2> QED
    BY <1>1, <1>4, <2>1
<1>10. \A e \in Exec : /\ execs'[e].pc # "idle" => execs'[e].id \in Id
                       /\ execs'[e].pc = "record" => execs'[e].mail \in DOMAIN mails
                       /\ execs'[e].heard => execs'[e].pc # "idle"
  BY <1>5 DEF TypeOK
<1> QED
  BY <1>1, <1>2, <1>6, <1>7, <1>8, <1>9, <1>10 DEF TypeOK, Time

LEMMA TypeStep == TypeOK /\ [Next]_vars => TypeOK'
<1> SUFFICES ASSUME TypeOK, [Next]_vars PROVE TypeOK'
  OBVIOUS
<1>1. CASE Minute
  <2>1. /\ UNCHANGED <<booked, resv, jobs, stuck, ticks, execs, last, mails, deferred,
                        loose, lost, strays, faults>>
        /\ now' \in Time
    BY <1>1, CadenceAssumption DEF Minute, TypeOK, Time
  <2>2. TickState' = TickState /\ ExecState' = ExecState /\ Id' = Id
    BY <2>1 DEF TickState, ExecState, Id, Time
  <2> QED
    BY <2>1, <2>2 DEF TypeOK
<1>2. CASE UNCHANGED vars
  <2>1. TickState' = TickState /\ ExecState' = ExecState /\ Id' = Id
    BY <1>2 DEF vars, TickState, ExecState, Id, Time
  <2> QED
    BY <1>2, <2>1 DEF vars, TypeOK
<1>3. ASSUME NEW t \in Tick, TickReads(t) PROVE TypeOK'
  BY <1>3, TypeReads DEF TickReads
<1>4. ASSUME NEW t \in Tick, TickBooks(t) PROVE TypeOK'
  BY <1>4, TypeBooks
<1>5. ASSUME NEW t \in Tick, TickAdds(t) \/ TickEnds(t) \/ TickDies(t) PROVE TypeOK'
  BY <1>5, TypeTick
<1>6. ASSUME NEW id \in stuck, Reconcile(id) PROVE TypeOK'
  BY <1>6, TypeReconcile
<1>7. ASSUME NEW j \in jobs,
             ReleaseJob(j) \/ StopJob(j) \/ \E e \in Exec : TakeJob(j, e)
      PROVE  TypeOK'
  BY <1>7, TypeJob
<1>8. ASSUME NEW e \in Exec,
             SmtpAccepts(e) \/ SmtpDefers(e) \/ Records(e) \/ BreaksOff(e) \/ FetchFails(e)
      PROVE  TypeOK'
  BY <1>8, TypeMail
<1> QED
  BY <1>1, <1>2, <1>3, <1>4, <1>5, <1>6, <1>7, <1>8, TypeCrash DEF Next

(* Bookings, reservations, ticks, executions and mails keep their types.    *)
THEOREM CadenceTypes == Spec => []TypeOK
  BY TypeInit, TypeStep, PTL DEF Spec

-----------------------------------------------------------------------------
(* Nothing runs before its slot.                                            *)
Slot(x) == booked[x].slot

TicksInTime ==
  \A t \in Tick : /\ ticks[t].pc = "book" => ticks[t].at <= now
                  /\ ticks[t].pc = "add" => Slot(ticks[t].id) <= now + ticks[t].delay
JobsInTime == \A j \in jobs : Slot(j.id) <= j.due
ExecsInTime ==
  \A e \in Exec : /\ execs[e].pc # "idle" => Slot(execs[e].id) <= now
                  /\ execs[e].pc = "record" => mails[execs[e].mail].id = execs[e].id
MailsInTime ==
  \A m \in DOMAIN mails : /\ Slot(mails[m].id) <= mails[m].at /\ mails[m].at <= now
                          /\ mails[m].stamp # None =>
                               mails[m].at <= mails[m].stamp /\ mails[m].stamp <= last
ITimes == TicksInTime /\ JobsInTime /\ ExecsInTime /\ MailsInTime /\ last <= now

LEMMA TimesInit == Init => ITimes
<1> SUFFICES ASSUME Init PROVE ITimes
  OBVIOUS
<1>1. /\ \A t \in Tick : ticks[t].pc = "idle"
      /\ \A e \in Exec : execs[e].pc = "idle"
      /\ DOMAIN mails = {} /\ jobs = {} /\ last <= now
  BY DEF Init, IdleTick, IdleExec, None
<1> QED
  BY <1>1 DEF ITimes, TicksInTime, JobsInTime, ExecsInTime, MailsInTime

LEMMA TimesReads == ASSUME TypeOK, ITimes, NEW t \in Tick, StartsTick(t) PROVE ITimes'
<1>1. /\ UNCHANGED <<now, booked, jobs, execs, last, mails>>
      /\ ticks'[t].pc = "book" /\ ticks'[t].at = now
      /\ \A u \in Tick : u # t => ticks'[u] = ticks[u]
  BY DEF StartsTick, TypeOK
<1> QED
  BY <1>1, Types DEF ITimes, TicksInTime, JobsInTime, ExecsInTime, MailsInTime, Slot

LEMMA TimesBooks ==
  ASSUME TypeOK, ITimes, NEW t \in Tick, TickBooks(t)
  PROVE  ITimes'
<1> DEFINE new == Len(booked) + 1
<1>1. PICK d \in TickDelays(ticks[t]) :
        /\ booked' = Append(booked, [slot |-> ticks[t].at + d, pace |-> ticks[t].pace,
                                     by |-> ticks[t].by])
        /\ ticks' = [u \in Tick |->
             CASE u = t -> [IdleTick EXCEPT !.pc = "add", !.id = new, !.delay = d]
               [] u # t /\ ticks[u].pc = "book" ->
                    [ticks[u] EXCEPT !.missed = @ \cup {new}]
               [] OTHER -> ticks[u]]
  BY DEF TickBooks, Books
<1>2. UNCHANGED <<now, jobs, execs, last, mails>>
  BY DEF TickBooks, Books
<1>3. d \in Nat /\ ticks[t].at <= now /\ ticks[t].at \in Nat /\ now \in Nat
  BY BookedDelay, Types DEF TickBooks, Books, ITimes, TicksInTime
<1> DEFINE b == [slot |-> ticks[t].at + d, pace |-> ticks[t].pace, by |-> ticks[t].by]
<1>4. b \in Booking
  BY <1>3, Types DEF Booking
<1>5. /\ \A x \in Id : booked'[x] = booked[x]
      /\ booked'[new] = b
  <2> HIDE DEF b
  <2>1. booked' = Append(booked, b)
    BY <1>1 DEF b
  <2> QED
    BY <1>4, <2>1, BookingAdded
<1>6. booked'[new].slot = ticks[t].at + d
  BY <1>5
<1> HIDE DEF new, b
<1>7. ASSUME NEW u \in Tick
      PROVE  /\ ticks'[u].pc = "book" => ticks'[u].at <= now
             /\ ticks'[u].pc = "add" => booked'[ticks'[u].id].slot <= now + ticks'[u].delay
  <2>1. CASE u = t
    <3>1. ticks'[u].pc = "add" /\ ticks'[u].id = new /\ ticks'[u].delay = d
      BY <1>1, <2>1 DEF IdleTick
    <3> QED
      BY <1>3, <1>6, <3>1
  <2>2. CASE u # t /\ ticks[u].pc = "book"
    <3>1. ticks'[u].pc = "book" /\ ticks'[u].at = ticks[u].at
      BY <1>1, <2>2 DEF TypeOK, TickState
    <3> QED
      BY <2>2, <3>1 DEF ITimes, TicksInTime, JobsInTime, ExecsInTime, MailsInTime
  <2>3. CASE u # t /\ ticks[u].pc # "book"
    <3>1. ticks'[u] = ticks[u]
      BY <1>1, <2>3
    <3>2. ticks[u].pc = "add" => ticks[u].id \in Id
      BY DEF TypeOK
    <3> QED
      BY <1>5, <2>3, <3>1, <3>2 DEF ITimes, TicksInTime, JobsInTime, ExecsInTime, MailsInTime, Slot
  <2> QED
    BY <2>1, <2>2, <2>3
<1>8. /\ \A j \in jobs : booked'[j.id] = booked[j.id]
      /\ \A e \in Exec : execs[e].pc # "idle" => booked'[execs[e].id] = booked[execs[e].id]
      /\ \A m \in DOMAIN mails : booked'[mails[m].id] = booked[mails[m].id]
  BY <1>5, Types DEF TypeOK
<1> QED
  BY <1>2, <1>7, <1>8 DEF ITimes, TicksInTime, JobsInTime, ExecsInTime, MailsInTime, Slot

LEMMA TimesReconcile ==
  ASSUME TypeOK, ITimes, NEW id \in stuck, Reconcile(id)
  PROVE  ITimes'
<1> DEFINE new == Len(booked) + 1
           b == [slot |-> now + Requeue, pace |-> 1, by |-> "reconcile"]
<1>1. /\ booked' = Append(booked, b)
      /\ jobs' = jobs \cup {[id |-> new, due |-> now + Requeue]}
      /\ UNCHANGED <<now, ticks, execs, last, mails>>
  BY DEF Reconcile
<1>2. b \in Booking /\ now + Requeue \in Nat
  BY Types, CadenceAssumption DEF Booking
<1>3. /\ \A x \in Id : booked'[x] = booked[x]
      /\ booked'[new] = b
  <2> HIDE DEF b
  <2> QED
    BY <1>1, <1>2, BookingAdded
<1>4. booked'[new].slot = now + Requeue
  BY <1>3
<1> HIDE DEF new, b
<1>5. \A j \in jobs' : booked'[j.id].slot <= j.due
  <2> TAKE j \in jobs'
  <2>1. CASE j \in jobs
    <3>1. j.id \in Id /\ booked[j.id].slot <= j.due
      BY <2>1, Types DEF ITimes, TicksInTime, JobsInTime, ExecsInTime, MailsInTime, Slot
    <3> QED
      BY <1>3, <3>1
  <2>2. CASE j = [id |-> new, due |-> now + Requeue]
    <3>1. j.id = new /\ j.due = now + Requeue
      BY <2>2
    <3>2. booked'[j.id].slot = j.due
      BY <1>4, <3>1
    <3> QED
      BY <1>2, <3>1, <3>2
  <2> QED
    BY <1>1, <2>1, <2>2
<1>6. /\ \A t \in Tick : ticks[t].pc = "add" => booked'[ticks[t].id] = booked[ticks[t].id]
      /\ \A e \in Exec : execs[e].pc # "idle" => booked'[execs[e].id] = booked[execs[e].id]
      /\ \A m \in DOMAIN mails : booked'[mails[m].id] = booked[mails[m].id]
  BY <1>3, Types DEF TypeOK
<1> QED
  BY <1>1, <1>5, <1>6 DEF ITimes, TicksInTime, JobsInTime, ExecsInTime, MailsInTime, Slot

LEMMA TimesTick ==
  ASSUME TypeOK, ITimes, NEW t \in Tick, TickAdds(t) \/ TickEnds(t) \/ TickDies(t)
  PROVE  ITimes'
<1>1. /\ UNCHANGED <<now, booked, execs, last, mails>>
      /\ \A u \in Tick : ticks'[u] = IF u = t THEN IdleTick ELSE ticks[u]
  BY DEF TickAdds, TickEnds, TickDies, TypeOK
<1>2. \A j \in jobs' : Slot(j.id) <= j.due
  <2>1. CASE TickAdds(t)
    BY <2>1 DEF TickAdds, ITimes, JobsInTime, TicksInTime
  <2>2. CASE TickEnds(t) \/ TickDies(t)
    BY <2>2 DEF TickEnds, TickDies, ITimes, JobsInTime
  <2> QED
    BY <2>1, <2>2
<1> QED
  BY <1>1, <1>2 DEF ITimes, TicksInTime, JobsInTime, ExecsInTime, MailsInTime, Slot, IdleTick

LEMMA TimesJob ==
  ASSUME TypeOK, ITimes, NEW j \in jobs,
         ReleaseJob(j) \/ StopJob(j) \/ \E e \in Exec : TakeJob(j, e)
  PROVE  ITimes'
<1>1. /\ UNCHANGED <<now, booked, ticks, last, mails>>
      /\ jobs' = jobs \ {j}
  BY DEF ReleaseJob, StopJob, TakeJob, HandsOver, Takes
<1>2. \A f \in Exec : /\ execs'[f].pc # "idle" => Slot(execs'[f].id) <= now
                      /\ execs'[f].pc = "record" => mails[execs'[f].mail].id = execs'[f].id
  <2>1. CASE ReleaseJob(j) \/ StopJob(j)
    BY <2>1 DEF ReleaseJob, StopJob, ITimes, ExecsInTime
  <2>2. ASSUME NEW e \in Exec, TakeJob(j, e) PROVE <1>2!:
    <3>1. /\ execs'[e].pc = "send" /\ execs'[e].id = j.id /\ j.due <= now
          /\ \A f \in Exec : f # e => execs'[f] = execs[f]
      BY <2>2 DEF TakeJob, HandsOver, Takes, TypeOK
    <3>2. Slot(j.id) <= now
      <4>1. j.due \in Nat /\ now \in Nat /\ Slot(j.id) \in Nat
        BY Types, BookingTypes DEF Slot
      <4> QED
        BY <3>1, <4>1 DEF ITimes, TicksInTime, JobsInTime, ExecsInTime, MailsInTime
    <3> QED
      BY <3>1, <3>2 DEF ITimes, TicksInTime, JobsInTime, ExecsInTime, MailsInTime
  <2> QED
    BY <2>1, <2>2
<1>3. \A i \in jobs' : booked[i.id].slot <= i.due
  BY <1>1 DEF ITimes, TicksInTime, JobsInTime, ExecsInTime, MailsInTime, Slot
<1>4. /\ \A t \in Tick : /\ ticks'[t].pc = "book" => ticks'[t].at <= now'
                         /\ ticks'[t].pc = "add" =>
                              booked'[ticks'[t].id].slot <= now' + ticks'[t].delay
      /\ last' <= now'
  BY <1>1 DEF ITimes, TicksInTime, JobsInTime, ExecsInTime, MailsInTime, Slot
<1>5. \A m \in DOMAIN mails' : /\ booked'[mails'[m].id].slot <= mails'[m].at
                               /\ mails'[m].at <= now'
                               /\ mails'[m].stamp # None =>
                                    mails'[m].at <= mails'[m].stamp /\ mails'[m].stamp <= last'
  BY <1>1 DEF ITimes, TicksInTime, JobsInTime, ExecsInTime, MailsInTime, Slot
<1>6. TicksInTime' /\ last' <= now'
  BY <1>4 DEF TicksInTime, Slot
<1>7. JobsInTime'
  <2>1. \A i \in jobs' : booked'[i.id].slot <= i.due
    BY <1>1, <1>3
  <2> QED
    BY <2>1 DEF JobsInTime, Slot
<1>8. ExecsInTime'
  <2>1. \A f \in Exec :
           /\ execs'[f].pc # "idle" => booked'[execs'[f].id].slot <= now'
           /\ execs'[f].pc = "record" => mails'[execs'[f].mail].id = execs'[f].id
    <3> TAKE f \in Exec
    <3>1. booked' = booked /\ now' = now /\ mails' = mails
      BY <1>1
    <3>2. CASE execs'[f].pc # "idle"
      BY <1>2, <3>1, <3>2 DEF Slot
    <3> QED
      BY <1>2, <3>1, <3>2
  <2> QED
    BY <2>1 DEF ExecsInTime, Slot
<1>9. MailsInTime'
  BY <1>5 DEF MailsInTime, Slot, None
<1> QED
  BY <1>6, <1>7, <1>8, <1>9 DEF ITimes

LEMMA TimesMail ==
  ASSUME TypeOK, ITimes, NEW e \in Exec,
         SmtpAccepts(e) \/ SmtpDefers(e) \/ Records(e) \/ BreaksOff(e) \/ FetchFails(e)
  PROVE  ITimes'
<1>1. UNCHANGED <<now, booked, jobs, ticks>>
  BY DEF SmtpAccepts, SmtpDefers, Records, BreaksOff, FetchFails
<1>2. /\ now \in Nat /\ last \in Int /\ last <= now
      /\ \A m \in DOMAIN mails :
           /\ Slot(mails[m].id) <= mails[m].at /\ mails[m].at <= now
           /\ mails[m].stamp # None => mails[m].at <= mails[m].stamp /\ mails[m].stamp <= last
  BY Types DEF ITimes, TicksInTime, JobsInTime, ExecsInTime, MailsInTime, None
<1>3. CASE SmtpAccepts(e)
  <2> DEFINE n == Len(mails) + 1
  <2>1. /\ n \notin DOMAIN mails /\ DOMAIN mails' = DOMAIN mails \cup {n}
        /\ \A m \in DOMAIN mails : mails'[m] = mails[m]
        /\ mails'[n] = [id |-> execs[e].id, at |-> now, stamp |-> None, row |-> FALSE]
    BY <1>3, MailAppended
  <2>2. /\ execs[e].pc = "send" /\ last' = last
        /\ execs'[e].pc = "record" /\ execs'[e].id = execs[e].id /\ execs'[e].mail = n
        /\ \A f \in Exec : f # e => execs'[f] = execs[f]
    BY <1>3 DEF SmtpAccepts, TypeOK
  <2> HIDE DEF n
  <2>3. /\ mails'[n].id = execs[e].id /\ mails'[n].at = now /\ mails'[n].stamp = None
    BY <2>1
  <2>4. Slot(execs[e].id) <= now
    BY <2>2 DEF ITimes, TicksInTime, JobsInTime, ExecsInTime, MailsInTime
  <2>5. \A m \in DOMAIN mails' :
           /\ Slot(mails'[m].id) <= mails'[m].at /\ mails'[m].at <= now
           /\ mails'[m].stamp # None =>
                mails'[m].at <= mails'[m].stamp /\ mails'[m].stamp <= last
    BY <1>2, <2>1, <2>3, <2>4
  <2>6. \A f \in Exec : execs[f].pc = "record" => execs[f].mail \in DOMAIN mails
    BY DEF TypeOK
  <2>7. \A f \in Exec : /\ execs'[f].pc # "idle" => Slot(execs'[f].id) <= now
                        /\ execs'[f].pc = "record" => mails'[execs'[f].mail].id = execs'[f].id
    BY <2>1, <2>2, <2>3, <2>4, <2>6 DEF ITimes, TicksInTime, JobsInTime, ExecsInTime, MailsInTime
  <2> QED
    BY <1>1, <1>2, <2>2, <2>5, <2>7 DEF ITimes, TicksInTime, JobsInTime, ExecsInTime, MailsInTime, Slot
<1>4. CASE Records(e)
  <2>1. /\ last' = now /\ \A f \in Exec : execs'[f] = IF f = e THEN IdleExec ELSE execs[f]
    BY <1>4 DEF Records, TypeOK
  <2> DEFINE i == execs[e].mail
  <2>2. /\ i \in DOMAIN mails /\ DOMAIN mails' = DOMAIN mails
        /\ mails'[i].stamp = now
        /\ \A m \in DOMAIN mails :
             /\ m # i => mails'[m] = mails[m]
             /\ mails'[m].id = mails[m].id /\ mails'[m].at = mails[m].at
    BY <1>4, MailMarked
  <2> HIDE DEF i
  <2>3. \A m \in DOMAIN mails : mails[m].stamp \in Int /\ mails[m].at \in Int
    BY MailTypes DEF None
  <2>4. \A m \in DOMAIN mails' :
           /\ Slot(mails'[m].id) <= mails'[m].at /\ mails'[m].at <= now
           /\ mails'[m].stamp # None =>
                mails'[m].at <= mails'[m].stamp /\ mails'[m].stamp <= now
    BY <1>2, <2>2, <2>3
  <2>5. \A f \in Exec : execs[f].pc = "record" => execs[f].mail \in DOMAIN mails
    BY DEF TypeOK
  <2>6. \A f \in Exec : /\ execs'[f].pc # "idle" => Slot(execs'[f].id) <= now
                        /\ execs'[f].pc = "record" => mails'[execs'[f].mail].id = execs'[f].id
    BY <2>1, <2>2, <2>5 DEF ITimes, TicksInTime, JobsInTime, ExecsInTime, MailsInTime, IdleExec
  <2>7. /\ \A t \in Tick : /\ ticks'[t].pc = "book" => ticks'[t].at <= now'
                           /\ ticks'[t].pc = "add" =>
                                booked'[ticks'[t].id].slot <= now' + ticks'[t].delay
        /\ \A j \in jobs' : booked'[j.id].slot <= j.due
    BY <1>1 DEF ITimes, TicksInTime, JobsInTime, ExecsInTime, MailsInTime, Slot
  <2>8. last' <= now' /\ now' = now /\ booked' = booked /\ last' = now
    BY <1>1, <1>2, <2>1
  <2> QED
    <3>1. TicksInTime' /\ JobsInTime'
      BY <2>7 DEF TicksInTime, JobsInTime, Slot
    <3>2. ExecsInTime'
      <4>1. \A f \in Exec :
              /\ execs'[f].pc # "idle" => booked'[execs'[f].id].slot <= now'
              /\ execs'[f].pc = "record" => mails'[execs'[f].mail].id = execs'[f].id
        BY <2>6, <2>8, Zenon DEF Slot
      <4> QED
        BY <4>1 DEF ExecsInTime, Slot
    <3>3. MailsInTime'
      BY <2>4, <2>8 DEF MailsInTime, Slot, None
    <3> QED
      BY <2>8, <3>1, <3>2, <3>3 DEF ITimes
<1>5. CASE SmtpDefers(e) \/ BreaksOff(e) \/ FetchFails(e)
  <2>1. /\ UNCHANGED <<last, mails>>
        /\ \A f \in Exec : f # e => execs'[f] = execs[f]
        /\ \/ execs'[e] = IdleExec
           \/ /\ execs'[e].pc = execs[e].pc /\ execs'[e].id = execs[e].id
              /\ execs'[e].mail = execs[e].mail
    <3>1. CASE SmtpDefers(e) \/ BreaksOff(e)
      BY <3>1 DEF SmtpDefers, BreaksOff, TypeOK
    <3>2. CASE FetchFails(e)
      <4>1. /\ UNCHANGED <<last, mails>> /\ execs[e] \in ExecState
            /\ \A f \in Exec : f # e => execs'[f] = execs[f]
            /\ execs'[e] = [execs[e] EXCEPT !.heard = FALSE]
        BY <3>2 DEF FetchFails, TypeOK
      <4> DEFINE r == execs[e]
                 q == execs'[e]
      <4>2. r \in ExecState /\ q = [r EXCEPT !.heard = FALSE]
        BY <4>1
      <4> HIDE DEF r, q
      <4>3. q = [pc |-> r.pc, id |-> r.id, mail |-> r.mail, heard |-> FALSE]
        BY <4>2, Unheard
      <4>4. q.pc = r.pc /\ q.id = r.id /\ q.mail = r.mail
        BY <4>3
      <4> QED
        BY <4>1, <4>4 DEF r, q
    <3> QED
      BY <1>5, <3>1, <3>2
  <2> QED
    BY <1>1, <2>1 DEF ITimes, TicksInTime, JobsInTime, ExecsInTime, MailsInTime, Slot, IdleExec
<1> QED
  BY <1>3, <1>4, <1>5

LEMMA Unawaited ==
  ASSUME TypeOK, Crash, NEW e \in Exec
  PROVE  /\ execs'[e].pc = execs[e].pc /\ execs'[e].id = execs[e].id
         /\ execs'[e].mail = execs[e].mail /\ ~execs'[e].heard
<1> DEFINE r == execs[e]
           q == execs'[e]
<1>1. r \in ExecState /\ q = [r EXCEPT !.heard = FALSE]
  BY DEF Crash, TypeOK
<1> HIDE DEF r, q
<1>2. q = [pc |-> r.pc, id |-> r.id, mail |-> r.mail, heard |-> FALSE]
  BY <1>1, Unheard
<1>3. q.pc = r.pc /\ q.id = r.id /\ q.mail = r.mail /\ ~q.heard
  BY <1>2
<1> QED
  BY <1>3 DEF r, q

LEMMA TimesCrash == ASSUME TypeOK, ITimes, Crash PROVE ITimes'
<1> DEFINE awaited == {e \in Exec : execs[e].heard}
<1>1. /\ UNCHANGED <<now, booked, last, mails>>
      /\ \A t \in Tick : ticks'[t].pc = "idle"
      /\ jobs' = jobs \cup {[id |-> execs[e].id, due |-> now] : e \in awaited}
  BY DEF Crash, IdleTick
<1>2. \A j \in jobs' : booked'[j.id].slot <= j.due
  <2>1. \A e \in awaited : booked[execs[e].id].slot <= now
    BY DEF ITimes, ExecsInTime, Slot, TypeOK
  <2> QED
    BY <1>1, <2>1 DEF ITimes, JobsInTime, Slot
<1>3. \A e \in Exec : /\ execs'[e].pc # "idle" => booked'[execs'[e].id].slot <= now'
                      /\ execs'[e].pc = "record" => mails'[execs'[e].mail].id = execs'[e].id
  BY <1>1, Unawaited DEF ITimes, ExecsInTime, Slot
<1>4. TicksInTime' /\ JobsInTime' /\ ExecsInTime'
  BY <1>1, <1>2, <1>3 DEF TicksInTime, JobsInTime, ExecsInTime, Slot
<1>5. MailsInTime' /\ last' <= now'
  BY <1>1 DEF ITimes, MailsInTime, Slot, None
<1> QED
  BY <1>4, <1>5 DEF ITimes

LEMMA TimesMinute == ASSUME TypeOK, ITimes, Minute PROVE ITimes'
<1>1. /\ UNCHANGED <<booked, jobs, ticks, execs, last, mails>>
      /\ now' = now + 1 /\ now \in Nat /\ last \in Int
  BY Types DEF Minute, None
<1>2. TicksInTime' /\ JobsInTime'
  <2>1. ASSUME NEW t \in Tick
        PROVE  /\ ticks[t].pc = "book" => ticks[t].at <= now + 1
               /\ ticks[t].pc = "add" =>
                    booked[ticks[t].id].slot <= now + 1 + ticks[t].delay
    <3>1. ticks[t].at \in Nat /\ ticks[t].delay \in Nat
      BY Types
    <3>2. ticks[t].pc = "add" => booked[ticks[t].id].slot \in Nat
      BY BookingTypes DEF TypeOK
    <3> QED
      BY <1>1, <3>1, <3>2 DEF ITimes, TicksInTime, Slot
  <2> QED
    BY <1>1, <2>1 DEF ITimes, TicksInTime, JobsInTime, Slot
<1>3. ExecsInTime'
  <2>1. ASSUME NEW e \in Exec, execs[e].pc # "idle"
        PROVE  booked[execs[e].id].slot <= now + 1
    <3>1. booked[execs[e].id].slot \in Nat
      BY <2>1, BookingTypes DEF TypeOK
    <3> QED
      BY <1>1, <2>1, <3>1 DEF ITimes, ExecsInTime, Slot
  <2> QED
    BY <1>1, <2>1 DEF ITimes, ExecsInTime, Slot
<1>4. MailsInTime'
  <2>1. \A m \in DOMAIN mails : mails[m].at \in Nat
    BY MailTypes
  <2> QED
    BY <1>1, <2>1 DEF ITimes, MailsInTime, Slot, None
<1> QED
  BY <1>1, <1>2, <1>3, <1>4 DEF ITimes

LEMMA TimesStep == TypeOK /\ ITimes /\ [Next]_vars => ITimes'
<1> SUFFICES ASSUME TypeOK, ITimes, [Next]_vars PROVE ITimes'
  OBVIOUS
<1>1. CASE UNCHANGED vars
  BY <1>1 DEF vars, ITimes, TicksInTime, JobsInTime, ExecsInTime, MailsInTime, Slot, None
<1>2. ASSUME NEW t \in Tick, TickReads(t) PROVE ITimes'
  BY <1>2, TimesReads DEF TickReads
<1>3. ASSUME NEW t \in Tick, TickBooks(t) PROVE ITimes'
  BY <1>3, TimesBooks
<1>4. ASSUME NEW t \in Tick, TickAdds(t) \/ TickEnds(t) \/ TickDies(t) PROVE ITimes'
  BY <1>4, TimesTick
<1>5. ASSUME NEW id \in stuck, Reconcile(id) PROVE ITimes'
  BY <1>5, TimesReconcile
<1>6. ASSUME NEW j \in jobs,
             ReleaseJob(j) \/ StopJob(j) \/ \E e \in Exec : TakeJob(j, e)
      PROVE  ITimes'
  BY <1>6, TimesJob
<1>7. ASSUME NEW e \in Exec,
             SmtpAccepts(e) \/ SmtpDefers(e) \/ Records(e) \/ BreaksOff(e) \/ FetchFails(e)
      PROVE  ITimes'
  BY <1>7, TimesMail
<1> QED
  BY <1>1, <1>2, <1>3, <1>4, <1>5, <1>6, <1>7, TimesCrash, TimesMinute DEF Next

-----------------------------------------------------------------------------
(* The slots still to come.  A booking the reservation watches over is no    *)
(* later than the one the reservation names (ILine), a tick that has not     *)
(* missed it reckons from there (ITick), and while its slot is ahead it is   *)
(* the one named, and every tick that has read will miss it (IAhead).        *)
Anchor(t) == larger(ticks[t].last, ticks[t].pending)

\* stamped in time, or still to be sent with time left
Prompt == {x \in Id : \/ \E m \in DOMAIN mails : mails[m].id = x /\ OnTime(mails[m])
                      \/ x \in Out /\ now < Slot(x) + Padding}

ILine ==
  \A x \in Out \ loose : now < Slot(x) + Padding =>
    resv.id # 0 /\ Slot(resv.id) >= Slot(x) /\ resv.expires >= Slot(x) + Padding

ITick ==
  \A t \in Tick : ticks[t].pc = "book" =>
    \A x \in Prompt : x \notin loose /\ x \notin ticks[t].missed => Anchor(t) >= Slot(x)

IAhead ==
  \A x \in Out \ loose : Slot(x) > now =>
    resv.id = x /\ \A t \in Tick : ticks[t].pc = "book" => x \in ticks[t].missed

\* what follows a prompt mail leaves room for its padding and the floor
IPairs ==
  \A x \in Prompt, y \in Id :
    x < y /\ x \notin loose /\ booked[y].by # "reconcile" =>
      Slot(x) + Padding + Floor * booked[y].pace <= Slot(y)

IWatch == ILine /\ ITick /\ IAhead

(* A step that takes no booking back into the reservation's watch.          *)
Quiet ==
  /\ \A x \in Id : x \in Id' /\ booked'[x] = booked[x]
  /\ \A y \in Id' : y \notin Id => y \in loose' /\ booked'[y].by = "reconcile"
  /\ loose \subseteq loose'
  /\ Out' \ loose' \subseteq Out
  /\ Prompt' \ loose' \subseteq Prompt
  /\ resv' = resv \/ Out' \subseteq loose'
  /\ now <= now'
  /\ \A t \in Tick : ticks'[t].pc = "book" => ticks'[t] = ticks[t]

LEMMA QuietStep ==
  ASSUME TypeOK, TypeOK', IWatch, Quiet
  PROVE  IWatch' /\ (IPairs => IPairs')
<1>1. /\ now \in Nat /\ now' \in Nat /\ Out \subseteq Id /\ Out' \subseteq Id'
      /\ resv.id \in Id \cup {0} /\ now <= now'
  BY Types DEF Quiet, TypeOK, Time
<1>2. ASSUME NEW x \in Id PROVE booked'[x].slot = Slot(x) /\ Slot(x) \in Nat
  BY BookingTypes DEF Quiet, Slot
<1>3. ILine'
  <2> SUFFICES ASSUME NEW x \in Out', x \notin loose', now' < booked'[x].slot + Padding
               PROVE  /\ resv'.id # 0 /\ booked'[resv'.id].slot >= booked'[x].slot
                      /\ resv'.expires >= booked'[x].slot + Padding
    BY DEF ILine, Slot
  <2>1. x \in Out /\ x \notin loose /\ x \in Id /\ resv' = resv
    BY <1>1 DEF Quiet
  <2>2. booked'[x].slot = Slot(x) /\ Slot(x) \in Nat
    BY <1>2, <2>1
  <2>3. now < Slot(x) + Padding
    BY <1>1, <2>2, CadenceAssumption
  <2>4. resv.id # 0 /\ Slot(resv.id) >= Slot(x) /\ resv.expires >= Slot(x) + Padding
    BY <2>1, <2>3 DEF IWatch, ILine
  <2>5. booked'[resv.id].slot = Slot(resv.id)
    BY <1>1, <1>2, <2>4
  <2> QED
    BY <2>1, <2>2, <2>4, <2>5
<1>4. ITick'
  <2> SUFFICES ASSUME NEW t \in Tick, ticks'[t].pc = "book", NEW x \in Prompt',
                      x \notin loose', x \notin ticks'[t].missed
               PROVE  larger(ticks'[t].last, ticks'[t].pending) >= booked'[x].slot
    BY DEF ITick, Anchor, Slot, larger
  <2>1. x \in Prompt /\ x \notin loose /\ x \in Id /\ ticks'[t] = ticks[t]
    BY DEF Quiet, Prompt
  <2> QED
    BY <1>2, <2>1 DEF IWatch, ITick, Anchor
<1>5. IAhead'
  <2> SUFFICES ASSUME NEW x \in Out', x \notin loose', booked'[x].slot > now'
               PROVE  /\ resv'.id = x
                      /\ \A t \in Tick : ticks'[t].pc = "book" => x \in ticks'[t].missed
    BY DEF IAhead, Slot
  <2>1. x \in Out /\ x \notin loose /\ x \in Id /\ resv' = resv
    BY <1>1 DEF Quiet
  <2>2. Slot(x) > now
    BY <1>1, <1>2, <2>1
  <2> QED
    BY <2>1, <2>2 DEF IWatch, IAhead, Quiet
<1>6. ASSUME IPairs PROVE IPairs'
  <2> SUFFICES ASSUME NEW x \in Prompt', NEW y \in Id', x < y, x \notin loose',
                      booked'[y].by # "reconcile"
               PROVE  booked'[x].slot + Padding + Floor * booked'[y].pace <= booked'[y].slot
    BY DEF IPairs, Slot
  <2>1. x \in Prompt /\ x \notin loose /\ x \in Id /\ y \in Id
    BY DEF Quiet, Prompt
  <2>2. booked'[y] = booked[y] /\ booked'[x] = booked[x]
    BY <2>1 DEF Quiet
  <2> QED
    BY <1>6, <2>1, <2>2 DEF IPairs, Slot
<1> QED
  BY <1>3, <1>4, <1>5, <1>6 DEF IWatch

LEMMA PromptStays ==
  ASSUME TypeOK, TypeOK', now <= now', NEW x \in Prompt', x \in Id, booked'[x] = booked[x],
         x \in Out' => x \in Out,
         \A m \in DOMAIN mails' :
           mails'[m].id = x /\ mails'[m].stamp # None /\ mails'[m].stamp < Slot(x) + Padding
             => x \in Prompt
  PROVE  x \in Prompt
<1>1. now \in Nat /\ now' \in Nat /\ Slot(x) \in Nat
  BY Types, BookingTypes DEF TypeOK, Time, Slot
<1>2. \/ \E m \in DOMAIN mails' :
           /\ mails'[m].id = x /\ mails'[m].stamp # None
           /\ mails'[m].stamp < booked'[x].slot + Padding
      \/ x \in Out' /\ now' < booked'[x].slot + Padding
  BY DEF Prompt, OnTime, Slot, None
<1> QED
  BY <1>1, <1>2, CadenceAssumption DEF Prompt, Slot

(* Mails as they are: no booking becomes prompt.                            *)
LEMMA SameMails ==
  ASSUME TypeOK, TypeOK', now <= now', mails' = mails,
         \A x \in Id : x \in Id' /\ booked'[x] = booked[x],
         \A x \in Id : x \in Out' => x \in Out
  PROVE  \A x \in Id : x \in Prompt' => x \in Prompt
<1> SUFFICES ASSUME NEW x \in Id, x \in Prompt' PROVE x \in Prompt
  OBVIOUS
<1>1. ASSUME NEW m \in DOMAIN mails', mails'[m].id = x, mails'[m].stamp # None,
             mails'[m].stamp < Slot(x) + Padding
      PROVE  x \in Prompt
  BY <1>1 DEF Prompt, OnTime, Slot
<1> QED
  BY <1>1, PromptStays

LEMMA QuietTick ==
  ASSUME TypeOK, TypeOK', NEW t \in Tick, TickAdds(t) \/ TickEnds(t) \/ TickDies(t)
  PROVE  Quiet
<1>1. /\ UNCHANGED <<now, booked, resv, execs, mails, loose>>
      /\ \A u \in Tick : ticks'[u] = IF u = t THEN IdleTick ELSE ticks[u]
  BY DEF TickAdds, TickEnds, TickDies, TypeOK
<1>2. Id' = Id /\ now <= now'
  BY <1>1, Types DEF Id
<1>3. Out' \subseteq Out
  <2>1. Adding' \subseteq Adding
    BY <1>1 DEF Adding, IdleTick
  <2>2. Waiting' \subseteq Waiting \cup Adding
    <3>1. CASE TickAdds(t)
      BY <3>1 DEF TickAdds, Waiting, Adding
    <3>2. CASE TickEnds(t) \/ TickDies(t)
      BY <3>2 DEF TickEnds, TickDies, Waiting
    <3> QED
      BY <3>1, <3>2
  <2>3. InHand' = InHand
    BY <1>1 DEF InHand
  <2> QED
    BY <2>1, <2>2, <2>3 DEF Out
<1>4. \A x \in Id : x \in Prompt' => x \in Prompt
  BY <1>1, <1>2, <1>3, SameMails
<1> QED
  BY <1>1, <1>2, <1>3, <1>4 DEF Quiet, IdleTick, Prompt

LEMMA QuietReconcile ==
  ASSUME TypeOK, TypeOK', NEW id \in stuck, Reconcile(id)
  PROVE  Quiet
<1> DEFINE new == Len(booked) + 1
           b == [slot |-> now + Requeue, pace |-> 1, by |-> "reconcile"]
<1>1. /\ booked' = Append(booked, b)
      /\ jobs' = jobs \cup {[id |-> new, due |-> now + Requeue]}
      /\ loose' = loose \cup {new}
      /\ UNCHANGED <<now, resv, ticks, execs, mails>>
  BY DEF Reconcile
<1>2. b \in Booking
  BY Types, CadenceAssumption DEF Booking
<1>3. /\ \A x \in Id : booked'[x] = booked[x]
      /\ booked'[new] = b /\ Id' = Id \cup {new}
  <2> HIDE DEF b
  <2> QED
    BY <1>1, <1>2, BookingAdded
<1>4. booked'[new].by = "reconcile"
  BY <1>3
<1> HIDE DEF new, b
<1>5. Out' \subseteq Out \cup {new}
  <2>1. Waiting' \subseteq Waiting \cup {new}
    BY <1>1 DEF Waiting
  <2>2. Adding' = Adding /\ InHand' = InHand
    BY <1>1 DEF Adding, InHand
  <2> QED
    BY <2>1, <2>2 DEF Out
<1>6. now <= now' /\ new \notin Id
  BY <1>1, Types, BookingTypes DEF new, Id
<1>7. \A x \in Id : x \in Prompt' => x \in Prompt
  <2>1. \A x \in Id : x \in Id' /\ booked'[x] = booked[x] /\ (x \in Out' => x \in Out)
    BY <1>3, <1>5, <1>6
  <2> QED
    BY <1>1, <1>6, <2>1, SameMails
<1>8. Prompt' \subseteq Id'
  BY DEF Prompt
<1> QED
  BY <1>1, <1>3, <1>4, <1>5, <1>6, <1>7, <1>8 DEF Quiet

LEMMA QuietJob ==
  ASSUME TypeOK, TypeOK', NEW j \in jobs,
         ReleaseJob(j) \/ StopJob(j) \/ \E e \in Exec : TakeJob(j, e)
  PROVE  Quiet
<1>1. /\ UNCHANGED <<now, booked, ticks, mails>>
      /\ jobs' = jobs \ {j}
  BY DEF ReleaseJob, StopJob, TakeJob, HandsOver, Takes
<1>2. /\ loose \subseteq loose'
      /\ resv' = resv \/ Out' \subseteq loose'
      /\ InHand' \subseteq InHand \cup {j.id}
  <2>1. CASE ReleaseJob(j)
    BY <2>1 DEF ReleaseJob, InHand
  <2>2. CASE StopJob(j)
    BY <2>2 DEF StopJob, InHand
  <2>3. ASSUME NEW e \in Exec, TakeJob(j, e) PROVE <1>2!:
    <3>1. /\ execs'[e].id = j.id /\ loose' = loose /\ resv' = resv
          /\ \A f \in Exec : f # e => execs'[f] = execs[f]
      BY <2>3 DEF TakeJob, HandsOver, TypeOK
    <3> QED
      BY <3>1 DEF InHand
  <2> QED
    BY <2>1, <2>2, <2>3
<1>3. Id' = Id /\ now <= now'
  BY <1>1, Types DEF Id
<1>4. Out' \subseteq Out
  BY <1>1, <1>2 DEF Out, Adding, Waiting
<1>5. \A x \in Id : x \in Prompt' => x \in Prompt
  BY <1>1, <1>3, <1>4, SameMails
<1> QED
  BY <1>1, <1>2, <1>3, <1>4, <1>5 DEF Quiet, Prompt

LEMMA QuietRest ==
  ASSUME TypeOK, TypeOK', Crash \/ Minute \/ UNCHANGED vars
  PROVE  Quiet
<1>1. /\ UNCHANGED <<booked, resv, mails, loose>>
      /\ now' \in {now, now + 1}
  BY DEF Crash, Minute, vars
<1>2. Id' = Id /\ now <= now'
  BY <1>1, Types DEF Id
<1>3. /\ Out' \subseteq Out
      /\ \A t \in Tick : ticks'[t].pc = "book" => ticks'[t] = ticks[t]
  <2>1. CASE Crash
    <3>1. InHand' = InHand
      BY <2>1, Unawaited DEF InHand
    <3>2. Waiting' \subseteq Waiting \cup InHand
      BY <2>1 DEF Crash, Waiting, InHand, TypeOK
    <3>3. \A t \in Tick : ticks'[t].pc = "idle"
      BY <2>1 DEF Crash, IdleTick
    <3> QED
      BY <3>1, <3>2, <3>3 DEF Out, Adding
  <2>2. CASE Minute \/ UNCHANGED vars
    BY <2>2 DEF Minute, vars, Out, Adding, Waiting, InHand
  <2> QED
    BY <2>1, <2>2
<1>4. \A x \in Id : x \in Prompt' => x \in Prompt
  BY <1>1, <1>2, <1>3, SameMails
<1> QED
  BY <1>1, <1>2, <1>3, <1>4 DEF Quiet, Prompt

(* A mail stamped while its reservation runs was prompt before.             *)
LEMMA QuietMail ==
  ASSUME TypeOK, TypeOK', ITimes, NEW e \in Exec,
         SmtpAccepts(e) \/ SmtpDefers(e) \/ Records(e) \/ BreaksOff(e) \/ FetchFails(e)
  PROVE  Quiet
<1>1. UNCHANGED <<now, booked, resv, jobs, ticks, loose>>
  BY DEF SmtpAccepts, SmtpDefers, Records, BreaksOff, FetchFails
<1>2. Id' = Id /\ now <= now'
  BY <1>1, Types DEF Id
<1>3. Out' \subseteq Out
  <2>1. \A f \in Exec : execs'[f].pc # "idle" =>
           execs[f].pc # "idle" /\ execs'[f].id = execs[f].id
    <3>1. CASE SmtpAccepts(e)
      BY <3>1 DEF SmtpAccepts, TypeOK
    <3>2. CASE SmtpDefers(e) \/ Records(e) \/ BreaksOff(e)
      BY <3>2 DEF SmtpDefers, Records, BreaksOff, TypeOK, IdleExec
    <3>3. CASE FetchFails(e)
      <4> DEFINE r == execs[e]
                 q == execs'[e]
      <4>1. /\ r \in ExecState /\ q = [r EXCEPT !.heard = FALSE]
            /\ \A f \in Exec : f # e => execs'[f] = execs[f]
        BY <3>3 DEF FetchFails, TypeOK
      <4> HIDE DEF r, q
      <4>2. q = [pc |-> r.pc, id |-> r.id, mail |-> r.mail, heard |-> FALSE]
        BY <4>1, Unheard
      <4>3. q.pc = r.pc /\ q.id = r.id
        BY <4>2
      <4> QED
        BY <4>1, <4>3 DEF r, q
    <3> QED
      BY <3>1, <3>2, <3>3
  <2> QED
    BY <1>1, <2>1 DEF Out, Adding, Waiting, InHand
<1>4. \A x \in Id : x \in Prompt' => x \in Prompt
  <2> SUFFICES ASSUME NEW x \in Id, x \in Prompt' PROVE x \in Prompt
    OBVIOUS
  <2>1. ASSUME NEW m \in DOMAIN mails', mails'[m].id = x, mails'[m].stamp # None,
               mails'[m].stamp < Slot(x) + Padding
        PROVE  x \in Prompt
    <3>1. CASE m \in DOMAIN mails /\ mails'[m] = mails[m]
      BY <2>1, <3>1 DEF Prompt, OnTime, Slot
    <3>2. CASE SmtpAccepts(e)
      <4> DEFINE n == Len(mails) + 1
      <4>1. /\ DOMAIN mails' = DOMAIN mails \cup {n}
            /\ \A i \in DOMAIN mails : mails'[i] = mails[i]
            /\ mails'[n] = [id |-> execs[e].id, at |-> now, stamp |-> None, row |-> FALSE]
        BY <3>2, MailAppended
      <4> HIDE DEF n
      <4>2. mails'[n].stamp = None
        BY <4>1
      <4> QED
        BY <2>1, <3>1, <4>1, <4>2
    <3>3. CASE Records(e) /\ m = execs[e].mail
      <4>1. /\ m \in DOMAIN mails /\ mails'[m].stamp = now /\ mails'[m].id = mails[m].id
        BY <3>3, MailMarked
      <4>2. execs[e].pc = "record" /\ execs[e].id = x
        BY <2>1, <3>3, <4>1 DEF Records, ITimes, ExecsInTime
      <4>3. x \in Out
        BY <4>2 DEF Out, InHand
      <4> QED
        BY <2>1, <4>1, <4>3 DEF Prompt
    <3>4. CASE Records(e) /\ m # execs[e].mail
      BY <3>1, <3>4, MailMarked
    <3>5. CASE SmtpDefers(e) \/ BreaksOff(e) \/ FetchFails(e)
      BY <2>1, <3>1, <3>5 DEF SmtpDefers, BreaksOff, FetchFails
    <3> QED
      BY <3>2, <3>3, <3>4, <3>5
  <2>2. booked'[x] = booked[x] /\ (x \in Out' => x \in Out)
    BY <1>1, <1>3
  <2> QED
    BY <1>2, <2>1, <2>2, PromptStays
<1> QED
  BY <1>1, <1>2, <1>3, <1>4 DEF Quiet, Prompt

(* No slot is ahead when a tick reads: it reckons from the latest of what    *)
(* is still prompt, stamped or reserved.                                    *)
LEMMA WatchReads ==
  ASSUME TypeOK, TypeOK', ITimes, IWatch, NEW t \in Tick, TickReads(t)
  PROVE  IWatch' /\ (IPairs => IPairs')
<1>1. /\ UNCHANGED <<now, booked, resv, jobs, execs, last, mails, loose>>
      /\ ticks[t].pc = "idle" /\ Reserved <= now
      /\ ticks'[t].pc = "book" /\ ticks'[t].last = last /\ ticks'[t].pending = Reserved
      /\ \A u \in Tick : u # t => ticks'[u] = ticks[u]
  BY DEF TickReads, StartsTick, TypeOK
<1>2. /\ now \in Nat /\ Reserved \in Nat \cup {None} /\ last \in Nat \cup {None}
      /\ resv.expires \in Nat /\ resv.id \in Id \cup {0} /\ Out \subseteq Id
  BY Types
<1>3. Out' = Out /\ Prompt' = Prompt /\ Id' = Id
  <2>1. Id' = Id
    BY <1>1 DEF Id
  <2>2. Out' = Out
    BY <1>1 DEF Out, Adding, Waiting, InHand, StartsTick
  <2> QED
    BY <1>1, <2>1, <2>2 DEF Prompt, OnTime, Slot, None
<1>4. ASSUME NEW x \in Out, x \notin loose, now < Slot(x) + Padding
      PROVE  Reserved >= Slot(x) /\ Slot(x) \in Nat
  <2>1. resv.id # 0 /\ Slot(resv.id) >= Slot(x) /\ resv.expires >= Slot(x) + Padding
    BY <1>4 DEF IWatch, ILine
  <2>2. Slot(x) \in Nat
    BY <1>2, BookingTypes DEF Slot
  <2>3. Live
    BY <1>2, <1>4, <2>1, <2>2, CadenceAssumption DEF Live
  <2> QED
    BY <2>1, <2>2, <2>3 DEF Reserved, Slot
<1>5. ILine'
  BY <1>1, <1>3 DEF IWatch, ILine, Slot
<1>6. IAhead'
  <2> SUFFICES ASSUME NEW x \in Out, x \notin loose, Slot(x) > now PROVE FALSE
    BY <1>1, <1>3 DEF IAhead, Slot
  <2>1. Slot(x) \in Nat
    BY <1>2, BookingTypes DEF Slot
  <2>2. now < Slot(x) + Padding
    BY <1>2, <2>1, CadenceAssumption
  <2> QED
    BY <1>1, <1>2, <1>4, <2>1, <2>2 DEF None
<1>7. ITick'
  <2> SUFFICES ASSUME NEW u \in Tick, ticks'[u].pc = "book", NEW x \in Prompt,
                      x \notin loose, x \notin ticks'[u].missed
               PROVE  larger(ticks'[u].last, ticks'[u].pending) >= Slot(x)
    BY <1>1, <1>3 DEF ITick, Anchor, Slot, larger
  <2>1. CASE u # t
    BY <1>1, <2>1 DEF IWatch, ITick, Anchor
  <2>2. CASE u = t
    <3>1. x \in Id /\ Slot(x) \in Nat
      BY BookingTypes DEF Prompt, Slot
    <3>2. last >= Slot(x) \/ Reserved >= Slot(x)
      <4>1. CASE x \in Out /\ now < Slot(x) + Padding
        BY <1>4, <4>1
      <4>2. ASSUME NEW m \in DOMAIN mails, mails[m].id = x, OnTime(mails[m])
            PROVE  last >= Slot(x)
        <5>1. /\ mails[m].stamp # None /\ Slot(x) <= mails[m].at
              /\ mails[m].at <= mails[m].stamp /\ mails[m].stamp <= last
          BY <4>2 DEF ITimes, MailsInTime, OnTime
        <5>2. mails[m].stamp \in Nat /\ mails[m].at \in Nat
          BY <5>1, MailTypes
        <5> QED
          BY <1>2, <3>1, <5>1, <5>2 DEF None
      <4> QED
        BY <4>1, <4>2 DEF Prompt
    <3>3. last \in Int /\ Reserved \in Int
      BY <1>2 DEF None
    <3>4. larger(last, Reserved) >= Slot(x)
      <4>1. /\ larger(last, Reserved) \in Int /\ larger(last, Reserved) >= last
            /\ larger(last, Reserved) >= Reserved
        BY <3>3, LargerOfTwo
      <4> QED
        BY <3>1, <3>2, <3>3, <4>1
    <3>5. ticks'[u].last = last /\ ticks'[u].pending = Reserved
      BY <1>1, <2>2
    <3> QED
      BY <3>4, <3>5
  <2> QED
    BY <2>1, <2>2
<1>8. IPairs => IPairs'
  BY <1>1, <1>3 DEF IPairs, Slot
<1> QED
  BY <1>5, <1>6, <1>7, <1>8 DEF IWatch

(* The new slot keeps clear of every prompt booking the tick did not miss.   *)
LEMMA WatchBooks ==
  ASSUME TypeOK, TypeOK', ITimes, IWatch, NEW t \in Tick, TickBooks(t)
  PROVE  IWatch' /\ (Paced /\ IPairs => IPairs')
<1> DEFINE new == Len(booked) + 1
<1>1. PICK d \in TickDelays(ticks[t]) :
        /\ booked' = Append(booked, [slot |-> ticks[t].at + d, pace |-> ticks[t].pace,
                                     by |-> ticks[t].by])
        /\ resv' = [id |-> new, expires |-> now + d + Padding]
        /\ ticks' = [u \in Tick |->
             CASE u = t -> [IdleTick EXCEPT !.pc = "add", !.id = new, !.delay = d]
               [] u # t /\ ticks[u].pc = "book" ->
                    [ticks[u] EXCEPT !.missed = @ \cup {new}]
               [] OTHER -> ticks[u]]
  BY DEF TickBooks, Books
<1> DEFINE slot == ticks[t].at + d
           b == [slot |-> slot, pace |-> ticks[t].pace, by |-> ticks[t].by]
<1>2. /\ UNCHANGED <<now, jobs, execs, mails>> /\ ticks[t].pc = "book"
      /\ loose' = loose \cup ticks[t].missed
  BY DEF TickBooks, Books
<1>3. /\ d \in Nat /\ ticks[t].at \in Nat /\ ticks[t].at <= now /\ now \in Nat
      /\ ticks[t].pace \in {1, 2} /\ ticks[t].by \in {"alone", "beside"}
      /\ Reaches(ticks[t].at, Anchor(t), ticks[t].pace, slot)
  BY <1>2, BookedDelay, Types DEF ITimes, TicksInTime, Anchor
<1>4. /\ \A x \in Id : booked'[x] = booked[x]
      /\ booked'[new] = b /\ Id' = Id \cup {new} /\ new \notin Id
  <2>1. b \in Booking
    BY <1>3 DEF Booking
  <2>2. booked' = Append(booked, b)
    BY <1>1
  <2> HIDE DEF b, slot
  <2> QED
    BY <2>1, <2>2, BookingAdded
<1>5. /\ booked'[new].slot = slot /\ booked'[new].pace = ticks[t].pace
      /\ booked'[new].by = ticks[t].by
      /\ resv'.id = new /\ resv'.expires = now + d + Padding
  BY <1>1, <1>4
<1>6. new # 0 /\ new \in Nat
  BY BookingTypes
<1> HIDE DEF new, b
<1>7. /\ ticks'[t].pc = "add" /\ ticks'[t].id = new
      /\ \A u \in Tick : u # t /\ ticks[u].pc = "book" =>
           /\ ticks'[u].pc = "book" /\ ticks'[u].missed = ticks[u].missed \cup {new}
           /\ ticks'[u].last = ticks[u].last /\ ticks'[u].pending = ticks[u].pending
      /\ \A u \in Tick : u # t /\ ticks[u].pc # "book" => ticks'[u] = ticks[u]
  <2>1. \A u \in Tick : u # t /\ ticks[u].pc # "book" => ticks'[u] = ticks[u]
    BY <1>1
  <2>2. ASSUME NEW u \in Tick, u # t, ticks[u].pc = "book"
        PROVE  /\ ticks'[u].pc = "book" /\ ticks'[u].missed = ticks[u].missed \cup {new}
               /\ ticks'[u].last = ticks[u].last /\ ticks'[u].pending = ticks[u].pending
    BY <1>1, <2>2 DEF TypeOK, TickState
  <2>3. ticks'[t] = [IdleTick EXCEPT !.pc = "add", !.id = new, !.delay = d]
    BY <1>1
  <2> QED
    BY <2>1, <2>2, <2>3 DEF IdleTick
<1>8. Out' \subseteq Out \cup {new}
  <2>1. Adding' \subseteq Adding \cup {new}
    <3> SUFFICES ASSUME NEW u \in Tick, ticks'[u].pc = "add" PROVE ticks'[u].id \in Adding \cup {new}
      BY DEF Adding
    <3> QED
      BY <1>7 DEF Adding
  <2>2. Waiting' = Waiting /\ InHand' = InHand
    BY <1>2 DEF Waiting, InHand
  <2> QED
    BY <2>1, <2>2 DEF Out
<1>9. \A x \in Id : x \in Prompt' => x \in Prompt
  <2>1. now <= now'
    BY <1>2, <1>3
  <2> QED
    BY <1>2, <1>4, <1>8, <2>1, SameMails
\* the slot against what the tick did not miss
<1>10. ASSUME NEW x \in Prompt, x \notin loose'
       PROVE  /\ x \in Id /\ Slot(x) \in Nat /\ slot >= Slot(x)
              /\ Paced => Slot(x) + Padding + Floor * ticks[t].pace <= slot
  <2>1. Anchor(t) >= Slot(x)
    BY <1>2, <1>10 DEF IWatch, ITick
  <2>2. x \in Id /\ Slot(x) \in Nat
    BY BookingTypes DEF Prompt, Slot
  <2>3. Anchor(t) \in Int
    <3>1. ticks[t].last \in Int /\ ticks[t].pending \in Int
      BY Types DEF None
    <3> QED
      BY <3>1, LargerOfTwo DEF Anchor
  <2>4. Anchor(t) # None
    BY <2>1, <2>2, <2>3 DEF None
  <2>5. PICK j \in Jitter, n \in Noise : slot >= Anchor(t) + Floor * ticks[t].pace + j + n
    BY <1>3, <2>4 DEF Reaches
  <2>6. j + n \in Nat /\ j \in Int /\ n \in Int
    BY CadenceAssumption
  <2>7. Floor * ticks[t].pace \in Nat
    BY <1>3, Pacing
  <2>8. slot \in Nat
    BY <1>3
  <2>9. Paced => Padding <= j + n
    BY DEF Paced
  <2> HIDE DEF slot
  <2> QED
    BY <2>1, <2>2, <2>3, <2>5, <2>6, <2>7, <2>8, <2>9, CadenceAssumption
<1>11. ASSUME NEW x \in Out, x \notin loose', now < Slot(x) + Padding PROVE x \in Prompt
  BY <1>11, Types DEF Prompt
<1>12. ILine'
  <2> SUFFICES ASSUME NEW x \in Out', x \notin loose', now < booked'[x].slot + Padding
               PROVE  /\ resv'.id # 0 /\ booked'[resv'.id].slot >= booked'[x].slot
                      /\ resv'.expires >= booked'[x].slot + Padding
    BY <1>2 DEF ILine, Slot
  <2>1. slot >= booked'[x].slot /\ booked'[x].slot \in Nat
    <3>1. CASE x = new
      BY <1>3, <1>5, <3>1
    <3>2. CASE x \in Out
      <4>1. x \in Id /\ booked'[x] = booked[x]
        BY <1>4, <3>2, Types
      <4>2. x \in Prompt
        BY <1>11, <3>2, <4>1 DEF Slot
      <4> QED
        BY <1>10, <4>1, <4>2 DEF Slot
    <3> QED
      BY <1>8, <3>1, <3>2
  <2> QED
    BY <1>3, <1>5, <1>6, <2>1, CadenceAssumption
<1>13. IAhead'
  <2> SUFFICES ASSUME NEW x \in Out', x \notin loose', booked'[x].slot > now
               PROVE  /\ resv'.id = x
                      /\ \A u \in Tick : ticks'[u].pc = "book" => x \in ticks'[u].missed
    BY <1>2 DEF IAhead, Slot
  <2>1. CASE x = new
    BY <1>5, <1>7, <2>1
  <2>2. CASE x \in Out
    <3>1. x \in Id /\ booked'[x] = booked[x]
      BY <1>4, <2>2, Types
    <3>2. x \in ticks[t].missed
      BY <1>2, <2>2, <3>1 DEF IWatch, IAhead, Slot
    <3> QED
      BY <1>2, <3>2
  <2> QED
    BY <1>8, <2>1, <2>2
<1>14. ITick'
  <2> SUFFICES ASSUME NEW u \in Tick, ticks'[u].pc = "book", NEW x \in Prompt',
                      x \notin loose', x \notin ticks'[u].missed
               PROVE  larger(ticks'[u].last, ticks'[u].pending) >= booked'[x].slot
    BY DEF ITick, Anchor, Slot, larger
  <2>1. u # t /\ ticks[u].pc = "book"
    BY <1>7
  <2>2. x # new /\ x \in Id' /\ x \notin ticks[u].missed
    BY <1>7, <2>1 DEF Prompt
  <2>3. x \in Id /\ x \in Prompt /\ booked'[x] = booked[x]
    BY <1>4, <1>9, <2>2
  <2>4. Anchor(u) >= Slot(x)
    BY <1>2, <2>1, <2>2, <2>3 DEF IWatch, ITick
  <2>5. ticks'[u].last = ticks[u].last /\ ticks'[u].pending = ticks[u].pending
    BY <1>7, <2>1
  <2> QED
    BY <2>3, <2>4, <2>5 DEF Anchor, Slot
<1>15. Paced /\ IPairs => IPairs'
  <2> SUFFICES ASSUME Paced, IPairs, NEW x \in Prompt', NEW y \in Id', x < y, x \notin loose',
                      booked'[y].by # "reconcile"
               PROVE  booked'[x].slot + Padding + Floor * booked'[y].pace <= booked'[y].slot
    BY DEF IPairs, Slot
  <2>1. x \in Id /\ x \in Prompt /\ booked'[x] = booked[x]
    <3>1. x \in Id' /\ y <= new
      BY <1>4 DEF Prompt, Id, new
    <3>2. x # new
      BY <1>4, <3>1, BookingTypes DEF Prompt, Id, new
    <3> QED
      BY <1>4, <1>9, <3>1, <3>2
  <2>2. CASE y \in Id
    BY <1>2, <1>4, <2>1, <2>2 DEF IPairs, Slot
  <2>3. CASE y = new
    BY <1>5, <1>10, <2>1, <2>3 DEF Slot
  <2> QED
    BY <1>4, <2>2, <2>3
<1> QED
  BY <1>12, <1>13, <1>14, <1>15 DEF IWatch

LEMMA WatchInit == Init => IWatch /\ IPairs
<1> SUFFICES ASSUME Init PROVE IWatch /\ IPairs
  OBVIOUS
<1>1. Id = {} /\ \A t \in Tick : ticks[t].pc = "idle"
  BY DEF Init, Id, IdleTick
<1>2. Out = {}
  BY <1>1 DEF Init, Out, Adding, Waiting, InHand, IdleExec
<1> QED
  BY <1>1, <1>2 DEF IWatch, ILine, ITick, IAhead, IPairs, Prompt

LEMMA WatchStep ==
  ASSUME TypeOK, TypeOK', ITimes, IWatch, [Next]_vars
  PROVE  IWatch' /\ (Paced /\ IPairs => IPairs')
<1>1. CASE Quiet
  BY <1>1, QuietStep
<1>2. ASSUME NEW t \in Tick, TickReads(t) PROVE IWatch' /\ (IPairs => IPairs')
  BY <1>2, WatchReads
<1>3. ASSUME NEW t \in Tick, TickBooks(t) PROVE IWatch' /\ (Paced /\ IPairs => IPairs')
  BY <1>3, WatchBooks
<1>4. ASSUME NEW t \in Tick, TickAdds(t) \/ TickEnds(t) \/ TickDies(t) PROVE Quiet
  BY <1>4, QuietTick
<1>5. ASSUME NEW id \in stuck, Reconcile(id) PROVE Quiet
  BY <1>5, QuietReconcile
<1>6. ASSUME NEW j \in jobs,
             ReleaseJob(j) \/ StopJob(j) \/ \E e \in Exec : TakeJob(j, e)
      PROVE  Quiet
  BY <1>6, QuietJob
<1>7. ASSUME NEW e \in Exec,
             SmtpAccepts(e) \/ SmtpDefers(e) \/ Records(e) \/ BreaksOff(e) \/ FetchFails(e)
      PROVE  Quiet
  BY <1>7, QuietMail
<1> QED
  BY <1>1, <1>2, <1>3, <1>4, <1>5, <1>6, <1>7, QuietRest DEF Next

(* Of the slots still to come no more than one is watched over by the        *)
(* mailbox's reservation (enqueuer.ts:134), whatever ticks overlap, jobs run *)
(* late and workers stop.                                                   *)
THEOREM OneSlotIsAhead == Spec => []OneSlotAhead
<1> DEFINE Inv == TypeOK /\ ITimes /\ IWatch
<1>1. Init => Inv
  BY TypeInit, TimesInit, WatchInit
<1>2. Inv /\ [Next]_vars => Inv'
  BY TypeStep, TimesStep, WatchStep
<1>3. Inv => OneSlotAhead
  BY DEF IWatch, IAhead, OneSlotAhead, Slot
<1> QED
  BY <1>1, <1>2, <1>3, PTL DEF Spec

(* A mail that was stamped while its reservation ran, and whose booking the  *)
(* reservation still watched over, is followed at the floor's distance by    *)
(* every later mail a tick booked: with the code's numbers (120 seconds of   *)
(* padding, at least 240 of jitter, at most 90 of noise), for any number of  *)
(* ticks side by side and however late the jobs run.                        *)
THEOREM FloorIsKept == ASSUME Paced PROVE Spec => []GapKept
<1> DEFINE Inv == TypeOK /\ ITimes /\ IWatch /\ IPairs
<1>1. Init => Inv
  BY TypeInit, TimesInit, WatchInit
<1>2. Inv /\ [Next]_vars => Inv'
  BY TypeStep, TimesStep, WatchStep
<1>3. Inv => GapKept
  <2> SUFFICES ASSUME Inv, NEW i \in DOMAIN mails, NEW k \in DOMAIN mails,
                      mails[i].id < mails[k].id, OnTime(mails[i]), mails[i].id \notin loose,
                      booked[mails[k].id].by # "reconcile"
               PROVE  mails[k].at - mails[i].at >= Floor * booked[mails[k].id].pace
    BY DEF GapKept
  <2> DEFINE x == mails[i].id
             y == mails[k].id
  <2>1. /\ x \in Id /\ y \in Id /\ mails[i].at \in Nat /\ mails[k].at \in Nat
        /\ mails[i].stamp \in Nat \cup {None}
    BY MailTypes
  <2>2. /\ Slot(x) \in Nat /\ Slot(y) \in Nat /\ Floor * booked[y].pace \in Nat
    BY <2>1, BookingTypes, Pacing DEF Slot
  <2>3. Slot(x) + Padding + Floor * booked[y].pace <= Slot(y)
    BY <2>1 DEF IPairs, Prompt
  <2>4. /\ mails[i].stamp # None /\ mails[i].stamp < Slot(x) + Padding
        /\ mails[i].at <= mails[i].stamp /\ Slot(y) <= mails[k].at
    BY DEF OnTime, ITimes, MailsInTime, Slot
  <2> QED
    BY <2>1, <2>2, <2>3, <2>4, CadenceAssumption DEF None
<1> QED
  BY <1>1, <1>2, <1>3, PTL DEF Spec

-----------------------------------------------------------------------------
(* The rolling limit.  A mail of the last day has its row, is in the hands   *)
(* of an execution about to write it, or is counted in lost.                *)
SentLately == {m \in DOMAIN mails : mails[m].at > now - Day}
Open == {m \in DOMAIN mails : \E e \in Exec : execs[e].pc = "record" /\ execs[e].mail = m}
Rowless == {m \in DOMAIN mails : ~mails[m].row /\ m \notin Open}
ToSend == {e \in Exec : execs[e].pc = "send"}
ToRecord == {e \in Exec : execs[e].pc = "record"}
Strayed == {e \in Exec : execs[e].pc # "idle" /\ ~execs[e].heard}

IRoll ==
  /\ \A m \in DOMAIN mails : mails[m].row => mails[m].stamp # None
  /\ Cardinality(Rowless) <= lost
  /\ Cardinality(Strayed) <= strays
  /\ Cardinality(SentLately) + Cardinality(ToSend) <= Cap + lost + strays
  /\ RollingLimit

LEMMA Smaller ==
  ASSUME NEW S, IsFiniteSet(S), NEW T, T \subseteq S
  PROVE  IsFiniteSet(T) /\ Cardinality(T) \in Nat /\ Cardinality(T) <= Cardinality(S)
  BY FS_Subset, FS_CardinalityType

LEMMA OneMore ==
  ASSUME NEW S, IsFiniteSet(S), NEW x, NEW T, T \subseteq S \cup {x}
  PROVE  IsFiniteSet(T) /\ Cardinality(T) \in Nat /\ Cardinality(T) <= Cardinality(S) + 1
<1>0. Cardinality(S) \in Nat
  BY FS_CardinalityType
<1>1. /\ IsFiniteSet(S \cup {x}) /\ Cardinality(S) \in Nat
      /\ Cardinality(S \cup {x}) <= Cardinality(S) + 1
  BY <1>0, FS_AddElement
<1>2. /\ IsFiniteSet(T) /\ Cardinality(T) \in Nat
      /\ Cardinality(T) <= Cardinality(S \cup {x}) /\ Cardinality(S \cup {x}) \in Nat
  BY <1>1, Smaller, FS_CardinalityType
<1> QED
  BY <1>1, <1>2

LEMMA BothCounted ==
  ASSUME NEW S, IsFiniteSet(S), NEW T, IsFiniteSet(T)
  PROVE  /\ IsFiniteSet(S \cup T)
         /\ Cardinality(S \cup T) <= Cardinality(S) + Cardinality(T)
         /\ S \cap T = {} => Cardinality(S \cup T) = Cardinality(S) + Cardinality(T)
<1>1. /\ IsFiniteSet(S \cup T) /\ Cardinality(S \cup T) \in Nat
      /\ Cardinality(S) \in Nat /\ Cardinality(T) \in Nat
      /\ Cardinality(S \cup T) = Cardinality(S) + Cardinality(T) - Cardinality(S \cap T)
  BY FS_Union, FS_CardinalityType
<1>2. IsFiniteSet(S \cap T) /\ Cardinality(S \cap T) \in Nat
  BY FS_Subset, FS_CardinalityType
<1>3. S \cap T = {} => Cardinality(S \cap T) = 0
  BY FS_EmptySet
<1> QED
  BY <1>1, <1>2, <1>3

LEMMA Counted ==
  ASSUME TypeOK
  PROVE  /\ \A S \in SUBSET DOMAIN mails : IsFiniteSet(S) /\ Cardinality(S) \in Nat
         /\ \A S \in SUBSET Exec : IsFiniteSet(S) /\ Cardinality(S) \in Nat
         /\ Cap \in Nat /\ lost \in Nat /\ strays \in Nat /\ now \in Nat /\ Day \in Nat
<1>1. \A S \in SUBSET DOMAIN mails : IsFiniteSet(S) /\ Cardinality(S) \in Nat
  BY MailTypes, FS_Subset, FS_CardinalityType
<1>2. \A S \in SUBSET Exec : IsFiniteSet(S) /\ Cardinality(S) \in Nat
  BY ExecsFinite
<1> QED
  BY <1>1, <1>2, Types, CadenceAssumption DEF TypeOK

LEMMA RollInit == Init => IRoll
<1> SUFFICES ASSUME Init PROVE IRoll
  OBVIOUS
<1>1. DOMAIN mails = {} /\ lost = 0 /\ strays = 0 /\ \A e \in Exec : execs[e].pc = "idle"
  BY DEF Init, IdleExec
<1>2. Rowless = {} /\ Strayed = {} /\ SentLately = {} /\ ToSend = {}
  BY <1>1 DEF Rowless, Strayed, SentLately, ToSend
<1>3. Cardinality({}) = 0
  BY FS_EmptySet
<1> QED
  BY <1>1, <1>2, <1>3, CadenceAssumption DEF IRoll, RollingLimit

(* No mail leaves: the limit stays, with what is counted in it.             *)
LEMMA LimitStays ==
  ASSUME TypeOK, TypeOK', IRoll, now <= now', lost <= lost', strays <= strays',
         DOMAIN mails' = DOMAIN mails, \A m \in DOMAIN mails : mails'[m].at = mails[m].at
  PROVE  /\ RollingLimit'
         /\ Cardinality(SentLately') <= Cardinality(SentLately)
         /\ ToSend' \subseteq ToSend =>
              Cardinality(SentLately') + Cardinality(ToSend') <= Cap + lost' + strays'
<1>1. /\ now \in Nat /\ now' \in Nat /\ Cap \in Nat /\ Day \in Nat
      /\ lost \in Nat /\ lost' \in Nat /\ strays \in Nat /\ strays' \in Nat
  BY Types, CadenceAssumption DEF TypeOK, Time
<1>2. RollingLimit'
  <2> SUFFICES ASSUME NEW i \in DOMAIN mails
               PROVE  Cardinality({k \in 1..i : mails'[k].at > mails'[i].at - Day})
                        <= Cap + lost' + strays'
    BY DEF RollingLimit
  <2> DEFINE S == {k \in 1..i : mails[k].at > mails[i].at - Day}
  <2>1. {k \in 1..i : mails'[k].at > mails'[i].at - Day} = S
    BY MailTypes
  <2>2. Cardinality(S) <= Cap + lost + strays
    BY DEF IRoll, RollingLimit
  <2>3. Cardinality(S) \in Nat
    BY MailTypes, Counted
  <2> HIDE DEF S
  <2> QED
    BY <1>1, <2>1, <2>2, <2>3
<1>3. SentLately' \subseteq SentLately
  BY <1>1, MailTypes DEF SentLately
<1>4. /\ IsFiniteSet(SentLately) /\ Cardinality(SentLately) \in Nat
      /\ IsFiniteSet(ToSend) /\ Cardinality(ToSend) \in Nat
  BY Counted DEF SentLately, ToSend
<1>5. Cardinality(SentLately') \in Nat /\ Cardinality(SentLately') <= Cardinality(SentLately)
  BY <1>3, <1>4, Smaller
<1>6. ASSUME ToSend' \subseteq ToSend
      PROVE  Cardinality(ToSend') \in Nat /\ Cardinality(ToSend') <= Cardinality(ToSend)
  BY <1>4, <1>6, Smaller
<1>7. Cardinality(SentLately) + Cardinality(ToSend) <= Cap + lost + strays
  BY DEF IRoll
<1> QED
  BY <1>1, <1>2, <1>4, <1>5, <1>6, <1>7

(* The steps that neither send a mail nor take a job, but write off what     *)
(* they leave behind.                                                       *)
LEMMA RollKept ==
  ASSUME TypeOK, TypeOK', IRoll, now <= now', lost <= lost', strays <= strays',
         DOMAIN mails' = DOMAIN mails,
         \A m \in DOMAIN mails : mails'[m].at = mails[m].at,
         \A m \in DOMAIN mails : mails'[m].row => mails'[m].stamp # None,
         ToSend' \subseteq ToSend,
         \/ Rowless' \subseteq Rowless
         \/ lost' = lost + 1 /\ \E m : Rowless' \subseteq Rowless \cup {m},
         Cardinality(Strayed') <= strays'
  PROVE  IRoll'
<1>1. lost \in Nat /\ lost' \in Nat
  BY Counted DEF TypeOK
<1>2. IsFiniteSet(Rowless) /\ Cardinality(Rowless) \in Nat /\ Cardinality(Rowless) <= lost
  BY Counted DEF Rowless, IRoll
<1>3. Cardinality(Rowless') <= lost'
  <2>1. CASE Rowless' \subseteq Rowless
    <3>1. Cardinality(Rowless') \in Nat /\ Cardinality(Rowless') <= Cardinality(Rowless)
      BY <1>2, <2>1, Smaller
    <3> QED
      BY <1>1, <1>2, <3>1
  <2>2. ASSUME lost' = lost + 1, NEW m, Rowless' \subseteq Rowless \cup {m}
        PROVE  Cardinality(Rowless') <= lost'
    <3>1. Cardinality(Rowless') \in Nat /\ Cardinality(Rowless') <= Cardinality(Rowless) + 1
      BY <1>2, <2>2, OneMore
    <3> QED
      BY <1>1, <1>2, <2>2, <3>1
  <2> QED
    BY <2>1, <2>2
<1>4. \A m \in DOMAIN mails' : mails'[m].row => mails'[m].stamp # None'
  BY DEF None
<1> QED
  BY <1>3, <1>4, LimitStays DEF IRoll

LEMMA RollOther ==
  ASSUME TypeOK, TypeOK', IRoll, mails' = mails, execs' = execs, now <= now',
         lost' = lost, strays' = strays
  PROVE  IRoll'
<1>1. ToSend' = ToSend /\ Rowless' = Rowless /\ Strayed' = Strayed
  BY DEF ToSend, Rowless, Open, Strayed
<1>2. /\ \A m \in DOMAIN mails : mails'[m].row => mails'[m].stamp # None
      /\ lost <= lost' /\ strays <= strays' /\ Cardinality(Strayed') <= strays'
  BY <1>1, Counted DEF IRoll
<1> QED
  BY <1>1, <1>2, RollKept

(* The processor takes a job when it waits for no execution: those under    *)
(* way are strays, and the rows it counts miss no more mails than they hold. *)
LEMMA RollTakes ==
  ASSUME TypeOK, TypeOK', ITimes, IRoll, NEW j \in jobs, NEW e \in Exec, TakeJob(j, e)
  PROVE  IRoll'
<1>1. /\ UNCHANGED <<now, mails, lost, strays>>
      /\ Cardinality(RowsAfter(now - Day)) < Cap
      /\ \A f \in Exec : ~execs[f].heard
      /\ execs[e].pc = "idle" /\ execs'[e].pc = "send" /\ execs'[e].heard
      /\ \A f \in Exec : f # e => execs'[f] = execs[f]
  BY DEF TakeJob, HandsOver, Takes, SentToday, TypeOK
<1>2. /\ now \in Nat /\ Day \in Nat /\ Cap \in Nat /\ lost \in Nat /\ strays \in Nat
  BY Counted
<1>3. /\ ToSend' = ToSend \cup {e} /\ e \notin ToSend
      /\ Strayed' = Strayed
      /\ Open' = Open /\ Rowless' = Rowless /\ SentLately' = SentLately
  <2>1. ToSend' = ToSend \cup {e} /\ e \notin ToSend /\ Strayed' = Strayed
    BY <1>1 DEF ToSend, Strayed
  <2>2. Open' = Open
    BY <1>1 DEF Open
  <2> QED
    BY <1>1, <2>1, <2>2 DEF Rowless, SentLately
<1>4. SentLately \subseteq (RowsAfter(now - Day) \cup Open) \cup Rowless
  <2> SUFFICES ASSUME NEW m \in DOMAIN mails, mails[m].at > now - Day, mails[m].row
               PROVE  mails[m].stamp > now - Day
    BY DEF SentLately, RowsAfter, Rowless
  <2>1. mails[m].stamp # None /\ mails[m].at <= mails[m].stamp
    BY DEF IRoll, ITimes, MailsInTime
  <2> QED
    BY <1>2, <2>1, MailTypes DEF None
<1>5. /\ \A S \in {RowsAfter(now - Day), Open, Rowless, SentLately} :
           IsFiniteSet(S) /\ Cardinality(S) \in Nat
      /\ \A S \in {ToSend, ToRecord, Strayed} : IsFiniteSet(S) /\ Cardinality(S) \in Nat
  BY Counted DEF RowsAfter, Open, Rowless, SentLately, ToSend, ToRecord, Strayed
<1>6. Cardinality(SentLately)
        <= Cardinality(RowsAfter(now - Day)) + Cardinality(Open) + Cardinality(Rowless)
  <2> DEFINE R == RowsAfter(now - Day)
             RO == R \cup Open
  <2>1. IsFiniteSet(R) /\ IsFiniteSet(Open) /\ IsFiniteSet(Rowless)
    BY <1>5
  <2> HIDE DEF R
  <2>2. IsFiniteSet(RO) /\ Cardinality(RO) <= Cardinality(R) + Cardinality(Open)
    BY <2>1, BothCounted
  <2> HIDE DEF RO
  <2>3. /\ IsFiniteSet(RO \cup Rowless)
        /\ Cardinality(RO \cup Rowless) <= Cardinality(RO) + Cardinality(Rowless)
    BY <2>1, <2>2, BothCounted
  <2>4. SentLately \subseteq RO \cup Rowless
    BY <1>4 DEF RO, R
  <2>5. Cardinality(SentLately) <= Cardinality(RO \cup Rowless)
    BY <2>3, <2>4, Smaller
  <2>6. /\ Cardinality(R) \in Nat /\ Cardinality(Open) \in Nat /\ Cardinality(Rowless) \in Nat
        /\ Cardinality(RO) \in Nat /\ Cardinality(RO \cup Rowless) \in Nat
        /\ Cardinality(SentLately) \in Nat
    BY <1>5, <2>1, <2>2, <2>3, FS_CardinalityType DEF R
  <2> QED
    BY <2>2, <2>3, <2>5, <2>6 DEF R
<1>7. Cardinality(Open) <= Cardinality(ToRecord)
  <2> DEFINE f == [x \in ToRecord |-> execs[x].mail]
  <2>1. f \in Surjection(ToRecord, Open)
    BY DEF Surjection, ToRecord, Open, TypeOK
  <2> QED
    BY <1>5, <2>1, FS_Surjection
<1>8. Cardinality(ToRecord) + Cardinality(ToSend) <= strays
  <2>1. ToRecord \cup ToSend \subseteq Strayed /\ ToRecord \cap ToSend = {}
    BY <1>1 DEF ToRecord, ToSend, Strayed
  <2>2. Cardinality(ToRecord \cup ToSend) = Cardinality(ToRecord) + Cardinality(ToSend)
    BY <1>5, <2>1, BothCounted
  <2>3. Cardinality(ToRecord \cup ToSend) <= Cardinality(Strayed)
    BY <1>5, <2>1, Smaller
  <2>4. Cardinality(Strayed) <= strays
    BY DEF IRoll
  <2> QED
    BY <1>2, <1>5, <2>2, <2>3, <2>4
<1>9. Cardinality(SentLately') + Cardinality(ToSend') <= Cap + lost + strays
  <2>1. Cardinality(ToSend') = Cardinality(ToSend) + 1
    BY <1>3, <1>5, FS_AddElement
  <2>2. Cardinality(Rowless) <= lost
    BY DEF IRoll
  <2>3. /\ Cardinality(RowsAfter(now - Day)) \in Nat /\ Cardinality(Open) \in Nat
        /\ Cardinality(Rowless) \in Nat /\ Cardinality(SentLately) \in Nat
        /\ Cardinality(ToSend) \in Nat /\ Cardinality(ToRecord) \in Nat
    BY <1>5
  <2>4. Cardinality(SentLately') = Cardinality(SentLately)
    BY <1>3
  <2> QED
    BY <1>1, <1>2, <1>6, <1>7, <1>8, <2>1, <2>2, <2>3, <2>4
<1>10. RollingLimit'
  <2>1. now <= now' /\ lost <= lost' /\ strays <= strays'
    BY <1>1, <1>2
  <2>2. DOMAIN mails' = DOMAIN mails /\ \A m \in DOMAIN mails : mails'[m].at = mails[m].at
    BY <1>1
  <2> QED
    BY <2>1, <2>2, LimitStays
<1>11. /\ \A m \in DOMAIN mails' : mails'[m].row => mails'[m].stamp # None'
       /\ Cardinality(Rowless') <= lost' /\ Cardinality(Strayed') <= strays'
  BY <1>1, <1>3 DEF IRoll, None
<1> QED
  BY <1>1, <1>9, <1>10, <1>11 DEF IRoll

LEMMA RollAccepts ==
  ASSUME TypeOK, TypeOK', IRoll, NEW e \in Exec, SmtpAccepts(e)
  PROVE  IRoll'
<1> DEFINE n == Len(mails) + 1
<1>0. Len(mails) \in Nat /\ DOMAIN mails = 1..Len(mails)
  BY MailTypes
<1>1. /\ DOMAIN mails' = DOMAIN mails \cup {n} /\ n \notin DOMAIN mails
      /\ DOMAIN mails' = 1..n
      /\ \A m \in DOMAIN mails : mails'[m] = mails[m]
      /\ mails'[n] = [id |-> execs[e].id, at |-> now, stamp |-> None, row |-> FALSE]
  BY MailAppended
<1>2. /\ execs[e].pc = "send" /\ UNCHANGED <<now, lost, strays>>
      /\ execs'[e].pc = "record" /\ execs'[e].mail = n /\ execs'[e].heard = execs[e].heard
      /\ \A f \in Exec : f # e => execs'[f] = execs[f]
  BY DEF SmtpAccepts, TypeOK
<1> HIDE DEF n
<1>3. ~mails'[n].row /\ mails'[n].at = now
  BY <1>1
<1>4. /\ now \in Nat /\ Day \in Nat /\ Cap \in Nat /\ lost \in Nat /\ strays \in Nat
      /\ IsFiniteSet(SentLately) /\ Cardinality(SentLately) \in Nat
      /\ IsFiniteSet(ToSend) /\ Cardinality(ToSend) \in Nat
      /\ IsFiniteSet(Rowless) /\ Cardinality(Rowless) \in Nat
  BY Counted DEF SentLately, ToSend, Rowless
<1>5. \A m \in DOMAIN mails' : mails'[m].row => mails'[m].stamp # None'
  BY <1>1, <1>3 DEF IRoll, None
<1>6. Cardinality(Rowless') <= lost'
  <2>1. \A f \in Exec : execs[f].pc = "record" => f # e
    BY <1>2
  <2>2. Open \subseteq Open' /\ n \in Open'
    BY <1>1, <1>2, <2>1 DEF Open
  <2>3. Rowless' \subseteq Rowless
    BY <1>1, <2>2 DEF Rowless
  <2>4. Cardinality(Rowless') \in Nat /\ Cardinality(Rowless') <= Cardinality(Rowless)
    BY <1>4, <2>3, Smaller
  <2> QED
    BY <1>2, <1>4, <2>4 DEF IRoll
<1>7. Strayed' = Strayed
  BY <1>2 DEF Strayed
<1>8. /\ Cardinality(SentLately') \in Nat
      /\ Cardinality(SentLately') <= Cardinality(SentLately) + 1
  <2>1. SentLately' \subseteq SentLately \cup {n}
    BY <1>1, <1>2 DEF SentLately
  <2> QED
    BY <1>4, <2>1, OneMore
<1>9. /\ Cardinality(ToSend') = Cardinality(ToSend) - 1
  <2>1. ToSend' = ToSend \ {e} /\ e \in ToSend
    BY <1>2 DEF ToSend
  <2> QED
    BY <1>4, <2>1, FS_RemoveElement
<1>10. Cardinality(ToSend') \in Nat
  BY Counted DEF ToSend, TypeOK
<1>11. Cardinality(SentLately') + Cardinality(ToSend') <= Cap + lost' + strays'
  BY <1>2, <1>4, <1>8, <1>9, <1>10 DEF IRoll
<1>12. RollingLimit'
  <2> SUFFICES ASSUME NEW i \in DOMAIN mails'
               PROVE  Cardinality({k \in 1..i : mails'[k].at > mails'[i].at - Day})
                        <= Cap + lost' + strays'
    BY DEF RollingLimit
  <2>1. CASE i \in DOMAIN mails
    <3>1. {k \in 1..i : mails'[k].at > mails'[i].at - Day}
            = {k \in 1..i : mails[k].at > mails[i].at - Day}
      BY <1>0, <1>1, <2>1
    <3> QED
      BY <1>2, <2>1, <3>1 DEF IRoll, RollingLimit
  <2>2. CASE i = n
    <3>1. {k \in 1..i : mails'[k].at > mails'[i].at - Day} = SentLately'
      <4>1. 1..i = DOMAIN mails'
        BY <1>1, <2>2
      <4>2. mails'[i].at = now'
        BY <1>2, <1>3, <2>2
      <4> QED
        BY <4>1, <4>2 DEF SentLately
    <3>2. Cardinality(SentLately') <= Cap + lost' + strays'
      BY <1>2, <1>4, <1>8, <1>10, <1>11
    <3> QED
      BY <3>1, <3>2
  <2> QED
    BY <1>1, <2>1, <2>2
<1> QED
  BY <1>2, <1>5, <1>6, <1>7, <1>11, <1>12 DEF IRoll

LEMMA RollMail ==
  ASSUME TypeOK, TypeOK', IRoll, NEW e \in Exec,
         SmtpDefers(e) \/ Records(e) \/ BreaksOff(e) \/ FetchFails(e)
  PROVE  IRoll'
<1>1. /\ now' = now /\ now \in Nat /\ lost \in Nat /\ strays \in Nat
      /\ IsFiniteSet(Strayed) /\ Cardinality(Strayed) \in Nat /\ Cardinality(Strayed) <= strays
  BY Counted DEF SmtpDefers, Records, BreaksOff, FetchFails, Strayed, IRoll
<1>2. CASE SmtpDefers(e) \/ Records(e) \/ BreaksOff(e)
  <2>1. /\ execs'[e].pc = "idle" /\ execs[e].pc # "idle" /\ strays' = strays
        /\ \A f \in Exec : f # e => execs'[f] = execs[f]
    BY <1>2 DEF SmtpDefers, Records, BreaksOff, TypeOK, IdleExec
  <2>2. ToSend' \subseteq ToSend /\ Strayed' \subseteq Strayed
    BY <2>1 DEF ToSend, Strayed
  <2>3. Cardinality(Strayed') <= strays'
    <3>1. Cardinality(Strayed') \in Nat /\ Cardinality(Strayed') <= Cardinality(Strayed)
      BY <1>1, <2>2, Smaller
    <3> QED
      BY <1>1, <2>1, <3>1
  <2>4. /\ DOMAIN mails' = DOMAIN mails
        /\ \A m \in DOMAIN mails : mails'[m].at = mails[m].at
        /\ \A m \in DOMAIN mails : mails'[m].row => mails'[m].stamp # None
        /\ lost' \in {lost, lost + 1}
    <3>1. CASE SmtpDefers(e) \/ BreaksOff(e)
      BY <3>1 DEF SmtpDefers, BreaksOff, IRoll
    <3>2. CASE Records(e)
      <4>1. /\ DOMAIN mails' = DOMAIN mails
            /\ \A m \in DOMAIN mails : /\ m # execs[e].mail => mails'[m] = mails[m]
                                   /\ mails'[m].at = mails[m].at
            /\ mails'[execs[e].mail].stamp = now /\ lost' \in {lost, lost + 1}
        BY <3>2, MailMarked
      <4>2. now # None
        BY <1>1 DEF None
      <4> QED
        BY <4>1, <4>2 DEF IRoll
    <3> QED
      BY <1>2, <3>1, <3>2
  <2>5. lost' = lost => Rowless' \subseteq Rowless
    <3> SUFFICES ASSUME lost' = lost PROVE Rowless' \subseteq Rowless
      OBVIOUS
    <3>1. CASE SmtpDefers(e) \/ BreaksOff(e)
      <4>1. execs[e].pc # "record" /\ mails' = mails
        BY <1>1, <3>1 DEF SmtpDefers, BreaksOff
      <4>2. Open' = Open
        BY <2>1, <4>1 DEF Open
      <4> QED
        BY <4>1, <4>2 DEF Rowless
    <3>2. CASE Records(e)
      <4>1. /\ DOMAIN mails' = DOMAIN mails /\ mails'[execs[e].mail].row
            /\ \A m \in DOMAIN mails : m # execs[e].mail => mails'[m] = mails[m]
        BY <1>1, <3>2, MailMarked
      <4>2. \A m \in Open : m # execs[e].mail => m \in Open'
        BY <2>1, <4>1 DEF Open
      <4> QED
        BY <4>1, <4>2 DEF Rowless
    <3> QED
      BY <1>2, <3>1, <3>2
  <2>6. Rowless' \subseteq Rowless \cup {execs[e].mail}
    <3>1. \A m \in DOMAIN mails : m # execs[e].mail => mails'[m] = mails[m]
      BY <1>2, MailMarked DEF SmtpDefers, BreaksOff
    <3>2. \A m \in Open : m # execs[e].mail => m \in Open'
      BY <2>1, <2>4 DEF Open
    <3> QED
      BY <2>4, <3>1, <3>2 DEF Rowless
  <2>7. now <= now' /\ lost <= lost' /\ strays <= strays'
    BY <1>1, <2>1, <2>4
  <2>8. CASE lost' = lost
    <3>1. Rowless' \subseteq Rowless
      BY <2>5, <2>8
    <3> QED
      BY <2>2, <2>3, <2>4, <2>7, <3>1, RollKept
  <2>9. CASE lost' = lost + 1
    <3>1. \E m : Rowless' \subseteq Rowless \cup {m}
      BY <2>6
    <3> QED
      BY <2>2, <2>3, <2>4, <2>7, <2>9, <3>1, RollKept
  <2> QED
    BY <2>4, <2>8, <2>9
<1>3. CASE FetchFails(e)
  <2> DEFINE r == execs[e]
             q == execs'[e]
  <2>1. /\ r \in ExecState /\ q = [r EXCEPT !.heard = FALSE]
        /\ \A f \in Exec : f # e => execs'[f] = execs[f]
        /\ strays' = strays + 1 /\ mails' = mails /\ lost' = lost
    BY <1>3 DEF FetchFails, TypeOK
  <2> HIDE DEF r, q
  <2>2. q = [pc |-> r.pc, id |-> r.id, mail |-> r.mail, heard |-> FALSE]
    BY <2>1, Unheard
  <2>3. q.pc = r.pc /\ q.mail = r.mail
    BY <2>2
  <2>4. \A f \in Exec : execs'[f].pc = execs[f].pc /\ execs'[f].mail = execs[f].mail
    BY <2>1, <2>3 DEF r, q
  <2>5. Rowless' = Rowless /\ ToSend' = ToSend
    BY <2>1, <2>4 DEF Rowless, Open, ToSend
  <2>6. Strayed' \subseteq Strayed \cup {e}
    BY <2>1 DEF Strayed
  <2>7. Cardinality(Strayed') <= strays'
    <3>1. Cardinality(Strayed') \in Nat /\ Cardinality(Strayed') <= Cardinality(Strayed) + 1
      BY <1>1, <2>6, OneMore
    <3> QED
      BY <1>1, <2>1, <3>1
  <2>8. /\ now <= now' /\ lost <= lost' /\ strays <= strays'
        /\ \A m \in DOMAIN mails : mails'[m].row => mails'[m].stamp # None
    BY <1>1, <2>1 DEF IRoll
  <2> QED
    BY <2>1, <2>5, <2>7, <2>8, RollKept
<1> QED
  BY <1>2, <1>3

LEMMA RollCrash == ASSUME TypeOK, TypeOK', IRoll, Crash PROVE IRoll'
<1> DEFINE awaited == {e \in Exec : execs[e].heard}
<1>1. /\ UNCHANGED <<now, mails, lost>>
      /\ strays' = strays + Cardinality(awaited)
  BY DEF Crash
<1>2. /\ now \in Nat /\ lost \in Nat /\ strays \in Nat
      /\ IsFiniteSet(Strayed) /\ Cardinality(Strayed) \in Nat /\ Cardinality(Strayed) <= strays
      /\ IsFiniteSet(awaited) /\ Cardinality(awaited) \in Nat
  BY Counted DEF Strayed, IRoll
<1>3. Rowless' = Rowless /\ ToSend' = ToSend
  BY <1>1, Unawaited DEF Rowless, Open, ToSend
<1>4. Strayed' \subseteq Strayed \cup awaited
  BY Unawaited DEF Strayed
<1> HIDE DEF awaited
<1>5. Cardinality(Strayed') <= strays'
  <2>1. /\ IsFiniteSet(Strayed \cup awaited)
        /\ Cardinality(Strayed \cup awaited) <= Cardinality(Strayed) + Cardinality(awaited)
    BY <1>2, BothCounted
  <2>2. /\ Cardinality(Strayed') \in Nat /\ Cardinality(Strayed \cup awaited) \in Nat
        /\ Cardinality(Strayed') <= Cardinality(Strayed \cup awaited)
    BY <1>4, <2>1, Smaller, FS_CardinalityType
  <2> QED
    BY <1>1, <1>2, <2>1, <2>2
<1>6. /\ now <= now' /\ lost <= lost' /\ strays <= strays'
      /\ \A m \in DOMAIN mails : mails'[m].row => mails'[m].stamp # None
  BY <1>1, <1>2 DEF IRoll
<1> QED
  BY <1>1, <1>3, <1>5, <1>6, RollKept

LEMMA RollStep ==
  ASSUME TypeOK, TypeOK', ITimes, IRoll, [Next]_vars
  PROVE  IRoll'
<1>1. ASSUME mails' = mails, execs' = execs, now' \in {now, now + 1},
             lost' = lost, strays' = strays
      PROVE  IRoll'
  BY <1>1, Types, RollOther
<1>2. ASSUME NEW t \in Tick, TickReads(t) \/ TickBooks(t) \/ TickAdds(t) \/ TickEnds(t) \/ TickDies(t)
      PROVE  IRoll'
  BY <1>1, <1>2 DEF TickReads, StartsTick, TickBooks, Books, TickAdds, TickEnds, TickDies
<1>3. ASSUME NEW id \in stuck, Reconcile(id) PROVE IRoll'
  BY <1>1, <1>3 DEF Reconcile
<1>4. ASSUME NEW j \in jobs, ReleaseJob(j) \/ StopJob(j) PROVE IRoll'
  BY <1>1, <1>4 DEF ReleaseJob, StopJob
<1>5. ASSUME NEW j \in jobs, NEW e \in Exec, TakeJob(j, e) PROVE IRoll'
  BY <1>5, RollTakes
<1>6. ASSUME NEW e \in Exec,
             SmtpAccepts(e) \/ SmtpDefers(e) \/ Records(e) \/ BreaksOff(e) \/ FetchFails(e)
      PROVE  IRoll'
  BY <1>6, RollAccepts, RollMail
<1>7. CASE Minute \/ UNCHANGED vars
  BY <1>1, <1>7 DEF Minute, vars
<1> QED
  BY <1>2, <1>3, <1>4, <1>5, <1>6, <1>7, RollCrash DEF Next

(* However late jobs run and whichever executions outlive their job, no 24   *)
(* hours see more mails of a mailbox than its limit, but for those that got  *)
(* no log row and those of executions the processor stopped waiting for.     *)
THEOREM RollingLimitHolds == Spec => []RollingLimit
<1> DEFINE Inv == TypeOK /\ ITimes /\ IRoll
<1>1. Init => Inv
  BY TypeInit, TimesInit, RollInit
<1>2. Inv /\ [Next]_vars => Inv'
  BY TypeStep, TimesStep, RollStep
<1>3. Inv => RollingLimit
  BY DEF IRoll
<1> QED
  BY <1>1, <1>2, <1>3, PTL DEF Spec

=============================================================================
