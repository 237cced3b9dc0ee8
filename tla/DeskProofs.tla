----------------------------- MODULE DeskProofs -----------------------------
(* Proofs about the parts beside the send path that share no row with it:   *)
(* link domains, look-alikes, addresses, sign-ins, who becomes a lead, the  *)
(* AI's calls and the forecast; for any hosts, domains, scans, addresses,   *)
(* tabs, grants, campaigns, requests, mailboxes, days and bounds.           *)
EXTENDS Domains, Lookalikes, AddressCheck, Connect, Ingest, Writing, Forecast,
  FiniteSetTheorems, SequenceTheorems, TLAPS

-----------------------------------------------------------------------------
(* Domains.                                                                 *)

\* a check that no edit overtook looks at the host the row names, and one
\* that passed did reach it
Sound(c) ==
  checks[c].pc # "none" /\ checks[c].id = domain.id =>
    /\ c \notin overtaken => checks[c].host = domain.linkDomain
    /\ checks[c].pc = "save" /\ checks[c].status = "PASS" => checks[c].host \in reached

ILink ==
  /\ edit # NoEdit => edit.id # 0
  /\ \A c \in Check : checks[c].pc # "none" => checks[c].id # 0
  /\ \A c \in Check : Sound(c)
  /\ LinkProven

LEMMA DomainRows ==
  /\ NewDomain \in Domain
  /\ \A d \in Domain, h \in Host \cup {NoHost}, id \in 0..MaxDomains, b \in BOOLEAN,
        st \in {"PENDING", "PASS", "FAIL"} :
       /\ [d EXCEPT !.id = id] \in Domain
       /\ [d EXCEPT !.linkDomain = h, !.linkDomainStatus = "PENDING"] \in Domain
       /\ [d EXCEPT !.linkDomainStatus = st] \in Domain
       /\ [d EXCEPT !.mailboxes = b] \in Domain
<1>1. NewDomain \in Domain
  BY DomainsAssumption DEF NewDomain, Domain
<1>2. ASSUME NEW d \in Domain, NEW h \in Host \cup {NoHost}, NEW id \in 0..MaxDomains
      PROVE  /\ [d EXCEPT !.id = id] \in Domain
             /\ [d EXCEPT !.linkDomain = h, !.linkDomainStatus = "PENDING"] \in Domain
  BY DEF Domain
<1>3. ASSUME NEW d \in Domain, NEW b \in BOOLEAN, NEW st \in {"PENDING", "PASS", "FAIL"}
      PROVE  [d EXCEPT !.linkDomainStatus = st] \in Domain /\ [d EXCEPT !.mailboxes = b] \in Domain
  BY DEF Domain
<1> QED
  BY <1>1, <1>2, <1>3

LEMMA DomainsTypes == DomainsTypeOK /\ [DomainsNext]_domainsVars => DomainsTypeOK'
<1> SUFFICES ASSUME DomainsTypeOK, [DomainsNext]_domainsVars PROVE DomainsTypeOK'
  OBVIOUS
<1> USE DomainsAssumption DEF DomainsTypeOK
<1>1. CASE AddDomain
  <2>1. domain' \in Domain
    <3>1. PICK id \in 1..MaxDomains : domain' = [NewDomain EXCEPT !.id = id]
      BY <1>1 DEF AddDomain
    <3>2. id \in 0..MaxDomains
      OBVIOUS
    <3> QED
      BY <3>1, <3>2, DomainRows
  <2> QED
    BY <1>1, <2>1 DEF AddDomain
<1>2. CASE EditDomainReads
  <2>1. PICK h \in Host \cup {NoHost} : edit' = [id |-> domain.id, linkDomain |-> h]
    BY <1>2 DEF EditDomainReads
  <2>2. domain.id \in 0..MaxDomains
    BY DEF Domain
  <2> QED
    BY <1>2, <2>1, <2>2 DEF EditDomainReads
<1>3. CASE EditDomainWrites
  <2>1. domain' \in Domain
    <3>1. edit.linkDomain \in Host \cup {NoHost}
      OBVIOUS
    <3>2. [domain EXCEPT !.linkDomain = edit.linkDomain, !.linkDomainStatus = "PENDING"] \in Domain
      BY <3>1, DomainRows
    <3> QED
      BY <1>3, <3>2 DEF EditDomainWrites, NewHost
  <2> QED
    BY <1>3, <2>1 DEF EditDomainWrites, NoEdit
<1>4. CASE AddsMailbox \/ RemovesMailboxes
  <2>1. domain' \in Domain
    BY <1>4, DomainRows DEF AddsMailbox, RemovesMailboxes
  <2> QED
    BY <1>4, <2>1 DEF AddsMailbox, RemovesMailboxes
<1>5. CASE RemoveDomainReads \/ RemoveDomainWrites
  <2>1. domain' \in Domain
    BY <1>5, DomainRows DEF RemoveDomainReads, RemoveDomainWrites
  <2> QED
    BY <1>5, <2>1 DEF RemoveDomainReads, RemoveDomainWrites, Domain
<1>6. ASSUME NEW c \in Check, CheckReads(c) PROVE DomainsTypeOK'
  BY <1>6 DEF CheckReads, Domain
<1>7. ASSUME NEW c \in Check, CheckFetches(c) PROVE DomainsTypeOK'
  <2>1. checks[c].host \in reaching => reached \cup {checks[c].host} \subseteq Host
    OBVIOUS
  <2>2. reached' \subseteq Host
    BY <1>7, <2>1 DEF CheckFetches
  <2>3. checks' = [checks EXCEPT ![c].pc = "save",
                     ![c].status = IF checks[c].host \in reaching THEN "PASS" ELSE "FAIL"]
    BY <1>7 DEF CheckFetches
  <2>4. checks' \in [Check -> [pc : {"none", "fetch", "save"}, id : 0..MaxDomains,
                              host : Host \cup {NoHost}, status : {"PASS", "FAIL"}]]
    <3>1. ASSUME NEW st \in {"PASS", "FAIL"}
          PROVE  [checks EXCEPT ![c].pc = "save", ![c].status = st] \in
                   [Check -> [pc : {"none", "fetch", "save"}, id : 0..MaxDomains,
                              host : Host \cup {NoHost}, status : {"PASS", "FAIL"}]]
      <4>1. [checks[c] EXCEPT !.pc = "save", !.status = st] \in
              [pc : {"none", "fetch", "save"}, id : 0..MaxDomains,
               host : Host \cup {NoHost}, status : {"PASS", "FAIL"}]
        <5> DEFINE Row == [pc : {"none", "fetch", "save"}, id : 0..MaxDomains,
                           host : Host \cup {NoHost}, status : {"PASS", "FAIL"}]
        <5>1. \A r \in Row, p \in {"save"} : [r EXCEPT !.pc = p, !.status = st] \in Row
          OBVIOUS
        <5>2. checks[c] \in Row
          BY DEF DomainsTypeOK
        <5> HIDE DEF Row
        <5>3. [checks[c] EXCEPT !.pc = "save", !.status = st] \in Row
          BY <5>1, <5>2
        <5> QED
          BY <5>3 DEF Row
      <4> QED
        BY <4>1, Zenon
    <3> QED
      BY <2>3, <3>1
  <2> QED
    BY <1>7, <2>2, <2>4 DEF CheckFetches
<1>8. ASSUME NEW c \in Check, CheckSaves(c) PROVE DomainsTypeOK'
  <2>1. domain' \in Domain
    BY <1>8, DomainRows DEF CheckSaves, linkDomainUpdate
  <2> QED
    BY <1>8, <2>1 DEF CheckSaves, NoCheck
<1>9. CASE HostChanges
  BY <1>9 DEF HostChanges
<1>10. CASE UNCHANGED domainsVars
  BY <1>10 DEF domainsVars
<1> QED
  BY <1>1, <1>2, <1>3, <1>4, <1>5, <1>6, <1>7, <1>8, <1>9, <1>10 DEF DomainsNext

LEMMA LinkStep == DomainsTypeOK /\ ILink /\ [DomainsNext]_domainsVars => ILink'
<1> SUFFICES ASSUME DomainsTypeOK, ILink, [DomainsNext]_domainsVars PROVE ILink'
  OBVIOUS
<1> USE DomainsAssumption DEF ILink, Sound, LinkProven, linkUsed
<1>1. CASE AddDomain
  BY <1>1 DEF AddDomain, NewDomain, DomainsTypeOK
<1>2. CASE EditDomainReads
  BY <1>2 DEF EditDomainReads, NoEdit
<1>3. CASE EditDomainWrites
  <2>1. CASE domain.id = edit.id
    <3>1. /\ domain'.id = domain.id /\ domain'.linkDomainStatus = "PENDING"
          /\ domain'.linkDomain = edit.linkDomain
      BY <1>3, <2>1 DEF EditDomainWrites, NewHost, DomainsTypeOK, Domain
    <3>2. \A c \in Check : checks[c].id = domain.id => c \in overtaken'
      BY <1>3, <2>1 DEF EditDomainWrites
    <3> QED
      BY <1>3, <3>1, <3>2 DEF EditDomainWrites, NoEdit
  <2>2. CASE domain.id # edit.id
    BY <1>3, <2>2 DEF EditDomainWrites, NoEdit
  <2> QED
    BY <2>1, <2>2
<1>4. CASE AddsMailbox \/ RemovesMailboxes
  BY <1>4 DEF AddsMailbox, RemovesMailboxes, DomainsTypeOK, Domain
<1>5. CASE RemoveDomainReads \/ RemoveDomainWrites
  BY <1>5 DEF RemoveDomainReads, RemoveDomainWrites, NewDomain
<1>6. ASSUME NEW c \in Check, CheckReads(c) PROVE ILink'
  BY <1>6 DEF CheckReads, DomainsTypeOK
<1>7. ASSUME NEW c \in Check, CheckFetches(c) PROVE ILink'
  BY <1>7 DEF CheckFetches, DomainsTypeOK
<1>8. ASSUME NEW c \in Check, CheckSaves(c) PROVE ILink'
  BY <1>8 DEF CheckSaves, linkDomainUpdate, NoCheck, DomainsTypeOK, Domain, Check
<1>9. CASE HostChanges
  BY <1>9 DEF HostChanges
<1>10. CASE UNCHANGED domainsVars
  BY <1>10 DEF domainsVars
<1> QED
  BY <1>1, <1>2, <1>3, <1>4, <1>5, <1>6, <1>7, <1>8, <1>9, <1>10 DEF DomainsNext

(* A link domain is used only after a check has reached the install through *)
(* it, however many checks, edits and removals cross, but for the one race  *)
(* LinkProven names.                                                        *)
THEOREM LinkIsProven == DomainsSpec => []LinkProven
<1>1. DomainsInit => DomainsTypeOK /\ ILink
  BY DomainsAssumption
     DEF DomainsInit, DomainsTypeOK, Domain, NewDomain, NoEdit, NoCheck, ILink, Sound,
         LinkProven, linkUsed
<1>2. ILink => LinkProven
  BY DEF ILink
<1> QED
  BY <1>1, <1>2, DomainsTypes, LinkStep, PTL DEF DomainsSpec

-----------------------------------------------------------------------------
(* Lookalikes.                                                              *)

\* a candidate two scans hold is doubled; one that only one scan holds and that
\* is registered by now has its alert still to come
Alone(d) ==
  d \notin doubled =>
    /\ \A s, o \in Scan : d \in scans[s].todo /\ d \in scans[o].todo => s = o
    /\ \A s \in Scan : d \in scans[s].todo /\ lookalikes[d] = "registered" =>
         scans[s].pc = "alert" /\ scans[s].candidate = d /\ alerts[d] = 0

\* an alert is about a candidate of the scan that was saved as registered
Pending(s) ==
  IF scans[s].pc = "alert"
  THEN /\ scans[s].candidate \in Candidate
       /\ scans[s].candidate \in scans[s].todo
       /\ lookalikes[scans[s].candidate] = "registered"
  ELSE scans[s].candidate = "none"

IAlert ==
  /\ \A d \in Candidate : Alone(d)
  /\ \A s \in Scan : Pending(s)
  /\ AlertedOnce

LEMMA LookalikesTypes ==
  LookalikesTypeOK /\ IAlert /\ [LookalikesNext]_lookalikesVars => LookalikesTypeOK'
<1> SUFFICES ASSUME LookalikesTypeOK, IAlert, [LookalikesNext]_lookalikesVars PROVE LookalikesTypeOK'
  OBVIOUS
<1> USE LookalikesAssumption DEF LookalikesTypeOK
<1>1. ASSUME NEW s \in Scan, ScanCounts(s) PROVE LookalikesTypeOK'
  BY <1>1 DEF ScanCounts, NoScan
<1>2. ASSUME NEW s \in Scan, ScanLoads(s) PROVE LookalikesTypeOK'
  <2>1. PICK rows \in [Candidate -> Rows] :
          /\ lookalikes' = rows
          /\ scans' = [scans EXCEPT ![s].pc = "check", ![s].todo = Unregistered(rows)]
    BY <1>2 DEF ScanLoads, Rows
  <2>2. Unregistered(rows) \in SUBSET Candidate
    BY DEF Unregistered
  <2>3. doubled' \subseteq Candidate
    <3>1. doubled' \subseteq doubled \cup scans'[s].todo
      BY <1>2 DEF ScanLoads
    <3> QED
      BY <2>1, <2>2, <3>1
  <2>4. \A T \in SUBSET Candidate : [scans EXCEPT ![s].pc = "check", ![s].todo = T] \in
          [Scan -> [pc : {"none", "load", "check", "alert"}, empty : BOOLEAN,
                    todo : SUBSET Candidate, candidate : Candidate \cup {"none"}]]
    OBVIOUS
  <2> QED
    <3>1. taken' = taken /\ alerts' = alerts /\ lost' = lost
      BY <1>2 DEF ScanLoads
    <3>2. scans' \in [Scan -> [pc : {"none", "load", "check", "alert"}, empty : BOOLEAN,
                              todo : SUBSET Candidate, candidate : Candidate \cup {"none"}]]
      BY <2>1, <2>2, <2>4
    <3> QED
      BY <2>1, <2>3, <3>1, <3>2
<1>3. ASSUME NEW s \in Scan, ScanAlerts(s) PROVE LookalikesTypeOK'
  <2>1. scans[s].candidate \in Candidate
    BY <1>3 DEF ScanAlerts, IAlert, Pending
  <2>2. alerts' \in [Candidate -> 0..MaxAlerts]
    BY <1>3, <2>1 DEF ScanAlerts
  <2> QED
    <3>1. \A T \in SUBSET Candidate :
            [scans EXCEPT ![s].pc = "check", ![s].candidate = "none", ![s].todo = T] \in
              [Scan -> [pc : {"none", "load", "check", "alert"}, empty : BOOLEAN,
                        todo : SUBSET Candidate, candidate : Candidate \cup {"none"}]]
      <4>1. ASSUME NEW T \in SUBSET Candidate
            PROVE  [scans[s] EXCEPT !.pc = "check", !.candidate = "none", !.todo = T] \in
                     [pc : {"none", "load", "check", "alert"}, empty : BOOLEAN,
                      todo : SUBSET Candidate, candidate : Candidate \cup {"none"}]
        OBVIOUS
      <4> QED
        BY <4>1, Zenon
    <3>2. scans' = [scans EXCEPT ![s].pc = "check", ![s].candidate = "none",
                                 ![s].todo = scans[s].todo \ {scans[s].candidate}]
      BY <1>3 DEF ScanAlerts
    <3>3. scans[s].todo \ {scans[s].candidate} \in SUBSET Candidate
      OBVIOUS
    <3>4. lookalikes' = lookalikes /\ taken' = taken /\ lost' = lost /\ doubled' = doubled
      BY <1>3 DEF ScanAlerts
    <3> QED
      BY <2>2, <3>1, <3>2, <3>3, <3>4
<1>4. ASSUME NEW s \in Scan, ScanDies(s) PROVE LookalikesTypeOK'
  BY <1>4 DEF ScanDies, NoScan, IAlert, Pending
<1>5. ASSUME NEW s \in Scan, ScanEnds(s) PROVE LookalikesTypeOK'
  BY <1>5 DEF ScanEnds, NoScan
<1>6. ASSUME NEW s \in Scan, NEW d \in Candidate, ScanFindsOpen(s, d) \/ ScanFindsTaken(s, d)
      PROVE LookalikesTypeOK'
  BY <1>6 DEF ScanFindsOpen, ScanFindsTaken, Rows
<1>7. CASE \E d \in Candidate : SomeoneRegisters(d)
  BY <1>7 DEF SomeoneRegisters
<1>8. CASE UNCHANGED lookalikesVars
  BY <1>8 DEF lookalikesVars
<1> QED
  BY <1>1, <1>2, <1>3, <1>4, <1>5, <1>6, <1>7, <1>8 DEF LookalikesNext

LEMMA AlertStep ==
  LookalikesTypeOK /\ IAlert /\ [LookalikesNext]_lookalikesVars => IAlert'
<1> SUFFICES ASSUME LookalikesTypeOK, IAlert, [LookalikesNext]_lookalikesVars PROVE IAlert'
  OBVIOUS
<1> USE LookalikesAssumption DEF LookalikesTypeOK, IAlert, Alone, Pending, AlertedOnce
<1>1. ASSUME NEW s \in Scan, ScanCounts(s) PROVE IAlert'
  BY <1>1 DEF ScanCounts, NoScan
<1>2. ASSUME NEW s \in Scan, ScanLoads(s) PROVE IAlert'
  <2>1. \A d \in Candidate : lookalikes'[d] = "registered" <=> lookalikes[d] = "registered"
    BY <1>2 DEF ScanLoads, Unregistered, Rows
  <2>2. /\ \A d \in scans'[s].todo : lookalikes'[d] # "registered"
        /\ scans'[s].pc = "check" /\ scans'[s].candidate = scans[s].candidate
        /\ scans[s].pc = "load"
        /\ \A o \in Scan \ {s} : scans'[o] = scans[o]
    BY <1>2 DEF ScanLoads, Unregistered, Rows
  <2>3. /\ alerts' = alerts /\ lost' = lost /\ doubled \subseteq doubled'
        /\ \A d \in scans'[s].todo, o \in Scan \ {s} : d \in scans[o].todo => d \in doubled'
    BY <1>2 DEF ScanLoads, Unregistered
  <2>4. \A t \in Scan : Pending(t)'
    BY <2>1, <2>2
  <2>5. ASSUME NEW d \in Candidate PROVE Alone(d)'
    BY <2>1, <2>2, <2>3
  <2>6. AlertedOnce'
    BY <2>1, <2>2, <2>3
  <2> QED
    BY <2>4, <2>5, <2>6
<1>3. ASSUME NEW s \in Scan, ScanAlerts(s) PROVE IAlert'
  <2> DEFINE c == scans[s].candidate
  <2>1. c \in Candidate /\ c \in scans[s].todo /\ lookalikes[c] = "registered" /\ scans[s].pc = "alert"
    BY <1>3 DEF ScanAlerts
  <2>2. /\ alerts'[c] = alerts[c] + 1 /\ alerts[c] \in Nat
        /\ \A d \in Candidate \ {c} : alerts'[d] = alerts[d]
    BY <1>3, <2>1 DEF ScanAlerts
  <2>3. /\ scans'[s].pc = "check" /\ scans'[s].candidate = "none"
        /\ scans'[s].todo = scans[s].todo \ {c}
        /\ \A o \in Scan \ {s} : scans'[o] = scans[o]
    BY <1>3 DEF ScanAlerts
  <2>4. lookalikes' = lookalikes /\ lost' = lost /\ doubled' = doubled
    BY <1>3 DEF ScanAlerts
  <2> HIDE DEF c
  <2>5. \A t \in Scan : Pending(t)'
    BY <2>3, <2>4
  <2>6. ASSUME NEW d \in Candidate PROVE Alone(d)'
    BY <2>1, <2>2, <2>3, <2>4 DEF c
  <2>7. ASSUME NEW d \in Candidate, alerts'[d] > 1 PROVE d \in doubled'
    BY <2>1, <2>2, <2>4, <2>7 DEF c
  <2>8. ASSUME NEW d \in Candidate
        PROVE  /\ alerts'[d] > 0 => lookalikes'[d] = "registered"
               /\ lookalikes'[d] = "registered" =>
                    alerts'[d] > 0 \/ d \in lost' \/ \E t \in Scan : scans'[t].candidate = d
    BY <2>1, <2>2, <2>3, <2>4 DEF c
  <2> QED
    BY <2>5, <2>6, <2>7, <2>8
<1>4. ASSUME NEW s \in Scan, ScanDies(s) PROVE IAlert'
  BY <1>4 DEF ScanDies, NoScan
<1>5. ASSUME NEW s \in Scan, ScanEnds(s) PROVE IAlert'
  BY <1>5 DEF ScanEnds, NoScan
<1>6. ASSUME NEW s \in Scan, NEW d \in Candidate, ScanFindsOpen(s, d) PROVE IAlert'
  BY <1>6 DEF ScanFindsOpen
<1>9. ASSUME NEW s \in Scan, NEW d \in Candidate, ScanFindsTaken(s, d) PROVE IAlert'
  BY <1>9 DEF ScanFindsTaken
<1>7. CASE \E d \in Candidate : SomeoneRegisters(d)
  BY <1>7 DEF SomeoneRegisters
<1>8. CASE UNCHANGED lookalikesVars
  BY <1>8 DEF lookalikesVars
<1> QED
  BY <1>1, <1>2, <1>3, <1>4, <1>5, <1>6, <1>7, <1>8, <1>9 DEF LookalikesNext

(* A registered look-alike is alerted about, and once, with any number of   *)
(* scans at a time, but where AlertedOnce names a lost alert or two scans.  *)
THEOREM AlertsComeOnce == LookalikesSpec => []AlertedOnce
<1>1. LookalikesInit => LookalikesTypeOK /\ IAlert
  BY LookalikesAssumption
     DEF LookalikesInit, LookalikesTypeOK, Rows, NoScan, IAlert, Alone, Pending, AlertedOnce
<1>2. IAlert => AlertedOnce
  BY DEF IAlert
<1> QED
  BY <1>1, <1>2, LookalikesTypes, AlertStep, PTL DEF LookalikesSpec

-----------------------------------------------------------------------------
(* AddressCheck.                                                            *)

\* a job works for the lead as it is booked
Booked ==
  /\ IF addressee.status = "none"
     THEN job.pc = "none" /\ verdict = "none" /\ pre = NoAddress
     ELSE addressee.email \in Address
  /\ addressee.queuedJob => addressee.status = "QUEUED"
  /\ job.pc # "none" => addressee.status = "QUEUED" /\ job.email = addressee.email

\* what was found dead is dead
FoundDead ==
  moved \/ /\ addressee.status = "FAILED" \/ verdict = "invalid" \/ job.pc = "stop" =>
              kind[addressee.email] \in Dead
           /\ pre \in {NoAddress, addressee.email}

LEMMA ChecksAreRight ==
  ASSUME NEW k \in Kinds, NEW r \in checkAddress(k), r.verdict = "invalid"
  PROVE  k \in Dead
  BY DEF checkAddress, classifyRcpt, Replies, Refusal, Unclear, NotNow, Kinds, Dead

LEMMA UnbookedTypes ==
  ASSUME AddressCheckTypeOK, NEW st \in {"UNTOUCHED", "QUEUED", "FAILED", "CONTACTED"},
         NEW w \in BOOLEAN
  PROVE  Unbooked(st, w) \in [email : Address \cup {NoAddress}, queuedJob : BOOLEAN,
           waits : BOOLEAN, status : {"none", "UNTOUCHED", "QUEUED", "FAILED", "CONTACTED"}]
  BY DEF AddressCheckTypeOK, Unbooked

LEMMA AddressTypes ==
  AddressCheckTypeOK /\ Booked /\ [AddressCheckNext]_addressCheckVars => AddressCheckTypeOK'
<1> SUFFICES ASSUME AddressCheckTypeOK, Booked, [AddressCheckNext]_addressCheckVars
             PROVE  AddressCheckTypeOK'
  OBVIOUS
<1> USE AddressCheckAssumption DEF AddressCheckTypeOK
<1>0. \A k \in Kinds : \A r \in checkAddress(k) : r.verdict \in Verdict
  BY DEF checkAddress, classifyRcpt, Unclear, NotNow, Verdict
<1>1. CASE AddAddressee
  BY <1>1 DEF AddAddressee
<1>2. ASSUME NEW a \in Address, CorrectAddress(a) PROVE AddressCheckTypeOK'
  BY <1>2 DEF CorrectAddress
<1>3. CASE BookFirstEmail \/ RetryDue
  BY <1>3 DEF BookFirstEmail, RetryDue
<1>4. CASE PrecheckReads
  BY <1>4 DEF PrecheckReads
<1>5. CASE PrecheckSaves
  BY <1>0, <1>5 DEF PrecheckSaves
<1>6. CASE JobReleases
  <2>1. Unbooked("UNTOUCHED", addressee.waits) \in
          [email : Address \cup {NoAddress}, queuedJob : BOOLEAN, waits : BOOLEAN,
           status : {"none", "UNTOUCHED", "QUEUED", "FAILED", "CONTACTED"}]
    BY UnbookedTypes
  <2> QED
    BY <1>6, <2>1 DEF JobReleases
<1>7. CASE JobStarts \/ JobLooksUp
  BY <1>7 DEF JobStarts, JobLooksUp
<1>8. CASE JobAsks
  <2>1. PICK r \in checkAddress(kind[job.email]) : verdict' \in {verdict, r.verdict}
    BY <1>8 DEF JobAsks
  <2>2. job.email \in Address
    BY <1>8 DEF JobAsks, Booked, NoJob
  <2>3. verdict' \in Verdict \cup {"none"}
    BY <1>0, <2>1, <2>2
  <2>4. tries' \in {tries, tries + 1}
    BY <1>8 DEF JobAsks, takeUnknownRetry
  <2>5. \E p \in {"stop", "later", "send"} : job' = [job EXCEPT !.pc = p]
    BY <1>8 DEF JobAsks, takeUnknownRetry
  <2> QED
    BY <1>8, <2>3, <2>4, <2>5 DEF JobAsks
<1>9. CASE JobStops \/ JobWaits \/ JobSends
  <2>1. addressee' \in [email : Address \cup {NoAddress}, queuedJob : BOOLEAN, waits : BOOLEAN,
                         status : {"none", "UNTOUCHED", "QUEUED", "FAILED", "CONTACTED"}]
    <3>1. \E st \in {"UNTOUCHED", "QUEUED", "FAILED", "CONTACTED"}, w \in BOOLEAN :
            addressee' = Unbooked(st, w)
      BY <1>9 DEF JobStops, JobWaits, JobSends
    <3> QED
      BY <3>1, UnbookedTypes
  <2> QED
    <3>1. NoJob \in [pc : {"none", "saved", "ask", "stop", "later", "send"},
                     email : Address \cup {NoAddress}]
      BY DEF NoJob
    <3>2. job' = NoJob /\ UNCHANGED <<kind, verdict, tries, pre, spent, moved>>
      BY <1>9 DEF JobStops, JobWaits, JobSends
    <3> QED
      BY <2>1, <3>1, <3>2
<1>10. CASE VerdictExpires \/ TriesExpire
  BY <1>10 DEF VerdictExpires, TriesExpire
<1>11. CASE UNCHANGED addressCheckVars
  BY <1>11 DEF addressCheckVars
<1> QED
  BY <1>1, <1>2, <1>3, <1>4, <1>5, <1>6, <1>7, <1>8, <1>9, <1>10, <1>11
     DEF AddressCheckNext, JobStep

LEMMA DeadStep ==
  AddressCheckTypeOK /\ Booked /\ FoundDead /\ [AddressCheckNext]_addressCheckVars
    => Booked' /\ FoundDead'
<1> SUFFICES ASSUME AddressCheckTypeOK, Booked, FoundDead, [AddressCheckNext]_addressCheckVars
             PROVE  Booked' /\ FoundDead'
  OBVIOUS
<1> USE AddressCheckAssumption DEF Booked, FoundDead
<1>1. CASE AddAddressee
  BY <1>1 DEF AddAddressee, NoLead, NoJob, AddressCheckTypeOK
<1>2. ASSUME NEW a \in Address, CorrectAddress(a) PROVE Booked' /\ FoundDead'
  BY <1>2 DEF CorrectAddress, AddressCheckTypeOK
<1>3. CASE BookFirstEmail \/ RetryDue
  <2>1. CASE BookFirstEmail
    <3>1. /\ addressee'.email = addressee.email
          /\ addressee'.status = "QUEUED" /\ addressee.status \in {"UNTOUCHED", "QUEUED"}
      BY <2>1 DEF BookFirstEmail, AddressCheckTypeOK
    <3> QED
      BY <2>1, <3>1 DEF BookFirstEmail
  <2>2. CASE RetryDue
    BY <2>2 DEF RetryDue, AddressCheckTypeOK
  <2> QED
    BY <1>3, <2>1, <2>2
<1>4. CASE PrecheckReads
  BY <1>4 DEF PrecheckReads, NoLead
<1>5. CASE PrecheckSaves
  <2>1. verdict' = "invalid" => verdict = "invalid" \/ kind[pre] \in Dead \/ pre \notin Address
    BY <1>5, ChecksAreRight DEF PrecheckSaves, AddressCheckTypeOK
  <2> QED
    BY <1>5, <2>1 DEF PrecheckSaves, NoLead
<1>6. CASE JobReleases
  <2>1. /\ addressee'.email = addressee.email /\ job.pc = "none"
        /\ addressee'.queuedJob => addressee'.status = "QUEUED"
        /\ addressee'.status \in {addressee.status, "UNTOUCHED"}
        /\ addressee'.status = "UNTOUCHED" => addressee.status \in {"QUEUED", "UNTOUCHED"}
    BY <1>6 DEF JobReleases, Unbooked, NoJob, AddressCheckTypeOK
  <2> QED
    BY <1>6, <2>1 DEF JobReleases
<1>7. CASE JobStarts
  <2>1. /\ job'.email = addressee.email /\ job'.pc \in {"saved", "stop"}
        /\ job'.pc = "stop" => kind[addressee.email] = "junk"
    BY <1>7 DEF JobStarts
  <2>2. addressee.status = "QUEUED"
    BY <1>7 DEF JobStarts
  <2> QED
    BY <1>7, <2>1, <2>2 DEF JobStarts, Dead
<1>8. CASE JobLooksUp
  BY <1>8 DEF JobLooksUp, NoLead, NoJob, AddressCheckTypeOK
<1>9. CASE JobAsks
  BY <1>9, ChecksAreRight DEF JobAsks, takeUnknownRetry, NoLead, NoJob, AddressCheckTypeOK
<1>10. CASE JobStops \/ JobWaits \/ JobSends
  <2>1. /\ addressee'.email = addressee.email /\ addressee.status = "QUEUED"
        /\ addressee'.status \in {"QUEUED", "FAILED", "CONTACTED"}
        /\ addressee'.status = "FAILED" => job.pc = "stop"
        /\ ~addressee'.queuedJob
    BY <1>10 DEF JobStops, JobWaits, JobSends, Unbooked, AddressCheckTypeOK
  <2>2. job' = NoJob /\ UNCHANGED <<kind, verdict, tries, pre, spent, moved>>
    BY <1>10 DEF JobStops, JobWaits, JobSends
  <2>3. job'.pc = "none"
    BY <2>2 DEF NoJob
  <2> QED
    BY <2>1, <2>2, <2>3
<1>11. CASE VerdictExpires \/ TriesExpire
  BY <1>11 DEF VerdictExpires, TriesExpire
<1>12. CASE UNCHANGED addressCheckVars
  BY <1>12 DEF addressCheckVars
<1> QED
  BY <1>1, <1>2, <1>3, <1>4, <1>5, <1>6, <1>7, <1>8, <1>9, <1>10, <1>11, <1>12
     DEF AddressCheckNext, JobStep

(* Only a lead with a dead address is stopped, whatever the servers answer, *)
(* as long as the address was not changed after it was asked about.         *)
THEOREM TheStoppedAreDead == AddressCheckSpec => []DeadIsDead
<1>1. ASSUME AddressCheckInit PROVE AddressCheckTypeOK /\ Booked /\ FoundDead
  <2>1. kind \in [Address -> Kinds]
    BY <1>1 DEF AddressCheckInit, Kinds
  <2>2. addressee = NoLead /\ job = NoJob /\ pre = NoAddress /\ verdict = "none" /\ tries = 0
    BY <1>1 DEF AddressCheckInit
  <2>3. /\ addressee \in [email : Address \cup {NoAddress}, queuedJob : BOOLEAN, waits : BOOLEAN,
                          status : {"none", "UNTOUCHED", "QUEUED", "FAILED", "CONTACTED"}]
        /\ job \in [pc : {"none", "saved", "ask", "stop", "later", "send"},
                    email : Address \cup {NoAddress}]
    BY <2>2 DEF NoLead, NoJob
  <2>4. spent \in [edits : 0..MaxEdits, releases : 0..MaxReleases, expiries : 0..MaxExpiries]
        /\ moved \in BOOLEAN
    <3>1. 0 \in 0..MaxEdits /\ 0 \in 0..MaxReleases /\ 0 \in 0..MaxExpiries
      BY AddressCheckAssumption
    <3> QED
      BY <1>1, <3>1 DEF AddressCheckInit
  <2>5. AddressCheckTypeOK
    BY <2>1, <2>2, <2>3, <2>4 DEF AddressCheckTypeOK
  <2>6. Booked /\ FoundDead
    BY <2>2 DEF Booked, FoundDead, NoLead, NoJob
  <2> QED
    BY <2>5, <2>6
<1>2. FoundDead => DeadIsDead
  BY DEF FoundDead, DeadIsDead, StoppedIsDead
<1> QED
  BY <1>1, <1>2, AddressTypes, DeadStep, PTL DEF AddressCheckSpec

-----------------------------------------------------------------------------
(* Connect.                                                                 *)

\* a row that holds a sign-in is a row, of a grant that was given
Given(r) ==
  /\ r.id = 0 => r = NoRow
  /\ r.token # 0 => r.connected # 0
  /\ r.connected <= grants

\* the grant of a tab about to save is new to the row, the calls and the cache
Fresh(t) ==
  tabs[t].pc = "save" =>
    LET g == tabs[t].grant IN
    /\ g \in 1..grants /\ row.connected # g
    /\ \A u \in Caller : cache[u][g] = 0 /\ users[u].row.connected # g
    /\ \A o \in Tab \ {t} : tabs[o].pc = "save" => tabs[o].grant # g

\* a call holds what a row held; the row is still that one unless another has its place
Holding(u) ==
  LET use == users[u] IN
  /\ Given(use.row)
  /\ use.pc # "none" =>
       /\ use.row.id # 0 /\ use.row.token # 0
       /\ row.id = use.row.id => row.connected # 0
  /\ use.pc \in {"rotate", "use"} => use.access # 0

\* what a call that nobody signed in over holds is all of one grant
OfOne(u) ==
  LET use == users[u] IN
  use.pc # "none" =>
    /\ use.row.token = use.row.connected
    /\ row.id = use.row.id => row.connected = use.row.connected
    /\ \A w \in Caller : cache[w][use.row.connected] \in {0, use.row.connected}
    /\ use.pc \in {"rotate", "use"} => use.access = use.row.connected

SignIns ==
  /\ Given(row)
  /\ \A t \in Tab : tabs[t].pc \in {"consent", "save"} => tabs[t].id # 0
  /\ \A t \in Tab : Fresh(t)
  /\ \A u \in Caller : Holding(u)
  /\ \A u \in Caller, g \in Grant : g > grants => cache[u][g] = 0

OneGrantKept ==
  ~crossed =>
    /\ row.token = row.connected
    /\ \A w \in Caller : row.connected # 0 => cache[w][row.connected] \in {0, row.connected}
    /\ \A u \in Caller : OfOne(u)

Trips == [pc : {"none", "consent", "save", "refused"}, id : 0..MaxRows, via : Via,
          grant : 0..MaxGrants]
Uses == [pc : {"none", "token", "rotate", "use"}, row : MailboxRow, access : 0..MaxGrants]

\* ConnectTypeOK in parts
LEMMA ConnectTyped ==
  ConnectTypeOK <=>
    /\ row \in MailboxRow /\ tabs \in [Tab -> Trips] /\ users \in [Caller -> Uses]
    /\ cache \in [Caller -> [Grant -> 0..MaxGrants]]
    /\ mode \in Via /\ crossed \in BOOLEAN
    /\ grants \in 0..MaxGrants /\ revoked \subseteq 1..grants
  BY DEF ConnectTypeOK, Trips, Uses

LEMMA RowRecords ==
  /\ NoRow \in MailboxRow
  /\ \A id \in 0..MaxRows : [NoRow EXCEPT !.id = id] \in MailboxRow
  /\ \A r \in MailboxRow, b \in BOOLEAN, g \in 0..MaxGrants :
       [r EXCEPT !.error = b] \in MailboxRow /\ [r EXCEPT !.token = g] \in MailboxRow
  /\ \A r \in MailboxRow, g \in 0..MaxGrants, v \in Via :
       [r EXCEPT !.connected = g, !.token = g, !.via = v, !.error = FALSE] \in MailboxRow
<1> USE ConnectAssumption DEF MailboxRow
<1>1. NoRow \in MailboxRow
  BY DEF NoRow, Via
<1>2. \A id \in 0..MaxRows : [NoRow EXCEPT !.id = id] \in MailboxRow
  BY <1>1
<1>3. ASSUME NEW r \in MailboxRow, NEW b \in BOOLEAN, NEW g \in 0..MaxGrants
      PROVE  [r EXCEPT !.error = b] \in MailboxRow /\ [r EXCEPT !.token = g] \in MailboxRow
  OBVIOUS
<1>4. ASSUME NEW r \in MailboxRow, NEW g \in 0..MaxGrants, NEW v \in Via
      PROVE  [r EXCEPT !.connected = g, !.token = g, !.via = v, !.error = FALSE] \in MailboxRow
  OBVIOUS
<1> QED
  BY <1>1, <1>2, <1>3, <1>4

LEMMA TripRecords ==
  /\ NoTab \in Trips
  /\ \A id \in 0..MaxRows, v \in Via : [pc |-> "consent", id |-> id, via |-> v, grant |-> 0] \in Trips
  /\ \A t \in Trips : [t EXCEPT !.pc = "refused"] \in Trips
  /\ \A t \in Trips, g \in 0..MaxGrants : [t EXCEPT !.pc = "save", !.grant = g] \in Trips
<1> USE ConnectAssumption DEF Trips
<1>1. NoTab \in Trips
  BY DEF NoTab, Via
<1>2. \A id \in 0..MaxRows, v \in Via :
        [pc |-> "consent", id |-> id, via |-> v, grant |-> 0] \in Trips
  OBVIOUS
<1>3. ASSUME NEW t \in Trips, NEW g \in 0..MaxGrants
      PROVE  [t EXCEPT !.pc = "refused"] \in Trips /\ [t EXCEPT !.pc = "save", !.grant = g] \in Trips
  OBVIOUS
<1> QED
  BY <1>1, <1>2, <1>3

LEMMA UseRecords ==
  /\ NoUse \in Uses
  /\ \A r \in MailboxRow : [NoUse EXCEPT !.pc = "token", !.row = r] \in Uses
  /\ \A u \in Uses : [u EXCEPT !.pc = "use"] \in Uses
  /\ \A u \in Uses, p \in {"rotate", "use"}, g \in 0..MaxGrants :
       [u EXCEPT !.pc = p, !.access = g] \in Uses
<1> USE ConnectAssumption DEF Uses
<1>1. NoUse \in Uses
  <2>1. NoRow \in MailboxRow
    BY RowRecords
  <2>2. 0 \in 0..MaxGrants
    OBVIOUS
  <2> QED
    BY <2>1, <2>2 DEF NoUse
<1>2. ASSUME NEW r \in MailboxRow PROVE [NoUse EXCEPT !.pc = "token", !.row = r] \in Uses
  BY <1>1
<1>3. ASSUME NEW u \in Uses, NEW p \in {"rotate", "use"}, NEW g \in 0..MaxGrants
      PROVE  [u EXCEPT !.pc = "use"] \in Uses /\ [u EXCEPT !.pc = p, !.access = g] \in Uses
  OBVIOUS
<1> QED
  BY <1>1, <1>2, <1>3

LEMMA ConnectTypes ==
  ConnectTypeOK /\ SignIns /\ [ConnectNext]_connectVars => ConnectTypeOK'
<1> SUFFICES ASSUME ConnectTypeOK, SignIns, [ConnectNext]_connectVars PROVE ConnectTypeOK'
  OBVIOUS
<1>0. /\ row \in MailboxRow /\ tabs \in [Tab -> Trips] /\ users \in [Caller -> Uses]
      /\ cache \in [Caller -> [Grant -> 0..MaxGrants]]
      /\ mode \in Via /\ crossed \in BOOLEAN
      /\ grants \in 0..MaxGrants /\ revoked \subseteq 1..grants
  BY ConnectTyped
<1> USE ConnectAssumption
<1>1. row' \in MailboxRow
  <2>1. CASE UNCHANGED row
    BY <1>0, <2>1
  <2>2. CASE AddMailbox
    <3>1. 1..MaxRows \subseteq 0..MaxRows
      OBVIOUS
    <3> QED
      BY <1>0, <2>2, <3>1, RowRecords DEF AddMailbox
  <2>3. CASE DeleteMailbox \/ \E t \in Tab : AuthorizeUnconfigured(t) \/ ConsentFails(t)
    BY <1>0, <2>3, RowRecords
       DEF DeleteMailbox, AuthorizeUnconfigured, ConsentFails, removeIfNeverConnected
  <2>4. ASSUME NEW t \in Tab, Save(t) PROVE row' \in MailboxRow
    <3>1. tabs[t].grant \in 0..MaxGrants /\ tabs[t].via \in Via
      BY <1>0 DEF Trips
    <3> QED
      <4>1. [row EXCEPT !.connected = tabs[t].grant, !.token = tabs[t].grant,
                        !.via = tabs[t].via, !.error = FALSE] \in MailboxRow
        BY <1>0, <3>1, RowRecords
      <4> QED
        BY <1>0, <2>4, <4>1, Zenon DEF Save
  <2>5. ASSUME NEW u \in Caller, Rotate(u) \/ Refused(u) \/ Accepted(u) PROVE row' \in MailboxRow
    <3>1. users[u].access \in 0..MaxGrants
      BY <1>0 DEF Uses
    <3> QED
      <4>1. /\ [row EXCEPT !.token = users[u].access] \in MailboxRow
            /\ [row EXCEPT !.error = TRUE] \in MailboxRow
            /\ [row EXCEPT !.error = FALSE] \in MailboxRow
        BY <1>0, <3>1, RowRecords
      <4> QED
        BY <1>0, <2>5, <4>1, Zenon DEF Rotate, Refused, Accepted
  <2> QED
    BY <2>1, <2>2, <2>3, <2>4, <2>5
       DEF ConnectNext, UseStep, Authorize, Abandon, Exchange, UseReads, CachedToken, Mint,
           Expires, Revoke, Configure, connectVars
<1>2. tabs' \in [Tab -> Trips]
  <2>1. CASE UNCHANGED tabs
    BY <1>0, <2>1
  <2>2. ASSUME NEW t \in Tab,
               Authorize(t) \/ AuthorizeUnconfigured(t) \/ ConsentFails(t) \/ Abandon(t)
               \/ Exchange(t) \/ Save(t)
        PROVE  tabs' \in [Tab -> Trips]
    <3>1. tabs[t] \in Trips /\ row.id \in 0..MaxRows
      BY <1>0 DEF MailboxRow
    <3>2. CASE Exchange(t)
      <4>1. grants + 1 \in 0..MaxGrants
        BY <1>0, <3>2 DEF Exchange
      <4>2. [tabs[t] EXCEPT !.pc = "save", !.grant = grants + 1] \in Trips
        BY <3>1, <4>1, TripRecords
      <4>3. tabs' = [tabs EXCEPT ![t] = [tabs[t] EXCEPT !.pc = "save", !.grant = grants + 1]]
        BY <3>2, Zenon DEF Exchange
      <4> QED
        BY <1>0, <4>2, <4>3
    <3>3. \E x \in Trips : tabs' = [tabs EXCEPT ![t] = x] \/ Exchange(t)
      BY <1>0, <2>2, <3>1, TripRecords
         DEF Authorize, AuthorizeUnconfigured, ConsentFails, Abandon, Save
    <3> QED
      BY <1>0, <3>2, <3>3
  <2> QED
    BY <2>1, <2>2
       DEF ConnectNext, UseStep, AddMailbox, DeleteMailbox, UseReads, CachedToken, Mint, Rotate,
           Refused, Accepted, Expires, Revoke, Configure, connectVars
<1>3. users' \in [Caller -> Uses]
  <2>1. CASE UNCHANGED users
    BY <1>0, <2>1
  <2>2. ASSUME NEW u \in Caller, UseStep(u) PROVE users' \in [Caller -> Uses]
    <3>1. users[u] \in Uses
      BY <1>0
    <3>2. users[u].row \in MailboxRow
      BY <3>1 DEF Uses
    <3>3. CASE CachedToken(u) \/ Mint(u)
      <4>1. CachedToken(u) => cache[u][Used(u).connected] \in 0..MaxGrants
        <5>1. CachedToken(u) => Used(u).connected \in Grant
          BY <3>2 DEF Used, MailboxRow, SignIns, Holding, Given, CachedToken, Grant
        <5> QED
          BY <1>0, <5>1
      <4>2. Used(u).token \in 0..MaxGrants
        BY <3>2 DEF Used, MailboxRow
      <4>3. \A p \in {"rotate", "use"}, g \in 0..MaxGrants :
              [users[u] EXCEPT !.pc = p, !.access = g] \in Uses
        BY <3>1, UseRecords
      <4>4. CASE CachedToken(u)
        <5>1. users' = [users EXCEPT ![u] =
                [users[u] EXCEPT !.pc = "use", !.access = cache[u][Used(u).connected]]]
          BY <4>4, Zenon DEF CachedToken
        <5> QED
          BY <1>0, <4>1, <4>3, <4>4, <5>1
      <4>5. CASE Mint(u)
        <5>1. PICK p \in {"rotate", "use"} : users' = [users EXCEPT ![u] =
                [users[u] EXCEPT !.pc = p, !.access = Used(u).token]]
          BY <4>5, Zenon DEF Mint
        <5> QED
          BY <1>0, <4>2, <4>3, <5>1
      <4> QED
        BY <3>3, <4>4, <4>5
    <3>4. CASE UseReads(u) \/ Rotate(u) \/ Refused(u) \/ Accepted(u)
      <4>1. \E x \in Uses : users' = [users EXCEPT ![u] = x]
        BY <1>0, <3>1, <3>4, UseRecords DEF UseReads, Rotate, Refused, Accepted, UseEnds
      <4> QED
        BY <1>0, <4>1
    <3> QED
      BY <2>2, <3>3, <3>4 DEF UseStep
  <2> QED
    BY <2>1, <2>2
       DEF ConnectNext, AddMailbox, DeleteMailbox, Authorize, AuthorizeUnconfigured, ConsentFails,
           Abandon, Exchange, Save, Expires, Revoke, Configure, connectVars
<1>4. cache' \in [Caller -> [Grant -> 0..MaxGrants]]
  <2>1. CASE UNCHANGED cache
    BY <1>0, <2>1
  <2>2. ASSUME NEW u \in Caller, Rotate(u) PROVE cache' \in [Caller -> [Grant -> 0..MaxGrants]]
    <3>1. users[u].access \in 0..MaxGrants
      BY <1>0 DEF Uses
    <3> QED
      BY <1>0, <2>2, <3>1 DEF Rotate
  <2>3. ASSUME NEW u \in Caller, NEW g \in Grant, Expires(u, g)
        PROVE  cache' \in [Caller -> [Grant -> 0..MaxGrants]]
    BY <1>0, <2>3 DEF Expires
  <2> QED
    BY <2>1, <2>2, <2>3
       DEF ConnectNext, UseStep, AddMailbox, DeleteMailbox, Authorize, AuthorizeUnconfigured,
           ConsentFails, Abandon, Exchange, Save, UseReads, CachedToken, Mint, Refused, Accepted,
           Revoke, Configure, connectVars, world
<1>5. /\ mode' \in Via /\ crossed' \in BOOLEAN
      /\ grants' \in 0..MaxGrants /\ revoked' \subseteq 1..grants'
  <2>1. CASE UNCHANGED <<mode, crossed, grants, revoked>>
    BY <1>0, <2>1
  <2>2. ASSUME NEW t \in Tab, Exchange(t) \/ Save(t) 
        PROVE  /\ mode' \in Via /\ crossed' \in BOOLEAN
               /\ grants' \in 0..MaxGrants /\ revoked' \subseteq 1..grants'
    <3>1. CASE Exchange(t)
      <4>1. grants' = grants + 1 /\ grants < MaxGrants /\ UNCHANGED <<mode, crossed, revoked>>
        BY <3>1 DEF Exchange
      <4> QED
        BY <1>0, <4>1
    <3>2. CASE Save(t)
      BY <1>0, <3>2 DEF Save, world
    <3> QED
      BY <2>2, <3>1, <3>2
  <2>3. CASE Configure \/ \E g \in Grant : Revoke(g)
    <3>1. CASE Configure
      BY <1>0, <3>1 DEF Configure
    <3>2. ASSUME NEW g \in Grant, Revoke(g)
          PROVE  /\ mode' = mode /\ crossed' = crossed /\ grants' = grants
                 /\ revoked' \subseteq 1..grants
      BY <1>0, <3>2 DEF Revoke, Grant
    <3> QED
      BY <1>0, <2>3, <3>1, <3>2
  <2> QED
    BY <2>1, <2>2, <2>3
       DEF ConnectNext, UseStep, AddMailbox, DeleteMailbox, Authorize, AuthorizeUnconfigured,
           ConsentFails, Abandon, UseReads, CachedToken, Mint, Rotate, Refused, Accepted,
           Expires, connectVars, world
<1> QED
  BY <1>1, <1>2, <1>3, <1>4, <1>5 DEF ConnectTypeOK, Trips, Uses

\* what the invariants look at, as each step leaves it
RowKept == row'.id = row.id /\ row'.connected = row.connected /\ row'.token = row.token

ConnectInv == ConnectTypeOK /\ SignIns /\ OneGrantKept

LEMMA AddStep == ConnectInv /\ AddMailbox => SignIns' /\ OneGrantKept'
<1> SUFFICES ASSUME ConnectInv, AddMailbox PROVE SignIns' /\ OneGrantKept'
  OBVIOUS
<1>1. tabs' = tabs /\ users' = users /\ cache' = cache /\ grants' = grants /\ crossed' = crossed
  BY DEF AddMailbox, world
<1>2. CASE row = NoRow
  <2>1. PICK id \in 1..MaxRows :
          /\ \A u \in Caller : users[u].row.id < id
          /\ row' = [NoRow EXCEPT !.id = id]
    BY <1>2 DEF AddMailbox
  <2>2. row'.id = id /\ row'.connected = 0 /\ row'.token = 0 /\ id # 0 /\ id \in Nat
    BY <2>1, ConnectAssumption DEF NoRow
  <2>3. \A u \in Caller : users[u].row.id \in Nat
    BY ConnectTyped DEF ConnectInv, Uses, MailboxRow
  <2>4. \A u \in Caller : row'.id # users[u].row.id
    BY <2>1, <2>2, <2>3
  <2>5. grants \in Nat
    BY DEF ConnectInv, ConnectTypeOK
  <2>6. SignIns'
    BY <1>1, <2>2, <2>4, <2>5 DEF ConnectInv, SignIns, Given, Fresh, Holding
  <2>7. OneGrantKept'
    BY <1>1, <2>2, <2>4 DEF ConnectInv, OneGrantKept, OfOne
  <2> QED
    BY <2>6, <2>7
<1>3. CASE row # NoRow
  <2>1. RowKept
    BY <1>3, ConnectTyped DEF AddMailbox, RowKept, MailboxRow, ConnectInv
  <2>2. row.id # 0
    BY <1>3 DEF ConnectInv, SignIns, Given
  <2>3. SignIns' /\ OneGrantKept'
    BY <1>1, <2>1, <2>2
       DEF ConnectInv, RowKept, SignIns, Given, Fresh, Holding, OneGrantKept, OfOne
  <2> QED
    BY <2>3
<1> QED
  BY <1>2, <1>3

\* a row that goes, or stays, and a tab that ends or begins nothing
LEMMA RemovalStep ==
  ASSUME ConnectInv, NEW t \in Tab, row' \in {row, NoRow},
         tabs' = tabs \/ \E x \in {NoTab, [tabs[t] EXCEPT !.pc = "refused"]} :
                           tabs' = [tabs EXCEPT ![t] = x],
         UNCHANGED <<users, cache, grants, crossed>>
  PROVE  SignIns' /\ OneGrantKept'
<1>1. \A o \in Tab : tabs'[o].pc \in {"consent", "save"} => tabs'[o] = tabs[o]
  BY ConnectTyped DEF ConnectInv, NoTab, Trips
<1>2. NoRow.id = 0 /\ NoRow.connected = 0 /\ NoRow.token = 0
  BY DEF NoRow
<1>3. grants \in Nat
  BY DEF ConnectInv, ConnectTypeOK
<1>4. SignIns'
  BY <1>1, <1>2, <1>3 DEF ConnectInv, SignIns, Given, Fresh, Holding
<1>5. OneGrantKept'
  BY <1>2 DEF ConnectInv, SignIns, Holding, OneGrantKept, OfOne
<1> QED
  BY <1>4, <1>5

LEMMA AuthorizeStep ==
  ASSUME ConnectInv, NEW t \in Tab, Authorize(t)
  PROVE  SignIns' /\ OneGrantKept'
<1>1. UNCHANGED <<row, users, cache, grants, crossed>>
  BY DEF Authorize, world
<1>2. /\ \A o \in Tab \ {t} : tabs'[o] = tabs[o]
      /\ tabs'[t].pc = "consent" /\ tabs'[t].id = row.id /\ row.id # 0
  BY ConnectTyped DEF Authorize, ConnectInv, SignIns, Given
<1>3. SignIns'
  BY <1>1, <1>2 DEF ConnectInv, SignIns, Given, Fresh, Holding
<1> QED
  BY <1>1, <1>3 DEF ConnectInv, OneGrantKept, OfOne

LEMMA ExchangeStep ==
  ASSUME ConnectInv, NEW t \in Tab, Exchange(t)
  PROVE  SignIns' /\ OneGrantKept'
<1>1. UNCHANGED <<row, users, cache, crossed>> /\ grants' = grants + 1
  BY DEF Exchange
<1>2. /\ \A o \in Tab \ {t} : tabs'[o] = tabs[o]
      /\ tabs'[t].pc = "save" /\ tabs'[t].id = tabs[t].id /\ tabs'[t].grant = grants'
      /\ tabs[t].pc = "consent"
  BY <1>1, ConnectTyped DEF Exchange, ConnectInv, Trips
<1>3. /\ grants \in Nat /\ grants' \in Grant
      /\ row.connected \in Nat /\ \A u \in Caller : users[u].row.connected \in Nat
  BY <1>1, ConnectTyped, ConnectAssumption DEF Exchange, ConnectInv, MailboxRow, Uses, Grant
<1>4. Given(row)' /\ \A u \in Caller : Holding(u)'
  BY <1>1, <1>3 DEF ConnectInv, SignIns, Given, Holding
<1>5. \A o \in Tab : Fresh(o)'
  <2>1. Fresh(t)'
    BY <1>1, <1>2, <1>3 DEF ConnectInv, SignIns, Given, Holding, Fresh
  <2>2. ASSUME NEW o \in Tab \ {t} PROVE Fresh(o)'
    BY <1>1, <1>2, <1>3 DEF ConnectInv, SignIns, Fresh
  <2> QED
    BY <2>1, <2>2
<1>6. \A u \in Caller, g \in Grant : g > grants' => cache'[u][g] = 0
  BY <1>1, <1>3 DEF ConnectInv, SignIns, Grant
<1> QED
  BY <1>1, <1>2, <1>4, <1>5, <1>6 DEF ConnectInv, SignIns, OneGrantKept, OfOne

LEMMA SaveStep ==
  ASSUME ConnectInv, NEW t \in Tab, Save(t)
  PROVE  SignIns' /\ OneGrantKept'
<1>1. UNCHANGED <<users, cache, grants>>
  BY DEF Save, world
<1>2. /\ tabs[t].pc = "save" /\ tabs'[t].pc = "none"
      /\ \A o \in Tab \ {t} : tabs'[o] = tabs[o]
  BY ConnectTyped DEF Save, ConnectInv, Trips, NoTab
<1>3. CASE row.id # tabs[t].id
  BY <1>1, <1>2, <1>3
     DEF Save, ConnectInv, SignIns, Given, Fresh, Holding, OneGrantKept, OfOne
<1>4. CASE row.id = tabs[t].id
  <2>1. /\ row'.id = row.id /\ row'.connected = tabs[t].grant /\ row'.token = tabs[t].grant
        /\ crossed' = \E u \in Caller : users[u].pc # "none"
    BY <1>4, ConnectTyped DEF Save, ConnectInv, MailboxRow
  <2>2. row.id # 0 /\ tabs[t].grant \in 1..grants /\ grants \in Nat
    BY <1>2, <1>4 DEF ConnectInv, SignIns, Fresh, ConnectTypeOK
  <2>3. Given(row)' /\ \A u \in Caller : Holding(u)'
    BY <1>1, <2>1, <2>2 DEF ConnectInv, SignIns, Given, Holding
  <2>4. \A o \in Tab : Fresh(o)'
    BY <1>1, <1>2, <2>1 DEF ConnectInv, SignIns, Fresh
  <2>5. SignIns'
    BY <1>1, <1>2, <2>3, <2>4 DEF ConnectInv, SignIns
  <2>6. OneGrantKept'
    BY <1>1, <1>2, <2>1 DEF ConnectInv, SignIns, Fresh, OneGrantKept, OfOne
  <2> QED
    BY <2>5, <2>6
<1> QED
  BY <1>3, <1>4

LEMMA ReadStep ==
  ASSUME ConnectInv, NEW u \in Caller, UseReads(u)
  PROVE  SignIns' /\ OneGrantKept'
<1>1. UNCHANGED <<row, tabs, cache, grants, crossed>> /\ row.token # 0
  BY DEF UseReads, world, hasSavedSignIn
<1>2. /\ \A o \in Caller \ {u} : users'[o] = users[o]
      /\ users'[u].pc = "token" /\ users'[u].row = row
  BY ConnectTyped DEF UseReads, ConnectInv, NoUse
<1>3. row.id # 0 /\ row.connected # 0
  BY <1>1 DEF ConnectInv, SignIns, Given, NoRow
<1>4. SignIns'
  BY <1>1, <1>2, <1>3 DEF ConnectInv, SignIns, Given, Fresh, Holding
<1> QED
  BY <1>1, <1>2, <1>3, <1>4 DEF ConnectInv, OneGrantKept, OfOne

LEMMA TokenStep ==
  ASSUME ConnectInv, NEW u \in Caller, CachedToken(u) \/ Mint(u)
  PROVE  SignIns' /\ OneGrantKept'
<1>1. UNCHANGED <<row, tabs, cache, grants, crossed>>
  BY DEF CachedToken, Mint, world
<1>2. /\ \A o \in Caller \ {u} : users'[o] = users[o]
      /\ users[u].pc = "token" /\ users'[u].pc # "none" /\ users'[u].row = users[u].row
      /\ \/ users'[u].access = cache[u][users[u].row.connected] /\ users'[u].access # 0
         \/ users'[u].access = users[u].row.token
  <2>1. users[u] \in Uses
    BY ConnectTyped DEF ConnectInv
  <2>2. CASE CachedToken(u)
    BY <2>1, <2>2, ConnectTyped DEF CachedToken, ConnectInv, Used, Uses
  <2>3. CASE Mint(u)
    BY <2>1, <2>3, ConnectTyped DEF Mint, ConnectInv, Used, Uses
  <2> QED
    BY <2>2, <2>3
<1>3. SignIns'
  BY <1>1, <1>2 DEF ConnectInv, SignIns, Given, Fresh, Holding
<1> QED
  BY <1>1, <1>2, <1>3 DEF ConnectInv, OneGrantKept, OfOne

LEMMA RotateStep ==
  ASSUME ConnectInv, NEW u \in Caller, Rotate(u)
  PROVE  SignIns' /\ OneGrantKept'
<1> DEFINE g == users[u].row.connected
           a == users[u].access
<1>1. UNCHANGED <<tabs, grants, crossed>>
  BY DEF Rotate
<1>2. /\ \A o \in Caller \ {u} : users'[o] = users[o]
      /\ users[u].pc = "rotate" /\ users'[u].pc = "use"
      /\ users'[u].row = users[u].row /\ users'[u].access = a
  BY ConnectTyped DEF Rotate, ConnectInv, Uses
<1>3. /\ g \in Grant /\ a # 0 /\ g <= grants /\ grants \in Nat
  BY <1>2, ConnectTyped, ConnectAssumption
     DEF ConnectInv, SignIns, Holding, Given, Uses, MailboxRow, Grant
<1>4. \A w \in Caller, h \in Grant :
        cache'[w][h] = IF w = u /\ h = g THEN a ELSE cache[w][h]
  BY <1>3, ConnectTyped DEF Rotate, Used, ConnectInv
<1>5. /\ row'.id = row.id /\ row'.connected = row.connected
      /\ \/ row'.token = row.token /\ row' = row
         \/ row'.token = a /\ row.id = users[u].row.id
  BY ConnectTyped DEF Rotate, Used, ConnectInv, MailboxRow
<1> HIDE DEF g, a
<1>6. \A w \in Caller : users'[w].row = users[w].row /\ users'[w].access = users[w].access
  BY <1>2 DEF a
<1>7. Given(row)'
  BY <1>1, <1>2, <1>5 DEF ConnectInv, SignIns, Given, Holding
<1>8. \A t \in Tab : Fresh(t)'
  <2>1. ASSUME NEW t \in Tab, tabs[t].pc = "save", Fresh(t) PROVE tabs[t].grant \in Grant \ {g}
    BY <2>1, <1>3, ConnectTyped, ConnectAssumption DEF Fresh, g, ConnectInv, Grant
  <2> QED
    BY <1>1, <1>4, <1>5, <1>6, <2>1 DEF ConnectInv, SignIns, Fresh
<1>9. \A w \in Caller : Holding(w)'
  BY <1>1, <1>2, <1>5, <1>6 DEF ConnectInv, SignIns, Holding, Given
<1>10. SignIns'
  <2>1. ASSUME NEW w \in Caller, NEW h \in Grant, h > grants PROVE cache'[w][h] = 0
    <3>1. h # g
      BY <1>3, <2>1 DEF Grant
    <3> QED
      BY <1>4, <2>1, <3>1 DEF ConnectInv, SignIns
  <2> QED
    BY <1>1, <1>7, <1>8, <1>9, <2>1 DEF ConnectInv, SignIns
<1>11. ASSUME ~crossed PROVE /\ row'.token = row'.connected
                             /\ \A w \in Caller : OfOne(w)'
                             /\ \A w \in Caller : row'.connected # 0 =>
                                  cache'[w][row'.connected] \in {0, row'.connected}
  <2>1. a = g /\ row.token = row.connected
    BY <1>2, <1>11 DEF ConnectInv, OneGrantKept, OfOne, a, g
  <2>2. row'.token = row'.connected
    BY <1>2, <1>5, <1>11, <2>1 DEF ConnectInv, OneGrantKept, OfOne, g
  <2>3. row.connected # 0 => row.connected \in Grant
    BY ConnectTyped DEF ConnectInv, MailboxRow, Grant
  <2>4. ASSUME NEW w \in Caller PROVE OfOne(w)'
    <3>1. users[w].pc # "none" => users[w].row.connected \in Grant
      BY ConnectTyped DEF ConnectInv, SignIns, Holding, Given, Uses, MailboxRow, Grant
    <3> QED
      BY <1>2, <1>4, <1>5, <1>6, <1>11, <2>1, <3>1 DEF ConnectInv, OneGrantKept, OfOne
  <2> QED
    BY <1>4, <1>5, <1>11, <2>1, <2>2, <2>3, <2>4 DEF ConnectInv, OneGrantKept
<1> QED
  BY <1>1, <1>10, <1>11 DEF OneGrantKept

LEMMA AnswerStep ==
  ASSUME ConnectInv, NEW u \in Caller, Refused(u) \/ Accepted(u)
  PROVE  SignIns' /\ OneGrantKept'
<1>1. UNCHANGED <<tabs, cache, grants, crossed>>
  BY DEF Refused, Accepted, world
<1>2. /\ \A o \in Caller \ {u} : users'[o] = users[o]
      /\ users[u].pc # "none" /\ users'[u] = NoUse
  BY ConnectTyped DEF Refused, Accepted, UseEnds, ConnectInv
<1>3. NoUse.pc = "none" /\ NoUse.row = NoRow /\ NoRow.connected = 0 /\ NoRow.token = 0
  BY DEF NoUse, NoRow
<1>4. RowKept /\ (row' = row \/ row.id = users[u].row.id)
  BY ConnectTyped DEF Refused, Accepted, Used, RowKept, ConnectInv, MailboxRow
<1>5. row' = row \/ row.id # 0
  BY <1>2, <1>4 DEF ConnectInv, SignIns, Holding
<1>6. grants \in Nat
  BY DEF ConnectInv, ConnectTypeOK
<1>7. SignIns'
  BY <1>1, <1>2, <1>3, <1>4, <1>5, <1>6
     DEF RowKept, ConnectInv, SignIns, Given, Fresh, Holding
<1> QED
  BY <1>1, <1>2, <1>3, <1>4, <1>7 DEF RowKept, ConnectInv, OneGrantKept, OfOne

LEMMA CacheStep ==
  ASSUME ConnectInv, NEW u \in Caller, NEW g \in Grant, Expires(u, g)
  PROVE  SignIns' /\ OneGrantKept'
<1>1. UNCHANGED <<row, tabs, users, grants, crossed>>
  BY DEF Expires
<1>2. \A w \in Caller, h \in Grant : cache'[w][h] \in {0, cache[w][h]}
  BY ConnectTyped DEF Expires, ConnectInv
<1>3. \A t \in Tab : tabs[t].pc = "save" => tabs[t].grant \in Grant
  BY ConnectTyped, ConnectAssumption DEF ConnectInv, SignIns, Fresh, Grant
<1>4. /\ row.connected # 0 => row.connected \in Grant
      /\ \A w \in Caller : users[w].pc # "none" => users[w].row.connected \in Grant
  BY ConnectTyped DEF ConnectInv, SignIns, Holding, Given, Uses, MailboxRow, Grant
<1>5. SignIns'
  BY <1>1, <1>2, <1>3 DEF ConnectInv, SignIns, Given, Fresh, Holding
<1> QED
  BY <1>1, <1>2, <1>4, <1>5 DEF ConnectInv, OneGrantKept, OfOne

LEMMA ConnectStep == ConnectInv /\ [ConnectNext]_connectVars => ConnectInv'
<1> SUFFICES ASSUME ConnectInv, [ConnectNext]_connectVars PROVE SignIns' /\ OneGrantKept'
  BY ConnectTypes DEF ConnectInv
<1>1. CASE UNCHANGED <<row, tabs, users, cache, grants, crossed>>
  BY <1>1 DEF ConnectInv, SignIns, Given, Fresh, Holding, OneGrantKept, OfOne
<1>2. CASE DeleteMailbox
  <2>1. CASE \E t \in Tab : TRUE
    BY <1>2, <2>1, RemovalStep DEF DeleteMailbox, world
  <2>2. CASE ~\E t \in Tab : TRUE
    BY <1>2, <2>2
       DEF DeleteMailbox, world, NoRow, ConnectInv, ConnectTypeOK, SignIns, Given, Fresh, Holding,
           OneGrantKept, OfOne
  <2> QED
    BY <2>1, <2>2
<1>3. ASSUME NEW t \in Tab, AuthorizeUnconfigured(t) \/ ConsentFails(t) \/ Abandon(t)
      PROVE  SignIns' /\ OneGrantKept'
  <2>1. /\ row' \in {row, NoRow} /\ UNCHANGED <<users, cache, grants, crossed>>
        /\ \E x \in {NoTab, [tabs[t] EXCEPT !.pc = "refused"]} : tabs' = [tabs EXCEPT ![t] = x]
    BY <1>3 DEF AuthorizeUnconfigured, ConsentFails, Abandon, removeIfNeverConnected, world
  <2> QED
    BY <2>1, RemovalStep
<1> QED
  BY <1>1, <1>2, <1>3, AddStep, AuthorizeStep, ExchangeStep, SaveStep, ReadStep, TokenStep,
     RotateStep, AnswerStep, CacheStep
     DEF ConnectNext, UseStep, Revoke, Configure, connectVars

LEMMA ConnectAlways == ConnectSpec => []ConnectInv
<1>1. ASSUME ConnectInit PROVE ConnectInv
  <2>1. ConnectTypeOK
    <3>1. NoTab \in Trips /\ NoUse \in Uses /\ NoRow \in MailboxRow
      BY RowRecords, TripRecords, UseRecords
    <3>2. 0 \in 0..MaxGrants
      BY ConnectAssumption
    <3> QED
      BY <1>1, <3>1, <3>2, ConnectTyped DEF ConnectInit
  <2>2. SignIns /\ OneGrantKept
    <3>1. /\ NoRow.connected = 0 /\ NoRow.token = 0 /\ NoTab.pc = "none"
          /\ NoUse.pc = "none" /\ NoUse.row = NoRow
      BY DEF NoRow, NoTab, NoUse
    <3>2. row = NoRow /\ (\A t \in Tab : tabs[t] = NoTab) /\ (\A u \in Caller : users[u] = NoUse)
          /\ grants = 0 /\ \A u \in Caller, g \in Grant : cache[u][g] = 0
      BY <1>1 DEF ConnectInit
    <3>3. SignIns
      BY <3>1, <3>2 DEF SignIns, Given, Fresh, Holding
    <3> QED
      BY <3>1, <3>2, <3>3 DEF OneGrantKept, OfOne
  <2> QED
    BY <2>1, <2>2 DEF ConnectInv
<1> QED
  BY <1>1, ConnectStep, PTL DEF ConnectSpec

(* A call never uses a token of a grant other than the one it read, and the *)
(* row never holds one of a grant other than its last, for any number of    *)
(* tabs, mailboxes and grants, unless the sign-in was saved over a call.    *)
THEOREM OneGrantAtATime == ConnectSpec => []OneGrant
<1>1. ConnectInv => OneGrant
  BY DEF ConnectInv, OneGrantKept, OfOne, OneGrant, Used
<1> QED
  BY <1>1, ConnectAlways, PTL

(* No reply of the provider, failed consent or late call removes a mailbox  *)
(* that holds a sign-in; it takes its owner, or a provider that is not set  *)
(* up.                                                                      *)
THEOREM SignInIsKept == ConnectSpec => SignInKept
<1> DEFINE Kept == hasSavedSignIn /\ row' = NoRow =>
                     DeleteMailbox \/ \E t \in Tab : AuthorizeUnconfigured(t)
<1>1. ASSUME ConnectInv, [ConnectNext]_connectVars PROVE [Kept]_connectVars
  <2>1. NoRow.token = 0
    BY DEF NoRow
  <2>2. SUFFICES ASSUME hasSavedSignIn, ConnectNext, row' = NoRow,
                        ~DeleteMailbox, ~\E t \in Tab : AuthorizeUnconfigured(t)
                 PROVE  FALSE
    BY <1>1
  <2>3. row.token # 0 /\ row'.token = 0
    BY <2>1, <2>2 DEF hasSavedSignIn
  <2>4. row' # row
    BY <2>3
  <2>5. ASSUME NEW t \in Tab, ConsentFails(t) PROVE FALSE
    BY <2>2, <2>4, <2>5 DEF ConsentFails, removeIfNeverConnected
  <2>6. ASSUME NEW t \in Tab, Save(t) PROVE FALSE
    <3>1. row'.token = row.token \/ row'.token = tabs[t].grant
      BY <1>1, <2>6, ConnectTyped DEF Save, ConnectInv, MailboxRow
    <3>2. tabs[t].grant # 0
      BY <1>1, <2>6, ConnectTyped DEF Save, ConnectInv, SignIns, Fresh
    <3> QED
      BY <2>3, <3>1, <3>2
  <2>7. ASSUME NEW u \in Caller, Rotate(u) \/ Refused(u) \/ Accepted(u) PROVE FALSE
    <3>1. row'.token = row.token \/ (row'.token = users[u].access /\ Rotate(u))
      <4>1. row \in MailboxRow
        BY <1>1, ConnectTyped DEF ConnectInv
      <4>2. CASE Rotate(u)
        BY <4>1, <4>2 DEF Rotate, MailboxRow
      <4>3. CASE Refused(u) \/ Accepted(u)
        <5>1. row' \in {row, [row EXCEPT !.error = TRUE], [row EXCEPT !.error = FALSE]}
          BY <4>3 DEF Refused, Accepted
        <5>2. \A r \in MailboxRow, b \in BOOLEAN : [r EXCEPT !.error = b].token = r.token
          BY DEF MailboxRow
        <5> QED
          BY <4>1, <5>1, <5>2
      <4> QED
        BY <2>7, <4>2, <4>3
    <3>2. Rotate(u) => users[u].access # 0
      BY <1>1 DEF Rotate, ConnectInv, SignIns, Holding
    <3> QED
      BY <2>3, <3>1, <3>2
  <2> QED
    BY <2>2, <2>4, <2>5, <2>6, <2>7
       DEF ConnectNext, UseStep, AddMailbox, Authorize, Abandon, Exchange, UseReads, CachedToken,
           Mint, Expires, Revoke, Configure
<1> QED
  BY <1>1, ConnectAlways, PTL DEF ConnectSpec, SignInKept

-----------------------------------------------------------------------------
(* Leads and the do-not-contact list.                                       *)
CallRecord ==
  [kind : {"none", "add", "edit", "erase", "unsubscribe", "book", "dispatch", "send"},
   campaign : Campaign \cup {"none"}, lead : 0..MaxLeads, email : Email \cup {Erased},
   todo : SUBSET (Email \cup 1..MaxLeads), keep : SUBSET Email, overtaken : SUBSET Email]

\* what a request goes by: its rows are few, its address is one, its lead is there
Sane(k) ==
  /\ IsFiniteSet(k.keep)
  /\ k.kind \in {"edit", "unsubscribe"} => k.email \in Email
  /\ k.kind \in {"edit", "book", "dispatch", "send"} => k.lead \in People
  /\ k.kind = "add" => k.campaign \in Campaign

\* a row without an address was erased or deleted, and a deleted one has none
Named(l) ==
  /\ people[l].email = Erased => people[l].erased \/ people[l].status = "deleted"
  /\ people[l].status = "deleted" => people[l].email = Erased

\* a request that may write what is listed, or erased, by now knows it was overtaken
Aware(k) ==
  /\ k.kind = "add" => \A e \in k.keep : e \in blocked => e \in k.overtaken
  /\ k.kind = "edit" /\ k.overtaken = {} =>
       /\ k.email \in blocked =>
            \/ k.lead \in raced \/ people[k.lead].status = "deleted"
            \/ people[k.lead].email = k.email
       /\ ~people[k.lead].erased
  /\ k.kind \in {"book", "dispatch", "send"} /\ k.overtaken = {} /\ Listed(k.lead) =>
       k.lead \in raced

IIngest ==
  /\ \A c \in Call : Sane(calls[c]) /\ Aware(calls[c])
  /\ \A l \in People : Named(l)
  /\ ListAgrees /\ ErasedStays

LEMMA IngestRecords ==
  ASSUME IngestTypeOK
  PROVE  /\ people \in Seq(Person) /\ People = 1..Len(people) /\ Len(people) \in 0..MaxLeads
         /\ \A l \in People : people[l] \in Person /\ l \in 1..MaxLeads
         /\ \A c \in Call : calls[c] \in CallRecord
         /\ calls \in [Call -> CallRecord]
         /\ blocked \subseteq Email /\ Erased \notin Email /\ MaxLeads \in Nat /\ MaxStarts \in Nat
<1>1. /\ people \in Seq(Person) /\ Len(people) <= MaxLeads /\ MaxLeads \in Nat
      /\ Erased \notin Email /\ MaxStarts \in Nat
  BY IngestAssumption DEF IngestTypeOK
<1>2. People = 1..Len(people) /\ Len(people) \in 0..MaxLeads
  BY <1>1, LenProperties DEF People
<1>3. \A l \in People : people[l] \in Person /\ l \in 1..MaxLeads
  BY <1>1, <1>2, ElementOfSeq
<1>4. calls \in [Call -> CallRecord] /\ blocked \subseteq Email
  BY DEF IngestTypeOK, CallRecord
<1> QED
  BY <1>1, <1>2, <1>3, <1>4

LEMMA IngestTypesAre ==
  ASSUME people' \in Seq(Person), Len(people') <= MaxLeads, blocked' \subseteq Email,
         calls' \in [Call -> CallRecord], starts' \in 0..MaxStarts, raced' \subseteq 1..MaxLeads
  PROVE  IngestTypeOK'
BY DEF IngestTypeOK, CallRecord

LEMMA NoCallIs ==
  /\ NoCall \in CallRecord /\ NoCall.kind = "none" /\ NoCall.keep = {} /\ NoCall.overtaken = {}
  /\ IsFiniteSet(NoCall.keep)
<1>1. NoCall \in CallRecord /\ NoCall.kind = "none" /\ NoCall.keep = {} /\ NoCall.overtaken = {}
  BY IngestAssumption DEF NoCall, CallRecord
<1> QED
  BY <1>1, FS_EmptySet

\* requests begin, go on and end
LEMMA CallsMove ==
  ASSUME IngestTypeOK, IIngest, UNCHANGED <<people, blocked, raced>>, starts' \in 0..MaxStarts,
         calls' \in [Call -> CallRecord],
         \A c \in Call : Sane(calls'[c]) /\ Aware(calls'[c])
  PROVE  IngestTypeOK' /\ IIngest'
<1>1. /\ people' \in Seq(Person) /\ Len(people') <= MaxLeads /\ blocked' \subseteq Email
      /\ raced' \subseteq 1..MaxLeads
  BY DEF IngestTypeOK
<1>2. IngestTypeOK'
  BY <1>1, IngestTypesAre
<1>3. People' = People
  BY DEF People
<1>4. /\ \A c \in Call : Sane(calls[c])' /\ Aware(calls[c])'
      /\ \A l \in People' : Named(l)'
      /\ ListAgrees' /\ ErasedStays'
  BY <1>3 DEF IIngest, Sane, Aware, Named, ListAgrees, Listed, ErasedStays
<1> QED
  BY <1>2, <1>4 DEF IIngest

LEMMA OneCallMoves ==
  ASSUME IngestTypeOK, IIngest, UNCHANGED <<people, blocked, raced>>, starts' \in 0..MaxStarts,
         NEW c \in Call, NEW k \in CallRecord, Sane(k), Aware(k),
         calls' = [calls EXCEPT ![c] = k]
  PROVE  IngestTypeOK' /\ IIngest'
<1>1. calls \in [Call -> CallRecord]
  BY IngestRecords
<1>2. calls' \in [Call -> CallRecord]
  BY <1>1
<1>3. \A d \in Call : calls'[d] = IF d = c THEN k ELSE calls[d]
  BY <1>1
<1>4. \A d \in Call : Sane(calls'[d]) /\ Aware(calls'[d])
  BY <1>3 DEF IIngest
<1> QED
  BY <1>2, <1>4, CallsMove

LEMMA NoCallIsSafe == Sane(NoCall) /\ Aware(NoCall)
BY NoCallIs DEF Sane, Aware

LEMMA ACallBegins ==
  ASSUME IngestTypeOK, IIngest, NEW c \in Call, NEW k \in CallRecord, Sane(k), Aware(k),
         Begins(c, k)
  PROVE  IngestTypeOK' /\ IIngest'
<1>1. starts' \in 0..MaxStarts
  BY IngestAssumption DEF Begins, IngestTypeOK
<1> QED
  BY <1>1, OneCallMoves DEF Begins

LEMMA ACallEnds ==
  ASSUME IngestTypeOK, IIngest, NEW c \in Call, CallEnds(c),
         UNCHANGED <<people, blocked, starts, raced>>
  PROVE  IngestTypeOK' /\ IIngest'
<1>1. starts' \in 0..MaxStarts
  BY DEF IngestTypeOK
<1> QED
  BY <1>1, OneCallMoves, NoCallIs, NoCallIsSafe DEF CallEnds

LEMMA AddBegins ==
  ASSUME IngestTypeOK, IIngest, NEW c \in Call, NEW g \in Campaign, NEW rows \in SUBSET Email,
         AddStarts(c, g, rows)
  PROVE  IngestTypeOK' /\ IIngest'
<1> DEFINE k == [NoCall EXCEPT !.kind = "add", !.campaign = g, !.todo = rows]
<1>1. k \in CallRecord /\ k.kind = "add" /\ k.keep = {} /\ k.campaign = g
  BY NoCallIs DEF CallRecord
<1>2. Begins(c, k)
  BY DEF AddStarts
<1> HIDE DEF k
<1>3. Sane(k) /\ Aware(k)
  BY <1>1, FS_EmptySet DEF Sane, Aware
<1> QED
  BY <1>1, <1>2, <1>3, ACallBegins

LEMMA EditBegins ==
  ASSUME IngestTypeOK, IIngest, NEW c \in Call, NEW l \in People, NEW e \in Email,
         EditReads(c, l, e)
  PROVE  IngestTypeOK' /\ IIngest'
<1> DEFINE k == [NoCall EXCEPT !.kind = "edit", !.lead = l, !.email = e]
<1>1. l \in 0..MaxLeads
  BY IngestRecords
<1>2. k \in CallRecord /\ k.kind = "edit" /\ k.keep = {} /\ k.lead = l /\ k.email = e
  BY <1>1, NoCallIs DEF CallRecord
<1>3. Begins(c, k) /\ ~people[l].erased /\ (e # people[l].email => e \notin blocked)
  BY DEF EditReads
<1> HIDE DEF k
<1>4. Sane(k) /\ Aware(k)
  BY <1>2, <1>3, FS_EmptySet DEF Sane, Aware
<1> QED
  BY <1>2, <1>3, <1>4, ACallBegins

\* a row that is listed was written on an older look, or is not one to mail
LEMMA SenderBegins ==
  ASSUME IngestTypeOK, IIngest, NEW c \in Call, NEW l \in People,
         BookReads(c, l) \/ Dispatches(c, l)
  PROVE  IngestTypeOK' /\ IIngest'
<1>1. l \in 0..MaxLeads /\ people[l].email \in Email \cup {Erased}
  BY IngestRecords DEF Person
<1>2. people[l].status # "SUPPRESSED"
  BY DEF BookReads, Dispatches
<1>3. Listed(l) => l \in raced
  BY <1>2 DEF IIngest, ListAgrees
<1>4. CASE BookReads(c, l)
  <2> DEFINE k == [NoCall EXCEPT !.kind = "book", !.lead = l]
  <2>1. k \in CallRecord /\ k.kind = "book" /\ k.keep = {} /\ k.lead = l
    BY <1>1, NoCallIs DEF CallRecord
  <2>2. Begins(c, k)
    BY <1>4 DEF BookReads
  <2> HIDE DEF k
  <2>3. Sane(k) /\ Aware(k)
    BY <1>3, <2>1, FS_EmptySet DEF Sane, Aware
  <2> QED
    BY <2>1, <2>2, <2>3, ACallBegins
<1>5. CASE Dispatches(c, l)
  <2> DEFINE k == [NoCall EXCEPT !.kind = "dispatch", !.lead = l, !.email = people[l].email]
  <2>1. k \in CallRecord /\ k.kind = "dispatch" /\ k.keep = {} /\ k.lead = l
    BY <1>1, NoCallIs DEF CallRecord
  <2>2. Begins(c, k)
    BY <1>5 DEF Dispatches
  <2> HIDE DEF k
  <2>3. Sane(k) /\ Aware(k)
    BY <1>3, <2>1, FS_EmptySet DEF Sane, Aware
  <2> QED
    BY <2>1, <2>2, <2>3, ACallBegins
<1> QED
  BY <1>4, <1>5

LEMMA EraseBegins ==
  ASSUME IngestTypeOK, IIngest, NEW c \in Call, NEW e \in Email, EraseReads(c, e)
  PROVE  IngestTypeOK' /\ IIngest'
<1> DEFINE td == {l \in People : people[l].email = e /\ ~people[l].erased}
           k == [NoCall EXCEPT !.kind = "erase", !.todo = td]
<1>1. td \in SUBSET (Email \cup 1..MaxLeads) /\ Begins(c, k)
  BY IngestRecords DEF EraseReads
<1> HIDE DEF td
<1>2. k \in CallRecord /\ k.kind = "erase" /\ k.keep = {}
  BY <1>1, NoCallIs DEF CallRecord
<1> HIDE DEF k
<1>3. Sane(k) /\ Aware(k)
  BY <1>2, FS_EmptySet DEF Sane, Aware
<1> QED
  BY <1>1, <1>2, <1>3, ACallBegins

LEMMA UnsubscribeBegins ==
  ASSUME IngestTypeOK, IIngest, NEW c \in Call, NEW l \in People, UnsubscribeReads(c, l)
  PROVE  IngestTypeOK' /\ IIngest'
<1> DEFINE e == people[l].email
           k == [NoCall EXCEPT !.kind = "unsubscribe", !.email = e]
<1>1. e \in Email /\ Begins(c, k)
  BY IngestRecords DEF UnsubscribeReads, IIngest, Named, Person
<1> HIDE DEF e
<1>2. k \in CallRecord /\ k.kind = "unsubscribe" /\ k.keep = {} /\ k.email = e
  BY <1>1, NoCallIs DEF CallRecord
<1> HIDE DEF k
<1>3. Sane(k) /\ Aware(k)
  BY <1>1, <1>2, FS_EmptySet DEF Sane, Aware
<1> QED
  BY <1>1, <1>2, <1>3, ACallBegins

\* the look at the list is of that moment
LEMMA ARowIsChecked ==
  ASSUME IngestTypeOK, IIngest, NEW c \in Call, NEW e \in Email, AddChecks(c, e)
  PROVE  IngestTypeOK' /\ IIngest'
<1> DEFINE old == calls[c]
           kept == IF e \in blocked \/ isDuplicateLead(old.campaign, e) THEN old.keep
                   ELSE old.keep \cup {e}
           k == [old EXCEPT !.todo = @ \ {e}, !.keep = kept]
<1>1. old \in CallRecord /\ old.kind = "add" /\ Sane(old) /\ Aware(old)
  BY IngestRecords DEF AddChecks, IIngest
<1>2. calls' = [calls EXCEPT ![c] = k]
  BY Zenon DEF AddChecks
<1>3. UNCHANGED <<people, blocked, starts, raced>>
  BY DEF AddChecks
<1>4. /\ kept \subseteq Email /\ IsFiniteSet(kept)
      /\ \A x \in kept : x \in blocked => x \in old.overtaken
  <2>1. old.keep \subseteq Email /\ IsFiniteSet(old.keep) /\ IsFiniteSet(old.keep \cup {e})
    BY <1>1, FS_AddElement DEF CallRecord, Sane
  <2>2. \A x \in old.keep : x \in blocked => x \in old.overtaken
    BY <1>1 DEF Aware
  <2>3. kept = old.keep \/ (kept = old.keep \cup {e} /\ e \notin blocked)
    OBVIOUS
  <2> HIDE DEF kept
  <2> QED
    BY <2>1, <2>2, <2>3
<1> HIDE DEF kept
<1>5. /\ k \in CallRecord /\ k.kind = "add" /\ k.keep = kept /\ k.overtaken = old.overtaken
      /\ k.campaign = old.campaign
  <2> HIDE DEF old
  <2>1. old.todo \ {e} \in SUBSET (Email \cup 1..MaxLeads)
    BY <1>1 DEF CallRecord
  <2> QED
    BY <1>1, <1>4, <2>1 DEF CallRecord
<1> HIDE DEF k
<1>6. Sane(k) /\ Aware(k)
  BY <1>1, <1>4, <1>5 DEF Sane, Aware
<1>7. starts' \in 0..MaxStarts
  BY <1>3 DEF IngestTypeOK
<1> QED
  BY <1>2, <1>3, <1>5, <1>6, <1>7, OneCallMoves

LEMMA TheRestart ==
  ASSUME IngestTypeOK, IIngest, ApiRestarts \/ WorkerRestarts
  PROVE  IngestTypeOK' /\ IIngest'
<1>1. PICK kinds :
        /\ calls' = [c \in Call |-> IF calls[c].kind \in kinds THEN NoCall ELSE calls[c]]
        /\ UNCHANGED <<people, blocked, raced>> /\ starts' \in 0..MaxStarts
  BY DEF ApiRestarts, WorkerRestarts, Restarts, IngestTypeOK
<1>2. /\ calls' \in [Call -> CallRecord]
      /\ \A c \in Call : Sane(calls'[c]) /\ Aware(calls'[c])
  BY <1>1, NoCallIs, NoCallIsSafe, IngestRecords DEF IIngest
<1> QED
  BY <1>1, <1>2, CallsMove

-----------------------------------------------------------------------------
(* What the writes do to the rows.                                          *)
LEMMA OneRowChanges ==
  ASSUME IngestTypeOK, NEW l \in People, NEW x \in Person, people' = [people EXCEPT ![l] = x]
  PROVE  /\ people' \in Seq(Person) /\ Len(people') <= MaxLeads /\ People' = People
         /\ people'[l] = x /\ \A m \in People : m # l => people'[m] = people[m]
<1>1. people \in Seq(Person) /\ l \in 1..Len(people) /\ Len(people) <= MaxLeads
  BY IngestRecords DEF IngestTypeOK
<1>2. people' \in Seq(Person) /\ Len(people') = Len(people)
  BY <1>1, ExceptSeq
<1>3. people'[l] = x /\ \A m \in People : m # l => people'[m] = people[m]
  BY <1>1, IngestRecords
<1>4. People' = People
  BY <1>1 DEF People
<1> QED
  BY <1>1, <1>2, <1>3, <1>4

\* a row's standing
RowIsRight(l) ==
  /\ Named(l)
  /\ Listed(l) => people[l].status = "SUPPRESSED" \/ l \in raced
  /\ people[l].erased => people[l].email = Erased \/ l \in raced

LEMMA RowsAreRight ==
  IIngest <=> /\ \A c \in Call : Sane(calls[c]) /\ Aware(calls[c])
              /\ \A l \in People : RowIsRight(l)
BY DEF IIngest, RowIsRight, ListAgrees, ErasedStays

\* a step of the sender, or a deletion, on one row
LEMMA ARowMoves ==
  ASSUME IngestTypeOK, IIngest, NEW l \in People, NEW x \in Person,
         people' = [people EXCEPT ![l] = x], UNCHANGED <<blocked, starts>>,
         raced' \in {raced, raced \cup {l}}, calls' \in [Call -> CallRecord],
         \A c \in Call : calls'[c] \in {NoCall, calls[c]},
         x.status = "deleted" \/ (x.email = people[l].email /\ people[l].status # "deleted"),
         x.erased = people[l].erased, RowIsRight(l)'
  PROVE  IngestTypeOK' /\ IIngest'
<1>1. /\ people' \in Seq(Person) /\ Len(people') <= MaxLeads /\ People' = People
      /\ people'[l] = x /\ \A m \in People : m # l => people'[m] = people[m]
  BY OneRowChanges
<1>2. IngestTypeOK'
  <2>1. raced' \subseteq 1..MaxLeads /\ blocked' \subseteq Email /\ starts' \in 0..MaxStarts
    BY IngestRecords DEF IngestTypeOK
  <2> QED
    BY <1>1, <2>1, IngestTypesAre
<1>3. \A m \in People : m # l => RowIsRight(m)'
  BY <1>1, RowsAreRight DEF RowIsRight, Named, Listed
<1>4. \A m \in People :
        /\ people'[m].erased = people[m].erased
        /\ \/ people'[m].status = "deleted"
           \/ people'[m].email = people[m].email /\ people[m].status # "deleted"
        /\ m \in raced => m \in raced'
        /\ people'[m].status = "deleted" => people'[m].email = Erased
  <2>1. \A m \in People : m # l /\ people[m].status = "deleted" => people[m].email = Erased
    BY DEF IIngest, Named
  <2>2. people'[l].status = "deleted" => people'[l].email = Erased
    BY DEF RowIsRight, Named
  <2> QED
    BY <1>1, <2>1, <2>2
<1>5. ASSUME NEW c \in Call PROVE Sane(calls[c])' /\ Aware(calls[c])'
  <2>1. CASE calls'[c] = NoCall
    BY <2>1, NoCallIs DEF Sane, Aware
  <2>2. CASE calls'[c] = calls[c]
    <3>1. PICK k : k = calls[c] /\ Sane(k) /\ Aware(k)
      BY DEF IIngest
    <3>2. Sane(k)'
      BY <1>1, <3>1 DEF Sane
    <3>3. Erased \notin blocked
      BY IngestRecords
    <3>4. Aware(k)'
      BY <1>4, <3>1, <3>3 DEF Aware, Sane, Listed
    <3> QED
      BY <2>2, <3>1, <3>2, <3>4 DEF Sane, Aware
  <2> QED
    BY <2>1, <2>2
<1>6. \A m \in People' : RowIsRight(m)'
  BY <1>1, <1>3
<1>7. IIngest'
  BY <1>5, <1>6 DEF IIngest, RowIsRight, ListAgrees, ErasedStays
<1> QED
  BY <1>2, <1>7

LEMMA CallIsOver ==
  ASSUME IngestTypeOK, NEW c \in Call, CallEnds(c)
  PROVE  /\ calls' \in [Call -> CallRecord]
         /\ \A d \in Call : calls'[d] \in {NoCall, calls[d]}
BY NoCallIs, IngestRecords DEF CallEnds

\* a status is written by id, by a request that knows whether it was overtaken
LEMMA AStatusIsWritten ==
  ASSUME IngestTypeOK, IIngest, NEW c \in Call, calls[c].kind \in {"book", "send"},
         NEW status \in {"QUEUED", "CONTACTED", "SUPPRESSED", people[calls[c].lead].status},
         WritesStatus(c, status)
  PROVE  IngestTypeOK' /\ IIngest'
<1>1. PICK l \in People : l = calls[c].lead
  BY DEF IIngest, Sane
<1>2. /\ people[l] \in Person /\ RowIsRight(l) /\ Aware(calls[c])
      /\ UNCHANGED <<blocked, starts>> /\ CallEnds(c)
      /\ raced' = IF calls[c].overtaken # {} /\ status \notin {"SUPPRESSED", people[l].status}
                  THEN raced \cup {l} ELSE raced
      /\ people' = IF people[l].status = "deleted" THEN people
                   ELSE [people EXCEPT ![l].status = status]
  BY <1>1, IngestRecords, RowsAreRight DEF WritesStatus
<1>3. calls' \in [Call -> CallRecord] /\ \A d \in Call : calls'[d] \in {NoCall, calls[d]}
  BY <1>2, CallIsOver
<1> DEFINE x == IF people[l].status = "deleted" THEN people[l]
                ELSE [people[l] EXCEPT !.status = status]
<1>4. /\ x \in Person /\ x.email = people[l].email /\ x.erased = people[l].erased
      /\ x.status = IF people[l].status = "deleted" THEN "deleted" ELSE status
  BY <1>1, <1>2 DEF Person
<1>5. people' = [people EXCEPT ![l] = x]
  <2>1. CASE people[l].status = "deleted"
    <3>1. people = [people EXCEPT ![l] = people[l]]
      BY IngestRecords
    <3> QED
      BY <1>2, <2>1, <3>1
  <2>2. CASE people[l].status # "deleted"
    BY <1>2, <2>2, Zenon
  <2> QED
    BY <2>1, <2>2
<1> HIDE DEF x
<1>6. people'[l] = x
  BY <1>4, <1>5, OneRowChanges
<1>7. Listed(l) => status \in {"SUPPRESSED", people[l].status} \/ l \in raced'
  BY <1>1, <1>2 DEF Aware
<1>8. RowIsRight(l)'
  <2>1. people[l].status # "deleted" => status # "deleted"
    BY <1>1
  <2> QED
    BY <1>2, <1>4, <1>6, <1>7, <2>1 DEF RowIsRight, Named, Listed
<1>9. /\ raced' \in {raced, raced \cup {l}}
      /\ x.status = "deleted" \/ (x.email = people[l].email /\ people[l].status # "deleted")
  BY <1>2, <1>4
<1> QED
  BY <1>2, <1>3, <1>4, <1>5, <1>8, <1>9, ARowMoves

LEMMA TheSender ==
  ASSUME IngestTypeOK, IIngest, NEW l \in People, Release(l) \/ Delete(l)
  PROVE  IngestTypeOK' /\ IIngest'
<1>1. /\ people[l] \in Person /\ RowIsRight(l) /\ blocked \subseteq Email /\ Erased \notin Email
      /\ UNCHANGED <<blocked, calls, starts, raced>>
      /\ calls' \in [Call -> CallRecord] /\ \A c \in Call : calls'[c] \in {NoCall, calls[c]}
  BY IngestRecords, RowsAreRight DEF Release, Delete
<1>2. CASE Release(l)
  <2> DEFINE x == [people[l] EXCEPT !.status = "UNTOUCHED"]
  <2>1. /\ x \in Person /\ x.status = "UNTOUCHED" /\ x.email = people[l].email
        /\ x.erased = people[l].erased
    BY <1>1 DEF Person
  <2>2. people' = [people EXCEPT ![l] = x] /\ people[l].status = "QUEUED"
    BY <1>2, Zenon DEF Release
  <2> HIDE DEF x
  <2>3. people'[l] = x
    BY <2>1, <2>2, OneRowChanges
  <2>4. RowIsRight(l)'
    BY <1>1, <2>1, <2>2, <2>3 DEF RowIsRight, Named, Listed
  <2> QED
    BY <1>1, <2>1, <2>2, <2>4, ARowMoves
<1>3. CASE Delete(l)
  <2> DEFINE x == [people[l] EXCEPT !.status = "deleted", !.email = Erased]
  <2>1. /\ x \in Person /\ x.status = "deleted" /\ x.email = Erased
        /\ x.erased = people[l].erased
    BY <1>1 DEF Person
  <2>2. people' = [people EXCEPT ![l] = x]
    BY <1>3, Zenon DEF Delete
  <2> HIDE DEF x
  <2>3. people'[l] = x
    BY <2>1, <2>2, OneRowChanges
  <2>4. RowIsRight(l)'
    BY <1>1, <2>1, <2>2, <2>3 DEF RowIsRight, Named, Listed
  <2> QED
    BY <1>1, <2>1, <2>2, <2>4, ARowMoves
<1> QED
  BY <1>2, <1>3

\* the last look at the list: the row is stopped, or the send knows it is not listed
LEMMA TheLastLook ==
  ASSUME IngestTypeOK, IIngest, NEW c \in Call, SendLooks(c)
  PROVE  IngestTypeOK' /\ IIngest'
<1>1. PICK l \in People : l = calls[c].lead
  BY DEF SendLooks, IIngest, Sane
<1>2. /\ people[l] \in Person /\ RowIsRight(l) /\ Erased \notin blocked
      /\ UNCHANGED <<blocked, starts, raced>> /\ calls[c].kind = "dispatch"
  BY IngestRecords, RowsAreRight DEF SendLooks
<1>3. CASE calls[c].email \in blocked /\ people[l].status = "deleted"
  BY <1>1, <1>2, <1>3, ACallEnds DEF SendLooks
<1>4. CASE calls[c].email \in blocked /\ people[l].status # "deleted"
  <2> DEFINE x == [people[l] EXCEPT !.status = "SUPPRESSED"]
  <2>1. /\ x \in Person /\ x.status = "SUPPRESSED" /\ x.email = people[l].email
        /\ x.erased = people[l].erased
    BY <1>2 DEF Person
  <2>2. people' = [people EXCEPT ![l] = x] /\ CallEnds(c)
    BY <1>1, <1>4, Zenon DEF SendLooks
  <2> HIDE DEF x
  <2>3. people'[l] = x
    BY <2>1, <2>2, OneRowChanges
  <2>4. RowIsRight(l)'
    BY <1>2, <1>4, <2>1, <2>3 DEF RowIsRight, Named, Listed
  <2>5. calls' \in [Call -> CallRecord] /\ \A d \in Call : calls'[d] \in {NoCall, calls[d]}
    BY <2>2, CallIsOver
  <2> QED
    BY <1>2, <1>4, <2>1, <2>2, <2>4, <2>5, ARowMoves
<1>5. CASE calls[c].email \notin blocked
  <2> DEFINE old == calls[c]
             o == IF people[l].email = old.email THEN {} ELSE old.overtaken
             k == [old EXCEPT !.kind = "send", !.overtaken = o]
  <2>1. old \in CallRecord /\ old.kind = "dispatch" /\ old.lead = l /\ Sane(old) /\ Aware(old)
        /\ old.email \notin blocked
    BY <1>1, <1>2, <1>5, IngestRecords DEF IIngest
  <2>2. calls' = [calls EXCEPT ![c] = k] /\ UNCHANGED people
    BY <1>1, <1>5, Zenon DEF SendLooks
  <2> HIDE DEF old
  <2>3. o \in SUBSET Email
    BY <2>1 DEF CallRecord
  <2>4. o = {} => people[l].email = old.email \/ old.overtaken = {}
    OBVIOUS
  <2> HIDE DEF o
  <2>5. k \in CallRecord /\ k.kind = "send" /\ k.lead = l /\ k.overtaken = o /\ k.keep = old.keep
    BY <2>1, <2>3 DEF CallRecord
  <2> HIDE DEF k
  <2>6. Sane(k) /\ Aware(k)
    BY <2>1, <2>4, <2>5 DEF Sane, Aware, Listed
  <2>7. starts' \in 0..MaxStarts
    BY <1>2 DEF IngestTypeOK
  <2> QED
    BY <1>2, <2>2, <2>5, <2>6, <2>7, OneCallMoves
<1> QED
  BY <1>3, <1>4, <1>5

\* the list and the rows change in one transaction; requests that looked at the
\* address before are overtaken
LEMMA AnAddressIsListed ==
  ASSUME IngestTypeOK, IIngest, NEW e \in Email, blocked' = blocked \cup {e}, Listing(e),
         UNCHANGED <<starts, raced>>, calls' \in [Call -> CallRecord],
         \A c \in Call : calls'[c] = NoCall \/ calls'[c] = Overtake(calls, e)[c]
  PROVE  IngestTypeOK' /\ IIngest'
<1> DEFINE entry(l) == IF people[l].email = e
                     THEN [people[l] EXCEPT !.status = "SUPPRESSED"] ELSE people[l]
<1>1. /\ Erased \notin Email /\ people \in Seq(Person) /\ People = 1..Len(people)
      /\ Len(people) \in Nat
      /\ \A l \in People : people[l] \in Person
  BY IngestRecords DEF IngestTypeOK
<1>2. people' = [l \in People |-> entry(l)]
  BY DEF Listing
<1>3. \A l \in People : entry(l) \in Person
  BY <1>1 DEF Person
<1>4. \A l \in People : people'[l] = entry(l)
  BY <1>2
<1>5. \A l \in People : /\ entry(l).email = people[l].email /\ entry(l).erased = people[l].erased
                        /\ entry(l).status = IF people[l].email = e THEN "SUPPRESSED"
                                           ELSE people[l].status
  BY <1>1 DEF Person
<1> HIDE DEF entry
<1>6. people' \in Seq(Person) /\ Len(people') = Len(people) /\ People' = People
  <2>1. people' \in [1..Len(people) -> Person]
    BY <1>1, <1>2, <1>3
  <2>2. people' \in Seq(Person)
    BY <1>1, <2>1, SeqDef
  <2>3. Len(people') = Len(people)
    BY <1>1, <2>1, <2>2, LenProperties
  <2> QED
    BY <2>1, <2>2, <2>3, <1>1 DEF People
<1>7. IngestTypeOK'
  <2>1. Len(people') <= MaxLeads /\ starts' \in 0..MaxStarts /\ raced' \subseteq 1..MaxLeads
        /\ blocked' \subseteq Email
    BY <1>6 DEF IngestTypeOK
  <2> QED
    BY <1>6, <2>1, IngestTypesAre
<1>8. ASSUME NEW l \in People PROVE RowIsRight(l)'
  <2>1. RowIsRight(l) /\ people[l] \in Person
    BY <1>1, RowsAreRight
  <2>2. /\ people'[l].email = people[l].email /\ people'[l].erased = people[l].erased
        /\ people'[l].status = IF people[l].email = e THEN "SUPPRESSED" ELSE people[l].status
    BY <1>4, <1>5
  <2>3. Named(l)'
    BY <1>1, <2>1, <2>2 DEF RowIsRight, Named
  <2>4. Listed(l)' => people'[l].status = "SUPPRESSED" \/ l \in raced'
    BY <2>1, <2>2 DEF RowIsRight, Listed
  <2>5. people'[l].erased => people'[l].email = Erased \/ l \in raced'
    BY <2>1, <2>2 DEF RowIsRight
  <2> QED
    BY <2>3, <2>4, <2>5 DEF RowIsRight
<1>9. ASSUME NEW c \in Call PROVE Sane(calls[c])' /\ Aware(calls[c])'
  <2>1. calls[c] \in CallRecord /\ Sane(calls[c]) /\ Aware(calls[c])
    BY IngestRecords DEF IIngest
  <2>2. CASE calls'[c] = NoCall
    BY <2>2, NoCallIs DEF Sane, Aware
  <2>3. CASE calls'[c] = Overtake(calls, e)[c]
    <3> DEFINE known == \/ calls[c].kind \in {"add", "edit"} /\ e \in calls[c].keep \cup {calls[c].email}
                        \/ /\ calls[c].kind \in {"book", "dispatch", "send"}
                           /\ people[calls[c].lead].email = e
    <3>1. calls'[c] = IF known THEN [calls[c] EXCEPT !.overtaken = @ \cup {e}] ELSE calls[c]
      BY <2>3, Zenon DEF Overtake
    <3>2. PICK k : k = calls[c]
      OBVIOUS
    <3>3. PICK k2 : k2 = calls'[c]
      OBVIOUS
    <3>11. ~known => /\ ~(k.kind \in {"add", "edit"} /\ e \in k.keep \cup {k.email})
                     /\ ~(k.kind \in {"book", "dispatch", "send"} /\ people[k.lead].email = e)
      BY <3>2
    <3> HIDE DEF known
    <3>4. /\ k2.kind = k.kind /\ k2.keep = k.keep /\ k2.email = k.email /\ k2.lead = k.lead
          /\ k2.campaign = k.campaign
          /\ k2.overtaken = IF known THEN k.overtaken \cup {e} ELSE k.overtaken
      BY <2>1, <3>1, <3>2, <3>3 DEF CallRecord
    <3>5. Sane(k) /\ Aware(k)
      BY <2>1, <3>2
    <3>6. Sane(k2)'
      BY <1>6, <3>4, <3>5 DEF Sane
    <3>7. ASSUME k2.kind = "add", NEW x \in k2.keep, x \in blocked' PROVE x \in k2.overtaken
      <4>1. x \in k.keep /\ (x \in blocked => x \in k.overtaken)
        BY <3>4, <3>5, <3>7 DEF Aware
      <4> QED
        BY <3>11, <3>4, <3>7, <4>1
    <3>8. ASSUME k2.kind = "edit", k2.overtaken = {}
          PROVE  /\ k2.email \in blocked' =>
                      \/ k2.lead \in raced' \/ people'[k2.lead].status = "deleted"
                      \/ people'[k2.lead].email = k2.email
                 /\ ~people'[k2.lead].erased
      <4>1. k.kind = "edit" /\ k.overtaken = {} /\ k.email # e
        BY <3>11, <3>4, <3>8
      <4>2. k.lead \in People
        BY <3>5, <4>1 DEF Sane
      <4>3. people[k.lead].status = "deleted" => people[k.lead].email # e
        BY <1>1, <4>2 DEF IIngest, Named
      <4> QED
        BY <1>4, <1>5, <3>4, <3>5, <4>1, <4>2, <4>3 DEF Aware
    <3>10. ASSUME k2.kind \in {"book", "dispatch", "send"}, k2.overtaken = {}, Listed(k2.lead)'
           PROVE  k2.lead \in raced'
      <4>1. k.kind = k2.kind /\ k.overtaken = {} /\ people[k.lead].email # e
        BY <3>11, <3>4, <3>10
      <4>2. k.lead \in People
        BY <3>5, <3>10, <4>1 DEF Sane
      <4>3. Listed(k.lead)
        BY <1>4, <1>5, <3>4, <3>10, <4>1, <4>2 DEF Listed
      <4> QED
        BY <3>4, <3>5, <3>10, <4>1, <4>3 DEF Aware
    <3>9. Aware(k2)'
      BY <3>7, <3>8, <3>10 DEF Aware, Listed
    <3> QED
      BY <3>3, <3>6, <3>9 DEF Sane, Aware
  <2> QED
    BY <2>2, <2>3
<1>10. IIngest'
  BY <1>6, <1>8, <1>9 DEF IIngest, RowIsRight, ListAgrees, ErasedStays
<1> QED
  BY <1>7, <1>10

LEMMA Overtaken ==
  ASSUME IngestTypeOK, NEW e \in Email
  PROVE  Overtake(calls, e) \in [Call -> CallRecord]
<1>1. ASSUME NEW k \in CallRecord PROVE [k EXCEPT !.overtaken = @ \cup {e}] \in CallRecord
  <2> DEFINE o == k.overtaken \cup {e}
  <2>1. o \in SUBSET Email
    BY DEF CallRecord
  <2> HIDE DEF o
  <2>2. [k EXCEPT !.overtaken = o] \in CallRecord
    BY <2>1 DEF CallRecord
  <2> QED
    BY <2>2 DEF o
<1> QED
  BY <1>1, IngestRecords DEF Overtake

LEMMA Listings ==
  ASSUME IngestTypeOK, IIngest,
         (\E e \in Email : Suppress(e)) \/ (\E c \in Call : UnsubscribeWrites(c))
  PROVE  IngestTypeOK' /\ IIngest'
<1>1. ASSUME NEW e \in Email, Suppress(e) PROVE IngestTypeOK' /\ IIngest'
  BY <1>1, Overtaken, AnAddressIsListed DEF Suppress
<1>2. ASSUME NEW c \in Call, UnsubscribeWrites(c) PROVE IngestTypeOK' /\ IIngest'
  <2>1. PICK e \in Email : e = calls[c].email
    BY <1>2 DEF UnsubscribeWrites, IIngest, Sane
  <2>2. /\ blocked' = blocked \cup {e} /\ Listing(e) /\ UNCHANGED <<starts, raced>>
        /\ calls' = [Overtake(calls, e) EXCEPT ![c] = NoCall]
    BY <1>2, <2>1 DEF UnsubscribeWrites
  <2> DEFINE o == Overtake(calls, e)
  <2>3. o \in [Call -> CallRecord] /\ calls' = [o EXCEPT ![c] = NoCall]
    BY <2>2, Overtaken
  <2> HIDE DEF o
  <2>4. calls' \in [Call -> CallRecord] /\ \A d \in Call : calls'[d] = NoCall \/ calls'[d] = o[d]
    BY <2>3, NoCallIs
  <2>5. \A d \in Call : calls'[d] = NoCall \/ calls'[d] = Overtake(calls, e)[d]
    BY <2>4 DEF o
  <2> QED
    BY <2>2, <2>4, <2>5, AnAddressIsListed
<1> QED
  BY <1>1, <1>2

LEMMA AnAddressIsFreed ==
  ASSUME IngestTypeOK, IIngest, NEW e \in Email, Unsuppress(e)
  PROVE  IngestTypeOK' /\ IIngest'
<1>1. blocked' \subseteq blocked /\ UNCHANGED <<people, calls, starts, raced>> /\ People' = People
  BY DEF Unsuppress, People
<1>2. IngestTypeOK'
  BY <1>1 DEF IngestTypeOK
<1>3. IIngest'
  BY <1>1 DEF IIngest, Sane, Aware, Named, ListAgrees, Listed, ErasedStays
<1> QED
  BY <1>2, <1>3

\* a correction is written over the row, unless it was sent or deleted meanwhile
LEMMA ACorrection ==
  ASSUME IngestTypeOK, IIngest, NEW c \in Call, EditWrites(c)
  PROVE  IngestTypeOK' /\ IIngest'
<1>1. PICK l \in People : l = calls[c].lead
  BY DEF EditWrites, IIngest, Sane
<1>2. PICK e \in Email : e = calls[c].email
  BY DEF EditWrites, IIngest, Sane
<1>3. /\ calls' = [calls EXCEPT ![c] = NoCall] /\ UNCHANGED <<blocked, starts>>
      /\ calls[c].kind = "edit"
  BY DEF EditWrites, CallEnds
<1>4. /\ calls' \in [Call -> CallRecord]
      /\ \A d \in Call : calls'[d] = NoCall \/ calls'[d] = calls[d]
  BY <1>3, NoCallIs, IngestRecords
<1> DEFINE over == calls[c].overtaken
<1>5. \/ people' = people /\ raced' = raced
      \/ /\ people[l].status = "UNTOUCHED" /\ people' = [people EXCEPT ![l].email = e]
         /\ raced' = IF over # {} THEN raced \cup {l} ELSE raced
  BY <1>1, <1>2 DEF EditWrites
<1>6. CASE people' = people /\ raced' = raced
  <2>1. \A d \in Call : Sane(calls'[d]) /\ Aware(calls'[d])
    BY <1>4, NoCallIsSafe DEF IIngest
  <2>2. starts' \in 0..MaxStarts
    BY <1>3 DEF IngestTypeOK
  <2> QED
    BY <1>3, <1>4, <1>6, <2>1, <2>2, CallsMove
<1>7. CASE /\ people[l].status = "UNTOUCHED" /\ people' = [people EXCEPT ![l].email = e]
           /\ raced' = IF over # {} THEN raced \cup {l} ELSE raced
  <2> DEFINE x == [people[l] EXCEPT !.email = e]
  <2>1. /\ x \in Person /\ x.status = people[l].status /\ x.email = e
        /\ x.erased = people[l].erased /\ people' = [people EXCEPT ![l] = x]
    <3>1. people[l] \in Person
      BY IngestRecords
    <3>2. people' = [people EXCEPT ![l] = x]
      BY <1>7, Zenon
    <3> QED
      BY <3>1, <3>2 DEF Person
  <2> HIDE DEF x
  <2>2. /\ people' \in Seq(Person) /\ Len(people') <= MaxLeads /\ People' = People
        /\ people'[l] = x /\ \A m \in People : m # l => people'[m] = people[m]
    BY <2>1, OneRowChanges
  <2>3. raced \subseteq raced' /\ raced' \subseteq 1..MaxLeads /\ (over # {} => l \in raced')
    BY <1>7, IngestRecords DEF IngestTypeOK
  <2>4. IngestTypeOK'
    BY <1>3, <1>4, <2>2, <2>3, IngestTypesAre DEF IngestTypeOK
  <2>5. Aware(calls[c]) /\ RowIsRight(l) /\ Erased \notin Email
    BY IngestRecords, RowsAreRight
  <2>6. RowIsRight(l)'
    <3>1. e \in blocked => l \in raced'
      <4>1. people[l].email = e /\ e \in blocked => l \in raced
        BY <1>7, <2>5 DEF RowIsRight, Listed
      <4>2. over = {} /\ e \in blocked => \/ l \in raced \/ people[l].email = e
        BY <1>1, <1>2, <1>3, <1>7, <2>5 DEF Aware
      <4> QED
        BY <2>3, <4>1, <4>2
    <3>2. people[l].erased => l \in raced'
      BY <1>1, <1>3, <2>3, <2>5 DEF Aware
    <3>3. x.status = "UNTOUCHED" /\ e # Erased
      BY <1>7, <2>1, <2>5
    <3> QED
      BY <1>3, <2>1, <2>2, <3>1, <3>2, <3>3 DEF RowIsRight, Named, Listed
  <2>7. \A m \in People : m # l => RowIsRight(m)'
    BY <1>3, <2>2, <2>3, RowsAreRight DEF RowIsRight, Named, Listed
  <2>8. \A m \in People : /\ people'[m].status = people[m].status
                          /\ people'[m].erased = people[m].erased
    BY <2>1, <2>2
  <2>9. ASSUME NEW d \in Call PROVE Sane(calls[d])' /\ Aware(calls[d])'
    <3>1. CASE calls'[d] = NoCall
      BY <3>1, NoCallIs DEF Sane, Aware
    <3>2. CASE calls'[d] = calls[d]
      <4>1. Sane(calls[d]) /\ Aware(calls[d])
        BY DEF IIngest
      <4>2. Sane(calls[d])'
        BY <2>2, <3>2, <4>1 DEF Sane
      <4>3. Aware(calls[d])'
        <5>1. PICK k : k = calls[d] /\ Aware(k) /\ Sane(k)
          BY <4>1
        <5>2. \A m \in People : m # l => people'[m].email = people[m].email
          BY <2>2
        <5>3. people[l].email \in blocked => l \in raced
          BY <1>7, <2>5 DEF RowIsRight, Listed
        <5>4. Listed(l)' => l \in raced'
          BY <1>7, <2>1, <2>2, <2>6 DEF RowIsRight
        <5>5. ASSUME k.kind = "edit", k.overtaken = {}
              PROVE  /\ k.email \in blocked =>
                          \/ k.lead \in raced' \/ people'[k.lead].status = "deleted"
                          \/ people'[k.lead].email = k.email
                     /\ ~people'[k.lead].erased
          BY <2>3, <2>8, <5>1, <5>2, <5>3, <5>5 DEF Aware, Sane
        <5>6. ASSUME k.kind \in {"book", "dispatch", "send"}, k.overtaken = {}, Listed(k.lead)'
              PROVE  k.lead \in raced'
          BY <1>3, <2>3, <5>1, <5>2, <5>4, <5>6 DEF Aware, Sane, Listed
        <5>7. Aware(k)'
          BY <1>3, <5>1, <5>5, <5>6 DEF Aware, Listed
        <5> QED
          BY <3>2, <5>1, <5>7 DEF Aware
      <4> QED
        BY <4>2, <4>3
    <3> QED
      BY <1>4, <3>1, <3>2
  <2>10. IIngest'
    BY <2>2, <2>6, <2>7, <2>9 DEF IIngest, RowIsRight, ListAgrees, ErasedStays
  <2> QED
    BY <2>4, <2>10
<1> QED
  BY <1>5, <1>6, <1>7

\* a row is erased, and the corrections of it that had read it are overtaken
LEMMA ARowIsErased ==
  ASSUME IngestTypeOK, IIngest, NEW c \in Call, NEW l \in People, EraseRow(c, l)
  PROVE  IngestTypeOK' /\ IIngest'
<1>1. CASE people[l].status = "deleted"
  BY <1>1, ACallEnds DEF EraseRow
<1>2. CASE people[l].status # "deleted"
  <2> DEFINE x == [people[l] EXCEPT !.email = Erased, !.erased = TRUE]
  <2>1. /\ x \in Person /\ x.status = people[l].status /\ x.email = Erased
        /\ x.erased = TRUE /\ people' = [people EXCEPT ![l] = x]
    <3>1. people[l] \in Person
      BY IngestRecords
    <3>2. people' = [people EXCEPT ![l] = x]
      BY <1>2, Zenon DEF EraseRow
    <3> QED
      BY <3>1, <3>2 DEF Person
  <2> HIDE DEF x
  <2>2. /\ people' \in Seq(Person) /\ Len(people') <= MaxLeads /\ People' = People
        /\ people'[l] = x /\ \A m \in People : m # l => people'[m] = people[m]
    BY <2>1, OneRowChanges
  <2> DEFINE after(d) == CASE d = c -> [calls[d] EXCEPT !.todo = @ \ {l}]
                           [] calls[d].kind = "edit" /\ calls[d].lead = l ->
                                [calls[d] EXCEPT !.overtaken = @ \cup {calls[d].email}]
                           [] OTHER -> calls[d]
  <2>3. calls' = [d \in Call |-> after(d)] /\ raced' = raced /\ UNCHANGED <<blocked, starts>>
        /\ calls[c].kind = "erase"
    BY <1>2 DEF EraseRow
  <2>4. ASSUME NEW d \in Call
        PROVE  /\ after(d) \in CallRecord
               /\ after(d).kind = calls[d].kind /\ after(d).lead = calls[d].lead
               /\ after(d).keep = calls[d].keep /\ after(d).email = calls[d].email
               /\ after(d).campaign = calls[d].campaign
               /\ calls[d].overtaken \subseteq after(d).overtaken
               /\ calls[d].kind = "edit" /\ calls[d].lead = l => after(d).overtaken # {}
    <3>1. PICK k \in CallRecord : k = calls[d] /\ Sane(k)
      BY IngestRecords DEF IIngest
    <3>2. after(d) = IF d = c THEN [k EXCEPT !.todo = @ \ {l}]
                     ELSE IF k.kind = "edit" /\ k.lead = l
                          THEN [k EXCEPT !.overtaken = @ \cup {k.email}] ELSE k
      <4>1. ~(d = c /\ k.kind = "edit")
        BY <2>3, <3>1
      <4> QED
        BY <3>1, <4>1, Zenon
    <3>3. PICK a : a = after(d)
      OBVIOUS
    <3> HIDE DEF after
    <3>4. CASE d = c
      <4>1. k.todo \ {l} \in SUBSET (Email \cup 1..MaxLeads)
        BY DEF CallRecord
      <4>2. a = [k EXCEPT !.todo = k.todo \ {l}]
        BY <3>2, <3>3, <3>4
      <4>3. a \in CallRecord /\ a.kind = k.kind /\ a.lead = k.lead /\ a.keep = k.keep
            /\ a.email = k.email /\ a.campaign = k.campaign
            /\ a.overtaken = k.overtaken
        BY <4>1, <4>2 DEF CallRecord
      <4> QED
        BY <2>3, <3>1, <3>3, <3>4, <4>3
    <3>5. CASE d # c /\ k.kind = "edit" /\ k.lead = l
      <4>1. k.overtaken \cup {k.email} \in SUBSET Email
        BY <3>1, <3>5 DEF CallRecord, Sane
      <4>2. a = [k EXCEPT !.overtaken = k.overtaken \cup {k.email}]
        BY <3>2, <3>3, <3>5
      <4>3. a \in CallRecord /\ a.kind = k.kind /\ a.lead = k.lead /\ a.keep = k.keep
            /\ a.email = k.email /\ a.campaign = k.campaign
            /\ a.overtaken = k.overtaken \cup {k.email}
        BY <4>1, <4>2 DEF CallRecord
      <4> QED
        BY <3>1, <3>3, <4>3
    <3>6. CASE d # c /\ ~(k.kind = "edit" /\ k.lead = l)
      BY <3>1, <3>2, <3>3, <3>6
    <3> QED
      BY <3>4, <3>5, <3>6
  <2> HIDE DEF after
  <2>5. calls' \in [Call -> CallRecord] /\ \A d \in Call : calls'[d] = after(d)
    BY <2>3, <2>4
  <2>6. IngestTypeOK'
    BY <2>2, <2>3, <2>5, IngestTypesAre DEF IngestTypeOK
  <2>7. ASSUME NEW m \in People PROVE RowIsRight(m)'
    <3>1. RowIsRight(m) /\ Erased \notin blocked
      BY IngestRecords, RowsAreRight
    <3> QED
      BY <2>1, <2>2, <2>3, <3>1 DEF RowIsRight, Named, Listed
  <2>8. ASSUME NEW d \in Call PROVE Sane(calls[d])' /\ Aware(calls[d])'
    <3>1. PICK k : k = calls[d] /\ Sane(k) /\ Aware(k)
      BY DEF IIngest
    <3>2. PICK a : /\ a = calls'[d] /\ a.kind = k.kind /\ a.lead = k.lead /\ a.keep = k.keep
                   /\ a.email = k.email /\ a.campaign = k.campaign /\ k.overtaken \subseteq a.overtaken
                   /\ k.kind = "edit" /\ k.lead = l => a.overtaken # {}
      BY <2>4, <2>5, <3>1
    <3>3. Sane(a)'
      BY <2>2, <3>1, <3>2 DEF Sane
    <3>4. \A m \in People : m # l => people'[m] = people[m]
      BY <2>2
    <3>5. people'[l].email = Erased /\ Erased \notin blocked
      BY <2>1, <2>2, IngestRecords
    <3>6. ASSUME a.kind = "edit", a.overtaken = {}
          PROVE  /\ a.email \in blocked =>
                      \/ a.lead \in raced' \/ people'[a.lead].status = "deleted"
                      \/ people'[a.lead].email = a.email
                 /\ ~people'[a.lead].erased
      <4>1. a.lead \in People /\ a.lead # l /\ k.overtaken = {}
        BY <3>1, <3>2, <3>6 DEF Sane
      <4> QED
        BY <2>3, <3>1, <3>2, <3>4, <3>6, <4>1 DEF Aware
    <3>7. ASSUME a.kind \in {"book", "dispatch", "send"}, a.overtaken = {}, Listed(a.lead)'
          PROVE  a.lead \in raced'
      <4>1. a.lead \in People /\ k.overtaken = {}
        BY <3>1, <3>2, <3>7 DEF Sane
      <4>2. a.lead # l
        BY <2>3, <3>5, <3>7 DEF Listed
      <4> QED
        BY <2>3, <3>1, <3>2, <3>4, <3>7, <4>1, <4>2 DEF Aware, Listed
    <3>8. a.kind = "add" => \A e \in a.keep : e \in blocked => e \in a.overtaken
      BY <3>1, <3>2 DEF Aware
    <3>9. Aware(a)'
      BY <2>3, <3>6, <3>7, <3>8 DEF Aware, Listed
    <3> QED
      BY <3>2, <3>3, <3>9 DEF Sane, Aware
  <2>9. IIngest'
    BY <2>2, <2>7, <2>8 DEF IIngest, RowIsRight, ListAgrees, ErasedStays
  <2> QED
    BY <2>6, <2>9
<1> QED
  BY <1>1, <1>2

-----------------------------------------------------------------------------
(* The insert.                                                              *)
LEMMA InOrder ==
  ASSUME NEW S, IsFiniteSet(S)
  PROVE  SetToSeq(S) \in Seq(S) /\ DOMAIN SetToSeq(S) = 1..Len(SetToSeq(S))
<1>1. /\ Cardinality(S) \in Nat
      /\ \E f \in [1..Cardinality(S) -> S] : IsInjective(f)
  BY FS_CardinalityType DEF ExistsBijection, Bijection, Injection
<1>2. SetToSeq(S) \in [1..Cardinality(S) -> S]
  BY <1>1, Zenon DEF SetToSeq
<1>3. SetToSeq(S) \in Seq(S)
  BY <1>1, <1>2, SeqDef
<1> QED
  BY <1>3, LenProperties

\* rows that were looked up are inserted; the overtaken ones are known
LEMMA LeadsAreAdded ==
  ASSUME IngestTypeOK, IIngest, NEW c \in Call, AddInserts(c)
  PROVE  IngestTypeOK' /\ IIngest'
<1> DEFINE g == calls[c].campaign
           new == {e \in calls[c].keep : ~isDuplicateLead(g, e)}
           entry(e) == [campaign |-> g, email |-> e, status |-> "UNTOUCHED", erased |-> FALSE]
           rows == SetToSeq(new)
           added == [i \in DOMAIN rows |-> entry(rows[i])]
           n == Len(people)
           late == {n + i : i \in {k \in DOMAIN rows : rows[k] \in calls[c].overtaken}}
<1>1. /\ calls[c].kind = "add" /\ n + Len(rows) <= MaxLeads /\ people' = people \o added
      /\ raced' = raced \cup late
      /\ calls' = [calls EXCEPT ![c] = NoCall] /\ UNCHANGED <<blocked, starts>>
  BY Zenon DEF AddInserts, CallEnds
<1>2. calls[c] \in CallRecord /\ Sane(calls[c]) /\ Aware(calls[c])
  BY IngestRecords DEF IIngest
<1>3. IsFiniteSet(new) /\ new \subseteq Email /\ new \subseteq calls[c].keep
  <2>1. IsFiniteSet(calls[c].keep) /\ calls[c].keep \subseteq Email
    BY <1>2 DEF Sane, CallRecord
  <2>2. new \subseteq calls[c].keep
    OBVIOUS
  <2> HIDE DEF new
  <2> QED
    BY <2>1, <2>2, FS_Subset
<1>4. g \in Campaign
  BY <1>1, <1>2 DEF Sane
<1> HIDE DEF new, g
<1>5. rows \in Seq(new) /\ DOMAIN rows = 1..Len(rows) /\ Len(rows) \in Nat
  <2>1. rows \in Seq(new) /\ DOMAIN rows = 1..Len(rows)
    BY <1>3, InOrder
  <2> HIDE DEF rows
  <2> QED
    BY <2>1, LenProperties
<1> HIDE DEF rows
<1>6. \A i \in 1..Len(rows) : rows[i] \in new
  BY <1>5, ElementOfSeq
<1>7. \A e \in new : /\ entry(e) \in Person /\ entry(e).email = e /\ entry(e).erased = FALSE
                     /\ entry(e).status = "UNTOUCHED"
  BY <1>3, <1>4 DEF Person
<1> HIDE DEF entry
<1>8. added \in Seq(Person) /\ Len(added) = Len(rows)
      /\ \A i \in 1..Len(rows) : added[i] = entry(rows[i])
  <2>1. added \in [1..Len(rows) -> Person] /\ \A i \in 1..Len(rows) : added[i] = entry(rows[i])
    BY <1>5, <1>6, <1>7
  <2> HIDE DEF added
  <2>2. added \in Seq(Person)
    BY <1>5, <2>1, SeqDef
  <2> QED
    BY <1>5, <2>1, <2>2, LenProperties
<1> HIDE DEF added
<1>9. people \in Seq(Person) /\ People = 1..n /\ n \in Nat
  BY IngestRecords
<1>10. /\ people' \in Seq(Person) /\ Len(people') = n + Len(rows)
       /\ \A m \in 1..n : people'[m] = people[m]
       /\ \A m \in (n + 1)..(n + Len(rows)) : people'[m] = entry(rows[m - n])
  <2>0. /\ people \o added \in Seq(Person) /\ Len(people \o added) = n + Len(added)
        /\ \A m \in 1..(n + Len(added)) :
             (people \o added)[m] = IF m <= n THEN people[m] ELSE added[m - n]
    BY <1>8, <1>9, ConcatProperties
  <2>1. people' \in Seq(Person) /\ Len(people') = n + Len(rows)
    BY <1>1, <1>8, <2>0
  <2>2. \A m \in 1..(n + Len(rows)) :
          people'[m] = IF m <= n THEN people[m] ELSE added[m - n]
    BY <1>1, <1>8, <2>0
  <2>3. ASSUME NEW m \in 1..n PROVE people'[m] = people[m]
    BY <1>5, <1>9, <2>2
  <2>4. ASSUME NEW m \in (n + 1)..(n + Len(rows)) PROVE people'[m] = entry(rows[m - n])
    <3> DEFINE i == m - n
    <3>1. i \in 1..Len(rows) /\ m \in 1..(n + Len(rows)) /\ ~(m <= n)
      BY <1>5, <1>9
    <3>2. people'[m] = added[i]
      BY <2>2, <3>1
    <3> QED
      BY <1>8, <3>1, <3>2
  <2> QED
    BY <2>1, <2>3, <2>4
<1> HIDE DEF n
<1>11. People' = 1..(n + Len(rows)) /\ People \subseteq People'
  <2>1. People' = 1..Len(people')
    BY <1>10, LenProperties DEF People
  <2> QED
    BY <1>5, <1>9, <1>10, <2>1
<1>12. \A i \in 1..Len(rows) : rows[i] \in calls[c].overtaken => n + i \in late
  BY <1>5
<1>13. raced \subseteq raced' /\ raced' \subseteq 1..MaxLeads
  <2>1. ASSUME NEW x \in late PROVE x \in 1..MaxLeads
    <3>1. PICK i \in 1..Len(rows) : x = n + i
      BY <1>5
    <3> QED
      BY <1>1, <1>5, <1>9, <3>1, IngestAssumption
  <2> HIDE DEF late
  <2> QED
    BY <1>1, <2>1 DEF IngestTypeOK
<1> HIDE DEF late
<1>14. calls' \in [Call -> CallRecord] /\ \A d \in Call : calls'[d] = NoCall \/ calls'[d] = calls[d]
  BY <1>1, NoCallIs, IngestRecords
<1>15. IngestTypeOK'
  <2>1. Len(people') <= MaxLeads /\ blocked' \subseteq Email /\ starts' \in 0..MaxStarts
    BY <1>1, <1>10 DEF IngestTypeOK
  <2> QED
    BY <1>10, <1>13, <1>14, <2>1, IngestTypesAre
<1>16. ASSUME NEW m \in People PROVE RowIsRight(m)'
  BY <1>1, <1>9, <1>10, <1>13, RowsAreRight DEF RowIsRight, Named, Listed
<1>17. ASSUME NEW m \in (n + 1)..(n + Len(rows)) PROVE RowIsRight(m)'
  <2> DEFINE i == m - n
  <2>1. i \in 1..Len(rows) /\ m = n + i
    BY <1>5, <1>9
  <2> HIDE DEF i
  <2>2. PICK e \in new : e = rows[i]
    BY <1>6, <2>1
  <2>3. /\ people'[m] = entry(e) /\ entry(e).email = e /\ entry(e).erased = FALSE
        /\ entry(e).status = "UNTOUCHED"
    <3>1. m - n = i
      BY <2>1, <1>9, <1>5
    <3> QED
      BY <1>7, <1>10, <2>2, <3>1
  <2>4. e \in Email /\ e # Erased /\ e \in calls[c].keep
    BY <1>3, IngestAssumption
  <2>5. e \in blocked => m \in raced'
    BY <1>1, <1>2, <1>12, <2>1, <2>2, <2>4 DEF Aware
  <2> QED
    BY <1>1, <2>3, <2>4, <2>5 DEF RowIsRight, Named, Listed
<1>18. \A m \in People' : RowIsRight(m)'
  <2>1. \A m \in People' : m \in People \/ m \in (n + 1)..(n + Len(rows))
    BY <1>5, <1>9, <1>11
  <2> QED
    BY <1>16, <1>17, <2>1
<1>19. ASSUME NEW d \in Call PROVE Sane(calls[d])' /\ Aware(calls[d])'
  <2>1. CASE calls'[d] = NoCall
    BY <2>1, NoCallIs DEF Sane, Aware
  <2>2. CASE calls'[d] = calls[d]
    <3>1. PICK k : k = calls[d] /\ Aware(k) /\ Sane(k)
      BY DEF IIngest
    <3>2. Sane(k)'
      BY <1>11, <3>1 DEF Sane
    <3>3. Aware(k)'
      BY <1>1, <1>9, <1>10, <1>13, <3>1 DEF Aware, Sane, Listed
    <3> QED
      BY <2>2, <3>1, <3>2, <3>3 DEF Sane, Aware
  <2> QED
    BY <1>14, <2>1, <2>2
<1>20. IIngest'
  BY <1>18, <1>19 DEF IIngest, RowIsRight, ListAgrees, ErasedStays
<1> QED
  BY <1>15, <1>20

-----------------------------------------------------------------------------
LEMMA IngestStep ==
  IngestTypeOK /\ IIngest /\ [IngestNext]_ingestVars => IngestTypeOK' /\ IIngest'
<1> SUFFICES ASSUME IngestTypeOK, IIngest, [IngestNext]_ingestVars
             PROVE  IngestTypeOK' /\ IIngest'
  OBVIOUS
<1>1. CASE \E c \in Call, campaign \in Campaign, rows \in SUBSET Email : AddStarts(c, campaign, rows)
  BY <1>1, AddBegins
<1>2. CASE \E c \in Call, e \in Email : AddChecks(c, e) \/ EraseReads(c, e)
  BY <1>2, ARowIsChecked, EraseBegins
<1>3. CASE \E c \in Call : AddInserts(c) \/ EditWrites(c)
  BY <1>3, LeadsAreAdded, ACorrection
<1>4. CASE \E c \in Call : EraseEnds(c)
  BY <1>4, ACallEnds DEF EraseEnds
<1>5. CASE (\E e \in Email : Suppress(e)) \/ (\E c \in Call : UnsubscribeWrites(c))
  BY <1>5, Listings
<1>6. CASE \E c \in Call, l \in People, e \in Email : EditReads(c, l, e)
  BY <1>6, EditBegins
<1>7. CASE \E c \in Call, l \in People : EraseRow(c, l) \/ UnsubscribeReads(c, l)
  BY <1>7, ARowIsErased, UnsubscribeBegins
<1>8. CASE \E l \in People : Delete(l) \/ Release(l)
  BY <1>8, TheSender
<1>9. CASE \E e \in Email : Unsuppress(e)
  BY <1>9, AnAddressIsFreed
<1>10. CASE ApiRestarts \/ WorkerRestarts
  BY <1>10, TheRestart
<1>12. CASE \E c \in Call, l \in People : BookReads(c, l) \/ Dispatches(c, l)
  BY <1>12, SenderBegins
<1>13. CASE \E c \in Call : BookWrites(c) \/ SendWrites(c)
  BY <1>13, AStatusIsWritten DEF BookWrites, SendWrites
<1>14. CASE \E c \in Call : SendLooks(c)
  BY <1>14, TheLastLook
<1>11. CASE UNCHANGED ingestVars
  BY <1>11 DEF ingestVars, IngestTypeOK, IIngest, People, Sane, Aware, Named, ListAgrees,
    Listed, ErasedStays
<1> QED
  BY <1>1, <1>2, <1>3, <1>4, <1>5, <1>6, <1>7, <1>8, <1>9, <1>10, <1>11, <1>12, <1>13, <1>14
    DEF IngestNext

LEMMA IngestInductive == IngestSpec => [](IngestTypeOK /\ IIngest)
<1>1. IngestInit => IngestTypeOK /\ IIngest
  <2> SUFFICES ASSUME IngestInit PROVE IngestTypeOK /\ IIngest
    OBVIOUS
  <2>1. people = <<>> /\ blocked = {} /\ starts = 0 /\ raced = {} /\ calls = [c \in Call |-> NoCall]
    BY DEF IngestInit
  <2>2. people \in Seq(Person) /\ Len(people) = 0 /\ People = {}
    BY <2>1 DEF People
  <2>3. calls \in [Call -> CallRecord] /\ \A c \in Call : calls[c] = NoCall
    BY <2>1, NoCallIs
  <2>4. IngestTypeOK
    BY <2>1, <2>2, <2>3, IngestAssumption DEF IngestTypeOK, CallRecord
  <2>5. IIngest
    BY <2>2, <2>3, NoCallIs DEF IIngest, Sane, Aware, ListAgrees, ErasedStays
  <2> QED
    BY <2>4, <2>5
<1> QED
  BY <1>1, IngestStep, PTL DEF IngestSpec

\* The do-not-contact list and the leads' rows agree, whatever the order of the
\* reads and writes of the requests, the ticks and the sends, but for a row written
\* by one that had looked before its address was listed (raced): an import, a
\* correction, a booking of the tick, or what sendMail writes after SMTP.
THEOREM ListIsAgreed == IngestSpec => []ListAgrees
<1>1. IIngest => ListAgrees
  BY DEF IIngest
<1> QED
  BY <1>1, IngestInductive, PTL

\* An erased lead never has an address again, unless a correction had read it before.
THEOREM TheErasedStayErased == IngestSpec => []ErasedStays
<1>1. IIngest => ErasedStays
  BY DEF IIngest
<1> QED
  BY <1>1, IngestInductive, PTL

-----------------------------------------------------------------------------
(* The AI's texts and labels.                                               *)

Writable == request.kind \in {"first", "followUp"}
Answers == {i \in DOMAIN outputs : ~Failed(outputs[i])}

\* how far the tries have come with an email
EmailTries ==
  Writable /\ composed = NotYet =>
    /\ request.key # "active" => outputs = <<>> /\ phase = 1
    /\ phase = 1 => outputs = <<>>
    /\ phase = 2 => Len(outputs) = 1 /\ Failed(outputs[1])
    /\ phase \in {3, 4} => Cardinality(Answers) = 1
    /\ phase = 4 => outputs # <<>> /\ Failed(outputs[Len(outputs)])
    /\ phase \in 1..4

Asked(k) == {i \in DOMAIN outputs : outputs[i].key = k}
KeyFailed(k) == \/ Cardinality(Asked(k)) = 2
                \/ \E i \in Asked(k) : outputs[i].said \in Lasting

\* and with a label: two tries a key, in the order of the keys
LabelTries(p) ==
  \A k \in 1..request.keys : /\ 2 * k < p => KeyFailed(k)
                             /\ 2 * k = p => Cardinality(Asked(k)) = 1
                             /\ 2 * k > p => Asked(k) = {}

IWriting ==
  /\ request \in Request \cup ReplyRequest \cup {Idle}
  /\ outputs \in Seq(Calls) /\ phase \in Nat
  /\ request = Idle => phase = 1 /\ outputs = <<>> /\ composed = NotYet
  /\ EmailTries
  /\ request.kind = "label" /\ composed = NotYet =>
       LabelTries(phase) /\ phase >= 1 /\ (request.keys > 0 => phase <= 2 * request.keys)
  /\ OfferKept /\ EveryKeyAsked

LEMMA RequestKinds ==
  /\ \A r \in Request : r.kind \in {"first", "followUp"}
  /\ \A r \in ReplyRequest : r.kind = "label" /\ r.keys \in 0..Providers
      /\ Providers \in Nat
  /\ Idle.kind = "none"
  /\ \A o \in {"TEMPLATE", "AI_FALLBACK"}, x \in AiFallbackReason \cup {"none"} :
       /\ plain(o, x).outcome = o /\ plain(o, x).reason = x
       /\ plain(o, x) # NotYet /\ plain(o, x) # [outcome |-> "keyword"]
  /\ \A a \in Answer : /\ ~Failed(a) /\ written(a).outcome = "AI_WRITTEN"
                       /\ written(a).reason = "none"
                       /\ written(a).body = IF stripPlaceholders(a) THEN "empty" ELSE a.text
                       /\ written(a) # NotYet /\ written(a) # [outcome |-> "keyword"]
  /\ \A f \in [failed : Passing \cup Lasting] :
       Failed(f) /\ f.failed \in Passing \cup Lasting
<1>1. /\ \A r \in Request : r.kind \in {"first", "followUp"}
      /\ \A r \in ReplyRequest : r.kind = "label" /\ r.keys \in 0..Providers
      /\ Providers \in Nat
      /\ Idle.kind = "none"
  BY WritingAssumption DEF Request, ReplyRequest, Idle
<1>2. ASSUME NEW o \in {"TEMPLATE", "AI_FALLBACK"}, NEW x \in AiFallbackReason \cup {"none"}
      PROVE  /\ plain(o, x).outcome = o /\ plain(o, x).reason = x
             /\ plain(o, x) # NotYet /\ plain(o, x) # [outcome |-> "keyword"]
  <2>1. plain(o, x).outcome = o /\ plain(o, x).reason = x
    BY DEF plain
  <2> QED
    BY <2>1 DEF NotYet
<1>3. ASSUME NEW a \in Answer
      PROVE  /\ ~Failed(a) /\ written(a).outcome = "AI_WRITTEN"
             /\ written(a).reason = "none"
             /\ written(a).body = IF stripPlaceholders(a) THEN "empty" ELSE a.text
             /\ written(a) # NotYet /\ written(a) # [outcome |-> "keyword"]
  <2>1. DOMAIN a = {"text", "subject"}
    BY DEF Answer
  <2>2. ~Failed(a)
    BY <2>1 DEF Failed
  <2>3. /\ written(a).outcome = "AI_WRITTEN" /\ written(a).reason = "none"
        /\ written(a).body = IF stripPlaceholders(a) THEN "empty" ELSE a.text
    BY DEF written
  <2>4. written(a) # NotYet /\ written(a) # [outcome |-> "keyword"]
    BY <2>3 DEF NotYet
  <2> QED
    BY <2>2, <2>3, <2>4
<1>4. ASSUME NEW f \in [failed : Passing \cup Lasting]
      PROVE  Failed(f) /\ f.failed \in Passing \cup Lasting
  <2>1. DOMAIN f = {"failed"}
    OBVIOUS
  <2> QED
    BY <2>1 DEF Failed
<1> QED
  BY <1>1, <1>2, <1>3, <1>4

\* one more output
LEMMA OneMore ==
  ASSUME outputs \in Seq(Calls), NEW r \in Calls, outputs' = Append(outputs, r)
  PROVE  /\ outputs' \in Seq(Calls) /\ Len(outputs) \in Nat /\ Len(outputs') = Len(outputs) + 1
         /\ DOMAIN outputs = 1..Len(outputs)
         /\ DOMAIN outputs' = DOMAIN outputs \cup {Len(outputs')}
         /\ Len(outputs') \notin DOMAIN outputs
         /\ outputs'[Len(outputs')] = r
         /\ \A i \in DOMAIN outputs : outputs'[i] = outputs[i]
<1>1. /\ outputs' \in Seq(Calls) /\ Len(outputs') = Len(outputs) + 1 /\ Len(outputs) \in Nat
      /\ DOMAIN outputs = 1..Len(outputs) /\ DOMAIN outputs' = 1..Len(outputs')
      /\ \A i \in 1..Len(outputs) : outputs'[i] = outputs[i]
      /\ outputs'[Len(outputs) + 1] = r
  BY AppendProperties, LenProperties
<1> QED
  BY <1>1

LEMMA FewMore ==
  ASSUME outputs \in Seq(Calls), NEW S \in SUBSET DOMAIN outputs
  PROVE  /\ IsFiniteSet(S) /\ Cardinality(S) \in Nat
         /\ \A x \in Nat : x \notin S => Cardinality(S \cup {x}) = Cardinality(S) + 1
<1>1. DOMAIN outputs = 1..Len(outputs) /\ Len(outputs) \in Nat
  BY LenProperties
<1>2. IsFiniteSet(S)
  <2>1. IsFiniteSet(1..Len(outputs))
    BY <1>1, FS_Interval
  <2> QED
    BY <1>1, <2>1, FS_Subset
<1> QED
  BY <1>2, FS_CardinalityType, FS_AddElement

\* an answer is one more answer; a failed call is none
LEMMA AnswersGrow ==
  ASSUME outputs \in Seq(Calls), NEW r \in Calls, outputs' = Append(outputs, r)
  PROVE  /\ Failed(r) => Answers' = Answers
         /\ ~Failed(r) => /\ Cardinality(Answers) \in Nat
                          /\ Cardinality(Answers') = Cardinality(Answers) + 1
<1> DEFINE n == Len(outputs')
<1>1. /\ DOMAIN outputs' = DOMAIN outputs \cup {n} /\ n \notin DOMAIN outputs
      /\ outputs'[n] = r /\ \A i \in DOMAIN outputs : outputs'[i] = outputs[i]
      /\ n \in Nat
  BY OneMore
<1> HIDE DEF n
<1>2. Answers' = Answers \cup {i \in {n} : ~Failed(r)}
  <2>1. Answers' = {i \in DOMAIN outputs' : ~Failed(outputs'[i])}
    BY DEF Answers, Failed
  <2> QED
    BY <1>1, <2>1 DEF Answers, Failed
<1>3. CASE Failed(r)
  BY <1>2, <1>3
<1>4. CASE ~Failed(r)
  <2>1. Answers' = Answers \cup {n} /\ n \notin Answers /\ Answers \in SUBSET DOMAIN outputs
    BY <1>1, <1>2, <1>4 DEF Answers
  <2> QED
    BY <1>1, <1>4, <2>1, FewMore
<1> QED
  BY <1>3, <1>4

LEMMA MailGoesOn ==
  ASSUME IWriting, NEW r \in Answer \cup [failed : Passing \cup Lasting], Writes(r)
  PROVE  IWriting'
<1>1. /\ request.kind \in {"first", "followUp"} /\ request.key = "active" /\ composed = NotYet
      /\ outputs' = Append(outputs, r) /\ request' = request /\ r \in Calls
      /\ outputs \in Seq(Calls) /\ phase \in 1..4
      /\ request \in Request \cup ReplyRequest \cup {Idle}
  BY DEF Writes, IWriting, EmailTries, Writable, Calls
<1>2. /\ outputs' \in Seq(Calls) /\ Len(outputs) \in Nat /\ Len(outputs') = Len(outputs) + 1
      /\ outputs'[Len(outputs')] = r /\ outputs' # <<>>
      /\ \A i \in 1..Len(outputs) : outputs'[i] = outputs[i]
  BY <1>1, OneMore
<1>3. /\ phase = 1 => outputs = <<>>
      /\ phase = 2 => Len(outputs) = 1 /\ Failed(outputs[1])
      /\ phase \in {3, 4} => Cardinality(Answers) = 1
      /\ phase = 4 => outputs # <<>> /\ Failed(outputs[Len(outputs)])
  BY <1>1 DEF IWriting, EmailTries, Writable
<1>4. /\ Failed(r) => Answers' = Answers
      /\ ~Failed(r) => Cardinality(Answers') = Cardinality(Answers) + 1
  BY <1>1, AnswersGrow
<1>5. request # Idle /\ request.kind # "label"
  BY <1>1, RequestKinds
<1>6. ASSUME composed' = NotYet, phase' \in 1..4, EmailTries' PROVE IWriting'
  <2>1. OfferKept' /\ EveryKeyAsked'
    BY <1>6 DEF OfferKept, EveryKeyAsked, NotYet
  <2> QED
    BY <1>1, <1>2, <1>5, <1>6, <2>1 DEF IWriting
<1>7. ASSUME composed' # NotYet, composed' # [outcome |-> "keyword"], phase' = phase, OfferKept'
      PROVE IWriting'
  <2>1. EmailTries' /\ EveryKeyAsked'
    BY <1>7 DEF EmailTries, EveryKeyAsked
  <2> QED
    BY <1>1, <1>2, <1>5, <1>7, <2>1 DEF IWriting
<1>8. CASE r \in [failed : Passing \cup Lasting]
  <2>1. Failed(r) /\ r.failed \in Passing \cup Lasting /\ personalizeWithFallback(r.failed)
    BY <1>8, RequestKinds DEF Writes
  <2>2. CASE phase \in {1, 3}
    <3>1. phase' = phase + 1 /\ composed' = NotYet
      BY <1>1, <2>1, <2>2 DEF personalizeWithFallback
    <3>2. /\ phase' = 2 => Len(outputs') = 1 /\ Failed(outputs'[1])
          /\ phase' = 4 => Failed(outputs'[Len(outputs')]) /\ Cardinality(Answers') = 1
      BY <1>2, <1>3, <1>4, <2>1, <2>2, <3>1
    <3>3. phase' \in {2, 4}
      BY <2>2, <3>1
    <3>4. EmailTries'
      BY <1>1, <1>2, <3>2, <3>3 DEF EmailTries, Failed
    <3> QED
      BY <1>6, <3>1, <3>3, <3>4
  <2>3. CASE phase \in {2, 4}
    <3>1. PICK x \in Passing \cup Lasting : x = r.failed
      BY <2>1
    <3>2. phase' = phase /\ composed' = plain("AI_FALLBACK", x)
      BY <2>1, <2>3, <3>1 DEF personalizeWithFallback
    <3>3. /\ composed'.outcome = "AI_FALLBACK" /\ composed'.reason = x /\ composed' # NotYet
          /\ composed' # [outcome |-> "keyword"]
      BY <3>2, RequestKinds DEF AiFallbackReason
    <3>4. Len(outputs) >= 1 /\ Failed(outputs[Len(outputs)])
      BY <1>1, <1>2, <1>3, <2>3, EmptySeq, LenProperties
    <3>5. Len(outputs') >= 2 /\ Failed(outputs'[Len(outputs')])
          /\ Failed(outputs'[Len(outputs') - 1])
      <4>1. Len(outputs') - 1 = Len(outputs) /\ Len(outputs) \in 1..Len(outputs)
        BY <1>2, <3>4
      <4>2. outputs'[Len(outputs') - 1] = outputs[Len(outputs)]
        BY <1>2, <4>1
      <4> QED
        BY <1>2, <2>1, <3>4, <4>2
    <3>6. OfferKept'
      BY <3>3, <3>5 DEF OfferKept, Passing, Lasting, Failed
    <3> QED
      BY <1>7, <3>2, <3>3, <3>6
  <2> QED
    BY <1>1, <2>2, <2>3
<1>9. CASE r \in Answer
  <2>1. ~Failed(r)
    BY <1>9, RequestKinds
  <2>2. CASE ~hasProblems(r)
    <3>1. phase' = phase /\ composed' = written(r)
      BY <2>1, <2>2 DEF Writes
    <3>2. /\ composed'.outcome = "AI_WRITTEN" /\ composed'.reason = "none"
          /\ composed'.body = IF stripPlaceholders(r) THEN "empty" ELSE r.text
          /\ composed' # NotYet /\ composed' # [outcome |-> "keyword"]
      BY <1>9, <3>1, RequestKinds
    <3>3. PICK k : k = request
      OBVIOUS
    <3>4. k.instructions \/ k.base = "blank" \/
            /\ r.text # "linked"
            /\ k.base = "facts" => r.text \notin {"dropped", "hollow"} \/
                                     (k.mode = "PERSONALIZE" /\ k.kind = "first")
            /\ k.mode = "PERSONALIZE" /\ k.kind = "first" => r.text = "good"
      BY <2>2, <3>3 DEF hasProblems, changedLines, missingFacts
    <3>5. stripPlaceholders(r) => r.text = "hollow"
      BY DEF stripPlaceholders
    <3>6. OfferKept'
      BY <1>1, <3>2, <3>3, <3>4, <3>5 DEF OfferKept, Passing, Lasting
    <3> QED
      BY <1>7, <3>1, <3>2, <3>6
  <2>3. CASE hasProblems(r) /\ phase < 3
    <3>1. phase' = 3 /\ composed' = NotYet
      BY <1>1, <2>1, <2>3 DEF Writes
    <3>2. Cardinality(Answers) = 0
      <4>1. CASE phase = 1
        BY <1>3, <4>1, FS_EmptySet DEF Answers
      <4>2. CASE phase = 2
        <5>1. Answers = {}
          BY <1>1, <1>3, <4>2, LenProperties DEF Answers
        <5> QED
          BY <5>1, FS_EmptySet
      <4> QED
        BY <1>1, <2>3, <4>1, <4>2
    <3>3. Cardinality(Answers') = 1
      BY <1>4, <2>1, <3>2
    <3>4. EmailTries'
      BY <1>1, <3>1, <3>3 DEF EmailTries
    <3> QED
      BY <1>6, <3>1, <3>4
  <2>4. CASE hasProblems(r) /\ ~(phase < 3)
    <3>1. phase' = phase /\ composed' = plain("AI_FALLBACK", "content_dropped")
      BY <2>1, <2>4 DEF Writes
    <3>2. /\ composed'.outcome = "AI_FALLBACK" /\ composed'.reason = "content_dropped"
          /\ composed' # NotYet /\ composed' # [outcome |-> "keyword"]
      BY <3>1, RequestKinds DEF AiFallbackReason
    <3>3. Cardinality(Answers') = 2
      BY <1>1, <1>3, <1>4, <2>1, <2>4
    <3>4. OfferKept'
      BY <3>2, <3>3 DEF OfferKept, Answers, Passing, Lasting, Failed
    <3> QED
      BY <1>7, <3>1, <3>2, <3>4
  <2> QED
    BY <2>2, <2>3, <2>4
<1> QED
  BY <1>8, <1>9

LEMMA NoProviderAsked ==
  ASSUME IWriting, NoProvider
  PROVE  IWriting'
<1>1. /\ UNCHANGED <<request, phase, outputs>> /\ request.kind \in {"first", "followUp"}
      /\ \/ composed' = plain("TEMPLATE", "none")
         \/ composed' = plain("AI_FALLBACK", "key_missing")
  BY DEF NoProvider
<1>2. /\ composed'.outcome \in {"TEMPLATE", "AI_FALLBACK"} /\ composed'.reason \in {"none", "key_missing"}
      /\ composed' # NotYet /\ composed' # [outcome |-> "keyword"]
  <2>1. {"none", "key_missing"} \subseteq AiFallbackReason \cup {"none"}
    BY DEF AiFallbackReason
  <2> QED
    BY <1>1, <2>1, RequestKinds
<1>3. OfferKept' /\ EveryKeyAsked'
  BY <1>2 DEF OfferKept, EveryKeyAsked, Passing, Lasting
<1>4. EmailTries'
  BY <1>2 DEF EmailTries
<1>5. request # Idle
  BY <1>1, RequestKinds
<1> QED
  BY <1>1, <1>2, <1>3, <1>4, <1>5 DEF IWriting

LEMMA RequestIsMade ==
  ASSUME IWriting, NEW r \in Request \cup ReplyRequest, WriteStarts(r)
  PROVE  IWriting'
<1>1. /\ request' = r /\ phase' = 1 /\ outputs' = <<>> /\ composed' = NotYet
  BY DEF WriteStarts, IWriting
<1>2. OfferKept' /\ EveryKeyAsked'
  BY <1>1 DEF OfferKept, EveryKeyAsked, NotYet
<1>3. EmailTries'
  BY <1>1 DEF EmailTries
<1>4. ASSUME r.kind = "label" PROVE LabelTries(1)' /\ (r.keys > 0 => 1 <= 2 * r.keys)
  <2>1. r.keys \in Nat /\ (r.keys > 0 => 1 <= 2 * r.keys)
    BY <1>4, RequestKinds
  <2>2. \A k \in 1..r.keys : Asked(k)' = {}
    BY <1>1 DEF Asked
  <2>3. LabelTries(1)'
    BY <1>1, <2>1, <2>2 DEF LabelTries
  <2> QED
    BY <1>1, <2>1, <2>3
<1>5. r # Idle
  BY RequestKinds
<1>6. outputs' \in Seq(Calls)
  BY <1>1
<1> QED
  BY <1>1, <1>2, <1>3, <1>4, <1>5, <1>6 DEF IWriting

LEMMA Keywords ==
  ASSUME IWriting, request.kind = "label", UNCHANGED request, phase' \in Nat,
         outputs' \in Seq(Calls), composed' = Keyword,
         ~request.blank => \A k \in 1..request.keys : KeyFailed(k)'
  PROVE  IWriting'
<1>1. /\ composed'.outcome = IF request.blank THEN "UNCLASSIFIED" ELSE "keyword"
  BY DEF Keyword
<1>2. composed' # NotYet /\ (composed' = [outcome |-> "keyword"] => ~request.blank)
  BY <1>1 DEF NotYet
<1>3. request # Idle /\ request.kind \notin {"first", "followUp"}
  BY RequestKinds
<1>4. OfferKept' /\ EmailTries'
  BY <1>3 DEF OfferKept, EmailTries, Writable
<1>5. EveryKeyAsked'
  BY <1>2 DEF EveryKeyAsked, KeyFailed, Asked
<1> QED
  BY <1>2, <1>3, <1>4, <1>5 DEF IWriting

LEMMA NoKeyAsked ==
  ASSUME IWriting, LabelUnasked
  PROVE  IWriting'
<1>1. /\ UNCHANGED <<request, phase, outputs>> /\ request.kind = "label" /\ composed' = Keyword
      /\ request.keys = 0 \/ request.blank
  BY DEF LabelUnasked
<1>2. outputs' \in Seq(Calls) /\ phase' \in Nat
  BY <1>1 DEF IWriting
<1> QED
  BY <1>1, <1>2, Keywords

LEMMA AKeyIsAsked ==
  ASSUME IWriting, NEW said \in Said, Labels(said)
  PROVE  IWriting'
<1>0. PICK c, p : c = (phase + 1) \div 2 /\ p = NextAttempt(said)
  OBVIOUS
<1>1. /\ request.kind = "label" /\ composed = NotYet /\ ~request.blank /\ request' = request
      /\ outputs' = Append(outputs, [key |-> c, said |-> said])
      /\ \/ said = "label" /\ composed' = [outcome |-> "model"] /\ phase' = phase
         \/ said # "label" /\ p > 2 * request.keys /\ composed' = Keyword /\ phase' = phase
         \/ said # "label" /\ p <= 2 * request.keys /\ phase' = p /\ composed' = NotYet
  <2>1. p \in Int /\ request.keys \in Int
    <3>1. request \in ReplyRequest /\ phase \in Nat
      BY RequestKinds DEF Labels, IWriting
    <3> QED
      BY <1>0, <3>1, RequestKinds DEF NextAttempt
  <2>2. /\ request.kind = "label" /\ composed = NotYet /\ ~request.blank /\ request' = request
        /\ outputs' = Append(outputs, [key |-> c, said |-> said])
        /\ IF said = "label" THEN composed' = [outcome |-> "model"] /\ UNCHANGED phase
           ELSE IF p > 2 * request.keys
                THEN composed' = Keyword /\ UNCHANGED phase
                ELSE phase' = p /\ UNCHANGED composed
    BY <1>0 DEF Labels
  <2> QED
    BY <2>1, <2>2
<1>2. /\ outputs \in Seq(Calls) /\ phase \in Nat /\ phase >= 1 /\ LabelTries(phase)
      /\ request.keys \in 1..Providers /\ phase <= 2 * request.keys /\ Providers \in Nat
      /\ request \in Request \cup ReplyRequest \cup {Idle}
  <2>1. request \in ReplyRequest
    BY <1>1, RequestKinds DEF IWriting
  <2>2. request.keys > 0
    BY DEF Labels
  <2> QED
    BY <1>1, <2>1, <2>2, RequestKinds DEF IWriting
<1>3. /\ c \in 1..request.keys /\ (phase = 2 * c - 1 \/ phase = 2 * c)
      /\ p = IF phase = 2 * c - 1 /\ said \in Lasting THEN phase + 2 ELSE phase + 1
  BY <1>0, <1>2 DEF NextAttempt
<1> DEFINE r == [key |-> c, said |-> said]
<1>4. r \in Calls /\ r.key = c /\ r.said = said
  BY <1>2, <1>3 DEF Calls
<1> HIDE DEF r
<1>5. outputs' = Append(outputs, r)
  BY <1>1 DEF r
<1> DEFINE n == Len(outputs')
<1>6. /\ DOMAIN outputs' = DOMAIN outputs \cup {n} /\ n \notin DOMAIN outputs /\ n \in Nat
      /\ outputs'[n] = r /\ \A i \in DOMAIN outputs : outputs'[i] = outputs[i]
      /\ outputs' \in Seq(Calls)
  BY <1>2, <1>4, <1>5, OneMore
<1> HIDE DEF n
<1>7. \A k \in 1..request.keys : Asked(k)' = IF k = c THEN Asked(k) \cup {n} ELSE Asked(k)
  BY <1>4, <1>6 DEF Asked
<1>8. \A k \in 1..request.keys : \A i \in Asked(k) : outputs'[i] = outputs[i]
  BY <1>6 DEF Asked
<1>9. Cardinality(Asked(c)') = Cardinality(Asked(c)) + 1 /\ n \in Asked(c)'
  <2>1. Asked(c) \in SUBSET DOMAIN outputs /\ n \notin Asked(c) /\ Asked(c)' = Asked(c) \cup {n}
    BY <1>3, <1>6, <1>7 DEF Asked
  <2> QED
    BY <1>2, <1>6, <2>1, FewMore
<1>10. ASSUME said # "label" PROVE LabelTries(p)'
  <2>1. ASSUME NEW k \in 1..request.keys, 2 * k < p PROVE KeyFailed(k)'
    <3>1. CASE k # c
      <4>1. 2 * k < phase /\ Asked(k)' = Asked(k)
        BY <1>2, <1>3, <1>7, <2>1, <3>1
      <4>2. KeyFailed(k)
        BY <1>2, <4>1 DEF LabelTries
      <4> QED
        BY <1>8, <4>1, <4>2 DEF KeyFailed
    <3>2. CASE k = c /\ phase = 2 * c - 1
      <4>1. said \in Lasting
        BY <1>2, <1>3, <2>1, <3>2
      <4> QED
        BY <1>4, <1>6, <1>9, <3>2, <4>1 DEF KeyFailed
    <3>3. CASE k = c /\ phase = 2 * c
      <4>1. Cardinality(Asked(c)) = 1
        BY <1>2, <1>3, <3>3 DEF LabelTries
      <4> QED
        BY <1>9, <3>3, <4>1 DEF KeyFailed
    <3> QED
      BY <1>3, <3>1, <3>2, <3>3
  <2>2. ASSUME NEW k \in 1..request.keys, 2 * k = p PROVE Cardinality(Asked(k)') = 1
    <3>1. k = c /\ 2 * k > phase
      BY <1>2, <1>3, <2>2
    <3>2. Asked(c) = {}
      BY <1>2, <1>3, <3>1 DEF LabelTries
    <3> QED
      BY <1>9, <3>1, <3>2, FS_EmptySet
  <2>3. ASSUME NEW k \in 1..request.keys, 2 * k > p PROVE Asked(k)' = {}
    <3>1. k # c /\ 2 * k > phase
      BY <1>2, <1>3, <2>3
    <3> QED
      BY <1>2, <1>7, <3>1 DEF LabelTries
  <2>4. request' = request
    BY <1>1
  <2>5. \A k \in 1..request.keys : /\ 2 * k < p => KeyFailed(k)'
                                   /\ 2 * k = p => Cardinality(Asked(k)') = 1
                                   /\ 2 * k > p => Asked(k)' = {}
    BY <2>1, <2>2, <2>3
  <2> QED
    BY <2>4, <2>5 DEF LabelTries
<1>11. CASE said = "label"
  <2>1. composed' = [outcome |-> "model"] /\ phase' = phase
    BY <1>1, <1>11
  <2>2. composed'.outcome = "model"
    BY <2>1
  <2>3. composed' # NotYet /\ composed' # [outcome |-> "keyword"]
    BY <2>2 DEF NotYet
  <2>4. request # Idle /\ request.kind \notin {"first", "followUp"}
    BY <1>1, RequestKinds
  <2>5. OfferKept' /\ EmailTries' /\ EveryKeyAsked'
    BY <1>1, <2>3, <2>4 DEF OfferKept, EmailTries, Writable, EveryKeyAsked
  <2> QED
    BY <1>1, <1>2, <1>6, <2>1, <2>3, <2>4, <2>5 DEF IWriting
<1>12. CASE said # "label" /\ p > 2 * request.keys /\ composed' = Keyword /\ phase' = phase
  <2>1. p \in Nat
    BY <1>2, <1>3
  <2>2. LabelTries(p)'
    BY <1>10, <1>12
  <2>3. \A k \in 1..request.keys : KeyFailed(k)'
    BY <1>1, <1>2, <1>12, <2>1, <2>2 DEF LabelTries
  <2> QED
    BY <1>1, <1>2, <1>6, <1>12, <2>3, Keywords
<1>13. CASE said # "label" /\ p <= 2 * request.keys /\ phase' = p /\ composed' = NotYet
  <2>1. phase' \in Nat /\ phase' >= 1 /\ phase' <= 2 * request.keys
    BY <1>2, <1>3, <1>13
  <2>2. LabelTries(phase)'
    <3>1. LabelTries(p)'
      BY <1>10, <1>13
    <3> QED
      BY <1>13, <3>1 DEF LabelTries
  <2>3. request # Idle /\ request.kind \notin {"first", "followUp"}
    BY <1>1, RequestKinds
  <2>4. OfferKept' /\ EmailTries'
    BY <1>1, <2>3 DEF OfferKept, EmailTries, Writable
  <2>5. EveryKeyAsked'
    BY <1>13 DEF EveryKeyAsked, NotYet
  <2> QED
    BY <1>1, <1>2, <1>6, <1>13, <2>1, <2>2, <2>3, <2>4, <2>5 DEF IWriting
<1> QED
  BY <1>1, <1>11, <1>12, <1>13

LEMMA WritingInductive == WritingSpec => []IWriting
<1>1. WritingInit => IWriting
  <2> SUFFICES ASSUME WritingInit PROVE IWriting
    OBVIOUS
  <2>1. request = Idle /\ phase = 1 /\ outputs = <<>> /\ composed = NotYet
    BY DEF WritingInit
  <2>2. OfferKept /\ EveryKeyAsked /\ EmailTries
    BY <2>1, RequestKinds DEF OfferKept, EveryKeyAsked, EmailTries, Writable, NotYet
  <2> QED
    BY <2>1, <2>2, RequestKinds DEF IWriting
<1>2. IWriting /\ [WritingNext]_writingVars => IWriting'
  <2> SUFFICES ASSUME IWriting, [WritingNext]_writingVars PROVE IWriting'
    OBVIOUS
  <2>1. CASE \E r \in Request \cup ReplyRequest : WriteStarts(r)
    BY <2>1, RequestIsMade
  <2>2. CASE NoProvider
    BY <2>2, NoProviderAsked
  <2>3. CASE \E r \in Answer \cup [failed : Passing \cup Lasting] : Writes(r)
    BY <2>3, MailGoesOn
  <2>4. CASE LabelUnasked
    BY <2>4, NoKeyAsked
  <2>5. CASE \E said \in Said : Labels(said)
    BY <2>5, AKeyIsAsked
  <2>6. CASE UNCHANGED writingVars
    <3>1. UNCHANGED <<request, phase, outputs, composed>>
      BY <2>6 DEF writingVars
    <3>2. OfferKept' /\ EveryKeyAsked'
      BY <3>1 DEF IWriting, OfferKept, EveryKeyAsked, Failed
    <3>3. EmailTries'
      BY <3>1 DEF IWriting, EmailTries, Writable, Answers, Failed
    <3>4. ASSUME NEW q, LabelTries(q) PROVE LabelTries(q)'
      <4>1. \A k : Asked(k)' = Asked(k)
        BY <3>1 DEF Asked
      <4>2. \A k : KeyFailed(k) => KeyFailed(k)'
        BY <3>1, <4>1 DEF KeyFailed
      <4> QED
        BY <3>1, <3>4, <4>1, <4>2 DEF LabelTries
    <3>5. LabelTries(phase) => LabelTries(phase)'
      BY <3>1, <3>4 DEF LabelTries
    <3> QED
      BY <3>1, <3>2, <3>3, <3>5 DEF IWriting
  <2> QED
    BY <2>1, <2>2, <2>3, <2>4, <2>5, <2>6 DEF WritingNext
<1> QED
  BY <1>1, <1>2, PTL DEF WritingSpec

\* With no instructions of the owner's, no AI text goes out that lost a price or a
\* link, or added one; and the sender's own email replaces the AI's only after two
\* failures in a row or two such answers.
THEOREM TheOfferIsKept == WritingSpec => []OfferKept
<1>1. IWriting => OfferKept
  BY DEF IWriting
<1> QED
  BY <1>1, WritingInductive, PTL

\* Keywords label a reply only when every key, however many there are, has failed
\* twice or for good.
THEOREM AllKeysAreAsked == WritingSpec => []EveryKeyAsked
<1>1. IWriting => EveryKeyAsked
  BY DEF IWriting
<1> QED
  BY <1>1, WritingInductive, PTL

-----------------------------------------------------------------------------
(* Forecast.                                                                *)

\* the sends planned, and the follow-ups that wait
Entry == [day : Offsets, mailbox : ForecastMailbox, campaign : ForecastCampaign, step : {1, 2}]
Wait == [campaign : ForecastCampaign, mailbox : ForecastMailbox, stepsSent : {1},
         dueAt : {n \in Int : n >= -1}]

Inputs == [cap : [ForecastMailbox -> Int], grown : [ForecastMailbox -> Int],
           sent : [ForecastMailbox -> Int], followUps : Seq(Wait),
           open : [ForecastCampaign -> SUBSET Offsets], left : [ForecastCampaign -> Nat]]
Plays == [pc : {"idle", "load", "day", "followUps", "firsts"}, offset : 0..(ForecastDays + 1),
          capLeft : [ForecastMailbox -> Int], pending : Seq(Wait), next : Seq(Wait),
          newLeft : [ForecastCampaign -> Nat], left : [ForecastCampaign -> Nat],
          round : SUBSET ForecastCampaign]

\* before the play there is no plan; a day is played only within the bound
PlanTyped ==
  /\ booked \in [ForecastMailbox -> Nat]
  /\ input \in Inputs /\ play \in Plays /\ plan \in Seq(Entry)
  /\ play.pc \in {"idle", "load"} => plan = <<>> /\ play = [Still EXCEPT !.pc = play.pc]
  /\ play.pc \in {"followUps", "firsts"} => play.offset <= ForecastDays

Playing == play.pc \in {"day", "followUps", "firsts"}
Inside == play.pc \in {"followUps", "firsts"}

\* a send is on an open day, of today only inside the day, and none of today's is
\* a first email before the firsts begin
PlanDated ==
  \A i \in DOMAIN plan :
    /\ plan[i].day \in input.open[plan[i].campaign]
    /\ plan[i].day <= play.offset
    /\ play.pc = "day" => plan[i].day < play.offset
    /\ play.pc = "followUps" /\ plan[i].day = play.offset => plan[i].step = 2

RoomKept ==
  /\ \A m \in ForecastMailbox, d \in Offsets : FromMailbox(m, {1, 2}, d) <= Max({0, Room(m, d)})
  /\ Inside => \A m \in ForecastMailbox :
       play.capLeft[m] = Room(m, play.offset) - FromMailbox(m, {1, 2}, play.offset)

LeadsKept ==
  \A c \in ForecastCampaign :
    /\ ForCampaign(c, 1, Offsets) + play.left[c] = input.left[c]
    /\ ForCampaign(c, 2, Offsets) + Waiting(c)
         = Due(input.followUps, c, Int) + ForCampaign(c, 1, Offsets)

\* a wait in a queue is still to be counted when it is over
WaitsKept ==
  \A c \in ForecastCampaign, d \in Offsets :
    ForCampaign(c, 2, 0..d) + Due(play.pending, c, -1..d) + Due(play.next, c, -1..d)
      <= ForCampaign(c, 1, 0..(d - FirstWait[c])) + Due(input.followUps, c, -1..d)

\* a campaign's part of today ends with its leads, its limit or its mailboxes' room
Full(c) == \A m \in MailboxIds[c] : play.capLeft[m] <= 0
PartKept ==
  /\ \A c \in ForecastCampaign, d \in Offsets : ForCampaign(c, 1, {d}) <= MaxNewLeads[c]
  /\ play.pc = "firsts" =>
       /\ \A c \in ForecastCampaign :
            /\ play.newLeft[c] <= play.left[c]
            /\ ForCampaign(c, 1, {play.offset}) + play.newLeft[c] <= MaxNewLeads[c]
            /\ play.newLeft[c] > 0 => Open(c)
            /\ Open(c) => \/ play.newLeft[c] = 0 /\ Full(c)
                          \/ play.newLeft[c] = play.left[c]
                          \/ play.newLeft[c] = MaxNewLeads[c] - ForCampaign(c, 1, {play.offset})
       /\ \A c \in play.round : play.newLeft[c] > 0
       /\ play.round = {} => \A c \in ForecastCampaign : play.newLeft[c] = 0

\* a follow-up that was due today and was put off had no mailbox
PutOff(f, d) ==
  f.dueAt <= d /\ d \in input.open[f.campaign] =>
    play.capLeft[f.mailbox] <= 0 /\ FromMailbox(f.mailbox, {1}, d) = 0
FollowUpsFirst ==
  /\ Inside => \A i \in DOMAIN play.next : PutOff(play.next[i], play.offset)
  /\ play.pc = "firsts" => play.pending = <<>>
  /\ play.pc = "day" => play.next = <<>>

DayOver ==
  play.pc = "day" /\ play.offset > 0 =>
    /\ \A c \in ForecastCampaign :
         play.left[c] > 0 /\ play.offset - 1 \in input.open[c]
           /\ ForCampaign(c, 1, {play.offset - 1}) < MaxNewLeads[c] => Full(c)
    /\ \A i \in DOMAIN play.pending : PutOff(play.pending[i], play.offset - 1)

IPlan ==
  PlanTyped /\ (Playing => PlanDated /\ RoomKept /\ LeadsKept /\ WaitsKept /\ PartKept
                           /\ FollowUpsFirst /\ DayOver)

-----------------------------------------------------------------------------
(* Counting in a sequence.                                                  *)

LEMMA CountType ==
  ASSUME NEW S, NEW s \in Seq(S), NEW K
  PROVE  IsFiniteSet({i \in DOMAIN s : s[i] \in K}) /\ Count(s, K) \in Nat
<1>1. IsFiniteSet(1..Len(s)) /\ DOMAIN s = 1..Len(s)
  <2>1. Len(s) \in Nat /\ DOMAIN s = 1..Len(s)
    BY LenProperties
  <2> QED
    BY <2>1, FS_Interval
<1>2. IsFiniteSet({i \in DOMAIN s : s[i] \in K})
  BY <1>1, FS_Subset
<1> QED
  BY <1>2, FS_CardinalityType DEF Count

LEMMA CountNone ==
  ASSUME NEW s, NEW K, \A i \in DOMAIN s : s[i] \notin K
  PROVE  Count(s, K) = 0
<1>1. {i \in DOMAIN s : s[i] \in K} = {}
  OBVIOUS
<1> QED
  BY <1>1, FS_EmptySet DEF Count

LEMMA CountSame ==
  ASSUME NEW s, NEW K, NEW L, \A i \in DOMAIN s : s[i] \in K <=> s[i] \in L
  PROVE  Count(s, K) = Count(s, L)
<1>1. {i \in DOMAIN s : s[i] \in K} = {i \in DOMAIN s : s[i] \in L}
  OBVIOUS
<1> QED
  BY <1>1 DEF Count

LEMMA CountZero ==
  ASSUME NEW S, NEW s \in Seq(S), NEW K, Count(s, K) = 0
  PROVE  \A i \in DOMAIN s : s[i] \notin K
<1>1. {i \in DOMAIN s : s[i] \in K} = {}
  BY CountType, FS_EmptySet DEF Count
<1> QED
  BY <1>1

LEMMA CountAppend ==
  ASSUME NEW S, NEW s \in Seq(S), NEW e \in S, NEW K
  PROVE  Count(Append(s, e), K) = Count(s, K) + (IF e \in K THEN 1 ELSE 0)
<1> DEFINE t == Append(s, e)
           A == {i \in DOMAIN s : s[i] \in K}
           B == {i \in DOMAIN t : t[i] \in K}
<1>1. /\ DOMAIN s = 1..Len(s) /\ Len(s) \in Nat
      /\ DOMAIN t = DOMAIN s \cup {Len(s) + 1} /\ t[Len(s) + 1] = e
      /\ Len(s) + 1 \notin DOMAIN s
      /\ \A i \in DOMAIN s : t[i] = s[i]
  <2>1. /\ DOMAIN s = 1..Len(s) /\ Len(s) \in Nat
        /\ t \in Seq(S) /\ Len(t) = Len(s) + 1 /\ t[Len(s) + 1] = e
        /\ \A i \in 1..Len(s) : t[i] = s[i]
    BY AppendProperties, LenProperties
  <2>2. DOMAIN t = 1..(Len(s) + 1)
    BY <2>1, LenProperties
  <2> QED
    BY <2>1, <2>2
<1> HIDE DEF t
<1>2. IsFiniteSet(A) /\ Cardinality(A) \in Nat
  BY CountType, FS_CardinalityType
<1>3. CASE e \in K
  <2>1. B = A \cup {Len(s) + 1} /\ Len(s) + 1 \notin A
    BY <1>1, <1>3
  <2> HIDE DEF A, B
  <2>2. Cardinality(B) = Cardinality(A) + 1
    BY <1>2, <2>1, FS_AddElement
  <2> QED
    BY <1>3, <2>2 DEF Count, A, B, t
<1>4. CASE e \notin K
  <2>1. B = A
    BY <1>1, <1>4
  <2>2. Count(s, K) = Cardinality(A) /\ Count(t, K) = Cardinality(B)
    BY DEF Count
  <2> HIDE DEF A, B
  <2> QED
    BY <1>2, <1>4, <2>1, <2>2 DEF t
<1> QED
  BY <1>3, <1>4

\* the sequence without its i-th
Less(s, i) == SubSeq(s, 1, i - 1) \o SubSeq(s, i + 1, Len(s))

LEMMA LessIs ==
  ASSUME NEW S, NEW s \in Seq(S), NEW i \in DOMAIN s
  PROVE  /\ Less(s, i) \in Seq(S) /\ Len(Less(s, i)) = Len(s) - 1
         /\ i \in 1..Len(s) /\ Len(s) \in Nat
         /\ \A j \in DOMAIN Less(s, i) :
              j \in 1..(Len(s) - 1) /\ Less(s, i)[j] = IF j < i THEN s[j] ELSE s[j + 1]
<1> DEFINE a == SubSeq(s, 1, i - 1)
           b == SubSeq(s, i + 1, Len(s))
<1>1. /\ i \in 1..Len(s) /\ Len(s) \in Nat /\ \A j \in 1..Len(s) : s[j] \in S
  BY LenProperties, ElementOfSeq
<1>2. /\ a \in Seq(S) /\ Len(a) = i - 1 /\ \A j \in 1..(i - 1) : a[j] = s[j]
  <2>1. \A j \in 1..(i - 1) : s[j] \in S
    BY <1>1
  <2>2. 1 \in Int /\ i - 1 \in Int
    BY <1>1
  <2>3. /\ a \in Seq(S) /\ Len(a) = IF 1 <= i - 1 THEN i - 1 - 1 + 1 ELSE 0
        /\ \A j \in 1..(i - 1 - 1 + 1) : a[j] = s[1 + j - 1]
    BY <2>1, <2>2, SubSeqProperties
  <2> HIDE DEF a
  <2> QED
    BY <1>1, <2>3
<1>3. /\ b \in Seq(S) /\ Len(b) = Len(s) - i /\ \A j \in 1..(Len(s) - i) : b[j] = s[i + j]
  <2>1. \A j \in (i + 1)..Len(s) : s[j] \in S
    BY <1>1
  <2>2. i + 1 \in Int /\ Len(s) \in Int
    BY <1>1
  <2>3. /\ b \in Seq(S) /\ Len(b) = IF i + 1 <= Len(s) THEN Len(s) - (i + 1) + 1 ELSE 0
        /\ \A j \in 1..(Len(s) - (i + 1) + 1) : b[j] = s[i + 1 + j - 1]
    BY <2>1, <2>2, SubSeqProperties
  <2> HIDE DEF b
  <2> QED
    BY <1>1, <2>3
<1>4. Less(s, i) = a \o b
  BY DEF Less
<1> HIDE DEF a, b
<1>5. /\ a \o b \in Seq(S) /\ Len(a \o b) = Len(a) + Len(b)
      /\ \A j \in 1..(Len(a) + Len(b)) : (a \o b)[j] = IF j <= Len(a) THEN a[j] ELSE b[j - Len(a)]
  BY <1>2, <1>3, ConcatProperties
<1>6. DOMAIN (a \o b) = 1..(Len(s) - 1)
  BY <1>1, <1>2, <1>3, <1>5, LenProperties
<1>7. ASSUME NEW j \in 1..(Len(s) - 1)
      PROVE  (a \o b)[j] = IF j < i THEN s[j] ELSE s[j + 1]
  <2>1. CASE j < i
    BY <1>1, <1>2, <1>3, <1>5, <2>1
  <2>2. CASE ~(j < i)
    <3>1. j - (i - 1) \in 1..(Len(s) - i) /\ i + (j - (i - 1)) = j + 1
      BY <1>1, <2>2
    <3>2. b[j - (i - 1)] = s[i + (j - (i - 1))]
      BY <1>3, <3>1
    <3>3. j \in 1..(Len(a) + Len(b)) /\ ~(j <= Len(a)) /\ j - Len(a) = j - (i - 1)
      BY <1>1, <1>2, <1>3, <2>2
    <3>4. (a \o b)[j] = b[j - (i - 1)]
      BY <1>5, <3>3
    <3> QED
      BY <2>2, <3>1, <3>2, <3>4
  <2> QED
    BY <2>1, <2>2
<1>8. Len(a \o b) = Len(s) - 1
  BY <1>1, <1>2, <1>3, <1>5
<1>9. \A j \in DOMAIN (a \o b) :
        j \in 1..(Len(s) - 1) /\ (a \o b)[j] = IF j < i THEN s[j] ELSE s[j + 1]
  BY <1>6, <1>7, Zenon
<1> QED
  BY <1>1, <1>4, <1>5, <1>8, <1>9, Zenon

LEMMA CountLess ==
  ASSUME NEW S, NEW s \in Seq(S), NEW i \in DOMAIN s, NEW K
  PROVE  Count(s, K) = Count(Less(s, i), K) + (IF s[i] \in K THEN 1 ELSE 0)
<1> DEFINE t == Less(s, i)
           n == Len(s)
           A == {j \in DOMAIN t : t[j] \in K}
           B == {j \in DOMAIN s : s[j] \in K}
           At(j) == IF j < i THEN j ELSE j + 1
           f == [j \in A |-> At(j)]
<1>1. /\ t \in Seq(S) /\ n \in Nat /\ i \in 1..n /\ DOMAIN s = 1..n /\ DOMAIN t = 1..(n - 1)
      /\ \A j \in DOMAIN t : t[j] = s[At(j)] /\ At(j) \in (1..n) \ {i}
  <2>1. /\ t \in Seq(S) /\ Len(t) = n - 1 /\ i \in 1..n /\ n \in Nat
        /\ \A j \in DOMAIN t : j \in 1..(n - 1) /\ t[j] = IF j < i THEN s[j] ELSE s[j + 1]
    BY LessIs
  <2>2. DOMAIN s = 1..n /\ DOMAIN t = 1..(n - 1)
    BY <2>1, LenProperties
  <2> HIDE DEF t, n
  <2> QED
    BY <2>1, <2>2
<1> HIDE DEF t, n
<1>2. IsFiniteSet(A) /\ IsFiniteSet(B)
  BY <1>1, CountType
<1>3. f \in Bijection(A, B \ {i})
  <2>1. f \in [A -> B \ {i}]
    BY <1>1
  <2>2. ASSUME NEW j \in A, NEW k \in A, f[j] = f[k]
        PROVE  j = k
    BY <1>1, <2>2
  <2>3. ASSUME NEW k \in B \ {i}
        PROVE  \E j \in A : f[j] = k
    <3> DEFINE j == IF k < i THEN k ELSE k - 1
    <3>1. j \in 1..(n - 1) /\ At(j) = k
      BY <1>1, <2>3
    <3>2. j \in A
      BY <1>1, <2>3, <3>1
    <3>3. f[j] = k
      BY <3>1, <3>2
    <3> QED
      BY <3>2, <3>3
  <2> HIDE DEF f
  <2>4. f \in Injection(A, B \ {i}) /\ f \in Surjection(A, B \ {i})
    BY <2>1, <2>2, <2>3 DEF Injection, Surjection, IsInjective
  <2> QED
    BY <2>4 DEF Bijection
<1>4. Cardinality(B \ {i}) = Cardinality(A)
  BY <1>2, <1>3, FS_Bijection DEF ExistsBijection
<1>5. Cardinality(B \ {i}) = IF i \in B THEN Cardinality(B) - 1 ELSE Cardinality(B)
  BY <1>2, FS_RemoveElement
<1>6. i \in B <=> s[i] \in K
  BY <1>1
<1>7. Cardinality(A) \in Nat /\ Cardinality(B) \in Nat
  BY <1>2, FS_CardinalityType
<1>8. Count(s, K) = Cardinality(B) /\ Count(t, K) = Cardinality(A)
  BY DEF Count
<1> HIDE DEF A, B, f
<1> QED
  BY <1>4, <1>5, <1>6, <1>7, <1>8 DEF t

LEMMA MinMax ==
  ASSUME NEW a \in Int, NEW b \in Int
  PROVE  /\ Min({a, b}) \in {a, b} /\ Min({a, b}) <= a /\ Min({a, b}) <= b
         /\ Max({a, b}) \in {a, b} /\ Max({a, b}) >= a /\ Max({a, b}) >= b
<1>1. \E x \in {a, b} : \A y \in {a, b} : x <= y
  BY SMT
<1>2. \E x \in {a, b} : \A y \in {a, b} : x >= y
  BY SMT
<1>3. Min({a, b}) \in {a, b} /\ \A y \in {a, b} : Min({a, b}) <= y
  BY <1>1 DEF Min
<1>4. Max({a, b}) \in {a, b} /\ \A y \in {a, b} : Max({a, b}) >= y
  BY <1>2 DEF Max
<1> QED
  BY <1>3, <1>4

-----------------------------------------------------------------------------
(* What a step does to the counts.                                          *)

LEMMA EntryIn ==
  ASSUME NEW e \in Entry, NEW days, NEW boxes, NEW cs, NEW steps
  PROVE  e \in [day : days, mailbox : boxes, campaign : cs, step : steps]
           <=> e.day \in days /\ e.mailbox \in boxes /\ e.campaign \in cs /\ e.step \in steps
<1>1. e = [day |-> e.day, mailbox |-> e.mailbox, campaign |-> e.campaign, step |-> e.step]
  BY DEF Entry
<1> QED
  BY <1>1

LEMMA Added ==
  ASSUME plan \in Seq(Entry), NEW e \in Entry, plan' = Append(plan, e)
  PROVE  /\ plan' \in Seq(Entry)
         /\ DOMAIN plan' = DOMAIN plan \cup {Len(plan) + 1} /\ plan'[Len(plan) + 1] = e
         /\ \A i \in DOMAIN plan : plan'[i] = plan[i]
         /\ \A m \in ForecastMailbox : \A steps, d :
              FromMailbox(m, steps, d)' = FromMailbox(m, steps, d)
                + (IF e.mailbox = m /\ e.step \in steps /\ e.day = d THEN 1 ELSE 0)
         /\ \A c \in ForecastCampaign : \A step, days :
              ForCampaign(c, step, days)' = ForCampaign(c, step, days)
                + (IF e.campaign = c /\ e.step = step /\ e.day \in days THEN 1 ELSE 0)
<1>0. e.mailbox \in ForecastMailbox /\ e.campaign \in ForecastCampaign
  BY DEF Entry
<1>1. /\ plan' \in Seq(Entry) /\ DOMAIN plan = 1..Len(plan) /\ Len(plan) \in Nat
      /\ Len(plan') = Len(plan) + 1
      /\ DOMAIN plan' = 1..Len(plan') /\ plan'[Len(plan) + 1] = e
      /\ \A i \in DOMAIN plan : plan'[i] = plan[i]
  <2>1. plan' \in Seq(Entry) /\ DOMAIN plan = 1..Len(plan) /\ Len(plan) \in Nat
    BY AppendProperties, LenProperties
  <2> QED
    BY <2>1, AppendProperties, LenProperties
<1>2. ASSUME NEW m \in ForecastMailbox, NEW steps, NEW d
      PROVE  FromMailbox(m, steps, d)' = FromMailbox(m, steps, d)
                + (IF e.mailbox = m /\ e.step \in steps /\ e.day = d THEN 1 ELSE 0)
  <2> DEFINE K == [day : {d}, mailbox : {m}, campaign : ForecastCampaign, step : steps]
  <2>1. e \in K <=> /\ e.day \in {d} /\ e.mailbox \in {m}
                /\ e.campaign \in ForecastCampaign /\ e.step \in steps
    BY EntryIn
  <2>2. FromMailbox(m, steps, d) = Count(plan, K) /\ FromMailbox(m, steps, d)' = Count(plan', K)
    BY DEF FromMailbox, Count
  <2> HIDE DEF K
  <2>3. Count(Append(plan, e), K) = Count(plan, K) + (IF e \in K THEN 1 ELSE 0)
    BY CountAppend
  <2> QED
    BY <1>0, <2>1, <2>2, <2>3
<1>3. ASSUME NEW c \in ForecastCampaign, NEW step, NEW days
      PROVE  ForCampaign(c, step, days)' = ForCampaign(c, step, days)
                + (IF e.campaign = c /\ e.step = step /\ e.day \in days THEN 1 ELSE 0)
  <2> DEFINE K == [day : days, mailbox : ForecastMailbox, campaign : {c}, step : {step}]
  <2>1. e \in K <=> /\ e.day \in days /\ e.mailbox \in ForecastMailbox
                /\ e.campaign \in {c} /\ e.step \in {step}
    BY EntryIn
  <2>2. ForCampaign(c, step, days) = Count(plan, K) /\ ForCampaign(c, step, days)' = Count(plan', K)
    BY DEF ForCampaign, Count
  <2> HIDE DEF K
  <2>3. Count(Append(plan, e), K) = Count(plan, K) + (IF e \in K THEN 1 ELSE 0)
    BY CountAppend
  <2> QED
    BY <1>0, <2>1, <2>2, <2>3
<1> QED
  BY <1>1, <1>2, <1>3

LEMMA Counts ==
  ASSUME plan \in Seq(Entry)
  PROVE  /\ \A m, steps, d : FromMailbox(m, steps, d) \in Nat
         /\ \A c, step, days : ForCampaign(c, step, days) \in Nat
BY CountType DEF FromMailbox, ForCampaign

LEMMA NotAdded ==
  ASSUME plan' = plan
  PROVE  /\ \A m, steps, d : FromMailbox(m, steps, d)' = FromMailbox(m, steps, d)
         /\ \A c, step, days : ForCampaign(c, step, days)' = ForCampaign(c, step, days)
BY DEF FromMailbox, ForCampaign, Count

LEMMA NonePlanned ==
  /\ \A m, steps, d : (\A i \in DOMAIN plan : ~(plan[i].mailbox = m /\ plan[i].day = d
                                                  /\ plan[i].step \in steps))
                        => FromMailbox(m, steps, d) = 0
  /\ \A c, step, days : (\A i \in DOMAIN plan : ~(plan[i].campaign = c /\ plan[i].step = step
                                                    /\ plan[i].day \in days))
                          => ForCampaign(c, step, days) = 0
<1>1. ASSUME NEW m, NEW steps, NEW d,
             \A i \in DOMAIN plan : ~(plan[i].mailbox = m /\ plan[i].day = d
                                        /\ plan[i].step \in steps)
      PROVE  FromMailbox(m, steps, d) = 0
  <2>1. \A i \in DOMAIN plan :
          plan[i] \notin [day : {d}, mailbox : {m}, campaign : ForecastCampaign, step : steps]
    BY <1>1
  <2> QED
    BY <2>1, CountNone DEF FromMailbox
<1>2. ASSUME NEW c, NEW step, NEW days,
             \A i \in DOMAIN plan : ~(plan[i].campaign = c /\ plan[i].step = step
                                        /\ plan[i].day \in days)
      PROVE  ForCampaign(c, step, days) = 0
  <2>1. \A i \in DOMAIN plan :
          plan[i] \notin [day : days, mailbox : ForecastMailbox, campaign : {c}, step : {step}]
    BY <1>2
  <2> QED
    BY <2>1, CountNone DEF ForCampaign
<1> QED
  BY <1>1, <1>2

LEMMA WaitsIn ==
  ASSUME NEW w \in Wait, NEW c \in ForecastCampaign, NEW days
  PROVE  w \in [campaign : {c}, mailbox : ForecastMailbox, stepsSent : {1}, dueAt : days]
           <=> w.campaign = c /\ w.dueAt \in days
<1>1. w = [campaign |-> w.campaign, mailbox |-> w.mailbox, stepsSent |-> w.stepsSent,
           dueAt |-> w.dueAt]
      /\ w.mailbox \in ForecastMailbox /\ w.stepsSent = 1
  BY DEF Wait
<1> QED
  BY <1>1

LEMMA Queued ==
  ASSUME NEW s \in Seq(Wait), NEW c \in ForecastCampaign, NEW days
  PROVE  /\ Due(s, c, days) \in Nat
         /\ \A w \in Wait : Due(Append(s, w), c, days)
              = Due(s, c, days) + (IF w.campaign = c /\ w.dueAt \in days THEN 1 ELSE 0)
         /\ \A i \in DOMAIN s : Due(s, c, days)
              = Due(Less(s, i), c, days)
                + (IF s[i].campaign = c /\ s[i].dueAt \in days THEN 1 ELSE 0)
<1> DEFINE K == [campaign : {c}, mailbox : ForecastMailbox, stepsSent : {1}, dueAt : days]
<1>1. \A w \in Wait : w \in K <=> w.campaign = c /\ w.dueAt \in days
  BY WaitsIn
<1>2. \A q : Due(q, c, days) = Count(q, K)
  BY DEF Due
<1> HIDE DEF K
<1>3. Count(s, K) \in Nat
  BY CountType
<1>4. \A w \in Wait : Count(Append(s, w), K) = Count(s, K) + (IF w \in K THEN 1 ELSE 0)
  BY CountAppend
<1>5. \A i \in DOMAIN s : Count(s, K) = Count(Less(s, i), K) + (IF s[i] \in K THEN 1 ELSE 0)
  BY CountLess
<1>6. \A i \in DOMAIN s : s[i] \in Wait
  BY LenProperties, ElementOfSeq
<1>7. ASSUME NEW w \in Wait
      PROVE  Due(Append(s, w), c, days)
              = Due(s, c, days) + (IF w.campaign = c /\ w.dueAt \in days THEN 1 ELSE 0)
  BY <1>1, <1>2, <1>4
<1>8. ASSUME NEW i \in DOMAIN s
      PROVE  Due(s, c, days) = Due(Less(s, i), c, days)
                + (IF s[i].campaign = c /\ s[i].dueAt \in days THEN 1 ELSE 0)
  BY <1>1, <1>2, <1>5, <1>6
<1> QED
  BY <1>2, <1>3, <1>7, <1>8

LEMMA NoneQueued == \A c, days : Due(<<>>, c, days) = 0
BY CountNone DEF Due

LEMMA RoomOf ==
  ASSUME NEW found \in Inputs, NEW jobs \in [ForecastMailbox -> Nat],
         NEW m \in ForecastMailbox, NEW d \in Int, NEW r,
         r = Min({found.cap[m], found.grown[m] + d})
               - (IF d = 0 THEN found.sent[m] + jobs[m] ELSE 0)
  PROVE  r \in Int /\ Max({0, r}) \in Int /\ Max({0, r}) >= 0 /\ Max({0, r}) >= r
<1>1. /\ found.cap[m] \in Int /\ found.grown[m] + d \in Int /\ found.sent[m] \in Int
      /\ jobs[m] \in Int
  BY DEF Inputs
<1>2. Min({found.cap[m], found.grown[m] + d}) \in Int
  BY <1>1, MinMax
<1>3. r \in Int
  BY <1>1, <1>2
<1>4. Max({0, r}) \in {0, r} /\ Max({0, r}) >= 0 /\ Max({0, r}) >= r
  <2>1. 0 \in Int
    OBVIOUS
  <2> QED
    BY <1>3, <2>1, MinMax, Zenon
<1> QED
  BY <1>3, <1>4

LEMMA RoomTyped ==
  ASSUME PlanTyped, NEW m \in ForecastMailbox, NEW d \in Int
  PROVE  Room(m, d) \in Int /\ Max({0, Room(m, d)}) \in Int
           /\ Max({0, Room(m, d)}) >= 0 /\ Max({0, Room(m, d)}) >= Room(m, d)
<1>1. /\ input \in Inputs /\ booked \in [ForecastMailbox -> Nat]
      /\ Room(m, d) = Min({input.cap[m], input.grown[m] + d})
                        - (IF d = 0 THEN input.sent[m] + booked[m] ELSE 0)
  BY DEF PlanTyped, Room, CapOn
<1> QED
  BY <1>1, RoomOf

LEMMA RoomSame ==
  ASSUME UNCHANGED <<booked, input>>
  PROVE  \A m, d : Room(m, d)' = Room(m, d)
BY DEF Room, CapOn

-----------------------------------------------------------------------------
(* The steps.                                                               *)

LEMMA Started ==
  /\ Still \in Plays /\ Still.pc = "idle" /\ Still.offset = 0 /\ Still.pending = <<>>
  /\ Still.next = <<>>
  /\ \A pc \in {"idle", "load"} :
       /\ [Still EXCEPT !.pc = pc] \in Plays
       /\ [Still EXCEPT !.pc = pc].pc = pc
       /\ [Still EXCEPT !.pc = pc].offset = 0 /\ [Still EXCEPT !.pc = pc].next = <<>>
  /\ Still = [Still EXCEPT !.pc = "idle"]
  /\ NoInput \in Inputs /\ NoBookings \in [ForecastMailbox -> Nat]
<1>1. <<>> \in Seq(Wait) /\ 0 \in 0..(ForecastDays + 1) /\ {} \in SUBSET ForecastCampaign
      /\ {} \in SUBSET Offsets
      /\ [m \in ForecastMailbox |-> 0] \in [ForecastMailbox -> Int]
      /\ [m \in ForecastMailbox |-> 0] \in [ForecastMailbox -> Nat]
      /\ [c \in ForecastCampaign |-> 0] \in [ForecastCampaign -> Nat]
  BY EmptySeq, ForecastAssumption
<1>2. Still \in Plays
  BY <1>1 DEF Still, Plays, NoBookings
<1>3. NoInput \in Inputs /\ NoBookings \in [ForecastMailbox -> Nat]
  BY <1>1 DEF NoInput, Inputs, NoBookings
<1>4. Still.pc = "idle" /\ Still.offset = 0 /\ Still.pending = <<>> /\ Still.next = <<>>
  BY DEF Still
<1>5. ASSUME NEW pc \in {"idle", "load"}
      PROVE  /\ [Still EXCEPT !.pc = pc] \in Plays
             /\ [Still EXCEPT !.pc = pc].pc = pc
             /\ [Still EXCEPT !.pc = pc].offset = 0 /\ [Still EXCEPT !.pc = pc].next = <<>>
  BY <1>2, <1>4 DEF Plays
<1>6. Still = [Still EXCEPT !.pc = "idle"]
  BY <1>2, <1>4 DEF Plays
<1> QED
  BY <1>2, <1>3, <1>4, <1>5, <1>6

LEMMA PlanStarts == ForecastInit => IPlan
<1> SUFFICES ASSUME ForecastInit PROVE IPlan
  OBVIOUS
<1>1. booked = NoBookings /\ input = NoInput /\ play = Still /\ plan = <<>>
  BY DEF ForecastInit
<1>2. PlanTyped
  <2>1. plan \in Seq(Entry)
    BY <1>1, EmptySeq
  <2> QED
    BY <1>1, <2>1, Started DEF PlanTyped
<1>3. ~Playing
  BY <1>1, Started DEF Playing
<1> QED
  BY <1>2, <1>3 DEF IPlan

LEMMA AsksStep == ASSUME PlanTyped, StatusReadsQueue PROVE IPlan'
<1>1. play = Still /\ input' = input /\ plan' = plan
  BY DEF StatusReadsQueue
<1>2. /\ booked' \in [ForecastMailbox -> Nat]
      /\ play' = Still \/ play' = [Still EXCEPT !.pc = "load"]
  BY <1>1, ForecastAssumption DEF StatusReadsQueue, PlanTyped
<1>3. plan = <<>>
  BY <1>1, Started DEF PlanTyped
<1>4. play'.pc \in {"idle", "load"} /\ play' = [Still EXCEPT !.pc = play'.pc] /\ play' \in Plays
  BY <1>2, Started
<1>5. PlanTyped'
  BY <1>1, <1>2, <1>3, <1>4 DEF PlanTyped
<1>6. ~Playing'
  BY <1>4 DEF Playing
<1> QED
  BY <1>5, <1>6 DEF IPlan

LEMMA AnswersStep == ASSUME PlanTyped, StatusAnswers PROVE IPlan'
<1>1. play' = Still /\ input' = NoInput /\ plan' = <<>> /\ booked' = NoBookings
  BY DEF StatusAnswers
<1>2. PlanTyped'
  <2>1. plan' \in Seq(Entry)
    BY <1>1, EmptySeq
  <2> QED
    BY <1>1, <2>1, Started DEF PlanTyped
<1>3. ~Playing'
  BY <1>1, Started DEF Playing
<1> QED
  BY <1>2, <1>3 DEF IPlan

LEMMA InputTyped == ASSUME PlanTyped, loadForecastInput PROVE input' \in Inputs
<1>1. PICK cap \in [ForecastMailbox -> 1..MaxCap], grown \in [ForecastMailbox -> {1, MaxCap}],
           sent \in [ForecastMailbox -> {0, MaxCap}],
           open \in [ForecastCampaign -> {Offsets, Offsets \ {0}}],
           left \in {f \in [ForecastCampaign -> 0..Max({FirstLeft[c] : c \in ForecastCampaign})] :
                       \A c \in ForecastCampaign : f[c] \in {0, FirstLeft[c]}},
           due \in {<<>>} \cup {<<f>> : f \in {g \in FollowUp :
                       /\ g.mailbox \in MailboxIds[g.campaign]
                       /\ g.stepsSent = 1 /\ g.dueAt \in {-1, 1}}} :
        /\ \A m \in ForecastMailbox : grown[m] <= cap[m]
        /\ input' = [cap |-> cap, grown |-> grown, sent |-> sent, followUps |-> due,
                     open |-> open, left |-> left]
  BY Zenon DEF loadForecastInput
<1>2. cap \in [ForecastMailbox -> Int] /\ grown \in [ForecastMailbox -> Int]
      /\ sent \in [ForecastMailbox -> Int] /\ open \in [ForecastCampaign -> SUBSET Offsets]
  <2>1. 1..MaxCap \subseteq Int /\ {1, MaxCap} \subseteq Int /\ {0, MaxCap} \subseteq Int
    BY ForecastAssumption
  <2>2. \A c \in ForecastCampaign : open[c] \in SUBSET Offsets
    OBVIOUS
  <2>3. open \in [ForecastCampaign -> SUBSET Offsets]
    BY <2>2
  <2>4. \A m \in ForecastMailbox : cap[m] \in Int /\ grown[m] \in Int /\ sent[m] \in Int
    BY <2>1
  <2> QED
    BY <2>3, <2>4
<1>3. left \in [ForecastCampaign -> Nat]
  <2>1. \A c \in ForecastCampaign : left[c] \in {0, FirstLeft[c]} /\ FirstLeft[c] \in Nat
    BY ForecastAssumption
  <2>2. left = [c \in ForecastCampaign |-> left[c]]
    OBVIOUS
  <2>3. \A c \in ForecastCampaign : left[c] \in Nat
    BY <2>1
  <2> QED
    BY <2>2, <2>3
<1>4. due \in Seq(Wait)
  <2>1. CASE due = <<>>
    BY <2>1, EmptySeq
  <2>2. ASSUME NEW f \in FollowUp, f.stepsSent = 1, f.dueAt \in {-1, 1}, due = <<f>>
        PROVE  due \in Seq(Wait)
    <3>1. f \in Wait
      BY <2>2 DEF FollowUp, Wait
    <3> QED
      BY <2>2, <3>1
  <2> QED
    BY <2>1, <2>2
<1> QED
  BY <1>1, <1>2, <1>3, <1>4 DEF Inputs

LEMMA LoadStep == ASSUME PlanTyped, loadForecastInput PROVE IPlan'
<1>1. /\ play.pc = "load" /\ UNCHANGED <<booked, plan>>
      /\ play' = [play EXCEPT !.pc = "day", !.pending = input'.followUps, !.left = input'.left]
  BY DEF loadForecastInput
<1>2. plan' = <<>> /\ play \in Plays /\ play = [Still EXCEPT !.pc = "load"]
  BY <1>1 DEF PlanTyped
<1>3. /\ input' \in Inputs /\ input'.followUps \in Seq(Wait)
      /\ input'.left \in [ForecastCampaign -> Nat]
  BY InputTyped DEF Inputs
<1>4. /\ play' \in Plays /\ play'.pc = "day" /\ play'.offset = 0 /\ play'.next = <<>>
      /\ play'.pending = input'.followUps /\ play'.left = input'.left
  <2>1. play.offset = 0 /\ play.next = <<>>
    BY <1>2, Started
  <2> QED
    BY <1>1, <1>2, <1>3, <2>1 DEF Plays
<1>5. PlanTyped'
  BY <1>1, <1>2, <1>3, <1>4, EmptySeq DEF PlanTyped
<1>6. DOMAIN plan' = {}
  BY <1>2
<1>7. /\ \A m, steps, d : FromMailbox(m, steps, d)' = 0
      /\ \A c, step, days : ForCampaign(c, step, days)' = 0
  <2>1. /\ \A m, steps, d : Count(plan', [day : {d}, mailbox : {m}, campaign : ForecastCampaign,
                                          step : steps]) = 0
        /\ \A c, step, days : Count(plan', [day : days, mailbox : ForecastMailbox,
                                            campaign : {c}, step : {step}]) = 0
    BY <1>6, CountNone
  <2> QED
    BY <2>1 DEF FromMailbox, ForCampaign, Count
<1>8. PlanDated' /\ FollowUpsFirst' /\ DayOver'
  BY <1>4, <1>6 DEF PlanDated, FollowUpsFirst, DayOver, Inside
<1>9. RoomKept'
  <2>1. \A m \in ForecastMailbox, d \in Offsets : Max({0, Room(m, d)})' >= 0
    <3> SUFFICES ASSUME NEW m \in ForecastMailbox, NEW d \in Offsets
                 PROVE  Max({0, Room(m, d)})' >= 0
      OBVIOUS
    <3>1. /\ d \in Int /\ booked' \in [ForecastMailbox -> Nat]
          /\ Room(m, d)' = Min({input'.cap[m], input'.grown[m] + d})
                             - (IF d = 0 THEN input'.sent[m] + booked'[m] ELSE 0)
      BY <1>5 DEF Offsets, Room, CapOn, PlanTyped
    <3>2. Max({0, Room(m, d)'}) >= 0
      BY <1>3, <3>1, RoomOf
    <3> QED
      BY <3>2 DEF Max
  <2> QED
    BY <1>4, <1>7, <2>1 DEF RoomKept, Inside
<1>10. LeadsKept' /\ WaitsKept'
  <2>1. \A days : \A c \in ForecastCampaign : Due(play'.next, c, days) = 0
    BY <1>4, NoneQueued
  <2>2. \A days : \A c \in ForecastCampaign : Due(play'.pending, c, days) \in Nat
    BY <1>3, <1>4, Queued
  <2> QED
    BY <1>3, <1>4, <1>7, <2>1, <2>2 DEF LeadsKept, WaitsKept, Waiting
<1>11. PartKept'
  BY <1>4, <1>7, ForecastAssumption DEF PartKept
<1> QED
  BY <1>5, <1>8, <1>9, <1>10, <1>11 DEF IPlan

\* the plan stands and what waits is moved, not lost
LEMMA Held ==
  ASSUME PlanTyped, LeadsKept, WaitsKept, UNCHANGED <<plan, input>>, play'.left = play.left,
         \A days : \A c \in ForecastCampaign :
           /\ Due(play.pending, c, days) \in Nat /\ Due(play.next, c, days) \in Nat
           /\ Due(play'.pending, c, days) \in Nat /\ Due(play'.next, c, days) \in Nat
           /\ Due(play'.pending, c, days) + Due(play'.next, c, days)
                = Due(play.pending, c, days) + Due(play.next, c, days)
  PROVE  LeadsKept' /\ WaitsKept'
<1>1. \A c, step, days : ForCampaign(c, step, days)' = ForCampaign(c, step, days)
  BY NotAdded
<1>2. LeadsKept'
  <2> SUFFICES ASSUME NEW c \in ForecastCampaign
               PROVE  /\ ForCampaign(c, 1, Offsets)' + play'.left[c] = input'.left[c]
                      /\ ForCampaign(c, 2, Offsets)' + Waiting(c)'
                           = Due(input'.followUps, c, Int) + ForCampaign(c, 1, Offsets)'
    BY DEF LeadsKept
  <2>1. Waiting(c)' = Waiting(c)
    BY DEF Waiting
  <2> QED
    BY <1>1, <2>1 DEF LeadsKept
<1>3. WaitsKept'
  <2> SUFFICES ASSUME NEW c \in ForecastCampaign, NEW d \in Offsets
               PROVE  ForCampaign(c, 2, 0..d)' + Due(play'.pending, c, -1..d)
                          + Due(play'.next, c, -1..d)
                        <= ForCampaign(c, 1, 0..(d - FirstWait[c]))'
                             + Due(input'.followUps, c, -1..d)
    BY DEF WaitsKept
  <2>1. /\ ForCampaign(c, 2, 0..d)' = ForCampaign(c, 2, 0..d)
        /\ ForCampaign(c, 1, 0..(d - FirstWait[c]))' = ForCampaign(c, 1, 0..(d - FirstWait[c]))
        /\ Due(input'.followUps, c, -1..d) = Due(input.followUps, c, -1..d)
    BY <1>1
  <2>2. ForCampaign(c, 2, 0..d) + Due(play.pending, c, -1..d) + Due(play.next, c, -1..d)
          <= ForCampaign(c, 1, 0..(d - FirstWait[c])) + Due(input.followUps, c, -1..d)
    BY DEF WaitsKept
  <2>3. /\ ForCampaign(c, 2, 0..d) + (Due(play'.pending, c, -1..d) + Due(play'.next, c, -1..d))
             <= ForCampaign(c, 1, 0..(d - FirstWait[c])) + Due(input.followUps, c, -1..d)
    <3>1. ForCampaign(c, 2, 0..d) \in Nat
      BY Counts DEF PlanTyped
    <3> QED
      BY <2>2, <3>1
  <2>4. ForCampaign(c, 2, 0..d) \in Nat
    BY Counts DEF PlanTyped
  <2> QED
    BY <2>1, <2>3, <2>4
<1> QED
  BY <1>2, <1>3


\* the fields of the play, typed
LEMMA PlayFields ==
  ASSUME PlanTyped
  PROVE  /\ play \in Plays /\ input \in Inputs /\ plan \in Seq(Entry) /\ play.offset \in Nat
         /\ play.pending \in Seq(Wait) /\ play.next \in Seq(Wait)
         /\ play.capLeft \in [ForecastMailbox -> Int]
         /\ play.newLeft \in [ForecastCampaign -> Nat] /\ play.left \in [ForecastCampaign -> Nat]
         /\ play.round \subseteq ForecastCampaign
         /\ input.open \in [ForecastCampaign -> SUBSET Offsets]
         /\ Inside => play.offset \in Offsets
         /\ DOMAIN plan = 1..Len(plan) /\ \A i \in DOMAIN plan :
              plan[i] \in Entry /\ plan[i].day \in Nat /\ plan[i].step \in {1, 2}
         /\ \A i \in DOMAIN play.pending : play.pending[i] \in Wait
         /\ \A i \in DOMAIN play.next : play.next[i] \in Wait
<1>1. /\ play \in Plays /\ input \in Inputs /\ plan \in Seq(Entry)
      /\ Inside => play.offset <= ForecastDays
  BY DEF PlanTyped, Inside
<1>2. /\ play.offset \in 0..(ForecastDays + 1)
      /\ play.pending \in Seq(Wait) /\ play.next \in Seq(Wait)
      /\ play.capLeft \in [ForecastMailbox -> Int]
      /\ play.newLeft \in [ForecastCampaign -> Nat] /\ play.left \in [ForecastCampaign -> Nat]
      /\ play.round \subseteq ForecastCampaign
  BY <1>1 DEF Plays
<1>3. input.open \in [ForecastCampaign -> SUBSET Offsets]
  BY <1>1 DEF Inputs
<1>4. play.offset \in Nat /\ (Inside => play.offset \in Offsets)
  BY <1>1, <1>2, ForecastAssumption DEF Offsets
<1>5. /\ DOMAIN plan = 1..Len(plan)
      /\ \A i \in DOMAIN plan :
           plan[i] \in Entry /\ plan[i].day \in Nat /\ plan[i].step \in {1, 2}
  <2>1. DOMAIN plan = 1..Len(plan) /\ \A i \in DOMAIN plan : plan[i] \in Entry
    BY <1>1, LenProperties, ElementOfSeq
  <2>2. \A e \in Entry : e.day \in Nat /\ e.step \in {1, 2}
    BY DEF Entry, Offsets
  <2> QED
    BY <2>1, <2>2
<1>6. \A s \in Seq(Wait) : \A i \in DOMAIN s : s[i] \in Wait
  BY LenProperties, ElementOfSeq
<1> QED
  BY <1>1, <1>2, <1>3, <1>4, <1>5, <1>6

LEMMA StartDayStep == ASSUME IPlan, StartDay PROVE IPlan'
<1>1. /\ play.pc = "day" /\ play.offset <= ForecastDays
      /\ play' = [play EXCEPT
           !.pc = "followUps",
           !.capLeft = [m \in ForecastMailbox |-> Room(m, play.offset)]]
      /\ UNCHANGED <<booked, input, plan>>
  BY DEF StartDay, Room
<1>2. /\ PlanTyped /\ PlanDated /\ RoomKept /\ LeadsKept /\ WaitsKept /\ PartKept
      /\ FollowUpsFirst
  BY <1>1 DEF IPlan, Playing
<1>3. [m \in ForecastMailbox |-> Room(m, play.offset)] \in [ForecastMailbox -> Int]
  <2>1. play.offset \in Int
    BY <1>2, PlayFields
  <2>2. \A m \in ForecastMailbox : Room(m, play.offset) \in Int
    BY <1>2, <2>1, RoomTyped, Zenon
  <2> QED
    BY <2>2
<1>4. /\ play' \in Plays /\ play'.pc = "followUps" /\ play'.offset = play.offset
      /\ play'.capLeft = [m \in ForecastMailbox |-> Room(m, play.offset)]
      /\ play'.pending = play.pending /\ play'.next = play.next /\ play'.left = play.left
  BY <1>1, <1>2, <1>3, PlayFields DEF Plays
<1>5. PlanTyped'
  BY <1>1, <1>2, <1>4 DEF PlanTyped
<1>6. \A i \in DOMAIN plan : plan[i].day # play.offset
  BY <1>1, <1>2, PlayFields DEF PlanDated
<1>7. PlanDated'
  BY <1>1, <1>2, <1>4, <1>6 DEF PlanDated
<1>8. \A m, d : Room(m, d)' = Room(m, d)
  BY <1>1, RoomSame
<1>9. RoomKept'
  <2>1. \A m, steps, d : FromMailbox(m, steps, d)' = FromMailbox(m, steps, d)
    BY <1>1, NotAdded
  <2>2. \A m \in ForecastMailbox, d \in Offsets :
          FromMailbox(m, {1, 2}, d)' <= Max({0, Room(m, d)'})
    BY <1>2, <1>8, <2>1 DEF RoomKept
  <2>3. PICK t \in Nat : t = play.offset
    BY <1>2, PlayFields
  <2>4. \A m \in ForecastMailbox : FromMailbox(m, {1, 2}, t)' = 0
    <3>1. \A m \in ForecastMailbox : FromMailbox(m, {1, 2}, t) = 0
      BY <1>6, <2>3, NonePlanned
    <3> QED
      BY <2>1, <3>1
  <2>5. \A m \in ForecastMailbox :
          play'.capLeft[m] = Room(m, t)' - FromMailbox(m, {1, 2}, t)'
    <3>1. \A m \in ForecastMailbox : Room(m, t) \in Int /\ play'.capLeft[m] = Room(m, t)
      BY <1>3, <1>4, <2>3
    <3> QED
      BY <1>8, <2>4, <3>1
  <2>6. t = play'.offset
    BY <1>4, <2>3
  <2> QED
    BY <2>2, <2>5, <2>6 DEF RoomKept, Max
<1>10. LeadsKept' /\ WaitsKept'
  <2>1. \A days : \A c \in ForecastCampaign :
           Due(play.pending, c, days) \in Nat /\ Due(play.next, c, days) \in Nat
    BY <1>2, PlayFields, Queued
  <2> QED
    BY <1>1, <1>2, <1>4, <2>1, Held
<1>11. PartKept'
  BY <1>1, <1>2, <1>4, NotAdded DEF PartKept
<1>12. FollowUpsFirst' /\ DayOver'
  <2>1. DOMAIN play'.next = {}
    BY <1>1, <1>2, <1>4 DEF FollowUpsFirst
  <2> QED
    BY <1>4, <2>1 DEF FollowUpsFirst, DayOver
<1> QED
  BY <1>5, <1>7, <1>9, <1>10, <1>11, <1>12 DEF IPlan

LEMMA StartFirstsStep == ASSUME IPlan, StartFirsts PROVE IPlan'
<1> DEFINE share == [c \in ForecastCampaign |->
                       IF Open(c) THEN Min({play.left[c], MaxNewLeads[c]}) ELSE 0]
<1>1. /\ play.pc = "followUps" /\ play.pending = <<>>
      /\ play' = [play EXCEPT !.pc = "firsts", !.newLeft = share,
                              !.round = {c \in ForecastCampaign : share[c] > 0}]
      /\ UNCHANGED <<booked, input, plan>>
  BY DEF StartFirsts
<1>2. /\ PlanTyped /\ PlanDated /\ RoomKept /\ LeadsKept /\ WaitsKept /\ PartKept
      /\ FollowUpsFirst
  BY <1>1 DEF IPlan, Playing
<1>3. \A c \in ForecastCampaign :
        /\ MaxNewLeads[c] \in Nat /\ play.left[c] \in Nat
        /\ share[c] \in Nat /\ share[c] <= play.left[c] /\ share[c] <= MaxNewLeads[c]
        /\ share[c] > 0 => Open(c)
        /\ Open(c) => share[c] = play.left[c] \/ share[c] = MaxNewLeads[c]
  <2> SUFFICES ASSUME NEW c \in ForecastCampaign
               PROVE  /\ MaxNewLeads[c] \in Nat /\ play.left[c] \in Nat
                      /\ share[c] \in Nat /\ share[c] <= play.left[c]
                      /\ share[c] <= MaxNewLeads[c] /\ (share[c] > 0 => Open(c))
                      /\ Open(c) => share[c] = play.left[c] \/ share[c] = MaxNewLeads[c]
    OBVIOUS
  <2>1. MaxNewLeads[c] \in Nat /\ play.left[c] \in Nat
    BY <1>2, PlayFields, ForecastAssumption
  <2>2. /\ Min({play.left[c], MaxNewLeads[c]}) \in {play.left[c], MaxNewLeads[c]}
        /\ Min({play.left[c], MaxNewLeads[c]}) <= play.left[c]
        /\ Min({play.left[c], MaxNewLeads[c]}) <= MaxNewLeads[c]
    <3>1. play.left[c] \in Int /\ MaxNewLeads[c] \in Int
      BY <2>1
    <3> QED
      BY <3>1, MinMax, Zenon
  <2>3. share[c] = IF Open(c) THEN Min({play.left[c], MaxNewLeads[c]}) ELSE 0
    OBVIOUS
  <2> HIDE DEF share
  <2> QED
    BY <2>1, <2>2, <2>3
<1>4. share \in [ForecastCampaign -> Nat]
  <2>1. share = [c \in ForecastCampaign |-> share[c]]
    OBVIOUS
  <2> HIDE DEF share
  <2> QED
    BY <1>3, <2>1
<1> HIDE DEF share
<1>5. /\ play' \in Plays /\ play'.pc = "firsts" /\ play'.offset = play.offset
      /\ play'.capLeft = play.capLeft /\ play'.newLeft = share
      /\ play'.round = {c \in ForecastCampaign : share[c] > 0}
      /\ play'.pending = play.pending /\ play'.next = play.next /\ play'.left = play.left
  BY <1>1, <1>2, <1>4, PlayFields DEF Plays
<1>6. PICK t \in Nat : t = play.offset
  BY <1>2, PlayFields
<1>7. /\ \A m, steps, d : FromMailbox(m, steps, d)' = FromMailbox(m, steps, d)
      /\ \A c, step, days : ForCampaign(c, step, days)' = ForCampaign(c, step, days)
      /\ \A m, d : Room(m, d)' = Room(m, d)
  BY <1>1, NotAdded, RoomSame
<1>8. PlanTyped'
  BY <1>1, <1>2, <1>5 DEF PlanTyped
<1>9. PlanDated'
  BY <1>1, <1>2, <1>5 DEF PlanDated
<1>10. RoomKept'
  <2>1. \A m \in ForecastMailbox, d \in Offsets :
          FromMailbox(m, {1, 2}, d)' <= Max({0, Room(m, d)'})
    BY <1>2, <1>7 DEF RoomKept
  <2>2. \A m \in ForecastMailbox :
          play'.capLeft[m] = Room(m, t)' - FromMailbox(m, {1, 2}, t)'
    BY <1>1, <1>2, <1>5, <1>6, <1>7 DEF RoomKept, Inside
  <2>3. t = play'.offset
    BY <1>5, <1>6
  <2> QED
    BY <2>1, <2>2, <2>3 DEF RoomKept, Max
<1>11. LeadsKept' /\ WaitsKept'
  <2>1. \A days : \A c \in ForecastCampaign :
           Due(play.pending, c, days) \in Nat /\ Due(play.next, c, days) \in Nat
    BY <1>2, PlayFields, Queued
  <2> QED
    BY <1>1, <1>2, <1>5, <2>1, Held
<1>12. PartKept'
  <2>1. \A c \in ForecastCampaign : ForCampaign(c, 1, {t}) = 0
    <3>1. \A i \in DOMAIN plan : plan[i].day = t => plan[i].step = 2
      BY <1>1, <1>2, <1>6 DEF PlanDated
    <3> QED
      BY <3>1, NonePlanned
  <2>2. \A c \in ForecastCampaign, d \in Offsets : ForCampaign(c, 1, {d})' <= MaxNewLeads[c]
    BY <1>2, <1>7 DEF PartKept
  <2>3. t = play'.offset /\ \A c : Open(c)' <=> Open(c)
    BY <1>1, <1>5, <1>6 DEF Open
  <2>4. ASSUME NEW c \in ForecastCampaign
        PROVE  /\ play'.newLeft[c] <= play'.left[c]
               /\ ForCampaign(c, 1, {t})' + play'.newLeft[c] <= MaxNewLeads[c]
               /\ play'.newLeft[c] > 0 => Open(c)'
               /\ Open(c)' => \/ play'.newLeft[c] = play'.left[c]
                              \/ play'.newLeft[c] = MaxNewLeads[c] - ForCampaign(c, 1, {t})'
    <3>1. ForCampaign(c, 1, {t})' = 0
      BY <1>7, <2>1
    <3>2. /\ play'.newLeft[c] = share[c] /\ play'.left[c] = play.left[c]
          /\ Open(c)' <=> Open(c)
      BY <1>5, <2>3
    <3>3. /\ MaxNewLeads[c] \in Nat /\ share[c] \in Nat /\ share[c] <= play.left[c]
          /\ share[c] <= MaxNewLeads[c] /\ (share[c] > 0 => Open(c))
          /\ Open(c) => share[c] = play.left[c] \/ share[c] = MaxNewLeads[c]
      BY <1>3
    <3> QED
      BY <3>1, <3>2, <3>3
  <2>5. /\ \A c \in play'.round : play'.newLeft[c] > 0
        /\ play'.round = {} => \A c \in ForecastCampaign : play'.newLeft[c] = 0
    <3>1. play'.round = {} => \A c \in ForecastCampaign : ~(share[c] > 0) /\ share[c] \in Nat
      BY <1>3, <1>5
    <3> QED
      BY <1>5, <3>1
  <2> QED
    BY <2>2, <2>3, <2>4, <2>5 DEF PartKept
<1>13. FollowUpsFirst' /\ DayOver'
  <2>1. \A i \in DOMAIN play.next : PutOff(play.next[i], t)
    BY <1>1, <1>2, <1>6 DEF FollowUpsFirst, Inside
  <2>2. \A f : PutOff(f, t) => PutOff(f, t)'
    BY <1>1, <1>5, <1>7 DEF PutOff
  <2>3. t = play'.offset
    BY <1>5, <1>6
  <2>4. (\A i \in DOMAIN play.next : PutOff(play.next[i], t))'
    BY <1>5, <2>1, <2>2
  <2> QED
    BY <1>1, <1>5, <2>3, <2>4 DEF FollowUpsFirst, DayOver, PutOff
<1> QED
  BY <1>8, <1>9, <1>10, <1>11, <1>12, <1>13 DEF IPlan

LEMMA EndDayStep == ASSUME IPlan, EndDay PROVE IPlan'
<1>1. /\ play.pc = "firsts" /\ play.round = {}
      /\ play' = [play EXCEPT !.pc = "day", !.offset = @ + 1, !.pending = play.next,
                              !.next = <<>>]
      /\ UNCHANGED <<booked, input, plan>>
  BY DEF EndDay
<1>2. /\ PlanTyped /\ PlanDated /\ RoomKept /\ LeadsKept /\ WaitsKept /\ PartKept
      /\ FollowUpsFirst
  BY <1>1 DEF IPlan, Playing
<1>3. PICK t \in Nat : t = play.offset /\ t \in Offsets
  BY <1>1, <1>2, PlayFields DEF Inside
<1>4. /\ play' \in Plays /\ play'.pc = "day" /\ play'.offset = t + 1
      /\ play'.capLeft = play.capLeft
      /\ play'.pending = play.next /\ play'.next = <<>> /\ play'.left = play.left
  <2>1. t + 1 \in 0..(ForecastDays + 1) /\ <<>> \in Seq(Wait)
    BY <1>3, ForecastAssumption, EmptySeq DEF Offsets
  <2> QED
    BY <1>1, <1>2, <1>3, <2>1, PlayFields DEF Plays
<1>5. /\ \A m, steps, d : FromMailbox(m, steps, d)' = FromMailbox(m, steps, d)
      /\ \A c, step, days : ForCampaign(c, step, days)' = ForCampaign(c, step, days)
      /\ \A m, d : Room(m, d)' = Room(m, d)
  BY <1>1, NotAdded, RoomSame
<1>6. PlanTyped'
  BY <1>1, <1>2, <1>4 DEF PlanTyped
<1>7. PlanDated'
  <2>1. \A i \in DOMAIN plan : plan[i].day \in Nat /\ plan[i].day <= t
    BY <1>2, <1>3, PlayFields DEF PlanDated
  <2>2. \A i \in DOMAIN plan : plan[i].day <= t + 1 /\ plan[i].day < t + 1
    BY <2>1
  <2> QED
    BY <1>1, <1>2, <1>4, <2>2 DEF PlanDated
<1>8. RoomKept'
  <2>1. \A m \in ForecastMailbox, d \in Offsets :
          FromMailbox(m, {1, 2}, d)' <= Max({0, Room(m, d)'})
    BY <1>2, <1>5 DEF RoomKept
  <2> QED
    BY <1>4, <2>1 DEF RoomKept, Max, Inside
<1>9. LeadsKept' /\ WaitsKept'
  <2>1. \A days : \A c \in ForecastCampaign :
          /\ Due(play.pending, c, days) = 0 /\ Due(play'.next, c, days) = 0
          /\ Due(play.next, c, days) \in Nat /\ play'.pending = play.next
    BY <1>1, <1>2, <1>4, PlayFields, Queued, NoneQueued DEF FollowUpsFirst
  <2>2. \A days : \A c \in ForecastCampaign :
          /\ Due(play.pending, c, days) \in Nat /\ Due(play.next, c, days) \in Nat
          /\ Due(play'.pending, c, days) \in Nat /\ Due(play'.next, c, days) \in Nat
          /\ Due(play'.pending, c, days) + Due(play'.next, c, days)
               = Due(play.pending, c, days) + Due(play.next, c, days)
    BY <2>1
  <2> QED
    BY <1>1, <1>2, <1>4, <2>2, Held
<1>10. PartKept'
  BY <1>2, <1>4, <1>5 DEF PartKept
<1>11. FollowUpsFirst'
  BY <1>4 DEF FollowUpsFirst, Inside
<1>12. DayOver'
  <2>1. play'.offset - 1 = t
    BY <1>4
  <2>2. ASSUME NEW c \in ForecastCampaign, play'.left[c] > 0, t \in input'.open[c],
               ForCampaign(c, 1, {t})' < MaxNewLeads[c]
        PROVE  Full(c)'
    <3>1. /\ play.newLeft[c] = 0 /\ Open(c) /\ play.left[c] > 0
          /\ ForCampaign(c, 1, {t}) < MaxNewLeads[c]
      BY <1>1, <1>2, <1>3, <1>4, <1>5, <2>2 DEF PartKept, Open
    <3>2. \/ play.newLeft[c] = 0 /\ Full(c)
          \/ play.newLeft[c] = play.left[c]
          \/ play.newLeft[c] = MaxNewLeads[c] - ForCampaign(c, 1, {t})
      BY <1>1, <1>2, <1>3, <3>1 DEF PartKept
    <3>3. MaxNewLeads[c] \in Nat /\ play.left[c] \in Nat /\ ForCampaign(c, 1, {t}) \in Nat
      BY <1>2, PlayFields, Counts, ForecastAssumption
    <3>4. Full(c)
      BY <3>1, <3>2, <3>3
    <3> QED
      BY <1>4, <3>4 DEF Full
  <2>3. \A i \in DOMAIN play.next : PutOff(play.next[i], t)
    BY <1>1, <1>2, <1>3 DEF FollowUpsFirst, Inside
  <2>4. \A f : PutOff(f, t) => PutOff(f, t)'
    BY <1>1, <1>4, <1>5 DEF PutOff
  <2>5. (\A i \in DOMAIN play.pending : PutOff(play.pending[i], t))'
    BY <1>4, <2>3, <2>4
  <2> QED
    BY <2>1, <2>2, <2>5 DEF DayOver, PutOff
<1> QED
  BY <1>6, <1>7, <1>8, <1>9, <1>10, <1>11, <1>12 DEF IPlan

\* a follow-up put off
PutOffStep(i) ==
  LET f == play.pending[i]
  IN /\ ~(f.dueAt <= play.offset /\ Open(f.campaign) /\ play.capLeft[f.mailbox] > 0)
     /\ play' = [play EXCEPT !.pending = Less(play.pending, i), !.next = Append(@, f)]
     /\ UNCHANGED plan

\* a follow-up sent
SentStep(i) ==
  LET f == play.pending[i]
  IN /\ f.dueAt <= play.offset /\ Open(f.campaign) /\ play.capLeft[f.mailbox] > 0
     /\ play' = [play EXCEPT !.pending = Less(play.pending, i), !.capLeft[f.mailbox] = @ - 1]
     /\ plan' = Append(plan, [day |-> play.offset, mailbox |-> f.mailbox,
                              campaign |-> f.campaign, step |-> 2])

LEMMA FollowUpCases ==
  ASSUME PlanTyped, PlayFollowUp
  PROVE  /\ play.pc = "followUps" /\ UNCHANGED <<booked, input>>
         /\ \E i \in DOMAIN play.pending : PutOffStep(i) \/ SentStep(i)
<1> DEFINE f(i) == play.pending[i]
           rest(i) == [play EXCEPT !.pending = SubSeq(@, 1, i - 1) \o SubSeq(@, i + 1, Len(@))]
           fits(i) == /\ f(i).dueAt <= play.offset /\ Open(f(i).campaign)
                      /\ play.capLeft[f(i).mailbox] > 0
<1>1. PICK i \in DOMAIN play.pending :
        IF fits(i)
        THEN /\ play' = send(rest(i), f(i).mailbox, f(i).campaign, f(i).stepsSent + 1)
             /\ plan' = Append(plan, Planned(f(i).mailbox, f(i).campaign, f(i).stepsSent + 1))
        ELSE /\ play' = [rest(i) EXCEPT !.next = Append(@, f(i))]
             /\ UNCHANGED plan
  BY DEF PlayFollowUp
<1>2. play \in Plays /\ f(i) \in Wait /\ f(i).stepsSent + 1 = 2
  <2>1. play \in Plays /\ f(i) \in Wait
    BY PlayFields
  <2>2. f(i).stepsSent = 1
    BY <2>1 DEF Wait
  <2> HIDE DEF f
  <2> QED
    BY <2>1, <2>2
<1>3. rest(i) = [play EXCEPT !.pending = Less(play.pending, i)]
  BY DEF Less
<1>4. ASSUME fits(i) PROVE SentStep(i)
  <2>1. /\ play' = send(rest(i), f(i).mailbox, f(i).campaign, 2)
        /\ plan' = Append(plan, Planned(f(i).mailbox, f(i).campaign, 2))
    BY <1>1, <1>2, <1>4
  <2> DEFINE q == Less(play.pending, i)
             m == f(i).mailbox
  <2>2. rest(i) = [play EXCEPT !.pending = q]
    BY <1>3
  <2> HIDE DEF q, rest
  <2>3. send(rest(i), m, f(i).campaign, 2)
          = [rest(i) EXCEPT !.capLeft[m] = @ - 1, !.next = @]
    BY DEF send
  <2> HIDE DEF m
  <2>4. [rest(i) EXCEPT !.capLeft[m] = @ - 1, !.next = @]
          = [play EXCEPT !.pending = q, !.capLeft[m] = @ - 1]
    BY <1>2, <2>2 DEF Plays
  <2>5. play' = [play EXCEPT !.pending = q, !.capLeft[m] = @ - 1]
    BY <2>1, <2>3, <2>4 DEF m
  <2> QED
    BY <1>4, <2>1, <2>5 DEF SentStep, Planned, q, m
<1>5. ASSUME ~fits(i) PROVE PutOffStep(i)
  <2> DEFINE q == Less(play.pending, i)
             w == f(i)
  <2>1. play' = [rest(i) EXCEPT !.next = Append(@, w)] /\ plan' = plan
    BY <1>1, <1>5
  <2>2. rest(i) = [play EXCEPT !.pending = q]
    BY <1>3
  <2> HIDE DEF q, rest, w
  <2>3. play' = [play EXCEPT !.pending = q, !.next = Append(@, w)]
    BY <1>2, <2>1, <2>2 DEF Plays
  <2> QED
    BY <1>5, <2>1, <2>3 DEF PutOffStep, q, w
<1>6. play.pc = "followUps" /\ UNCHANGED <<booked, input>>
  BY DEF PlayFollowUp
<1> HIDE DEF fits
<1> QED
  BY <1>4, <1>5, <1>6

LEMMA PutsOff ==
  ASSUME IPlan, play.pc = "followUps", UNCHANGED <<booked, input>>,
         NEW i \in DOMAIN play.pending, PutOffStep(i)
  PROVE  IPlan'
<1>1. PICK w : w = play.pending[i]
  OBVIOUS
<1>2. /\ PlanTyped /\ PlanDated /\ RoomKept /\ LeadsKept /\ WaitsKept /\ PartKept
      /\ FollowUpsFirst
  BY DEF IPlan, Playing
<1>3. /\ w \in Wait /\ plan' = plan
      /\ ~(w.dueAt <= play.offset /\ Open(w.campaign) /\ play.capLeft[w.mailbox] > 0)
      /\ play' = [play EXCEPT !.pending = Less(play.pending, i), !.next = Append(@, w)]
  BY <1>1, <1>2, PlayFields DEF PutOffStep
<1>4. PICK t \in Nat : t = play.offset
  BY <1>2, PlayFields
<1>5. /\ Less(play.pending, i) \in Seq(Wait) /\ Append(play.next, w) \in Seq(Wait)
      /\ DOMAIN play.next = 1..Len(play.next)
      /\ DOMAIN Append(play.next, w) = DOMAIN play.next \cup {Len(play.next) + 1}
      /\ Append(play.next, w)[Len(play.next) + 1] = w
      /\ \A j \in DOMAIN play.next : Append(play.next, w)[j] = play.next[j]
  <2>1. Less(play.pending, i) \in Seq(Wait)
    BY <1>2, PlayFields, LessIs
  <2>2. play.next \in Seq(Wait)
    BY <1>2, PlayFields
  <2>3. /\ Append(play.next, w) \in Seq(Wait) /\ Len(Append(play.next, w)) = Len(play.next) + 1
        /\ DOMAIN play.next = 1..Len(play.next) /\ Len(play.next) \in Nat
        /\ Append(play.next, w)[Len(play.next) + 1] = w
        /\ \A j \in 1..Len(play.next) : Append(play.next, w)[j] = play.next[j]
    BY <1>3, <2>2, AppendProperties, LenProperties
  <2>4. DOMAIN Append(play.next, w) = 1..(Len(play.next) + 1)
    BY <2>3, LenProperties
  <2> QED
    BY <2>1, <2>3, <2>4
<1>6. /\ play' \in Plays /\ play'.pc = "followUps" /\ play'.offset = play.offset
      /\ play'.capLeft = play.capLeft /\ play'.left = play.left
      /\ play'.pending = Less(play.pending, i) /\ play'.next = Append(play.next, w)
  BY <1>2, <1>3, <1>5, PlayFields DEF Plays
<1>7. /\ \A m, steps, d : FromMailbox(m, steps, d)' = FromMailbox(m, steps, d)
      /\ \A c, step, days : ForCampaign(c, step, days)' = ForCampaign(c, step, days)
      /\ \A m, d : Room(m, d)' = Room(m, d)
  BY <1>3, NotAdded, RoomSame
<1>8. PlanTyped'
  BY <1>2, <1>3, <1>6 DEF PlanTyped
<1>9. PlanDated' /\ PartKept'
  <2>1. PlanDated'
    BY <1>2, <1>3, <1>6 DEF PlanDated
  <2>2. PartKept'
    BY <1>2, <1>6, <1>7 DEF PartKept
  <2> QED
    BY <2>1, <2>2
<1>10. RoomKept'
  <2>1. \A m \in ForecastMailbox, d \in Offsets :
          FromMailbox(m, {1, 2}, d)' <= Max({0, Room(m, d)'})
    BY <1>2, <1>7 DEF RoomKept
  <2>2. \A m \in ForecastMailbox :
          play'.capLeft[m] = Room(m, t)' - FromMailbox(m, {1, 2}, t)'
    BY <1>2, <1>4, <1>6, <1>7 DEF RoomKept, Inside
  <2>3. t = play'.offset
    BY <1>4, <1>6
  <2> QED
    BY <2>1, <2>2, <2>3 DEF RoomKept, Max
<1>11. LeadsKept' /\ WaitsKept'
  <2>1. ASSUME NEW days, NEW c \in ForecastCampaign
        PROVE  /\ Due(play.pending, c, days) \in Nat /\ Due(play.next, c, days) \in Nat
               /\ Due(play'.pending, c, days) \in Nat /\ Due(play'.next, c, days) \in Nat
               /\ Due(play'.pending, c, days) + Due(play'.next, c, days)
                    = Due(play.pending, c, days) + Due(play.next, c, days)
    <3> DEFINE one == IF w.campaign = c /\ w.dueAt \in days THEN 1 ELSE 0
    <3>1. /\ Due(play.pending, c, days) \in Nat /\ Due(play.next, c, days) \in Nat
          /\ Due(play'.pending, c, days) \in Nat /\ Due(play'.next, c, days) \in Nat
      BY <1>2, <1>5, <1>6, PlayFields, Queued
    <3>2. Due(play.pending, c, days) = Due(play'.pending, c, days) + one
      BY <1>1, <1>2, <1>6, PlayFields, Queued
    <3>3. Due(play'.next, c, days) = Due(play.next, c, days) + one
      BY <1>2, <1>3, <1>6, PlayFields, Queued
    <3>4. one \in Nat
      OBVIOUS
    <3> HIDE DEF one
    <3> QED
      BY <3>1, <3>2, <3>3, <3>4
  <2> QED
    BY <1>2, <1>3, <1>6, <2>1, Held
<1>12. FollowUpsFirst' /\ DayOver'
  <2>1. \A j \in DOMAIN play.next : PutOff(play.next[j], t)
    BY <1>2, <1>4 DEF FollowUpsFirst, Inside
  <2>2. PutOff(w, t)
    <3>1. \A j \in DOMAIN plan : plan[j].day = t => plan[j].step = 2
      BY <1>2, <1>4 DEF PlanDated
    <3>2. FromMailbox(w.mailbox, {1}, t) = 0
      BY <3>1, NonePlanned
    <3>3. w.dueAt \in Int /\ play.capLeft[w.mailbox] \in Int
      BY <1>2, <1>3, PlayFields DEF Wait
    <3> QED
      BY <1>3, <1>4, <3>2, <3>3 DEF PutOff, Open
  <2>3. \A f : PutOff(f, t) => PutOff(f, t)'
    BY <1>6, <1>7 DEF PutOff
  <2>4. \A j \in DOMAIN Append(play.next, w) : PutOff(Append(play.next, w)[j], t)
    BY <1>5, <2>1, <2>2
  <2>5. (\A j \in DOMAIN play.next : PutOff(play.next[j], t))'
    BY <1>6, <2>3, <2>4
  <2>6. t = play'.offset
    BY <1>4, <1>6
  <2> QED
    BY <1>6, <2>5, <2>6 DEF FollowUpsFirst, DayOver, PutOff
<1> QED
  BY <1>8, <1>9, <1>10, <1>11, <1>12 DEF IPlan

\* one more send from a mailbox with room takes a place in it
LEMMA RoomTaken ==
  ASSUME PlanTyped, Inside, RoomKept, UNCHANGED <<booked, input>>,
         NEW m \in ForecastMailbox, play.capLeft[m] > 0,
         NEW e \in Entry, e.day = play.offset, e.mailbox = m, plan' = Append(plan, e),
         play'.offset = play.offset, play'.capLeft = [play.capLeft EXCEPT ![m] = @ - 1]
  PROVE  RoomKept'
<1>1. PICK t \in Offsets : t = play.offset /\ t \in Nat
  BY PlayFields
<1>2. /\ \A b \in ForecastMailbox : \A d : FromMailbox(b, {1, 2}, d)'
           = FromMailbox(b, {1, 2}, d) + (IF m = b /\ t = d THEN 1 ELSE 0)
      /\ \A b, d : FromMailbox(b, {1, 2}, d) \in Nat
      /\ \A b, d : Room(b, d)' = Room(b, d)
  <2>1. plan \in Seq(Entry) /\ e.step \in {1, 2}
    BY PlayFields DEF Entry
  <2>2. \A b \in ForecastMailbox : \A d : FromMailbox(b, {1, 2}, d)' = FromMailbox(b, {1, 2}, d)
          + (IF e.mailbox = b /\ e.step \in {1, 2} /\ e.day = d THEN 1 ELSE 0)
    BY <2>1, Added
  <2> QED
    BY <1>1, <2>1, <2>2, Counts, RoomSame
<1>3. \A b \in ForecastMailbox : /\ play.capLeft[b] \in Int
                                 /\ play.capLeft[b] = Room(b, t) - FromMailbox(b, {1, 2}, t)
  BY <1>1, PlayFields DEF RoomKept
<1>4. \A b \in ForecastMailbox : \A d \in Offsets :
        Room(b, d) \in Int /\ Max({0, Room(b, d)}) \in Int /\ Max({0, Room(b, d)}) >= Room(b, d)
  <2>1. \A d \in Offsets : d \in Int
    BY DEF Offsets
  <2> QED
    BY <2>1, RoomTyped, Zenon
<1>5. \A b \in ForecastMailbox, d \in Offsets :
        FromMailbox(b, {1, 2}, d)' <= Max({0, Room(b, d)'})
  <2> SUFFICES ASSUME NEW b \in ForecastMailbox, NEW d \in Offsets
               PROVE  FromMailbox(b, {1, 2}, d)' <= Max({0, Room(b, d)'})
    OBVIOUS
  <2>1. FromMailbox(b, {1, 2}, d) <= Max({0, Room(b, d)})
    BY DEF RoomKept
  <2>2. /\ FromMailbox(b, {1, 2}, d)'
             = FromMailbox(b, {1, 2}, d) + (IF m = b /\ t = d THEN 1 ELSE 0)
        /\ FromMailbox(b, {1, 2}, d) \in Nat
        /\ Max({0, Room(b, d)'}) = Max({0, Room(b, d)})
    BY <1>2
  <2>3. Room(b, d) \in Int /\ Max({0, Room(b, d)}) \in Int /\ Max({0, Room(b, d)}) >= Room(b, d)
    BY <1>4
  <2>4. m = b /\ t = d => Room(b, d) - FromMailbox(b, {1, 2}, d) > 0
    BY <1>3
  <2> QED
    BY <2>1, <2>2, <2>3, <2>4
<1>6. \A b \in ForecastMailbox : play'.capLeft[b] = Room(b, t)' - FromMailbox(b, {1, 2}, t)'
  <2> SUFFICES ASSUME NEW b \in ForecastMailbox
               PROVE  play'.capLeft[b] = Room(b, t)' - FromMailbox(b, {1, 2}, t)'
    OBVIOUS
  <2>1. play'.capLeft[b] = play.capLeft[b] - (IF m = b THEN 1 ELSE 0)
    BY <1>3, PlayFields
  <2>2. /\ FromMailbox(b, {1, 2}, t)' = FromMailbox(b, {1, 2}, t) + (IF m = b THEN 1 ELSE 0)
        /\ FromMailbox(b, {1, 2}, t) \in Nat /\ Room(b, t)' = Room(b, t)
    BY <1>2
  <2>3. Room(b, t) \in Int /\ play.capLeft[b] = Room(b, t) - FromMailbox(b, {1, 2}, t)
    BY <1>3, <1>4
  <2> QED
    BY <2>1, <2>2, <2>3
<1>7. t = play'.offset
  BY <1>1
<1> QED
  BY <1>5, <1>6, <1>7 DEF RoomKept, Max

\* a send on an open day is dated
LEMMA DatedToday ==
  ASSUME PlanTyped, Inside, PlanDated, UNCHANGED input,
         NEW e \in Entry, e.day = play.offset, Open(e.campaign), plan' = Append(plan, e),
         play'.offset = play.offset, play'.pc = play.pc,
         play.pc = "followUps" => e.step = 2
  PROVE  PlanDated'
<1>1. /\ DOMAIN plan' = DOMAIN plan \cup {Len(plan) + 1} /\ plan'[Len(plan) + 1] = e
      /\ \A i \in DOMAIN plan : plan'[i] = plan[i]
  BY PlayFields, Added
<1>2. e.day <= play.offset /\ e.day \in input.open[e.campaign]
  BY PlayFields DEF Open
<1>3. play.pc # "day"
  BY DEF Inside
<1> QED
  BY <1>1, <1>2, <1>3 DEF PlanDated

LEMMA SendsFollowUp ==
  ASSUME IPlan, play.pc = "followUps", UNCHANGED <<booked, input>>,
         NEW i \in DOMAIN play.pending, SentStep(i)
  PROVE  IPlan'
<1>1. PICK w : w = play.pending[i]
  OBVIOUS
<1>2. /\ PlanTyped /\ PlanDated /\ RoomKept /\ LeadsKept /\ WaitsKept /\ PartKept
      /\ FollowUpsFirst /\ Inside
  BY DEF IPlan, Playing, Inside
<1>3. PICK t \in Offsets : t = play.offset /\ t \in Nat
  BY <1>2, PlayFields
<1>4. PICK e : e = [day |-> t, mailbox |-> w.mailbox, campaign |-> w.campaign, step |-> 2]
  OBVIOUS
<1>5. /\ w \in Wait /\ w.mailbox \in ForecastMailbox /\ w.campaign \in ForecastCampaign
      /\ w.dueAt \in Int /\ w.dueAt >= -1
  <2>1. w \in Wait
    BY <1>1, <1>2, PlayFields
  <2> QED
    BY <2>1 DEF Wait
<1>6. /\ e \in Entry /\ e.day = t /\ e.mailbox = w.mailbox /\ e.campaign = w.campaign
      /\ e.step = 2
  BY <1>4, <1>5 DEF Entry
<1>7. /\ w.dueAt <= t /\ Open(w.campaign) /\ play.capLeft[w.mailbox] > 0
      /\ play' = [play EXCEPT !.pending = Less(play.pending, i), !.capLeft[w.mailbox] = @ - 1]
      /\ plan' = Append(plan, e)
  BY <1>1, <1>3, <1>4 DEF SentStep
<1>8. /\ Less(play.pending, i) \in Seq(Wait) /\ play.pending \in Seq(Wait)
      /\ play.next \in Seq(Wait) /\ \A m \in ForecastMailbox : play.capLeft[m] \in Int
  BY <1>2, PlayFields, LessIs
<1>9. /\ play' \in Plays /\ play'.pc = "followUps" /\ play'.offset = play.offset
      /\ play'.capLeft = [play.capLeft EXCEPT ![w.mailbox] = @ - 1] /\ play'.left = play.left
      /\ play'.pending = Less(play.pending, i) /\ play'.next = play.next
  <2>1. [play.capLeft EXCEPT ![w.mailbox] = @ - 1] \in [ForecastMailbox -> Int]
    BY <1>2, <1>5, <1>8, PlayFields
  <2>2. play' = [play EXCEPT !.pending = Less(play.pending, i),
                             !.capLeft = [play.capLeft EXCEPT ![w.mailbox] = @ - 1]]
    BY <1>7
  <2> QED
    BY <1>2, <1>8, <2>1, <2>2, PlayFields DEF Plays
<1>10. /\ plan' \in Seq(Entry)
       /\ \A m \in ForecastMailbox : \A d : FromMailbox(m, {1}, d)' = FromMailbox(m, {1}, d)
       /\ \A c \in ForecastCampaign : \A days :
            /\ ForCampaign(c, 1, days)' = ForCampaign(c, 1, days)
            /\ ForCampaign(c, 2, days)' = ForCampaign(c, 2, days)
                 + (IF w.campaign = c /\ t \in days THEN 1 ELSE 0)
            /\ ForCampaign(c, 1, days) \in Nat /\ ForCampaign(c, 2, days) \in Nat
  <2>1. /\ plan \in Seq(Entry) /\ plan' \in Seq(Entry)
        /\ \A m \in ForecastMailbox : \A steps, d : FromMailbox(m, steps, d)'
             = FromMailbox(m, steps, d)
               + (IF e.mailbox = m /\ e.step \in steps /\ e.day = d THEN 1 ELSE 0)
        /\ \A c \in ForecastCampaign : \A step, days : ForCampaign(c, step, days)'
             = ForCampaign(c, step, days)
               + (IF e.campaign = c /\ e.step = step /\ e.day \in days THEN 1 ELSE 0)
    BY <1>2, <1>6, <1>7, PlayFields, Added
  <2>2. /\ \A m, steps, d : FromMailbox(m, steps, d) \in Nat
        /\ \A c, step, days : ForCampaign(c, step, days) \in Nat
    BY <2>1, Counts
  <2>3. e.step \notin {1} /\ e.step # 1 /\ e.step = 2
    BY <1>6
  <2> QED
    BY <1>6, <2>1, <2>2, <2>3
<1>11. PlanTyped'
  BY <1>2, <1>9, <1>10 DEF PlanTyped
<1>12. PlanDated'
  BY <1>2, <1>3, <1>6, <1>7, <1>9, DatedToday
<1>13. RoomKept'
  BY <1>2, <1>3, <1>5, <1>6, <1>7, <1>9, RoomTaken
<1>14. ASSUME NEW c \in ForecastCampaign, NEW days
       PROVE  /\ Due(play.pending, c, days) = Due(play'.pending, c, days)
                   + (IF w.campaign = c /\ w.dueAt \in days THEN 1 ELSE 0)
              /\ Due(play.pending, c, days) \in Nat /\ Due(play'.pending, c, days) \in Nat
              /\ Due(play.next, c, days) \in Nat /\ Due(play'.next, c, days) = Due(play.next, c, days)
  BY <1>1, <1>8, <1>9, Queued
<1>15. LeadsKept'
  <2> SUFFICES ASSUME NEW c \in ForecastCampaign
               PROVE  /\ ForCampaign(c, 1, Offsets)' + play'.left[c] = input'.left[c]
                      /\ ForCampaign(c, 2, Offsets)' + Waiting(c)'
                           = Due(input'.followUps, c, Int) + ForCampaign(c, 1, Offsets)'
    BY DEF LeadsKept
  <2>1. /\ ForCampaign(c, 1, Offsets) + play.left[c] = input.left[c]
        /\ ForCampaign(c, 2, Offsets) + Waiting(c)
             = Due(input.followUps, c, Int) + ForCampaign(c, 1, Offsets)
    BY <1>2 DEF LeadsKept
  <2>2. /\ Waiting(c) = Waiting(c)' + (IF w.campaign = c THEN 1 ELSE 0)
        /\ Waiting(c)' \in Nat
    BY <1>5, <1>14 DEF Waiting
  <2>3. ForCampaign(c, 2, Offsets)' = ForCampaign(c, 2, Offsets)
          + (IF w.campaign = c THEN 1 ELSE 0)
    BY <1>3, <1>10
  <2>4. ForCampaign(c, 2, Offsets) \in Nat /\ ForCampaign(c, 1, Offsets)' = ForCampaign(c, 1, Offsets)
    BY <1>10
  <2> QED
    BY <1>9, <2>1, <2>2, <2>3, <2>4
<1>16. WaitsKept'
  <2> SUFFICES ASSUME NEW c \in ForecastCampaign, NEW d \in Offsets
               PROVE  ForCampaign(c, 2, 0..d)' + Due(play'.pending, c, -1..d)
                          + Due(play'.next, c, -1..d)
                        <= ForCampaign(c, 1, 0..(d - FirstWait[c]))'
                             + Due(input'.followUps, c, -1..d)
    BY DEF WaitsKept
  <2>1. ForCampaign(c, 2, 0..d) + Due(play.pending, c, -1..d) + Due(play.next, c, -1..d)
          <= ForCampaign(c, 1, 0..(d - FirstWait[c])) + Due(input.followUps, c, -1..d)
    BY <1>2 DEF WaitsKept
  <2>2. t \in 0..d => w.dueAt \in -1..d
    BY <1>3, <1>5, <1>7 DEF Offsets
  <2>3. /\ ForCampaign(c, 2, 0..d)'
             = ForCampaign(c, 2, 0..d) + (IF w.campaign = c /\ t \in 0..d THEN 1 ELSE 0)
        /\ ForCampaign(c, 2, 0..d) \in Nat
        /\ ForCampaign(c, 1, 0..(d - FirstWait[c]))' = ForCampaign(c, 1, 0..(d - FirstWait[c]))
        /\ ForCampaign(c, 1, 0..(d - FirstWait[c])) \in Nat
        /\ Due(input'.followUps, c, -1..d) = Due(input.followUps, c, -1..d)
    BY <1>10
  <2>4. /\ Due(play.pending, c, -1..d) = Due(play'.pending, c, -1..d)
             + (IF w.campaign = c /\ w.dueAt \in -1..d THEN 1 ELSE 0)
        /\ Due(play'.pending, c, -1..d) \in Nat /\ Due(play.next, c, -1..d) \in Nat
        /\ Due(play'.next, c, -1..d) = Due(play.next, c, -1..d)
    BY <1>14
  <2>5. Due(input.followUps, c, -1..d) \in Nat
    <3>1. input.followUps \in Seq(Wait)
      BY <1>2, PlayFields DEF Inputs
    <3> QED
      BY <3>1, Queued
  <2> QED
    BY <2>1, <2>2, <2>3, <2>4, <2>5
<1>17. PartKept'
  <2>1. \A c \in ForecastCampaign, d \in Offsets : ForCampaign(c, 1, {d})' <= MaxNewLeads[c]
    <3> SUFFICES ASSUME NEW c \in ForecastCampaign, NEW d \in Offsets
                 PROVE  ForCampaign(c, 1, {d})' <= MaxNewLeads[c]
      OBVIOUS
    <3>1. ForCampaign(c, 1, {d})' = ForCampaign(c, 1, {d})
      BY <1>10
    <3> QED
      BY <1>2, <3>1 DEF PartKept
  <2> QED
    BY <1>9, <2>1 DEF PartKept
<1>18. FollowUpsFirst' /\ DayOver'
  <2>1. \A j \in DOMAIN play.next : PutOff(play.next[j], t) /\ play.next[j] \in Wait
    BY <1>2, <1>3, PlayFields DEF FollowUpsFirst, Inside
  <2>2. \A m \in ForecastMailbox : play.capLeft[m] <= 0 => play'.capLeft[m] <= 0
    BY <1>2, <1>8, <1>9, PlayFields
  <2>3. \A f \in Wait : PutOff(f, t) => PutOff(f, t)'
    BY <1>10, <2>2 DEF PutOff, Wait
  <2>4. (\A j \in DOMAIN play.next : PutOff(play.next[j], t))'
    BY <1>9, <2>1, <2>3
  <2>5. t = play'.offset
    BY <1>3, <1>9
  <2> QED
    BY <1>9, <2>4, <2>5 DEF FollowUpsFirst, DayOver, PutOff
<1> QED
  BY <1>11, <1>12, <1>13, <1>15, <1>16, <1>17, <1>18 DEF IPlan

\* the next turn, once what a campaign has left today is known
NextTurn(c, left) ==
  /\ play'.pc = "firsts" /\ play'.offset = play.offset /\ play'.pending = play.pending
  /\ play'.newLeft = left /\ left \in [ForecastCampaign -> Nat]
  /\ play'.round = IF play.round = {c} THEN {o \in ForecastCampaign : left[o] > 0}
                   ELSE play.round \ {c}

\* a campaign without room ends its day
NoRoomStep(c) ==
  /\ \A m \in MailboxIds[c] : ~(play.capLeft[m] > 0)
  /\ NextTurn(c, [play.newLeft EXCEPT ![c] = 0])
  /\ play'.capLeft = play.capLeft /\ play'.next = play.next /\ play'.left = play.left
  /\ UNCHANGED plan

\* a first email is planned, and its follow-up waits
FirstStep(c, m) ==
  /\ m \in MailboxIds[c] /\ play.capLeft[m] > 0
  /\ NextTurn(c, [play.newLeft EXCEPT ![c] = @ - 1])
  /\ play'.capLeft = [play.capLeft EXCEPT ![m] = @ - 1]
  /\ play'.left = [play.left EXCEPT ![c] = @ - 1]
  /\ play'.next = Append(play.next, [campaign |-> c, mailbox |-> m, stepsSent |-> 1,
                                     dueAt |-> play.offset + FirstWait[c]])
  /\ plan' = Append(plan, [day |-> play.offset, mailbox |-> m, campaign |-> c, step |-> 1])

LEMMA FirstCases ==
  ASSUME IPlan, NEW c \in ForecastCampaign, PlayFirst(c)
  PROVE  /\ play.pc = "firsts" /\ c \in play.round /\ UNCHANGED <<booked, input>>
         /\ play' \in Plays
         /\ NoRoomStep(c) \/ \E m \in MailboxIds[c] : FirstStep(c, m)
<1>1. play.pc = "firsts" /\ c \in play.round /\ UNCHANGED <<booked, input>>
  BY DEF PlayFirst
<1>2. /\ PlanTyped /\ PartKept /\ play \in Plays
      /\ play.newLeft \in [ForecastCampaign -> Nat] /\ play.left \in [ForecastCampaign -> Nat]
      /\ play.capLeft \in [ForecastMailbox -> Int] /\ play.next \in Seq(Wait)
      /\ play.offset \in Nat /\ play.round \subseteq ForecastCampaign
      /\ MailboxIds[c] \subseteq ForecastMailbox
  BY <1>1, PlayFields, ForecastAssumption DEF IPlan, Playing
<1>3. play.newLeft[c] > 0 /\ play.newLeft[c] <= play.left[c]
  BY <1>1, <1>2 DEF PartKept
<1> DEFINE able == {m \in MailboxIds[c] : play.capLeft[m] > 0}
<1>4. CASE able = {}
  <2> DEFINE left == [play.newLeft EXCEPT ![c] = 0]
             round == IF play.round = {c} THEN {o \in ForecastCampaign : left[o] > 0}
                      ELSE play.round \ {c}
             p == [play EXCEPT !.newLeft[c] = 0]
  <2>1. play' = AfterTurn(p, c) /\ UNCHANGED plan
    BY <1>4 DEF PlayFirst
  <2>2. left \in [ForecastCampaign -> Nat] /\ round \in SUBSET ForecastCampaign
    BY <1>2
  <2>3. p = [play EXCEPT !.newLeft = left]
    OBVIOUS
  <2>4. p.round = play.round /\ p.newLeft = left
    BY <1>2, <2>3 DEF Plays
  <2>5. play' = [p EXCEPT !.round = round]
    BY <2>1, <2>4 DEF AfterTurn
  <2>6. \A m \in MailboxIds[c] : ~(play.capLeft[m] > 0)
    BY <1>4
  <2> HIDE DEF left, round, p
  <2>7. /\ play' \in Plays /\ play'.pc = play.pc /\ play'.offset = play.offset
        /\ play'.pending = play.pending /\ play'.newLeft = left /\ play'.round = round
        /\ play'.capLeft = play.capLeft /\ play'.next = play.next /\ play'.left = play.left
    BY <1>2, <2>2, <2>3, <2>5 DEF Plays
  <2>8. NextTurn(c, left)
    BY <1>1, <2>2, <2>7 DEF NextTurn, round
  <2> QED
    BY <1>1, <2>1, <2>6, <2>7, <2>8 DEF NoRoomStep, left
<1>5. CASE able # {}
  <2>1. PICK m \in able :
          /\ play' = AfterTurn([send(play, m, c, 1) EXCEPT
                                  !.newLeft[c] = @ - 1, !.left[c] = @ - 1], c)
          /\ plan' = Append(plan, Planned(m, c, 1))
    BY <1>5 DEF PlayFirst
  <2>2. m \in MailboxIds[c] /\ m \in ForecastMailbox /\ play.capLeft[m] > 0
    BY <1>2
  <2> DEFINE share == [play.newLeft EXCEPT ![c] = @ - 1]
             left == [play.left EXCEPT ![c] = @ - 1]
             room == [play.capLeft EXCEPT ![m] = @ - 1]
             w == [campaign |-> c, mailbox |-> m, stepsSent |-> 1,
                   dueAt |-> play.offset + FirstWait[c]]
             next == Append(play.next, w)
             round == IF play.round = {c} THEN {o \in ForecastCampaign : share[o] > 0}
                      ELSE play.round \ {c}
             s == send(play, m, c, 1)
             p == [s EXCEPT !.newLeft[c] = @ - 1, !.left[c] = @ - 1]
  <2>3. /\ share \in [ForecastCampaign -> Nat] /\ left \in [ForecastCampaign -> Nat]
        /\ room \in [ForecastMailbox -> Int] /\ round \in SUBSET ForecastCampaign
    <3>1. play.newLeft[c] - 1 \in Nat /\ play.left[c] - 1 \in Nat /\ play.capLeft[m] - 1 \in Int
      BY <1>2, <1>3, <2>2
    <3> QED
      BY <1>2, <3>1
  <2>4. next \in Seq(Wait)
    <3>1. w \in Wait
      BY <1>2, <2>2, ForecastAssumption DEF Wait
    <3> HIDE DEF w
    <3> QED
      BY <1>2, <3>1, AppendProperties
  <2>5. s = [play EXCEPT !.capLeft = room, !.next = next]
    BY DEF send
  <2> HIDE DEF s, room, next, w
  <2>6. s.newLeft = play.newLeft /\ s.left = play.left /\ s.round = play.round /\ s \in Plays
    BY <1>2, <2>3, <2>4, <2>5 DEF Plays
  <2>7. p = [s EXCEPT !.newLeft = share, !.left = left]
    BY <2>6
  <2>8. p.round = play.round /\ p.newLeft = share
    BY <2>3, <2>6, <2>7 DEF Plays
  <2>9. play' = AfterTurn(p, c) /\ AfterTurn(p, c) = [p EXCEPT !.round = round]
    BY <2>1, <2>8 DEF AfterTurn, s
  <2> HIDE DEF share, left, round, p
  <2>10. /\ play' \in Plays /\ play'.pc = play.pc /\ play'.offset = play.offset
         /\ play'.pending = play.pending /\ play'.newLeft = share /\ play'.round = round
         /\ play'.capLeft = room /\ play'.next = next /\ play'.left = left
    <3>1. /\ s \in Plays /\ s.pc = play.pc /\ s.offset = play.offset /\ s.pending = play.pending
          /\ s.capLeft = room /\ s.next = next
      BY <1>2, <2>3, <2>4, <2>5 DEF Plays
    <3>2. /\ p \in Plays /\ p.pc = play.pc /\ p.offset = play.offset /\ p.pending = play.pending
          /\ p.capLeft = room /\ p.next = next /\ p.newLeft = share /\ p.left = left
      BY <2>3, <2>7, <3>1 DEF Plays
    <3> QED
      BY <2>3, <2>9, <3>2 DEF Plays
  <2>11. NextTurn(c, share)
    BY <1>1, <2>3, <2>10 DEF NextTurn, round
  <2>12. plan' = Append(plan, [day |-> play.offset, mailbox |-> m, campaign |-> c, step |-> 1])
    BY <2>1 DEF Planned
  <2>13. FirstStep(c, m)
    BY <2>2, <2>10, <2>11, <2>12 DEF FirstStep, share, left, room, next, w
  <2> QED
    BY <1>1, <2>2, <2>10, <2>13
<1> QED
  BY <1>4, <1>5

LEMMA TurnOver ==
  ASSUME PlanTyped, PartKept, play.pc = "firsts", NEW c \in play.round, NEW left,
         NextTurn(c, left), \A o \in ForecastCampaign : o # c => left[o] = play.newLeft[o]
  PROVE  /\ \A o \in play'.round : play'.newLeft[o] > 0
         /\ play'.round = {} => \A o \in ForecastCampaign : play'.newLeft[o] = 0
<1>1. /\ play.round \subseteq ForecastCampaign /\ \A o \in play.round : play.newLeft[o] > 0
      /\ left \in [ForecastCampaign -> Nat] /\ play'.newLeft = left
      /\ play'.round = IF play.round = {c} THEN {o \in ForecastCampaign : left[o] > 0}
                       ELSE play.round \ {c}
  BY PlayFields DEF PartKept, NextTurn
<1>2. CASE play.round = {c}
  <2>1. play'.round = {o \in ForecastCampaign : left[o] > 0}
    BY <1>1, <1>2
  <2>2. \A o \in ForecastCampaign : o \notin play'.round => left[o] = 0
    BY <1>1, <2>1
  <2> QED
    BY <1>1, <2>1, <2>2
<1>3. CASE play.round # {c}
  <2>1. play'.round = play.round \ {c} /\ play'.round # {}
    BY <1>1, <1>3
  <2>2. \A o \in play'.round : left[o] = play.newLeft[o] /\ play.newLeft[o] > 0
    BY <1>1, <2>1
  <2> QED
    BY <1>1, <2>1, <2>2
<1> QED
  BY <1>2, <1>3

LEMMA NoRoom ==
  ASSUME IPlan, NEW c \in ForecastCampaign, play.pc = "firsts", c \in play.round,
         UNCHANGED <<booked, input>>, play' \in Plays, NoRoomStep(c)
  PROVE  IPlan'
<1>1. /\ PlanTyped /\ PlanDated /\ RoomKept /\ LeadsKept /\ WaitsKept /\ PartKept
      /\ FollowUpsFirst /\ Inside
  BY DEF IPlan, Playing, Inside
<1>2. PICK left : left = [play.newLeft EXCEPT ![c] = 0]
  OBVIOUS
<1>3. /\ plan' = plan /\ play'.pc = "firsts" /\ play'.offset = play.offset
      /\ play'.capLeft = play.capLeft /\ play'.left = play.left
      /\ play'.pending = play.pending /\ play'.next = play.next
      /\ NextTurn(c, left) /\ play'.newLeft = left
      /\ \A m \in MailboxIds[c] : ~(play.capLeft[m] > 0)
  BY <1>2 DEF NoRoomStep, NextTurn
<1>4. PICK t \in Offsets : t = play.offset /\ t \in Nat
  BY <1>1, PlayFields
<1>5. /\ \A m, steps, d : FromMailbox(m, steps, d)' = FromMailbox(m, steps, d)
      /\ \A x, step, days : ForCampaign(x, step, days)' = ForCampaign(x, step, days)
      /\ \A m, d : Room(m, d)' = Room(m, d)
  BY <1>3, NotAdded, RoomSame
<1>6. PlanTyped'
  BY <1>1, <1>3 DEF PlanTyped, Inside
<1>7. PlanDated'
  BY <1>1, <1>3 DEF PlanDated
<1>8. RoomKept'
  <2>1. \A m \in ForecastMailbox, d \in Offsets :
          FromMailbox(m, {1, 2}, d)' <= Max({0, Room(m, d)'})
    BY <1>1, <1>5 DEF RoomKept
  <2>2. \A m \in ForecastMailbox :
          play'.capLeft[m] = Room(m, t)' - FromMailbox(m, {1, 2}, t)'
    BY <1>1, <1>3, <1>4, <1>5 DEF RoomKept
  <2>3. t = play'.offset
    BY <1>3, <1>4
  <2> QED
    BY <2>1, <2>2, <2>3 DEF RoomKept, Max
<1>9. LeadsKept' /\ WaitsKept'
  <2>1. \A days : \A x \in ForecastCampaign :
           Due(play.pending, x, days) \in Nat /\ Due(play.next, x, days) \in Nat
    BY <1>1, PlayFields, Queued
  <2> QED
    BY <1>1, <1>3, <2>1, Held
<1>10. PartKept'
  <2>1. /\ \A x \in ForecastCampaign : left[x] = IF x = c THEN 0 ELSE play.newLeft[x]
        /\ \A x \in ForecastCampaign : play.newLeft[x] \in Nat /\ play.left[x] \in Nat
    BY <1>1, <1>2, PlayFields
  <2>2. \A x : Open(x)' <=> Open(x)
    BY <1>3 DEF Open
  <2>3. Full(c) /\ \A x : Full(x) => Full(x)'
    <3>1. \A m \in MailboxIds[c] : play.capLeft[m] \in Int
      BY <1>1, PlayFields, ForecastAssumption
    <3> QED
      BY <1>3, <3>1 DEF Full
  <2>4. ASSUME NEW x \in ForecastCampaign
        PROVE  /\ left[x] <= play.left[x]
               /\ ForCampaign(x, 1, {t})' + left[x] <= MaxNewLeads[x]
               /\ left[x] > 0 => Open(x)'
               /\ Open(x)' => \/ left[x] = 0 /\ Full(x)'
                              \/ left[x] = play.left[x]
                              \/ left[x] = MaxNewLeads[x] - ForCampaign(x, 1, {t})'
    <3>1. /\ play.newLeft[x] <= play.left[x]
          /\ ForCampaign(x, 1, {t}) + play.newLeft[x] <= MaxNewLeads[x]
          /\ play.newLeft[x] > 0 => Open(x)
          /\ Open(x) => \/ play.newLeft[x] = 0 /\ Full(x)
                        \/ play.newLeft[x] = play.left[x]
                        \/ play.newLeft[x] = MaxNewLeads[x] - ForCampaign(x, 1, {t})
      BY <1>1, <1>4 DEF PartKept
    <3>2. /\ ForCampaign(x, 1, {t})' = ForCampaign(x, 1, {t}) /\ ForCampaign(x, 1, {t}) \in Nat
          /\ MaxNewLeads[x] \in Nat
      BY <1>1, <1>5, PlayFields, Counts, ForecastAssumption
    <3>3. CASE x = c
      BY <2>1, <2>2, <2>3, <3>1, <3>2, <3>3
    <3>4. CASE x # c
      BY <2>1, <2>2, <2>3, <3>1, <3>2, <3>4
    <3> QED
      BY <3>3, <3>4
  <2>5. \A x \in ForecastCampaign, d \in Offsets : ForCampaign(x, 1, {d})' <= MaxNewLeads[x]
    BY <1>1, <1>5 DEF PartKept
  <2>6. /\ \A o \in play'.round : play'.newLeft[o] > 0
        /\ play'.round = {} => \A o \in ForecastCampaign : play'.newLeft[o] = 0
    BY <1>1, <1>3, <2>1, TurnOver
  <2>7. t = play'.offset
    BY <1>3, <1>4
  <2> QED
    BY <1>3, <2>4, <2>5, <2>6, <2>7 DEF PartKept
<1>11. FollowUpsFirst' /\ DayOver'
  <2>1. \A j \in DOMAIN play.next : PutOff(play.next[j], t)
    BY <1>1, <1>4 DEF FollowUpsFirst
  <2>2. \A f : PutOff(f, t) => PutOff(f, t)'
    BY <1>3, <1>5 DEF PutOff
  <2>3. (\A j \in DOMAIN play.next : PutOff(play.next[j], t))'
    BY <1>3, <2>1, <2>2
  <2>4. t = play'.offset
    BY <1>3, <1>4
  <2> QED
    BY <1>1, <1>3, <2>3, <2>4 DEF FollowUpsFirst, DayOver, PutOff
<1> QED
  BY <1>6, <1>7, <1>8, <1>9, <1>10, <1>11 DEF IPlan

LEMMA SendsFirst ==
  ASSUME IPlan, NEW c \in ForecastCampaign, play.pc = "firsts", c \in play.round,
         UNCHANGED <<booked, input>>, play' \in Plays, NEW m \in MailboxIds[c], FirstStep(c, m)
  PROVE  IPlan'
<1>1. /\ PlanTyped /\ PlanDated /\ RoomKept /\ LeadsKept /\ WaitsKept /\ PartKept
      /\ FollowUpsFirst /\ Inside
  BY DEF IPlan, Playing, Inside
<1>2. PICK t \in Offsets : t = play.offset /\ t \in Nat
  BY <1>1, PlayFields
<1>3. PICK left, e, w :
        /\ left = [play.newLeft EXCEPT ![c] = @ - 1]
        /\ e = [day |-> t, mailbox |-> m, campaign |-> c, step |-> 1]
        /\ w = [campaign |-> c, mailbox |-> m, stepsSent |-> 1, dueAt |-> t + FirstWait[c]]
  OBVIOUS
<1>4. m \in ForecastMailbox /\ FirstWait[c] \in Nat \ {0}
  BY ForecastAssumption
<1>5. /\ e \in Entry /\ e.day = t /\ e.mailbox = m /\ e.campaign = c /\ e.step = 1
      /\ w \in Wait /\ w.campaign = c /\ w.mailbox = m /\ w.dueAt = t + FirstWait[c]
  BY <1>2, <1>3, <1>4 DEF Entry, Wait
<1>6. /\ plan' = Append(plan, e) /\ play'.pc = "firsts" /\ play'.offset = play.offset
      /\ play'.capLeft = [play.capLeft EXCEPT ![m] = @ - 1]
      /\ play'.left = [play.left EXCEPT ![c] = @ - 1]
      /\ play'.pending = play.pending /\ play'.next = Append(play.next, w)
      /\ NextTurn(c, left) /\ play'.newLeft = left /\ play.capLeft[m] > 0
  BY <1>2, <1>3 DEF FirstStep, NextTurn
<1>7. /\ play.newLeft[c] > 0 /\ Open(c)
      /\ \A x \in ForecastCampaign : play.newLeft[x] \in Nat /\ play.left[x] \in Nat
      /\ \A b \in ForecastMailbox : play.capLeft[b] \in Int
      /\ play.next \in Seq(Wait) /\ play.pending \in Seq(Wait) /\ plan \in Seq(Entry)
  BY <1>1, PlayFields DEF PartKept
<1>8. /\ \A x \in ForecastCampaign :
           /\ left[x] = play.newLeft[x] - (IF x = c THEN 1 ELSE 0)
           /\ play'.left[x] = play.left[x] - (IF x = c THEN 1 ELSE 0)
      /\ \A b \in ForecastMailbox : play'.capLeft[b] = play.capLeft[b] - (IF b = m THEN 1 ELSE 0)
  BY <1>1, <1>3, <1>6, <1>7, PlayFields
<1>9. plan' \in Seq(Entry)
  BY <1>5, <1>6, <1>7, Added
<1>10. \A b \in ForecastMailbox : \A d :
         FromMailbox(b, {1}, d)' = FromMailbox(b, {1}, d) + (IF b = m /\ t = d THEN 1 ELSE 0)
  BY <1>5, <1>6, <1>7, Added
<1>11. ASSUME NEW x \in ForecastCampaign, NEW days
       PROVE  /\ ForCampaign(x, 1, days)' = ForCampaign(x, 1, days)
                   + (IF x = c /\ t \in days THEN 1 ELSE 0)
              /\ ForCampaign(x, 2, days)' = ForCampaign(x, 2, days)
              /\ ForCampaign(x, 1, days) \in Nat /\ ForCampaign(x, 2, days) \in Nat
  <2>1. \A step : ForCampaign(x, step, days)' = ForCampaign(x, step, days)
          + (IF e.campaign = x /\ e.step = step /\ e.day \in days THEN 1 ELSE 0)
    BY <1>5, <1>6, <1>7, Added
  <2>2. \A step : ForCampaign(x, step, days) \in Nat
    BY <1>7, Counts
  <2> QED
    BY <1>5, <2>1, <2>2
<1>12. ASSUME NEW x \in ForecastCampaign, NEW days
       PROVE  /\ Due(play'.next, x, days) = Due(play.next, x, days)
                   + (IF x = c /\ t + FirstWait[c] \in days THEN 1 ELSE 0)
              /\ Due(play.next, x, days) \in Nat /\ Due(play.pending, x, days) \in Nat
              /\ Due(play'.pending, x, days) = Due(play.pending, x, days)
  <2>1. /\ Due(Append(play.next, w), x, days) = Due(play.next, x, days)
             + (IF w.campaign = x /\ w.dueAt \in days THEN 1 ELSE 0)
        /\ Due(play.next, x, days) \in Nat /\ Due(play.pending, x, days) \in Nat
    BY <1>5, <1>7, Queued
  <2> QED
    BY <1>5, <1>6, <2>1
<1>13. PlanTyped'
  BY <1>1, <1>6, <1>9 DEF PlanTyped, Inside
<1>14. PlanDated'
  BY <1>1, <1>2, <1>5, <1>6, <1>7, DatedToday
<1>15. RoomKept'
  BY <1>1, <1>2, <1>4, <1>5, <1>6, RoomTaken
<1>16. LeadsKept'
  <2> SUFFICES ASSUME NEW x \in ForecastCampaign
               PROVE  /\ ForCampaign(x, 1, Offsets)' + play'.left[x] = input'.left[x]
                      /\ ForCampaign(x, 2, Offsets)' + Waiting(x)'
                           = Due(input'.followUps, x, Int) + ForCampaign(x, 1, Offsets)'
    BY DEF LeadsKept
  <2>1. /\ ForCampaign(x, 1, Offsets) + play.left[x] = input.left[x]
        /\ ForCampaign(x, 2, Offsets) + Waiting(x)
             = Due(input.followUps, x, Int) + ForCampaign(x, 1, Offsets)
    BY <1>1 DEF LeadsKept
  <2>2. /\ Waiting(x)' = Waiting(x) + (IF x = c THEN 1 ELSE 0)
        /\ Waiting(x) \in Nat
    <3>1. t + FirstWait[c] \in Int
      BY <1>2, <1>4
    <3> QED
      BY <1>12, <3>1 DEF Waiting
  <2>3. /\ ForCampaign(x, 1, Offsets)' = ForCampaign(x, 1, Offsets) + (IF x = c THEN 1 ELSE 0)
        /\ ForCampaign(x, 2, Offsets)' = ForCampaign(x, 2, Offsets)
        /\ ForCampaign(x, 1, Offsets) \in Nat /\ ForCampaign(x, 2, Offsets) \in Nat
    BY <1>2, <1>11
  <2>4. Due(input.followUps, x, Int) \in Nat
    <3>1. input.followUps \in Seq(Wait)
      BY <1>1, PlayFields DEF Inputs
    <3> QED
      BY <3>1, Queued
  <2>5. /\ play'.left[x] = play.left[x] - (IF x = c THEN 1 ELSE 0)
        /\ play.left[x] \in Nat /\ input'.left[x] = input.left[x]
        /\ Due(input'.followUps, x, Int) = Due(input.followUps, x, Int)
    BY <1>7, <1>8
  <2> QED
    BY <2>1, <2>2, <2>3, <2>4, <2>5
<1>17. WaitsKept'
  <2> SUFFICES ASSUME NEW x \in ForecastCampaign, NEW d \in Offsets
               PROVE  ForCampaign(x, 2, 0..d)' + Due(play'.pending, x, -1..d)
                          + Due(play'.next, x, -1..d)
                        <= ForCampaign(x, 1, 0..(d - FirstWait[x]))'
                             + Due(input'.followUps, x, -1..d)
    BY DEF WaitsKept
  <2>1. ForCampaign(x, 2, 0..d) + Due(play.pending, x, -1..d) + Due(play.next, x, -1..d)
          <= ForCampaign(x, 1, 0..(d - FirstWait[x])) + Due(input.followUps, x, -1..d)
    BY <1>1 DEF WaitsKept
  <2>2. t \in 0..(d - FirstWait[c]) <=> t + FirstWait[c] \in -1..d
    BY <1>2, <1>4 DEF Offsets
  <2>3. /\ ForCampaign(x, 2, 0..d)' = ForCampaign(x, 2, 0..d) /\ ForCampaign(x, 2, 0..d) \in Nat
        /\ ForCampaign(x, 1, 0..(d - FirstWait[x]))' = ForCampaign(x, 1, 0..(d - FirstWait[x]))
             + (IF x = c /\ t \in 0..(d - FirstWait[x]) THEN 1 ELSE 0)
        /\ ForCampaign(x, 1, 0..(d - FirstWait[x])) \in Nat
    BY <1>11
  <2>4. /\ Due(play'.next, x, -1..d) = Due(play.next, x, -1..d)
             + (IF x = c /\ t + FirstWait[c] \in -1..d THEN 1 ELSE 0)
        /\ Due(play.next, x, -1..d) \in Nat /\ Due(play.pending, x, -1..d) \in Nat
        /\ Due(play'.pending, x, -1..d) = Due(play.pending, x, -1..d)
    BY <1>12
  <2>5. Due(input.followUps, x, -1..d) \in Nat
    <3>1. input.followUps \in Seq(Wait)
      BY <1>1, PlayFields DEF Inputs
    <3> QED
      BY <3>1, Queued
  <2> QED
    BY <2>1, <2>2, <2>3, <2>4, <2>5
<1>18. PartKept'
  <2>1. \A x : Open(x)' <=> Open(x)
    BY <1>6 DEF Open
  <2>2. \A x \in ForecastCampaign : Full(x) => Full(x)'
    <3>1. \A x \in ForecastCampaign : \A b \in MailboxIds[x] : b \in ForecastMailbox
      BY ForecastAssumption
    <3> QED
      BY <1>7, <1>8, <3>1 DEF Full
  <2>3. ASSUME NEW x \in ForecastCampaign
        PROVE  /\ ForCampaign(x, 1, {t})'
                    = ForCampaign(x, 1, {t}) + (IF x = c THEN 1 ELSE 0)
               /\ ForCampaign(x, 1, {t}) \in Nat /\ MaxNewLeads[x] \in Nat
               /\ play.newLeft[x] <= play.left[x]
               /\ ForCampaign(x, 1, {t}) + play.newLeft[x] <= MaxNewLeads[x]
               /\ play.newLeft[x] > 0 => Open(x)
               /\ Open(x) => \/ play.newLeft[x] = 0 /\ Full(x)
                             \/ play.newLeft[x] = play.left[x]
                             \/ play.newLeft[x] = MaxNewLeads[x] - ForCampaign(x, 1, {t})
    <3>1. /\ ForCampaign(x, 1, {t})' = ForCampaign(x, 1, {t}) + (IF x = c /\ t \in {t} THEN 1 ELSE 0)
          /\ ForCampaign(x, 1, {t}) \in Nat
      BY <1>11
    <3>2. MaxNewLeads[x] \in Nat
      BY ForecastAssumption
    <3> QED
      BY <1>1, <1>2, <3>1, <3>2 DEF PartKept
  <2>4. ASSUME NEW x \in ForecastCampaign
        PROVE  /\ left[x] <= play'.left[x]
               /\ ForCampaign(x, 1, {t})' + left[x] <= MaxNewLeads[x]
               /\ left[x] > 0 => Open(x)'
               /\ Open(x)' => \/ left[x] = 0 /\ Full(x)'
                              \/ left[x] = play'.left[x]
                              \/ left[x] = MaxNewLeads[x] - ForCampaign(x, 1, {t})'
    <3>1. CASE x = c
      <4>1. /\ left[c] = play.newLeft[c] - 1 /\ play'.left[c] = play.left[c] - 1
            /\ play.newLeft[c] \in Nat /\ play.left[c] \in Nat /\ play.newLeft[c] > 0
        BY <1>7, <1>8
      <4>2. /\ ForCampaign(c, 1, {t})' = ForCampaign(c, 1, {t}) + 1
            /\ ForCampaign(c, 1, {t}) \in Nat /\ MaxNewLeads[c] \in Nat
            /\ play.newLeft[c] <= play.left[c]
            /\ ForCampaign(c, 1, {t}) + play.newLeft[c] <= MaxNewLeads[c]
            /\ \/ play.newLeft[c] = play.left[c]
               \/ play.newLeft[c] = MaxNewLeads[c] - ForCampaign(c, 1, {t})
        <5>1. /\ ForCampaign(c, 1, {t})' = ForCampaign(c, 1, {t}) + 1
              /\ ForCampaign(c, 1, {t}) \in Nat /\ MaxNewLeads[c] \in Nat
              /\ play.newLeft[c] <= play.left[c]
              /\ ForCampaign(c, 1, {t}) + play.newLeft[c] <= MaxNewLeads[c]
          BY <2>3
        <5>2. \/ play.newLeft[c] = 0 /\ Full(c)
              \/ play.newLeft[c] = play.left[c]
              \/ play.newLeft[c] = MaxNewLeads[c] - ForCampaign(c, 1, {t})
          BY <1>7, <2>3
        <5>3. play.newLeft[c] # 0
          BY <4>1
        <5> QED
          BY <5>1, <5>2, <5>3
      <4>3. Open(c)'
        BY <1>7, <2>1
      <4>4. /\ left[c] <= play'.left[c]
            /\ ForCampaign(c, 1, {t})' + left[c] <= MaxNewLeads[c]
            /\ \/ left[c] = play'.left[c]
               \/ left[c] = MaxNewLeads[c] - ForCampaign(c, 1, {t})'
        BY <4>1, <4>2
      <4> QED
        BY <3>1, <4>3, <4>4
    <3>2. CASE x # c
      <4>1. /\ left[x] = play.newLeft[x] /\ play'.left[x] = play.left[x]
            /\ ForCampaign(x, 1, {t})' = ForCampaign(x, 1, {t})
            /\ Full(x) => Full(x)'
        <5>1. /\ play.newLeft[x] \in Nat /\ play.left[x] \in Nat
              /\ ForCampaign(x, 1, {t}) \in Nat
          BY <1>7, <2>3
        <5>2. /\ left[x] = play.newLeft[x] - 0 /\ play'.left[x] = play.left[x] - 0
              /\ ForCampaign(x, 1, {t})' = ForCampaign(x, 1, {t}) + 0
          BY <1>8, <2>3, <3>2
        <5> QED
          BY <2>2, <5>1, <5>2
      <4> QED
        BY <2>1, <2>3, <4>1
    <3> QED
      BY <3>1, <3>2
  <2>5. ASSUME NEW x \in ForecastCampaign, NEW d \in Offsets
        PROVE  ForCampaign(x, 1, {d})' <= MaxNewLeads[x]
    <3>1. CASE x = c /\ d = t
      <4>1. /\ ForCampaign(c, 1, {t})' = ForCampaign(c, 1, {t}) + 1
            /\ ForCampaign(c, 1, {t}) \in Nat /\ MaxNewLeads[c] \in Nat
            /\ ForCampaign(c, 1, {t}) + play.newLeft[c] <= MaxNewLeads[c]
            /\ play.newLeft[c] \in Nat /\ play.newLeft[c] > 0
        BY <1>7, <2>3
      <4>2. ForCampaign(c, 1, {t})' <= MaxNewLeads[c]
        BY <4>1
      <4> QED
        BY <3>1, <4>2
    <3>2. CASE ~(x = c /\ d = t)
      <4>1. ForCampaign(x, 1, {d})' = ForCampaign(x, 1, {d})
              + (IF x = c /\ t \in {d} THEN 1 ELSE 0) /\ ForCampaign(x, 1, {d}) \in Nat
        BY <1>11
      <4> QED
        BY <1>1, <3>2, <4>1 DEF PartKept
    <3> QED
      BY <3>1, <3>2
  <2>6. /\ \A o \in play'.round : play'.newLeft[o] > 0
        /\ play'.round = {} => \A o \in ForecastCampaign : play'.newLeft[o] = 0
    <3>1. \A o \in ForecastCampaign : o # c => left[o] = play.newLeft[o]
      BY <1>7, <1>8
    <3> QED
      BY <1>1, <1>6, <3>1, TurnOver
  <2>7. t = play'.offset
    BY <1>2, <1>6
  <2> QED
    BY <1>6, <2>4, <2>5, <2>6, <2>7 DEF PartKept
<1>19. FollowUpsFirst' /\ DayOver'
  <2>1. \A j \in DOMAIN play.next : PutOff(play.next[j], t) /\ play.next[j] \in Wait
    BY <1>1, <1>2, PlayFields DEF FollowUpsFirst
  <2>2. ASSUME NEW f \in Wait, PutOff(f, t)
        PROVE  PutOff(f, t)'
    <3>1. f.mailbox \in ForecastMailbox
      BY DEF Wait
    <3>2. CASE f.mailbox = m
      BY <1>6, <2>2, <3>2, <1>7, <3>1 DEF PutOff
    <3>3. CASE f.mailbox # m
      <4>1. play'.capLeft[f.mailbox] = play.capLeft[f.mailbox]
        BY <1>7, <1>8, <3>1, <3>3
      <4>2. FromMailbox(f.mailbox, {1}, t)' = FromMailbox(f.mailbox, {1}, t)
        <5>1. FromMailbox(f.mailbox, {1}, t) \in Nat
          BY <1>7, Counts
        <5> QED
          BY <1>10, <3>1, <3>3, <5>1
      <4> QED
        BY <2>2, <4>1, <4>2 DEF PutOff
    <3> QED
      BY <3>2, <3>3
  <2>3. PutOff(w, t)'
    <3>1. ~(w.dueAt <= t)
      BY <1>2, <1>4, <1>5
    <3> QED
      BY <3>1 DEF PutOff
  <2>4. (\A j \in DOMAIN play.next : PutOff(play.next[j], t))'
    <3>1. /\ DOMAIN Append(play.next, w) = DOMAIN play.next \cup {Len(play.next) + 1}
          /\ Append(play.next, w)[Len(play.next) + 1] = w
          /\ \A j \in DOMAIN play.next : Append(play.next, w)[j] = play.next[j]
      <4>1. /\ Append(play.next, w) \in Seq(Wait)
            /\ Len(Append(play.next, w)) = Len(play.next) + 1
            /\ DOMAIN play.next = 1..Len(play.next) /\ Len(play.next) \in Nat
            /\ Append(play.next, w)[Len(play.next) + 1] = w
            /\ \A j \in 1..Len(play.next) : Append(play.next, w)[j] = play.next[j]
        BY <1>5, <1>7, AppendProperties, LenProperties
      <4>2. DOMAIN Append(play.next, w) = 1..(Len(play.next) + 1)
        BY <4>1, LenProperties
      <4> QED
        BY <4>1, <4>2
    <3>2. PICK q : q = Append(play.next, w)
      OBVIOUS
    <3>3. \A j \in DOMAIN q :
            \/ j \in DOMAIN play.next /\ q[j] = play.next[j]
            \/ q[j] = w
      BY <3>1, <3>2
    <3>4. \A j \in DOMAIN q : PutOff(q[j], t)'
      BY <2>1, <2>2, <2>3, <3>3
    <3>5. play'.next = q
      BY <1>6, <3>2
    <3> QED
      BY <3>4, <3>5
  <2>5. t = play'.offset
    BY <1>2, <1>6
  <2> QED
    BY <1>1, <1>6, <2>4, <2>5 DEF FollowUpsFirst, DayOver, PutOff
<1> QED
  BY <1>13, <1>14, <1>15, <1>16, <1>17, <1>18, <1>19 DEF IPlan


LEMMA PlanStep == IPlan /\ [ForecastNext]_forecastVars => IPlan'
<1> SUFFICES ASSUME IPlan, [ForecastNext]_forecastVars PROVE IPlan'
  OBVIOUS
<1>1. PlanTyped
  BY DEF IPlan
<1>2. CASE StatusReadsQueue
  BY <1>1, <1>2, AsksStep
<1>3. CASE loadForecastInput
  BY <1>1, <1>3, LoadStep
<1>4. CASE StartDay
  BY <1>4, StartDayStep
<1>5. CASE PlayFollowUp
  BY <1>1, <1>5, FollowUpCases, PutsOff, SendsFollowUp
<1>6. CASE StartFirsts
  BY <1>6, StartFirstsStep
<1>7. CASE EndDay
  BY <1>7, EndDayStep
<1>8. CASE StatusAnswers
  BY <1>1, <1>8, AnswersStep
<1>9. ASSUME NEW c \in ForecastCampaign, PlayFirst(c)
      PROVE  IPlan'
  BY <1>9, FirstCases, NoRoom, SendsFirst
<1>10. ASSUME UNCHANGED <<booked, input, play, plan>>
       PROVE  IPlan'
  <2>1. /\ PlanTyped' <=> PlanTyped
        /\ Playing' <=> Playing
        /\ PlanDated' <=> PlanDated
    BY <1>10 DEF PlanTyped, Playing, PlanDated
  <2>2. /\ \A m, steps, d : FromMailbox(m, steps, d)' = FromMailbox(m, steps, d)
        /\ \A c, step, days : ForCampaign(c, step, days)' = ForCampaign(c, step, days)
        /\ \A m, d : Room(m, d)' = Room(m, d)
    BY <1>10, NotAdded, RoomSame
  <2>3. RoomKept => RoomKept'
    BY <1>10, <2>2 DEF RoomKept, Max, Inside
  <2>4. LeadsKept /\ WaitsKept => LeadsKept' /\ WaitsKept'
    BY <1>10, <2>2 DEF LeadsKept, WaitsKept, Waiting
  <2>5. PartKept => PartKept'
    BY <1>10, <2>2 DEF PartKept, Open, Full
  <2>6. FollowUpsFirst /\ DayOver => FollowUpsFirst' /\ DayOver'
    BY <1>10, <2>2 DEF FollowUpsFirst, DayOver, PutOff, Full, Inside
  <2> QED
    BY <2>1, <2>3, <2>4, <2>5, <2>6 DEF IPlan
<1>11. CASE CacheExpires
  BY <1>10, <1>11 DEF CacheExpires
<1>12. CASE UNCHANGED forecastVars
  BY <1>10, <1>12 DEF forecastVars
<1> QED
  BY <1>2, <1>3, <1>4, <1>5, <1>6, <1>7, <1>8, <1>9, <1>11, <1>12 DEF ForecastNext

LEMMA PlanIsFit == IPlan => PlanFits
<1> SUFFICES ASSUME IPlan, play.pc \notin {"idle", "load"}
             PROVE  PlanFits
  BY DEF PlanFits
<1>1. PlanTyped
  BY DEF IPlan
<1>2. play.pc \in {"idle", "load", "day", "followUps", "firsts"}
  BY <1>1, PlayFields DEF Plays
<1>3. /\ PlanDated /\ RoomKept /\ LeadsKept /\ WaitsKept /\ PartKept
      /\ FollowUpsFirst /\ DayOver
  BY <1>2 DEF IPlan, Playing
<1>4. ASSUME NEW c \in ForecastCampaign, NEW d \in Offsets, d \notin input.open[c]
      PROVE  ForCampaign(c, 1, {d}) + ForCampaign(c, 2, {d}) = 0
  <2>1. \A i \in DOMAIN plan : ~(plan[i].campaign = c /\ plan[i].day = d)
    BY <1>3, <1>4 DEF PlanDated
  <2>2. ForCampaign(c, 1, {d}) = 0 /\ ForCampaign(c, 2, {d}) = 0
    BY <2>1, NonePlanned
  <2> QED
    BY <2>2
<1>5. ASSUME NEW c \in ForecastCampaign, NEW d \in Offsets
      PROVE  ForCampaign(c, 2, 0..d)
               <= ForCampaign(c, 1, 0..(d - FirstWait[c])) + Due(input.followUps, c, -1..d)
  <2>1. ForCampaign(c, 2, 0..d) + Due(play.pending, c, -1..d) + Due(play.next, c, -1..d)
          <= ForCampaign(c, 1, 0..(d - FirstWait[c])) + Due(input.followUps, c, -1..d)
    BY <1>3 DEF WaitsKept
  <2>2. /\ ForCampaign(c, 2, 0..d) \in Nat /\ ForCampaign(c, 1, 0..(d - FirstWait[c])) \in Nat
        /\ Due(play.pending, c, -1..d) \in Nat /\ Due(play.next, c, -1..d) \in Nat
    BY <1>1, PlayFields, Counts, Queued
  <2>3. Due(input.followUps, c, -1..d) \in Nat
    <3>1. input.followUps \in Seq(Wait)
      BY <1>1, PlayFields DEF Inputs
    <3> QED
      BY <3>1, Queued
  <2> QED
    BY <2>1, <2>2, <2>3
<1>6. \A m \in ForecastMailbox, d \in Offsets : FromMailbox(m, {1, 2}, d) <= Max({0, Room(m, d)})
  BY <1>3 DEF RoomKept
<1>7. \A c \in ForecastCampaign :
        /\ ForCampaign(c, 1, Offsets) + play.left[c] = input.left[c]
        /\ ForCampaign(c, 2, Offsets) + Waiting(c)
             = Due(input.followUps, c, Int) + ForCampaign(c, 1, Offsets)
  BY <1>3 DEF LeadsKept
<1>8. \A c \in ForecastCampaign, d \in Offsets : ForCampaign(c, 1, {d}) <= MaxNewLeads[c]
  BY <1>3 DEF PartKept
<1>9. play.pc = "day" /\ play.offset > 0 =>
        /\ \A c \in ForecastCampaign :
             play.left[c] > 0 /\ play.offset - 1 \in input.open[c]
               /\ ForCampaign(c, 1, {play.offset - 1}) < MaxNewLeads[c] =>
                 \A m \in MailboxIds[c] : play.capLeft[m] <= 0
        /\ \A i \in DOMAIN play.pending :
             play.pending[i].dueAt <= play.offset - 1
               /\ play.offset - 1 \in input.open[play.pending[i].campaign] =>
                  /\ play.capLeft[play.pending[i].mailbox] <= 0
                  /\ FromMailbox(play.pending[i].mailbox, {1}, play.offset - 1) = 0
  <2> SUFFICES ASSUME play.pc = "day", play.offset > 0
               PROVE  /\ \A c \in ForecastCampaign :
                           play.left[c] > 0 /\ play.offset - 1 \in input.open[c]
                             /\ ForCampaign(c, 1, {play.offset - 1}) < MaxNewLeads[c] =>
                               \A m \in MailboxIds[c] : play.capLeft[m] <= 0
                      /\ \A i \in DOMAIN play.pending :
                           play.pending[i].dueAt <= play.offset - 1
                             /\ play.offset - 1 \in input.open[play.pending[i].campaign] =>
                                /\ play.capLeft[play.pending[i].mailbox] <= 0
                                /\ FromMailbox(play.pending[i].mailbox, {1}, play.offset - 1) = 0
    OBVIOUS
  <2>1. \A c \in ForecastCampaign :
          play.left[c] > 0 /\ play.offset - 1 \in input.open[c]
            /\ ForCampaign(c, 1, {play.offset - 1}) < MaxNewLeads[c] => Full(c)
    BY <1>3 DEF DayOver
  <2>2. \A i \in DOMAIN play.pending : PutOff(play.pending[i], play.offset - 1)
    BY <1>3 DEF DayOver
  <2> QED
    BY <2>1, <2>2 DEF Full, PutOff
<1> QED
  BY <1>4, <1>5, <1>6, <1>7, <1>8, <1>9 DEF PlanFits

(* The forecast keeps every rule the sender keeps, whatever the mailboxes,   *)
(* campaigns, limits, waits, booked jobs and days: no mailbox over its room, *)
(* no campaign over its daily limit, no lead planned twice or dropped, no    *)
(* follow-up before its wait, and nothing put off while there was room.      *)
THEOREM TheForecastIsKept == ForecastSpec => []PlanFits
<1>1. ForecastInit => IPlan
  BY PlanStarts
<1>2. IPlan /\ [ForecastNext]_forecastVars => IPlan'
  BY PlanStep
<1>3. IPlan => PlanFits
  BY PlanIsFit
<1> QED
  BY <1>1, <1>2, <1>3, PTL DEF ForecastSpec

=============================================================================
