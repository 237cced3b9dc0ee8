---------------------------- MODULE AddressCheck ----------------------------
(***************************************************************************)
(* The check of a first email's address before it is written: the look-    *)
(* ahead pass asks the recipient's server early, the job uses that verdict  *)
(* or asks itself, a dead address ends the lead, a "not now" puts it back   *)
(* in line up to MAX_UNKNOWN_RETRIES times.  Verdicts and tries are kept in *)
(* Redis by lead, next to the owner correcting the lead's address.          *)
(*                                                                          *)
(* One lead.  A server's answer is what classifyRcpt tells apart: "ok" 2xx, *)
(* "later" 4xx, and among the refusals "gone" (no such mailbox), "relay"    *)
(* (no mail for the domain) and "policy" (about us).                        *)
(***************************************************************************)
EXTENDS Integers

CONSTANTS
  Address,               \* addresses the lead may be given
  MAX_UNKNOWN_RETRIES,   \* times a lead is put back to be asked about again
  MaxEdits,              \* bound: corrections of the address
  MaxReleases,           \* bound: jobs that find their mailbox unable to send
  MaxExpiries            \* bound: times the count of tries runs out (12 h idle)

ASSUME AddressCheckAssumption ==
  {MAX_UNKNOWN_RETRIES, MaxEdits, MaxReleases, MaxExpiries} \subseteq Nat

Kinds == {"alive", "takesAll", "dead", "unhosted", "noMail", "junk"}
Dead == {"dead", "unhosted", "noMail", "junk"}
Verdict == {"valid", "invalid", "catch_all", "unknown"}

VARIABLES
  kind,     \* the world: what each address is
  addressee,\* the Lead row: address, status, job, waiting for nextRetryAt
  verdict,  \* addresscheck:verdict:<lead>
  tries,    \* addresscheck:tries:<lead>
  pre,      \* the look-ahead pass: the address it is asking about
  job,      \* processDispatchJob
  spent,    \* bounds used up: edits, releases, expiries
  moved     \* history: the address changed after it was asked about

addressCheckVars == <<kind, addressee, verdict, tries, pre, job, spent, moved>>

NoAddress == "none"
NoLead == [email |-> NoAddress, status |-> "none", queuedJob |-> FALSE, waits |-> FALSE]
NoJob == [pc |-> "none", email |-> NoAddress]
Unclear == [verdict |-> "unknown", retryable |-> FALSE]
NotNow == [verdict |-> "unknown", retryable |-> TRUE]

AddressCheckTypeOK ==
  LET A == Address \cup {NoAddress} IN
  /\ kind \in [Address -> Kinds]
  /\ addressee \in [email : A, queuedJob : BOOLEAN, waits : BOOLEAN,
                    status : {"none", "UNTOUCHED", "QUEUED", "FAILED", "CONTACTED"}]
  /\ verdict \in Verdict \cup {"none"} /\ tries \in Nat
  /\ pre \in A
  /\ job \in [pc : {"none", "saved", "ask", "stop", "later", "send"}, email : A]
  /\ spent \in [edits : 0..MaxEdits, releases : 0..MaxReleases, expiries : 0..MaxExpiries]
  /\ moved \in BOOLEAN

AddressCheckInit ==
  /\ kind = [a \in Address |-> "alive"]
  /\ addressee = NoLead
  /\ verdict = "none" /\ tries = 0
  /\ pre = NoAddress
  /\ job = NoJob
  /\ spent = [edits |-> 0, releases |-> 0, expiries |-> 0]
  /\ moved = FALSE

-----------------------------------------------------------------------------
(* One check of one address: every answer it may bring.                     *)

Refusal == {"gone", "relay", "policy"}

\* mutant: any refusal is about the mailbox
classifyRcpt_AnyRefusal(real, madeUp) ==
  CASE real = "ok" -> [verdict |-> IF madeUp \in Refusal THEN "valid" ELSE "catch_all",
                       retryable |-> FALSE]
    [] real \in Refusal -> [verdict |-> "invalid", retryable |-> FALSE]
    [] OTHER -> NotNow

classifyRcpt(real, madeUp) ==
  CASE real = "ok" -> [verdict |-> IF madeUp \in Refusal THEN "valid" ELSE "catch_all",
                       retryable |-> FALSE]
    [] real = "gone" \/ (real = "relay" /\ madeUp = "relay") ->
         [verdict |-> "invalid", retryable |-> FALSE]
    [] OTHER -> [verdict |-> "unknown", retryable |-> real = "later"]

\* replies of a server that gets as far as RCPT, to the address and to a made-up one
Replies(k) ==
  {<<"later", "later">>, <<"policy", "policy">>} \cup
  CASE k = "alive" -> {<<"ok", "gone">>, <<"ok", "later">>}
    [] k = "takesAll" -> {<<"ok", "ok">>}
    [] k = "dead" -> {<<"gone", "gone">>, <<"gone", "later">>}
    [] OTHER -> {<<"relay", "relay">>}

(* askMailServer may also fail on every host: dropped or refused for good,  *)
(* or refused with a 4xx; and DNS may not answer.                           *)
checkAddress(k) ==
  {Unclear} \cup
  IF k = "noMail" THEN {[verdict |-> "invalid", retryable |-> FALSE]}
  ELSE {NotNow} \cup {classifyRcpt(r[1], r[2]) : r \in Replies(k)}

-----------------------------------------------------------------------------
(* The lead.                                                                *)

AddAddressee ==
  /\ addressee = NoLead
  /\ kind' \in [Address -> Kinds]
  /\ \E a \in Address :
       addressee' = [email |-> a, status |-> "UNTOUCHED", queuedJob |-> FALSE, waits |-> FALSE]
  /\ UNCHANGED <<verdict, tries, pre, job, spent, moved>>

(* PATCH /leads/:id: the lead keeps its id, and with it what Redis holds.   *)
CorrectAddress(a) ==
  /\ addressee.status = "UNTOUCHED" /\ a # addressee.email
  /\ spent.edits < MaxEdits
  /\ addressee' = [addressee EXCEPT !.email = a]
  /\ spent' = [spent EXCEPT !.edits = @ + 1]
  /\ moved' = (moved \/ verdict # "none" \/ pre # NoAddress)
  /\ UNCHANGED <<kind, verdict, tries, pre, job>>

BookFirstEmail ==
  /\ \/ addressee.status = "UNTOUCHED"
     \/ addressee.status = "QUEUED" /\ ~addressee.queuedJob
  /\ ~addressee.waits
  /\ addressee' = [addressee EXCEPT !.status = "QUEUED", !.queuedJob = TRUE]
  /\ UNCHANGED <<kind, verdict, tries, pre, job, spent, moved>>

RetryDue ==
  /\ addressee.waits
  /\ addressee' = [addressee EXCEPT !.waits = FALSE]
  /\ UNCHANGED <<kind, verdict, tries, pre, job, spent, moved>>

-----------------------------------------------------------------------------
(* The look-ahead pass.                                                     *)

PrecheckReads ==
  /\ pre = NoAddress
  /\ \/ addressee.status = "UNTOUCHED"
     \/ addressee.status = "QUEUED" /\ ~addressee.queuedJob
  /\ verdict = "none"
  /\ kind[addressee.email] # "junk" \* junkAddressReason
  /\ pre' = addressee.email
  /\ UNCHANGED <<kind, addressee, verdict, tries, job, spent, moved>>

\* rememberVerdict: under the lead's id; a failure to save is logged
PrecheckSaves ==
  /\ pre # NoAddress
  /\ \/ \E r \in checkAddress(kind[pre]) : verdict' = r.verdict
     \/ UNCHANGED verdict
  /\ pre' = NoAddress
  /\ UNCHANGED <<kind, addressee, tries, job, spent, moved>>

-----------------------------------------------------------------------------
(* The job.                                                                 *)

Unbooked(status, waits) ==
  IF addressee.status = "QUEUED"
  THEN [addressee EXCEPT !.status = status, !.queuedJob = FALSE, !.waits = waits]
  ELSE addressee

JobStarts ==
  /\ job = NoJob /\ addressee.queuedJob
  /\ job' = [pc |-> IF kind[addressee.email] = "junk" THEN "stop" ELSE "saved",
             email |-> addressee.email]
  /\ UNCHANGED <<kind, addressee, verdict, tries, pre, spent, moved>>

(* The mailbox, the campaign or the lead no longer fits: releaseLead.       *)
JobReleases ==
  /\ job = NoJob /\ addressee.queuedJob
  /\ spent.releases < MaxReleases
  /\ addressee' = Unbooked("UNTOUCHED", addressee.waits)
  /\ spent' = [spent EXCEPT !.releases = @ + 1]
  /\ UNCHANGED <<kind, verdict, tries, pre, job, moved>>

\* cachedVerdict: a clear one is used; the check may also be off
JobLooksUp ==
  /\ job.pc = "saved"
  /\ \/ job' = [job EXCEPT !.pc = CASE verdict = "invalid" -> "stop"
                                    [] verdict \in {"valid", "catch_all"} -> "send"
                                    [] OTHER -> "ask"]
     \/ job' = [job EXCEPT !.pc = "send"]
  /\ UNCHANGED <<kind, addressee, verdict, tries, pre, spent, moved>>

\* mutant: the count starts over with every verdict
takeUnknownRetry_Reset == tries' = 1 /\ job' = [job EXCEPT !.pc = "later"]

takeUnknownRetry ==
  /\ tries' = tries + 1
  /\ job' = [job EXCEPT !.pc = IF tries < MAX_UNKNOWN_RETRIES THEN "later" ELSE "send"]

(* The server is asked; Redis may fail, and then a "not now" is sent.       *)
JobAsks ==
  /\ job.pc = "ask"
  /\ \E r \in checkAddress(kind[job.email]) :
       /\ verdict' \in {verdict, r.verdict}
       /\ CASE r.verdict = "invalid" -> job' = [job EXCEPT !.pc = "stop"] /\ UNCHANGED tries
            [] r = NotNow -> \/ takeUnknownRetry
                             \/ job' = [job EXCEPT !.pc = "send"] /\ UNCHANGED tries
            [] OTHER -> job' = [job EXCEPT !.pc = "send"] /\ UNCHANGED tries
  /\ UNCHANGED <<kind, addressee, pre, spent, moved>>

\* stopDeadAddress
JobStops ==
  /\ job.pc = "stop"
  /\ addressee' = Unbooked("FAILED", FALSE)
  /\ job' = NoJob
  /\ UNCHANGED <<kind, verdict, tries, pre, spent, moved>>

\* askAgainLater, 30 to 60 minutes on
JobWaits ==
  /\ job.pc = "later"
  /\ addressee' = Unbooked("QUEUED", TRUE)
  /\ job' = NoJob
  /\ UNCHANGED <<kind, verdict, tries, pre, spent, moved>>

(* The email is written and sent; what may go wrong then is Dispatch's.     *)
JobSends ==
  /\ job.pc = "send"
  /\ addressee' = Unbooked("CONTACTED", FALSE)
  /\ job' = NoJob
  /\ UNCHANGED <<kind, verdict, tries, pre, spent, moved>>

VerdictExpires ==
  /\ verdict # "none"
  /\ verdict' = "none"
  /\ UNCHANGED <<kind, addressee, tries, pre, job, spent, moved>>

TriesExpire ==
  /\ tries > 0 /\ spent.expiries < MaxExpiries
  /\ tries' = 0
  /\ spent' = [spent EXCEPT !.expiries = @ + 1]
  /\ UNCHANGED <<kind, addressee, verdict, pre, job, moved>>

JobStep == \/ JobStarts \/ JobLooksUp \/ JobAsks \/ JobStops \/ JobWaits \/ JobSends

AddressCheckNext ==
  \/ AddAddressee
  \/ \E a \in Address : CorrectAddress(a)
  \/ BookFirstEmail \/ RetryDue
  \/ PrecheckReads \/ PrecheckSaves
  \/ JobReleases \/ JobStep
  \/ VerdictExpires \/ TriesExpire

AddressCheckSpec == AddressCheckInit /\ [][AddressCheckNext]_addressCheckVars

(* The worker ticks, its jobs run, and time passes.                         *)
AddressCheckFair ==
  /\ WF_addressCheckVars(BookFirstEmail)
  /\ WF_addressCheckVars(RetryDue)
  /\ WF_addressCheckVars(JobStep)

-----------------------------------------------------------------------------
(* Properties.                                                              *)

(* "Ends a lead whose address the pre-send check found dead" (processor.ts).*)
StoppedIsDead == addressee.status = "FAILED" => kind[addressee.email] \in Dead

(* A lead that is stopped has an address nobody reads, whatever a server    *)
(* says about us, the domain, or a made-up address; except that a verdict   *)
(* outlives a correction of the address.                                    *)
DeadIsDead == moved \/ StoppedIsDead

(* "A delay, never a block: after the last try the lead is sent"            *)
(* (addressRisk.ts): whatever the server keeps answering.                   *)
NotBlocked == (addressee.status = "UNTOUCHED") ~> (addressee.status \in {"FAILED", "CONTACTED"})

=============================================================================
