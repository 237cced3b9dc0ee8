------------------------------ MODULE Domains ------------------------------
(***************************************************************************)
(* A sending domain's row and the checks of its link domain, the host its   *)
(* unsubscribe links and its EHLO name use once a check has passed.  The    *)
(* dashboard's check, the hourly one, an edit and a deletion all read the   *)
(* row first and write it, by id, later.                                    *)
(*                                                                          *)
(* The row is its link domain and whether mailboxes hang on it; SPF, DKIM,  *)
(* DMARC and blocklists are written by the same update and read by nobody   *)
(* else here.                                                               *)
(***************************************************************************)
EXTENDS Integers

CONSTANTS
  Host,        \* link domains the owner may type (normalizeLinkDomain)
  NoHost,      \* no link domain
  MaxDomains   \* bound: times the domain is added

ASSUME DomainsAssumption == NoHost \notin Host /\ MaxDomains \in Nat

Check == {"hourly", "dashboard"}

VARIABLES
  domain,     \* the Domain row
  edit,       \* PATCH /domains/:id between its read and its write
  removal,    \* DELETE /domains/:id between its count and its delete: the row's id
  checks,     \* checks under way
  reaching,   \* hosts through which this install answers
  reached,    \* history: hosts a check of this row has reached it through
  overtaken   \* history: checks an edit of the host overtook, and "row" once one was saved

domainsVars == <<domain, edit, removal, checks, reaching, reached, overtaken>>

Domain == [id : 0..MaxDomains, linkDomain : Host \cup {NoHost},
           linkDomainStatus : {"PENDING", "PASS", "FAIL"}, mailboxes : BOOLEAN]
NewDomain == [id |-> 0, linkDomain |-> NoHost, linkDomainStatus |-> "PENDING",
              mailboxes |-> FALSE]
NoEdit == [id |-> 0, linkDomain |-> NoHost]
NoCheck == [pc |-> "none", id |-> 0, host |-> NoHost, status |-> "FAIL"]

DomainsTypeOK ==
  /\ domain \in Domain
  /\ edit \in [id : 0..MaxDomains, linkDomain : Host \cup {NoHost}]
  /\ removal \in 0..MaxDomains
  /\ checks \in [Check -> [pc : {"none", "fetch", "save"}, id : 0..MaxDomains,
                           host : Host \cup {NoHost}, status : {"PASS", "FAIL"}]]
  /\ reaching \subseteq Host /\ reached \subseteq Host
  /\ overtaken \subseteq Check \cup {"row"}

DomainsInit ==
  /\ domain = NewDomain
  /\ edit = NoEdit
  /\ removal = 0
  /\ checks = [c \in Check |-> NoCheck]
  /\ reaching \in SUBSET Host
  /\ reached = {}
  /\ overtaken = {}

-----------------------------------------------------------------------------
(* The row.                                                                 *)

AddDomain ==
  /\ domain.id = 0
  /\ \E id \in 1..MaxDomains :
       /\ id > edit.id /\ id > removal /\ \A c \in Check : id > checks[c].id
       /\ domain' = [NewDomain EXCEPT !.id = id]
  /\ reached' = {} /\ overtaken' = {}
  /\ UNCHANGED <<edit, removal, checks, reaching>>

EditDomainReads ==
  /\ edit = NoEdit /\ domain.id # 0
  /\ \E h \in (Host \cup {NoHost}) \ {domain.linkDomain} :
       edit' = [id |-> domain.id, linkDomain |-> h]
  /\ UNCHANGED <<domain, removal, checks, reaching, reached, overtaken>>

\* mutant: the new host keeps the old one's status
NewHost_Checked(row) == [row EXCEPT !.linkDomain = edit.linkDomain]

(* "A changed host is unproven".                                            *)
NewHost(row) == [row EXCEPT !.linkDomain = edit.linkDomain, !.linkDomainStatus = "PENDING"]

EditDomainWrites ==
  /\ edit # NoEdit
  /\ IF domain.id = edit.id
     THEN /\ domain' = NewHost(domain)
          /\ overtaken' = {c \in Check : checks[c].id = edit.id}
     ELSE UNCHANGED <<domain, overtaken>>
  /\ edit' = NoEdit
  /\ UNCHANGED <<removal, checks, reaching, reached>>

AddsMailbox ==
  /\ domain.id # 0
  /\ domain' = [domain EXCEPT !.mailboxes = TRUE]
  /\ UNCHANGED <<edit, removal, checks, reaching, reached, overtaken>>

RemovesMailboxes ==
  /\ domain' = [domain EXCEPT !.mailboxes = FALSE]
  /\ UNCHANGED <<edit, removal, checks, reaching, reached, overtaken>>

RemoveDomainReads ==
  /\ removal = 0 /\ domain.id # 0 /\ ~domain.mailboxes
  /\ removal' = domain.id
  /\ UNCHANGED <<domain, edit, checks, reaching, reached, overtaken>>

(* The delete cascades: a mailbox added since the count goes too.           *)
RemoveDomainWrites ==
  /\ removal # 0
  /\ domain' = IF domain.id = removal THEN NewDomain ELSE domain
  /\ removal' = 0
  /\ UNCHANGED <<edit, checks, reaching, reached, overtaken>>

-----------------------------------------------------------------------------
(* A check: the row is read, the ping page is fetched through its host, the *)
(* result is saved.                                                         *)

CheckReads(c) ==
  /\ checks[c] = NoCheck
  /\ domain.id # 0 /\ domain.linkDomain # NoHost
  /\ checks' = [checks EXCEPT ![c] = [pc |-> "fetch", id |-> domain.id,
                                      host |-> domain.linkDomain, status |-> "FAIL"]]
  /\ UNCHANGED <<domain, edit, removal, reaching, reached, overtaken>>

\* checkLinkDomain
CheckFetches(c) ==
  /\ checks[c].pc = "fetch"
  /\ LET pass == checks[c].host \in reaching
     IN /\ checks' = [checks EXCEPT ![c].pc = "save",
                                    ![c].status = IF pass THEN "PASS" ELSE "FAIL"]
        /\ reached' = IF pass /\ checks[c].id = domain.id
                      THEN reached \cup {checks[c].host} ELSE reached
  /\ UNCHANGED <<domain, edit, removal, reaching, overtaken>>

\* mutant: a host that does not answer leaves the last result
linkDomainUpdate_Kept(row, check) ==
  IF check.status = "PASS" THEN [row EXCEPT !.linkDomainStatus = "PASS"] ELSE row

linkDomainUpdate(row, check) == [row EXCEPT !.linkDomainStatus = check.status]

(* By id: whatever host the row names by now.                               *)
CheckSaves(c) ==
  /\ checks[c].pc = "save"
  /\ domain' = IF domain.id = checks[c].id THEN linkDomainUpdate(domain, checks[c]) ELSE domain
  /\ overtaken' = IF c \in overtaken THEN (overtaken \ {c}) \cup {"row"}
                  ELSE IF checks[c].id = domain.id THEN overtaken \ {"row"} ELSE overtaken
  /\ checks' = [checks EXCEPT ![c] = NoCheck]
  /\ UNCHANGED <<edit, removal, reaching, reached>>

(* DNS, the certificate and the server behind a host come and go.           *)
HostChanges ==
  /\ \E h \in Host :
       reaching' = IF h \in reaching THEN reaching \ {h} ELSE reaching \cup {h}
  /\ UNCHANGED <<domain, edit, removal, checks, reached, overtaken>>

DomainsNext ==
  \/ AddDomain
  \/ EditDomainReads \/ EditDomainWrites
  \/ AddsMailbox \/ RemovesMailboxes
  \/ RemoveDomainReads \/ RemoveDomainWrites
  \/ \E c \in Check : CheckReads(c) \/ CheckFetches(c) \/ CheckSaves(c)
  \/ HostChanges

DomainsSpec == DomainsInit /\ [][DomainsNext]_domainsVars

(* blocklist-poll runs every hour; a fetch ends within its timeout.         *)
DomainsFair ==
  /\ WF_domainsVars(CheckReads("hourly") \/ CheckFetches("hourly") \/ CheckSaves("hourly"))
  /\ WF_domainsVars(CheckFetches("dashboard") \/ CheckSaves("dashboard"))

-----------------------------------------------------------------------------
(* Properties.                                                              *)

\* linkHostFor
linkUsed == domain.linkDomain # NoHost /\ domain.linkDomainStatus = "PASS"

(* "a link domain is used only after a check has reached THIS install       *)
(* through it" (linkDomain.ts), unless the host was changed under a check:  *)
(* that check's result lands on the new host.                               *)
LinkProven == linkUsed => domain.linkDomain \in reached \/ "row" \in overtaken

(* "a host that stops answering ... flips to FAIL within the hour, and its  *)
(* emails go back to the install's own link" (domainCheck.ts): also after   *)
(* that race.                                                               *)
LinkFails ==
  \A h \in Host : <>[](domain.linkDomain = h /\ h \notin reaching) => <>[]~linkUsed

=============================================================================
