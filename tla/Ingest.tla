------------------------------- MODULE Ingest -------------------------------
(***************************************************************************)
(* Who becomes a lead, and who stops being one: the routes that add leads   *)
(* (one, a webhook's, a CSV, rows), correct one, erase a person, delete a   *)
(* lead, and the do-not-contact list they all look at.  Every route reads   *)
(* first and writes later, next to the others; only one statement, or one   *)
(* transaction, is a step.                                                  *)
(*                                                                          *)
(* A lead is its address and status; CONTACTED stands for every status after *)
(* a mail.  The tick and the send are there as what they read of a lead and *)
(* the status they write later, by id.  Adding one lead is an import of one.*)
(***************************************************************************)
EXTENDS Integers, Sequences, FiniteSets, SequencesExt

CONSTANTS
  Campaign,    \* campaigns a lead can be added to
  Email,       \* well-formed addresses (validateLeadFields)
  Erased,      \* anonymizedEmail: stands for the placeholder of every lead
  Call,        \* bound: requests under way at a time
  MaxLeads,    \* bound: lead rows
  MaxStarts    \* bound: requests

ASSUME IngestAssumption == MaxLeads \in Nat /\ MaxStarts \in Nat /\ Erased \notin Email

VARIABLES
  people,   \* Lead rows, by id
  blocked,  \* SuppressionEntry
  calls,    \* requests between their reads and their write
  starts,   \* requests so far
  raced     \* history: rows written by a request something had overtaken

ingestVars == <<people, blocked, calls, starts, raced>>

Person == [campaign : Campaign, email : Email \cup {Erased},
           status : {"UNTOUCHED", "QUEUED", "CONTACTED", "SUPPRESSED", "deleted"},
           erased : BOOLEAN]
NoCall == [kind |-> "none", campaign |-> "none", lead |-> 0, email |-> Erased,
           todo |-> {}, keep |-> {}, overtaken |-> {}]

IngestTypeOK ==
  /\ people \in Seq(Person) /\ Len(people) <= MaxLeads
  /\ blocked \subseteq Email
  /\ calls \in [Call -> [kind : {"none", "add", "edit", "erase", "unsubscribe",
                                 "book", "dispatch", "send"},
                         campaign : Campaign \cup {"none"}, lead : 0..MaxLeads,
                         email : Email \cup {Erased},
                         todo : SUBSET (Email \cup 1..MaxLeads), keep : SUBSET Email,
                         overtaken : SUBSET Email]]
  /\ starts \in 0..MaxStarts
  /\ raced \subseteq 1..MaxLeads

IngestInit ==
  /\ people = <<>>
  /\ blocked = {}
  /\ calls = [c \in Call |-> NoCall]
  /\ starts = 0
  /\ raced = {}

-----------------------------------------------------------------------------
People == DOMAIN people

Begins(c, call) ==
  /\ calls[c] = NoCall
  /\ starts < MaxStarts
  /\ starts' = starts + 1
  /\ calls' = [calls EXCEPT ![c] = call]
  /\ UNCHANGED <<people, blocked, raced>>

CallEnds(c) == calls' = [calls EXCEPT ![c] = NoCall]

\* isDuplicateLead, @@unique([campaignId, email])
isDuplicateLead(campaign, email) ==
  \E l \in People : /\ people[l].campaign = campaign /\ people[l].email = email
                    /\ people[l].status # "deleted"

\* e was listed: what a request read about e, or about a row with it, is out of date
Overtake(cs, e) ==
  [c \in Call |->
     IF \/ cs[c].kind \in {"add", "edit"} /\ e \in cs[c].keep \cup {cs[c].email}
        \/ cs[c].kind \in {"book", "dispatch", "send"} /\ people[cs[c].lead].email = e
     THEN [cs[c] EXCEPT !.overtaken = @ \cup {e}] ELSE cs[c]]

-----------------------------------------------------------------------------
(* A status written by id; a row that is gone is left alone.                *)
WritesStatus(c, status) ==
  LET l == calls[c].lead
  IN  /\ people' = IF people[l].status = "deleted" THEN people
                   ELSE [people EXCEPT ![l].status = status]
      /\ raced' = IF calls[c].overtaken # {} /\ status \notin {"SUPPRESSED", people[l].status}
                  THEN raced \cup {l} ELSE raced
      /\ CallEnds(c)
      /\ UNCHANGED <<blocked, starts>>

-----------------------------------------------------------------------------
(* Adding: every row is looked up, then all that passed are inserted.       *)

AddStarts(c, campaign, rows) ==
  /\ rows # {}
  /\ Begins(c, [NoCall EXCEPT !.kind = "add", !.campaign = campaign, !.todo = rows])

AddChecks(c, e) ==
  /\ calls[c].kind = "add" /\ e \in calls[c].todo
  /\ calls' = [calls EXCEPT
       ![c].todo = @ \ {e},
       ![c].keep = IF e \in blocked \/ isDuplicateLead(calls[c].campaign, e) THEN @
                   ELSE @ \cup {e}]
  /\ UNCHANGED <<people, blocked, starts, raced>>

\* createMany, skipDuplicates; a single create fails on a duplicate
AddInserts(c) ==
  LET new == {e \in calls[c].keep : ~isDuplicateLead(calls[c].campaign, e)}
      row(e) == [campaign |-> calls[c].campaign, email |-> e,
                 status |-> "UNTOUCHED", erased |-> FALSE]
      rows == SetToSeq(new)
  IN  /\ calls[c].kind = "add" /\ calls[c].todo = {}
      /\ Len(people) + Len(rows) <= MaxLeads
      /\ people' = people \o [i \in DOMAIN rows |-> row(rows[i])]
      /\ raced' = raced \cup {Len(people) + i : i \in {k \in DOMAIN rows :
                                                  rows[k] \in calls[c].overtaken}}
      /\ CallEnds(c)
      /\ UNCHANGED <<blocked, starts>>

-----------------------------------------------------------------------------
(* PATCH /leads/:id.                                                        *)

\* mutant: an erased lead can be corrected like any other
EditReads_Erased(c, l, e) ==
  /\ people[l].status # "deleted"
  /\ e # people[l].email => e \notin blocked /\ ~isDuplicateLead(people[l].campaign, e)
  /\ Begins(c, [NoCall EXCEPT !.kind = "edit", !.lead = l, !.email = e])

EditReads(c, l, e) ==
  /\ ~people[l].erased /\ people[l].status # "deleted"
  /\ e # people[l].email => e \notin blocked /\ ~isDuplicateLead(people[l].campaign, e)
  /\ Begins(c, [NoCall EXCEPT !.kind = "edit", !.lead = l, !.email = e])

(* The status check is part of the update; erasure is not, and neither is   *)
(* the list.  A duplicate by now is refused by the database.                *)
EditWrites(c) ==
  LET l == calls[c].lead
      e == calls[c].email
      writes == /\ people[l].status = "UNTOUCHED"
                /\ e # people[l].email => ~isDuplicateLead(people[l].campaign, e)
  IN  /\ calls[c].kind = "edit"
      /\ people' = IF writes THEN [people EXCEPT ![l].email = e] ELSE people
      /\ raced' = IF writes /\ calls[c].overtaken # {} THEN raced \cup {l} ELSE raced
      /\ CallEnds(c)
      /\ UNCHANGED <<blocked, starts>>

-----------------------------------------------------------------------------
(* DELETE /leads/erase: the rows of an address, one by one.                 *)

EraseReads(c, e) ==
  Begins(c, [NoCall EXCEPT !.kind = "erase",
       !.todo = {l \in People : people[l].email = e /\ ~people[l].erased}])

(* A row deleted meanwhile ends the request with an error; a request that   *)
(* ends early is made again, and goes on with the rows left.                *)
EraseRow(c, l) ==
  /\ calls[c].kind = "erase" /\ l \in calls[c].todo
  /\ IF people[l].status = "deleted"
     THEN CallEnds(c) /\ UNCHANGED <<people, raced>>
     ELSE /\ people' = [people EXCEPT ![l].email = Erased, ![l].erased = TRUE]
          /\ calls' = [k \in Call |->
               CASE k = c -> [calls[k] EXCEPT !.todo = @ \ {l}]
                 [] calls[k].kind = "edit" /\ calls[k].lead = l ->
                      [calls[k] EXCEPT !.overtaken = @ \cup {calls[k].email}]
                 [] OTHER -> calls[k]]
          /\ UNCHANGED raced
  /\ UNCHANGED <<blocked, starts>>

EraseEnds(c) ==
  /\ calls[c].kind = "erase" /\ calls[c].todo = {}
  /\ CallEnds(c)
  /\ UNCHANGED <<people, blocked, starts, raced>>

\* DELETE /leads/:id
Delete(l) ==
  /\ people[l].status # "deleted"
  /\ people' = [people EXCEPT ![l].status = "deleted", ![l].email = Erased]
  /\ UNCHANGED <<blocked, calls, starts, raced>>

-----------------------------------------------------------------------------
(* The do-not-contact list.                                                 *)

\* mutant: only leads that were not contacted yet are stopped
Listing_Untouched(e) ==
  people' = [l \in People |->
    IF people[l].email = e /\ people[l].status = "UNTOUCHED"
    THEN [people[l] EXCEPT !.status = "SUPPRESSED"] ELSE people[l]]

Listing(e) ==
  people' = [l \in People |->
    IF people[l].email = e THEN [people[l] EXCEPT !.status = "SUPPRESSED"] ELSE people[l]]

(* suppressEmail(s), for the dashboard, an opt-out reply or an imported     *)
(* list: the list and the rows in one transaction.                          *)
Suppress(e) ==
  /\ blocked' = blocked \cup {e}
  /\ Listing(e)
  /\ calls' = Overtake(calls, e)
  /\ UNCHANGED <<starts, raced>>

UnsubscribeReads(c, l) ==
  /\ people[l].status # "deleted" /\ ~people[l].erased
  /\ Begins(c, [NoCall EXCEPT !.kind = "unsubscribe", !.email = people[l].email])

UnsubscribeWrites(c) ==
  /\ calls[c].kind = "unsubscribe"
  /\ blocked' = blocked \cup {calls[c].email}
  /\ Listing(calls[c].email)
  /\ calls' = [Overtake(calls, calls[c].email) EXCEPT ![c] = NoCall]
  /\ UNCHANGED <<starts, raced>>

\* unsuppressEmail: the rows stay as they are
Unsuppress(e) ==
  /\ e \in blocked
  /\ blocked' = blocked \ {e}
  /\ UNCHANGED <<people, calls, starts, raced>>

-----------------------------------------------------------------------------
(* The tick, the processor and the send.                                    *)

(* A row the tick will book: a first email, or its next try.                *)
BookReads(c, l) ==
  /\ people[l].status \in {"UNTOUCHED", "QUEUED"}
  /\ Begins(c, [NoCall EXCEPT !.kind = "book", !.lead = l])

(* The row is written by id, whatever it says by now.                       *)
BookWrites(c) ==
  /\ calls[c].kind = "book"
  /\ WritesStatus(c, "QUEUED")

\* releaseLead: the status is part of the update
Release(l) ==
  /\ people[l].status = "QUEUED"
  /\ people' = [people EXCEPT ![l].status = "UNTOUCHED"]
  /\ UNCHANGED <<blocked, calls, starts, raced>>

(* The processor reads the row, and hands its address to n8n.               *)
Dispatches(c, l) ==
  /\ people[l].status \in {"QUEUED", "CONTACTED"}
  /\ Begins(c, [NoCall EXCEPT !.kind = "dispatch", !.lead = l, !.email = people[l].email])

(* sendMail looks at the list: the last look before the mail leaves.        *)
SendLooks(c) ==
  LET l == calls[c].lead
  IN  /\ calls[c].kind = "dispatch"
      /\ IF calls[c].email \in blocked
         THEN /\ CallEnds(c)
              /\ people' = IF people[l].status = "deleted" THEN people
                           ELSE [people EXCEPT ![l].status = "SUPPRESSED"]
         ELSE /\ calls' = [calls EXCEPT
                   ![c].kind = "send",
                   ![c].overtaken = IF people[l].email = calls[c].email THEN {} ELSE @]
              /\ UNCHANGED people
      /\ UNCHANGED <<blocked, starts, raced>>

(* The mail left or failed, and the row is written by id: mailed, queued    *)
(* again, out of tries, or as it was.                                       *)
SendWrites(c) ==
  /\ calls[c].kind = "send"
  /\ \E status \in {"CONTACTED", "QUEUED", "SUPPRESSED", people[calls[c].lead].status} :
       WritesStatus(c, status)

Restarts(kinds) ==
  /\ calls' = [c \in Call |-> IF calls[c].kind \in kinds THEN NoCall ELSE calls[c]]
  /\ UNCHANGED <<people, blocked, starts, raced>>

ApiRestarts == Restarts({"add", "edit", "erase", "unsubscribe", "send"})

WorkerRestarts == Restarts({"book"})

IngestNext ==
  \/ \E c \in Call, campaign \in Campaign, rows \in SUBSET Email : AddStarts(c, campaign, rows)
  \/ \E c \in Call, e \in Email : AddChecks(c, e) \/ EraseReads(c, e)
  \/ \E c \in Call : \/ AddInserts(c) \/ EditWrites(c)
                     \/ EraseEnds(c) \/ UnsubscribeWrites(c)
                     \/ BookWrites(c) \/ SendLooks(c) \/ SendWrites(c)
  \/ \E c \in Call, l \in People, e \in Email : EditReads(c, l, e)
  \/ \E c \in Call, l \in People : \/ EraseRow(c, l) \/ UnsubscribeReads(c, l)
                                      \/ BookReads(c, l) \/ Dispatches(c, l)
  \/ \E l \in People : Delete(l) \/ Release(l)
  \/ \E e \in Email : Suppress(e) \/ Unsuppress(e)
  \/ ApiRestarts
  \/ WorkerRestarts

IngestSpec == IngestInit /\ [][IngestNext]_ingestVars

-----------------------------------------------------------------------------
(* Properties.                                                              *)

Listed(l) == people[l].email \in blocked

(* "the list and the rows never disagree" (suppression.ts:7-9), but for a row  *)
(* written on an older look: an import or edit that had checked the list, or *)
(* a tick or send that had read the row, before the address was listed.     *)
ListAgrees ==
  \A l \in People : Listed(l) => people[l].status = "SUPPRESSED" \/ l \in raced

(* An erased lead has no address again, unless an edit had read it before.  *)
ErasedStays ==
  \A l \in People : people[l].erased => people[l].email = Erased \/ l \in raced

=============================================================================
