---------------------------- MODULE SeedPlacement ----------------------------
(***************************************************************************)
(* Placement sampling: a sampled campaign email is BCCed to the active seed  *)
(* inboxes, a pending row is written for each copy once the email has left,  *)
(* and the warm-up tick or the older n8n workflow looks the copies up, oldest*)
(* first, to say in which folder each landed.  Nothing claims a row: the two *)
(* may work on the same ones.                                               *)
(*                                                                          *)
(* A unit of time is CHECK_GIVE_UP_MS, two hours; UNCHECKED_AFTER_MS is      *)
(* three of them.                                                           *)
(***************************************************************************)
EXTENDS Integers, FiniteSets

CONSTANTS
  SeedInbox,     \* seed accounts
  CheckBatch,    \* CHECK_BATCH
  MaxSampled,    \* bound: sampled sends
  MaxFlips       \* bound: times an inbox stops or starts being readable

ASSUME SeedPlacementAssumption ==
  CheckBatch \in Nat \ {0} /\ MaxSampled \in Nat /\ MaxFlips \in Nat

GiveUp == 1
Unchecked == 3
Runs == {"tick", "poll"}
Sampled == 1..MaxSampled
SeedCopy == Sampled \X SeedInbox

VARIABLES
  seeds,      \* SeedAccount rows: "absent", "active", "inactive" or "gone"
  results,    \* SeedPlacementResult rows, by copy: a folder, "pending" or none
  sentAgo,    \* units since each sampled send
  sampling,   \* the send between its BCC list and its rows: that list
  looks,      \* checkSampledPlacements, by caller
  readable,   \* the world: inboxes that answer
  flips       \* history

seedPlacementVars == <<seeds, results, sentAgo, sampling, looks, readable, flips>>

Folder == {"SEEN", "UNCLASSIFIED"}   \* SEEN: in the inbox, its Promotions tab, or spam
Found == {"somewhere", "nowhere", "unread"}
NoLook == [todo |-> {}, copy |-> <<0, "none">>, found |-> "none", late |-> 0]

SeedPlacementTypeOK ==
  /\ seeds \in [SeedInbox -> {"absent", "active", "inactive", "gone"}]
  /\ results \in [SeedCopy -> Folder \cup {"none", "pending"}]
  /\ sentAgo \in [Sampled -> -1..(Unchecked + 1)]
  /\ sampling \subseteq SeedInbox
  /\ looks \in [Runs -> [todo : SUBSET SeedCopy, copy : SeedCopy \cup {NoLook.copy},
                         found : Found \cup {"none"}, late : {0, 1}]]
  /\ readable \subseteq SeedInbox
  /\ flips \in 0..MaxFlips

SeedPlacementInit ==
  /\ seeds = [s \in SeedInbox |-> "absent"]
  /\ results = [c \in SeedCopy |-> "none"]
  /\ sentAgo = [n \in Sampled |-> -1]
  /\ sampling = {}
  /\ looks = [r \in Runs |-> NoLook]
  /\ readable = SeedInbox
  /\ flips = 0

-----------------------------------------------------------------------------
(* The send.                                                                *)

NextSampled == Cardinality({n \in Sampled : sentAgo[n] >= 0}) + 1

\* pickSeedBccSample
SendPicks ==
  /\ sampling = {} /\ NextSampled \in Sampled
  /\ sampling' = {s \in SeedInbox : seeds[s] = "active"}
  /\ UNCHANGED <<seeds, results, sentAgo, looks, readable, flips>>

(* The email has left; its rows are written in one statement, which fails    *)
(* if one of the seeds is gone, and a failure is dropped.                   *)
SendRecords ==
  /\ sampling # {}
  /\ LET n == NextSampled IN
       /\ sentAgo' = [sentAgo EXCEPT ![n] = 0]
       /\ \/ /\ \A s \in sampling : seeds[s] # "gone"
             /\ results' = [c \in SeedCopy |-> IF c \in {n} \X sampling THEN "pending"
                                               ELSE results[c]]
          \/ UNCHANGED results
  /\ sampling' = {}
  /\ UNCHANGED <<seeds, looks, readable, flips>>

-----------------------------------------------------------------------------
(* checkSampledPlacements.                                                  *)

Look(r, fields) == looks' = [looks EXCEPT ![r] = fields]
NotLooking(r) == looks[r] = NoLook

\* findMany, oldest first: some of the copies of one send when they are too many
LookStarts(r) ==
  /\ NotLooking(r)
  /\ LET pending == {c \in SeedCopy : results[c] = "pending"} IN
     \E todo \in SUBSET pending :
       /\ todo # {}
       /\ Cardinality(todo) <= CheckBatch
       /\ todo = pending \/ Cardinality(todo) = CheckBatch
       /\ \A c \in todo, d \in pending \ todo : c[1] <= d[1]
       /\ Look(r, [NoLook EXCEPT !.todo = todo])
  /\ UNCHANGED <<seeds, results, sentAgo, sampling, readable, flips>>

openSeedImapClient(s) == seeds[s] # "gone" /\ s \in readable

(* openReader, reader.find: a removed seed or an inbox that does not answer  *)
(* leaves `undefined`; a copy may arrive late, or be moved, between two looks. *)
LookFinds(r) ==
  /\ looks[r].copy = NoLook.copy
  /\ \E c \in looks[r].todo, found \in Found :
       /\ found = "unread" <=> ~openSeedImapClient(c[2])
       /\ Look(r, [looks[r] EXCEPT !.copy = c, !.todo = @ \ {c}, !.found = found])
  /\ UNCHANGED <<seeds, results, sentAgo, sampling, readable, flips>>

LookedAt(r) ==
  LET run == looks[r] IN
  IF run.todo = {} THEN NoLook
  ELSE [run EXCEPT !.copy = NoLook.copy, !.found = "none"]

\* by the time the run started
Age(r) == sentAgo[looks[r].copy[1]] - looks[r].late

(* A folder by id, over whatever the row says by now; a row that is gone    *)
(* throws, which ends the run.                                              *)
WritesResult(r, value) ==
  LET c == looks[r].copy IN
  /\ results' = IF results[c] = "none" THEN results ELSE [results EXCEPT ![c] = value]
  /\ Look(r, IF results[c] = "none" THEN NoLook ELSE LookedAt(r))

Passes(r) ==
  /\ Look(r, LookedAt(r))
  /\ UNCHANGED results

\* mutant: an inbox that cannot be read keeps its copies pending
LookedUnread_Waits(r) ==
  /\ looks[r].found = "unread"
  /\ Passes(r)

\* "Not a placement result, so it never counts"
LookedUnread(r) ==
  /\ looks[r].found = "unread"
  /\ IF Age(r) >= Unchecked THEN WritesResult(r, "none") ELSE Passes(r)

LookedNowhere(r) ==
  /\ looks[r].found = "nowhere"
  /\ IF Age(r) >= GiveUp THEN WritesResult(r, "UNCLASSIFIED") ELSE Passes(r)

LookedFound(r) ==
  /\ looks[r].found = "somewhere"
  /\ WritesResult(r, "SEEN")

LookWrites(r) ==
  /\ LookedUnread(r) \/ LookedNowhere(r) \/ LookedFound(r)
  /\ UNCHANGED <<seeds, sentAgo, sampling, readable, flips>>

-----------------------------------------------------------------------------
(* The owner, the providers, time.                                          *)

\* POST /seed-accounts
SeedAdded(s) ==
  /\ seeds[s] = "absent"
  /\ \E isActive \in {"active", "inactive"} : seeds' = [seeds EXCEPT ![s] = isActive]
  /\ UNCHANGED <<results, sentAgo, sampling, looks, readable, flips>>

\* PATCH /seed-accounts/:id
SeedSwitched(s) ==
  /\ seeds[s] \in {"active", "inactive"} /\ flips < MaxFlips
  /\ flips' = flips + 1
  /\ seeds' = [seeds EXCEPT ![s] = IF @ = "active" THEN "inactive" ELSE "active"]
  /\ UNCHANGED <<results, sentAgo, sampling, looks, readable>>

\* DELETE /seed-accounts/:id: its rows go with it
SeedDeleted(s) ==
  /\ seeds[s] \in {"active", "inactive"}
  /\ seeds' = [seeds EXCEPT ![s] = "gone"]
  /\ results' = [c \in SeedCopy |-> IF c[2] = s THEN "none" ELSE results[c]]
  /\ UNCHANGED <<sentAgo, sampling, looks, readable, flips>>

InboxFlips(s) ==
  /\ flips < MaxFlips
  /\ readable' = IF s \in readable THEN readable \ {s} ELSE readable \cup {s}
  /\ flips' = flips + 1
  /\ UNCHANGED <<seeds, results, sentAgo, sampling, looks>>

(* A run is over before a second unit has passed.                           *)
HoursPass ==
  /\ \A r \in Runs : looks[r].late = 0
  /\ looks' = [r \in Runs |-> IF NotLooking(r) THEN NoLook ELSE [looks[r] EXCEPT !.late = 1]]
  /\ sentAgo' = [n \in Sampled |-> IF sentAgo[n] \in 0..Unchecked THEN sentAgo[n] + 1
                                   ELSE sentAgo[n]]
  /\ UNCHANGED <<seeds, results, sampling, readable, flips>>

SeedPlacementNext ==
  \/ SendPicks \/ SendRecords
  \/ \E r \in Runs : LookStarts(r) \/ LookFinds(r) \/ LookWrites(r)
  \/ \E s \in SeedInbox : SeedAdded(s) \/ SeedSwitched(s) \/ SeedDeleted(s) \/ InboxFlips(s)
  \/ HoursPass

(* A tick every ten minutes, lookups that end, time.                        *)
SeedPlacementFair ==
  /\ WF_seedPlacementVars(LookStarts("tick") \/ LookFinds("tick") \/ LookWrites("tick"))
  /\ WF_seedPlacementVars(LookFinds("poll") \/ LookWrites("poll"))
  /\ WF_seedPlacementVars(HoursPass)

-----------------------------------------------------------------------------
(* Properties.                                                              *)

(* No copy stays pending: found, given up after two hours, or dropped when   *)
(* its inbox has been unreadable for six, however few rows a run takes and   *)
(* whatever another run, a removed seed or a failed write has done to them.  *)
EveryCopyJudged == \A c \in SeedCopy : results[c] = "pending" ~> results[c] # "pending"

=============================================================================
