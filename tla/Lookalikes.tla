----------------------------- MODULE Lookalikes -----------------------------
(***************************************************************************)
(* The daily scan for look-alikes of a sending domain: the candidates are   *)
(* generated once, every later scan asks RDAP about those not known to be   *)
(* registered, and a new registration is saved and then reported to the     *)
(* alert webhook, whose failure ends the scan.                              *)
(***************************************************************************)
EXTENDS Naturals, FiniteSets

CONSTANTS
  Candidate,   \* generateCandidates(domainName)
  Scan,        \* bound: scans of the domain under way at a time
  MaxAlerts    \* bound: alerts counted per candidate

ASSUME LookalikesAssumption == MaxAlerts \in Nat \ {0}

VARIABLES
  lookalikes,   \* LookalikeCandidate rows: [candidate -> registered]
  taken,        \* the world: candidates somebody has registered
  scans,        \* scans under way
  alerts,       \* history: alerts posted, by candidate (webhook set)
  lost,         \* history: candidates whose alert failed, or whose scan died before it
  doubled       \* history: candidates two scans had loaded at once

lookalikesVars == <<lookalikes, taken, scans, alerts, lost, doubled>>

Rows == {"absent", "open", "registered"}
NoScan == [pc |-> "none", empty |-> FALSE, todo |-> {}, candidate |-> "none"]

LookalikesTypeOK ==
  /\ lookalikes \in [Candidate -> Rows]
  /\ taken \subseteq Candidate /\ lost \subseteq Candidate /\ doubled \subseteq Candidate
  /\ scans \in [Scan -> [pc : {"none", "load", "check", "alert"}, empty : BOOLEAN,
                         todo : SUBSET Candidate, candidate : Candidate \cup {"none"}]]
  /\ alerts \in [Candidate -> 0..MaxAlerts]

LookalikesInit ==
  /\ lookalikes = [d \in Candidate |-> "absent"]
  /\ taken = {}
  /\ scans = [s \in Scan |-> NoScan]
  /\ alerts = [d \in Candidate |-> 0]
  /\ lost = {}
  /\ doubled = {}

-----------------------------------------------------------------------------
ScanCounts(s) ==
  /\ scans[s] = NoScan
  /\ scans' = [scans EXCEPT ![s] = [NoScan EXCEPT
       !.pc = "load", !.empty = \A d \in Candidate : lookalikes[d] = "absent"]]
  /\ UNCHANGED <<lookalikes, taken, alerts, lost, doubled>>

\* mutant: every row on file is asked about again
Unregistered_All(rows) == {d \in Candidate : rows[d] # "absent"}

Unregistered(rows) == {d \in Candidate : rows[d] = "open"}

(* An empty list is filled, skipping what another scan filled meanwhile;    *)
(* what is not registered is loaded.                                        *)
ScanLoads(s) ==
  /\ scans[s].pc = "load"
  /\ LET rows == IF scans[s].empty
                 THEN [d \in Candidate |-> IF lookalikes[d] = "absent" THEN "open"
                                           ELSE lookalikes[d]]
                 ELSE lookalikes
         todo == Unregistered(rows)
     IN /\ lookalikes' = rows
        /\ scans' = [scans EXCEPT ![s].pc = "check", ![s].todo = todo]
        /\ doubled' = doubled \cup (todo \cap UNION {scans[o].todo : o \in Scan \ {s}})
  /\ UNCHANGED <<taken, alerts, lost>>

\* "unregistered" or "unknown": the row stays as it is
ScanFindsOpen(s, d) ==
  /\ scans[s].pc = "check" /\ d \in scans[s].todo
  /\ scans' = [scans EXCEPT ![s].todo = @ \ {d}]
  /\ UNCHANGED <<lookalikes, taken, alerts, lost, doubled>>

\* "registered": saved first
ScanFindsTaken(s, d) ==
  /\ scans[s].pc = "check" /\ d \in scans[s].todo /\ d \in taken
  /\ lookalikes' = [lookalikes EXCEPT ![d] = "registered"]
  /\ scans' = [scans EXCEPT ![s].pc = "alert", ![s].candidate = d]
  /\ UNCHANGED <<taken, alerts, lost, doubled>>

ScanAlerts(s) ==
  /\ scans[s].pc = "alert"
  /\ alerts[scans[s].candidate] < MaxAlerts
  /\ alerts' = [alerts EXCEPT ![scans[s].candidate] = @ + 1]
  /\ scans' = [scans EXCEPT ![s].pc = "check", ![s].candidate = "none",
                            ![s].todo = @ \ {scans[s].candidate}]
  /\ UNCHANGED <<lookalikes, taken, lost, doubled>>

(* The webhook or the database cannot be reached, or the API restarts.      *)
ScanDies(s) ==
  /\ scans[s].pc # "none"
  /\ lost' = IF scans[s].pc = "alert" THEN lost \cup {scans[s].candidate} ELSE lost
  /\ scans' = [scans EXCEPT ![s] = NoScan]
  /\ UNCHANGED <<lookalikes, taken, alerts, doubled>>

ScanEnds(s) ==
  /\ scans[s].pc = "check" /\ scans[s].todo = {}
  /\ scans' = [scans EXCEPT ![s] = NoScan]
  /\ UNCHANGED <<lookalikes, taken, alerts, lost, doubled>>

SomeoneRegisters(d) ==
  /\ taken' = taken \cup {d}
  /\ UNCHANGED <<lookalikes, scans, alerts, lost, doubled>>

LookalikesNext ==
  \/ \E s \in Scan : ScanCounts(s) \/ ScanLoads(s) \/ ScanAlerts(s) \/ ScanDies(s) \/ ScanEnds(s)
  \/ \E s \in Scan, d \in Candidate : ScanFindsOpen(s, d) \/ ScanFindsTaken(s, d)
  \/ \E d \in Candidate : SomeoneRegisters(d)

LookalikesSpec == LookalikesInit /\ [][LookalikesNext]_lookalikesVars

-----------------------------------------------------------------------------
(* Properties.                                                              *)

(* "only the unregistered -> registered transition matters": a registration *)
(* is reported, and reported once, over all the scans that will follow,     *)
(* unless the alert itself failed or two scans had the candidate at once.   *)
AlertedOnce ==
  \A d \in Candidate :
    /\ alerts[d] > 0 => lookalikes[d] = "registered"
    /\ alerts[d] > 1 => d \in doubled
    /\ lookalikes[d] = "registered" =>
         alerts[d] > 0 \/ d \in lost \/ \E s \in Scan : scans[s].candidate = d

=============================================================================
