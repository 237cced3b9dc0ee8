----------------------------- MODULE ServerName -----------------------------
(***************************************************************************)
(* MAIL_SERVER_NAME, the name the install gives in EHLO: it is used only     *)
(* once a check has found its DNS right both ways.  The API checks it,       *)
(* saves the result, keeps a copy for a minute and checks again when a       *)
(* reader meets a result an hour old; the worker reads the saved result and  *)
(* keeps a copy of its own.  A send with a proven link domain asks for none  *)
(* of this.                                                                 *)
(*                                                                          *)
(* A unit of time is CACHE_MS.                                              *)
(***************************************************************************)
EXTENDS Integers

CONSTANTS
  Recheck,   \* RECHECK_AFTER_MS, in units of CACHE_MS
  MaxDies    \* bound: restarts and database failures

ASSUME ServerNameAssumption == Recheck \in Nat \ {0} /\ MaxDies \in Nat

VARIABLES
  configured,  \* MAIL_SERVER_NAME is set
  dns,         \* the world: the name's records are "right", "wrong", or DNS is "silent"
  saved,       \* the InstanceSettings row: whose result, which, how old
  copy,        \* the API's `cached`
  asking,      \* checkedServerName between its read and its write of `cached`
  refreshing,  \* refreshServerName: `running`
  probeCopy,   \* the worker's `cached`
  given,       \* who gave the name when last asked for one
  deaths       \* history: restarts and failures

serverNameVars ==
  <<configured, dns, saved, copy, asking, refreshing, probeCopy, given, deaths>>

Ages == 0..(Recheck + 1)
Checked == [of : {"nobody", "former", "name"}, status : {"PENDING", "PASS", "FAIL"}, age : Ages]
Never == [of |-> "nobody", status |-> "PENDING", age |-> Recheck + 1]
Copy == [at : {0, 1, 2}, state : Checked]     \* 2: no copy, or one older than a minute
NoCopy == [at |-> 2, state |-> Never]
Older(n, limit) == IF n < limit THEN n + 1 ELSE limit

ServerNameTypeOK ==
  /\ configured \in BOOLEAN
  /\ dns \in {"right", "wrong", "silent"}
  /\ saved \in Checked
  /\ copy \in Copy /\ probeCopy \in Copy
  /\ asking \in [pc : {"none", "read"}, state : Checked]
  /\ refreshing \in {"no", "look", "PASS", "FAIL", "read"}
  /\ given \subseteq {"send", "probe"}
  /\ deaths \in 0..MaxDies

(* The row may hold the result of the name configured before this one.      *)
ServerNameInit ==
  /\ configured \in BOOLEAN
  /\ dns = "wrong"
  /\ saved \in {Never, [of |-> "former", status |-> "PASS", age |-> 0]}
  /\ copy = NoCopy /\ probeCopy = NoCopy
  /\ asking = [pc |-> "none", state |-> Never]
  /\ refreshing = IF configured THEN "look" ELSE "no"
  /\ given = {}
  /\ deaths = 0

-----------------------------------------------------------------------------
(* The API.                                                                 *)

\* serverNameState: a result of another name counts as not checked
serverNameState == IF saved.of = "name" THEN saved ELSE Never

\* Check now, `warmhawk server-name`: one check at a time
refreshServerName ==
  /\ configured /\ refreshing = "no"
  /\ refreshing' = "look"
  /\ UNCHANGED <<configured, dns, saved, copy, asking, probeCopy, given, deaths>>

\* checkServerName; null keeps the last result
checkServerName ==
  /\ refreshing = "look"
  /\ refreshing' = CASE dns = "right" -> "PASS" [] dns = "wrong" -> "FAIL" [] OTHER -> "read"
  /\ UNCHANGED <<configured, dns, saved, copy, asking, probeCopy, given, deaths>>

RefreshSaves ==
  /\ refreshing \in {"PASS", "FAIL"}
  /\ saved' = [of |-> "name", status |-> refreshing, age |-> 0]
  /\ refreshing' = "read"
  /\ UNCHANGED <<configured, dns, copy, asking, probeCopy, given, deaths>>

RefreshCaches ==
  /\ refreshing = "read"
  /\ copy' = [at |-> 0, state |-> serverNameState]
  /\ refreshing' = "no"
  /\ UNCHANGED <<configured, dns, saved, asking, probeCopy, given, deaths>>

(* The copy answers; a result over an hour old starts a check nobody waits  *)
(* for.                                                                     *)
Answers(state) ==
  /\ given' = IF state.status = "PASS" THEN given \cup {"send"} ELSE given \ {"send"}
  /\ refreshing' = IF state.age > Recheck /\ refreshing = "no" THEN "look" ELSE refreshing

\* ehloNameFor -> checkedServerName
SendAsks ==
  /\ configured /\ asking.pc = "none"
  /\ IF copy.at > 1
     THEN /\ asking' = [pc |-> "read", state |-> serverNameState]
          /\ UNCHANGED <<given, refreshing>>
     ELSE /\ Answers(copy.state)
          /\ UNCHANGED asking
  /\ UNCHANGED <<configured, dns, saved, copy, probeCopy, deaths>>

(* Over whatever a check has put there since the read.                      *)
SendCaches ==
  /\ asking.pc = "read"
  /\ copy' = [at |-> 0, state |-> asking.state]
  /\ Answers(asking.state)
  /\ asking' = [pc |-> "none", state |-> Never]
  /\ UNCHANGED <<configured, dns, saved, probeCopy, deaths>>

RefreshFails ==
  /\ refreshing \in {"PASS", "FAIL", "read"} /\ deaths < MaxDies
  /\ refreshing' = "no" /\ deaths' = deaths + 1
  /\ UNCHANGED <<configured, dns, saved, copy, asking, probeCopy, given>>

\* main: "checked as soon as the API is back, not on first use"
ApiStarts ==
  /\ configured /\ deaths < MaxDies
  /\ deaths' = deaths + 1
  /\ copy' = NoCopy /\ asking' = [pc |-> "none", state |-> Never]
  /\ refreshing' = "look"
  /\ UNCHANGED <<configured, dns, saved, probeCopy, given>>

-----------------------------------------------------------------------------
(* The worker, and the world.                                               *)

\* mutant: the worker keeps what it has read
Stale_Never(c) == c = NoCopy

Stale(c) == c.at > 1

\* currentAddressCheckConfig, ADDRESS_CHECK_HELO blank
ProbeAsks ==
  /\ configured
  /\ LET row == IF Stale(probeCopy) THEN saved ELSE probeCopy.state
     IN /\ probeCopy' = IF Stale(probeCopy) THEN [at |-> 0, state |-> [saved EXCEPT !.age = 0]]
                        ELSE probeCopy
        /\ given' = IF row.of = "name" /\ row.status = "PASS"
                    THEN given \cup {"probe"} ELSE given \ {"probe"}
  /\ UNCHANGED <<configured, dns, saved, copy, asking, refreshing, deaths>>

WorkerRestarts ==
  /\ deaths < MaxDies
  /\ deaths' = deaths + 1
  /\ probeCopy' = NoCopy
  /\ UNCHANGED <<configured, dns, saved, copy, asking, refreshing, given>>

(* A unit passes; a database read does not last that long.                  *)
MinutePasses ==
  /\ asking.pc = "none"
  /\ saved' = [saved EXCEPT !.age = Older(@, Recheck + 1)]
  /\ copy' = [at |-> Older(copy.at, 2),
              state |-> [copy.state EXCEPT !.age = Older(@, Recheck + 1)]]
  /\ probeCopy' = [probeCopy EXCEPT !.at = Older(@, 2)]
  /\ UNCHANGED <<configured, dns, asking, refreshing, given, deaths>>

DnsChanges ==
  /\ dns' \in {"right", "wrong", "silent"}
  /\ UNCHANGED <<configured, saved, copy, asking, refreshing, probeCopy, given, deaths>>

ServerNameNext ==
  \/ refreshServerName \/ checkServerName \/ RefreshSaves \/ RefreshCaches \/ RefreshFails
  \/ SendAsks \/ SendCaches \/ ProbeAsks
  \/ ApiStarts \/ WorkerRestarts \/ MinutePasses \/ DnsChanges

(* Sends and probes go on, lookups end, time passes.                        *)
ServerNameFair ==
  /\ WF_serverNameVars(checkServerName \/ RefreshSaves \/ RefreshCaches)
  /\ WF_serverNameVars(SendAsks \/ SendCaches)
  /\ WF_serverNameVars(ProbeAsks)
  /\ WF_serverNameVars(MinutePasses)

-----------------------------------------------------------------------------
(* Properties.                                                              *)

(* "used only once a check confirms it both ways": neither EHLO keeps a name *)
(* whose DNS has gone wrong, nor withholds one whose DNS is right, across    *)
(* two copies, a background check and a DNS server that is silent for a      *)
(* while.                                                                   *)
NameFollowsDns ==
  /\ <>[](dns = "wrong") => <>[](given = {})
  /\ configured /\ <>[](dns = "right") => <>[](given = {"send", "probe"})

=============================================================================
