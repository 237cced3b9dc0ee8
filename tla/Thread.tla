------------------------------- MODULE Thread -------------------------------
(***************************************************************************)
(* What a campaign promises each of its recipients, whatever happens       *)
(* between the worker, n8n and the API: one thread of at most Emails       *)
(* mails, all from one mailbox; once the address has opted out nothing but *)
(* the mail that was already on its way; once a reply is in, at most the   *)
(* one mail the answer crossed.                                            *)
(*                                                                         *)
(* Dispatch implements it when no process fails (ThreadPromise there).     *)
(***************************************************************************)
EXTENDS Naturals

CONSTANTS Lead, Mailbox, Email, EmailOf, Emails

VARIABLES
  mails,    \* mails of the thread that left
  senders,  \* the mailboxes they left from
  out,      \* addresses that opted out
  onWay,    \* leads with a mail that was on its way at the opt-out
  answered, \* leads that replied
  crossed   \* of those, the ones a mail left for after the reply

vars == <<mails, senders, out, onWay, answered, crossed>>

Init ==
  /\ mails = [l \in Lead |-> 0]
  /\ senders = [l \in Lead |-> {}]
  /\ out = {} /\ onWay = {} /\ answered = {} /\ crossed = {}

Mail(l, m) ==
  /\ mails[l] < Emails
  /\ senders[l] \subseteq {m}
  /\ EmailOf[l] \in out => l \in onWay
  /\ l \notin crossed
  /\ mails' = [mails EXCEPT ![l] = @ + 1]
  /\ senders' = [senders EXCEPT ![l] = {m}]
  /\ onWay' = onWay \ {l}
  /\ crossed' = crossed \union ({l} \intersect answered)
  /\ UNCHANGED <<out, answered>>

\* The mail on its way at the opt-out did not leave after all.
Abandon(l) ==
  /\ l \in onWay
  /\ onWay' = onWay \ {l}
  /\ UNCHANGED <<mails, senders, out, answered, crossed>>

OptOut(e) ==
  /\ e \notin out
  /\ out' = out \union {e}
  /\ \E now \in SUBSET {l \in Lead : EmailOf[l] = e} : onWay' = onWay \union now
  /\ UNCHANGED <<mails, senders, answered, crossed>>

Unblock(e) ==
  /\ e \in out
  /\ out' = out \ {e}
  /\ onWay' = {l \in onWay : EmailOf[l] # e}
  /\ UNCHANGED <<mails, senders, answered, crossed>>

\* A reply, or a bounce report in its place.
Reply(l) ==
  /\ mails[l] > 0
  /\ answered' = answered \union {l}
  /\ UNCHANGED <<mails, senders, out, onWay, crossed>>

Next ==
  \/ \E l \in Lead, m \in Mailbox : Mail(l, m)
  \/ \E l \in Lead : Abandon(l) \/ Reply(l)
  \/ \E e \in Email : OptOut(e) \/ Unblock(e)

Spec == Init /\ [][Next]_vars

=============================================================================
