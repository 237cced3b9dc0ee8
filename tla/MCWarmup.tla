------------------------------ MODULE MCWarmup ------------------------------
(* An instance of Warmup for TLC: two mailboxes of one domain and a seed of *)
(* another; a unit is half a tick and the warm-up day is three of them.     *)
EXTENDS Warmup

OneDomain(a, b) == (a \in Mailboxes) = (b \in Mailboxes)
Targets == <<1, 2>>

=============================================================================
