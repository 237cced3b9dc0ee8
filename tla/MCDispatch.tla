----------------------------- MODULE MCDispatch -----------------------------
(* Instances of Dispatch for TLC.                                            *)
EXTENDS Dispatch, TLC

CONSTANTS l1, l2, m1, m2, e1, t1, t2, f1, f2

\* No step tells one mailbox from another.
Mailboxes == Permutations(Mailbox)

OneAddress == [l \in Lead |-> e1]

=============================================================================
