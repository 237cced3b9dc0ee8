-------------------------- MODULE MCMailboxStatus --------------------------
(* Instances of MailboxStatus for TLC.                                      *)
EXTENDS MailboxStatus

CONSTANTS m1, m2, k1, k2

\* A window that graduates, one that demotes, one too thin to decide on.
Windows ==
  {[inbox |-> 19, promotions |-> 0, spam |-> 2, missing |-> 0, bounced |-> 0],
   [inbox |-> 7, promotions |-> 1, spam |-> 2, missing |-> 1, bounced |-> 0],
   [inbox |-> 0, promotions |-> 0, spam |-> 9, missing |-> 0, bounced |-> 0]}

=============================================================================
