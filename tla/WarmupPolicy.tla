---------------------------- MODULE WarmupPolicy ----------------------------
(* The rules that decide a mailbox's warm-up status from the placements of  *)
(* its last seven days (apps/api/src/lib/warmup/policy.ts).                 *)
EXTENDS Integers

MailboxStatus == {"WARMUP", "ACTIVE", "PAUSED"}

GRADUATE_MIN_HEALTH == 90
GRADUATE_MIN_DAY == 14
GRADUATE_MIN_CHECKED == 20
DEMOTE_MAX_HEALTH == 70
DEMOTE_MIN_CHECKED == 10

\* The counts a decision reads; pending, unchecked and failed mails are in none.
PlacementCounts ==
  [inbox : Nat, promotions : Nat, spam : Nat, missing : Nat, bounced : Nat]

checkedCount(c) == c.inbox + c.promotions + c.spam + c.missing + c.bounced

\* Math.round(inbox / checked * 100): halves go up
healthScore(c) == (200 * c.inbox + checkedCount(c)) \div (2 * checkedCount(c))

Graduates(status, day, c) ==
  /\ checkedCount(c) > 0
  /\ status = "WARMUP"
  /\ day >= GRADUATE_MIN_DAY
  /\ checkedCount(c) >= GRADUATE_MIN_CHECKED
  /\ healthScore(c) >= GRADUATE_MIN_HEALTH

Demotes(status, c) ==
  /\ checkedCount(c) > 0
  /\ status = "ACTIVE"
  /\ checkedCount(c) >= DEMOTE_MIN_CHECKED
  /\ healthScore(c) < DEMOTE_MAX_HEALTH

decideStatus(status, day, c) ==
  CASE Graduates(status, day, c) -> "graduate"
    [] Demotes(status, c) -> "demote"
    [] OTHER -> "none"

=============================================================================
