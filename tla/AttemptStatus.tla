--------------------------- MODULE AttemptStatus ---------------------------
(***************************************************************************)
(* The vocabulary of edx_proctoring/statuses.py: the statuses a proctored  *)
(* exam attempt can have, the classes the code sorts them into, and the    *)
(* rules on a change of status that look at the two statuses only.         *)
(***************************************************************************)
EXTENDS Naturals

PreStarted == {"created", "download_software_clicked", "ready_to_start"}

InProgress == {"started", "ready_to_submit"}

Incomplete == {"eligible"} \cup PreStarted \cup InProgress

OnboardingErrors ==
  {"onboarding_missing", "onboarding_pending", "onboarding_failed",
   "onboarding_expired"}

Completed ==
  {"declined", "timed_out", "submitted", "second_review_required",
   "verified", "rejected", "error"} \cup OnboardingErrors

(* What set_attempt_status accepts; "expired" and "onboarding_reset" are   *)
(* statuses too, but neither complete nor incomplete.                      *)
ValidStatus == Completed \cup Incomplete

Status == ValidStatus \cup {"expired", "onboarding_reset"}

NeedsCreditUpdate == {"verified", "rejected", "declined", "submitted", "error"}

NeedsGradeOverride == {"rejected"}

CascadableFailure == {"declined"}

(* What the LMS credit requirement of the exam becomes on such a status.   *)
CreditStatus == {"satisfied", "submitted", "declined", "failed"}

CreditFor(status) ==
  CASE status = "verified"              -> "satisfied"
    [] status = "submitted"             -> "submitted"
    [] status = "declined"              -> "declined"
    [] status \in {"rejected", "error"} -> "failed"

(* A learner who was kicked out of a running exam and walks through the    *)
(* set-up pages again.                                                     *)
IsReattempting(from, to) == from \in InProgress /\ to \in PreStarted

(* Mutants of IsLegal: the set-up pages are no progress; no check at all.  *)
IsLegalBeforeStart(from, to) == ~ (from \in Completed /\ to \in InProgress)

IsLegalAlways(from, to) == TRUE

(* The only transitions the code refuses.                                  *)
IsLegal(from, to) == ~ (from \in Completed /\ to \in Incomplete)

(* The status really stored when `to' is asked for: a time-out is a        *)
(* submission unless the site keeps time-outs, and so is a re-attempt.     *)
EffectiveStatus(from, to, allowTimedOut) ==
  IF (to = "timed_out" /\ ~ allowTimedOut) \/ IsReattempting(from, to)
  THEN "submitted"
  ELSE to
=============================================================================
