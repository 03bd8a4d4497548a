---------------------------- MODULE ExamSitting ----------------------------
(***************************************************************************)
(* What the attempts at one exam amount to for the learner: a sitting.  It *)
(* is open while the learner may work in it.  Once it is closed it never   *)
(* opens again, except by staff: they remove the attempt, or they release  *)
(* an interrupted one, and then a new attempt continues the sitting.       *)
(***************************************************************************)
EXTENDS Naturals

CONSTANT Exams   \* the exams that may be sat once: timed and proctored ones

VARIABLES
  stage,   \* where the sitting of each exam stands
  taken    \* how many attempts it consists of

Stages == {"none", "open", "closed", "interrupted", "released"}

SittingInit ==
  /\ stage = [e \in Exams |-> "none"]
  /\ taken = [e \in Exams |-> 0]

(* What may happen to a sitting in the course of one attempt.              *)
Course ==
  {<<"open", "closed">>, <<"open", "interrupted">>, <<"closed", "interrupted">>,
   <<"interrupted", "closed">>, <<"interrupted", "released">>}

(* A first attempt, or one that continues a released sitting; it may be    *)
(* declined or refused for the lack of onboarding at once.                 *)
Begin(e) ==
  /\ stage[e] \in {"none", "released"}
  /\ stage'[e] \in {"open", "closed"}
  /\ taken'[e] = taken[e] + 1

Proceed(e) ==
  /\ <<stage[e], stage'[e]>> \in Course
  /\ taken'[e] = taken[e]

(* Staff remove attempts.  The attempt before a removed one is a released  *)
(* one; when only earlier ones are removed the current one goes its course.*)
Withdraw(e) ==
  /\ taken'[e] < taken[e]
  /\ \/ taken'[e] = 0 /\ stage'[e] = "none"
     \/ taken'[e] > 0 /\ stage'[e] = "released"
     \/ taken'[e] > 0 /\ <<stage[e], stage'[e]>> \in Course
     \/ taken'[e] > 0 /\ stage'[e] = stage[e]

(* The attempts are cleared for their onboarding errors, and the exam is   *)
(* declined, in one step: the end of a practice exam that is declined.     *)
Restart(e) ==
  /\ stage[e] = "released" /\ stage'[e] = "closed"
  /\ taken'[e] = 1

Rest(e) == stage'[e] = stage[e] /\ taken'[e] = taken[e]

(* Declining one exam moves others too, so sittings may move together.     *)
SittingNext ==
  /\ stage' \in [Exams -> Stages]
  /\ taken' \in [Exams -> Nat]
  /\ \A e \in Exams :
       Rest(e) \/ Begin(e) \/ Proceed(e) \/ Withdraw(e) \/ Restart(e)

SittingSpec == SittingInit /\ [][SittingNext]_<<stage, taken>>
=============================================================================
