--------------------------- MODULE ReviewWorkflow ---------------------------
(***************************************************************************)
(* The reviews of the attempts of module ExamAttempts: the callbacks of    *)
(* the proctoring services and the admin that write them (views.py,        *)
(* admin.py), the signal handlers that carry a saved review over to its    *)
(* attempt and a deleted attempt over to its review (handlers.py), and the *)
(* two commands that work on reviews in bulk.                              *)
(*                                                                         *)
(* A review belongs to an attempt code, so it outlives its attempt.  Its   *)
(* raw data, comments and history are left out.                            *)
(***************************************************************************)
EXTENDS ExamAttempts

CONSTANTS
  AllowReviewUpdates, \* a second review of an attempt is accepted
  SecondReviews       \* REQUIRE_FAILURE_SECOND_REVIEWS

ASSUME ReviewConstantsAssumption ==
  /\ AllowReviewUpdates \in BOOLEAN
  /\ SecondReviews \in BOOLEAN
  /\ Verdicts = {"verified", "rejected", "second_review_required", "error"}

VARIABLES
  reviews,  \* the review of each attempt
  batch     \* update_attempt_status_from_review: what it loaded, still to save

reviewVars == <<db, pastDue, reviews, batch>>

(* What the reviewers say.  Which of the backend's review statuses pass is *)
(* for the backend to say (passing_statuses).                              *)
Mark == {"passing", "failing", "not_reviewed"}

(* human: reviewed_by is set; active: is_attempt_active.                   *)
Review == [made : {TRUE}, mark : Mark, human : BOOLEAN, active : BOOLEAN]

NoReview == [made |-> FALSE, mark |-> "not_reviewed", human |-> FALSE,
             active |-> FALSE]

ReviewTypeOK ==
  /\ TypeOK
  /\ {reviews, batch} \subseteq [Exams -> [Slots -> Review \cup {NoReview}]]

(* Attempts that there are or were: an archived one is found by its code.  *)
Located(e) == Slots \ Unused(db, e)

-----------------------------------------------------------------------------
(* Mutants of Verdict: a status that needs no verdict is passed on as it   *)
(* is; any failing review rejects.                                         *)
VerdictPassedOn(e, review) ==
  CASE review.mark = "passing"      -> "verified"
    [] review.mark = "not_reviewed" -> review.mark
    [] review.mark = "failing"      -> "rejected"

VerdictAtOnce(e, review) ==
  CASE review.mark = "passing"      -> "verified"
    [] review.mark = "not_reviewed" -> "error"
    [] review.mark = "failing"      -> "rejected"

(* What a review makes of its attempt.                                     *)
Verdict(e, review) ==
  CASE review.mark = "passing"      -> "verified"
    [] review.mark = "not_reviewed" -> "error"
    [] review.mark = "failing"      ->
         IF \/ review.human \/ ~ SecondReviews
            \/ SupportsOnboarding /\ Kind[e] = "practice"
         THEN "rejected" ELSE "second_review_required"

(* Mutant of Decided: the review of an attempt that is gone goes to the    *)
(* current one.                                                            *)
DecidedForCurrent(d, e, i, review) ==
  IF HasAttempt(d, e)
  THEN Update(d, e, IF i \in Live(d, e) THEN i ELSE Latest(d, e),
              Verdict(e, review), FALSE)
  ELSE d

(* A saved review decides its attempt, unless that is archived.            *)
Decided(d, e, i, review) ==
  IF i \in Live(d, e) THEN Update(d, e, i, Verdict(e, review), FALSE) ELSE d

(* Mutant of Kept: every review of an exam goes with one of its attempts.  *)
KeptByExam(kept) ==
  [e \in Exams |-> [i \in Slots |->
     IF Live(db, e) \subseteq Live(db', e) THEN kept[e][i]
     ELSE [kept[e][i] EXCEPT !.active = FALSE]]]

(* A deleted attempt marks its review; saving that decides nothing.        *)
Kept(kept) ==
  [e \in Exams |-> [i \in Slots |->
     IF i \in Live(db, e) \ Live(db', e)
     THEN [kept[e][i] EXCEPT !.active = FALSE] ELSE kept[e][i]]]

(* A review that is made or made again; a new one takes the default.       *)
Made(e, i, mark, human) ==
  [made |-> TRUE, mark |-> mark, human |-> human,
   active |-> reviews[e][i].made => reviews[e][i].active]

Accepted(e, i) == AllowReviewUpdates \/ ~ reviews[e][i].made

(* Mutant of Refused: updates are accepted whatever the setting.           *)
RefusedNever(e, i) == FALSE

Refused(e, i) == ~ Accepted(e, i)

-----------------------------------------------------------------------------
ReviewInit ==
  /\ Init
  /\ reviews = [e \in Exams |-> [i \in Slots |-> NoReview]]
  /\ batch = reviews

(* Anything that ExamAttempts does, its reviews apart.                     *)
AttemptStep(e) == AttemptNext(e) /\ reviews' = Kept(reviews) /\ UNCHANGED batch

(* ProctoredExamReviewCallback: the attempt is looked up by its external   *)
(* id, which is a read through the api and finds no archived attempt.      *)
Receive(e, i, mark, human) ==
  LET d1     == Read(db, e, i)
      review == Made(e, i, mark, human)
  IN /\ Kind[e] # "timed"
     /\ i \in Live(db, e) /\ db.att[e][i].registered
     /\ db' = IF Refused(e, i) THEN d1 ELSE Decided(d1, e, i, review)
     /\ reviews' = Kept(IF Refused(e, i) THEN reviews
                        ELSE [reviews EXCEPT ![e][i] = review])
     /\ UNCHANGED <<pastDue, batch>>

(* AnonymousReviewCallback: by attempt code, archived attempts included,   *)
(* and no read that would time the attempt out.                            *)
ReceiveAnonymous(e, i, mark) ==
  LET review == Made(e, i, mark, FALSE)
  IN /\ Kind[e] # "timed"
     /\ i \in Located(e) /\ (i \in Live(db, e) => db.att[e][i].registered)
     /\ ~ Refused(e, i)
     /\ db' = Decided(db, e, i, review)
     /\ reviews' = Kept([reviews EXCEPT ![e][i] = review])
     /\ UNCHANGED <<pastDue, batch>>

(* The admin saves a review, changed or not, in the name of the staff.     *)
AdminReview(e, i, mark) ==
  LET review == Made(e, i, mark, TRUE)
  IN /\ reviews[e][i].made
     /\ db' = Decided(db, e, i, review)
     /\ reviews' = Kept([reviews EXCEPT ![e][i] = review])
     /\ UNCHANGED <<pastDue, batch>>

(* A batch that comes to a review that was deleted raises, and ends: the   *)
(* same as never coming to it.                                             *)
AdminDeleteReview(e, i) ==
  /\ reviews[e][i].made
  /\ reviews' = [reviews EXCEPT ![e][i] = NoReview]
  /\ batch' = [batch EXCEPT ![e][i] = NoReview]
  /\ UNCHANGED <<db, pastDue>>

(* Retirement clears the personal data of the learner's reviews, attempt   *)
(* by attempt, and saves them: which decides the attempts once more.       *)
Retire(e, i) ==
  /\ i \in Live(db, e) /\ reviews[e][i].made
  /\ db' = Decided(db, e, i, reviews[e][i])
  /\ reviews' = Kept(reviews)
  /\ UNCHANGED <<pastDue, batch>>

(* update_attempt_status_from_review loads the reviews of a range of dates *)
(* and saves one after the other, with a sleep now and then.               *)
LoadBatch == batch' = reviews /\ UNCHANGED <<db, pastDue, reviews>>

SaveFromBatch(e, i) ==
  /\ batch[e][i].made
  /\ db' = Decided(db, e, i, batch[e][i])
  /\ reviews' = Kept([reviews EXCEPT ![e][i] = batch[e][i]])
  /\ batch' = [batch EXCEPT ![e][i] = NoReview]
  /\ UNCHANGED pastDue

(* set_is_attempt_active marks the reviews of archived attempts.           *)
SetIsAttemptActive ==
  /\ reviews' = [e \in Exams |-> [i \in Slots |->
       IF i \in Live(db, e) THEN reviews[e][i]
       ELSE [reviews[e][i] EXCEPT !.active = FALSE]]]
  /\ UNCHANGED <<db, pastDue, batch>>

ReviewStep(e, i) ==
  \/ \E mark \in Mark : \/ ReceiveAnonymous(e, i, mark)
                        \/ AdminReview(e, i, mark)
                        \/ \E human \in BOOLEAN : Receive(e, i, mark, human)
  \/ AdminDeleteReview(e, i)
  \/ Retire(e, i)
  \/ SaveFromBatch(e, i)

ReviewWorkflowNext ==
  \/ \E e \in Exams : AttemptStep(e) \/ \E i \in Slots : ReviewStep(e, i)
  \/ LoadBatch \/ SetIsAttemptActive

ReviewSpec == ReviewInit /\ [][ReviewWorkflowNext]_reviewVars

-----------------------------------------------------------------------------
(* Properties.                                                             *)

(* Reviews move attempts only as ExamAttempts says they may: what is true  *)
(* of it, credit, supersession and the sitting, is true with reviews that  *)
(* are late, repeated, overruled or saved again.                           *)
ImplementsAttempts == Spec

(* A review that is delivered twice does to the attempts, the credit and   *)
(* the grade what it does once.                                            *)
RedeliveryChangesNothing ==
  \A e \in Exams, i \in Slots, mark \in Mark, human \in BOOLEAN :
    LET review == [NoReview EXCEPT !.mark = mark, !.human = human]
        once   == Decided(db, e, i, review)
    IN i \in Live(db, e) => Decided(once, e, i, review) = once

(* "Archived attempts should not trigger the workflow": a review of an     *)
(* attempt that is gone, made, changed or saved again at any time, leaves  *)
(* the attempts, the credit and the grade alone.                           *)
ArchivedReviewIsInert ==
  [][\A e \in Exams : \A i \in Located(e) \ Live(db, e) :
       reviews'[e][i] # reviews[e][i] => UNCHANGED db]_reviewVars

(* With second reviews required, no attempt becomes rejected unless the    *)
(* review of it names a person, whatever reviews come in, or come again.   *)
(* (Staff who set the status themselves, AdminStatuses, need no review.)   *)
RejectedByHuman ==
  [][\A e \in Exams : \A i \in Live(db, e) \cap Live(db', e) :
       /\ SecondReviews /\ ~ (SupportsOnboarding /\ Kind[e] = "practice")
       /\ db.att[e][i].status # "rejected" /\ db'.att[e][i].status = "rejected"
       => reviews'[e][i].human]_reviewVars

(* While updates are not allowed, the mark of a review is changed by staff *)
(* and nobody else, whatever the services deliver.                         *)
ReviewStands ==
  [][\A e \in Exams, i \in Slots :
       /\ ~ AllowReviewUpdates
       /\ reviews[e][i].made /\ reviews'[e][i].made
       /\ reviews'[e][i].mark # reviews[e][i].mark
       /\ batch' = batch
       => reviews'[e][i].human]_reviewVars

(* The review of an attempt that is there says so: removing one attempt of *)
(* an exam does not touch the review of another.                           *)
LiveReviewIsActive ==
  \A e \in Exams, i \in Slots :
    i \in Live(db, e) /\ reviews[e][i].made => reviews[e][i].active
=============================================================================
