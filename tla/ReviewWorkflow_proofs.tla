------------------------ MODULE ReviewWorkflow_proofs ------------------------
(***************************************************************************)
(* Whatever reviews arrive, in whichever order, every step of module       *)
(* ReviewWorkflow is a step of ExamAttempts or leaves its variables alone, *)
(* so what is proved of the attempts holds with their reviews too; and the *)
(* properties of the reviews themselves.                                   *)
(***************************************************************************)
EXTENDS ReviewWorkflow, ExamAttempts_proofs

Reviews == [Exams -> [Slots -> Review \cup {NoReview}]]

(* The inductive invariant: reviews are what they are declared to be, and  *)
(* a timed exam, which has no proctoring service, has none.                *)
ReviewInv ==
  /\ reviews \in Reviews /\ batch \in Reviews
  /\ \A e \in Exams, i \in Slots :
       reviews[e][i].made \/ batch[e][i].made => Kind[e] # "timed"

-----------------------------------------------------------------------------
(* Helpers.                                                                *)

(* A review that there is has a mark, and its verdict is one ExamAttempts  *)
(* knows; none of them declines the exam.                                  *)
LEMMA VerdictIsVerdict ==
  ASSUME NEW e, NEW review, review.mark \in Mark
  PROVE  /\ Verdict(e, review) \in Verdicts
         /\ Verdict(e, review) # "declined"
  BY ReviewConstantsAssumption DEF Verdict, Mark

(* A review written on a row is a review.                                  *)
LEMMA MadeIsReview ==
  ASSUME NEW e \in Exams, NEW i \in Slots,
         NEW mark \in Mark, NEW human \in BOOLEAN
  PROVE  /\ Made(e, i, mark, human) \in Review
         /\ Made(e, i, mark, human).mark = mark
         /\ Made(e, i, mark, human).human = human
         /\ Made(e, i, mark, human).made
<1> DEFINE active == reviews[e][i].made => reviews[e][i].active
<1>1. active \in BOOLEAN
  OBVIOUS
<1> HIDE DEF active
<1>2. Made(e, i, mark, human) = [made |-> TRUE, mark |-> mark,
                                 human |-> human, active |-> active]
  BY Zenon DEF Made, active
<1> QED
  BY <1>1, <1>2 DEF Review

(* is_attempt_active becomes false, and nothing else changes.              *)
LEMMA Inactive ==
  \A r \in Review \cup {NoReview} :
        /\ [r EXCEPT !.active = FALSE] \in Review \cup {NoReview}
        /\ [r EXCEPT !.active = FALSE].made = r.made
        /\ [r EXCEPT !.active = FALSE].mark = r.mark
        /\ [r EXCEPT !.active = FALSE].human = r.human
<1>1. \A r \in Review :
        /\ [r EXCEPT !.active = FALSE] \in Review
        /\ [r EXCEPT !.active = FALSE].made = r.made
        /\ [r EXCEPT !.active = FALSE].mark = r.mark
        /\ [r EXCEPT !.active = FALSE].human = r.human
  BY DEF Review
<1>2. [NoReview EXCEPT !.active = FALSE] = NoReview
  <2> DEFINE Rows == [made : BOOLEAN, mark : Mark, human : BOOLEAN,
                      active : BOOLEAN]
  <2>1. \A r \in Rows : ~ r.active => [r EXCEPT !.active = FALSE] = r
    OBVIOUS
  <2>2. NoReview \in Rows /\ ~ NoReview.active
    BY DEF NoReview, Mark
  <2> QED BY <2>1, <2>2
<1> QED BY <1>1, <1>2

(* Deleting attempts changes nothing of a review but is_attempt_active,    *)
(* and that of no review whose attempt stays as it is.                     *)
LEMMA KeptKeeps ==
  ASSUME NEW kept \in Reviews
  PROVE  /\ Kept(kept) \in Reviews
         /\ \A e \in Exams, i \in Slots :
              /\ Kept(kept)[e][i].made = kept[e][i].made
              /\ Kept(kept)[e][i].mark = kept[e][i].mark
              /\ Kept(kept)[e][i].human = kept[e][i].human
              /\ i \notin Live(db, e) => Kept(kept)[e][i] = kept[e][i]
<1> DEFINE row(e, i) == IF i \in Live(db, e) \ Live(db', e)
                        THEN [kept[e][i] EXCEPT !.active = FALSE]
                        ELSE kept[e][i]
<1>1. \A e \in Exams, i \in Slots : kept[e][i] \in Review \cup {NoReview}
  BY DEF Reviews
<1>3. Kept(kept) = [e \in Exams |-> [i \in Slots |-> row(e, i)]]
  BY DEF Kept
<1>4. \A e \in Exams, i \in Slots :
        /\ row(e, i) \in Review \cup {NoReview}
        /\ row(e, i).made = kept[e][i].made
        /\ row(e, i).mark = kept[e][i].mark
        /\ row(e, i).human = kept[e][i].human
        /\ i \notin Live(db, e) => row(e, i) = kept[e][i]
  BY <1>1, Inactive
<1> HIDE DEF row
<1>5. Kept(kept) \in Reviews
  BY <1>3, <1>4 DEF Reviews
<1>6. \A e \in Exams, i \in Slots : Kept(kept)[e][i] = row(e, i)
  BY <1>3
<1> QED
  BY <1>4, <1>5, <1>6

(* Writing one review leaves the others alone.                             *)
LEMMA WriteReview ==
  ASSUME NEW kept \in Reviews, NEW e \in Exams, NEW i \in Slots,
         NEW review \in Review \cup {NoReview}
  PROVE  /\ [kept EXCEPT ![e][i] = review] \in Reviews
         /\ [kept EXCEPT ![e][i] = review][e][i] = review
         /\ \A f \in Exams, j \in Slots : f # e \/ j # i =>
              [kept EXCEPT ![e][i] = review][f][j] = kept[f][j]
  BY DEF Reviews

(* A saved review does to its attempt what the review steps of             *)
(* ExamAttempts do, or nothing.                                            *)
LEMMA DecidedIsVerdict ==
  ASSUME NEW d, NEW e, NEW i, NEW review, review.mark \in Mark
  PROVE  \/ i \notin Live(d, e) /\ Decided(d, e, i, review) = d
         \/ /\ i \in Live(d, e)
            /\ \E to \in Verdicts : /\ to # "declined"
                                   /\ Decided(d, e, i, review)
                                        = Update(d, e, i, to, FALSE)
<1>1. CASE i \notin Live(d, e)
  BY <1>1 DEF Decided
<1>2. CASE i \in Live(d, e)
  <2>1. Decided(d, e, i, review) = Update(d, e, i, Verdict(e, review), FALSE)
    BY <1>2 DEF Decided
  <2> QED BY <1>2, <2>1, VerdictIsVerdict
<1> QED
  BY <1>1, <1>2

-----------------------------------------------------------------------------
(* Every step is one of ExamAttempts, or leaves its variables alone.       *)

(* A review step that saves a review without reading the attempt first.    *)
LEMMA SavedIsStep ==
  ASSUME NEW e \in Exams, NEW i \in Slots, NEW review, review.mark \in Mark,
         Kind[e] # "timed", db' = Decided(db, e, i, review), UNCHANGED pastDue
  PROVE  [Next]_vars
<1>1. CASE i \notin Live(db, e) /\ db' = db
  BY <1>1 DEF vars
<1>2. CASE /\ i \in Live(db, e)
           /\ \E to \in Verdicts : /\ to # "declined"
                                  /\ db' = Update(db, e, i, to, FALSE)
  <2>1. \E to \in Verdicts : SetStatus(e, i, to)
    BY <1>2 DEF SetStatus
  <2>2. ReviewSaved(e, i)
    BY <2>1 DEF ReviewSaved
  <2> QED BY <2>2 DEF Next, ReviewNext
<1> QED
  BY <1>1, <1>2, DecidedIsVerdict

(* A review that arrives through the attempt is a poll of it, when it is   *)
(* refused or the read ended the attempt's life, or a review callback.     *)
LEMMA ReceiveIsStep ==
  ASSUME ReviewInv, NEW e \in Exams, NEW i \in Slots, NEW mark \in Mark,
         NEW human \in BOOLEAN, Receive(e, i, mark, human)
  PROVE  [Next]_vars
<1> DEFINE d1     == Read(db, e, i)
           review == Made(e, i, mark, human)
<1>1. /\ Kind[e] # "timed" /\ i \in Live(db, e) /\ db.att[e][i].registered
      /\ UNCHANGED pastDue
      /\ db' = d1 \/ db' = Decided(d1, e, i, review)
  BY DEF Receive
<1>2. review.mark \in Mark
  BY MadeIsReview
<1> HIDE DEF d1, review
<1>3. CASE db' = d1
  <2>1. Poll(e, i)
    BY <1>1, <1>3 DEF Poll, d1
  <2> QED BY <2>1 DEF Next, AttemptNext, LearnerNext
<1>4. CASE \E to \in Verdicts : /\ to # "declined"
                              /\ db' = Update(d1, e, i, to, FALSE)
  <2>1. \E to \in Verdicts : PutStatus(e, i, to)
    BY <1>1, <1>4 DEF PutStatus, d1
  <2>2. ReviewCallback(e, i)
    BY <1>1, <2>1 DEF ReviewCallback
  <2> QED BY <2>2 DEF Next, ReviewNext
<1> QED
  BY <1>1, <1>2, <1>3, <1>4, DecidedIsVerdict

(* What is in a batch, or among the reviews, has a mark.                   *)
LEMMA HasMark ==
  ASSUME NEW kept \in Reviews, NEW e \in Exams, NEW i \in Slots
  PROVE  kept[e][i].mark \in Mark
<1>1. kept[e][i] \in Review \cup {NoReview}
  BY DEF Reviews
<1>2. \A r \in Review : r.mark \in Mark
  BY DEF Review
<1>3. NoReview.mark \in Mark
  BY DEF NoReview, Mark
<1> QED
  BY <1>1, <1>2, <1>3

(* A step of the reviews and attempts, seen from the attempts.             *)
LEMMA StepIsAttemptStep ==
  ASSUME ReviewInv, [ReviewWorkflowNext]_reviewVars
  PROVE  [Next]_vars
<1>1. CASE UNCHANGED reviewVars
  BY <1>1 DEF reviewVars, vars
<1>2. CASE \E e \in Exams : AttemptStep(e)
  BY <1>2 DEF AttemptStep, Next
<1>3. ASSUME NEW e \in Exams, NEW i \in Slots, ReviewStep(e, i)
      PROVE  [Next]_vars
  <2>1. ASSUME NEW mark \in Mark, NEW human \in BOOLEAN,
               Receive(e, i, mark, human)
        PROVE  [Next]_vars
    BY <2>1, ReceiveIsStep
  <2>2. ASSUME NEW mark \in Mark, ReceiveAnonymous(e, i, mark)
        PROVE  [Next]_vars
    <3>1. /\ Kind[e] # "timed" /\ UNCHANGED pastDue
          /\ db' = Decided(db, e, i, Made(e, i, mark, FALSE))
      BY <2>2 DEF ReceiveAnonymous
    <3>2. Made(e, i, mark, FALSE).mark \in Mark
      BY MadeIsReview
    <3> QED BY <3>1, <3>2, SavedIsStep
  <2>3. ASSUME NEW mark \in Mark, AdminReview(e, i, mark)
        PROVE  [Next]_vars
    <3>1. /\ Kind[e] # "timed" /\ UNCHANGED pastDue
          /\ db' = Decided(db, e, i, Made(e, i, mark, TRUE))
      BY <2>3 DEF AdminReview, ReviewInv
    <3>2. Made(e, i, mark, TRUE).mark \in Mark
      BY MadeIsReview
    <3> QED BY <3>1, <3>2, SavedIsStep
  <2>4. CASE AdminDeleteReview(e, i)
    BY <2>4 DEF AdminDeleteReview, vars
  <2>5. CASE SaveFromBatch(e, i)
    <3>1. /\ Kind[e] # "timed" /\ UNCHANGED pastDue
          /\ db' = Decided(db, e, i, batch[e][i])
      BY <2>5 DEF SaveFromBatch, ReviewInv
    <3>2. batch[e][i].mark \in Mark
      BY HasMark DEF ReviewInv
    <3> QED BY <3>1, <3>2, SavedIsStep
  <2>6. CASE Retire(e, i)
    <3>1. /\ Kind[e] # "timed" /\ UNCHANGED pastDue
          /\ db' = Decided(db, e, i, reviews[e][i])
      BY <2>6 DEF Retire, ReviewInv
    <3>2. reviews[e][i].mark \in Mark
      BY HasMark DEF ReviewInv
    <3> QED BY <3>1, <3>2, SavedIsStep
  <2> QED BY <1>3, <2>1, <2>2, <2>3, <2>4, <2>5, <2>6
      DEF ReviewStep
<1>4. CASE LoadBatch \/ SetIsAttemptActive
  BY <1>4 DEF LoadBatch, SetIsAttemptActive, vars
<1> QED
  BY <1>1, <1>2, <1>3, <1>4 DEF ReviewWorkflowNext

-----------------------------------------------------------------------------
(* The invariant.                                                          *)

(* A review step writes one review on the reviews, or none.                *)
Writes(e, i, review) ==
  /\ review \in Review
  /\ reviews' = Kept([reviews EXCEPT ![e][i] = review])

(* Only proctored exams get a review written.                              *)
LEMMA WritesKeepsInv ==
  ASSUME ReviewInv, NEW e \in Exams, NEW i \in Slots, NEW review,
         Writes(e, i, review), Kind[e] # "timed",
         batch' \in Reviews,
         \A f \in Exams, j \in Slots : batch'[f][j].made => Kind[f] # "timed"
  PROVE  ReviewInv'
<1> DEFINE written == [reviews EXCEPT ![e][i] = review]
<1>1. /\ written \in Reviews
      /\ \A f \in Exams, j \in Slots : f # e \/ j # i =>
           written[f][j] = reviews[f][j]
  BY WriteReview DEF Writes, ReviewInv
<1>2. reviews' = Kept(written)
  BY DEF Writes
<1> HIDE DEF written
<1>3. /\ reviews' \in Reviews
      /\ \A f \in Exams, j \in Slots : reviews'[f][j].made = written[f][j].made
  BY <1>1, <1>2, KeptKeeps
<1>4. \A f \in Exams, j \in Slots : reviews'[f][j].made => Kind[f] # "timed"
  BY <1>1, <1>3 DEF ReviewInv
<1> QED
  BY <1>3, <1>4 DEF ReviewInv

(* What writing a review does to the reviews.                              *)
LEMMA WritesDoes ==
  ASSUME ReviewInv, NEW e \in Exams, NEW i \in Slots, NEW review,
         Writes(e, i, review)
  PROVE  /\ reviews'[e][i].mark = review.mark
         /\ reviews'[e][i].human = review.human
         /\ \A f \in Exams, j \in Slots : f # e \/ j # i =>
              /\ reviews'[f][j].mark = reviews[f][j].mark
              /\ j \notin Live(db, f) => reviews'[f][j] = reviews[f][j]
<1> DEFINE written == [reviews EXCEPT ![e][i] = review]
<1>1. /\ written \in Reviews
      /\ written[e][i] = review
      /\ \A f \in Exams, j \in Slots : f # e \/ j # i =>
           written[f][j] = reviews[f][j]
  BY WriteReview DEF Writes, ReviewInv
<1>2. reviews' = Kept(written)
  BY DEF Writes
<1> HIDE DEF written
<1> QED
  BY <1>1, <1>2, KeptKeeps

(* Taking a row out of the batch, or a review out of the reviews.          *)
LEMMA Emptied ==
  ASSUME NEW kept \in Reviews, NEW e \in Exams, NEW i \in Slots
  PROVE  /\ [kept EXCEPT ![e][i] = NoReview] \in Reviews
         /\ \A f \in Exams, j \in Slots :
              [kept EXCEPT ![e][i] = NoReview][f][j].made => kept[f][j].made
<1>1. ~ NoReview.made
  BY DEF NoReview
<1> QED
  BY <1>1, WriteReview

(* At first there is no review.                                           *)
LEMMA ReviewInvInit ==
  ASSUME ReviewInit
  PROVE  ReviewInv
<1>1. /\ reviews \in Reviews /\ batch = reviews
      /\ \A e \in Exams, i \in Slots : reviews[e][i] = NoReview
  BY DEF ReviewInit, Reviews
<1>2. ~ NoReview.made
  BY DEF NoReview
<1> QED
  BY <1>1, <1>2 DEF ReviewInv

(* Callbacks, staff, commands and removals keep the reviews in shape.      *)
LEMMA ReviewInvStep ==
  ASSUME ReviewInv, [ReviewWorkflowNext]_reviewVars
  PROVE  ReviewInv'
<1> USE DEF ReviewInv
<1>1. CASE UNCHANGED reviewVars
  BY <1>1 DEF reviewVars
<1>2. ASSUME reviews' = Kept(reviews), UNCHANGED batch
      PROVE  ReviewInv'
  BY <1>2, KeptKeeps
<1>3. ASSUME NEW e \in Exams, AttemptStep(e)
      PROVE  ReviewInv'
  BY <1>2, <1>3 DEF AttemptStep
<1>4. ASSUME NEW e \in Exams, NEW i \in Slots, ReviewStep(e, i)
      PROVE  ReviewInv'
  <2>1. ASSUME NEW mark \in Mark, NEW human \in BOOLEAN,
               Receive(e, i, mark, human)
        PROVE  ReviewInv'
    <3>1. CASE Refused(e, i)
      BY <1>2, <2>1, <3>1 DEF Receive
    <3>2. CASE ~ Refused(e, i)
      <4>1. Writes(e, i, Made(e, i, mark, human)) /\ UNCHANGED batch
        BY <2>1, <3>2, MadeIsReview DEF Receive, Writes
      <4> QED BY <2>1, <4>1, WritesKeepsInv DEF Receive
    <3> QED BY <3>1, <3>2
  <2>2. ASSUME NEW mark \in Mark,
               ReceiveAnonymous(e, i, mark) \/ AdminReview(e, i, mark)
        PROVE  ReviewInv'
    <3>1. /\ UNCHANGED batch /\ Kind[e] # "timed"
          /\ \E human \in BOOLEAN : Writes(e, i, Made(e, i, mark, human))
      BY <2>2, MadeIsReview DEF ReceiveAnonymous, AdminReview, Writes
    <3> QED BY <3>1, WritesKeepsInv
  <2>3. CASE AdminDeleteReview(e, i)
    BY <2>3, Emptied DEF AdminDeleteReview
  <2>4. CASE SaveFromBatch(e, i)
    <3>1. batch[e][i] \in Review
      <4>1. batch[e][i] \in Review \cup {NoReview} /\ batch[e][i].made
        BY <2>4 DEF SaveFromBatch, Reviews
      <4> QED BY <4>1 DEF NoReview
    <3>2. /\ Writes(e, i, batch[e][i]) /\ Kind[e] # "timed"
          /\ batch' = [batch EXCEPT ![e][i] = NoReview]
      BY <2>4, <3>1 DEF SaveFromBatch, Writes
    <3>3. /\ batch' \in Reviews
          /\ \A f \in Exams, j \in Slots :
               batch'[f][j].made => Kind[f] # "timed"
      BY <3>2, Emptied
    <3> QED BY <3>2, <3>3, WritesKeepsInv
  <2>5. CASE Retire(e, i)
    BY <1>2, <2>5 DEF Retire
  <2> QED BY <1>4, <2>1, <2>2, <2>3, <2>4, <2>5 DEF ReviewStep
<1>5. CASE LoadBatch
  BY <1>5 DEF LoadBatch
<1>6. CASE SetIsAttemptActive
  <2> DEFINE row(e, i) == IF i \in Live(db, e) THEN reviews[e][i]
                          ELSE [reviews[e][i] EXCEPT !.active = FALSE]
  <2>1. reviews' = [e \in Exams |-> [i \in Slots |-> row(e, i)]]
    BY <1>6 DEF SetIsAttemptActive
  <2>2. \A e \in Exams, i \in Slots : reviews[e][i] \in Review \cup {NoReview}
    BY DEF Reviews
  <2>3. \A e \in Exams, i \in Slots : /\ row(e, i) \in Review \cup {NoReview}
                                     /\ row(e, i).made = reviews[e][i].made
    BY <2>2, Inactive
  <2> HIDE DEF row
  <2>4. /\ reviews' \in Reviews
        /\ \A e \in Exams, i \in Slots : reviews'[e][i].made = reviews[e][i].made
    BY <2>1, <2>3 DEF Reviews
  <2> QED BY <1>6, <2>4 DEF SetIsAttemptActive
<1> QED
  BY <1>1, <1>3, <1>4, <1>5, <1>6 DEF ReviewWorkflowNext

-----------------------------------------------------------------------------
(* The theorems.                                                           *)

(* Reviews move attempts only as module ExamAttempts says they may.        *)
THEOREM ReviewsImplementAttempts == ReviewSpec => ImplementsAttempts
<1>1. ReviewInit => Init
  BY DEF ReviewInit
<1>2. ReviewInit => ReviewInv
  BY ReviewInvInit
<1>3. ReviewInv /\ [ReviewWorkflowNext]_reviewVars => ReviewInv' /\ [Next]_vars
  BY ReviewInvStep, StepIsAttemptStep
<1> QED
  BY <1>1, <1>2, <1>3, PTL DEF ReviewSpec, ImplementsAttempts, Spec

(* So the rows of the attempts are sound with their reviews too.           *)
THEOREM RowsSoundUnderReview == ReviewSpec => []RowsSound
  BY ReviewsImplementAttempts, RowsAlwaysSound, PTL DEF ImplementsAttempts

(* The attempts at an exam follow one another, and the credit follows      *)
(* them, with reviews that come late, again, or from a batch.              *)
THEOREM InLineUnderReview == ReviewSpec => []AttemptsInLine
  BY ReviewsImplementAttempts, AlwaysInLine, PTL DEF ImplementsAttempts

(* And no review opens a sitting of an exam that is closed.                *)
THEOREM ReviewsImplementSitting == ReviewSpec => ImplementsSitting
  BY ReviewsImplementAttempts, AttemptsImplementSitting, PTL
  DEF ImplementsAttempts

(* Every review, stored or loaded by a batch, has its type.                *)
THEOREM ReviewTypeCorrect == ReviewSpec => []ReviewTypeOK
<1>1. ReviewInit => ReviewInv
  BY ReviewInvInit
<1>2. ReviewInv /\ [ReviewWorkflowNext]_reviewVars => ReviewInv'
  BY ReviewInvStep
<1>3. RowsSound /\ ReviewInv => ReviewTypeOK
  BY DEF RowsSound, Sound, ReviewInv, Reviews, ReviewTypeOK, TypeOK
<1> QED
  BY <1>1, <1>2, <1>3, RowsSoundUnderReview, PTL DEF ReviewSpec

(* A review of an attempt that is gone decides nothing any more.           *)
THEOREM ArchivedReviewInert == ReviewSpec => ArchivedReviewIsInert
<1>1. ASSUME ReviewInv, [ReviewWorkflowNext]_reviewVars, NEW e \in Exams,
             NEW i \in Slots, i \notin Live(db, e),
             reviews'[e][i] # reviews[e][i]
      PROVE  UNCHANGED db
  <2> USE <1>1
  <2>1. reviews' # Kept(reviews)
    BY KeptKeeps DEF ReviewInv
  <2>2. ASSUME NEW f \in Exams, NEW j \in Slots, NEW review,
               Writes(f, j, review), db' = Decided(db, f, j, review)
        PROVE  UNCHANGED db
    <3>1. f = e /\ j = i
      BY <2>2, WritesDoes
    <3> QED BY <2>2, <3>1 DEF Decided
  <2>3. ASSUME NEW f \in Exams, NEW j \in Slots, ReviewStep(f, j)
        PROVE  UNCHANGED db
    <3>1. ASSUME NEW mark \in Mark, NEW human \in BOOLEAN,
                 Receive(f, j, mark, human)
          PROVE  FALSE
      <4>1. Writes(f, j, Made(f, j, mark, human)) /\ j \in Live(db, f)
        BY <2>1, <3>1, MadeIsReview DEF Receive, Writes
      <4> QED BY <4>1, WritesDoes
    <3>2. ASSUME NEW mark \in Mark,
                 ReceiveAnonymous(f, j, mark) \/ AdminReview(f, j, mark)
          PROVE  UNCHANGED db
      <4>1. \E human \in BOOLEAN :
              /\ Writes(f, j, Made(f, j, mark, human))
              /\ db' = Decided(db, f, j, Made(f, j, mark, human))
        BY <3>2, MadeIsReview DEF ReceiveAnonymous, AdminReview, Writes
      <4> QED BY <4>1, <2>2
    <3>3. CASE SaveFromBatch(f, j)
      <4>1. batch[f][j] \in Review
        <5>1. batch[f][j] \in Review \cup {NoReview} /\ batch[f][j].made
          BY <3>3 DEF SaveFromBatch, ReviewInv, Reviews
        <5> QED BY <5>1 DEF NoReview
      <4> QED BY <2>2, <3>3, <4>1 DEF SaveFromBatch, Writes
    <3>4. CASE AdminDeleteReview(f, j)
      BY <3>4 DEF AdminDeleteReview
    <3>5. ~ Retire(f, j)
      BY <2>1 DEF Retire
    <3> QED BY <2>3, <3>1, <3>2, <3>3, <3>4, <3>5 DEF ReviewStep
  <2> QED BY <2>1, <2>3 DEF ReviewWorkflowNext, AttemptStep, LoadBatch,
                            SetIsAttemptActive, reviewVars
<1>2. ReviewInit => ReviewInv
  BY ReviewInvInit
<1>3. ReviewInv /\ [ReviewWorkflowNext]_reviewVars => ReviewInv'
  BY ReviewInvStep
<1>4. ReviewInv /\ [ReviewWorkflowNext]_reviewVars =>
        [\A e \in Exams : \A i \in Located(e) \ Live(db, e) :
           reviews'[e][i] # reviews[e][i] => UNCHANGED db]_reviewVars
  BY <1>1 DEF Located
<1> QED
  BY <1>2, <1>3, <1>4, PTL DEF ReviewSpec, ArchivedReviewIsInert

(* Without updates, only staff change the mark of a review.                *)
THEOREM ReviewsStand == ReviewSpec => ReviewStands
<1>1. ASSUME ReviewInv, [ReviewWorkflowNext]_reviewVars, NEW e \in Exams,
             NEW i \in Slots, ~ AllowReviewUpdates,
             reviews[e][i].made, reviews'[e][i].made,
             reviews'[e][i].mark # reviews[e][i].mark, batch' = batch
      PROVE  reviews'[e][i].human
  <2> USE <1>1
  <2>1. reviews' # Kept(reviews)
    BY KeptKeeps DEF ReviewInv
  <2>2. ASSUME NEW f \in Exams, NEW j \in Slots, NEW review,
               Writes(f, j, review)
        PROVE  f = e /\ j = i /\ reviews'[e][i].human = review.human
    BY <2>2, WritesDoes
  <2>3. ASSUME NEW f \in Exams, NEW j \in Slots, ReviewStep(f, j)
        PROVE  reviews'[e][i].human
    <3>1. ASSUME NEW mark \in Mark, NEW human \in BOOLEAN,
                 Receive(f, j, mark, human)
          PROVE  FALSE
      <4>1. /\ Writes(f, j, Made(f, j, mark, human))
            /\ ~ reviews[f][j].made
        BY <2>1, <3>1, MadeIsReview DEF Receive, Writes, Refused, Accepted
      <4> QED BY <4>1, <2>2
    <3>2. ASSUME NEW mark \in Mark, ReceiveAnonymous(f, j, mark)
          PROVE  FALSE
      <4>1. /\ Writes(f, j, Made(f, j, mark, FALSE))
            /\ ~ reviews[f][j].made
        BY <3>2, MadeIsReview DEF ReceiveAnonymous, Writes, Refused, Accepted
      <4> QED BY <4>1, <2>2
    <3>3. ASSUME NEW mark \in Mark, AdminReview(f, j, mark)
          PROVE  reviews'[e][i].human
      <4>1. Writes(f, j, Made(f, j, mark, TRUE))
        BY <3>3, MadeIsReview DEF AdminReview, Writes
      <4>2. Made(f, j, mark, TRUE).human
        BY MadeIsReview
      <4> QED BY <4>1, <4>2, <2>2
    <3>4. CASE SaveFromBatch(f, j)
      <4>1. batch'[f][j] = NoReview
        BY <3>4 DEF SaveFromBatch, ReviewInv, Reviews
      <4> QED BY <3>4, <4>1 DEF SaveFromBatch, NoReview
    <3>5. CASE AdminDeleteReview(f, j)
      BY <3>5, WriteReview DEF AdminDeleteReview, ReviewInv, NoReview
    <3>6. ~ Retire(f, j)
      BY <2>1 DEF Retire
    <3> QED BY <2>3, <3>1, <3>2, <3>3, <3>4, <3>5, <3>6 DEF ReviewStep
  <2>4. ~ SetIsAttemptActive
    <3>1. reviews[e][i] \in Review \cup {NoReview}
      BY DEF ReviewInv, Reviews
    <3>2. SetIsAttemptActive => reviews'[e][i] \in
            {reviews[e][i], [reviews[e][i] EXCEPT !.active = FALSE]}
      BY DEF SetIsAttemptActive
    <3> QED BY <3>1, <3>2, Inactive
  <2> QED BY <2>1, <2>3, <2>4 DEF ReviewWorkflowNext, AttemptStep, LoadBatch,
                                  reviewVars
<1>2. ReviewInit => ReviewInv
  BY ReviewInvInit
<1>3. ReviewInv /\ [ReviewWorkflowNext]_reviewVars => ReviewInv'
  BY ReviewInvStep
<1>4. ReviewInv /\ [ReviewWorkflowNext]_reviewVars =>
        [\A e \in Exams, i \in Slots :
           /\ ~ AllowReviewUpdates
           /\ reviews[e][i].made /\ reviews'[e][i].made
           /\ reviews'[e][i].mark # reviews[e][i].mark
           /\ batch' = batch
           => reviews'[e][i].human]_reviewVars
  BY <1>1
<1> QED
  BY <1>2, <1>3, <1>4, PTL DEF ReviewSpec, ReviewStands

-----------------------------------------------------------------------------
(* The review of an attempt that is there says so.                         *)

(* The inductive invariant: it is so in the batch as well, and no review   *)
(* comes before its attempt, whose slot it would take along.               *)
Fits(d, kept) ==
  \A e \in Exams, i \in Slots : kept[e][i].made =>
    /\ d.att[e][i].row # "unused"
    /\ i \in Live(d, e) => kept[e][i].active

Followed == Fits(db, reviews) /\ Fits(db, batch)

(* A step brings no attempt back: a slot that is taken stays taken, and    *)
(* what is removed stays removed.                                          *)
LEMMA RowsGoOn ==
  ASSUME ReviewInv, AttemptsInLine, [ReviewWorkflowNext]_reviewVars
  PROVE  \A e \in Exams, i \in Slots :
           /\ db'.att[e][i].row = "unused" => db.att[e][i].row = "unused"
           /\ db.att[e][i].row = "archived" => db'.att[e][i].row = "archived"
<1>1. CASE db' = db
  BY <1>1
<1>2. CASE Next
  BY <1>1, <1>2, StepHandled DEF Handled, OnwardAt, RowOnward
<1> QED
  BY <1>1, <1>2, StepIsAttemptStep DEF vars

(* So reviews that fit the attempts fit them after the step, when those of *)
(* removed attempts are marked.                                            *)
LEMMA KeptFits ==
  ASSUME ReviewInv, AttemptsInLine, [ReviewWorkflowNext]_reviewVars,
         NEW kept \in Reviews, Fits(db, kept)
  PROVE  Fits(db', kept) /\ Fits(db', Kept(kept))
<1>1. ASSUME NEW e \in Exams, NEW i \in Slots, kept[e][i].made
      PROVE  /\ db'.att[e][i].row # "unused"
             /\ i \in Live(db', e) => i \in Live(db, e) /\ kept[e][i].active
  <2>1. db.att[e][i].row \in {"unused", "live", "archived"}
    BY DEF AttemptsInLine, InLine, Sound, RowSound, Attempt
  <2>2. db.att[e][i].row # "unused"
    BY <1>1 DEF Fits
  <2> QED BY <1>1, <2>1, <2>2, RowsGoOn DEF Fits, Live
<1>2. Fits(db', kept)
  BY <1>1 DEF Fits
<1>3. ASSUME NEW e \in Exams, NEW i \in Slots
      PROVE  /\ Kept(kept)[e][i].made = kept[e][i].made
             /\ i \in Live(db', e) => Kept(kept)[e][i] = kept[e][i]
  BY KeptKeeps DEF Kept
<1> QED
  BY <1>1, <1>2, <1>3 DEF Fits

(* A review that is written on an attempt that there is or was, marked as  *)
(* active if there is.                                                     *)
LEMMA WritesFits ==
  ASSUME ReviewInv, AttemptsInLine, [ReviewWorkflowNext]_reviewVars,
         Fits(db, reviews), NEW e \in Exams, NEW i \in Slots, NEW review,
         Writes(e, i, review), db.att[e][i].row # "unused",
         i \in Live(db, e) => review.active
  PROVE  Fits(db', reviews')
<1> DEFINE written == [reviews EXCEPT ![e][i] = review]
<1>1. /\ written \in Reviews
      /\ written[e][i] = review
      /\ \A f \in Exams, j \in Slots : f # e \/ j # i =>
           written[f][j] = reviews[f][j]
  BY WriteReview DEF Writes, ReviewInv
<1>2. reviews' = Kept(written)
  BY DEF Writes
<1> HIDE DEF written
<1>3. Fits(db, written)
  BY <1>1 DEF Fits
<1> QED
  BY <1>1, <1>2, <1>3, KeptFits

(* A review that is made fits, as the one before it did.                   *)
LEMMA MadeFits ==
  ASSUME Fits(db, reviews), NEW e \in Exams, NEW i \in Live(db, e),
         NEW mark \in Mark, NEW human \in BOOLEAN
  PROVE  Made(e, i, mark, human).active
<1>1. i \in Slots
  BY DEF Live
<1>2. reviews[e][i].made => reviews[e][i].active
  BY <1>1 DEF Fits
<1> QED
  BY <1>2 DEF Made

(* Without one of them, reviews fit as they did.                           *)
LEMMA EmptiedFits ==
  ASSUME NEW kept \in Reviews, Fits(db, kept), NEW e \in Exams, NEW i \in Slots,
         NEW emptied, emptied = [kept EXCEPT ![e][i] = NoReview]
  PROVE  emptied \in Reviews /\ Fits(db, emptied)
<1>1. /\ emptied \in Reviews
      /\ emptied[e][i] = NoReview
      /\ \A f \in Exams, j \in Slots : f # e \/ j # i =>
           emptied[f][j] = kept[f][j]
  BY DEF Reviews
<1>2. ~ NoReview.made
  BY DEF NoReview
<1>3. ASSUME NEW f \in Exams, NEW j \in Slots, emptied[f][j].made
      PROVE  emptied[f][j] = kept[f][j]
  BY <1>1, <1>2, <1>3
<1> QED
  BY <1>1, <1>3 DEF Fits

(* Every step keeps the reviews, stored and loaded, fitting.               *)
LEMMA FollowedStep ==
  ASSUME ReviewInv, AttemptsInLine, Followed, [ReviewWorkflowNext]_reviewVars
  PROVE  Followed'
<1>1. ReviewInv' /\ Fits(db, reviews) /\ Fits(db, batch)
  BY ReviewInvStep DEF Followed
<1>2. Fits(db', reviews') /\ Fits(db', batch') => Followed'
  BY DEF Followed, Fits, Live
<1>3. ASSUME reviews' = Kept(reviews), batch' = batch
      PROVE  Followed'
  BY <1>1, <1>2, <1>3, KeptFits DEF ReviewInv
<1>4. ASSUME NEW e \in Exams, NEW i \in Slots, NEW mark \in Mark,
             NEW human \in BOOLEAN,
             reviews' = Kept([reviews EXCEPT ![e][i] = Made(e, i, mark, human)]),
             db.att[e][i].row # "unused", batch' = batch
      PROVE  Followed'
  <2>1. Writes(e, i, Made(e, i, mark, human))
    BY <1>4, MadeIsReview DEF Writes
  <2>2. Fits(db', reviews')
    BY <1>1, <1>4, <2>1, MadeFits, WritesFits
  <2>3. Fits(db', batch)
    BY <1>1, KeptFits DEF ReviewInv
  <2> QED BY <1>2, <1>4, <2>2, <2>3
<1>5. ASSUME NEW e \in Exams, NEW i \in Slots, ReviewStep(e, i)
      PROVE  Followed'
  <2>1. ASSUME NEW mark \in Mark, NEW human \in BOOLEAN,
               Receive(e, i, mark, human)
        PROVE  Followed'
    BY <1>3, <1>4, <2>1 DEF Receive, Live
  <2>2. ASSUME NEW mark \in Mark, ReceiveAnonymous(e, i, mark)
        PROVE  Followed'
    BY <1>4, <2>2 DEF ReceiveAnonymous, Located, Unused
  <2>3. ASSUME NEW mark \in Mark, AdminReview(e, i, mark)
        PROVE  Followed'
    BY <1>1, <1>4, <2>3 DEF AdminReview, Fits
  <2>4. CASE Retire(e, i)
    BY <1>3, <2>4 DEF Retire
  <2>5. CASE AdminDeleteReview(e, i)
    <3>1. /\ db' = db
          /\ Fits(db, reviews') /\ Fits(db, batch')
      BY <1>1, <2>5, EmptiedFits DEF AdminDeleteReview, ReviewInv
    <3> QED BY <1>2, <3>1
  <2>6. CASE SaveFromBatch(e, i)
    <3>1. batch[e][i] \in Review
      <4>1. batch[e][i] \in Review \cup {NoReview} /\ batch[e][i].made
        BY <2>6 DEF SaveFromBatch, ReviewInv, Reviews
      <4> QED BY <4>1 DEF NoReview
    <3>2. Writes(e, i, batch[e][i])
      BY <2>6, <3>1 DEF SaveFromBatch, Writes
    <3>3. Fits(db', reviews')
      BY <1>1, <2>6, <3>2, WritesFits DEF SaveFromBatch, Fits
    <3>4. batch' \in Reviews /\ Fits(db, batch')
      BY <1>1, <2>6, EmptiedFits DEF SaveFromBatch, ReviewInv
    <3>5. Fits(db', batch')
      BY <3>4, KeptFits
    <3> QED BY <1>2, <3>3, <3>5
  <2> QED BY <1>5, <2>1, <2>2, <2>3, <2>4, <2>5, <2>6 DEF ReviewStep
<1>6. CASE LoadBatch
  BY <1>1, <1>2, <1>6 DEF LoadBatch
<1>7. CASE SetIsAttemptActive
  <2>1. \A e \in Exams, i \in Slots :
          /\ reviews[e][i] \in Review \cup {NoReview}
          /\ reviews'[e][i] = IF i \in Live(db, e) THEN reviews[e][i]
                              ELSE [reviews[e][i] EXCEPT !.active = FALSE]
    BY <1>7 DEF SetIsAttemptActive, ReviewInv, Reviews
  <2>2. ASSUME NEW e \in Exams, NEW i \in Slots, reviews'[e][i].made
        PROVE  /\ reviews[e][i].made
               /\ i \in Live(db, e) => reviews'[e][i] = reviews[e][i]
    BY <2>1, <2>2, Inactive
  <2>3. Fits(db, reviews')
    BY <1>1, <2>2 DEF Fits
  <2> QED BY <1>1, <1>2, <1>7, <2>3 DEF SetIsAttemptActive
<1>8. CASE UNCHANGED reviewVars
  BY <1>1, <1>2, <1>8 DEF reviewVars
<1> QED
  BY <1>3, <1>5, <1>6, <1>7, <1>8 DEF ReviewWorkflowNext, AttemptStep

(* Neither the removal of another attempt, nor a batch that was loaded     *)
(* before, nor the command that marks reviews takes the mark of an attempt *)
(* that is there.                                                          *)
THEOREM LiveReviewsActive == ReviewSpec => []LiveReviewIsActive
<1>1. ReviewInit => ReviewInv
  BY ReviewInvInit
<1>2. ReviewInit => Followed
  <2>1. ReviewInit => batch = reviews /\ \A e \in Exams, i \in Slots :
                        reviews[e][i] = NoReview
    BY DEF ReviewInit
  <2>2. ~ NoReview.made
    BY DEF NoReview
  <2> QED BY <2>1, <2>2 DEF Followed, Fits
<1>3. ReviewInv /\ [ReviewWorkflowNext]_reviewVars => ReviewInv'
  BY ReviewInvStep
<1>4. ReviewInv /\ AttemptsInLine /\ Followed /\ [ReviewWorkflowNext]_reviewVars
        => Followed'
  BY FollowedStep
<1>5. Followed => LiveReviewIsActive
  BY DEF Followed, Fits, LiveReviewIsActive
<1> QED
  BY <1>1, <1>2, <1>3, <1>4, <1>5, InLineUnderReview, PTL DEF ReviewSpec

-----------------------------------------------------------------------------
(* Rejections.                                                             *)

BecomesRejected(d, d1, e, i) ==
  /\ i \in Live(d, e) \cap Live(d1, e)
  /\ d.att[e][i].status # "rejected" /\ d1.att[e][i].status = "rejected"

NoneRejected(d, d1) == \A e \in Exams, i \in Slots : ~ BecomesRejected(d, d1, e, i)

(* What is handled with another status rejects nothing.                    *)
LEMMA HandledRejectsNone ==
  ASSUME NEW d, NEW d1, NEW e, NEW to, Handled(d, d1, e, to), to # "rejected"
  PROVE  NoneRejected(d, d1)
  BY DEF Handled, OnwardAt, RowOnward, NoneRejected, BecomesRejected, Live

(* A saved review rejects its own attempt, by its verdict, or none.        *)
LEMMA DecidedRejects ==
  ASSUME NEW d, InLine(d), NEW e \in Exams, NEW i \in Slots,
         NEW review, review.mark \in Mark,
         NEW d1, Goes(d, d1, "timed_out"),
         \A f \in Exams \ {e} : FinishedKept(d, d1, f),
         \A f \in Exams : \A j \in Slots : f # e =>
           \/ d1.att[f][j] = d.att[f][j]
           \/ d1.att[f][j] = Archived /\ j \in HasStatus(d, f, OnboardingErrors),
         NEW d2, d2 = Decided(d1, e, i, review),
         NEW f \in Exams, NEW j \in Slots, BecomesRejected(d, d2, f, j)
  PROVE  f = e /\ j = i /\ Verdict(e, review) = "rejected"
<1> DEFINE to == Verdict(e, review)
<1>1. /\ to \in {"verified", "rejected", "second_review_required", "error"}
      /\ to # "declined" /\ to \in ValidStatus
  BY VerdictIsVerdict, VerdictsValid, ReviewConstantsAssumption
<1> HIDE DEF to
<1>2. InLine(d1)
  BY MovedKeepsLine
<1>3. NoneRejected(d, d1)
  <2>1. Handled(d, d1, e, "timed_out")
    BY GoesHandled
  <2> QED BY <2>1, HandledRejectsNone
<1>4. i \in Live(d1, e)
  <2>1. CASE i \notin Live(d1, e)
    <3>1. d2 = d1
      BY <2>1 DEF Decided
    <3> QED BY <1>3, <3>1 DEF NoneRejected
  <2> QED BY <2>1
<1>5. SUFFICES ASSUME NEW n \in BOOLEAN, d2 = Update(d1, e, i, to, n)
               PROVE  f = e /\ j = i /\ to = "rejected"
  <2>1. d2 = Update(d1, e, i, to, FALSE)
    BY <1>4 DEF Decided, to
  <2> QED BY <2>1, Zenon DEF to
<1>6. to = "rejected"
  <2>1. CASE to # "rejected"
    <3>1. Handled(d, d2, e, to)
      BY <1>1, <1>4, <1>5, ValidCanHave, UpdateHandled
    <3> QED BY <2>1, <3>1, HandledRejectsNone DEF NoneRejected
  <2> QED BY <2>1
<1>7. f = e /\ j = i
  <2>1. CASE f # e \/ j # i
    <3>1. d2.att[f][j] = d1.att[f][j] \/ d2.att[f][j] = Archived
      BY <1>1, <1>2, <1>4, <1>5, <2>1, VerdictUpdateAlone
    <3>2. Archived.row # "live"
      BY DEF Archived, NoRow
    <3>3. BecomesRejected(d, d1, f, j)
      BY <3>1, <3>2 DEF BecomesRejected, Live
    <3> QED BY <1>3, <3>3 DEF NoneRejected
  <2> QED BY <2>1
<1> QED
  BY <1>6, <1>7

(* Nothing that learners, staff, the service or the clock do rejects an    *)
(* attempt, unless staff set that very status.                             *)
LEMMA AttemptStepRejectsNone ==
  ASSUME AttemptsInLine, "rejected" \notin AdminStatuses, NEW e \in Exams,
         AttemptNext(e)
  PROVE  NoneRejected(db, db')
<1>1. InLine(db)
  BY DEF AttemptsInLine
<1>2. CASE db' = db
  BY <1>2 DEF NoneRejected, BecomesRejected
<1>3. ASSUME NEW to \in StatusesAsked, Handled(db, db', e, to)
      PROVE  NoneRejected(db, db')
  BY <1>3, HandledRejectsNone DEF StatusesAsked
<1>4. ASSUME NEW i \in Slots, NEW to, CanHave(e, to), SetStatus(e, i, to),
             to = "rejected" => db.att[e][i].status = "rejected"
      PROVE  NoneRejected(db, db')
  <2>1. CASE to # "rejected"
    BY <1>1, <1>4, <2>1, SetStatusHandled, HandledRejectsNone
  <2>2. ASSUME to = "rejected", NEW n \in BOOLEAN, NEW x,
               x = Update(db, e, i, to, n)
        PROVE  NoneRejected(db, x)
    <3>1. i \in Live(db, e)
      BY <1>4 DEF SetStatus
    <3>2. \A f \in Exams, j \in Slots : f # e \/ j # i =>
            x.att[f][j] = db.att[f][j] \/ x.att[f][j] = Archived
      BY <1>1, <2>2, <3>1, VerdictUpdateAlone
    <3>3. Archived.row # "live"
      BY DEF Archived, NoRow
    <3> QED BY <1>4, <2>2, <3>2, <3>3 DEF NoneRejected, BecomesRejected, Live
  <2>3. db' = Update(db, e, i, to, FALSE)
    BY <1>4 DEF SetStatus
  <2> QED BY <2>1, <2>2, <2>3, Zenon
<1>5. ASSUME NEW i \in Slots, AdminSetStatus(e, i) \/ RetriggerStatus(e, i)
      PROVE  NoneRejected(db, db')
  <2>1. CanHave(e, db.att[e][i].status)
    BY <1>1 DEF InLine, Sound, RowSound, Attempt, CanHave
  <2>2. \A to \in AdminStatuses : CanHave(e, to) /\ to # "rejected"
    BY ValidCanHave, ConstantsAssumption
  <2>3. PICK to : /\ CanHave(e, to) /\ SetStatus(e, i, to)
                  /\ to = "rejected" => db.att[e][i].status = "rejected"
    BY <1>5, <2>1, <2>2 DEF AdminSetStatus, RetriggerStatus
  <2> QED BY <1>4, <2>3
<1> QED
  BY <1>2, <1>3, <1>5, AttemptStepHandled

(* A step that rejects an attempt saves a review of it that says so, and   *)
(* the review that is stored afterwards is that one.                       *)
LEMMA RejectsByReview ==
  ASSUME ReviewInv, AttemptsInLine, "rejected" \notin AdminStatuses,
         [ReviewWorkflowNext]_reviewVars,
         NEW e \in Exams, NEW i \in Slots, BecomesRejected(db, db', e, i)
  PROVE  \E review : /\ Verdict(e, review) = "rejected"
                     /\ review.mark \in Mark
                     /\ reviews'[e][i].human = review.human
<1>1. db' # db
  BY DEF BecomesRejected
<1>2. InLine(db) /\ Honest(db)
  BY DEF AttemptsInLine, InLine, Honest
<1>3. ASSUME NEW x \in Exams, AttemptStep(x)
      PROVE  FALSE
  BY <1>3, AttemptStepRejectsNone DEF AttemptStep, NoneRejected
<1>4. ASSUME NEW x \in Exams, NEW k \in Slots, NEW review, review.mark \in Mark,
             reviews'[x][k].human = review.human,
             \/ db' = Decided(db, x, k, review)
             \/ /\ k \in Live(db, x)
                /\ db' = Decided(Read(db, x, k), x, k, review)
      PROVE  \E r : /\ Verdict(e, r) = "rejected"
                    /\ r.mark \in Mark
                    /\ reviews'[e][i].human = r.human
  <2>1. ASSUME NEW d1, Goes(db, d1, "timed_out"),
               \A f \in Exams \ {x} : FinishedKept(db, d1, f),
               \A f \in Exams : \A j \in Slots : f # x =>
                 \/ d1.att[f][j] = db.att[f][j]
                 \/ /\ d1.att[f][j] = Archived
                    /\ j \in HasStatus(db, f, OnboardingErrors),
               db' = Decided(d1, x, k, review)
        PROVE  e = x /\ i = k /\ Verdict(x, review) = "rejected"
    BY <1>2, <1>4, <2>1, DecidedRejects
  <2>2. CASE db' = Decided(db, x, k, review)
    <3>1. Goes(db, db, "timed_out") /\ \A f \in Exams : FinishedKept(db, db, f)
      BY <1>2, GoesSimple DEF FinishedKept
    <3> QED BY <1>4, <2>1, <2>2, <3>1
  <2>3. ASSUME k \in Live(db, x), NEW d1, d1 = Read(db, x, k),
               db' = Decided(d1, x, k, review)
        PROVE  e = x /\ i = k /\ Verdict(x, review) = "rejected"
    <3>1. /\ Goes(db, d1, "timed_out")
          /\ \A f \in Exams : FinishedKept(db, d1, f)
          /\ \A f \in Exams : \A j \in Slots : f # x =>
               \/ d1.att[f][j] = db.att[f][j]
               \/ /\ d1.att[f][j] = Archived
                  /\ j \in HasStatus(db, f, OnboardingErrors)
      BY <1>2, <2>3, ReadDoes
    <3> QED BY <2>1, <2>3, <3>1
  <2> QED BY <1>4, <2>2, <2>3
<1>5. ASSUME NEW x \in Exams, NEW k \in Slots, ReviewStep(x, k)
      PROVE  \E r : /\ Verdict(e, r) = "rejected"
                    /\ r.mark \in Mark
                    /\ reviews'[e][i].human = r.human
  <2>1. ASSUME NEW mark \in Mark, NEW human \in BOOLEAN,
               reviews' = Kept([reviews EXCEPT ![x][k] = Made(x, k, mark, human)])
        PROVE  /\ Made(x, k, mark, human).mark \in Mark
               /\ reviews'[x][k].human = Made(x, k, mark, human).human
    <3>1. Writes(x, k, Made(x, k, mark, human))
      BY <2>1, MadeIsReview DEF Writes
    <3> QED BY <3>1, MadeIsReview, WritesDoes
  <2>2. ASSUME NEW mark \in Mark, NEW human \in BOOLEAN,
               Receive(x, k, mark, human)
        PROVE  /\ ~ Refused(x, k)
               /\ k \in Live(db, x)
               /\ db' = Decided(Read(db, x, k), x, k, Made(x, k, mark, human))
               /\ reviews' = Kept([reviews EXCEPT ![x][k] = Made(x, k, mark, human)])
    <3>1. ASSUME Refused(x, k)
          PROVE  FALSE
      <4>1. k \in Live(db, x) /\ db' = Read(db, x, k)
        BY <2>2, <3>1 DEF Receive
      <4>2. NoneRejected(db, db')
        BY <1>2, <4>1, ReadHandled, HandledRejectsNone
      <4> QED BY <4>2 DEF NoneRejected
    <3> QED BY <2>2, <3>1 DEF Receive
  <2>3. ASSUME NEW mark \in Mark,
               ReceiveAnonymous(x, k, mark) \/ AdminReview(x, k, mark)
        PROVE  \E human \in BOOLEAN :
                 /\ db' = Decided(db, x, k, Made(x, k, mark, human))
                 /\ reviews' = Kept([reviews EXCEPT ![x][k] =
                                       Made(x, k, mark, human)])
    BY <2>3 DEF ReceiveAnonymous, AdminReview
  <2>4. CASE SaveFromBatch(x, k)
    <3>1. batch[x][k] \in Review
      <4>1. batch[x][k] \in Review \cup {NoReview} /\ batch[x][k].made
        BY <2>4 DEF SaveFromBatch, ReviewInv, Reviews
      <4> QED BY <4>1 DEF NoReview
    <3>2. Writes(x, k, batch[x][k])
      BY <2>4, <3>1 DEF SaveFromBatch, Writes
    <3>3. /\ batch[x][k].mark \in Mark
          /\ reviews'[x][k].human = batch[x][k].human
      BY <3>2, HasMark, WritesDoes DEF ReviewInv
    <3> QED BY <1>4, <2>4, <3>3 DEF SaveFromBatch
  <2>5. CASE Retire(x, k)
    <3>1. /\ reviews[x][k].mark \in Mark
          /\ reviews'[x][k].human = reviews[x][k].human
      BY <2>5, HasMark, KeptKeeps DEF Retire, ReviewInv
    <3> QED BY <1>4, <2>5, <3>1 DEF Retire
  <2>6. ~ AdminDeleteReview(x, k)
    BY <1>1 DEF AdminDeleteReview
  <2> QED BY <1>4, <1>5, <2>1, <2>2, <2>3, <2>4, <2>5, <2>6 DEF ReviewStep
<1> QED
  BY <1>1, <1>3, <1>5 DEF ReviewWorkflowNext, LoadBatch, SetIsAttemptActive,
                          reviewVars

(* Where second reviews are required and staff reject by review only, an   *)
(* attempt that becomes rejected has a review that names a person: neither *)
(* a service nor a batch, a read or a repeated delivery rejects by itself. *)
THEOREM RejectionsByHuman ==
  ASSUME "rejected" \notin AdminStatuses
  PROVE  ReviewSpec => RejectedByHuman
<1> DEFINE ByHuman ==
      \A e \in Exams : \A i \in Live(db, e) \cap Live(db', e) :
        /\ SecondReviews /\ ~ (SupportsOnboarding /\ Kind[e] = "practice")
        /\ db.att[e][i].status # "rejected" /\ db'.att[e][i].status = "rejected"
        => reviews'[e][i].human
<1>1. ReviewInit => ReviewInv
  BY ReviewInvInit
<1>2. ReviewInv /\ [ReviewWorkflowNext]_reviewVars => ReviewInv'
  BY ReviewInvStep
<1>3. ReviewInv /\ AttemptsInLine /\ [ReviewWorkflowNext]_reviewVars
        => [ByHuman]_reviewVars
  <2> SUFFICES ASSUME ReviewInv, AttemptsInLine,
                      [ReviewWorkflowNext]_reviewVars,
                      NEW e \in Exams, NEW i \in Live(db, e) \cap Live(db', e),
                      SecondReviews, ~ (SupportsOnboarding /\ Kind[e] = "practice"),
                      db.att[e][i].status # "rejected",
                      db'.att[e][i].status = "rejected"
               PROVE  reviews'[e][i].human
    OBVIOUS
  <2>1. i \in Slots /\ BecomesRejected(db, db', e, i)
    BY DEF Live, BecomesRejected
  <2>2. PICK review : /\ Verdict(e, review) = "rejected"
                      /\ review.mark \in Mark
                      /\ reviews'[e][i].human = review.human
    BY <2>1, RejectsByReview
  <2>3. review.human
    BY <2>2 DEF Verdict, Mark
  <2> QED BY <2>2, <2>3
<1> QED
  BY <1>1, <1>2, <1>3, InLineUnderReview, PTL DEF ReviewSpec, RejectedByHuman

-----------------------------------------------------------------------------
(* A review that is delivered twice.                                       *)

(* A row that is saved with a verdict it has been saved with stays.        *)
LEMMA SavedTwice ==
  ASSUME NEW e \in Exams, NEW a \in Attempt,
         NEW to \in {"verified", "rejected", "second_review_required", "error"},
         NEW stamped \in BOOLEAN, NEW instantly \in BOOLEAN,
         NEW b, b = Saved(a, to, stamped, instantly)
  PROVE  Saved(b, to, stamped, instantly) = b
<1>1. \A from : EffectiveStatus(from, to, AllowTimedOut) = to
  BY DEF EffectiveStatus, IsReattempting, PreStarted
<1>2. to # "started" /\ to # "timed_out" /\ to # "submitted" /\ to \in Status
  BY DEF Status, ValidStatus, Completed
<1>3. ASSUME NEW r \in Attempt
      PROVE  Saved(r, to, stamped, instantly) =
               [r EXCEPT !.status = to, !.started = r.started,
                         !.expired = r.expired, !.completed = r.completed,
                         !.resumable = IsResumable(r, to)]
  <2>1. r.started \in BOOLEAN /\ r.completed \in BOOLEAN
    BY DEF Attempt
  <2>2. Saved(r, to, stamped, instantly) =
          [r EXCEPT !.status = to, !.started = r.started \/ FALSE,
                    !.expired = r.expired, !.completed = r.completed \/ FALSE,
                    !.resumable = IsResumable(r, to)]
    BY <1>1, <1>2 DEF Saved
  <2> QED BY <2>1, <2>2
<1>4. ASSUME NEW r \in Attempt, NEW x, x = Saved(r, to, stamped, instantly)
      PROVE  /\ x \in Attempt
             /\ x.status = to /\ x.resumable = IsResumable(r, to)
             /\ x.ready = r.ready /\ x.resumed = r.resumed
  <2>1. IsResumable(r, to) \in BOOLEAN
    BY DEF IsResumable, InResumeProcess, Attempt
  <2> QED BY <1>2, <1>3, <1>4, <2>1, ZenonT(40) DEF Attempt
<1>5. b \in Attempt /\ b.status = to /\ b.resumable = IsResumable(a, to)
      /\ b.ready = a.ready /\ b.resumed = a.resumed
  BY <1>4
<1>6. IsResumable(b, to) = b.resumable
  <2>1. IsResumable(b, to) \in BOOLEAN /\ b.resumable \in BOOLEAN
    BY <1>5 DEF IsResumable, InResumeProcess, Attempt
  <2>2. IsResumable(b, to) <=> b.resumable
    BY <1>5 DEF IsResumable, InResumeProcess
  <2> QED BY <2>1, <2>2
<1>7. Saved(b, to, stamped, instantly) =
        [b EXCEPT !.status = b.status, !.started = b.started,
                  !.expired = b.expired, !.completed = b.completed,
                  !.resumable = b.resumable]
  <2>1. Saved(b, to, stamped, instantly) =
          [b EXCEPT !.status = to, !.started = b.started,
                    !.expired = b.expired, !.completed = b.completed,
                    !.resumable = IsResumable(b, to)]
    BY <1>3, <1>5
  <2> QED BY <1>5, <1>6, <2>1, Zenon
<1>8. \A r \in Attempt :
        [r EXCEPT !.status = r.status, !.started = r.started,
                  !.expired = r.expired, !.completed = r.completed,
                  !.resumable = r.resumable] = r
  BY DEF Attempt
<1> QED
  BY <1>5, <1>7, <1>8

(* Nor does what the LMS was told of it change.                            *)
LEMMA SettledTwice ==
  ASSUME NEW d \in Database, NEW e \in Exams,
         NEW to \in {"verified", "rejected", "second_review_required", "error"},
         CanUpdateCreditGradesAndEmail(d, e, to) =>
           /\ to \in NeedsCreditUpdate => d.credit[e] = CreditFor(to)
           /\ OverrideOnReject /\ to \in NeedsGradeOverride => d.override[e]
  PROVE  Settled(d, e, to, to) = d
<1> DEFINE credit   == IF to \in NeedsCreditUpdate THEN CreditFor(to)
                       ELSE d.credit[e]
           override == IF ~ OverrideOnReject THEN d.override[e]
                       ELSE \/ to \in NeedsGradeOverride
                            \/ /\ d.override[e]
                               /\ ~ (to = "verified" /\ to \in NeedsGradeOverride)
<1>1. CASE ~ CanUpdateCreditGradesAndEmail(d, e, to)
  BY <1>1 DEF Settled
<1>2. CASE CanUpdateCreditGradesAndEmail(d, e, to)
  <2>1. Settled(d, e, to, to) =
          [d EXCEPT !.credit[e] = credit, !.override[e] = override]
    BY <1>2 DEF Settled
  <2>2. credit = d.credit[e]
    BY <1>2
  <2>3. override = d.override[e]
    <3>1. d.override[e] \in BOOLEAN
      BY DEF Database
    <3>2. to = "verified" => to \notin NeedsGradeOverride
      BY DEF NeedsGradeOverride
    <3> QED BY <1>2, <3>1, <3>2
  <2> HIDE DEF credit, override
  <2>4. [d EXCEPT !.credit[e] = d.credit[e], !.override[e] = d.override[e]] = d
    BY DEF Database
  <2>5. Settled(d, e, to, to) =
          [d EXCEPT !.credit[e] = d.credit[e], !.override[e] = d.override[e]]
    BY <2>1, <2>2, <2>3, Zenon
  <2> QED BY <2>4, <2>5
<1> QED
  BY <1>1, <1>2

(* A rejection overrides the grade, where it may.                          *)
LEMMA SettledOverrides ==
  ASSUME NEW d \in Database, NEW e \in Exams, NEW from, NEW to,
         CanUpdateCreditGradesAndEmail(d, e, to),
         OverrideOnReject, to \in NeedsGradeOverride,
         NEW d1, d1 = Settled(d, e, from, to)
  PROVE  d1.override[e]
<1> DEFINE credit   == IF to \in NeedsCreditUpdate THEN CreditFor(to)
                       ELSE d.credit[e]
           override == \/ to \in NeedsGradeOverride
                       \/ /\ d.override[e]
                          /\ ~ (to = "verified" /\ from \in NeedsGradeOverride)
<1>1. d1 = [d EXCEPT !.credit[e] = credit, !.override[e] = override]
  BY DEF Settled
<1>2. override
  OBVIOUS
<1> HIDE DEF credit, override
<1> QED
  BY <1>1, <1>2 DEF Database

(* The onboarding errors are cleared once.                                 *)
LEMMA ClearTwice ==
  ASSUME NEW d \in Database, NEW e \in Exams, NEW to,
         NEW d1, d1 = ClearOnboardingErrors(d, e, to)
  PROVE  ClearOnboardingErrors(d1, e, to) = d1
<1> DEFINE Clears == Kind[e] = "practice" /\ SupportsOnboarding /\ to \in Completed
           att(x) == [f \in Exams |-> [j \in Slots |->
                        IF j \in HasStatus(x, f, OnboardingErrors)
                        THEN Archived ELSE x.att[f][j]]]
<1>1. \A x : ClearOnboardingErrors(x, e, to) =
               IF Clears THEN [x EXCEPT !.att = att(x)] ELSE x
  BY Zenon DEF ClearOnboardingErrors
<1>2. CASE ~ Clears
  BY <1>1, <1>2
<1>3. CASE Clears
  <2>1. d1 = [d EXCEPT !.att = att(d)]
    BY <1>1, <1>3
  <2>2. /\ d1.att = att(d) /\ att(d) = [f \in Exams |-> d1.att[f]]
        /\ \A f \in Exams : d1.att[f] = [j \in Slots |-> d1.att[f][j]]
    BY <2>1 DEF Database
  <2>3. \A f \in Exams, j \in Slots : j \notin HasStatus(d1, f, OnboardingErrors)
    <3>1. Archived.row # "live"
      BY DEF Archived, NoRow
    <3>2. \A f \in Exams, j \in Slots : d1.att[f][j] =
            IF j \in HasStatus(d, f, OnboardingErrors)
            THEN Archived ELSE d.att[f][j]
      BY <2>2
    <3> QED BY <3>1, <3>2 DEF HasStatus, Live
  <2>4. att(d1) = d1.att
    <3>1. att(d1) = [f \in Exams |-> [j \in Slots |-> d1.att[f][j]]]
      BY <2>3
    <3> HIDE DEF att
    <3> QED BY <2>2, <3>1
  <2> HIDE DEF att
  <2>5. [d1 EXCEPT !.att = d1.att] = d1
    <3>1. \A x \in Database : \A y : [[x EXCEPT !.att = y] EXCEPT !.att = y]
                                   = [x EXCEPT !.att = y]
      BY DEF Database
    <3> QED BY <2>1, <2>2, <3>1
  <2>6. ClearOnboardingErrors(d1, e, to) = [d1 EXCEPT !.att = d1.att]
    BY <1>1, <1>3, <2>4
  <2> QED BY <2>5, <2>6
<1> QED
  BY <1>2, <1>3

(* The update that a review makes is made once.                            *)
LEMMA VerdictTwice ==
  ASSUME NEW d, InLine(d), NEW e \in Exams, NEW i \in Live(d, e),
         NEW to \in {"verified", "rejected", "second_review_required", "error"},
         NEW n \in BOOLEAN, ~ n,
         NEW once, once = Update(d, e, i, to, n)
  PROVE  i \in Live(once, e) /\ Update(once, e, i, to, n) = once
<1> DEFINE d1 == SaveStatus(d, e, i, to, n, n)
<1>1. i \in Slots /\ Sound(d) /\ d \in Database
  BY DEF Live, InLine, Sound
<1>2. /\ Goes(d, d1, to)
      /\ d1.att[e][i] = Saved(d.att[e][i], to, n, n)
      /\ d1.att[e][i].status = to
      /\ Live(d1, e) = Live(d, e)
      /\ CanUpdateCreditGradesAndEmail(d1, e, to) /\ to \in NeedsCreditUpdate
           => d1.credit[e] = CreditFor(to)
      /\ once = ClearOnboardingErrors(d1, e, to)
      /\ once.credit = d1.credit
      /\ \A f \in Exams, j \in Slots :
           \/ once.att[f][j] = d1.att[f][j]
           \/ j \in HasStatus(d1, f, OnboardingErrors)
  BY VerdictUpdate, SMTT(30)
<1>3. Sound(d1) /\ d1 \in Database /\ Sound(once) /\ once \in Database
  BY <1>2, ClearOnboardingErrorsSound, SMTT(30) DEF Goes, Honest, Sound
<1>4. once.override = d1.override
  BY <1>2, <1>3 DEF ClearOnboardingErrors, Database
<1>5. once.att[e][i] = d1.att[e][i]
  <2>1. to \notin OnboardingErrors
    BY DEF OnboardingErrors
  <2> QED BY <1>1, <1>2, <2>1 DEF HasStatus
<1>6. i \in Live(once, e)
  BY <1>1, <1>2, <1>5 DEF Live
<1>7. CanUpdateCreditGradesAndEmail(d1, e, to) /\ OverrideOnReject
        /\ to \in NeedsGradeOverride => d1.override[e]
  <2> DEFINE row == Saved(d.att[e][i], to, n, n)
             dm  == WithRow(d, e, i, row)
  <2>1. d1 = Settled(dm, e, d.att[e][i].status, row.status)
    BY DEF SaveStatus, WithRow
  <2>2. row.status = to
    BY <1>2
  <2>3. RowSound(e, row)
    BY <1>1, <1>2, <1>3 DEF Sound
  <2> HIDE DEF row
  <2>4. dm \in Database /\ Sound(dm)
    BY <1>1, <2>3, WriteRowSound DEF Sound
  <2> HIDE DEF dm, d1
  <2>5. d1.att = dm.att
    BY <2>1, <2>2, <2>4, SettledSound
  <2>6. /\ Live(dm, e) = Live(d1, e)
        /\ \A statuses : HasStatus(dm, e, statuses) = HasStatus(d1, e, statuses)
    BY <2>5 DEF HasStatus, Live
  <2>7. CanUpdateCreditGradesAndEmail(dm, e, to)
          <=> CanUpdateCreditGradesAndEmail(d1, e, to)
    BY <2>6, Zenon DEF CanUpdateCreditGradesAndEmail
  <2> QED BY <2>1, <2>2, <2>4, <2>7, SettledOverrides
<1> HIDE DEF d1
<1>8. CanUpdateCreditGradesAndEmail(once, e, to)
        => CanUpdateCreditGradesAndEmail(d1, e, to)
  <2>1. CASE Kind[e] = "practice"
    BY <2>1 DEF CanUpdateCreditGradesAndEmail
  <2>2. CASE Kind[e] # "practice"
    <3>1. once = d1
      BY <1>2, <2>2 DEF ClearOnboardingErrors
    <3> QED BY <3>1
  <2> QED BY <2>1, <2>2
<1>9. SaveStatus(once, e, i, to, n, n) = once
  <2>1. Saved(once.att[e][i], to, n, n) = once.att[e][i]
    <3>1. d.att[e][i] \in Attempt
      BY <1>1 DEF Sound, RowSound
    <3> QED BY <1>2, <1>5, <3>1, SavedTwice
  <2>2. [once EXCEPT !.att[e][i] = once.att[e][i]] = once
    BY <1>3 DEF Database
  <2>3. once.att[e][i].status = to
    BY <1>2, <1>5
  <2>4. SaveStatus(once, e, i, to, n, n) = Settled(once, e, to, to)
    BY <2>1, <2>2, <2>3, Zenon DEF SaveStatus
  <2>5. Settled(once, e, to, to) = once
    BY <1>2, <1>3, <1>4, <1>7, <1>8, SettledTwice
  <2> QED BY <2>4, <2>5
<1>10. InLine(once)
  <2>1. CanHave(e, to) /\ to # "declined"
    BY DEF CanHave, Status, ValidStatus, Completed
  <2> QED BY <2>1, UpdateMoves DEF Updated
<1>11. Update(once, e, i, to, n) = ClearOnboardingErrors(once, e, to)
  <2>1. ASSUME NEW x, x = SaveStatus(once, e, i, to, n, n),
               NEW y, y = Update(once, e, i, to, n)
        PROVE  y = ClearOnboardingErrors(x, e, to)
    BY <1>6, <1>10, <2>1, VerdictUpdate
  <2> QED BY <1>9, <2>1
<1>12. ClearOnboardingErrors(once, e, to) = once
  BY <1>2, <1>3, ClearTwice
<1> QED
  BY <1>6, <1>11, <1>12

(* A review that is delivered again, from wherever, does nothing more to   *)
(* the attempts, the credit and the grade.                                 *)
THEOREM RedeliveryInert == ReviewSpec => []RedeliveryChangesNothing
<1>1. ASSUME AttemptsInLine, NEW e \in Exams, NEW i \in Slots, NEW review,
             review.mark \in Mark, i \in Live(db, e),
             NEW once, once = Decided(db, e, i, review)
      PROVE  Decided(once, e, i, review) = once
  <2> DEFINE to == Verdict(e, review)
  <2>1. to \in {"verified", "rejected", "second_review_required", "error"}
    BY <1>1, VerdictIsVerdict, ReviewConstantsAssumption
  <2>2. once = Update(db, e, i, to, FALSE)
    BY <1>1 DEF Decided
  <2>3. Decided(once, e, i, review) =
          IF i \in Live(once, e) THEN Update(once, e, i, to, FALSE) ELSE once
    BY DEF Decided
  <2> HIDE DEF to
  <2>4. ASSUME NEW n \in BOOLEAN, ~ n, NEW x, x = Update(db, e, i, to, n)
        PROVE  i \in Live(x, e) /\ Update(x, e, i, to, n) = x
    BY <1>1, <2>1, <2>4, VerdictTwice DEF AttemptsInLine
  <2>5. i \in Live(once, e) /\ Update(once, e, i, to, FALSE) = once
    BY <2>2, <2>4, Zenon
  <2> QED BY <2>3, <2>5
<1>2. ASSUME NEW mark \in Mark, NEW human \in BOOLEAN
      PROVE  [NoReview EXCEPT !.mark = mark, !.human = human].mark = mark
  <2>1. \A r \in [made : BOOLEAN, mark : Mark, human : BOOLEAN, active : BOOLEAN] :
          [r EXCEPT !.mark = mark, !.human = human].mark = mark
    OBVIOUS
  <2>2. NoReview \in [made : BOOLEAN, mark : Mark, human : BOOLEAN, active : BOOLEAN]
    BY DEF NoReview, Mark
  <2> QED BY <2>1, <2>2
<1>3. AttemptsInLine => RedeliveryChangesNothing
  <2> SUFFICES ASSUME AttemptsInLine, NEW e \in Exams, NEW i \in Slots,
                      NEW mark \in Mark, NEW human \in BOOLEAN, i \in Live(db, e)
               PROVE  LET review == [NoReview EXCEPT !.mark = mark, !.human = human]
                          once   == Decided(db, e, i, review)
                      IN Decided(once, e, i, review) = once
    BY Zenon DEF RedeliveryChangesNothing
  <2> DEFINE review == [NoReview EXCEPT !.mark = mark, !.human = human]
             once   == Decided(db, e, i, review)
  <2>1. review.mark \in Mark
    BY <1>2
  <2> HIDE DEF review
  <2>2. Decided(once, e, i, review) = once
    BY <1>1, <2>1
  <2> QED BY <2>2, Zenon DEF review
<1> QED
  BY <1>3, InLineUnderReview, PTL
=============================================================================
