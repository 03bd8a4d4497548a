-------------------------- MODULE MCReviewWorkflow --------------------------
(* Small instances of ReviewWorkflow: one proctored exam.                  *)
EXTENDS ReviewWorkflow, TLC

CONSTANTS final

ExamKind == [e \in Exams |-> "proctored"]

(* Bounds.  One attempt is followed wherever it goes, its review and the   *)
(* command's batch with it; once there is a second one, only the statuses  *)
(* of attempts that are interrupted, resumed and decided.                  *)
ReviewsMade(r) == {<<e, i>> \in Exams \X Slots : r[e][i].made}

Followed == {"created", "started", "error", "verified", "rejected"}

TwoAttempts ==
  \/ 2 \in Unused(db, final)
  \/ /\ Cardinality(ReviewsMade(reviews)) <= 1
     /\ ReviewsMade(batch) = {}
     /\ \A i \in Slots : /\ db.att[final][i].status \in Followed
                         /\ ~ db.att[final][i].expired
=============================================================================
