--------------------------- MODULE MCExamAttempts ---------------------------
(* Small courses for model checking ExamAttempts: a proctored exam, and    *)
(* the onboarding exam of the course.                                      *)
EXTENDS ExamAttempts, TLC

CONSTANTS final, practice

ExamKind ==
  [e \in Exams |-> IF e = practice THEN "practice" ELSE "proctored"]

(* Bound on the rows in use at all exams together.                         *)
RowsUsed == UNION {{<<e, i>> : i \in Slots \ Unused(db, e)} : e \in Exams}

TwoRows == Cardinality(RowsUsed) <= 2

(* Bound on time: no attempt runs out of it.                               *)
TimeSuffices == \A e \in Exams, i \in Slots : ~db.att[e][i].expired
=============================================================================
