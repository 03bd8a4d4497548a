--------------------------- MODULE MCStudentView ---------------------------
(* Small courses for model checking StudentView: which exams there are,    *)
(* what kind each is, and how they are visited.                            *)
EXTENDS StudentView, TLC

CONSTANTS final, midterm, quiz

ExamKind == [e \in Exams |-> IF e = quiz THEN "timed" ELSE "proctored"]

(* The midterm has to be passed before the final.                          *)
InOrder == IF quiz \in Exams THEN << >> ELSE <<midterm, final>>

(* Bound on the rows in use at all exams together.                         *)
RowsUsed == UNION {{<<e, i>> : i \in Slots \ Unused(db, e)} : e \in Exams}

TwoRows == Cardinality(RowsUsed) <= 2
=============================================================================
