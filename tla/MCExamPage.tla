----------------------------- MODULE MCExamPage -----------------------------
(* One proctored exam of a few seconds, for model checking ExamPage.        *)
EXTENDS ExamPage, TLC

CONSTANT final

ExamKind == [e \in Exams |-> "proctored"]

NoRequirements == << >>
=============================================================================
