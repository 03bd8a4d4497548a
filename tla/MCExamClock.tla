---------------------------- MODULE MCExamClock ----------------------------
(* One proctored exam and a clock of two seconds to the minute, for model  *)
(* checking ExamClock.                                                     *)
EXTENDS ExamClock, TLC

CONSTANT final

ExamKind == [e \in Exams |-> "proctored"]

OneMinute == [e \in Exams |-> 1]
=============================================================================
