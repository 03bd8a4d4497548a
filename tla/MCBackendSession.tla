-------------------------- MODULE MCBackendSession --------------------------
(* One proctored exam with a REST backend, for model checking               *)
(* BackendSession.                                                          *)
EXTENDS BackendSession, TLC

CONSTANT final

(* Bound on the attempts that service and platform do not agree on.         *)
OneAstray == Cardinality(astray) <= 1

ExamKind == [e \in Exams |-> "proctored"]
=============================================================================
