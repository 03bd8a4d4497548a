--------------------------- MODULE MCAttemptRace ---------------------------
(* One proctored exam with overlapping requests, for model checking.       *)
EXTENDS AttemptRace, TLC

CONSTANTS final, w1, w2

ExamKind == [e \in {final} |-> "proctored"]

(* Which worker serves a request does not matter.                          *)
Symmetry == Permutations(Workers)
=============================================================================
