------------------------- MODULE MCOnboardingPanels -------------------------
(* The onboarding exam of a course, for model checking OnboardingPanels.    *)
EXTENDS OnboardingPanels, TLC

CONSTANT practice

ExamKind == [e \in Exams |-> "practice"]

NoRequirements == << >>
=============================================================================
