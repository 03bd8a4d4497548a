SPECIFICATION StudentSpec
CONSTANTS
  final = final
  midterm = midterm
  quiz = quiz
  Exams = {final, midterm}
  Dated = {}
  Kind <- ExamKind
  MaxAttempts = 2
  AllowTimedOut = FALSE
  OverrideOnReject = TRUE
  SupportsOnboarding = FALSE
  RegistrationErrors = {}
  Verdicts = {"verified"}
  AdminStatuses = {}
  Requirements <- InOrder
  HideAfterDue = {}
  ContentViewable = TRUE
  Visits = {{}, {"not_admitted"}, {"inactive_account"}}
CHECK_DEADLOCK FALSE
CONSTRAINT TwoRows
INVARIANTS
  PageIsStable
  OfferStands
  
PROPERTIES
  
  CompletedElsewhereKept
