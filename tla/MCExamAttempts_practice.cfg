SPECIFICATION Spec
CONSTANTS
  final = final
  practice = practice
  Exams = {final, practice}
  Dated = {}
  Kind <- ExamKind
  MaxAttempts = 2
  AllowTimedOut = FALSE
  OverrideOnReject = TRUE
  SupportsOnboarding = TRUE
  RegistrationErrors = {"onboarding_pending"}
  Verdicts = {}
  AdminStatuses = {"onboarding_failed"}
CHECK_DEADLOCK FALSE
CONSTRAINTS
  TwoRows
  TimeSuffices
PROPERTY
  ImplementsSitting
