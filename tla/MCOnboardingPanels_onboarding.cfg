SPECIFICATION PanelSpec
CONSTANTS
  practice = practice
  Onboarding = practice
  Exams = {practice}
  Dated = {}
  Kind <- ExamKind
  MaxAttempts = 2
  AllowTimedOut = FALSE
  OverrideOnReject = TRUE
  SupportsOnboarding = TRUE
  RegistrationErrors = {}
  Verdicts = {"verified"}
  AdminStatuses = {}
  Requirements <- NoRequirements
  HideAfterDue = {}
  ContentViewable = TRUE
  Visits = {{}}
CHECK_DEADLOCK FALSE
INVARIANTS
  PanelsAgree
  NeverBlank
