SPECIFICATION PageFairSpec
CONSTANTS
  final = final
  Exams = {final}
  Dated = {}
  Kind <- ExamKind
  MaxAttempts = 1
  AllowTimedOut = FALSE
  OverrideOnReject = FALSE
  SupportsOnboarding = FALSE
  RegistrationErrors = {}
  Verdicts = {}
  AdminStatuses = {}
  Requirements <- NoRequirements
  HideAfterDue = {}
  ContentViewable = TRUE
  Visits = {{}}
  Exam = final
  Tabs = {"a"}
  Length = 3
  Grace = 1
  PollInterval = 3
  PingInterval = 2
  MaxCalls = 3
CHECK_DEADLOCK FALSE
INVARIANTS
  RecordedThroughout
  LastPollInTime
PROPERTIES
  PageEndsAttempt
