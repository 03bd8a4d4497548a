SPECIFICATION SessionSpec
CONSTANTS
  final = final
  Exams = {final}
  Exam = final
  Dated = {}
  Kind <- ExamKind
  MaxAttempts = 2
  AllowTimedOut = FALSE
  OverrideOnReject = FALSE
  SupportsOnboarding = FALSE
  RegistrationErrors = {}
  Verdicts = {"verified"}
  AdminStatuses = {"timed_out"}
CHECK_DEADLOCK FALSE
CONSTRAINT OneAstray
INVARIANTS
  SessionAgrees
  NoGhostSession
  SessionsFit
PROPERTY StartToldOnce
