SPECIFICATION RaceSpec
CONSTANTS
  final = final
  w1 = w1
  w2 = w2
  Workers = {w1, w2}
  Racing = {"started", "ready_to_submit", "submitted", "declined", "error", "verified",
            "rejected"}
  MaxOverlaps = 1
  Exams = {final}
  Dated = {}
  Kind <- ExamKind
  MaxAttempts = 1
  AllowTimedOut = FALSE
  OverrideOnReject = TRUE
  SupportsOnboarding = FALSE
  RegistrationErrors = {}
  Verdicts = {}
  AdminStatuses = {}
SYMMETRY Symmetry
CHECK_DEADLOCK FALSE
INVARIANTS
  RaceTypeOK
  CopiesSound
PROPERTY RepeatedIsOnce
