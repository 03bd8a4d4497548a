SPECIFICATION RaceSpec
CONSTANTS
  final = final
  w1 = w1
  w2 = w2
  Workers = {w1, w2}
  Racing = {"started", "error", "verified"}
  MaxOverlaps = 1
  Exams = {final}
  Dated = {}
  Kind <- ExamKind
  MaxAttempts = 2
  AllowTimedOut = FALSE
  OverrideOnReject = TRUE
  SupportsOnboarding = FALSE
  RegistrationErrors = {}
  Verdicts = {}
  AdminStatuses = {}
SYMMETRY Symmetry
CHECK_DEADLOCK FALSE
PROPERTIES
  VerifiersSettleCredit
