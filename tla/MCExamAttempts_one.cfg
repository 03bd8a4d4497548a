SPECIFICATION Spec
CONSTANTS
  final = final
  practice = practice
  Exams = {final}
  Dated = {final}
  Kind <- ExamKind
  MaxAttempts = 2
  AllowTimedOut = FALSE
  OverrideOnReject = TRUE
  SupportsOnboarding = FALSE
  RegistrationErrors = {}
  Verdicts = {"verified", "rejected", "second_review_required"}
  AdminStatuses = {"timed_out", "started"}
CHECK_DEADLOCK FALSE
INVARIANTS
  TypeOK
  RowsSound
  ResumeFlagsExclusive
  SupersededIsResumed
  OneOpenAttempt
  ErrorIsRecoverable
  SubmittedStaysComplete
  CreditHonoursAttempts
PROPERTIES
  VerifiedSettlesCredit
