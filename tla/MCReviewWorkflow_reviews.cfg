SPECIFICATION ReviewSpec
CONSTANTS
  final = final
  Exams = {final}
  Dated = {}
  Kind <- ExamKind
  MaxAttempts = 2
  AllowTimedOut = FALSE
  OverrideOnReject = TRUE
  SupportsOnboarding = FALSE
  RegistrationErrors = {}
  Verdicts = {"verified", "rejected", "second_review_required", "error"}
  AdminStatuses = {}
  AllowReviewUpdates = TRUE
  SecondReviews = TRUE
CONSTRAINT TwoAttempts
CHECK_DEADLOCK FALSE
INVARIANTS
  ReviewTypeOK
  RedeliveryChangesNothing
  LiveReviewIsActive
PROPERTIES
  ImplementsAttempts
  
  ArchivedReviewIsInert
