SPECIFICATION StudentFairSpec
CONSTANTS
  final = final
  midterm = midterm
  quiz = quiz
  Exams = {quiz}
  Dated = {quiz}
  Kind <- ExamKind
  MaxAttempts = 2
  AllowTimedOut = TRUE
  OverrideOnReject = FALSE
  SupportsOnboarding = FALSE
  RegistrationErrors = {}
  Verdicts = {}
  AdminStatuses = {"rejected", "timed_out", "started"}
  Requirements <- InOrder
  HideAfterDue = {}
  ContentViewable = FALSE
  Visits = {{}, {"grace"}}
CHECK_DEADLOCK FALSE
INVARIANTS
  ContentInTime
  SubmittedPageRenders
PROPERTIES
  TimeRunsOut
  ImplementsSitting
