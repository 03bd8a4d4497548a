SPECIFICATION ClockSpec
CONSTANTS
  final = final
  Exams = {final}
  Dated = {final}
  Kind <- ExamKind
  MaxAttempts = 2
  AllowTimedOut = FALSE
  OverrideOnReject = FALSE
  SupportsOnboarding = FALSE
  RegistrationErrors = {}
  Verdicts = {}
  AdminStatuses = {}
  Minute = 2
  Horizon = 5
  Limit <- OneMinute
  DueDates = {4}
  Allowances = {1}
  Multipliers = {4}
CHECK_DEADLOCK FALSE
INVARIANTS
  NoTimeGained
  OverByDueDate
