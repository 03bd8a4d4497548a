# A verification project for edx-proctoring

edx-proctoring is the Django application behind timed and proctored exams in
Open edX: an LMS and Studio plug-in that keeps the attempts of learners at
special exams, talks to a proctoring service (the *backend*), tells the credit,
grades and certificate services of the LMS about the outcome, and serves the
pages and REST endpoints of learners and staff.  This directory models it in
TLA+, checks the models with TLC and proves theorems about them with TLAPS.
Paths below are relative to the repository root, given here as `src/`.

## 1. The system

| component | code | state | operations |
|---|---|---|---|
| attempt statuses | `statuses.py`, `utils.py` | none | classes of statuses, legal transitions |
| exam attempts | `api.py`, `views.py`, `callbacks.py`, `models.py` | one row per attempt: status, times, resume flags; a history table of deleted rows | create, start, stop, submit, error, decline (with a cascade), resume, reset practice, remove, time out on read |
| staff tools | `admin.py`, `management/commands/` | same rows | set a status, re-trigger one, delete rows |
| reviews | `views.py` (review callbacks), `handlers.py`, `admin.py`, `models.py` | one review per attempt code, its history, its comments | receive a review, finish it, review by hand, archive with the attempt |
| proctoring backends | `backends/*.py` | sessions at an external service | register exam and attempt, start, stop, mark erroneous, remove |
| exam registry, review policies | `api.py`, `models.py`, `handlers.py`, `signals.py` | exams, policies, external ids | create and update exams, register them with the backend from signals |
| allowances | `api.py`, `models.py` | allowance per user, exam and key, and their history | add, remove, in bulk |
| allowed time | `api.py` | computed | minutes allowed, time left, due dates |
| prerequisites, student view | `api.py` | computed | which page a learner sees |
| onboarding status, dashboards | `views.py`, `api.py`, browser code | computed | aggregation for learners and staff |
| browser timer and worker | `static/proctoring/js/` | timer, pending worker promises | poll, ping, start and stop of the proctoring software |
| retirement | `views.py` | same rows | clear personal data |

A request of a learner or of staff is a REST handler of `views.py`, which calls
`api.py`; `api.py` saves model rows, and Django signals (`handlers.py`) archive
them, call the backend and re-trigger statuses.  The proctoring service calls
back (`ExamReadyCallback`, the review callbacks, `start_exam_callback`).  There
is no transaction and no lock anywhere around these: a handler that raises keeps
what it had saved, and two requests about one attempt interleave at every query.
Nothing on the server ends an attempt whose time is over; a read of it through
the api does (`_check_for_attempt_timeout`), inside whatever handler reads it.

What makes the system correct, component by component:

- *attempts*: an attempt that is complete stays complete; a second attempt exists
  only to resume the first; the resume flags are successive stages; the time of
  a started attempt runs out; what the LMS was told agrees with the attempts; a
  decline cascades to the other proctored exams and touches nothing complete.
- *reviews*: a review decides its attempt once, redelivery changes nothing, a
  late or archived review never overrules a newer attempt.
- *backends*: the service knows of every registered attempt in the state it is
  in, is told of a start once, and its sessions end when attempts end.
- *time*: interruptions gain no time, nothing runs past the due date.
- *prerequisites, student view*: page, request and course outline, which have
  conditions of their own, say the same; loading a page again changes nothing.
- *onboarding*: the learner and the course team are told the same.
- *browser*: no exam without the proctoring application; an expired timer, and
  only an expired one, ends the exam.
- *registry, policies, allowances*: the backend ends up with the latest exam; at
  most one allowance per user, exam and key.

The hazards behind these, each at its line, are in `PROJECT.json`.

## 2. Modules

| module | what it is |
|---|---|
| `AttemptStatus` | `statuses.py`, and the transition rules that look at two statuses only |
| `ExamAttempts` | all attempts of one learner in one course, one action per request, callback or staff action |
| `ExamSitting` | abstract: what the attempts at one exam amount to, a sitting that is opened once |
| `ExamAttempts_proofs` | theorems about `ExamAttempts`: what holds of every row, what holds of the attempts at an exam together, and that they implement `ExamSitting` |
| `ReviewWorkflow` | extends `ExamAttempts` with the reviews of the attempts: callbacks, admin, signal handlers, bulk commands |
| `ReviewWorkflow_proofs` | theorems about `ReviewWorkflow` |
| `AttemptRace` | overlapping requests on the attempts at one exam, a step per query |
| `AttemptRace_proofs` | theorems about `AttemptRace` |
| `StudentView` | extends `ExamAttempts` with what a learner finds in place of an exam, and what a visit writes |
| `StudentView_proofs` | theorems about `StudentView` |
| `OnboardingPanels` | extends `StudentView` with the order of the attempts by modification, and what two panels say of onboarding |
| `OnboardingPanels_proofs` | theorems about `OnboardingPanels` |
| `ExamClock` | extends `ExamAttempts` with time by the second: allowances, due dates, time left |
| `ExamClock_proofs` | theorems about `ExamClock` |
| `ExamPage` | extends `StudentView` with the browser: tabs, timer, proctoring application, calls under way |
| `ExamPage_proofs` | theorems about `ExamPage` |
| `BackendSession` | extends `ExamAttempts` with the calls its handlers make to a REST backend, and their loss |
| `BackendSession_proofs` | theorems about `BackendSession` |
| `MC...` | the small courses for TLC, one for each of the modules with behaviours |

`ExamAttempts` is the hub.  Every module that extends it adds variables, reuses
its handlers as they are (or, `BackendSession`, writes the same handlers as runs
of calls, built from the operators of `ExamAttempts`), and leaves the attempts to
behave as they do there.

### ExamAttempts

`db.att[e][i]` is the i-th attempt created at exam `e`.  A row is `unused`,
`live`, or `archived` (deleted, and kept in the history table).  Its fields are
those of `ProctoredExamStudentAttempt` that decide anything: `status`,
`proctored` (`taking_as_proctored`), `resumable` (`is_resumable`), `ready`
(`ready_to_resume`), `resumed`, and the times as facts: `started` (`started_at`
is set), `completed` (`completed_at` is set), `expired` (now is past
`started_at` plus the allowed time).  `db.credit[e]` is the credit requirement
status the LMS was last sent for the exam, `db.override[e]` that its grade is
overridden and its certificate invalidated.  `pastDue` are the exams whose due
date has passed.

One learner is enough: every query of `api.py` filters on the user.

The operators mirror the functions of `api.py`: `Read` is
`_check_for_attempt_timeout`, `Update` is `update_attempt_status`, with
`IsLegal`, `CanUpdateCreditGradesAndEmail`, `Cascade`, `ClearOnboardingErrors`
as its parts, `CreateAttempt`, `StartLatest`, `PracticeReset`, `Removed` the
functions of the same names.  Each takes the database a handler finds and
returns the one it leaves, so the whole handler is one action, errors included:
where the code raises half way, the operator returns what had been saved.
Actions are grouped as the code's callers are: `LearnerNext` (REST calls of the
exam page), `StaffNext` (dashboard, admin, management commands), `BackendNext`
(callbacks of the proctoring service), `ClockNext` (time), `ReviewNext` (what a
review does to an attempt: any verdict of `Verdicts` at any time, so that the
attempts can be checked and proved without the reviews).  `registered` is that
`external_id` is set: the proctoring service finds an attempt by it, and a
decline clears it.

Abstracted: e-mails, software secure's own client, attempt codes, names of
learners.  Backend calls that fail after the status has been saved leave the
database as it is, so they need no step here.  `Post` stops at the model's
bound on rows, which is stated in its guard (`RoomToCreate`, `RoomToDecline`).

### ExamSitting

The attempts at a timed or proctored exam form one *sitting*: `none`, `open`,
`interrupted` (can be released), `released` (staff have marked it ready to
resume), `closed`.  The only ways to `open` are from `none` and `released`.
`ExamAttempts` implements it under the mapping `SittingStage`: the cascade, the
clearing of onboarding errors and the time-outs inside reads included.  An
interrupted attempt may be closed by staff or a decline, a closed one may be put
in error and so become interrupted; neither reopens it.  `Restart` is a step that
looks like none of these: when the end of a practice exam that is declined clears
the onboarding errors of another exam, the cascade of the same decline finds that
exam without an attempt, and declines it with a new one.  If an earlier attempt
had been released, the sitting goes from released to closed in one step.  The
proof of the refinement found it; the `onboarding` run has had a status for it
since (`AdminStatuses`).

### ReviewWorkflow

`reviews[e][i]` is the review of the i-th attempt at `e`; it is found by the
attempt code and outlives the attempt.  `mark` is what the reviewers say, as far
as `finish_review_workflow` tells it apart (`is_passing`, `not_reviewed`, any
other), `human` that `reviewed_by` is set, `active` is `is_attempt_active`.
`batch` is what `update_attempt_status_from_review` has loaded and not saved yet.

The signals are part of the actions they fire in: whoever saves a review decides
its attempt (`Decided`, the post_save handler), and whatever deletes attempts
marks their reviews (`Kept`, the post_delete handler, which saves the review and
so fires the first handler; that one does nothing, since the attempt is archived
by then).  `Receive` is the authenticated callback, which finds the attempt by a
read through the api; `ReceiveAnonymous` the callback by attempt code, which
finds archived attempts too; `AdminReview` and `AdminDeleteReview` the Django
admin; `Retire` the part of the retirement endpoint that saves reviews;
`LoadBatch`/`SaveFromBatch` and `SetIsAttemptActive` the commands.  All other
actions are those of `ExamAttempts` (`AttemptStep`).

`ExamAttempts` is the abstract specification here: `ImplementsAttempts` says that
with `reviews` and `batch` hidden every step is a step of it.

### AttemptRace

`ExamAttempts` runs a request alone; `AttemptRace` takes it apart.  `work[w]` is
the request a process serves: the steps it has left (`todo`), the status it
found, and its copy of the row, which `Write` saves as a whole, as
`Model.save()` does.  `Steps` is the order of the code: load the row and check
the transition (`Load`), the pre_save handler (`Look`, which reads the row again
and gives up if it is gone), the save (`Write`, which inserts a row that was
deleted in the meantime), the question whether the attempt may change credit and
grade (`Judge`), and one step for each call of a service.  `AskCreate` and
`Insert` are the two ends of `create_exam_attempt`.  The check a view makes
(`Checked`) is at the beginning of a request, the one `update_attempt_status`
makes (`Refuses`) at its load.

`since` is a history variable: which requests have begun since none was running,
and the database at that time, as long as these are repetitions of one request
or verifications.  `RepeatedIsOnce` compares with what the operators of
`ExamAttempts` make of the same request, so it also checks that the two modules
agree on a request that runs alone.

### StudentView

`PageOf(d, e, v)` is the page `get_student_view` picks for exam `e` on a visit
under the circumstances `v`: no permission for proctored exams, an inactive
account, the wrong browser, a result already acknowledged, the grace period
after the due date.  `TimedPage`, `PracticePage`, `ProctoredPage` are the
functions of `api.py` for the kinds of exams, `RequiredBefore`, `Prerequisites`
the prerequisites among the credit requirements.  `content` stands for "no page
in place of the exam", `raises` for a page that cannot be computed.  `Opened` is
what the visit writes: a time-out in its read, or an exam declined because a
prerequisite was (`AutoDeclined`, a creation and a decline with its cascade).
`OpenInFrontend` is the request of the micro-frontend's page (`views.py`), which
reads the running attempt and the exam's, and declines without a look at the due
date.  `Outline` is `get_attempt_status_summary`.  `RoomToOpen` is the model's bound on
rows once more.  A practice exam past its due date is worked in to the end of
its time: `_get_practice_exam_view` looks at the date only where there is no
attempt (api.py:2655), and `ContentInTime` says as much.  Left out: the
rendering, and the exam a visit creates when it finds none.

### OnboardingPanels

`recent` is the onboarding attempts in the order of `modified`, which follows
from which rows a step saves (`Modified`); `Resave` is a save that changes
nothing else.  `Kept`, the filter of a query, is a fold, which can be proved
about.  `LearnerPanel` is `get_onboarding_attempt_data_for_learner`,
`InstructorPanel` the view of the dashboard.  `approved` stands for a verified
attempt in another course that has not lapsed.  The profile api of the backend,
which replaces both answers where it is switched on, is left out.

### ExamClock

`times` holds `started_at`, `allowed_time_limit_mins` and
`time_remaining_seconds` of each attempt, `due` and `extra` the due dates and
the additional time, `now` the clock.  `MinsFor` is `_calculate_allowed_mins`,
in whole minutes and clipped to the due date; `TimeRemaining` the integer that
is stored at an error, which loses the last fraction of a second; `Rounded`
Python's rounding of a bulk multiplier.  `Tick` sets the `expired` and `pastDue`
of `ExamAttempts`, which are free there.  `StartClock` takes the time stored with
the attempt that is current after the read, as `start_exam_attempt` does; in a
practice exam this need not be the one the request names.  Only requests that
set or use times are here; the others change none of its variables.  `run`, `most` and `advanced`
are history, `afresh` marks an attempt that resumes one with no time stored, and
those that resume it in turn: a zero counts as no value, so it gets the whole time
again, and what is stored when it is interrupted comes from that time.

### ExamPage

One attempt, the tabs a learner has open, `left` seconds on the server, the
state of the proctoring application (`app`), and in `calls` the prompts to the
application, the requests to the server, and the replies, in no order.  A tab
counts `secs` down to the end of the grace period, asks the server at each poll
interval and the application in the middle of each ping interval, and once more
when its time is over (`last poll`).  The handlers on the server are those of
`ExamAttempts`; the page shown after a reload is `PageOf`.  Calls are lost,
prompts fail, pages are closed and loaded again, tabs miss ticks.  `PageAssumption`
has the poll interval longer than the grace period, as the defaults are: a poll
in the grace period would set the seconds of the timer again.  An odd ping
interval never pings, in the code as in the model.  The waffle flag that lets a
failed ping pass is off.

### BackendSession

A handler is a *run*: the database it leaves and the calls it makes, each with
the database at that point.  `Perform` lets the run go on to its end or stop at
a call that raises, and lets the service hear any of the calls or miss them;
nothing is called a second time.  `Notice` is which statuses the service is told
of; `session` is what it was last told; `astray` are the attempts about which a
call got lost, from which nothing is expected but that they harm no other.  One
proctored exam, so that a decline has no cascade here, and no practice reset.
Software Secure is told of nothing after a registration, and is left out.

## 3. What the runs check

| run | instance | checks |
|---|---|---|
| `one_exam` | one proctored exam with due date, two attempts | rows, flags, supersession, one open attempt, credit |
| `onboarding` | a proctored and an onboarding exam, two rows in use | the sitting while onboarding errors are cleared and attempts reset |
| `two_exams` | two proctored exams, the first a prerequisite of the second, two rows in use | the cascade of a decline; page, request and outline agree |
| `time_runs_out` | a timed exam with due date, two attempts, fairness | a started attempt does not stay open; content in time; a submitted exam can be shown; the sitting |
| `onboarding_panels` | an onboarding exam, two attempts | the two panels agree, and have a word for every state |
| `reviews` | two attempts, a review, updates allowed | types, redelivery, rejection by a person, archived reviews, the implementation of `ExamAttempts` |
| `exam_clock` | a proctored exam of one minute, two attempts, five seconds | no time gained, over by the due date |
| `exam_page` | one attempt of three seconds, one tab, three calls, fairness | no exam without the application; the last poll in time; an open page ends the attempt |
| `backend_session` | two attempts, any calls lost for one of them at a time | service and platform agree, one start, no session left behind; the inductive invariant of the proofs, the credit with it |
| `race` | one attempt, two processes, requests for seven statuses | types, sound copies, a repeated request has the effect of one |
| `race_resumed` | two attempts (error, release, resumption, verification), two processes | concurrent verifications settle the credit |
| `multipleOnlyToResume` | two overlapping creations | a statement of a docstring that the code does not keep |

Each property is stated in words above its definition.

Bounds.  `MaxAttempts = 2` gives the first attempt and the one that follows it;
the rules on several attempts (`can_update_credit_grades_and_email`) tell one
attempt from several and the current from a past one, so two show every case of
them but the third rejection.  `TwoRows` bounds the rows in use at two exams
together: a decline with its cascade takes one at each, a resumed attempt with
nothing at the other exam takes two at one.  In `onboarding` no attempt runs out of time
(`TimeSuffices`); the other runs cover that.  `AdminStatuses` are the statuses
staff set that no request sets (`onboarding` has one of the onboarding errors,
which its backend does not report for a released attempt); `Verdicts` are what reviews make of an attempt,
kept small where reviews are not the point.  `TwoAttempts` lets `reviews` follow
one attempt, its review and the command's batch anywhere, and two attempts,
with one review between them and no batch, along the statuses from `created` to
a verdict: reviews do not know of each other, and the batch is saved one review
at a time.  `Visits` of a run are the circumstances its exams react to.

A minute of two seconds in `exam_clock` keeps what the code rounds (to minutes,
and off the last second); `Horizon`, due date and allowance let an attempt be
started, interrupted, resumed and run out, before, at and after the date.  In
`exam_page` three seconds with a grace period of one hold a poll, a ping and an
end; three calls under way are a prompt, a request and a reply that overtake one
another, also from a page that has gone.  One tab is open at a time; its page
may be closed and opened with its calls still under way, which is what a second
tab does to the first but for its timer.  `OneAstray`: lost calls about one
attempt, while the other one is expected to be in order.  `MaxOverlaps = 1`: in
a behaviour one request begins while another one runs, at any of its steps, and
any number of requests come before and after; two requests are what it takes for
a stale copy, a double creation or a lost count.  The processes are
interchangeable, which the symmetry of these runs uses.  Deadlock is not
checked: with every slot used up and every attempt removed the model has no row
left, and a clock at its horizon stands still; both are bounds and not the
program.

Fairness.  `time_runs_out` assumes that time passes (`Expire`) and that the exam
page, which stays open, polls the current attempt
(`static/proctoring/js/views/proctored_exam_view.js`, every 60 s); both are
weak fairness.  The code gives no other guarantee: a page that is closed polls
no more, and an attempt then stays `started` until somebody reads it.
`exam_page` derives that much from the page: it assumes that seconds go by in
the tabs whose timer runs (`AllTick`) and that the server gets the last poll of
a page (`LastPollServed`); every other call may be lost for ever.  Without
`LastPollServed` the property is false, since the page stops its timer with that
poll and sends nothing more.

### Where code and words disagree

`multipleOnlyToResume` is a run: two overlapping requests to create the first
attempt make two, and the docstring (api.py:1063) says only resuming makes a
second.  `PROJECT.json`, "findings", quotes it.

Others were met while modelling.  No run states them; the model follows the code:

- the bulk command saves reviews as they were when it started, over what was
  decided in between (update_attempt_status_from_review.py:63);
- a rejected attempt that becomes verified keeps the grade override when another
  attempt is not verified yet, and nothing removes it later (api.py:1621);
- a stop that overlaps a submission reopens the attempt and clears its
  completion time: `update_attempt_status` saves the row as it loaded it
  (api.py:1484), though completed statuses are final (statuses.py:85);
- a past attempt can be declined by its id, and the credit follows it (the
  comment at api.py:1351 says only the most recent one can be);
- a reset that fails half way leaves `onboarding_reset` as the latest attempt
  (statuses.py:240), and the learner's panel then says so (views.py:1072 says it
  should not); `PanelsAgree` excepts exactly this state;
- an attempt that was interrupted with no time stored starts afresh; so does one
  interrupted in its last second (`NoTimeGained` excepts it);
- the micro-frontend's request declines an exam past its due date for a declined
  prerequisite, the student view does not (`PageIsStable` says "before the due
  date");
- past the due date, and for a timed exam created and not started, a page offers
  what the request refuses (`OfferStands` leaves these out);
- an attempt whose time is over as it starts is told to the service as submitted
  and then as started (`StartToldOnce` excepts it);
- a declined attempt has lost its external id before the service could be told
  of anything (`NoGhostSession` excepts it through `astray`);
- `resumed` is set before the attempt that resumes exists (models.py:420); the
  comment above the cascade (api.py:1532) speaks of rejections, the code
  cascades for `declined` only; `completed_at` (models.py:373) is not set by a
  time-out that staff set; a submitted attempt put in error becomes resumable
  (models.py:410); a submitted practice attempt that was reset can be worked in
  again through its old id (statuses.py:86); a review made after its attempt was
  archived is marked active (CHANGELOG.rst:811).

## 4. What is proved

The theorems hold for every set of exams, any number of attempts and any settings
within the assumptions of the modules (`ConstantsAssumption`, `ViewAssumption`,
`OnboardingAssumption`, `ClockAssumption`, `PageAssumption`, `RaceAssumption`,
`SessionAssumption`, and those on the settings of reviews), of which TLC evaluates each in its runs.

**Rows** (`ExamAttempts_proofs`).  `RowsAlwaysSound`: `Spec => []RowsSound`.
`RowsSound` is inductive: each row has its type, the flags exclude each other in
order, an attempt in error is resumable or was, and outside practice a row with a
completion time has a completed status and never `onboarding_reset` or `expired`,
and a row that is open neither waits to be released nor to be resumed.
`SubmittedStaysComplete` alone is not inductive, because the rule on transitions
guards completed statuses and says nothing of `onboarding_reset`, which is
neither complete nor incomplete.  Consequences: `TypeCorrect`, `FlagsExclusive`,
`ErrorsRecoverable`, `SubmittedComplete`.  The argument follows the code, one
lemma per operator, from `SavedSound` (one row, one legal change of status)
through `ReadSound`, `UpdateSound`, `CascadeSound` to the handlers.  The delicate
one is `UpdateSound`: the code checks the transition first, then computes the
allowed time, which reads the current attempt and may time it out, and only then
saves; the lemma needs that this read leaves the status of the attempt being
saved alone.

**The attempts at an exam** (also `ExamAttempts_proofs`).
`AlwaysInLine` proves the invariant `AttemptsInLine`: rows are sound, slots are
used in their order, outside practice every attempt but the last has been
resumed, and a satisfied credit requirement has no attempt against it.  None of
these is inductive alone: that an attempt is the last one is a fact about all
rows, and whether an update may touch the credit depends on the other attempts
(`can_update_credit_grades_and_email`).  From it follow `SupersessionHolds`,
`OneOpenAttemptHolds`, `CreditHonoured`; and, as properties of steps,
`VerificationSettles`, `CompletedKept`, `DeclineAlwaysCascades`.  The proofs go
up in layers.  `RowMove` says what a step may make of one row, `Moved` of all.
`Updated` says what `update_attempt_status` does with everything it calls,
`Created` what `create_exam_attempt` does; their proofs go through the operators
in the order of the code.  `Handled(d, d1, e, to)` says what any handler does
that names exam `e` and asks for status `to`, and there is one lemma per handler.
The theorems only use `Handled`.

`AttemptsImplementSitting` is the refinement: `Spec => ImplementsSitting`.  A
handled step moves each sitting along its course, begins, replaces or releases
an attempt (`SatAt`), and each of these is a step of `ExamSitting` or a stutter.

**Reviews** (`ReviewWorkflow_proofs`).  `ReviewsImplementAttempts`:
`ReviewSpec => Spec`, by step simulation; its invariant is the type of the
reviews (`ReviewTypeCorrect`) and that a timed exam has none, without which the
admin could decide an attempt that no service reviews.  So the theorems on rows,
on the attempts and on the sitting hold with reviews (`RowsSoundUnderReview`,
`InLineUnderReview`, `ReviewsImplementSitting`).  `ArchivedReviewInert` and
`ReviewsStand`: each action writes one review, and `WritesDoes` says what that
leaves alone.  `LiveReviewsActive` needs more than it says: a review is never
made before its attempt, and the batch, which is saved later, must fit the
attempts as well (`Followed`); that slots are not used again makes this
inductive.  `RejectionsByHuman` follows each handler to show that none but a
verdict rejects; it assumes that staff do not set `rejected` by hand, which the
Django admin lets them.  `RedeliveryInert`: to decide an attempt twice is to
decide it once.  Its heart is that an update that is not refused leaves nothing
for the same update to do: the credit, the grade, the flags and the errors of
onboarding are as it would set them.

The attempt that is rejected was there before and after the step: an attempt
that is removed in the step by which its review arrives is not counted
(`RejectedByHuman`).

**Pages** (`StudentView_proofs`).  `VisitsKeepInLine`: a visit is handled as the
requests are, also when it declines an exam.  `PageAlwaysStable`: a read leaves
its attempt not overdue, a declined exam leaves an attempt, so a second visit
finds nothing to do.  `ContentAlwaysInTime` and `OffersAlwaysStand` compare the
conditions of the pages with those of the requests, on the database that the
visit leaves.

`SubmittedAlwaysRenders` and `OutlineAlwaysAgrees` need to know which statuses and
flags occur together, which depends on the settings of the site: `RowTells`
(`ExamAttempts_proofs`) says that `timed_out` is a status only where the site keeps
time-outs, that a submitted attempt has its time of completion, and that an
onboarding error is one that registration answered and never waits to be resumed.
The second half of it is a matter of what staff do, and the hypotheses say so:
`TimeOutsKept` (staff do not set `timed_out` on a site that stores it as
`submitted`; that stamps no time, and `SubmittedPageRenders` fails) and
`ErrorsRegistered` (staff do not set onboarding errors).  `OutlineAlwaysAgrees`
assumes as well that the site does not keep time-outs and that a service that
answers onboarding errors is used in a course with an onboarding exam; without
the one or the other TLC finds a status of which the page of a proctored exam
cannot be computed.

**Onboarding** (`OnboardingPanels_proofs`).  The two panels go through the list
of the attempts, each with a loop of its own.  A loop over a list is a recursive
function on the sets of positions (`Loops`); that there is one, and that its
values depend on the positions alone (`LoopsExist`, `LoopsAgree`, both in
`ExamAttempts_proofs`), is shown by `SubsetInduction` once, and what each loop computes (`KeptKeeps`, `RelevantIs`)
by the same induction.  `PanelsAlwaysAgree` (`PanelsAgree`) then compares the two
answers for an arbitrary list; nothing is needed of the order.  The list itself is
the inductive part (`PanelInitList`, `PanelNextList`): the rows that a step saves
go to the front, each once, and the ones that are left are kept, so that it
always holds exactly the live attempts (`PanelTypeCorrect`).  `PanelNeverBlank`
(`NeverBlank`) is about the statuses an onboarding attempt can have.  Its invariant
`Worded` says that a practice attempt that is declined is not taken as proctored
any more, so that no panel lists it, and that none is `eligible`.  The hypotheses
say when: the site stores time-outs as submissions, and staff do not set
`eligible`, which no request gives to an attempt; for that status and for `timed_out`
the dashboard has no word.

**Time** (`ExamClock_proofs`).  `NoneRunsWhenOver`: `OverByDueDate`.  A row is
*ticking* when it has been started and its time is not over.  The invariant
`ClockInv` says that what ticks ends after now and, unless the date was brought
forward, before the date; that nothing is to the account of an unused slot; and
`AttemptsInLine`, which is proved anew here (`ClockKeepsInLine`), because one
second may end the time of several attempts.  `Quiet` and `StartsAt` say which
operators start a clock: only `Update` does, with `started`, for the attempt
that is current; `MinsInTime` is that the time it is given, whole minutes of
what is left, ends in time or is none.  Two faults of the model came out here:
the request named the time of the wrong attempt in practice exams (`StartClock`),
and a timed exam could be entered as a proctored one (`EnterOrResume`).

`NobodyGainsTime`: `NoTimeGained`, for any number of attempts and any times.  The
property is about the past, so it is not inductive: an attempt that has not been
started yet has run for no time, however much it will be given.  `TimesFit` says
what each attempt may still use (`Share`): what the attempts before it have been
running and its own share fit the right; the share is the time given once it is
started, the time stored before.  It also says that an interrupted attempt ran
and has left no more than it was given (the second that `TimeRemaining` loses is
on the safe side), and that an open attempt with nothing stored is a first
attempt or starts afresh.  One lemma per request shows that the rows fit after
it (`RowFitsAfter`), from how a request may change a row at all (`GoesOn`,
`ResumedAt`, `EnteredAt`).  The sum over the attempts is a recursive function; that
it is one, grows with the set and loses a member's part with the member is shown
by induction over subsets (`SubsetInduction`), stated of a set of subsets, since
the library's induction rules take an operator, which no prover here can
instantiate.  A third fault came out: `afresh` was not passed on to the attempts
that resume one that started afresh, and with three attempts the property was
false; the two slots of the run could not show it.

**The browser** (`ExamPage_proofs`).  `AlwaysRecorded` and `LastPollAlwaysInTime`
for any number of tabs and calls and any intervals.  The invariant `PageFits`
has a part for the attempt, for each tab and for each call under way: who may
lead to a start or a stop comes from a time at which the application recorded,
and recording ends only after the attempt has (`OnAir`); a timer that runs is at
most a second behind the server (`TabFits`); a poll that is on its way has no
less time in it than the server has (`CallFits`).  `StillFits` says that nothing
of this is lost while the attempt gets on, so that each step need only be looked
at for the tab and the call that it is about.

**Overlaps** (`AttemptRace_proofs`).  For any number of processes and of
overlapping requests, `RacingKeepsRowsSound` and its consequences
`RacingKeepsFlags` and `RaceTypeCorrect`.  The inductive invariant `RaceInv` says
that each copy a request holds is a sound row as well; since a row is saved as a
whole, the save replaces one sound row by another.  What relates several rows,
or a row to the record of the LMS, is lost under overlaps in general, as
`multipleOnlyToResume` shows; two theorems say where it is not.

`VerifiersAlwaysSettle`: `VerifiersSettleCredit`.  Each verification counts the
verified attempts for itself, some time after its own save, so several of them
may find all attempts verified, and the last one to save may not be the one that
tells the LMS.  The invariant `VerifyInv` leaves open which one does: if all
attempts are verified now, the credit is satisfied or some request has not yet
come to telling the LMS, and that one will count all of them.

`RepeatingIsHarmless`: `RepeatedIsOnce`, for any number of repetitions of any
request, at any of their steps.  `RepeatInv` relates the database to the one that
the first of them found, one case for each kind of request (`RefusedInv`,
`SaveInv`, `UpdateInv`, `DeclineInv`, `RemoveInv`, `AloneInv`): the row is the one
found or the one to be saved, the LMS has been told nothing or all of it, and
each request is at one of its steps with a copy that fits.  The delicate one is
`UpdateInv`.  A repetition that loads the row when it has been saved takes the new
status for the old one, and would not, for one, lift a grade override; but it
stays without harm because either everything has been told by then or some request
that found the row as it was `Leads`: it will do all that is left.  At the end,
`UpdateEffects`, `RowEffects` and `AloneEffects` compare what there is with what
the whole handler of `ExamAttempts` makes of the database that was found.

**The service** (`BackendSession_proofs`).  `SessionsAlwaysFit`:
`SessionSpec => []SessionsFit`, for any number of attempts.  `SessionAgrees` and
`NoGhostSession` are not inductive: what the service will know at the end of a
handler depends on what it knew of attempts that have not been started, or have
not been registered.  `SessionsFit` says for every slot that there is a session
for a registered attempt and for no other, that one that waits for its start has
a session that was not started, that a session is gone only if a call about the
attempt got lost, and that the two agree otherwise; and it contains
`AttemptsInLine`, which has to hold of every database that a call may leave
behind when it raises, and not only of the one at the end of the handler.

A handler makes any number of calls, and each of them may raise or be missed.  So
what is shown of a run (`Keeps`) is about all of its calls at once: a run that
finds an attempt and a session that fit leaves ones that fit, at its end and at
each of its calls.  In the course of a run an attempt goes with a *ledger*: the
state of its session, and whether a call about it was lost in this run, before it,
or not at all (`Fits`).  Runs that are joined keep what each keeps
(`JoinedKeeps`); `UpdateFits` does the three calls of an update, where the one
that ends an exam as it starts needs a case of its own (`InstantFits`).  What the
service hears in a run is a fold over its calls.  `HeardTrace` and `RunFits` walk
along it by induction over the sets of positions, as the panels do, and
`PerformKeeps` brings the result to the next state.  `RemovingAllKeeps` is the
fold over the attempts that staff remove all at once, in whatever order.
`ServiceAgrees`, `NoGhosts`, `CreditHonouredInSessions` and `SessionTypeCorrect`
follow from the invariant, `StartsAreToldOnce` from the steps.

`ReviewsStand`, `ClockKeepsInLine` and the theorems on `AttemptsInLine`,
`PageTypeOK`, `PanelTypeOK` and `SessionTypeOK` are proved and have no run of
their own: they cover every instance.

Left to TLC for good: liveness under fairness (`TimeRunsOut`,
`PageEndsAttempt`), since the prover has no ENABLED.

## 5. Plan

1. done: the modules of section 2, and the theorems above.
2. models after that: the cascade and the practice reset at their queries in
   `AttemptRace`; two tabs in `ExamPage`.

## 6. Not modelled

- The exam registry (`create_exam`, `update_exam`, the signals that register
  exams, the bulk PATCH) and review policies: each publication writes a row field
  by field, or a text that is sent along; no step depends on an earlier one but
  for the external id.
- Allowances beyond the additional time: their history table, the review policy
  exceptions, the listing.
- Retirement beyond the reviews it saves: which personal data is cleared, table
  by table, has no behaviour over time.
- Software Secure's payloads and the JWT, urls and tokens of the REST client:
  data sent once, told apart by no property here.
- The profile api, paging and filters of the onboarding dashboard.
- Rendering, templates, serializers, permissions, settings, app start-up,
  migrations, vendored scripts, the dashboards in the browser (they fetch and
  render lists).
