---------------------------- MODULE ExamAttempts ----------------------------
(***************************************************************************)
(* The attempts of one learner at the exams of one course: api.py, the     *)
(* handlers of views.py and callbacks.py that call it, the Django admin    *)
(* and the management commands.  Every query of the code filters on the    *)
(* user, so learners do not interact and one of them is enough.            *)
(*                                                                         *)
(* Here a request runs alone, from its first read to its last write: an    *)
(* action is a whole handler.  The operators take the database `d' the     *)
(* handler finds and return the one it leaves, so that a handler that      *)
(* calls another one is the composition of the two.  A handler that raises *)
(* keeps what it had saved: there is no transaction around it.             *)
(***************************************************************************)
EXTENDS AttemptStatus, FiniteSets

CONSTANTS
  Exams,              \* the active exams of the course
  Kind,               \* "timed", "proctored" or "practice" (onboarding too)
  Dated,              \* the exams with a due date (or course end date)
  MaxAttempts,        \* bound: rows an exam ever has for the learner
  AllowTimedOut,      \* PROCTORING_SETTINGS ALLOW_TIMED_OUT_STATE
  OverrideOnReject,   \* should_override_grade_on_rejected_exam of the course
  SupportsOnboarding, \* the proctoring backend has onboarding exams
  RegistrationErrors, \* onboarding errors its registration may answer
  Verdicts,           \* what a review of an attempt makes of it
  AdminStatuses       \* what staff set by the admin or set_attempt_status

ExamKinds == {"timed", "proctored", "practice"}

ASSUME ConstantsAssumption ==
  /\ Kind \in [Exams -> ExamKinds]
  /\ Dated \subseteq Exams
  /\ MaxAttempts \in Nat \ {0}
  /\ AllowTimedOut \in BOOLEAN
  /\ OverrideOnReject \in BOOLEAN
  /\ SupportsOnboarding \in BOOLEAN
  /\ RegistrationErrors \subseteq OnboardingErrors
  /\ Verdicts \subseteq {"verified", "rejected", "second_review_required", "error"}
  /\ AdminStatuses \subseteq ValidStatus

VARIABLES
  db,       \* attempts of each exam, and what the LMS was told about it
  pastDue   \* exams whose due date has passed

vars == <<db, pastDue>>

Slots == 1 .. MaxAttempts   \* attempts of an exam in the order of `created'

(* A row of the attempt table.  A deleted one stays in the history, and    *)
(* its slot is not used again.  The times are kept as facts: started_at is *)
(* set, completed_at is set, the allowed time since started_at is over.    *)
(* registered: it has the external id its proctoring service knows it by.  *)
Attempt ==
  [row : {"unused", "live", "archived"}, status : Status,
   proctored : BOOLEAN, registered : BOOLEAN, started : BOOLEAN,
   expired : BOOLEAN, completed : BOOLEAN, resumable : BOOLEAN,
   ready : BOOLEAN, resumed : BOOLEAN]

NoRow ==
  [row |-> "unused", status |-> "created", proctored |-> FALSE,
   registered |-> FALSE, started |-> FALSE, expired |-> FALSE,
   completed |-> FALSE, resumable |-> FALSE, ready |-> FALSE,
   resumed |-> FALSE]

Archived == [NoRow EXCEPT !.row = "archived"]

(* credit and override stand for the LMS credit and grades services; a     *)
(* grade override goes with the invalidation of the certificate.           *)
Database ==
  [att : [Exams -> [Slots -> Attempt]],
   credit : [Exams -> CreditStatus \cup {"none"}],
   override : [Exams -> BOOLEAN]]

TypeOK == db \in Database /\ pastDue \in SUBSET Dated

-----------------------------------------------------------------------------
(* Queries.                                                                *)

Live(d, e) == {i \in Slots : d.att[e][i].row = "live"}

HasAttempt(d, e) == Live(d, e) # {}

Latest(d, e) == CHOOSE i \in Live(d, e) : \A j \in Live(d, e) : j <= i

Unused(d, e) == {i \in Slots : d.att[e][i].row = "unused"}

FreshSlot(d, e) == CHOOSE i \in Unused(d, e) : \A j \in Unused(d, e) : i <= j

HasStatus(d, e, statuses) == {i \in Live(d, e) : d.att[e][i].status \in statuses}

InResumeProcess(a) == a.ready \/ a.resumed

(* Mutant of Overdue: once stopped, an attempt is not timed any more.      *)
OverdueRunning(a) == a.started /\ a.expired /\ a.status = "started"

(* An attempt whose time is over while nobody has ended it: the next read  *)
(* of it through the api will.                                             *)
Overdue(a) == a.started /\ a.expired /\ a.status \in Incomplete

(* Mutants of the rule below: a rejection is counted as if the one being   *)
(* saved were not there; the other attempts are read before the save.      *)
CanUpdateUnlessRejected(d, e, to) ==
  \/ Kind[e] = "practice"
  \/ \E i \in Live(d, e) : Live(d, e) = {i}
  \/ to \in {"declined", "error"}
  \/ to = "submitted" /\ HasStatus(d, e, {"rejected"}) = {}
  \/ to = "verified" /\ Live(d, e) = HasStatus(d, e, {"verified"})
  \/ to = "rejected" /\ HasStatus(d, e, {"declined", "rejected"}) = {}

CanUpdateUnlessVerified(d, e, to) ==
  \/ Kind[e] = "practice"
  \/ \E i \in Live(d, e) : Live(d, e) = {i}
  \/ to \in {"declined", "error"}
  \/ to = "submitted" /\ HasStatus(d, e, {"rejected"}) = {}
  \/ /\ to = "rejected"
     /\ HasStatus(d, e, {"declined"}) = {}
     /\ \A i, j \in HasStatus(d, e, {"rejected"}) : i = j

(* With several attempts at an exam, which of them may change the credit,  *)
(* the grade and the certificate.                                          *)
CanUpdateCreditGradesAndEmail(d, e, to) ==
  \/ Kind[e] = "practice"
  \/ \E i \in Live(d, e) : Live(d, e) = {i}
  \/ to \in {"declined", "error"}
  \/ to = "submitted" /\ HasStatus(d, e, {"rejected"}) = {}
  \/ to = "verified" /\ Live(d, e) = HasStatus(d, e, {"verified"})
  \/ /\ to = "rejected"
     /\ HasStatus(d, e, {"declined"}) = {}
     /\ \A i, j \in HasStatus(d, e, {"rejected"}) : i = j

-----------------------------------------------------------------------------
(* update_attempt_status.                                                  *)

(* Mutants of IsResumable: a released attempt is not told apart; the error *)
(* of a submitted attempt is not recovered from.                           *)
IsResumableAgain(a, to) == to # "submitted" /\ (to = "error" \/ a.resumable)

IsResumableIfOpen(a, to) ==
  /\ to # "submitted" /\ ~ a.completed /\ ~ InResumeProcess(a)
  /\ to = "error" \/ a.resumable

IsResumable(a, to) ==
  to # "submitted" /\ ~ InResumeProcess(a) /\ (to = "error" \/ a.resumable)

(* Mutant of Saved: only the lazy check stores the time of completion.     *)
SavedUnstamped(a, to, stamped, instantly) ==
  LET status == EffectiveStatus(a.status, to, AllowTimedOut)
      begins == status = "started" /\ ~ a.started
  IN [a EXCEPT
        !.status    = status,
        !.started   = a.started \/ begins,
        !.expired   = IF begins THEN instantly ELSE a.expired,
        !.completed = a.completed \/ stamped,
        !.resumable = IsResumable(a, status)]

(* The row as it is saved.  A time-out treated as a submission takes its   *)
(* completion time from the caller, and only the lazy check passes one.    *)
(* `instantly': the time allowed at the start rounds down to no minute.    *)
Saved(a, to, stamped, instantly) ==
  LET status  == EffectiveStatus(a.status, to, AllowTimedOut)
      begins  == status = "started" /\ ~ a.started
      timeout == to = "timed_out" /\ ~ AllowTimedOut
  IN [a EXCEPT
        !.status    = status,
        !.started   = a.started \/ begins,
        !.expired   = IF begins THEN instantly ELSE a.expired,
        !.completed = IF timeout THEN stamped
                      ELSE a.completed \/ status = "submitted",
        !.resumable = IsResumable(a, status)]

(* Mutant of Settled: the test that ends a grade override is inverted.     *)
SettledInverted(d, e, from, to) ==
  IF ~ CanUpdateCreditGradesAndEmail(d, e, to) THEN d
  ELSE [d EXCEPT
          !.credit[e] = IF to \in NeedsCreditUpdate THEN CreditFor(to) ELSE @,
          !.override[e] =
             /\ OverrideOnReject
             /\ \/ to \in NeedsGradeOverride
                \/ @ /\ ~ (to = "verified" /\ from \notin NeedsGradeOverride)]

(* What the new status does to the credit requirement and the grade.       *)
Settled(d, e, from, to) ==
  IF ~ CanUpdateCreditGradesAndEmail(d, e, to) THEN d
  ELSE [d EXCEPT
          !.credit[e] = IF to \in NeedsCreditUpdate THEN CreditFor(to) ELSE @,
          !.override[e] =
             IF ~ OverrideOnReject THEN @
             ELSE \/ to \in NeedsGradeOverride
                  \/ @ /\ ~ (to = "verified" /\ from \in NeedsGradeOverride)]

SaveStatus(d, e, i, to, stamped, instantly) ==
  LET row == Saved(d.att[e][i], to, stamped, instantly)
  IN Settled([d EXCEPT !.att[e][i] = row], e, d.att[e][i].status, row.status)

(* The end of an onboarding exam deletes every attempt that had failed for *)
(* the lack of one, so that the learner can try those exams again.         *)
ClearOnboardingErrors(d, e, to) ==
  IF Kind[e] = "practice" /\ SupportsOnboarding /\ to \in Completed
  THEN [d EXCEPT !.att = [f \in Exams |-> [j \in Slots |->
          IF j \in HasStatus(d, f, OnboardingErrors)
          THEN Archived ELSE d.att[f][j]]]]
  ELSE d

(* A read of an attempt through the api: it ends an attempt that is out of *)
(* time before it returns it.                                              *)
Read(d, e, i) ==
  IF Overdue(d.att[e][i])
  THEN ClearOnboardingErrors(
         SaveStatus(d, e, i, "timed_out", TRUE, FALSE), e, "submitted")
  ELSE d

NewAttempt(d, e, status, proctored) ==
  [d EXCEPT !.att[e][FreshSlot(d, e)] =
     [NoRow EXCEPT
        !.row = "live", !.status = status, !.proctored = proctored,
        !.registered = proctored /\ status = "created"]]

(* Mutants of DeclinedToo: exams without an attempt are passed over; the   *)
(* status of the attempt is not looked at.                                 *)
DeclinedIfAttempted(d, f) ==
  LET d1 == Read(d, f, Latest(d, f))
      i  == Latest(d1, f)
  IN IF ~ HasAttempt(d, f) \/ d1.att[f][i].status \in Completed THEN d
     ELSE SaveStatus(d1, f, i, "declined", FALSE, FALSE)

DeclinedAnyway(d, f) ==
  LET d1 == IF HasAttempt(d, f) THEN Read(d, f, Latest(d, f))
            ELSE NewAttempt(d, f, "created", FALSE)
  IN SaveStatus(d1, f, Latest(d1, f), "declined", FALSE, FALSE)

(* Exam f when another exam has been declined: its current attempt, made   *)
(* if there is none, is declined unless it is complete.                    *)
DeclinedToo(d, f) ==
  LET d1 == IF HasAttempt(d, f) THEN Read(d, f, Latest(d, f))
            ELSE NewAttempt(d, f, "created", FALSE)
      i  == Latest(d1, f)
  IN IF d1.att[f][i].status \in Completed THEN d1
     ELSE SaveStatus(d1, f, i, "declined", FALSE, FALSE)

OtherProctored(e) == {f \in Exams \ {e} : Kind[f] = "proctored"}

(* The cascade visits the other exams one after the other; each visit      *)
(* touches its own exam alone.                                             *)
Cascade(d, e) ==
  LET visited(f) == IF f \in OtherProctored(e) THEN DeclinedToo(d, f) ELSE d
  IN [att      |-> [f \in Exams |-> visited(f).att[f]],
      credit   |-> [f \in Exams |-> visited(f).credit[f]],
      override |-> [f \in Exams |-> visited(f).override[f]]]

(* The time allowed is computed from the current attempt, which is a read  *)
(* of it.                                                                  *)
AllowedTimeRead(d, e) ==
  IF HasAttempt(d, e) THEN Read(d, e, Latest(d, e)) ELSE d

(* The proctoring service loses sight of an attempt that is declined.      *)
Withdrawn(d, e, i) ==
  [d EXCEPT !.att[e][i] = [@ EXCEPT !.proctored = FALSE, !.registered = FALSE]]

Update(d, e, i, to, instantly) ==
  LET from == d.att[e][i].status
      new  == EffectiveStatus(from, to, AllowTimedOut)
      d0   == IF new = "started" /\ ~ d.att[e][i].started
              THEN AllowedTimeRead(d, e) ELSE d
      d1   == SaveStatus(d0, e, i, to, FALSE, instantly)
      d2   == IF /\ new \in CascadableFailure
                 /\ CanUpdateCreditGradesAndEmail(d1, e, new)
              THEN Cascade(Withdrawn(d1, e, i), e)
              ELSE d1
  IN IF IsLegal(from, new)
     THEN ClearOnboardingErrors(Read(d2, e, i), e, new)
     ELSE d

(* Bound of the model: a cascade has a slot for each attempt it makes.     *)
RoomToDecline(d, e) ==
  \A f \in OtherProctored(e) : HasAttempt(d, f) \/ Unused(d, f) # {}

-----------------------------------------------------------------------------
(* Creating, starting, resuming, resetting and removing attempts.          *)

(* Mutant of MayCreate: an attempt in error can be followed without staff. *)
MayCreateAfterError(d, e) ==
  \/ ~ HasAttempt(d, e)
  \/ InResumeProcess(d.att[e][Latest(d, e)])
  \/ d.att[e][Latest(d, e)].resumable
  \/ Kind[e] = "practice"

(* A second attempt is for resuming, or for practice.                      *)
MayCreate(d, e) ==
  \/ ~ HasAttempt(d, e)
  \/ InResumeProcess(d.att[e][Latest(d, e)])
  \/ Kind[e] = "practice"

(* The attempt that is being resumed is marked before anything can fail.   *)
MarkedResumed(d, e) ==
  LET i == Latest(d, e)
  IN IF HasAttempt(d, e) /\ InResumeProcess(d.att[e][i])
     THEN [d EXCEPT !.att[e][i] =
             [@ EXCEPT !.resumed = TRUE, !.resumable = FALSE]]
     ELSE d

(* What the registration of the attempt may answer: a timed exam has no    *)
(* backend to register with.                                               *)
Outcomes(e, proctored) ==
  IF ~ proctored THEN {"created"}
  ELSE IF Kind[e] = "timed" THEN {"refused"}
  ELSE {"created", "refused"} \cup RegistrationErrors

Creates(d, e, proctored, outcome) ==
  /\ MayCreate(d, e)
  /\ ~ (proctored /\ (e \in pastDue \/ outcome = "refused"))

(* Mutant of CreateAttempt: a refused registration goes unnoticed.         *)
CreateUnregistered(d, e, proctored, outcome) ==
  LET d1 == MarkedResumed(d, e)
  IN IF ~ MayCreate(d, e) THEN d
     ELSE IF proctored /\ e \in pastDue THEN d1
     ELSE NewAttempt(d1, e, outcome, proctored)

CreateAttempt(d, e, proctored, outcome) ==
  LET d1 == MarkedResumed(d, e)
      d2 == IF proctored THEN AllowedTimeRead(d1, e) ELSE d1
  IN IF ~ MayCreate(d, e) THEN d
     ELSE IF proctored /\ e \in pastDue THEN d1
     ELSE IF proctored /\ outcome = "refused" THEN d2
     ELSE NewAttempt(d2, e, outcome, proctored)

StartLatest(d, e, instantly) ==
  LET i == Latest(d, e)
      a == d.att[e][i]
  IN IF ~ HasAttempt(d, e) \/ (a.started /\ a.status = "started") THEN d
     ELSE Update(d, e, i, "started", instantly)

(* Deleting an attempt also takes back what the LMS was told of the exam.  *)
Removed(d, e, i) ==
  [d EXCEPT
     !.att[e][i]   = Archived,
     !.override[e] = FALSE,
     !.credit[e]   = IF d.att[e][i].status \in NeedsCreditUpdate
                     THEN "none" ELSE @]

PracticeReset(d, e, outcome) ==
  LET i  == Latest(d, e)
      a  == d.att[e][i]
      d1 == IF a.status = "submitted" THEN Removed(d, e, i)
            ELSE [d EXCEPT !.att[e][i].status = "onboarding_reset"]
  IN IF \/ ~ HasAttempt(d, e)
        \/ Kind[e] # "practice"
        \/ a.status \in Incomplete \cup {"verified"}
     THEN d
     ELSE CreateAttempt(d1, e, a.proctored, outcome)

-----------------------------------------------------------------------------
(* Requests.  The bounds of the model are RoomToCreate and RoomToDecline:  *)
(* a request that would need one more row than there are slots is not made. *)

RoomToCreate(e) == Unused(db, e) # {}

Init ==
  /\ db = [att      |-> [e \in Exams |-> [i \in Slots |-> NoRow]],
           credit   |-> [e \in Exams |-> "none"],
           override |-> [e \in Exams |-> FALSE]]
  /\ pastDue = {}

(* POST attempt: the learner enters an exam, or enters it again to resume  *)
(* or to practise.  Not taking a proctored exam as proctored declines it.  *)
Post(e, proctored, startClock, outcome, instantly) ==
  LET d1 == CreateAttempt(db, e, proctored, outcome)
  IN /\ Kind[e] = "practice" \/ e \notin pastDue
     /\ RoomToCreate(e) /\ RoomToDecline(db, e)
     /\ db' = IF ~ Creates(db, e, proctored, outcome) THEN d1
              ELSE IF Kind[e] # "timed" /\ ~ proctored
              THEN Update(d1, e, Latest(d1, e), "declined", FALSE)
              ELSE IF startClock THEN StartLatest(d1, e, instantly)
              ELSE d1
     /\ UNCHANGED pastDue

(* The exam page of a proctored exam, opened by a learner without attempt  *)
(* who has declined a prerequisite of it.                                  *)
DeclineForPrerequisite(e) ==
  LET d1 == CreateAttempt(db, e, FALSE, "created")
  IN /\ Kind[e] = "proctored"
     /\ ~ HasAttempt(db, e)
     /\ RoomToCreate(e) /\ RoomToDecline(db, e)
     /\ db' = Update(d1, e, Latest(d1, e), "declined", FALSE)
     /\ UNCHANGED pastDue

(* Every request that names an attempt reads it through the api first.     *)
Poll(e, i) ==
  /\ i \in Live(db, e)
  /\ db' = Read(db, e, i)
  /\ UNCHANGED pastDue

PutStatus(e, i, to) ==
  LET d1 == Read(db, e, i)
  IN /\ i \in Live(db, e)
     /\ to = "declined" => RoomToDecline(d1, e)
     /\ db' = Update(d1, e, i, to, FALSE)
     /\ UNCHANGED pastDue

Stop(e, i) == PutStatus(e, i, "ready_to_submit")

Submit(e, i) == PutStatus(e, i, "submitted")

ClickDownload(e, i) == PutStatus(e, i, "download_software_clicked")

Decline(e, i) == PutStatus(e, i, "declined")

Start(e, i, instantly) ==
  /\ i \in Live(db, e)
  /\ db' = StartLatest(Read(db, e, i), e, instantly)
  /\ UNCHANGED pastDue

(* The browser lost the proctoring software.  With the ping failure switch *)
(* of the backend on, this is no more than a read.                         *)
Error(e, i) ==
  LET d1 == Read(db, e, i)
  IN /\ i \in Live(db, e)
     /\ db' = IF d1.att[e][i].status = "submitted" THEN d1
              ELSE Update(d1, e, i, "error", FALSE)
     /\ UNCHANGED pastDue

MarkReadyToResume(e, i) ==
  LET d1 == Read(db, e, i)
  IN /\ i \in Live(db, e)
     /\ db' = IF d1.att[e][i].resumable
              THEN [d1 EXCEPT !.att[e][i] =
                      [@ EXCEPT !.ready = TRUE, !.resumable = FALSE]]
              ELSE d1
     /\ UNCHANGED pastDue

ResetPractice(e, i) ==
  LET d1       == Read(db, e, i)
      outcomes == Outcomes(e, d1.att[e][Latest(d1, e)].proctored)
  IN /\ i \in Live(db, e)
     /\ Kind[e] = "practice"
     /\ RoomToCreate(e)
     /\ \E outcome \in outcomes : db' = PracticeReset(d1, e, outcome)
     /\ UNCHANGED pastDue

Delete(e, i) ==
  /\ i \in Live(db, e)
  /\ db' = Removed(Read(db, e, i), e, i)
  /\ UNCHANGED pastDue

(* Staff remove every attempt at an exam, one remove_exam_attempt each.    *)
ResetAttempts(e) ==
  /\ HasAttempt(db, e)
  /\ db' = [db EXCEPT
       !.att[e] = [i \in Slots |->
                     IF i \in Live(db, e) THEN Archived ELSE db.att[e][i]],
       !.override[e] = FALSE,
       !.credit[e] = IF HasStatus(db, e, NeedsCreditUpdate) # {}
                     THEN "none" ELSE @]
  /\ UNCHANGED pastDue

(* The proctoring service reports that the set-up is done.                 *)
ReadyCallback(e, i) ==
  LET d1 == Read(db, e, i)
  IN /\ i \in Live(db, e)
     /\ db.att[e][i].registered
     /\ db' = IF d1.att[e][i].status \in {"created", "download_software_clicked"}
              THEN Update(d1, e, i, "ready_to_start", FALSE) ELSE d1
     /\ UNCHANGED pastDue

(* The link of the proctoring software back to the exam; following it in a *)
(* running exam is a re-entry, which submits the exam.                     *)
StartCallback(e, i) ==
  LET d1     == Read(db, e, i)
      status == d1.att[e][i].status
  IN /\ i \in Live(db, e)
     /\ db.att[e][i].proctored
     /\ db' = IF status \in {"created", "download_software_clicked"}
              THEN Update(d1, e, i, "ready_to_start", FALSE)
              ELSE IF status \in InProgress
              THEN Update(d1, e, i, "submitted", FALSE)
              ELSE d1
     /\ UNCHANGED pastDue

(* The Django admin and the management commands set a status directly,     *)
(* with no read that would time the attempt out.                           *)
SetStatus(e, i, to) ==
  /\ i \in Live(db, e)
  /\ to = "declined" => RoomToDecline(db, e)
  /\ db' = Update(db, e, i, to, FALSE)
  /\ UNCHANGED pastDue

AdminSetStatus(e, i) == \E to \in AdminStatuses : SetStatus(e, i, to)

(* A review of the attempt is received, or saved once more: see module     *)
(* ReviewWorkflow for the reviews themselves.                              *)
ReviewCallback(e, i) ==
  /\ Kind[e] # "timed" /\ db.att[e][i].registered
  /\ \E to \in Verdicts : PutStatus(e, i, to)

ReviewSaved(e, i) ==
  /\ Kind[e] # "timed"
  /\ \E to \in Verdicts : SetStatus(e, i, to)

(* update_attempts_for_exam runs update_attempt_status again with the      *)
(* status an attempt has.                                                  *)
RetriggerStatus(e, i) == SetStatus(e, i, db.att[e][i].status)

(* The command reset_attempts deletes rows and nothing else; it is only to *)
(* be used on attempts that are neither started nor complete.              *)
RawDelete(e, i) ==
  /\ i \in Live(db, e)
  /\ db.att[e][i].status \in PreStarted
  /\ ~ db.att[e][i].started
  /\ db' = [db EXCEPT !.att[e][i] = Archived]
  /\ UNCHANGED pastDue

(* The clock passes the end of the time allowed to an attempt.             *)
Expire(e, i) ==
  /\ i \in Live(db, e)
  /\ db.att[e][i].started /\ ~ db.att[e][i].expired
  /\ db' = [db EXCEPT !.att[e][i].expired = TRUE]
  /\ UNCHANGED pastDue

(* The clock passes the due date, or the course team moves the date.       *)
PassDue(e) == e \in Dated /\ pastDue' = pastDue \cup {e} /\ UNCHANGED db

ExtendDue(e) == pastDue' = pastDue \ {e} /\ UNCHANGED db

LearnerNext(e) ==
  \/ \E proctored, startClock \in BOOLEAN :
       \E outcome \in Outcomes(e, proctored), instantly \in {FALSE, startClock} :
         Post(e, proctored, startClock, outcome, instantly)
  \/ DeclineForPrerequisite(e)
  \/ \E i \in Slots :
       \/ Stop(e, i) \/ Submit(e, i) \/ ClickDownload(e, i) \/ Decline(e, i)
       \/ \E instantly \in BOOLEAN : Start(e, i, instantly)
       \/ Error(e, i) \/ Poll(e, i) \/ ResetPractice(e, i)

StaffNext(e) ==
  \/ ResetAttempts(e)
  \/ \E i \in Slots :
       \/ MarkReadyToResume(e, i) \/ Delete(e, i) \/ RawDelete(e, i)
       \/ AdminSetStatus(e, i) \/ RetriggerStatus(e, i)

BackendNext(e) == \E i \in Slots : ReadyCallback(e, i) \/ StartCallback(e, i)

ClockNext(e) == PassDue(e) \/ ExtendDue(e) \/ \E i \in Slots : Expire(e, i)

AttemptNext(e) ==
  LearnerNext(e) \/ StaffNext(e) \/ BackendNext(e) \/ ClockNext(e)

ReviewNext(e) == \E i \in Slots : ReviewCallback(e, i) \/ ReviewSaved(e, i)

Next == \E e \in Exams : AttemptNext(e) \/ ReviewNext(e)

Spec == Init /\ [][Next]_vars

(* The clock moves on, and the exam page, which stays open, polls the      *)
(* current attempt every minute.                                           *)
PollCurrent(e) == HasAttempt(db, e) /\ Poll(e, Latest(db, e))

FairSpec ==
  /\ Spec
  /\ \A e \in Exams : WF_vars(PollCurrent(e))
  /\ \A e \in Exams, i \in Slots : WF_vars(Expire(e, i))

-----------------------------------------------------------------------------
(* Properties.                                                             *)

LiveAttempt(e, i) == i \in Live(db, e)

(* The three resume flags mean successive stages: an interrupted attempt   *)
(* (is_resumable) is released by staff (ready_to_resume) and then resumed; *)
(* no order of errors, releases and new attempts leaves an attempt that    *)
(* can be released twice, or that was resumed and never released.          *)
ResumeFlagsExclusive ==
  \A e \in Exams, i \in Slots :
    LET a == db.att[e][i]
    IN /\ a.resumable => ~ a.ready /\ ~ a.resumed
       /\ a.resumed => a.ready

(* Outside practice, an attempt is followed by another one only because it *)
(* was resumed, whatever has been removed in between: credit, grades and   *)
(* the instructor dashboard take the attempts of an exam for one sitting.  *)
SupersededIsResumed ==
  \A e \in Exams, i, j \in Slots :
    Kind[e] # "practice" /\ LiveAttempt(e, i) /\ LiveAttempt(e, j) /\ i < j
      => db.att[e][i].resumed

(* Outside practice, only the current attempt at an exam is ever open, and *)
(* one that waits to be resumed is not: the clock never runs in two        *)
(* attempts at one exam, and a staff decision never reopens an old one.    *)
OneOpenAttempt ==
  \A e \in Exams, i \in Slots :
    LET a == db.att[e][i]
    IN Kind[e] # "practice" /\ LiveAttempt(e, i) /\ a.status \in Incomplete
         => i = Latest(db, e) /\ ~ a.resumable /\ ~ InResumeProcess(a)

(* A learner whose attempt is in error can be helped: unless it has been   *)
(* released already, staff can release it for resuming.                    *)
ErrorIsRecoverable ==
  \A e \in Exams, i \in Slots :
    LiveAttempt(e, i) /\ db.att[e][i].status = "error"
      => db.att[e][i].resumable \/ InResumeProcess(db.att[e][i])

(* Outside practice, an attempt that was ever submitted stays complete: no *)
(* late callback, poll or staff action gives the learner more time in it.  *)
SubmittedStaysComplete ==
  \A e \in Exams, i \in Slots :
    Kind[e] # "practice" /\ LiveAttempt(e, i) /\ db.att[e][i].completed
      => db.att[e][i].status \notin Incomplete

(* The credit requirement is satisfied only while no attempt at the exam   *)
(* stands against it, though most status changes of an exam with several   *)
(* attempts leave the requirement alone.                                   *)
CreditHonoursAttempts ==
  \A e \in Exams :
    Kind[e] # "practice" /\ db.credit[e] = "satisfied"
      => HasStatus(db, e, NeedsCreditUpdate \ {"verified"}) = {}

(* When the last of the attempts at an exam gets verified the learner gets *)
(* the credit, in whichever order they were reviewed.                      *)
AllVerified(d, e) == HasAttempt(d, e) /\ Live(d, e) = HasStatus(d, e, {"verified"})

VerifiedSettlesCredit ==
  [][\A e \in Exams :
       Live(db, e) = Live(db, e)' /\ ~ AllVerified(db, e) /\ AllVerified(db, e)'
         => db.credit'[e] = "satisfied"]_vars

(* A learner who declines one exam declines the proctored exams of the     *)
(* course: none is left open behind, nor unattempted, but for those that   *)
(* had been stopped for the lack of onboarding.  (While a past attempt at  *)
(* an exam stands declined this is not so: PastAttemptsNotDeclined.)       *)
BecomesDeclined(e) ==
  {i \in Slots : /\ LiveAttempt(e, i)' /\ db'.att[e][i].status = "declined"
                 /\ ~ LiveAttempt(e, i) \/ db.att[e][i].status # "declined"}

PastAttemptsNotDeclined ==
  \A e \in Exams : Kind[e] = "proctored" =>
    \A i \in HasStatus(db, e, {"declined"}) : i = Latest(db, e)

DeclineCascades ==
  [][\A e \in Exams : BecomesDeclined(e) # {} /\ PastAttemptsNotDeclined' =>
       \A f \in OtherProctored(e) :
         \/ HasStatus(db, f, OnboardingErrors) # {}
         \/ HasAttempt(db', f) /\ db'.att[f][Latest(db', f)].status \in Completed]_vars

(* Don't touch any completed statuses: the cascade leaves every complete   *)
(* attempt as it is, so no step changes complete attempts of two exams.    *)
(* The onboarding errors that the end of an onboarding exam clears are the *)
(* exception.                                                              *)
CompleteTouched(e) ==
  \E i \in HasStatus(db, e, Completed \ OnboardingErrors) :
    db'.att[e][i] # db.att[e][i]

CompletedElsewhereKept ==
  [][\A e \in Exams : CompleteTouched(e) =>
       \A f \in Exams \ {e} : ~ CompleteTouched(f)]_vars

(* The time of a started attempt runs out for good: the attempt ends or is *)
(* withdrawn, whatever else happens to it.                                 *)
TimeRunsOut ==
  \A e \in Exams, i \in Slots :
    (LiveAttempt(e, i) /\ db.att[e][i].started /\ db.att[e][i].status \in Incomplete)
      ~> (~ LiveAttempt(e, i) \/ db.att[e][i].status \notin Incomplete)

-----------------------------------------------------------------------------
(* The invariant the proofs use for what one row of the table says alone.  *)

RowSound(e, a) ==
  /\ a \in Attempt
  /\ a.resumable => ~ a.ready /\ ~ a.resumed
  /\ a.resumed => a.ready
  /\ a.status = "error" => a.resumable \/ InResumeProcess(a)
  /\ Kind[e] # "practice" => a.status \in ValidStatus
  /\ Kind[e] # "practice" /\ a.completed => a.status \in Completed
  /\ Kind[e] # "practice" /\ a.status \in Incomplete
       => ~ a.resumable /\ ~ InResumeProcess(a)

Sound(d) ==
  /\ d \in Database
  /\ \A e \in Exams, i \in Slots : RowSound(e, d.att[e][i])

(* Every attempt row, live or not, keeps its flags and its status in line, *)
(* whatever request, callback, cascade or staff action writes it.          *)
RowsSound == Sound(db) /\ pastDue \in SUBSET Dated

-----------------------------------------------------------------------------
(* The invariant the proofs use for what the attempts at one exam, and the *)
(* record the LMS keeps of it, say together.                               *)

SatOnce == {e \in Exams : Kind[e] # "practice"}

(* Attempts are created in the order of their slots.                       *)
UsedInOrder(d) ==
  \A e \in Exams, i, j \in Slots :
    i < j /\ d.att[e][i].row = "unused" => d.att[e][j].row = "unused"

Superseded(d) ==
  \A e \in SatOnce : \A i, j \in Live(d, e) : i < j => d.att[e][i].resumed

CreditHonest(d) ==
  \A e \in SatOnce :
    d.credit[e] = "satisfied" =>
      HasStatus(d, e, NeedsCreditUpdate \ {"verified"}) = {}

InLine(d) == Sound(d) /\ UsedInOrder(d) /\ Superseded(d) /\ CreditHonest(d)

(* The attempts at each exam follow one another, and the credit follows    *)
(* them, whatever is removed, resumed, cleared or declined.                *)
AttemptsInLine == InLine(db) /\ pastDue \in SUBSET Dated

-----------------------------------------------------------------------------
(* The attempts at an exam make up a sitting of it.                        *)

AttemptStage(a) ==
  IF InResumeProcess(a) THEN "released"
  ELSE IF a.status \in Incomplete THEN "open"
  ELSE IF a.resumable THEN "interrupted"
  ELSE "closed"

SittingStage(d, e) ==
  IF HasAttempt(d, e) THEN AttemptStage(d.att[e][Latest(d, e)]) ELSE "none"

Sitting == INSTANCE ExamSitting WITH
  Exams <- SatOnce,
  stage <- [e \in SatOnce |-> SittingStage(db, e)],
  taken <- [e \in SatOnce |-> Cardinality(Live(db, e))]

(* Whatever learners, staff, the proctoring service and the clock do, and  *)
(* with whatever cascades, every exam is sat as ExamSitting says: nothing  *)
(* but a removal or a release opens it a second time.                      *)
ImplementsSitting == Sitting!SittingSpec
=============================================================================
