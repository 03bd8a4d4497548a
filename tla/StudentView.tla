---------------------------- MODULE StudentView ----------------------------
(***************************************************************************)
(* What a learner finds in place of an exam: get_student_view of api.py    *)
(* decides between a page of the exam's course of events and the content   *)
(* of the exam itself.  A visit is also a write: it ends an attempt that   *)
(* is out of time, and it declines an exam for a learner who has declined  *)
(* a prerequisite of it.  The pages are a function of the attempts, so the *)
(* module has the variables of ExamAttempts and no others.                 *)
(***************************************************************************)
EXTENDS ExamAttempts, Sequences

CONSTANTS
  Requirements,    \* the exams among the credit requirements, in their order
  HideAfterDue,    \* exams whose content stays hidden after the due date
  ContentViewable, \* CONTENT_VIEWABLE_PAST_DUE_DATE
  Visits           \* bound: the circumstances of a visit that are considered

(* not_admitted: no permission for proctored exams, or the course is over; *)
(* wrong_browser: the backend wants another one; grace: the grace period   *)
(* after the due date has not ended.                                       *)
Circumstances ==
  {"not_admitted", "inactive_account", "wrong_browser", "acknowledged", "grace"}

ASSUME ViewAssumption ==
  /\ Requirements \in Seq(Exams)
  /\ HideAfterDue \subseteq Exams
  /\ ContentViewable \in BOOLEAN
  /\ Visits \subseteq SUBSET Circumstances

-----------------------------------------------------------------------------
(* Prerequisites.                                                          *)

(* The requirements that come before an exam; all of them for an exam that *)
(* is not a requirement.                                                   *)
RequiredBefore(e) ==
  {Requirements[k] : k \in {j \in DOMAIN Requirements :
                              \A i \in 1 .. j : Requirements[i] # e}}

Prerequisites(d, e, statuses) ==
  {f \in RequiredBefore(e) : d.credit[f] \in statuses}

AutoDeclines(d, e, v) ==
  /\ Kind[e] = "proctored" /\ ~ HasAttempt(d, e) /\ e \notin pastDue
  /\ "not_admitted" \notin v /\ "inactive_account" \notin v
  /\ Prerequisites(d, e, {"declined"}) # {}

(* Mutant of AutoDeclined: the new attempt is not declined.                *)
AttemptedForPrerequisite(d, e) == CreateAttempt(d, e, FALSE, "created")

AutoDeclined(d, e) ==
  LET d1 == CreateAttempt(d, e, FALSE, "created")
  IN Update(d1, e, Latest(d1, e), "declined", FALSE)

-----------------------------------------------------------------------------
(* The pages.                                                              *)

Current(d, e) == d.att[e][Latest(d, e)]

(* Mutant of ReadyToResume: the learner may go on before staff agree.      *)
ReadyToBeReleased(a) == a.resumable

ReadyToResume(a) == a.ready /\ ~ a.resumed

(* The rendering of a submitted timed exam subtracts its times.            *)
TimedPage(d, e, v) ==
  LET a == Current(d, e)
  IN IF ~ HasAttempt(d, e) \/ a.status = "created"
     THEN IF e \in pastDue THEN "expired" ELSE "entrance"
     ELSE CASE e \in pastDue /\ a.status \in Incomplete -> "expired"
            [] a.status = "timed_out" -> "raises"
            [] a.status = "submitted" ->
                 IF e \in pastDue \ HideAfterDue /\ "grace" \notin v THEN "content"
                 ELSE IF a.started /\ a.completed THEN "submitted"
                 ELSE "raises"
            [] a.status = "ready_to_submit" /\ e \notin pastDue -> "ready_to_submit"
            [] OTHER -> "content"

(* What the pages of proctored and of practice exams have in common.       *)
WorkPage(status) ==
  CASE status \in {"created", "download_software_clicked"} -> "instructions"
    [] status \in {"ready_to_start", "ready_to_submit", "submitted", "error"} -> status
    [] OTHER -> "content"

OnboardingPage(status) ==
  CASE status \in {"verified", "rejected"} -> status
    [] status = "second_review_required" -> "submitted"
    [] OTHER -> WorkPage(status)

PracticePage(d, e, v) ==
  LET a == Current(d, e)
  IN CASE "inactive_account" \in v -> "inactive_account"
       [] "inactive_account" \notin v /\ ~ HasAttempt(d, e) ->
            IF SupportsOnboarding /\ e \in pastDue THEN "expired" ELSE "entrance"
       [] OTHER ->
            IF ReadyToResume(a) THEN "ready_to_resume"
            ELSE IF SupportsOnboarding THEN OnboardingPage(a.status)
            ELSE IF a.status = "started" /\ "wrong_browser" \in v THEN "wrong_browser"
            ELSE WorkPage(a.status)

(* No prerequisite is declined, or the visit would have declined the exam. *)
EntrancePage(d, e) ==
  IF e \in pastDue THEN "expired"
  ELSE IF Prerequisites(d, e, {"failed"}) # {} THEN "failed_prerequisites"
  ELSE IF RequiredBefore(e) # Prerequisites(d, e, {"satisfied"})
  THEN "pending_prerequisites"
  ELSE "entrance"

(* The result of a review, until the learner has read it and may look at   *)
(* the content of the exam.                                                *)
ResultPage(e, status, v) ==
  LET seen == "acknowledged" \in v /\ e \in pastDue /\ ContentViewable
  IN IF seen /\ ~ (status = "verified" /\ "grace" \in v) THEN "content"
     ELSE IF status = "second_review_required" THEN "submitted" ELSE status

AttemptedPage(e, a, v) ==
  CASE e \in pastDue /\ a.status \in Incomplete -> "expired"
    [] ~ (e \in pastDue /\ a.status \in Incomplete) /\ ReadyToResume(a) -> "ready_to_resume"
    [] OTHER ->
         CASE a.status = "started" ->
                IF "wrong_browser" \in v THEN "wrong_browser" ELSE "content"
           [] a.status = "timed_out" -> "raises"
           [] a.status \in {"submitted", "second_review_required", "verified", "rejected"} ->
                ResultPage(e, a.status, v)
           [] a.status \in OnboardingErrors ->
                IF \E f \in Exams : Kind[f] = "practice" THEN "onboarding_error" ELSE "raises"
           [] OTHER -> WorkPage(a.status)

ProctoredPage(d, e, v) ==
  CASE HasAttempt(d, e) /\ Current(d, e).status = "declined" -> "content"
    [] ~ HasAttempt(d, e) /\ "inactive_account" \notin v -> EntrancePage(d, e)
    [] OTHER -> IF "inactive_account" \in v THEN "inactive_account"
                ELSE AttemptedPage(e, Current(d, e), v)

-----------------------------------------------------------------------------
(* A visit.                                                                *)

TurnedAway(e, v) == Kind[e] # "timed" /\ "not_admitted" \in v

(* Mutant of Opened: the page is made of the attempt as it stands.         *)
OpenedUnread(d, e, v) == IF AutoDeclines(d, e, v) THEN AutoDeclined(d, e) ELSE d

(* The database after a visit, and the page the visitor gets.  Somebody    *)
(* who is turned away sees the content as if the exam were an open one.    *)
Opened(d, e, v) ==
  IF TurnedAway(e, v) THEN d
  ELSE IF HasAttempt(d, e) THEN Read(d, e, Latest(d, e))
  ELSE IF AutoDeclines(d, e, v) THEN AutoDeclined(d, e)
  ELSE d

Rendered(d, e, v) ==
  CASE Kind[e] = "timed"     -> TimedPage(d, e, v)
    [] Kind[e] = "practice"  -> PracticePage(d, e, v)
    [] Kind[e] = "proctored" -> ProctoredPage(d, e, v)

PageOf(d, e, v) ==
  IF TurnedAway(e, v) \/ AutoDeclines(d, e, v) THEN "content"
  ELSE Rendered(Opened(d, e, v), e, v)

OpenPage(e, v) ==
  /\ AutoDeclines(db, e, v) => RoomToCreate(e) /\ RoomToDecline(db, e)
  /\ db' = Opened(db, e, v)
  /\ UNCHANGED pastDue

(* The page of the learning micro-frontend asks for the running attempt,   *)
(* for its timer, and for the attempt at the exam; it declines for a       *)
(* prerequisite without a look at the due date.                            *)
FrontendOpened(d, e) ==
  IF HasAttempt(d, e) THEN Read(d, e, Latest(d, e))
  ELSE IF Kind[e] = "proctored" /\ Prerequisites(d, e, {"declined"}) # {}
  THEN AutoDeclined(d, e)
  ELSE d

Running == {r \in Exams \X Slots : r[2] \in HasStatus(db, r[1], InProgress)}

(* Bound of the model: a slot for the attempt that is made to be declined. *)
(* The end of a running onboarding exam may clear attempts first.          *)
RoomToOpen(d, e) ==
  ~ HasAttempt(d, e) => Unused(d, e) # {} /\ RoomToDecline(d, e)

OpenInFrontend(e) ==
  /\ \/ Running = {} /\ RoomToOpen(db, e) /\ db' = FrontendOpened(db, e)
     \/ \E r \in Running :
          LET d1 == Read(db, r[1], r[2])
          IN IF r[1] = e THEN db' = d1
             ELSE RoomToOpen(d1, e) /\ db' = FrontendOpened(d1, e)
  /\ UNCHANGED pastDue

(* The course outline says what has become of the exam, with a read of its *)
(* own and from the status alone (get_attempt_status_summary).             *)
OutlineUnread(d, e) == d

OutlineRead(d, e) == IF HasAttempt(d, e) THEN Read(d, e, Latest(d, e)) ELSE d

OutlineOf(status) ==
  CASE status = "declined" -> "open exam"
    [] status \in {"submitted", "second_review_required", "verified", "rejected",
                   "error"} -> "completed"
    [] OTHER -> "taking"

Outline(d, e) ==
  IF HasAttempt(d, e) THEN OutlineOf(Current(OutlineRead(d, e), e).status)
  ELSE "option available"

StudentNext ==
  \E e \in Exams :
    \/ \E v \in Visits : OpenPage(e, v)
    \/ OpenInFrontend(e)
    \/ AttemptNext(e)
    \/ ReviewNext(e)

StudentSpec == Init /\ [][StudentNext]_vars

StudentFairSpec ==
  /\ StudentSpec
  /\ \A e \in Exams : WF_vars(PollCurrent(e))
  /\ \A e \in Exams, i \in Slots : WF_vars(Expire(e, i))

-----------------------------------------------------------------------------
(* Properties.                                                             *)

(* To reload the page changes nothing: it shows the same page, and what    *)
(* the first visit wrote (a time-out, a decline and its cascade, the       *)
(* clearing of onboarding errors) leaves nothing for a second one to do.   *)
(* Nor, before the due date, does it matter to an admitted learner whether *)
(* the exam was opened in the micro-frontend first.                        *)
StableAfter(d1, e, v) ==
  /\ Opened(d1, e, v) = d1
  /\ PageOf(d1, e, v) = PageOf(db, e, v)
  /\ v = {} /\ e \notin pastDue => Opened(FrontendOpened(db, e), e, v) = d1

PageIsStable ==
  \A e \in Exams, v \in Visits :
    RoomToOpen(db, e) => StableAfter(Opened(db, e, v), e, v)

(* The one thing a page invites the learner to do is something the api     *)
(* accepts: the page and the request each have their own conditions, and   *)
(* an invitation that is refused leaves the learner stuck.  Past the due   *)
(* date this is not so, nor for a timed exam whose attempt was created and *)
(* not started.                                                            *)
Accepted(d, e, page) ==
  CASE page = "entrance" \/ page = "ready_to_resume" ->
         Creates(d, e, Kind[e] # "timed", "created")
    [] page = "ready_to_start" -> IsLegal(Current(d, e).status, "started")
    [] page = "ready_to_submit" ->
         /\ IsLegal(Current(d, e).status, "submitted")
         /\ IsLegal(Current(d, e).status, "started")
    [] page \in {"submitted", "rejected", "error"} /\ Kind[e] = "practice" ->
         Unused(d, e) # {} => PracticeReset(d, e, "created") # d
    [] OTHER -> TRUE

OfferStands ==
  \A e \in Exams \ pastDue, v \in Visits :
    (Kind[e] = "timed" => ~ HasAttempt(db, e))
      => Accepted(Opened(db, e, v), e, PageOf(db, e, v))

(* The page of a submitted timed exam can be computed: a started attempt   *)
(* gets the time of its completion on whichever way it is ended.  (Without *)
(* a timed_out state of its own, a time-out set by staff stores none.)     *)
SubmittedPageRenders ==
  \A e \in Exams, v \in Visits :
    LET a == Current(Opened(db, e, v), e)
    IN HasAttempt(db, e) /\ a.started /\ a.status = "submitted"
         => PageOf(db, e, v) # "raises"

(* The content of an exam that the learner has started and not finished is *)
(* only shown while time remains and the exam is not past due; a practice  *)
(* exam may be worked in after its due date until the time runs out.       *)
ContentInTime ==
  \A e \in Exams, v \in Visits :
    LET a == Current(Opened(db, e, v), e)
    IN (/\ HasAttempt(db, e) /\ ~ TurnedAway(e, v)
        /\ PageOf(db, e, v) = "content"
        /\ a.started /\ a.status \in Incomplete)
       => ~ a.expired /\ (e \in pastDue => Kind[e] = "practice")

(* The outline of the course and the page of the exam, computed apart from *)
(* each other, tell the learner the same about a proctored exam.           *)
Agree(outline, page) ==
  CASE outline = "option available" ->
         page \in {"entrance", "failed_prerequisites", "pending_prerequisites"}
    [] outline = "open exam" -> page = "content"
    [] outline = "completed" ->
         page \in {"submitted", "verified", "rejected", "error", "ready_to_resume"}
    [] outline = "taking" ->
         page \in {"instructions", "ready_to_start", "content", "ready_to_submit",
                   "onboarding_error"}

OutlineAgrees ==
  \A e \in Exams \ pastDue :
    Kind[e] = "proctored" /\ ~ AutoDeclines(db, e, {})
      => Agree(Outline(db, e), PageOf(db, e, {}))
=============================================================================
