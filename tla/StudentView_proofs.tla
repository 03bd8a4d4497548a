------------------------- MODULE StudentView_proofs -------------------------
(***************************************************************************)
(* Proofs about StudentView: visits keep the attempts in line, the first   *)
(* visit leaves nothing for a second one to do, what a page offers stands, *)
(* content is shown in time, the page of a submitted attempt can be shown, *)
(* and it does not contradict the outline of the course.                   *)
(***************************************************************************)
EXTENDS StudentView, ExamAttempts_proofs

(* An exam that is declined for a prerequisite is handled as the request   *)
(* to decline it, and its only attempt is declined.                        *)
LEMMA AutoDeclinedHandled ==
  ASSUME NEW d, InLine(d), NEW e \in Exams, Kind[e] = "proctored",
         ~ HasAttempt(d, e), Unused(d, e) # {}, RoomToDecline(d, e)
  PROVE  /\ Handled(d, AutoDeclined(d, e), e, "declined")
         /\ HasAttempt(AutoDeclined(d, e), e)
         /\ Current(AutoDeclined(d, e), e).status = "declined"
<1> DEFINE d1 == CreateAttempt(d, e, FALSE, "created")
           d2 == AutoDeclined(d, e)
<1>1. Goes(d, d, "timed_out") /\ \A f \in Exams \ {e} : FinishedKept(d, d, f)
  BY GoesSimple DEF InLine, Honest, FinishedKept
<1>2. ASSUME NEW p \in BOOLEAN, ~ p, NEW x, x = CreateAttempt(d, e, p, "created")
      PROVE  /\ Created(d, x, e)
             /\ \A f \in Exams \ {e}, j \in Slots : x.att[f][j] = d.att[f][j]
  <2>1. "created" \in Outcomes(e, p) /\ Creates(d, e, p, "created")
    BY <1>2 DEF Outcomes, Creates, MayCreate
  <2> QED BY <1>1, <1>2, <2>1, CreateAttemptDoes
<1>3. /\ Created(d, d1, e)
      /\ \A f \in Exams \ {e}, j \in Slots : d1.att[f][j] = d.att[f][j]
  BY <1>2, Zenon
<1>4. d2 = Update(d1, e, Latest(d1, e), "declined", FALSE)
  BY DEF AutoDeclined
<1> HIDE DEF d1
<1>5. OtherProctored(e) \subseteq Exams \ {e}
  BY DEF OtherProctored
<1>6. RoomToDecline(d1, e)
  BY <1>3, <1>5 DEF RoomToDecline, HasAttempt, Live, Unused
<1>7. ASSUME NEW n \in BOOLEAN, NEW x,
             x = Update(d1, e, Latest(d1, e), "declined", n)
      PROVE  Handled(d, x, e, "declined")
  BY <1>3, <1>6, <1>7, CreatedUpdateHandled
<1>8. Handled(d, d2, e, "declined")
  BY <1>4, <1>7, Zenon
<1> HIDE DEF d2
<1>9. e \in SatOnce /\ Live(d, e) = {} /\ Sound(d)
  BY DEF SatOnce, HasAttempt, InLine
<1>10. HasStatus(d2, e, {"declined"}) # {} /\ SatAt(d, d2, e, "declined")
  BY <1>8, <1>9 DEF Handled
<1>11. Live(d2, e) # {}
  BY <1>10 DEF HasStatus
<1>12. \E s \in Slots : Live(d2, e) = {s}
  <2>1. ~ MovedAt(d, d2, e, "declined")
    BY <1>9, <1>11, MovedLive
  <2>2. ~ ReplacedAt(d, d2, e) /\ ~ ReleasedAt(d, d2, e)
    BY <1>9, <1>11 DEF ReplacedAt, ReleasedAt, HasAttempt
  <2>3. BegunAt(d, d2, e)
    BY <1>10, <2>1, <2>2 DEF SatAt
  <2> QED BY <1>9, <2>3 DEF BegunAt, Unused
<1>13. PICK s \in Slots : Live(d2, e) = {s}
  BY <1>12
<1>14. Latest(d2, e) = s /\ d2.att[e][s].status = "declined"
  BY <1>10, <1>13, StageOfOnly DEF HasStatus
<1>15. HasAttempt(d2, e) /\ Current(d2, e).status = "declined"
  BY <1>11, <1>14 DEF HasAttempt, Current
<1> QED
  BY <1>8, <1>15 DEF d2

(* A read leaves the current attempt the current one, and not overdue.     *)
LEMMA ReadCurrent ==
  ASSUME NEW d, InLine(d), NEW e \in Exams, HasAttempt(d, e),
         NEW d1, d1 = Read(d, e, Latest(d, e))
  PROVE  /\ InLine(d1) /\ HasAttempt(d1, e)
         /\ Latest(d1, e) = Latest(d, e)
         /\ ~ Overdue(Current(d1, e))
         /\ Read(d1, e, Latest(d1, e)) = d1
<1> DEFINE i == Latest(d, e)
<1>1. i \in Live(d, e) /\ i \in Slots /\ \A j \in Live(d, e) : j <= i
  BY LatestIsLive
<1>2. Honest(d) /\ Sound(d)
  BY DEF InLine, Honest
<1>3. Goes(d, d1, "timed_out") /\ i \in Live(d1, e)
  BY <1>1, <1>2, ReadDoes
<1>4. InLine(d1)
  BY <1>3, MovedKeepsLine
<1>5. Live(d1, e) \subseteq Live(d, e)
  BY <1>2, <1>3, MovedLive DEF Goes, Moved
<1>6. HasAttempt(d1, e)
  BY <1>3 DEF HasAttempt
<1>7. Latest(d1, e) = i
  <2>1. Latest(d1, e) \in Live(d1, e) /\ i <= Latest(d1, e)
    BY <1>3, <1>6, LatestIsLive
  <2>2. Latest(d1, e) <= i
    BY <1>1, <1>5, <2>1
  <2>3. Latest(d1, e) \in Int /\ i \in Int
    BY <1>1, <2>1, ConstantsAssumption DEF Live, Slots
  <2> QED BY <2>1, <2>2, <2>3
<1>8. ~ Overdue(d1.att[e][i])
  <2>1. CASE ~ Overdue(d.att[e][i])
    BY <1>2, <2>1, ReadSound
  <2>2. CASE Overdue(d.att[e][i])
    <3>1. \A n \in BOOLEAN, s \in BOOLEAN : s /\ ~ n =>
            d1 = ClearOnboardingErrors(
                   SaveStatus(d, e, i, "timed_out", s, n), e, "submitted")
      BY <2>2, Zenon DEF Read
    <3>2. PICK s \in BOOLEAN, n \in BOOLEAN : s /\ ~ n
      OBVIOUS
    <3> DEFINE x == SaveStatus(d, e, i, "timed_out", s, n)
    <3>3. "timed_out" \in Completed /\ CanHave(e, "timed_out")
      BY DEF Completed, CanHave, Status, ValidStatus
    <3>4. IsLegal(d.att[e][i].status,
                  EffectiveStatus(d.att[e][i].status, "timed_out", AllowTimedOut))
      BY <3>3, EndingIsLegal
    <3>5. /\ Sound(x)
          /\ x.att[e][i].status
               = EffectiveStatus(d.att[e][i].status, "timed_out", AllowTimedOut)
      BY <1>1, <1>2, <3>3, <3>4, SaveStatusDoes
    <3>6. x.att[e][i].status \notin Incomplete
      BY <3>5 DEF EffectiveStatus, Incomplete, PreStarted, InProgress
    <3>7. d1 = ClearOnboardingErrors(x, e, "submitted")
      BY <3>1, <3>2
    <3> HIDE DEF x
    <3>8. d1.att[e][i] \in {x.att[e][i], Archived}
      BY <1>1, <3>5, <3>7, ClearOnboardingErrorsSound
    <3> QED BY <3>6, <3>8 DEF Overdue, Archived, NoRow
  <2> QED BY <2>1, <2>2
<1>9. Read(d1, e, i) = d1
  BY <1>4, <1>8, ReadSound DEF InLine
<1> QED
  BY <1>4, <1>6, <1>7, <1>8, <1>9 DEF Current

-----------------------------------------------------------------------------
(* Visits.                                                                 *)

(* A visit leaves the attempts in line, and so does a request of the       *)
(* micro-frontend.                                                         *)
LEMMA OpenedInLine ==
  ASSUME NEW d, InLine(d), NEW e \in Exams, RoomToOpen(d, e), NEW v
  PROVE  InLine(Opened(d, e, v)) /\ InLine(FrontendOpened(d, e))
<1>1. HasAttempt(d, e) => InLine(Read(d, e, Latest(d, e)))
  BY ReadCurrent
<1>2. Kind[e] = "proctored" /\ ~ HasAttempt(d, e) => InLine(AutoDeclined(d, e))
  BY AutoDeclinedHandled DEF RoomToOpen, Handled
<1> QED
  BY <1>1, <1>2 DEF Opened, FrontendOpened, AutoDeclines

(* Visits write what no other request of ExamAttempts writes only in the   *)
(* micro-frontend, which may read one attempt and then another.            *)
LEMMA StudentNextInLine ==
  AttemptsInLine /\ [StudentNext]_vars => AttemptsInLine'
<1> SUFFICES ASSUME AttemptsInLine, [StudentNext]_vars PROVE AttemptsInLine'
  OBVIOUS
<1>1. InLine(db) /\ pastDue \in SUBSET Dated
  BY DEF AttemptsInLine
<1>2. ASSUME InLine(db'), pastDue' = pastDue PROVE AttemptsInLine'
  BY <1>1, <1>2 DEF AttemptsInLine, InLine, Sound, UsedInOrder, Superseded,
     CreditHonest, Live, HasStatus
<1>3. CASE UNCHANGED vars
  BY <1>1, <1>2, <1>3 DEF vars
<1>4. ASSUME NEW e \in Exams, NEW v \in Visits, OpenPage(e, v)
      PROVE  AttemptsInLine'
  <2>1. db' = Opened(db, e, v) /\ pastDue' = pastDue
    BY <1>4 DEF OpenPage
  <2>2. CASE TurnedAway(e, v) \/ (~ HasAttempt(db, e) /\ ~ AutoDeclines(db, e, v))
    BY <1>1, <1>2, <2>1, <2>2 DEF Opened
  <2>3. CASE HasAttempt(db, e) \/ AutoDeclines(db, e, v)
    <3>1. RoomToOpen(db, e)
      BY <1>4, <2>3 DEF OpenPage, RoomToOpen, RoomToCreate
    <3> QED BY <1>1, <1>2, <2>1, <3>1, OpenedInLine
  <2> QED BY <2>2, <2>3
<1>5. ASSUME NEW e \in Exams, OpenInFrontend(e)
      PROVE  AttemptsInLine'
  <2>1. CASE RoomToOpen(db, e) /\ db' = FrontendOpened(db, e)
    BY <1>1, <1>2, <1>5, <2>1, OpenedInLine DEF OpenInFrontend
  <2>2. ASSUME NEW r \in Running,
               LET d1 == Read(db, r[1], r[2])
               IN IF r[1] = e THEN db' = d1
                  ELSE RoomToOpen(d1, e) /\ db' = FrontendOpened(d1, e)
        PROVE  AttemptsInLine'
    <3> DEFINE d1 == Read(db, r[1], r[2])
    <3>1. r[1] \in Exams /\ r[2] \in Live(db, r[1])
      BY DEF Running, HasStatus
    <3>2. InLine(d1)
      BY <1>1, <3>1, ReadHandled DEF Handled
    <3>3. IF r[1] = e THEN db' = d1
          ELSE RoomToOpen(d1, e) /\ db' = FrontendOpened(d1, e)
      BY <2>2
    <3> HIDE DEF d1
    <3> QED BY <1>2, <1>5, <3>2, <3>3, OpenedInLine DEF OpenInFrontend
  <2> QED BY <1>5, <2>1, <2>2 DEF OpenInFrontend
<1>6. ASSUME NEW e \in Exams, AttemptNext(e) \/ ReviewNext(e)
      PROVE  AttemptsInLine'
  BY <1>6, NextInLine DEF Next
<1> QED
  BY <1>3, <1>4, <1>5, <1>6 DEF StudentNext

(* The attempts at each exam stay in line with the pages that learners     *)
(* open, in the courseware and in the micro-frontend, and with what these  *)
(* visits end, decline and clear on the way.                               *)
THEOREM VisitsKeepInLine == StudentSpec => []AttemptsInLine
  BY InitInLine, StudentNextInLine, PTL DEF StudentSpec

-----------------------------------------------------------------------------
(* A second visit.                                                         *)

(* What a visit leaves is what the next one finds and leaves.              *)
LEMMA OpenedTwice ==
  ASSUME NEW d, InLine(d), NEW e \in Exams, RoomToOpen(d, e), NEW v,
         NEW d1, d1 = Opened(d, e, v)
  PROVE  /\ Opened(d1, e, v) = d1
         /\ PageOf(d1, e, v) = PageOf(d, e, v)
<1>1. CASE TurnedAway(e, v)
  BY <1>1 DEF Opened, PageOf
<1>2. CASE ~ TurnedAway(e, v) /\ HasAttempt(d, e)
  <2>1. d1 = Read(d, e, Latest(d, e))
    BY <1>2 DEF Opened
  <2>2. HasAttempt(d1, e) /\ Read(d1, e, Latest(d1, e)) = d1
    BY <1>2, <2>1, ReadCurrent
  <2>3. Opened(d1, e, v) = d1
    BY <1>2, <2>2 DEF Opened
  <2>4. ~ AutoDeclines(d, e, v) /\ ~ AutoDeclines(d1, e, v)
    BY <1>2, <2>2 DEF AutoDeclines
  <2> QED BY <1>2, <2>3, <2>4 DEF PageOf
<1>3. CASE ~ TurnedAway(e, v) /\ ~ HasAttempt(d, e) /\ AutoDeclines(d, e, v)
  <2>1. d1 = AutoDeclined(d, e) /\ Kind[e] = "proctored"
    BY <1>3 DEF Opened, AutoDeclines
  <2>2. /\ Handled(d, d1, e, "declined") /\ HasAttempt(d1, e)
        /\ Current(d1, e).status = "declined"
    BY <1>3, <2>1, AutoDeclinedHandled DEF RoomToOpen
  <2>3. InLine(d1) /\ ~ Overdue(d1.att[e][Latest(d1, e)])
    BY <2>2 DEF Handled, Overdue, Current, Incomplete, PreStarted, InProgress
  <2>4. Read(d1, e, Latest(d1, e)) = d1
    BY <2>3, ReadSound DEF InLine
  <2>5. Opened(d1, e, v) = d1
    BY <1>3, <2>2, <2>4 DEF Opened
  <2>6. ~ AutoDeclines(d1, e, v)
    BY <2>2 DEF AutoDeclines
  <2>7. PageOf(d1, e, v) = "content"
    BY <2>1, <2>2, <2>5, <2>6 DEF PageOf, Rendered, ProctoredPage
  <2>8. PageOf(d, e, v) = "content"
    BY <1>3 DEF PageOf
  <2> QED BY <2>5, <2>7, <2>8
<1>4. CASE ~ TurnedAway(e, v) /\ ~ HasAttempt(d, e) /\ ~ AutoDeclines(d, e, v)
  BY <1>4 DEF Opened
<1> QED
  BY <1>1, <1>2, <1>3, <1>4

(* To an admitted learner it does not matter whether the exam was opened   *)
(* in the micro-frontend first.                                            *)
LEMMA OpenedElsewhereFirst ==
  ASSUME NEW d, InLine(d), NEW e \in Exams \ pastDue, RoomToOpen(d, e),
         NEW v, v = {}
  PROVE  Opened(FrontendOpened(d, e), e, v) = Opened(d, e, v)
<1>1. ~ TurnedAway(e, v)
  BY DEF TurnedAway
<1>2. FrontendOpened(d, e) = Opened(d, e, v)
  BY <1>1 DEF FrontendOpened, Opened, AutoDeclines
<1> QED
  BY <1>2, OpenedTwice

(* Whatever state the attempts are in and however the exam is visited, to  *)
(* load its page again shows the same page and writes nothing more.        *)
THEOREM PageAlwaysStable == StudentSpec => []PageIsStable
<1>1. AttemptsInLine => PageIsStable
  <2> SUFFICES ASSUME AttemptsInLine, NEW e \in Exams, NEW v \in Visits,
                      RoomToOpen(db, e)
               PROVE  StableAfter(Opened(db, e, v), e, v)
    BY DEF PageIsStable
  <2>1. InLine(db)
    BY DEF AttemptsInLine
  <2> QED BY <2>1, OpenedTwice, OpenedElsewhereFirst DEF StableAfter
<1> QED
  BY <1>1, VisitsKeepInLine, PTL

-----------------------------------------------------------------------------
(* What a page shows and offers.                                           *)

(* After a visit without attempt there still is none, or it is declined;   *)
(* after one with an attempt the attempt is not overdue.                   *)
LEMMA OpenedCurrent ==
  ASSUME NEW d, InLine(d), NEW e \in Exams, HasAttempt(d, e), NEW v,
         ~ TurnedAway(e, v), NEW d1, d1 = Opened(d, e, v)
  PROVE  /\ InLine(d1) /\ HasAttempt(d1, e) /\ ~ Overdue(Current(d1, e))
         /\ Current(d1, e).status \in Status
         /\ PageOf(d, e, v) = Rendered(d1, e, v)
<1>1. d1 = Read(d, e, Latest(d, e))
  BY DEF Opened
<1>2. InLine(d1) /\ HasAttempt(d1, e) /\ ~ Overdue(Current(d1, e))
  BY <1>1, ReadCurrent
<1>3. Current(d1, e) \in Attempt
  BY <1>2, LatestIsLive DEF Current, InLine, Sound, RowSound
<1>4. ~ AutoDeclines(d, e, v)
  BY DEF AutoDeclines
<1> QED
  BY <1>2, <1>3, <1>4 DEF PageOf, Attempt

(* Content is shown of an attempt that was started and is not finished     *)
(* only while time remains, and before the due date or in a practice exam. *)
THEOREM ContentAlwaysInTime == StudentSpec => []ContentInTime
<1>1. AttemptsInLine => ContentInTime
  <2> SUFFICES ASSUME AttemptsInLine, NEW e \in Exams, NEW v \in Visits,
                      NEW d1, d1 = Opened(db, e, v), NEW a, a = Current(d1, e),
                      HasAttempt(db, e), ~ TurnedAway(e, v),
                      PageOf(db, e, v) = "content",
                      a.started, a.status \in Incomplete
               PROVE  ~ a.expired /\ (e \in pastDue => Kind[e] = "practice")
    BY DEF ContentInTime
  <2>1. InLine(db)
    BY DEF AttemptsInLine
  <2>2. /\ HasAttempt(d1, e) /\ ~ Overdue(a)
        /\ Rendered(d1, e, v) = "content"
    BY <2>1, OpenedCurrent
  <2>3. ~ a.expired
    BY <2>2 DEF Overdue
  <2>4. ASSUME e \in pastDue, Kind[e] = "timed" PROVE FALSE
    <3>1. a.status # "created"
      BY <2>2, <2>4 DEF Rendered, TimedPage
    <3>2. a.status \notin {"timed_out", "submitted"}
      BY DEF Incomplete, PreStarted, InProgress
    <3>3. TimedPage(d1, e, v) = "expired"
      BY <2>2, <2>4, <3>1, <3>2 DEF TimedPage
    <3> QED BY <2>2, <2>4, <3>3 DEF Rendered
  <2>5. ASSUME e \in pastDue, Kind[e] = "proctored" PROVE FALSE
    <3>1. a.status # "declined"
      BY DEF Incomplete, PreStarted, InProgress
    <3>2. AttemptedPage(e, a, v) = "expired"
      BY <2>5 DEF AttemptedPage
    <3> QED BY <2>2, <2>5, <3>1, <3>2 DEF Rendered, ProctoredPage
  <2>6. Kind[e] \in {"timed", "proctored", "practice"}
    BY ConstantsAssumption DEF ExamKinds
  <2> QED BY <2>3, <2>4, <2>5, <2>6
<1> QED
  BY <1>1, VisitsKeepInLine, PTL

-----------------------------------------------------------------------------
(* What a page offers.                                                     *)

(* The reset of a practice exam that is over makes a new attempt.          *)
LEMMA ResetMakesAttempt ==
  ASSUME NEW d, InLine(d), NEW e \in Exams \ pastDue, Kind[e] = "practice",
         HasAttempt(d, e), Unused(d, e) # {},
         Current(d, e).status \notin Incomplete \cup {"verified"}
  PROVE  PracticeReset(d, e, "created") # d
<1> DEFINE k == Latest(d, e)
           a == d.att[e][k]
           row == [a EXCEPT !.status = "onboarding_reset"]
           d2 == IF a.status = "submitted" THEN Removed(d, e, k)
                 ELSE [d EXCEPT !.att[e][k].status = "onboarding_reset"]
           d3 == PracticeReset(d, e, "created")
<1>1. Honest(d) /\ Sound(d) /\ e \notin SatOnce
  BY DEF InLine, Honest, SatOnce
<1>2. k \in Live(d, e) /\ k \in Slots
  BY LatestIsLive
<1>3. RowSound(e, a) /\ a \in Attempt
  BY <1>1, <1>2 DEF Sound, RowSound
<1>4. RowSound(e, row)
  BY <1>3 DEF RowSound, Attempt, InResumeProcess, Status
<1>5. RowMove(e, a, row, "timed_out")
  <2>1. /\ row.row = a.row /\ row.resumed = a.resumed /\ row.status = "onboarding_reset"
        /\ row.started = a.started
    BY <1>3 DEF Attempt
  <2> HIDE DEF row
  <2> QED BY <1>1, <2>1 DEF RowMove, OnRequest, OnboardingErrors
<1>6. [d EXCEPT !.att[e][k].status = "onboarding_reset"] = WithRow(d, e, k, row)
  BY DEF WithRow
<1>7. d3 = CreateAttempt(d2, e, a.proctored, "created")
  BY DEF PracticeReset, Current
<1> HIDE DEF row
<1>8. /\ Goes(d, d2, "timed_out")
      /\ \A f \in Exams \ {e} : FinishedKept(d, d2, f)
  <2>1. CASE d2 = Removed(d, e, k)
    BY <1>1, <1>2, <2>1, RemovedDoes
  <2>2. CASE d2 = WithRow(d, e, k, row)
    BY <1>1, <1>2, <1>4, <1>5, <2>2, ArchiveDoes
  <2> QED BY <1>6, <2>1, <2>2
<1>9. a.proctored \in BOOLEAN /\ "created" \in Outcomes(e, a.proctored)
  BY <1>3 DEF Attempt, Outcomes
<1> HIDE DEF d2, d3, a, k
<1>10. Creates(d2, e, a.proctored, "created")
  BY DEF Creates, MayCreate
<1>11. Created(d, d3, e)
  BY <1>1, <1>7, <1>8, <1>9, <1>10, CreateAttemptDoes
<1>12. d3 # d
  BY <1>11 DEF Created, Unused, Live
<1> QED
  BY <1>12 DEF d3

(* A page of an exam with an attempt that offers to go on shows the state  *)
(* the attempt is in.                                                      *)
LEMMA WorkPageShows ==
  ASSUME NEW status
  PROVE  /\ WorkPage(status) \in {"ready_to_start", "ready_to_submit",
                                  "submitted", "error"}
              => status = WorkPage(status)
         /\ WorkPage(status) \notin {"entrance", "ready_to_resume", "rejected"}
<1>1. CASE status \in {"created", "download_software_clicked"}
  BY <1>1 DEF WorkPage
<1>2. CASE status \in {"ready_to_start", "ready_to_submit", "submitted", "error"}
  BY <1>2 DEF WorkPage
<1>3. CASE status \notin {"created", "download_software_clicked", "ready_to_start",
                          "ready_to_submit", "submitted", "error"}
  BY <1>3 DEF WorkPage
<1> QED
  BY <1>1, <1>2, <1>3

(* What the page of a practice exam that has an attempt offers.            *)
LEMMA PracticePageOffers ==
  ASSUME NEW d, NEW e, HasAttempt(d, e), NEW v, NEW page, page = PracticePage(d, e, v),
         NEW a, a = Current(d, e)
  PROVE  /\ page # "entrance"
         /\ page = "ready_to_resume" => InResumeProcess(a)
         /\ page \in {"ready_to_start", "ready_to_submit"} => a.status = page
         /\ page \in {"submitted", "rejected", "error"} =>
              a.status \in {"submitted", "second_review_required", "rejected", "error"}
<1>1. CASE "inactive_account" \in v
  BY <1>1 DEF PracticePage
<1>2. CASE "inactive_account" \notin v /\ ReadyToResume(a)
  BY <1>2 DEF PracticePage, ReadyToResume, InResumeProcess
<1>3. CASE "inactive_account" \notin v /\ ~ ReadyToResume(a) /\ SupportsOnboarding
  <2>1. page = OnboardingPage(a.status)
    BY <1>3 DEF PracticePage
  <2>2. CASE a.status \in {"verified", "rejected"}
    BY <2>1, <2>2 DEF OnboardingPage
  <2>3. CASE a.status = "second_review_required"
    BY <2>1, <2>3 DEF OnboardingPage
  <2>4. CASE a.status \notin {"verified", "rejected", "second_review_required"}
    <3>1. page = WorkPage(a.status)
      BY <2>1, <2>4 DEF OnboardingPage
    <3> QED BY <3>1, WorkPageShows
  <2> QED BY <2>2, <2>3, <2>4
<1>4. CASE "inactive_account" \notin v /\ ~ ReadyToResume(a) /\ ~ SupportsOnboarding
  <2>1. page = "wrong_browser" \/ page = WorkPage(a.status)
    BY <1>4 DEF PracticePage
  <2> QED BY <2>1, WorkPageShows
<1> QED
  BY <1>1, <1>2, <1>3, <1>4

(* What the page of a proctored exam that has an attempt offers.           *)
LEMMA ProctoredPageOffers ==
  ASSUME NEW d, NEW e, HasAttempt(d, e), NEW v, NEW page, page = ProctoredPage(d, e, v),
         NEW a, a = Current(d, e)
  PROVE  /\ page # "entrance"
         /\ page = "ready_to_resume" => InResumeProcess(a)
         /\ page \in {"ready_to_start", "ready_to_submit"} => a.status = page
<1>1. page \in {"content", "inactive_account"} \/ page = AttemptedPage(e, a, v)
  BY DEF ProctoredPage
<1>2. CASE e \in pastDue /\ a.status \in Incomplete
  <2>1. AttemptedPage(e, a, v) = "expired"
    BY <1>2 DEF AttemptedPage
  <2> QED BY <1>1, <2>1
<1>3. CASE ~ (e \in pastDue /\ a.status \in Incomplete) /\ ReadyToResume(a)
  <2>1. AttemptedPage(e, a, v) = "ready_to_resume"
    BY <1>3 DEF AttemptedPage
  <2> QED BY <1>1, <1>3, <2>1 DEF ReadyToResume, InResumeProcess
<1>4. CASE ~ (e \in pastDue /\ a.status \in Incomplete) /\ ~ ReadyToResume(a)
  <2> DEFINE Reviewed == {"submitted", "second_review_required", "verified", "rejected"}
  <2>1. CASE a.status \in {"started", "timed_out"} \cup OnboardingErrors
    <3>1. AttemptedPage(e, a, v) \in {"wrong_browser", "content", "raises",
                                      "onboarding_error"}
      BY <1>4, <2>1 DEF AttemptedPage, OnboardingErrors
    <3> QED BY <1>1, <3>1
  <2>2. CASE a.status \in Reviewed
    <3>1. AttemptedPage(e, a, v) = ResultPage(e, a.status, v)
      BY <1>4, <2>2 DEF AttemptedPage, OnboardingErrors
    <3> QED BY <1>1, <2>2, <3>1 DEF ResultPage
  <2>3. CASE a.status \notin {"started", "timed_out"} \cup OnboardingErrors \cup Reviewed
    <3>1. AttemptedPage(e, a, v) = WorkPage(a.status)
      BY <1>4, <2>3 DEF AttemptedPage
    <3> QED BY <1>1, <3>1, WorkPageShows
  <2> QED BY <2>1, <2>2, <2>3
<1> QED
  BY <1>2, <1>3, <1>4

(* What a learner who is shown that the exam may be entered, resumed,      *)
(* started, ended or tried again asks for is carried out: every condition  *)
(* of the page implies the condition of the request.                       *)
THEOREM OffersAlwaysStand == StudentSpec => []OfferStands
<1>1. AttemptsInLine => OfferStands
  <2> SUFFICES ASSUME AttemptsInLine, NEW e \in Exams \ pastDue, NEW v \in Visits,
                      Kind[e] = "timed" => ~ HasAttempt(db, e),
                      NEW d1, d1 = Opened(db, e, v),
                      NEW page, page = PageOf(db, e, v)
               PROVE  Accepted(d1, e, page)
    BY DEF OfferStands
  <2> DEFINE a == Current(d1, e)
  <2>1. InLine(db)
    BY DEF AttemptsInLine
  <2>2. /\ IsLegal("ready_to_start", "started")
        /\ IsLegal("ready_to_submit", "submitted")
        /\ IsLegal("ready_to_submit", "started")
    BY DEF IsLegal, Completed, OnboardingErrors
  <2>3. CASE page = "content"
    BY <2>3 DEF Accepted
  <2>4. CASE ~ HasAttempt(db, e) /\ page # "content"
    <3>1. d1 = db /\ page = Rendered(db, e, v)
      BY <2>4 DEF PageOf, Opened
    <3>2. page \in {"entrance", "expired", "inactive_account", "failed_prerequisites",
                    "pending_prerequisites"}
      <4>1. CASE Kind[e] = "timed"
        BY <2>4, <3>1, <4>1 DEF Rendered, TimedPage
      <4>2. CASE Kind[e] = "practice"
        <5>1. page = PracticePage(db, e, v)
          BY <3>1, <4>2 DEF Rendered
        <5> QED BY <2>4, <5>1 DEF PracticePage
      <4>3. CASE Kind[e] = "proctored"
        <5>1. page = ProctoredPage(db, e, v)
          BY <3>1, <4>3 DEF Rendered
        <5>2. page \in {"inactive_account", EntrancePage(db, e)}
          BY <2>4, <5>1 DEF ProctoredPage
        <5> QED BY <5>2 DEF EntrancePage
      <4> QED BY <4>1, <4>2, <4>3, ConstantsAssumption DEF ExamKinds
    <3>3. Creates(d1, e, Kind[e] # "timed", "created")
      BY <2>4, <3>1 DEF Creates, MayCreate
    <3> QED BY <3>2, <3>3 DEF Accepted
  <2>5. CASE HasAttempt(db, e) /\ page # "content"
    <3>1. ~ TurnedAway(e, v)
      BY <2>5 DEF PageOf
    <3>2. /\ InLine(d1) /\ HasAttempt(d1, e)
          /\ page = Rendered(d1, e, v)
      BY <2>1, <2>5, <3>1, OpenedCurrent
    <3>3. Kind[e] \in {"practice", "proctored"}
      BY <2>5, ConstantsAssumption DEF ExamKinds
    <3>4. /\ page # "entrance"
          /\ page = "ready_to_resume" => InResumeProcess(a)
          /\ page \in {"ready_to_start", "ready_to_submit"} => a.status = page
          /\ page \in {"submitted", "rejected", "error"} /\ Kind[e] = "practice" =>
               a.status \in {"submitted", "second_review_required", "rejected", "error"}
      <4>1. CASE Kind[e] = "practice"
        <5>1. page = PracticePage(d1, e, v)
          BY <3>2, <4>1 DEF Rendered
        <5> QED BY <3>2, <5>1, PracticePageOffers
      <4>2. CASE Kind[e] = "proctored"
        <5>1. page = ProctoredPage(d1, e, v)
          BY <3>2, <4>2 DEF Rendered
        <5> QED BY <3>2, <4>2, <5>1, ProctoredPageOffers
      <4> QED BY <3>3, <4>1, <4>2
    <3>5. CASE page = "ready_to_resume"
      <4>1. Creates(d1, e, Kind[e] # "timed", "created")
        BY <3>4, <3>5 DEF Creates, MayCreate, Current
      <4> QED BY <3>5, <4>1 DEF Accepted
    <3>6. CASE page = "ready_to_start"
      BY <2>2, <3>4, <3>6 DEF Accepted
    <3>7. CASE page = "ready_to_submit"
      BY <2>2, <3>4, <3>7 DEF Accepted
    <3>8. CASE page \in {"submitted", "rejected", "error"}
      <4>1. ASSUME Kind[e] = "practice", Unused(d1, e) # {}
            PROVE  PracticeReset(d1, e, "created") # d1
        <5>1. a.status \notin Incomplete \cup {"verified"}
          BY <3>4, <3>8, <4>1 DEF Incomplete, PreStarted, InProgress
        <5> QED BY <3>2, <4>1, <5>1, ResetMakesAttempt
      <4> QED BY <3>8, <4>1 DEF Accepted
    <3>9. CASE page \notin {"entrance", "ready_to_resume", "ready_to_start",
                            "ready_to_submit", "submitted", "rejected", "error"}
      BY <3>9 DEF Accepted
    <3> QED BY <3>4, <3>5, <3>6, <3>7, <3>8, <3>9
  <2> QED BY <2>3, <2>4, <2>5
<1> QED
  BY <1>1, VisitsKeepInLine, PTL

-----------------------------------------------------------------------------
(* What a page can show of the status it is made from.                     *)

(* A visit, too, leaves the rows telling what they told.                   *)
LEMMA OpenedTells ==
  ASSUME NEW d, Tells(d), NEW e \in Exams, NEW v
  PROVE  Tells(Opened(d, e, v)) /\ Tells(FrontendOpened(d, e))
<1> DEFINE d1 == CreateAttempt(d, e, FALSE, "created")
<1>1. ASSUME NEW p \in BOOLEAN, ~ p
      PROVE  Tells(CreateAttempt(d, e, p, "created"))
  BY <1>1, CreateAttemptTells DEF Outcomes
<1>2. Tells(d1)
  BY <1>1, Zenon
<1>3. AutoDeclined(d, e) = Update(d1, e, Latest(d1, e), "declined", FALSE)
  BY DEF AutoDeclined
<1> HIDE DEF d1
<1>4. Tells(AutoDeclined(d, e))
  BY <1>2, <1>3, DeclinedTells
<1>5. Tells(Read(d, e, Latest(d, e)))
  BY ReadTells
<1> QED
  BY <1>4, <1>5 DEF Opened, FrontendOpened

(* Steps of StudentView, as those of ExamAttempts, keep the rows telling.  *)
LEMMA StudentNextTells ==
  AttemptsInLine /\ RowsTell /\ [StudentNext]_vars => RowsTell'
<1> SUFFICES ASSUME AttemptsInLine, RowsTell, [StudentNext]_vars PROVE RowsTell'
  OBVIOUS
<1>1. RowsSound /\ Tells(db)
  BY DEF AttemptsInLine, InLine, RowsSound, RowsTell
<1>2. CASE UNCHANGED vars
  BY <1>1, <1>2 DEF vars, RowsTell
<1>3. ASSUME NEW e \in Exams, NEW v \in Visits, OpenPage(e, v)
      PROVE  RowsTell'
  BY <1>1, <1>3, OpenedTells DEF OpenPage, RowsTell
<1>4. ASSUME NEW e \in Exams, OpenInFrontend(e)
      PROVE  RowsTell'
  <2>1. \A r \in Running : r[1] \in Exams /\ Tells(Read(db, r[1], r[2]))
    BY <1>1, ReadTells DEF Running
  <2>2. \/ db' = FrontendOpened(db, e)
        \/ \E r \in Running : \/ db' = Read(db, r[1], r[2])
                               \/ db' = FrontendOpened(Read(db, r[1], r[2]), e)
    BY <1>4 DEF OpenInFrontend
  <2>3. Tells(FrontendOpened(db, e))
        /\ \A r \in Running : Tells(FrontendOpened(Read(db, r[1], r[2]), e))
    BY <1>1, <2>1, OpenedTells
  <2> QED BY <2>1, <2>2, <2>3 DEF RowsTell
<1>5. ASSUME NEW e \in Exams, AttemptNext(e) \/ ReviewNext(e)
      PROVE  RowsTell'
  BY <1>1, <1>5, NextRowsTell DEF RowsTell
<1> QED
  BY <1>2, <1>3, <1>4, <1>5 DEF StudentNext

(* In every reachable state the status of a row tells how it came about.   *)
LEMMA VisitsTell == StudentSpec => [](AttemptsInLine /\ RowsTell)
<1>1. Init => AttemptsInLine /\ RowsTell
  BY InitInLine, InitRowsTell
<1>2. (AttemptsInLine /\ RowsTell) /\ [StudentNext]_vars => (AttemptsInLine /\ RowsTell)'
  BY StudentNextInLine, StudentNextTells
<1> QED
  BY <1>1, <1>2, PTL DEF StudentSpec

(* The page of a submitted attempt never fails for the lack of a time of   *)
(* completion, if staff cannot set a time-out that is saved as a           *)
(* submission: whoever submits a started attempt stores that time.         *)
THEOREM SubmittedAlwaysRenders ==
  ASSUME TimeOutsKept
  PROVE  StudentSpec => []SubmittedPageRenders
<1>1. AttemptsInLine /\ RowsTell => SubmittedPageRenders
  <2> SUFFICES ASSUME AttemptsInLine, RowsTell, NEW e \in Exams, NEW v \in Visits,
                      NEW d1, d1 = Opened(db, e, v), NEW a, a = Current(d1, e),
                      HasAttempt(db, e), a.started, a.status = "submitted"
               PROVE  PageOf(db, e, v) # "raises"
    BY DEF SubmittedPageRenders
  <2>1. CASE TurnedAway(e, v)
    BY <2>1 DEF PageOf
  <2>2. CASE ~ TurnedAway(e, v)
    <3>1. InLine(db) /\ Tells(db)
      BY DEF AttemptsInLine, RowsTell
    <3>2. /\ InLine(d1) /\ HasAttempt(d1, e)
          /\ PageOf(db, e, v) = Rendered(d1, e, v)
      BY <2>2, <3>1, OpenedCurrent
    <3>3. a.completed
      <4>1. Tells(d1)
        BY <3>1, OpenedTells
      <4>2. RowTells(a)
        BY <3>2, <4>1, LatestIsLive DEF Tells, Current
      <4> QED BY <4>2 DEF RowTells
    <3>4. CASE Kind[e] = "timed"
      <4>1. TimedPage(d1, e, v) \in {"content", "submitted"}
        BY <3>2, <3>3 DEF TimedPage, Incomplete, PreStarted, InProgress
      <4> QED BY <3>2, <3>4, <4>1 DEF Rendered
    <3>5. CASE Kind[e] = "practice"
      <4>1. PracticePage(d1, e, v) \in {"inactive_account", "ready_to_resume", "submitted"}
        BY <3>2 DEF PracticePage, OnboardingPage, WorkPage
      <4> QED BY <3>2, <3>5, <4>1 DEF Rendered
    <3>6. CASE Kind[e] = "proctored"
      <4>1. AttemptedPage(e, a, v) \in {"ready_to_resume", "content", "submitted"}
        BY DEF AttemptedPage, ResultPage, Incomplete, PreStarted, InProgress,
               OnboardingErrors
      <4>2. ProctoredPage(d1, e, v) \in {"inactive_account", AttemptedPage(e, a, v)}
        BY <3>2 DEF ProctoredPage
      <4> QED BY <3>2, <3>6, <4>1, <4>2 DEF Rendered
    <3> QED BY <3>4, <3>5, <3>6, ConstantsAssumption DEF ExamKinds
  <2> QED BY <2>1, <2>2
<1> QED
  BY <1>1, VisitsTell, PTL

(* What the outline says and what the page shows of an attempt, for each   *)
(* status it can have.                                                     *)
LEMMA OutlineMatchesPage ==
  ASSUME NEW e \in Exams \ pastDue, NEW a, a.status \in ValidStatus,
         a.status # "declined", a.status # "timed_out",
         a.status \in Incomplete => ~ InResumeProcess(a),
         a.status \in OnboardingErrors =>
           ~ InResumeProcess(a) /\ \E f \in Exams : Kind[f] = "practice"
  PROVE  Agree(OutlineOf(a.status), AttemptedPage(e, a, {}))
<1> DEFINE page == AttemptedPage(e, a, {})
           Results == {"submitted", "second_review_required", "verified", "rejected"}
<1>1. CASE a.status \in Results \cup {"error"}
  <2>1. OutlineOf(a.status) = "completed"
    BY <1>1 DEF OutlineOf
  <2>2. CASE ReadyToResume(a)
    <3>1. page = "ready_to_resume"
      BY <2>2 DEF AttemptedPage
    <3> QED BY <2>1, <3>1 DEF Agree
  <2>3. CASE ~ ReadyToResume(a) /\ a.status \in Results
    <3>1. page = ResultPage(e, a.status, {})
      BY <2>3 DEF AttemptedPage, OnboardingErrors
    <3>2. page \in {"submitted", "verified", "rejected"}
      BY <2>3, <3>1 DEF ResultPage
    <3> QED BY <2>1, <3>2 DEF Agree
  <2>4. CASE ~ ReadyToResume(a) /\ a.status = "error"
    <3>1. page = "error"
      BY <2>4 DEF AttemptedPage, OnboardingErrors, WorkPage
    <3> QED BY <2>1, <3>1 DEF Agree
  <2> QED BY <1>1, <2>2, <2>3, <2>4
<1>2. CASE a.status \in Incomplete \cup OnboardingErrors
  <2>1. OutlineOf(a.status) = "taking" /\ ~ ReadyToResume(a)
    BY <1>2 DEF OutlineOf, ReadyToResume, InResumeProcess, Incomplete, PreStarted,
                InProgress, OnboardingErrors
  <2>2. CASE a.status \in OnboardingErrors
    <3>1. page = "onboarding_error"
      BY <2>1, <2>2 DEF AttemptedPage, OnboardingErrors
    <3> QED BY <2>1, <3>1 DEF Agree
  <2>3. CASE a.status = "started"
    <3>1. page = "content"
      BY <2>1, <2>3 DEF AttemptedPage, OnboardingErrors
    <3> QED BY <2>1, <3>1 DEF Agree
  <2>4. CASE a.status \in Incomplete \ {"started"}
    <3>1. page = WorkPage(a.status)
      BY <2>1, <2>4 DEF AttemptedPage, OnboardingErrors, Incomplete, PreStarted,
                        InProgress
    <3>2. WorkPage(a.status)
            \in {"instructions", "ready_to_start", "content", "ready_to_submit"}
      BY <2>4 DEF WorkPage, Incomplete, PreStarted, InProgress
    <3> QED BY <2>1, <3>1, <3>2 DEF Agree
  <2> QED BY <1>2, <2>2, <2>3, <2>4
<1> QED
  BY <1>1, <1>2 DEF ValidStatus, Completed

(* The outline of the course and the page of a proctored exam never        *)
(* contradict each other.  Where time-outs are kept the page cannot be     *)
(* computed of one, nor of an onboarding error without an onboarding exam. *)
THEOREM OutlineAlwaysAgrees ==
  ASSUME ~ AllowTimedOut, ErrorsRegistered,
         RegistrationErrors # {} => \E f \in Exams : Kind[f] = "practice"
  PROVE  StudentSpec => []OutlineAgrees
<1>1. AttemptsInLine /\ RowsTell => OutlineAgrees
  <2> SUFFICES ASSUME AttemptsInLine, RowsTell, NEW e \in Exams \ pastDue,
                      Kind[e] = "proctored", ~ AutoDeclines(db, e, {})
               PROVE  Agree(Outline(db, e), PageOf(db, e, {}))
    BY DEF OutlineAgrees
  <2>1. InLine(db) /\ Tells(db) /\ ~ TurnedAway(e, {})
    BY DEF AttemptsInLine, RowsTell, TurnedAway
  <2>2. CASE ~ HasAttempt(db, e)
    <3>1. Outline(db, e) = "option available" /\ Opened(db, e, {}) = db
      BY <2>1, <2>2 DEF Outline, Opened
    <3>2. PageOf(db, e, {}) = EntrancePage(db, e)
      BY <2>1, <2>2, <3>1 DEF PageOf, Rendered, ProctoredPage
    <3>3. EntrancePage(db, e)
            \in {"entrance", "failed_prerequisites", "pending_prerequisites"}
      BY DEF EntrancePage
    <3> QED BY <3>1, <3>2, <3>3 DEF Agree
  <2>3. CASE HasAttempt(db, e)
    <3> DEFINE d1 == Opened(db, e, {})
               a  == Current(d1, e)
    <3>1. /\ InLine(d1) /\ HasAttempt(d1, e)
          /\ PageOf(db, e, {}) = Rendered(d1, e, {})
      BY <2>1, <2>3, OpenedCurrent
    <3>2. Outline(db, e) = OutlineOf(a.status)
      BY <2>1, <2>3 DEF Outline, OutlineRead, Opened
    <3>3. RowSound(e, a) /\ RowTells(a)
      <4>1. Tells(d1)
        BY <2>1, OpenedTells
      <4> HIDE DEF d1
      <4> QED BY <3>1, <4>1, LatestIsLive DEF Tells, Sound, Current
    <3> HIDE DEF d1, a
    <3>4. CASE a.status = "declined"
      <4>1. PageOf(db, e, {}) = "content"
        BY <3>1, <3>4 DEF Rendered, ProctoredPage, a
      <4> QED BY <3>2, <3>4, <4>1 DEF OutlineOf, Agree
    <3>5. CASE a.status # "declined"
      <4>1. PageOf(db, e, {}) = AttemptedPage(e, a, {})
        BY <3>1, <3>5 DEF Rendered, ProctoredPage, a
      <4>2. /\ a.status \in ValidStatus /\ a.status # "timed_out"
            /\ a.status \in Incomplete => ~ InResumeProcess(a)
            /\ a.status \in OnboardingErrors =>
                 a.status \in RegistrationErrors /\ ~ InResumeProcess(a)
        BY <3>3 DEF RowSound, RowTells
      <4> QED BY <3>2, <3>5, <4>1, <4>2, OutlineMatchesPage
    <3> QED BY <3>4, <3>5
  <2> QED BY <2>2, <2>3
<1> QED
  BY <1>1, VisitsTell, PTL
=============================================================================
