-------------------------- MODULE ExamPage_proofs --------------------------
(***************************************************************************)
(* Proofs about ExamPage: whatever the tabs, the application and the calls *)
(* between page and server do, and in whatever order, the exam is only     *)
(* taken with the application, and no timer runs ahead of the server's.    *)
(***************************************************************************)
EXTENDS ExamPage, StudentView_proofs

-----------------------------------------------------------------------------
(* What the handlers of the server make of the attempt.                    *)

(* One exam and one attempt.                                               *)
LEMMA OneAttempt ==
  /\ Exam \in Exams /\ Exam \in SatOnce /\ Kind[Exam] = "proctored"
  /\ Slots = {1} /\ OtherProctored(Exam) = {}
  /\ \A d : HasAttempt(d, Exam) <=> d.att[Exam][1].row = "live"
  /\ \A d : HasAttempt(d, Exam) => Latest(d, Exam) = 1
  /\ \A d : Current(d, Exam) = d.att[Exam][Latest(d, Exam)]
<1>1. Exam \in Exams /\ Kind[Exam] = "proctored" /\ Exam \in SatOnce
  BY PageAssumption DEF SatOnce
<1>2. Slots = {1}
  BY PageAssumption DEF Slots
<1>3. OtherProctored(Exam) = {}
  BY PageAssumption DEF OtherProctored
<1>4. \A d : HasAttempt(d, Exam) <=> d.att[Exam][1].row = "live"
  BY <1>2 DEF HasAttempt, Live
<1>5. \A d : HasAttempt(d, Exam) => Latest(d, Exam) = 1
  BY <1>1, <1>2, LatestIsLive
<1> QED
  BY <1>1, <1>2, <1>3, <1>4, <1>5 DEF Current

(* What a handler that asks for the status `to' may make of the attempt:   *)
(* a complete one stays complete, and only a start starts it.              *)
Goes1(a, b, to) ==
  /\ b.row = a.row
  /\ a.started => b.started
  /\ b.started /\ ~ a.started => to = "started"
  /\ a.status \in Completed => b.status \in Completed
  /\ b.status \in InProgress => b.status \in {a.status, to}
  /\ b.status \in InProgress /\ b.status # a.status /\ to = "started" => b.started
  /\ to = "submitted" => b.status = "submitted"

(* A status that is saved moves the row on.                                *)
LEMMA SavedGoes1 ==
  ASSUME NEW a \in Attempt, NEW to, NEW s, NEW n,
         to \in {"started", "ready_to_submit", "submitted", "error",
                 "ready_to_start", "timed_out"},
         IsLegal(a.status, EffectiveStatus(a.status, to, AllowTimedOut))
  PROVE  Goes1(a, Saved(a, to, s, n), to)
<1> DEFINE b == Saved(a, to, s, n)
           new == EffectiveStatus(a.status, to, AllowTimedOut)
<1>1. /\ b.row = a.row /\ b.status = new
      /\ b.started = (a.started \/ (new = "started" /\ ~ a.started))
  BY DEF Saved, Attempt
<1>2. new \in {to, "submitted"} /\ (to \in {"submitted", "started"} => new = to)
  BY DEF EffectiveStatus, IsReattempting, PreStarted
<1>3. new \in Completed \/ new \in Incomplete
  BY <1>2 DEF Completed, Incomplete, InProgress, PreStarted
<1>4. a.status \in Completed => new \in Completed
  BY <1>3 DEF IsLegal
<1>5. "submitted" \notin InProgress
  BY DEF InProgress
<1> HIDE DEF b, new
<1>6. Goes1(a, b, to)
  BY <1>1, <1>2, <1>4, <1>5 DEF Goes1
<1> QED
  BY <1>6 DEF b

(* A read may time the attempt out.                                        *)
LEMMA ServerRead ==
  ASSUME NEW d, Sound(d), NEW d1, d1 = Read(d, Exam, 1)
  PROVE  /\ Sound(d1)
         /\ \A to : to # "submitted" => Goes1(d.att[Exam][1], d1.att[Exam][1], to)
         /\ d.att[Exam][1].status \notin Incomplete => d1 = d
<1> DEFINE a == d.att[Exam][1]
<1>1. Exam \in Exams /\ 1 \in Slots /\ Kind[Exam] # "practice"
  BY OneAttempt
<1>2. Sound(d1)
  BY <1>1, ReadSound
<1>3. CASE ~ Overdue(a)
  <2>1. d1 = d
    BY <1>1, <1>3, ReadSound
  <2> QED BY <1>2, <2>1 DEF Goes1, InProgress
<1>4. CASE Overdue(a)
  <2>1. \A n \in BOOLEAN, s \in BOOLEAN : s /\ ~ n =>
          d1 = ClearOnboardingErrors(
                 SaveStatus(d, Exam, 1, "timed_out", s, n), Exam, "submitted")
    BY <1>4, Zenon DEF Read
  <2>2. PICK s \in BOOLEAN, n \in BOOLEAN : s /\ ~ n
    OBVIOUS
  <2> DEFINE x == SaveStatus(d, Exam, 1, "timed_out", s, n)
  <2>3. d1 = x
    BY <1>1, <2>1, <2>2 DEF ClearOnboardingErrors
  <2>4. "timed_out" \in Completed /\ CanHave(Exam, "timed_out")
    BY DEF Completed, CanHave, Status, ValidStatus
  <2>5. IsLegal(a.status, EffectiveStatus(a.status, "timed_out", AllowTimedOut))
    BY <2>4, EndingIsLegal
  <2>6. x.att[Exam][1] = Saved(a, "timed_out", s, n)
    BY <1>1, <2>4, <2>5, SaveStatusDoes
  <2>7. a \in Attempt
    BY <1>1 DEF Sound, RowSound
  <2> HIDE DEF x, a
  <2>8. Goes1(a, d1.att[Exam][1], "timed_out")
    BY <2>3, <2>5, <2>6, <2>7, SavedGoes1
  <2>9. d1.att[Exam][1].status = EffectiveStatus(a.status, "timed_out", AllowTimedOut)
    BY <2>3, <2>6, <2>7, ZenonT(40) DEF Saved, Attempt
  <2>10. d1.att[Exam][1].status \notin InProgress
    BY <2>9 DEF EffectiveStatus, InProgress
  <2>11. a.status \in Incomplete
    BY <1>4 DEF Overdue, a
  <2> QED BY <1>2, <2>8, <2>10, <2>11 DEF Goes1, a
<1> QED
  BY <1>3, <1>4

(* Reads before and after what is asked for do not matter.                 *)
LEMMA Goes1Transitive ==
  ASSUME NEW a, NEW b, NEW c, NEW to
  PROVE  /\ Goes1(a, b, to) /\ (c = b \/ Goes1(b, c, to)) => Goes1(a, c, to)
         /\ Goes1(a, b, "timed_out") /\ Goes1(b, c, to) => Goes1(a, c, to)
  BY DEF Goes1, InProgress

(* An update does what it is asked for, or nothing.                        *)
LEMMA ServerUpdate ==
  ASSUME NEW d, Sound(d), d.att[Exam][1].row = "live", NEW to, NEW n \in BOOLEAN,
         to \in {"started", "ready_to_submit", "submitted", "error", "ready_to_start"},
         NEW d3, d3 = Update(d, Exam, 1, to, n)
  PROVE  Goes1(d.att[Exam][1], d3.att[Exam][1], to)
<1> DEFINE a == d.att[Exam][1]
           new == EffectiveStatus(a.status, to, AllowTimedOut)
<1>1. /\ Exam \in Exams /\ 1 \in Slots /\ Kind[Exam] # "practice"
      /\ HasAttempt(d, Exam) /\ Latest(d, Exam) = 1
  BY OneAttempt
<1>2. a \in Attempt
  BY <1>1 DEF Sound, RowSound
<1>3. CASE ~ IsLegal(a.status, new)
  <2>1. d3 = d
    BY <1>3, Zenon DEF Update
  <2>2. to # "submitted"
    BY <1>3, EndingIsLegal DEF Completed
  <2>3. Goes1(a, a, to)
    BY <2>2 DEF Goes1, InProgress
  <2> QED BY <2>1, <2>3
<1>4. CASE IsLegal(a.status, new)
  <2>1. new = "started" /\ ~ a.started => AllowedTimeRead(d, Exam) = d
    BY <1>1, ReadSound DEF AllowedTimeRead, Overdue
  <2>2. new \notin CascadableFailure
    BY DEF EffectiveStatus, CascadableFailure
  <2>3. \A s \in BOOLEAN : ~ s =>
          d3 = ClearOnboardingErrors(
                 Read(SaveStatus(d, Exam, 1, to, s, n), Exam, 1), Exam, new)
    BY <1>4, <2>1, <2>2, Zenon DEF Update
  <2>4. PICK s \in BOOLEAN : ~ s
    OBVIOUS
  <2> DEFINE x == SaveStatus(d, Exam, 1, to, s, n)
  <2>5. d3 = Read(x, Exam, 1)
    BY <1>1, <2>3, <2>4 DEF ClearOnboardingErrors
  <2>6. CanHave(Exam, to)
    BY DEF CanHave, Status, ValidStatus, Completed, Incomplete, InProgress, PreStarted
  <2>7. /\ Sound(x) /\ x.att[Exam][1] = Saved(a, to, s, n)
        /\ x.att[Exam][1].status = new
    BY <1>1, <1>4, <2>6, SaveStatusDoes
  <2> HIDE DEF x, a
  <2>8. Goes1(a, x.att[Exam][1], to)
    BY <1>2, <1>4, <2>7, SavedGoes1
  <2>9. to = "submitted" => new = "submitted"
    BY DEF EffectiveStatus, IsReattempting, PreStarted
  <2>10. "submitted" \notin Incomplete
    BY DEF Incomplete, InProgress, PreStarted
  <2>11. \/ d3.att[Exam][1] = x.att[Exam][1]
         \/ Goes1(x.att[Exam][1], d3.att[Exam][1], to)
    BY <2>5, <2>7, <2>9, <2>10, ServerRead
  <2>12. Goes1(a, d3.att[Exam][1], to)
    BY <2>8, <2>11, Goes1Transitive
  <2> QED BY <2>12 DEF a
<1> QED
  BY <1>3, <1>4

(* The status a request of the page asks for.                              *)
AskedBy(what) ==
  CASE what = "start"  -> "started"
    [] what = "stop"   -> "ready_to_submit"
    [] what = "submit" -> "submitted"
    [] what = "error"  -> "error"
    [] what \in {"poll", "last poll"} -> "timed_out"

(* A handler reads the attempt, and then does what it is asked for or      *)
(* nothing.                                                                *)
LEMMA HandlerGoes1 ==
  ASSUME InLine(db), NEW what \in Requests, HandlerOf(what)
  PROVE  /\ Goes1(Attempted, Attempted', AskedBy(what))
         /\ what = "last poll" => Attempted' = Read(db, Exam, 1).att[Exam][1]
         /\ Attempted.row = "live"
         /\ Next /\ pastDue' = pastDue
<1> DEFINE d1 == Read(db, Exam, 1)
           b  == d1.att[Exam][1]
<1>1. /\ Sound(db) /\ Exam \in Exams /\ 1 \in Slots
      /\ \A d : HasAttempt(d, Exam) => Latest(d, Exam) = 1
  BY OneAttempt DEF InLine
<1>2. /\ Sound(d1)
      /\ \A to : to # "submitted" => Goes1(Attempted, b, to)
  BY <1>1, ServerRead DEF Attempted
<1> HIDE DEF d1
<1>3. 1 \in Live(db, Exam) => b.row = "live" /\ Attempted.row = "live"
  BY <1>2 DEF Live, Attempted, Goes1
<1>4. ASSUME NEW to \in {"started", "ready_to_submit", "submitted", "error"},
             NEW n \in BOOLEAN, 1 \in Live(db, Exam),
             db' = Update(d1, Exam, 1, to, n)
      PROVE  Goes1(Attempted, Attempted', to)
  <2>1. Goes1(b, Attempted', to)
    BY <1>2, <1>3, <1>4, ServerUpdate DEF Attempted
  <2> QED BY <1>2, <2>1, Goes1Transitive
<1>5. ASSUME NEW to \in {"ready_to_submit", "submitted"}, PutStatus(Exam, 1, to)
      PROVE  Goes1(Attempted, Attempted', to)
  <2>1. 1 \in Live(db, Exam) /\ db' = Update(d1, Exam, 1, to, FALSE)
    BY <1>5 DEF PutStatus, d1
  <2>2. \A n \in BOOLEAN : ~ n => db' = Update(d1, Exam, 1, to, n)
    BY <2>1, Zenon
  <2> QED BY <1>4, <2>1, <2>2
<1>6. CASE what = "start"
  <2>1. Start(Exam, 1, FALSE) /\ AskedBy(what) = "started"
    BY <1>6 DEF HandlerOf, AskedBy
  <2>2. 1 \in Live(db, Exam) /\ db' = StartLatest(d1, Exam, FALSE)
    BY <2>1 DEF Start, d1
  <2>3. db' = d1 \/ db' = Update(d1, Exam, 1, "started", FALSE)
    BY <1>1, <2>2, Zenon DEF StartLatest
  <2>4. \A n \in BOOLEAN : ~ n =>
          db' = d1 \/ db' = Update(d1, Exam, 1, "started", n)
    BY <2>3, Zenon
  <2>5. Goes1(Attempted, Attempted', "started")
    <3>1. CASE db' = d1
      BY <1>2, <3>1 DEF Attempted
    <3> QED BY <1>4, <2>2, <2>4, <3>1
  <2>6. Next /\ pastDue' = pastDue
    BY <1>1, <2>1 DEF Next, AttemptNext, LearnerNext, Start
  <2> QED BY <1>3, <1>6, <2>1, <2>2, <2>5, <2>6
<1>7. CASE what = "stop"
  <2>1. Stop(Exam, 1) /\ AskedBy(what) = "ready_to_submit"
    BY <1>7 DEF HandlerOf, AskedBy
  <2>2. PutStatus(Exam, 1, "ready_to_submit")
    BY <2>1 DEF Stop
  <2>3. Next /\ pastDue' = pastDue /\ 1 \in Live(db, Exam)
    BY <1>1, <2>1, <2>2 DEF Next, AttemptNext, LearnerNext, PutStatus
  <2> QED BY <1>3, <1>5, <1>7, <2>1, <2>2, <2>3
<1>8. CASE what = "submit"
  <2>1. Submit(Exam, 1) /\ AskedBy(what) = "submitted"
    BY <1>8 DEF HandlerOf, AskedBy
  <2>2. PutStatus(Exam, 1, "submitted")
    BY <2>1 DEF Submit
  <2>3. Next /\ pastDue' = pastDue /\ 1 \in Live(db, Exam)
    BY <1>1, <2>1, <2>2 DEF Next, AttemptNext, LearnerNext, PutStatus
  <2> QED BY <1>3, <1>5, <1>8, <2>1, <2>2, <2>3
<1>9. CASE what = "error"
  <2>1. Error(Exam, 1) /\ AskedBy(what) = "error"
    BY <1>9 DEF HandlerOf, AskedBy
  <2>2. 1 \in Live(db, Exam) /\ (db' = d1 \/ db' = Update(d1, Exam, 1, "error", FALSE))
    BY <2>1 DEF Error, d1
  <2>3. \A n \in BOOLEAN : ~ n =>
          db' = d1 \/ db' = Update(d1, Exam, 1, "error", n)
    BY <2>2, Zenon
  <2>4. Goes1(Attempted, Attempted', "error")
    <3>1. CASE db' = d1
      BY <1>2, <3>1 DEF Attempted
    <3> QED BY <1>4, <2>2, <2>3, <3>1
  <2>5. Next /\ pastDue' = pastDue
    BY <1>1, <2>1 DEF Next, AttemptNext, LearnerNext, Error
  <2> QED BY <1>3, <1>9, <2>1, <2>2, <2>4, <2>5
<1>10. CASE what \in {"poll", "last poll"}
  <2>1. Poll(Exam, 1) /\ AskedBy(what) = "timed_out"
    BY <1>10 DEF HandlerOf, AskedBy
  <2>2. 1 \in Live(db, Exam) /\ db' = d1 /\ pastDue' = pastDue
    BY <2>1 DEF Poll, d1
  <2>3. Next
    BY <1>1, <2>1 DEF Next, AttemptNext, LearnerNext
  <2> QED BY <1>2, <1>3, <2>1, <2>2, <2>3 DEF Attempted, d1
<1> QED
  BY <1>6, <1>7, <1>8, <1>9, <1>10 DEF Requests

(* The proctoring service calls back: the set-up is done, or a re-entry.   *)
LEMMA BackendGoes1 ==
  ASSUME InLine(db), BackendNext(Exam)
  PROVE  /\ \E to \in {"ready_to_start", "submitted", "timed_out"} :
              Goes1(Attempted, Attempted', to)
         /\ Attempted.row = "live"
         /\ Next /\ pastDue' = pastDue
<1> DEFINE d1 == Read(db, Exam, 1)
           b  == d1.att[Exam][1]
<1>1. Sound(db) /\ Exam \in Exams /\ Slots = {1}
  BY OneAttempt DEF InLine
<1>2. /\ Sound(d1)
      /\ \A to : to # "submitted" => Goes1(Attempted, b, to)
  BY <1>1, ServerRead DEF Attempted
<1>3. ReadyCallback(Exam, 1) \/ StartCallback(Exam, 1)
  BY <1>1 DEF BackendNext
<1>4. /\ 1 \in Live(db, Exam)
      /\ \/ db' = d1
         \/ db' = Update(d1, Exam, 1, "ready_to_start", FALSE)
         \/ db' = Update(d1, Exam, 1, "submitted", FALSE)
      /\ pastDue' = pastDue
  BY <1>3 DEF ReadyCallback, StartCallback
<1>5. Next
  BY <1>1, <1>3 DEF Next, AttemptNext, BackendNext
<1> HIDE DEF d1
<1>6. b.row = "live" /\ Attempted.row = "live"
  BY <1>2, <1>4 DEF Live, Attempted, Goes1
<1>7. ASSUME NEW to \in {"ready_to_start", "submitted"}, NEW n \in BOOLEAN,
             db' = Update(d1, Exam, 1, to, n)
      PROVE  Goes1(Attempted, Attempted', to)
  <2>1. Goes1(b, Attempted', to)
    BY <1>2, <1>6, <1>7, ServerUpdate DEF Attempted
  <2> QED BY <1>2, <2>1, Goes1Transitive
<1>8. CASE db' = d1
  BY <1>2, <1>5, <1>4, <1>6, <1>8 DEF Attempted
<1>9. ASSUME NEW to \in {"ready_to_start", "submitted"},
             db' = Update(d1, Exam, 1, to, FALSE)
      PROVE  Goes1(Attempted, Attempted', to)
  <2>1. \A n \in BOOLEAN : ~ n => db' = Update(d1, Exam, 1, to, n)
    BY <1>9, Zenon
  <2> QED BY <1>7, <2>1
<1> QED
  BY <1>4, <1>5, <1>6, <1>8, <1>9

(* The learner enters the exam.                                            *)
LEMMA EnteredFresh ==
  ASSUME InLine(db), ~ HasAttempt(db, Exam),
         Post(Exam, TRUE, FALSE, "created", FALSE)
  PROVE  /\ \/ Attempted' = Attempted
            \/ /\ Attempted'.row = "live" /\ Attempted'.status = "created"
               /\ ~ Attempted'.started
         /\ Next /\ pastDue' = pastDue
<1>1. Sound(db) /\ Exam \in Exams /\ 1 \in Slots /\ Kind[Exam] = "proctored"
  BY OneAttempt DEF InLine
<1>2. Unused(db, Exam) # {} /\ pastDue' = pastDue
  BY DEF Post, RoomToCreate
<1>3. FreshSlot(db, Exam) = 1
  BY <1>2, OneAttempt, FreshIsFirst
<1>4. CreateAttempt(db, Exam, TRUE, "created")
        \in {db, NewAttempt(db, Exam, "created", TRUE)}
  BY DEF CreateAttempt, MarkedResumed, AllowedTimeRead
<1>5. db' = CreateAttempt(db, Exam, TRUE, "created")
  BY DEF Post
<1>6. ASSUME db' = db PROVE Attempted' = Attempted
  BY <1>6 DEF Attempted
<1>7. ASSUME db' = NewAttempt(db, Exam, "created", TRUE)
      PROVE  /\ Attempted'.row = "live" /\ Attempted'.status = "created"
             /\ ~ Attempted'.started
  <2> DEFINE row == [NoRow EXCEPT
                       !.row = "live", !.status = "created", !.proctored = TRUE,
                       !.registered = TRUE /\ "created" = "created"]
  <2>1. db' = [db EXCEPT !.att[Exam][1] = row]
    BY <1>3, <1>7, Zenon DEF NewAttempt
  <2>2. row.row = "live" /\ row.status = "created" /\ ~ row.started
    BY DEF NoRow
  <2> HIDE DEF row
  <2>3. db \in Database
    BY <1>1 DEF Sound
  <2>4. db'.att[Exam][1] = row
    BY <1>1, <2>1, <2>3 DEF Database
  <2>5. Attempted' = row
    BY <2>4 DEF Attempted
  <2> QED BY <2>2, <2>5
<1>8. Next
  <2>1. "created" \in Outcomes(Exam, TRUE)
    BY <1>1 DEF Outcomes
  <2>2. LearnerNext(Exam)
    BY <2>1 DEF LearnerNext
  <2> QED BY <1>1, <2>2 DEF Next, AttemptNext
<1>9. Attempted' = Attempted \/ db' = NewAttempt(db, Exam, "created", TRUE)
  BY <1>4, <1>5, <1>6
<1> QED
  BY <1>2, <1>7, <1>8, <1>9

-----------------------------------------------------------------------------
(* The invariant.  Its parts speak of the attempt a, the seconds l that    *)
(* the server still allows, and the state p of the application.            *)

(* The application records, or is lost while it does, or the attempt is    *)
(* complete.  Once so, it stays so.                                        *)
OnAir(a, p) == p \in {"recording", "lost"} \/ a.status \in Completed

IsTab(tab) ==
  tab \in [page : {tab.page}, timer : BOOLEAN, pings : BOOLEAN,
           secs : -Grace .. Length, tick : {tab.tick}]

(* A page that can lead to a start or a stop has been loaded when the      *)
(* attempt was in progress, and its timer is at most a second behind.      *)
TabFits(tab, a, l, p) ==
  /\ IsTab(tab)
  /\ tab.page # "closed" \/ tab.timer => a.row = "live"
  /\ tab.page = "ready_to_submit" \/ tab.timer => OnAir(a, p) /\ a.started
  /\ tab.timer => tab.secs > -Grace /\ (l > 0 => tab.secs >= l - 1)

Call ==
  [tab : Tabs \cup {NoTab}, what : Prompts \cup Requests,
   answer : {"none", "done", "refused"}, secs : 0 .. Length]

(* What is under way was sent from such a page, or after the application   *)
(* had answered; the application is told to end after the attempt has.     *)
CallFits(c, a, l, p) ==
  /\ c \in Call /\ a.row = "live"
  /\ c.what \in Prompts \/ c.answer # "none" => c.tab \in Tabs
  /\ c.what \in {"start", "stop"} => OnAir(a, p)
  /\ c.what \in {"stop", "poll", "last poll"} => a.started
  /\ c.what = "last poll" => l = 0
  /\ c.what = "poll" /\ c.answer # "none" => c.secs >= l
  /\ c.what = "submit app" => a.status \in Completed
  /\ c.what \in {"submit", "last poll"} /\ c.answer = "done" => a.status \in Completed

AttemptFits(a, p) ==
  /\ a.status \in InProgress => a.started /\ p \in {"recording", "lost"}
  /\ p = "ended" => a.status \in Completed

(* What fits goes on to fit while the attempt gets on, the application     *)
(* stays on air and the time left does not grow.                           *)
GetsOn(a, l, p, b, m, q) ==
  /\ a.row = "live" => b.row = "live"
  /\ a.started => b.started /\ m <= l
  /\ a.status \in Completed => b.status \in Completed
  /\ OnAir(a, p) => OnAir(b, q)

(* The tabs and the calls that fit an attempt still fit it when it got     *)
(* on.                                                                     *)
LEMMA StillFits ==
  ASSUME NEW a, NEW l \in 0 .. Length, NEW p,
         NEW b, NEW m \in 0 .. Length, NEW q, GetsOn(a, l, p, b, m, q)
  PROVE  /\ \A tab : TabFits(tab, a, l, p) => TabFits(tab, b, m, q)
         /\ \A c : CallFits(c, a, l, p) => CallFits(c, b, m, q)
<1>1. l \in Int /\ m \in Int /\ m >= 0
  BY PageAssumption
<1>2. ASSUME NEW tab, TabFits(tab, a, l, p) PROVE TabFits(tab, b, m, q)
  <2>1. tab.secs \in Int
    BY <1>2, PageAssumption DEF TabFits, IsTab
  <2>2. tab.timer /\ m > 0 => tab.secs >= m - 1
    BY <1>1, <1>2, <2>1 DEF TabFits, GetsOn
  <2> QED BY <1>2, <2>2 DEF TabFits, GetsOn
<1>3. ASSUME NEW c, CallFits(c, a, l, p) PROVE CallFits(c, b, m, q)
  <2>1. c.secs \in Int
    <3>1. c \in Call
      BY <1>3 DEF CallFits
    <3>2. c.secs \in 0 .. Length
      BY <3>1 DEF Call
    <3> QED BY <3>2, PageAssumption
  <2>2. l = 0 /\ a.started => m = 0
    BY <1>1 DEF GetsOn
  <2>3. a.started /\ c.secs >= l => c.secs >= m
    BY <1>1, <2>1 DEF GetsOn
  <2> QED BY <1>3, <2>2, <2>3 DEF CallFits, GetsOn
<1> QED
  BY <1>2, <1>3

PageFits(a, l, p, ts, cs) ==
  /\ l \in 0 .. Length
  /\ p \in {"idle", "recording", "ended", "lost"}
  /\ p = "ended" => a.row = "live"
  /\ AttemptFits(a, p)
  /\ ts = [t \in Tabs |-> ts[t]]
  /\ \A t \in Tabs : TabFits(ts[t], a, l, p)
  /\ \A c \in cs : CallFits(c, a, l, p)

PageInv == AttemptsInLine /\ PageFits(Attempted, left, app, tabs, calls)

(* What a handler makes of the attempt is to get on; the exam is gone on   *)
(* with only by a start or a stop, and those fit.                          *)
LEMMA GoesGetsOn ==
  ASSUME NEW a, NEW l \in 0 .. Length, NEW p, NEW ts, NEW cs, PageFits(a, l, p, ts, cs),
         NEW b, NEW to, Goes1(a, b, to), to \in InProgress => OnAir(a, p),
         to = "ready_to_submit" => a.started,
         NEW m \in 0 .. Length, a.started => m = l
  PROVE  GetsOn(a, l, p, b, m, p) /\ PageFits(b, m, p, ts, cs)
<1>1. GetsOn(a, l, p, b, m, p)
  BY PageAssumption DEF GetsOn, Goes1, OnAir
<1>2. Completed \cap InProgress = {} /\ InProgress = {"started", "ready_to_submit"}
  BY DEF Completed, InProgress, OnboardingErrors
<1>3. AttemptFits(a, p)
  BY DEF PageFits
<1>4. AttemptFits(b, p)
  <2>1. ASSUME b.status \in InProgress PROVE b.started /\ p \in {"recording", "lost"}
    <3>1. a.status \notin Completed
      BY <1>2, <2>1 DEF Goes1
    <3>2. CASE b.status = a.status
      BY <1>3, <2>1, <3>2 DEF AttemptFits, Goes1
    <3>3. CASE b.status # a.status
      <4>1. b.status = to
        BY <2>1, <3>3 DEF Goes1
      <4>2. OnAir(a, p) /\ p \in {"recording", "lost"}
        BY <2>1, <3>1, <4>1 DEF OnAir
      <4>3. b.started
        BY <1>2, <2>1, <3>3, <4>1 DEF Goes1
      <4> QED BY <4>2, <4>3
    <3> QED BY <3>2, <3>3
  <2>2. p = "ended" => b.status \in Completed
    BY <1>3 DEF AttemptFits, Goes1
  <2> QED BY <2>1, <2>2 DEF AttemptFits
<1>5. b.row = a.row
  BY DEF Goes1
<1>6. /\ \A tab : TabFits(tab, a, l, p) => TabFits(tab, b, m, p)
      /\ \A c : CallFits(c, a, l, p) => CallFits(c, b, m, p)
  BY <1>1, StillFits
<1> QED
  BY <1>1, <1>4, <1>5, <1>6 DEF PageFits

(* No time left is a time a timer can show.                                *)
LEMMA Seconds == 0 \in 0 .. Length
<1>1. Length \in Nat
  BY PageAssumption
<1> QED
  BY <1>1

(* What a tab sends.                                                       *)
LEMMA SentFits ==
  ASSUME NEW a, NEW l \in 0 .. Length, NEW p,
         NEW t \in Tabs, NEW what \in Prompts \cup Requests,
         a.row = "live",
         what \in {"start", "stop"} => OnAir(a, p),
         what \in {"stop", "poll", "last poll"} => a.started,
         what = "last poll" => l = 0,
         what = "submit app" => a.status \in Completed
  PROVE  CallFits(Sent(t, what), a, l, p)
<1>1. 0 \in 0 .. Length
  BY Seconds
<1>2. t \in Tabs \cup {NoTab} /\ "none" \in {"none", "done", "refused"}
  OBVIOUS
<1>3. Sent(t, what) \in Call
  BY <1>1, <1>2 DEF Sent, Call
<1>4. /\ Sent(t, what).tab = t /\ Sent(t, what).what = what
      /\ Sent(t, what).answer = "none"
  BY DEF Sent
<1> HIDE DEF Sent
<1> QED
  BY <1>3, <1>4 DEF CallFits

(* Calls that a tab with a running timer sends.                            *)
LEMMA CallsOfFit ==
  ASSUME NEW t \in Tabs, NEW tab, IsTab(tab), NEW a, NEW l \in 0 .. Length, NEW p,
         a.row = "live", a.started, l > 0 => tab.secs >= l - 1
  PROVE  \A c \in CallsOf(t, tab) : CallFits(c, a, l, p)
<1>1. tab.secs \in Int /\ Length \in Nat \ {0} /\ Grace \in Nat \ {0}
  BY PageAssumption DEF IsTab
<1>2. IsOver(tab) => l = 0
  BY <1>1 DEF IsOver
<1>3. ASSUME NEW what \in {"ping", "poll", "last poll"}, what = "last poll" => l = 0
      PROVE  CallFits(Sent(t, what), a, l, p)
  <2>1. what \in Prompts \cup Requests /\ what \notin {"start", "stop", "submit app"}
    BY DEF Prompts, Requests
  <2> QED BY <1>3, <2>1, SentFits
<1> QED
  BY <1>2, <1>3 DEF CallsOf

(* Time goes by in a tab.                                                  *)
LEMMA TickedFits ==
  ASSUME NEW tab, NEW a, NEW l \in Nat, NEW p, TabFits(tab, a, l, p), tab.timer,
         NEW m \in 0 .. Length, m = IF l > 0 THEN l - 1 ELSE 0,
         NEW b, b.row = a.row, b.started = a.started, b.status = a.status
  PROVE  /\ IsTab(Ticked(tab)) /\ (m > 0 => Ticked(tab).secs >= m - 1)
         /\ TabFits(Stopped(Ticked(tab)), b, m, p)
<1> DEFINE new == Ticked(tab)
<1>1. /\ tab.secs \in -Grace .. Length /\ tab.secs > -Grace
      /\ Length \in Nat \ {0} /\ Grace \in Nat \ {0}
      /\ l > 0 => tab.secs >= l - 1
  BY PageAssumption DEF TabFits, IsTab
<1>2. tab \in [page : {tab.page}, timer : BOOLEAN, pings : BOOLEAN,
               secs : -Grace .. Length, tick : {tab.tick}]
  BY DEF TabFits, IsTab
<1>3. /\ new.page = tab.page /\ new.timer /\ new.secs = tab.secs - 1
      /\ new \in [page : {new.page}, timer : BOOLEAN, pings : BOOLEAN,
                  secs : {tab.secs - 1}, tick : {new.tick}]
  BY <1>2 DEF Ticked
<1> HIDE DEF new
<1>4. tab.secs - 1 \in -Grace .. Length /\ (m > 0 => tab.secs - 1 >= m - 1)
  BY <1>1
<1>5. IsTab(new) /\ (m > 0 => new.secs >= m - 1)
  BY <1>3, <1>4 DEF IsTab
<1>6. CASE IsOver(new)
  <2>1. /\ Stopped(new).page = tab.page /\ ~ Stopped(new).timer
        /\ Stopped(new) \in [page : {Stopped(new).page}, timer : BOOLEAN, pings : BOOLEAN,
                             secs : {0}, tick : {Stopped(new).tick}]
    BY <1>3, <1>6 DEF Stopped
  <2>2. 0 \in -Grace .. Length
    BY <1>1
  <2> HIDE DEF Stopped
  <2>3. IsTab(Stopped(new))
    BY <2>1, <2>2 DEF IsTab
  <2> QED BY <2>1, <2>3, <1>5 DEF TabFits, OnAir, new
<1>7. CASE ~ IsOver(new)
  <2>1. Stopped(new) = new
    BY <1>3, <1>7 DEF Stopped
  <2>2. new.secs > -Grace
    BY <1>1, <1>3, <1>7 DEF IsOver
  <2> QED BY <1>3, <1>5, <2>1, <2>2 DEF TabFits, OnAir, new
<1> QED
  BY <1>5, <1>6, <1>7 DEF new

-----------------------------------------------------------------------------
(* The steps.                                                              *)

(* A step of the server's handlers keeps the attempts in line.             *)
LEMMA ServerInLine ==
  ASSUME AttemptsInLine, InLine(db'), pastDue' = pastDue
  PROVE  AttemptsInLine'
  BY DEF AttemptsInLine, InLine, Sound, UsedInOrder, Superseded, CreditHonest, Live, HasStatus

(* A page goes, and with it what it waits for.                             *)
LEMMA AbandonedFits ==
  ASSUME NEW a, NEW l \in 0 .. Length, NEW p, NEW t, NEW under,
         \A c \in under : CallFits(c, a, l, p)
  PROVE  \A c \in Abandoned(t, under) : CallFits(c, a, l, p)
<1>1. ASSUME NEW c \in under, c.what \in Requests, c.answer = "none"
      PROVE  CallFits([c EXCEPT !.tab = NoTab], a, l, p)
  <2> DEFINE x == [c EXCEPT !.tab = NoTab]
  <2>1. CallFits(c, a, l, p) /\ c \in Call
    BY DEF CallFits
  <2>2. x.what = c.what /\ x.answer = c.answer /\ x.secs = c.secs /\ x \in Call
    BY <2>1 DEF Call
  <2>3. c.what \notin Prompts
    BY <1>1 DEF Prompts, Requests
  <2> HIDE DEF x
  <2>4. CallFits(x, a, l, p)
    BY <1>1, <2>1, <2>2, <2>3 DEF CallFits
  <2> QED BY <2>4 DEF x
<1> QED
  BY <1>1 DEF Abandoned

(* One tab changes.                                                        *)
LEMMA TabSetFits ==
  ASSUME NEW a, NEW l, NEW p, NEW ts, NEW cs, PageFits(a, l, p, ts, cs),
         NEW t \in Tabs, NEW tab, TabFits(tab, a, l, p),
         NEW ts2, ts2 = [ts EXCEPT ![t] = tab],
         NEW cs2, \A c \in cs2 : CallFits(c, a, l, p)
  PROVE  PageFits(a, l, p, ts2, cs2)
<1>1. ts = [u \in Tabs |-> ts[u]]
  BY DEF PageFits
<1>2. ts2 = [u \in Tabs |-> ts2[u]] /\ \A u \in Tabs : ts2[u] \in {tab, ts[u]}
  BY <1>1
<1>3. \A u \in Tabs : TabFits(ts2[u], a, l, p)
  BY <1>2 DEF PageFits
<1> QED
  BY <1>2, <1>3 DEF PageFits

(* The exam is loaded in a tab.                                            *)
LEMMA ShowFits ==
  ASSUME AttemptsInLine, NEW p, NEW t \in Tabs, NEW under,
         PageFits(Attempted, left, p, tabs, under), Attempted.row = "live",
         Show(t, under), pastDue' = pastDue, left' = left
  PROVE  AttemptsInLine' /\ PageFits(Attempted', left', p, tabs', calls')
<1> DEFINE page == PageOf(db, Exam, {})
           tab  == Loaded(db', page, left)
           raw  == [page  |-> page,
                    timer |-> Attempted'.status \in InProgress /\ left > 0,
                    pings |-> Attempted'.status # "ready_to_submit",
                    secs  |-> left, tick |-> 0]
<1>1. /\ InLine(db) /\ Sound(db) /\ Exam \in Exams /\ Kind[Exam] = "proctored"
      /\ HasAttempt(db, Exam) /\ Latest(db, Exam) = 1 /\ ~ TurnedAway(Exam, {})
  BY OneAttempt DEF AttemptsInLine, InLine, TurnedAway, Attempted
<1>2. db' = Opened(db, Exam, {})
  BY DEF Show
<1>3. /\ InLine(db') /\ HasAttempt(db', Exam)
      /\ page = Rendered(db', Exam, {})
  BY <1>1, <1>2, OpenedCurrent
<1>4. AttemptsInLine'
  BY <1>3, ServerInLine
<1>5. db' = Read(db, Exam, 1)
  BY <1>1, <1>2 DEF Opened
<1>6. Goes1(Attempted, Attempted', "timed_out")
  BY <1>1, <1>5, ServerRead DEF Attempted
<1>7. left \in 0 .. Length /\ "timed_out" \notin InProgress
  BY DEF PageFits, InProgress
<1>8. PageFits(Attempted', left, p, tabs, under)
  BY <1>6, <1>7, GoesGetsOn
<1>9. Attempted'.row = "live"
  BY <1>6 DEF Goes1
<1>10. page = "ready_to_submit" => Attempted'.status = "ready_to_submit"
  <2>1. page = ProctoredPage(db', Exam, {})
    BY <1>1, <1>3 DEF Rendered
  <2>2. Current(db', Exam) = db'.att[Exam][1]
    BY <1>3, OneAttempt
  <2> QED BY <1>3, <2>1, <2>2, ProctoredPageOffers DEF Attempted
<1>11. Attempted'.status \in InProgress =>
         Attempted'.started /\ OnAir(Attempted', p)
  BY <1>8 DEF PageFits, AttemptFits, OnAir
<1>12. "ready_to_submit" \in InProgress
  BY DEF InProgress
<1>13. tab = IF raw.timer THEN Ticked(raw) ELSE raw
  BY DEF Loaded, Rendering, Attempted
<1>14. /\ raw.page = page /\ raw.secs = left
       /\ raw.timer = (Attempted'.status \in InProgress /\ left > 0)
       /\ raw \in [page : {raw.page}, timer : BOOLEAN, pings : BOOLEAN,
                   secs : 0 .. Length, tick : {raw.tick}]
  BY <1>7
<1> HIDE DEF raw, tab, page
<1>15. Grace \in Nat \ {0} /\ Length \in Nat \ {0}
  BY PageAssumption
<1>16. IsTab(raw)
  <2>1. ASSUME NEW n \in 0 .. Length PROVE n \in -Grace .. Length
    BY <1>15
  <2> QED BY <1>14, <2>1 DEF IsTab
<1>17. TabFits(raw, Attempted', left + 1, p)
  <2>1. raw.secs > -Grace /\ raw.secs >= (left + 1) - 1
    BY <1>7, <1>14, <1>15
  <2>2. raw.timer => Attempted'.status \in InProgress
    BY <1>14
  <2> QED BY <1>9, <1>10, <1>11, <1>12, <1>14, <1>16, <2>1, <2>2 DEF TabFits
<1>18. ASSUME raw.timer
      PROVE  /\ TabFits(Stopped(tab), Attempted', left, p)
             /\ tab.timer => \A c \in CallsOf(t, tab) : CallFits(c, Attempted', left, p)
  <2>1. left + 1 \in Nat /\ left = IF left + 1 > 0 THEN (left + 1) - 1 ELSE 0
    BY <1>7
  <2>2. /\ IsTab(tab) /\ (left > 0 => tab.secs >= left - 1)
        /\ TabFits(Stopped(tab), Attempted', left, p)
    BY <1>7, <1>13, <1>17, <1>18, <2>1, TickedFits
  <2>3. \A c \in CallsOf(t, tab) : CallFits(c, Attempted', left, p)
    BY <1>7, <1>9, <1>11, <1>14, <1>18, <2>2, CallsOfFit
  <2> QED BY <2>2, <2>3
<1>19. ASSUME ~ raw.timer
      PROVE  /\ TabFits(Stopped(tab), Attempted', left, p)
             /\ tab.timer => \A c \in CallsOf(t, tab) : CallFits(c, Attempted', left, p)
  <2>1. tab = raw
    BY <1>13, <1>19
  <2>2. ~ tab.timer
    BY <1>19, <2>1
  <2>3. /\ Stopped(raw).page = raw.page /\ ~ Stopped(raw).timer
        /\ Stopped(raw) \in [page : {Stopped(raw).page}, timer : BOOLEAN, pings : BOOLEAN,
                              secs : {0}, tick : {Stopped(raw).tick}]
    BY <1>14, <1>19 DEF Stopped
  <2>4. 0 \in -Grace .. Length
    BY <1>15
  <2> HIDE DEF Stopped
  <2>5. IsTab(Stopped(raw))
    BY <2>3, <2>4 DEF IsTab
  <2>6. TabFits(Stopped(raw), Attempted', left, p)
    BY <1>17, <2>3, <2>5 DEF TabFits
  <2> QED BY <2>1, <2>2, <2>6
<1>20. /\ TabFits(Stopped(tab), Attempted', left, p)
       /\ tab.timer => \A c \in CallsOf(t, tab) : CallFits(c, Attempted', left, p)
  BY <1>18, <1>19
<1>21. /\ tabs' = [tabs EXCEPT ![t] = Stopped(tab)]
       /\ calls' = Abandoned(t, under) \cup (IF tab.timer THEN CallsOf(t, tab) ELSE {})
  BY DEF Show, ShowTab, tab, page
<1>22. \A c \in Abandoned(t, under) : CallFits(c, Attempted', left, p)
  BY <1>7, <1>8, AbandonedFits DEF PageFits
<1>23. \A c \in calls' : CallFits(c, Attempted', left, p)
  BY <1>20, <1>21, <1>22
<1>24. PageFits(Attempted', left, p, tabs', calls')
  BY <1>8, <1>20, <1>21, <1>23, TabSetFits
<1> QED
  BY <1>4, <1>24

(* A second goes by.                                                       *)
LEMMA SecondFits ==
  ASSUME PageInv, NEW ticking \in SUBSET Tabs, Second(ticking)
  PROVE  PageInv'
<1> DEFINE a == Attempted
           b == Attempted'
           over == a.started /\ left' = 0
<1>1. /\ InLine(db) /\ Sound(db) /\ Exam \in Exams /\ 1 \in Slots
      /\ PageFits(a, left, app, tabs, calls)
  BY OneAttempt DEF PageInv, AttemptsInLine, InLine
<1>2. left \in 0 .. Length /\ left \in Nat
  BY <1>1, PageAssumption DEF PageFits
<1>3. a \in Attempt
  BY <1>1 DEF Sound, RowSound, Attempted
<1>4. over \in BOOLEAN
  BY <1>3 DEF Attempt
<1>5. db' = WithRow(db, Exam, 1, [a EXCEPT !.expired = over])
  BY DEF Second, WithRow, Attempted
<1> HIDE DEF over
<1>6. InLine(db')
  BY <1>1, <1>4, <1>5, ClockHandled DEF Attempted, Handled
<1>7. AttemptsInLine'
  BY <1>6, ServerInLine DEF PageInv, Second
<1>8. b = [a EXCEPT !.expired = over]
  <2>1. \A row : WithRow(db, Exam, 1, row).att[Exam][1] = row
    <3>1. db \in Database
      BY <1>1 DEF Sound
    <3> QED BY <1>1, <3>1 DEF WithRow, Database
  <2> QED BY <1>5, <2>1 DEF Attempted
<1>9. b.row = a.row /\ b.started = a.started /\ b.status = a.status
  BY <1>3, <1>8 DEF Attempt
<1> HIDE DEF a, b
<1>10. left' \in 0 .. Length /\ (a.started => left' = IF left > 0 THEN left - 1 ELSE 0)
  <2>1. left' = IF a.started /\ left > 0 THEN left - 1 ELSE left
    BY DEF Second, a
  <2>2. left \in Int /\ Length \in Int /\ 0 <= left /\ left <= Length
    BY <1>2, PageAssumption
  <2>3. left' \in Int /\ 0 <= left' /\ left' <= Length
    BY <2>1, <2>2
  <2> QED BY <2>1, <2>2, <2>3
<1>11. GetsOn(a, left, app, b, left', app)
  BY <1>2, <1>9, <1>10 DEF GetsOn, OnAir
<1>12. \A t \in Tabs : TabFits(tabs[t], b, left', app)
  BY <1>1, <1>2, <1>10, <1>11, StillFits DEF PageFits
<1>13. \A c \in calls : CallFits(c, b, left', app)
  BY <1>1, <1>2, <1>10, <1>11, StillFits DEF PageFits
<1>14. ASSUME NEW t \in ticking
       PROVE  /\ TabFits(Stopped(Ticked(tabs[t])), b, left', app)
              /\ \A c \in CallsOf(t, Ticked(tabs[t])) : CallFits(c, b, left', app)
  <2>1. t \in Tabs /\ tabs[t].timer /\ TabFits(tabs[t], a, left, app)
    BY <1>1 DEF Second, PageFits
  <2>2. a.started /\ a.row = "live"
    BY <2>1 DEF TabFits
  <2>3. /\ IsTab(Ticked(tabs[t])) /\ (left' > 0 => Ticked(tabs[t]).secs >= left' - 1)
        /\ TabFits(Stopped(Ticked(tabs[t])), b, left', app)
    BY <1>2, <1>9, <1>10, <2>1, <2>2, TickedFits
  <2> QED BY <1>9, <1>10, <2>1, <2>2, <2>3, CallsOfFit
<1>15. \A t \in Tabs : TabFits(tabs'[t], b, left', app)
  BY <1>12, <1>14 DEF Second
<1>16. \A c \in calls' : CallFits(c, b, left', app)
  BY <1>13, <1>14 DEF Second
<1>17. tabs' = [t \in Tabs |-> tabs'[t]]
  BY DEF Second
<1>18. AttemptFits(b, app)
  BY <1>1, <1>9 DEF PageFits, AttemptFits
<1>19. app' = app
  BY DEF Second
<1>20. PageFits(b, left', app, tabs', calls')
  BY <1>1, <1>9, <1>10, <1>15, <1>16, <1>17, <1>18 DEF PageFits
<1> QED
  BY <1>7, <1>19, <1>20 DEF PageInv, b

(* The server handles a request.                                           *)
LEMMA ServeFits ==
  ASSUME PageInv, NEW c \in calls, Serve(c)
  PROVE  PageInv'
<1> DEFINE read == Read(db, Exam, 1).att[Exam][1]
           new  == Reply(c, read)
           to   == AskedBy(c.what)
<1>1. InLine(db) /\ PageFits(Attempted, left, app, tabs, calls)
  BY DEF PageInv, AttemptsInLine
<1>2. CallFits(c, Attempted, left, app) /\ c.what \in Requests /\ c.answer = "none"
  BY <1>1 DEF PageFits, Serve
<1>3. /\ Goes1(Attempted, Attempted', to) /\ Next /\ pastDue' = pastDue
      /\ c.what = "last poll" => Attempted' = read
      /\ Attempted.row = "live"
  BY <1>1, <1>2, HandlerGoes1 DEF Serve
<1>4. AttemptsInLine'
  BY <1>3, NextInLine DEF PageInv
<1>5. /\ left \in 0 .. Length /\ left' \in {left, Length}
      /\ Attempted.started => left' = left
  BY <1>1 DEF PageFits, Serve
<1>6. left' \in 0 .. Length
  BY <1>5, PageAssumption
<1>7. /\ to \in InProgress => OnAir(Attempted, app)
      /\ to = "ready_to_submit" => Attempted.started
  <2>1. to \in InProgress => c.what \in {"start", "stop"}
    BY <1>2 DEF AskedBy, Requests, InProgress
  <2>2. to = "ready_to_submit" => c.what = "stop"
    BY <1>2 DEF AskedBy, Requests
  <2> QED BY <1>2, <2>1, <2>2 DEF CallFits
<1> HIDE DEF to, read, new
<1>8. /\ GetsOn(Attempted, left, app, Attempted', left', app)
      /\ PageFits(Attempted', left', app, tabs, calls)
  BY <1>1, <1>3, <1>5, <1>6, <1>7, GoesGetsOn
<1>9. ASSUME c.tab # NoTab PROVE CallFits(new, Attempted', left', app)
  <2>1. CallFits(c, Attempted', left', app)
    BY <1>8 DEF PageFits
  <2>2. /\ new.tab = c.tab /\ new.what = c.what /\ new.answer \in {"done", "refused"}
        /\ new.secs = (IF c.what = "poll" THEN left ELSE 0)
        /\ new.answer = "done" => CarriesOut(read, c.what)
        /\ new \in [tab : {c.tab}, what : {c.what}, answer : {"done", "refused"},
                    secs : {new.secs}]
    <3>1. c \in Call
      BY <1>2 DEF CallFits
    <3> QED BY <3>1 DEF new, Reply, Call
  <2>3. c.tab \in Tabs /\ c.what \in Prompts \cup Requests
    BY <1>2, <1>9 DEF CallFits, Call
  <2>4. new.secs \in 0 .. Length
    BY <1>5, <2>2, Seconds
  <2>5. new \in Call
    BY <2>2, <2>3, <2>4 DEF Call
  <2>6. new.what = "poll" => new.secs >= left'
    <3>1. c.what = "poll" => left' = left
      BY <1>2, <1>5 DEF CallFits
    <3>2. left \in Int
      BY <1>5
    <3> QED BY <2>2, <3>1, <3>2
  <2>7. new.what = "submit" => Attempted'.status \in Completed
    BY <1>3, <2>2 DEF to, AskedBy, Goes1, Completed
  <2>8. new.what = "last poll" /\ new.answer = "done" => Attempted'.status \in Completed
    BY <1>3, <2>2 DEF CarriesOut, Completed
  <2> HIDE DEF Call
  <2> QED BY <2>1, <2>2, <2>3, <2>5, <2>6, <2>7, <2>8 DEF CallFits
<1>10. \A x \in calls' : CallFits(x, Attempted', left', app)
  BY <1>8, <1>9 DEF Serve, PageFits, new, read
<1>11. app' = app /\ tabs' = tabs
  BY DEF Serve
<1> QED
  BY <1>4, <1>8, <1>10, <1>11 DEF PageInv, PageFits

(* Nothing changes on the server.                                          *)
LEMMA PageSideFits ==
  ASSUME PageInv, UNCHANGED <<db, pastDue, left>>,
         PageFits(Attempted, left, app', tabs', calls')
  PROVE  PageInv'
<1>1. Attempted' = Attempted /\ left' = left
  BY DEF Attempted
<1>2. AttemptsInLine'
  BY NextInLine DEF PageInv, vars
<1> QED
  BY <1>1, <1>2 DEF PageInv

(* The learner does something, or a call is lost.                          *)
LEMMA PressFits ==
  ASSUME PageInv, NEW t \in Tabs,
         \/ Close(t)
         \/ PressStart(t) \/ PressSubmit(t) \/ PressContinue(t) \/ PressTurnIn(t)
  PROVE  PageInv'
<1>1. PageFits(Attempted, left, app, tabs, calls)
  BY DEF PageInv
<1>2. left \in 0 .. Length /\ TabFits(tabs[t], Attempted, left, app)
  BY <1>1 DEF PageFits
<1>3. CASE Close(t)
  <2>1. \A c \in Abandoned(t, calls) : CallFits(c, Attempted, left, app)
    BY <1>1, <1>2, AbandonedFits DEF PageFits
  <2>2. TabFits(Closed, Attempted, left, app)
    <3>1. 0 \in -Grace .. Length
      <4>1. Grace \in Nat /\ Length \in Nat
        BY PageAssumption
      <4> QED BY <4>1
    <3>2. Closed.page = "closed" /\ ~ Closed.timer
      BY DEF Closed
    <3>3. IsTab(Closed)
      BY <3>1 DEF IsTab, Closed
    <3> QED BY <3>2, <3>3 DEF TabFits
  <2>3. PageFits(Attempted, left, app, tabs', calls')
    BY <1>1, <1>3, <2>1, <2>2, TabSetFits DEF Close
  <2> QED BY <1>3, <2>3, PageSideFits DEF Close
<1>4. ASSUME NEW what \in Prompts \cup Requests, Send(t, what),
             CallFits(Sent(t, what), Attempted, left, app)
      PROVE  PageInv'
  <2>1. PageFits(Attempted, left, app, tabs, calls')
    BY <1>1, <1>4 DEF PageFits, Send
  <2> QED BY <1>4, <2>1, PageSideFits DEF Send
<1>5. {"start app", "submit", "start", "stop"} \subseteq Prompts \cup Requests
  BY DEF Prompts, Requests
<1>6. CASE PressStart(t)
  BY <1>2, <1>4, <1>5, <1>6, SentFits DEF PressStart, TabFits
<1>7. CASE PressSubmit(t)
  BY <1>2, <1>4, <1>5, <1>7, SentFits DEF PressSubmit, TabFits
<1>8. CASE PressContinue(t)
  BY <1>2, <1>4, <1>5, <1>8, SentFits DEF PressContinue, TabFits
<1>9. CASE PressTurnIn(t)
  BY <1>2, <1>4, <1>5, <1>9, SentFits DEF PressTurnIn, TabFits
<1> QED
  BY <1>3, <1>6, <1>7, <1>8, <1>9

(* The application answers, fails or is lost.                              *)
LEMMA AppFits ==
  ASSUME PageInv,
         \/ LoseApp
         \/ \E c \in calls : AppAnswers(c) \/ AppFails(c)
  PROVE  PageInv'
<1>1. PageFits(Attempted, left, app, tabs, calls) /\ AttemptsInLine
  BY DEF PageInv
<1>2. left \in 0 .. Length
  BY <1>1 DEF PageFits
<1>3. ASSUME NEW p \in {"recording", "ended", "lost"},
             p = "ended" => Attempted.status \in Completed /\ Attempted.row = "live",
             p = "lost" => app \in {"recording", "lost"}
      PROVE  PageFits(Attempted, left, p, tabs, calls)
  <2>1. OnAir(Attempted, app) => OnAir(Attempted, p)
    BY <1>3 DEF OnAir
  <2>2. GetsOn(Attempted, left, app, Attempted, left, p)
    BY <1>2, <2>1, PageAssumption DEF GetsOn
  <2>3. AttemptFits(Attempted, p)
    <3>1. Completed \cap InProgress = {}
      BY DEF Completed, InProgress, OnboardingErrors
    <3> QED BY <1>1, <1>3, <3>1 DEF PageFits, AttemptFits
  <2>4. /\ \A tab : TabFits(tab, Attempted, left, app) => TabFits(tab, Attempted, left, p)
        /\ \A c : CallFits(c, Attempted, left, app) => CallFits(c, Attempted, left, p)
    BY <1>2, <2>2, StillFits
  <2> QED BY <1>1, <1>3, <2>3, <2>4 DEF PageFits
<1>4. CASE LoseApp
  <2>1. app = "recording" /\ app' = "lost"
    BY <1>4 DEF LoseApp
  <2>2. PageFits(Attempted, left, app', tabs, calls)
    BY <1>3, <2>1
  <2> QED BY <1>4, <2>2, PageSideFits DEF LoseApp
<1>5. ASSUME NEW c \in calls, AppAnswers(c) PROVE PageInv'
  <2>1. CallFits(c, Attempted, left, app) /\ c.what \in Prompts
    BY <1>1, <1>5 DEF PageFits, AppAnswers
  <2>2. c.tab \in Tabs /\ Attempted.row = "live"
    BY <2>1 DEF CallFits
  <2>3. CASE /\ c.what = "start app" /\ app' = "recording"
             /\ calls' = (calls \ {c}) \cup {Sent(c.tab, "start")}
             /\ UNCHANGED <<db, tabs>>
    <3>1. PageFits(Attempted, left, app', tabs, calls)
      BY <1>3, <2>3
    <3>2. CallFits(Sent(c.tab, "start"), Attempted, left, app')
      <4>1. OnAir(Attempted, app') /\ "start" \in Prompts \cup Requests
        BY <2>3 DEF OnAir, Requests
      <4> QED BY <1>2, <2>2, <4>1, SentFits
    <3>3. PageFits(Attempted, left, app', tabs', calls')
      BY <2>3, <3>1, <3>2 DEF PageFits
    <3> QED BY <1>5, <2>3, <3>3, PageSideFits DEF AppAnswers
  <2>4. CASE /\ c.what = "ping" /\ app = "recording"
             /\ calls' = calls \ {c}
             /\ UNCHANGED <<db, app, tabs>>
    <3>1. PageFits(Attempted, left, app', tabs', calls')
      BY <1>1, <2>4 DEF PageFits
    <3> QED BY <1>5, <2>4, <3>1, PageSideFits DEF AppAnswers
  <2>5. CASE /\ c.what = "submit app" /\ app' = "ended"
             /\ Show(c.tab, calls \ {c})
    <3>1. Attempted.status \in Completed
      BY <2>1, <2>5 DEF CallFits
    <3>2. PageFits(Attempted, left, app', tabs, calls)
      BY <1>3, <2>2, <2>5, <3>1
    <3>3. PageFits(Attempted, left, app', tabs, calls \ {c})
      BY <3>2 DEF PageFits
    <3>4. \A p : PageFits(Attempted, left, p, tabs, calls \ {c}) =>
            AttemptsInLine' /\ PageFits(Attempted', left', p, tabs', calls')
      BY <1>1, <1>5, <2>2, <2>5, ShowFits DEF AppAnswers
    <3> QED BY <3>3, <3>4 DEF PageInv
  <2> QED BY <1>5, <2>3, <2>4, <2>5 DEF AppAnswers
<1>6. ASSUME NEW c \in calls, AppFails(c) PROVE PageInv'
  <2>1. CallFits(c, Attempted, left, app) /\ c.what \in Prompts
    BY <1>1, <1>6 DEF PageFits, AppFails
  <2>2. c.tab \in Tabs /\ Attempted.row = "live"
    BY <2>1 DEF CallFits
  <2>3. CallFits(Sent(c.tab, "error"), Attempted, left, app)
    BY <1>2, <2>2, SentFits DEF Requests
  <2>4. PageFits(Attempted, left, app, tabs, calls')
    BY <1>1, <1>6, <2>3 DEF PageFits, AppFails
  <2> QED BY <1>6, <2>4, PageSideFits DEF AppFails
<1> QED
  BY <1>4, <1>5, <1>6

(* A page gets a reply, or does not.                                       *)
LEMMA ReceiveFits ==
  ASSUME PageInv, NEW c \in calls, Receive(c) \/ Lose(c)
  PROVE  PageInv'
<1>1. PageFits(Attempted, left, app, tabs, calls) /\ AttemptsInLine
  BY DEF PageInv
<1>2. left \in 0 .. Length /\ CallFits(c, Attempted, left, app)
  BY <1>1 DEF PageFits
<1>3. PageFits(Attempted, left, app, tabs, calls \ {c})
  BY <1>1 DEF PageFits
<1>4. CASE Lose(c)
  BY <1>3, <1>4, PageSideFits DEF Lose
<1>5. CASE Receive(c)
  <2>1. /\ c.tab \in Tabs /\ Attempted.row = "live" /\ c \in Call
        /\ app' = app /\ left' = left /\ pastDue' = pastDue
    BY <1>2, <1>5 DEF CallFits, Receive
  <2>2. CASE Show(c.tab, calls \ {c})
    BY <1>1, <1>3, <2>1, <2>2, ShowFits DEF PageInv
  <2>3. CASE /\ c.what \in {"submit", "last poll"} /\ c.answer = "done"
             /\ calls' = (calls \ {c}) \cup {Sent(c.tab, "submit app")}
             /\ UNCHANGED <<db, tabs>>
    <3>1. Attempted.status \in Completed
      BY <1>2, <2>3 DEF CallFits
    <3>2. CallFits(Sent(c.tab, "submit app"), Attempted, left, app)
      BY <1>2, <2>1, <3>1, SentFits DEF Prompts
    <3>3. PageFits(Attempted, left, app', tabs', calls')
      BY <1>3, <2>1, <2>3, <3>2 DEF PageFits
    <3> QED BY <2>1, <2>3, <3>3, PageSideFits
  <2>4. CASE /\ c.what = "poll" /\ c.answer = "done"
             /\ tabs' = [tabs EXCEPT ![c.tab].secs = IF tabs[c.tab].timer THEN c.secs ELSE @]
             /\ calls' = calls \ {c}
             /\ UNCHANGED db
    <3> DEFINE old == tabs[c.tab]
               new == [old EXCEPT !.secs = IF old.timer THEN c.secs ELSE old.secs]
    <3>1. TabFits(old, Attempted, left, app)
      BY <1>1, <2>1 DEF PageFits
    <3>2. tabs' = [tabs EXCEPT ![c.tab] = new]
      BY <2>4
    <3>3. /\ c.secs \in 0 .. Length /\ c.secs >= left
      BY <1>2, <2>1, <2>4 DEF CallFits, Call
    <3>4. c.secs \in -Grace .. Length /\ c.secs > -Grace /\ c.secs >= left - 1
      <4>1. Grace \in Nat \ {0} /\ Length \in Nat \ {0}
        BY PageAssumption
      <4> QED BY <1>2, <3>3, <4>1
    <3>5. old \in [page : {old.page}, timer : BOOLEAN, pings : BOOLEAN,
                   secs : -Grace .. Length, tick : {old.tick}]
      BY <3>1 DEF TabFits, IsTab
    <3>6. /\ new.page = old.page /\ new.timer = old.timer
          /\ new.secs = (IF old.timer THEN c.secs ELSE old.secs)
          /\ new \in [page : {new.page}, timer : BOOLEAN, pings : BOOLEAN,
                      secs : -Grace .. Length, tick : {new.tick}]
      BY <3>4, <3>5
    <3> HIDE DEF new, old
    <3>7. TabFits(new, Attempted, left, app)
      BY <3>1, <3>4, <3>6 DEF TabFits, IsTab
    <3>8. PageFits(Attempted, left, app, tabs', calls')
      BY <1>1, <1>3, <2>1, <2>4, <3>2, <3>7, TabSetFits DEF PageFits
    <3> QED BY <2>1, <2>4, <3>8, PageSideFits
  <2>5. CASE /\ c.what # "poll" /\ c.answer = "refused"
             /\ calls' = calls \ {c}
             /\ UNCHANGED <<db, tabs>>
    BY <1>3, <2>1, <2>5, PageSideFits
  <2> QED BY <1>5, <2>2, <2>3, <2>4, <2>5 DEF Receive
<1> QED
  BY <1>4, <1>5

(* The learner enters the exam, or the proctoring service calls back.      *)
LEMMA ElsewhereFits ==
  ASSUME PageInv, Elsewhere
  PROVE  PageInv'
<1>1. PageFits(Attempted, left, app, tabs, calls) /\ AttemptsInLine /\ InLine(db)
  BY DEF PageInv, AttemptsInLine
<1>2. left' = left /\ app' = app /\ tabs' = tabs /\ calls' = calls
  BY DEF Elsewhere
<1>3. left \in 0 .. Length
  BY <1>1 DEF PageFits
<1>4. CASE ~ HasAttempt(db, Exam) /\ Post(Exam, TRUE, FALSE, "created", FALSE)
  <2>1. /\ \/ Attempted' = Attempted
           \/ /\ Attempted'.row = "live" /\ Attempted'.status = "created"
              /\ ~ Attempted'.started
        /\ Next
    BY <1>1, <1>4, EnteredFresh
  <2>2. AttemptsInLine'
    BY <1>1, <2>1, NextInLine
  <2>3. Attempted.row # "live"
    BY <1>4, OneAttempt DEF Attempted
  <2>4. \A c \in calls : FALSE
    BY <1>1, <2>3 DEF PageFits, CallFits
  <2>5. \A t \in Tabs : /\ IsTab(tabs[t]) /\ tabs[t].page = "closed"
                        /\ ~ tabs[t].timer
    BY <1>1, <2>3 DEF PageFits, TabFits
  <2>6. \A a : \A t \in Tabs : TabFits(tabs[t], a, left, app)
    BY <2>5 DEF TabFits
  <2>7. ASSUME Attempted'.status = "created", Attempted'.row = "live"
        PROVE  PageFits(Attempted', left, app, tabs, calls)
    <3>1. app # "ended"
      BY <1>1, <2>3 DEF PageFits
    <3>2. AttemptFits(Attempted', app)
      BY <2>7, <3>1 DEF AttemptFits, InProgress
    <3> QED BY <1>1, <2>4, <2>6, <2>7, <3>2 DEF PageFits
  <2> QED BY <1>1, <1>2, <2>1, <2>2, <2>7 DEF PageInv
<1>5. CASE BackendNext(Exam)
  <2>1. /\ \E to \in {"ready_to_start", "submitted", "timed_out"} :
             Goes1(Attempted, Attempted', to)
        /\ Next
    BY <1>1, <1>5, BackendGoes1
  <2>2. AttemptsInLine'
    BY <1>1, <2>1, NextInLine
  <2>3. PICK to \in {"ready_to_start", "submitted", "timed_out"} :
          Goes1(Attempted, Attempted', to)
    BY <2>1
  <2>4. to \notin InProgress
    BY DEF InProgress
  <2>5. PageFits(Attempted', left, app, tabs, calls)
    BY <1>1, <1>3, <2>3, <2>4, GoesGetsOn
  <2> QED BY <1>2, <2>2, <2>5 DEF PageInv
<1> QED
  BY <1>4, <1>5 DEF Elsewhere

(* It holds before anything is opened.                                     *)
LEMMA PageInitFits == PageInit => PageInv
<1> SUFFICES ASSUME PageInit PROVE PageInv
  OBVIOUS
<1>1. Init /\ left = 0 /\ app = "idle" /\ calls = {} /\ tabs = [t \in Tabs |-> Closed]
  BY DEF PageInit
<1>2. AttemptsInLine
  BY <1>1, InitInLine
<1>3. Attempted = NoRow
  BY <1>1, OneAttempt DEF Init, Attempted
<1>4. AttemptFits(Attempted, app)
  BY <1>1, <1>3 DEF AttemptFits, NoRow, InProgress
<1>5. 0 \in -Grace .. Length
  <2>1. Grace \in Nat /\ Length \in Nat
    BY PageAssumption
  <2> QED BY <2>1
<1>6. Closed.page = "closed" /\ ~ Closed.timer /\ IsTab(Closed)
  BY <1>5 DEF Closed, IsTab
<1>7. TabFits(Closed, Attempted, left, app)
  BY <1>6 DEF TabFits
<1>8. left \in 0 .. Length
  BY <1>1, Seconds
<1>9. tabs = [t \in Tabs |-> tabs[t]] /\ \A t \in Tabs : tabs[t] = Closed
  BY <1>1
<1> QED
  BY <1>1, <1>2, <1>4, <1>7, <1>8, <1>9 DEF PageInv, PageFits

(* The invariant is inductive.                                             *)
LEMMA PageNextFits == PageInv /\ [PageNext]_pageVars => PageInv'
<1> SUFFICES ASSUME PageInv, [PageNext]_pageVars PROVE PageInv'
  OBVIOUS
<1>1. CASE UNCHANGED pageVars
  <2>1. /\ UNCHANGED <<db, pastDue, left>>
        /\ app' = app /\ tabs' = tabs /\ calls' = calls
    BY <1>1 DEF pageVars
  <2>2. PageFits(Attempted, left, app', tabs', calls')
    BY <2>1 DEF PageInv
  <2> QED BY <2>1, <2>2, PageSideFits
<1>2. ASSUME NEW t \in Tabs, Open(t) PROVE PageInv'
  <2>1. /\ HasAttempt(db, Exam) /\ Show(t, calls)
        /\ pastDue' = pastDue /\ left' = left /\ app' = app
    BY <1>2 DEF Open
  <2>2. Attempted.row = "live"
    BY <2>1, OneAttempt DEF Attempted
  <2> QED BY <2>1, <2>2, ShowFits DEF PageInv
<1>3. CASE Elsewhere
  BY <1>3, ElsewhereFits
<1>4. CASE LoseApp
  BY <1>4, AppFits
<1>5. ASSUME NEW ticking \in SUBSET Tabs, Second(ticking) PROVE PageInv'
  BY <1>5, SecondFits
<1>6. ASSUME NEW t \in Tabs,
             \/ Close(t)
             \/ PressStart(t) \/ PressSubmit(t) \/ PressContinue(t) \/ PressTurnIn(t)
      PROVE  PageInv'
  BY <1>6, PressFits
<1>7. ASSUME NEW c \in calls, AppAnswers(c) \/ AppFails(c) PROVE PageInv'
  BY <1>7, AppFits
<1>8. ASSUME NEW c \in calls, Serve(c) PROVE PageInv'
  BY <1>8, ServeFits
<1>9. ASSUME NEW c \in calls, Receive(c) \/ Lose(c) PROVE PageInv'
  BY <1>9, ReceiveFits
<1> QED
  BY <1>1, <1>2, <1>3, <1>4, <1>5, <1>6, <1>7, <1>8, <1>9 DEF PageNext

(* Hence it always holds.                                                  *)
LEMMA PageInvHolds == PageSpec => []PageInv
  BY PageInitFits, PageNextFits, PTL DEF PageSpec

-----------------------------------------------------------------------------
(* Theorems.                                                               *)

(* With any number of tabs, calls under way and losses, the attempt is in  *)
(* progress on the server only between the start of the application and    *)
(* the moment it is told to end.                                           *)
THEOREM AlwaysRecorded == PageSpec => []RecordedThroughout
<1>1. PageInv => RecordedThroughout
  BY DEF PageInv, PageFits, AttemptFits, RecordedThroughout
<1> QED
  BY <1>1, PageInvHolds, PTL

(* Whatever the allowed time, the grace period and the intervals, and      *)
(* however late or reordered the replies, a page asks for the last time    *)
(* when the server's time is over.                                         *)
THEOREM LastPollAlwaysInTime == PageSpec => []LastPollInTime
<1>1. PageInv => LastPollInTime
  BY DEF PageInv, PageFits, CallFits, LastPollInTime
<1> QED
  BY <1>1, PageInvHolds, PTL

(* The pages, their calls and the attempt are of their types throughout.   *)
THEOREM PageTypeCorrect == PageSpec => []PageTypeOK
<1>1. PageInv => PageTypeOK
  <2> SUFFICES ASSUME PageInv PROVE PageTypeOK
    OBVIOUS
  <2>1. TypeOK
    BY DEF PageInv, AttemptsInLine, InLine, Sound, TypeOK
  <2>2. PageFits(Attempted, left, app, tabs, calls)
    BY DEF PageInv
  <2>3. \A t \in Tabs : tabs[t].secs \in -Grace .. Length /\ tabs[t].timer \in BOOLEAN
    BY <2>2 DEF PageFits, TabFits, IsTab
  <2>4. \A c \in calls : c \in Call
    BY <2>2 DEF PageFits, CallFits
  <2>5. \A c \in Call : c.tab \in Tabs \cup {NoTab} /\ c.what \in Prompts \cup Requests
    BY DEF Call
  <2> QED BY <2>1, <2>2, <2>3, <2>4, <2>5 DEF PageTypeOK, PageFits
<1> QED
  BY <1>1, PageInvHolds, PTL
=============================================================================
