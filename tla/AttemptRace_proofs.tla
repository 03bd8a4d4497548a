-------------------------- MODULE AttemptRace_proofs --------------------------
(***************************************************************************)
(* Proofs about AttemptRace.  However the requests on the attempts at an   *)
(* exam overlap, no row loses the agreement between its flags and its      *)
(* status; verifications that overlap settle the credit; and a request     *)
(* that overlaps nothing but itself is a request that is made once.        *)
(***************************************************************************)
EXTENDS AttemptRace, ExamAttempts_proofs

(* The inductive invariant: the copies the requests hold are sound rows as *)
(* well, and each of them answers a request there is.                      *)
RaceInv == RaceTypeOK /\ CopiesSound

-----------------------------------------------------------------------------
(* Helpers.                                                                *)

(* The exam of the race is a proctored one.                                *)
LEMMA ExamIsProctored == Exam \in Exams /\ Kind[Exam] = "proctored"
  BY RaceAssumption

(* The steps of a request are steps that a worker knows.                   *)
LEMMA StepsAreSteps == ASSUME NEW r \in Request PROVE Steps(r) \in Seq(Step)
<1>1. Save \in Seq(Step)
  BY DEF Save, Step
<1>2. /\ <<"judge", "credit", "withdraw", "look", "write">> \in Seq(Step)
      /\ <<"judge", "credit", "override">> \in Seq(Step)
      /\ <<"load", "delete", "restore", "uncredit">> \in Seq(Step)
      /\ <<"insert">> \in Seq(Step)
  BY DEF Step
<1>3. \A s, t \in Seq(Step) : s \o t \in Seq(Step)
  OBVIOUS
<1>4. Updating(r.to) \in Seq(Step)
  BY <1>1, <1>2, <1>3 DEF Updating
<1>5. r.op \in Operation
  BY DEF Request
<1> QED
  BY <1>1, <1>2, <1>3, <1>4, <1>5 DEF Steps, Operation

(* A worker that has nothing to do holds a sound copy of a row.            *)
LEMMA IdleIsWork ==
  /\ Idle \in Work /\ RowSound(Exam, Idle.row) /\ Idle.todo = <<>>
  /\ NoneYet \in [requests : SUBSET Request, db : Database]
<1>1. RowSound(Exam, NoRow) /\ NoRow \in Attempt /\ NoRow.status \in Status
  BY ExamIsProctored, UnusedRowsSound DEF RowSound, Attempt
<1>2. 1 \in Slots
  BY ConstantsAssumption DEF Slots
<1>3. "created" \in ValidStatus /\ "created" \in Status
  BY DEF ValidStatus, Incomplete, PreStarted, Status
<1>4. Idle \in Work
  BY <1>1, <1>2, <1>3 DEF Idle, Work, Request, Operation
<1>5. NoneYet.db \in Database
  BY <1>1 DEF NoneYet, Database
<1> QED
  BY <1>1, <1>4, <1>5 DEF Idle, NoneYet

(* A step of a request goes on with a sound copy of its row.               *)
LEMMA ContinueInv ==
  ASSUME RaceInv, NEW w \in Workers, NEW task \in Work,
         RowSound(Exam, task.row), Continue(w, task), Sound(db')
  PROVE  RaceInv'
<1>1. /\ work \in [Workers -> Work]
      /\ since \in [requests : SUBSET Request, db : Database]
      /\ \A v \in Workers : RowSound(Exam, work[v].row)
  BY DEF RaceInv, RaceTypeOK, CopiesSound
<1>2. /\ work' = [work EXCEPT ![w] = IF task.todo = <<>> THEN Idle ELSE task]
      /\ since' \in {since, NoneYet}
      /\ pastDue' = pastDue /\ overlaps' = overlaps
  BY DEF Continue
<1>3. /\ work' \in [Workers -> Work]
      /\ \A v \in Workers : work'[v] \in {work[v], Idle, task}
  BY <1>1, <1>2, IdleIsWork
<1>4. \A v \in Workers : RowSound(Exam, work'[v].row)
  BY <1>1, <1>3, IdleIsWork
<1>5. since' \in [requests : SUBSET Request, db : Database]
  BY <1>1, <1>2, IdleIsWork
<1>6. RowsSound' /\ TypeOK'
  BY <1>2 DEF RaceInv, CopiesSound, RowsSound, TypeOK, Sound
<1> QED
  BY <1>2, <1>3, <1>4, <1>5, <1>6 DEF RaceInv, RaceTypeOK, CopiesSound

(* A worker at some step has a request of the declared type.               *)
LEMMA AtWork ==
  ASSUME RaceInv, NEW w \in Workers, NEW step, At(w, step)
  PROVE  /\ work[w] \in Work /\ work[w].request \in Request
         /\ work[w].row \in Attempt /\ RowSound(Exam, work[w].row)
         /\ [work[w] EXCEPT !.todo = Tail(@)] \in Work
         /\ [work[w] EXCEPT !.todo = Tail(@)].row = work[w].row
         /\ [work[w] EXCEPT !.todo = <<>>] \in Work
         /\ [work[w] EXCEPT !.todo = <<>>].row = work[w].row
         /\ Tail(work[w].todo) \in Seq(Step)
<1>1. work[w] \in Work /\ RowSound(Exam, work[w].row)
  BY DEF RaceInv, RaceTypeOK, CopiesSound
<1>2. work[w].todo \in Seq(Step) /\ work[w].todo # <<>>
  BY <1>1 DEF Work, At
<1>3. Tail(work[w].todo) \in Seq(Step)
  BY <1>2
<1>4. <<>> \in Seq(Step)
  OBVIOUS
<1>5. \A x \in Work, s \in Seq(Step) :
        /\ [x EXCEPT !.todo = s] \in Work
        /\ [x EXCEPT !.todo = s].row = x.row
  BY DEF Work
<1>6. work[w].request \in Request /\ work[w].row \in Attempt
  BY <1>1 DEF Work
<1> QED
  BY <1>1, <1>3, <1>4, <1>5, <1>6

(* Whatever row it holds then, a request that has made a step is a request. *)
LEMMA HoldingIsWork ==
  ASSUME NEW task \in Work, Tail(task.todo) \in Seq(Step),
         NEW from \in Status, NEW row \in Attempt
  PROVE  /\ Holding(task, from, row) \in Work
         /\ Holding(task, from, row).row = row
<1>1. \A s \in Seq(Step) :
        /\ [task EXCEPT !.todo = s, !.from = from, !.row = row] \in Work
        /\ [task EXCEPT !.todo = s, !.from = from, !.row = row].row = row
  BY DEF Work
<1> QED
  BY <1>1 DEF Holding

(* A worker that goes on to its next step, or gives up, keeps the          *)
(* invariant if what it wrote is sound.                                    *)
LEMMA GoesOn ==
  ASSUME RaceInv, NEW w \in Workers, NEW step, At(w, step),
         GoOn(w) \/ GiveUp(w), Sound(db')
  PROVE  RaceInv'
<1>1. CASE GoOn(w)
  BY <1>1, AtWork, ContinueInv DEF GoOn
<1>2. CASE GiveUp(w)
  BY <1>2, AtWork, ContinueInv DEF GiveUp
<1> QED
  BY <1>1, <1>2

(* What the services of the LMS are told does not concern the rows.        *)
LEMMA LmsToldSound ==
  ASSUME NEW d, Sound(d), NEW c \in CreditStatus \cup {"none"}, NEW o \in BOOLEAN
  PROVE  /\ Sound([d EXCEPT !.credit[Exam] = c])
         /\ Sound([d EXCEPT !.override[Exam] = o])
<1>1. d \in [att      : [Exams -> [Slots -> Attempt]],
             credit   : [Exams -> CreditStatus \cup {"none"}],
             override : [Exams -> BOOLEAN]]
  BY DEF Sound, Database
<1>2. /\ [d EXCEPT !.credit[Exam] = c] \in Database
      /\ [d EXCEPT !.credit[Exam] = c].att = d.att
  BY <1>1 DEF Database
<1>3. /\ [d EXCEPT !.override[Exam] = o] \in Database
      /\ [d EXCEPT !.override[Exam] = o].att = d.att
  BY <1>1 DEF Database
<1> QED
  BY <1>2, <1>3 DEF Sound

(* What a request is going to save of a sound row is a sound row.          *)
LEMMA CopySound ==
  ASSUME NEW a, RowSound(Exam, a), NEW r \in Request, ~ Refuses(a, r)
  PROVE  RowSound(Exam, Copy(a, r))
<1>1. r.op \in Operation /\ r.to \in ValidStatus
  BY DEF Request
<1>2. CASE r.op = "update"
  <2>1. CanHave(Exam, r.to)
    BY <1>1, ExamIsProctored, ValidCanHave
  <2>2. IsLegal(a.status, EffectiveStatus(a.status, r.to, AllowTimedOut))
    BY <1>2 DEF Refuses
  <2>3. ASSUME NEW stamped \in BOOLEAN, NEW instantly \in BOOLEAN
        PROVE  RowSound(Exam, Saved(a, r.to, stamped, instantly))
    BY <2>1, <2>2, ExamIsProctored, SavedSound
  <2>4. Copy(a, r) = Saved(a, r.to, r.to = "timed_out", FALSE)
    BY <1>2 DEF Copy
  <2>5. (r.to = "timed_out") \in BOOLEAN /\ FALSE \in BOOLEAN
    OBVIOUS
  <2> QED BY <2>3, <2>4, <2>5, Zenon
<1>3. CASE r.op = "release"
  BY <1>3 DEF Copy, Refuses, RowSound, Attempt, InResumeProcess
<1>4. CASE r.op = "resume"
  BY <1>4 DEF Copy, Refuses, RowSound, Attempt, InResumeProcess
<1>5. CASE r.op \notin {"update", "release", "resume"}
  BY <1>5 DEF Copy
<1> QED
  BY <1>2, <1>3, <1>4, <1>5

-----------------------------------------------------------------------------
(* The steps.                                                              *)

(* A worker takes up a request.                                            *)
LEMMA BeginInv ==
  ASSUME RaceInv, NEW w \in Workers, NEW r \in Request, Begin(w, r)
  PROVE  RaceInv'
<1> DEFINE task == [Idle EXCEPT !.request = r, !.todo = Steps(r)]
<1>1. /\ work \in [Workers -> Work]
      /\ since \in [requests : SUBSET Request, db : Database]
      /\ \A v \in Workers : RowSound(Exam, work[v].row)
      /\ db \in Database /\ overlaps \in 0 .. MaxOverlaps
  BY DEF RaceInv, RaceTypeOK, CopiesSound, TypeOK
<1>2. task \in Work /\ task.row = Idle.row
  BY IdleIsWork, StepsAreSteps DEF Work
<1>3. work' = [work EXCEPT ![w] = task] /\ db' = db /\ pastDue' = pastDue
  BY DEF Begin
<1> HIDE DEF task
<1>4. /\ work' \in [Workers -> Work]
      /\ \A v \in Workers : work'[v] \in {work[v], task}
  BY <1>1, <1>2, <1>3
<1>5. \A v \in Workers : RowSound(Exam, work'[v].row)
  BY <1>1, <1>2, <1>4, IdleIsWork
<1>6. since' \in [requests : SUBSET Request, db : Database]
  <2>1. since' \in {[requests |-> {r}, db |-> db],
                    [since EXCEPT !.requests = @ \cup {r}], NoneYet}
    BY DEF Begin
  <2>2. [since EXCEPT !.requests = @ \cup {r}]
          \in [requests : SUBSET Request, db : Database]
    BY <1>1
  <2> QED BY <1>1, <2>1, <2>2, IdleIsWork
<1>7. overlaps' \in 0 .. MaxOverlaps
  BY <1>1, RaceAssumption DEF Begin
<1>8. RowsSound' /\ TypeOK'
  BY <1>3 DEF RaceInv, RaceTypeOK, CopiesSound, RowsSound, TypeOK, Sound
<1> QED
  BY <1>4, <1>5, <1>6, <1>7, <1>8 DEF RaceInv, RaceTypeOK, CopiesSound

(* Every request that can be asked for is one that a worker takes up.      *)
LEMMA AskInv ==
  ASSUME RaceInv, NEW w \in Workers, Ask(w)
  PROVE  RaceInv'
<1>1. "created" \in ValidStatus /\ "timed_out" \in ValidStatus
  BY DEF ValidStatus, Completed, Incomplete, PreStarted
<1>2. ASSUME NEW i \in Slots, NEW op \in Operation, NEW to \in ValidStatus
      PROVE  [op |-> op, slot |-> i, to |-> to] \in Request
  BY DEF Request
<1>3. ASSUME NEW i \in Slots, NEW op \in Operation, NEW to \in ValidStatus,
             Begin(w, [op |-> op, slot |-> i, to |-> to])
      PROVE  RaceInv'
  BY <1>2, <1>3, BeginInv
<1>4. 1 \in Slots
  BY ConstantsAssumption DEF Slots
<1>5. ASSUME NEW i \in Slots, NEW to \in Racing, AskUpdate(w, i, to)
      PROVE  RaceInv'
  <2>1. to \in ValidStatus /\ "update" \in Operation
    BY RaceAssumption DEF Operation
  <2> QED BY <1>3, <1>5, <2>1 DEF AskUpdate
<1>6. ASSUME NEW i \in Slots, AskTimeout(w, i)
      PROVE  RaceInv'
  <2>1. "update" \in Operation
    BY DEF Operation
  <2> QED BY <1>1, <1>3, <1>6, <2>1 DEF AskTimeout
<1>7. ASSUME NEW i, NEW op \in Operation, AskOther(w, i, op)
      PROVE  RaceInv'
  <2>1. i \in Slots
    BY <1>7 DEF AskOther, Live
  <2> QED BY <1>1, <1>3, <1>7, <2>1 DEF AskOther
<1>8. ASSUME AskCreate(w)
      PROVE  RaceInv'
  <2>1. "resume" \in Operation /\ "create" \in Operation
    BY DEF Operation
  <2> QED BY <1>1, <1>3, <1>4, <1>7, <1>8, <2>1 DEF AskCreate
<1>9. {"acknowledge", "release", "remove"} \subseteq Operation
  BY DEF Operation
<1> QED
  BY <1>5, <1>6, <1>7, <1>8, <1>9 DEF Ask

(* A row is copied when it is loaded.                                      *)
LEMMA LoadInv ==
  ASSUME RaceInv, NEW w \in Workers, Load(w)
  PROVE  RaceInv'
<1> DEFINE r    == work[w].request
           task == Holding(work[w], Row(w).status, Copy(Row(w), r))
<1>1. At(w, "load") /\ db' = db
  BY DEF Load
<1>2. Sound(db) /\ Sound(db')
  BY <1>1 DEF RaceInv, CopiesSound, RowsSound
<1>3. CASE GiveUp(w)
  BY <1>1, <1>2, <1>3, GoesOn
<1>4. CASE ~ GiveUp(w)
  <2>1. ~ Refuses(Row(w), r) /\ Continue(w, task)
    BY <1>4 DEF Load
  <2>2. r \in Request /\ work[w] \in Work /\ Tail(work[w].todo) \in Seq(Step)
    BY <1>1, AtWork
  <2>3. RowSound(Exam, Row(w)) /\ Row(w).status \in Status
    BY <1>2, <2>2, ExamIsProctored
    DEF Sound, Row, Rows, Request, RowSound, Attempt
  <2>4. RowSound(Exam, Copy(Row(w), r)) /\ Copy(Row(w), r) \in Attempt
    BY <2>1, <2>2, <2>3, CopySound DEF RowSound
  <2>5. task \in Work /\ task.row = Copy(Row(w), r)
    BY <2>2, <2>3, <2>4, HoldingIsWork
  <2> QED BY <1>2, <2>1, <2>4, <2>5, ContinueInv
<1> QED
  BY <1>3, <1>4

(* The copy of a row, and not the row, is withdrawn from the proctoring    *)
(* service.                                                                *)
LEMMA WithdrawInv ==
  ASSUME RaceInv, NEW w \in Workers, Withdraw(w)
  PROVE  RaceInv'
<1> DEFINE row  == [work[w].row EXCEPT !.proctored = FALSE, !.registered = FALSE]
           task == Holding(work[w], work[w].from, row)
<1>1. At(w, "withdraw") /\ db' = db /\ Continue(w, task)
  BY DEF Withdraw
<1>2. Sound(db')
  BY <1>1 DEF RaceInv, CopiesSound, RowsSound
<1>3. /\ work[w] \in Work /\ Tail(work[w].todo) \in Seq(Step)
      /\ RowSound(Exam, work[w].row) /\ work[w].from \in Status
  BY <1>1, AtWork DEF Work
<1>4. RowSound(Exam, row) /\ row \in Attempt
  BY <1>3 DEF RowSound, Attempt, InResumeProcess
<1> HIDE DEF row
<1>5. task \in Work /\ task.row = row
  BY <1>3, <1>4, HoldingIsWork
<1> QED
  BY <1>1, <1>2, <1>4, <1>5, ContinueInv

(* Every step of a worker keeps the invariant, whatever has been written   *)
(* since its copy was taken.                                               *)
LEMMA ServeInv ==
  ASSUME RaceInv, NEW w \in Workers, Serve(w)
  PROVE  RaceInv'
<1>1. Sound(db)
  BY DEF RaceInv, CopiesSound, RowsSound
<1>2. CASE Look(w) \/ Judge(w)
  <2>1. Sound(db')
    BY <1>1, <1>2 DEF Look, Judge
  <2> QED BY <1>2, <2>1, GoesOn DEF Look, Judge
<1>3. CASE Write(w)
  <2>1. db' = WithRow(db, Exam, work[w].request.slot, work[w].row)
    BY <1>3 DEF Write, WithRow
  <2>2. RowSound(Exam, work[w].row)
    BY <1>3, AtWork DEF Write
  <2>3. Sound(db')
    BY <1>1, <2>1, <2>2, ExamIsProctored, WriteRowSound
  <2> QED BY <1>3, <2>3, GoesOn DEF Write
<1>4. CASE Credit(w) \/ Uncredit(w)
  <2>1. \A status \in NeedsCreditUpdate : CreditFor(status) \in CreditStatus
    BY DEF NeedsCreditUpdate, CreditFor, CreditStatus
  <2>2. ASSUME NEW c \in CreditStatus \cup {"none"}
        PROVE  Sound([db EXCEPT !.credit[Exam] = c])
    <3>1. ASSUME NEW o \in BOOLEAN
          PROVE  Sound([db EXCEPT !.credit[Exam] = c])
      BY <1>1, LmsToldSound
    <3> QED BY <3>1
  <2>3. Sound(db')
    BY <1>1, <1>4, <2>1, <2>2 DEF Credit, Uncredit
  <2> QED BY <1>4, <2>3, GoesOn DEF Credit, Uncredit
<1>5. CASE Override(w) \/ Restore(w)
  <2>1. ASSUME NEW o \in BOOLEAN
        PROVE  Sound([db EXCEPT !.override[Exam] = o])
    BY <1>1, LmsToldSound
  <2>2. Sound([db EXCEPT !.override[Exam] = TRUE])
    BY <2>1, Zenon
  <2>3. Sound([db EXCEPT !.override[Exam] = FALSE])
    BY <2>1, Zenon
  <2>4. Sound(db')
    BY <1>1, <1>5, <2>2, <2>3 DEF Override, Restore
  <2> QED BY <1>5, <2>4, GoesOn DEF Override, Restore
<1>6. CASE DeleteRow(w)
  <2>1. db' = WithRow(db, Exam, work[w].request.slot, Archived)
    BY <1>6 DEF DeleteRow, WithRow
  <2>2. Sound(db')
    BY <1>1, <2>1, ExamIsProctored, UnusedRowsSound, WriteRowSound
  <2> QED BY <1>6, <2>2, GoesOn DEF DeleteRow
<1>7. ASSUME NEW outcome \in Outcomes(Exam, TRUE), Insert(w, outcome)
      PROVE  RaceInv'
  <2>1. outcome = "refused" \/ (CanHave(Exam, outcome) /\ outcome # "error")
    BY <1>7, ExamIsProctored, ConstantsAssumption
    DEF Outcomes, CanHave, Status, ValidStatus, Completed, OnboardingErrors,
        Incomplete, PreStarted
  <2>2. ASSUME NEW proctored \in BOOLEAN, outcome # "refused"
        PROVE  Sound(NewAttempt(db, Exam, outcome, proctored))
    BY <1>1, <2>1, <2>2, ExamIsProctored, NewAttemptSound
  <2>3. outcome # "refused" => Sound(NewAttempt(db, Exam, outcome, TRUE))
    BY <2>2, Zenon
  <2>4. Sound(db')
    BY <1>1, <1>7, <2>3 DEF Insert
  <2> QED BY <1>7, <2>4, GoesOn DEF Insert
<1> QED
  BY <1>2, <1>3, <1>4, <1>5, <1>6, <1>7, LoadInv, WithdrawInv DEF Serve

(* The time of an attempt runs out between any two steps.                  *)
LEMMA RunOutInv ==
  ASSUME RaceInv, NEW i \in Slots, RunOut(i)
  PROVE  RaceInv'
<1>1. /\ Expire(Exam, i) /\ pastDue' = pastDue /\ work' = work
      /\ since' = NoneYet /\ overlaps' = overlaps
  BY DEF RunOut, Expire
<1>2. RowsSound
  BY DEF RaceInv, CopiesSound
<1>3. Sound(db')
  BY <1>1, <1>2, ExamIsProctored, RawWritesSound
<1>4. RowsSound' /\ TypeOK'
  BY <1>1, <1>2, <1>3 DEF RowsSound, TypeOK, Sound
<1> QED
  BY <1>1, <1>4, IdleIsWork DEF RaceInv, RaceTypeOK, CopiesSound

-----------------------------------------------------------------------------
(* The theorems.                                                           *)

(* At first every worker is idle.                                          *)
LEMMA InitRaceInv == RaceInit => RaceInv
<1> SUFFICES ASSUME RaceInit PROVE RaceInv
  OBVIOUS
<1>1. RowsSound /\ TypeOK
  BY InitRowsSound DEF RaceInit, RowsSound, TypeOK, Sound
<1>2. work = [w \in Workers |-> Idle] /\ since = NoneYet /\ overlaps = 0
  BY DEF RaceInit
<1> QED
  BY <1>1, <1>2, IdleIsWork, RaceAssumption DEF RaceInv, RaceTypeOK, CopiesSound

(* The invariant is inductive.                                             *)
LEMMA NextRaceInv == RaceInv /\ [RaceNext]_raceVars => RaceInv'
<1> SUFFICES ASSUME RaceInv, [RaceNext]_raceVars PROVE RaceInv'
  OBVIOUS
<1>1. CASE UNCHANGED raceVars
  BY <1>1 DEF raceVars, RaceInv, RaceTypeOK, CopiesSound, RowsSound, TypeOK
<1>2. CASE RaceNext
  BY <1>2, AskInv, ServeInv, RunOutInv DEF RaceNext
<1> QED
  BY <1>1, <1>2

(* With any number of processes, attempts and overlapping requests, each   *)
(* row that is stored, and each copy yet to be saved, has its flags and    *)
(* its status in line: an attempt that was ever submitted and still has a  *)
(* time of completion is complete, and one in error can be released.       *)
THEOREM RacingKeepsRowsSound == RaceSpec => []CopiesSound
<1>1. RaceInv => CopiesSound
  BY DEF RaceInv
<1> QED
  BY <1>1, InitRaceInv, NextRaceInv, PTL DEF RaceSpec

(* What the flags and the status of a row say of each other is true        *)
(* whatever overlaps: a submission is not undone by half, no error is lost *)
(* to staff, no attempt is released twice.                                 *)
THEOREM RacingKeepsFlags ==
  RaceSpec => [](SubmittedStaysComplete /\ ErrorIsRecoverable /\ ResumeFlagsExclusive)
<1>1. Completed \cap Incomplete = {}
  BY DEF Completed, OnboardingErrors, Incomplete, PreStarted, InProgress
<1>2. CopiesSound =>
        SubmittedStaysComplete /\ ErrorIsRecoverable /\ ResumeFlagsExclusive
  BY <1>1 DEF CopiesSound, RowsSound, Sound, RowSound, SubmittedStaysComplete,
     ErrorIsRecoverable, ResumeFlagsExclusive, LiveAttempt
<1> QED
  BY <1>2, RacingKeepsRowsSound, PTL

(* Every variable of the racing requests has its type.                     *)
THEOREM RaceTypeCorrect == RaceSpec => []RaceTypeOK
<1>1. RaceInv => RaceTypeOK
  BY DEF RaceInv
<1> QED
  BY <1>1, InitRaceInv, NextRaceInv, PTL DEF RaceSpec

-----------------------------------------------------------------------------
(* Verifications that overlap.                                             *)

ToLoad   == <<"load", "look", "write", "judge", "credit", "override">>
ToLook   == <<"look", "write", "judge", "credit", "override">>
ToWrite  == <<"write", "judge", "credit", "override">>
ToJudge  == <<"judge", "credit", "override">>
ToCredit == <<"credit", "override">>
ToEnd    == <<"override">>

(* What is left of a verification that has not told the credit service.    *)
Unsettled == {ToLoad, ToLook, ToWrite, ToJudge, ToCredit}

(* A verification verifies an attempt that is there, from its first look   *)
(* at it on.                                                               *)
Verifier(w) ==
  /\ work[w].request \in since.requests
  /\ Row(w).row = "live"
  /\ work[w].todo \in Unsettled \cup {ToEnd}
  /\ work[w].todo # ToLoad =>
       work[w].row.row = "live" /\ work[w].row.status = "verified"

(* All attempts verified: the credit follows, or somebody is yet to see to *)
(* it.  Which of them, when each counts the verified attempts for itself,  *)
(* is not determined.                                                      *)
CreditFollows ==
  AllVerified(db, Exam) =>
    \/ db.credit[Exam] = "satisfied"
    \/ \E w \in Workers : work[w].todo \in Unsettled

OnlyVerifying ==
  since.requests # {} /\ \A r \in since.requests : Verifies(r)

VerifyInv ==
  OnlyVerifying => (\A w \in Running : Verifier(w)) /\ CreditFollows

(* The steps of a verification, one after the other.                       *)
LEMMA VerifyingSteps ==
  /\ \A r : Verifies(r) => Steps(r) = ToLoad
  /\ Tail(ToLoad) = ToLook /\ Tail(ToLook) = ToWrite
  /\ Tail(ToWrite) = ToJudge /\ Tail(ToJudge) = ToCredit
  /\ Tail(ToCredit) = ToEnd /\ Tail(ToEnd) = <<>>
<1>1. \A r : Verifies(r) => Steps(r) = Save \o <<"judge", "credit", "override">>
  BY DEF Verifies, Steps, Updating
<1>2. Save \o <<"judge", "credit", "override">> = ToLoad
  <2> DEFINE t == <<"judge", "credit", "override">>
             s == Save \o t
  <2>1. Save \in Seq(Step) /\ t \in Seq(Step) /\ Len(Save) = 3 /\ Len(t) = 3
    BY DEF Save, Step
  <2>2. s \in Seq(Step) /\ Len(s) = 6
    <3> HIDE DEF t
    <3>1. s \in Seq(Step) /\ Len(s) = Len(Save) + Len(t)
      BY <2>1, ConcatProperties, Zenon
    <3> QED BY <2>1, <3>1
  <2>3. /\ s[1] = "load" /\ s[2] = "look" /\ s[3] = "write"
        /\ s[4] = "judge" /\ s[5] = "credit" /\ s[6] = "override"
    BY <2>1 DEF Save
  <2> HIDE DEF s
  <2>4. s = <<s[1], s[2], s[3], s[4], s[5], s[6]>>
    BY <2>2
  <2> QED BY <2>3, <2>4 DEF s, ToLoad
<1>3. Tail(ToLoad) = ToLook /\ Tail(ToLook) = ToWrite /\ Tail(ToWrite) = ToJudge
  BY DEF ToLoad, ToLook, ToWrite, ToJudge
<1>4. Tail(ToJudge) = ToCredit /\ Tail(ToCredit) = ToEnd /\ Tail(ToEnd) = <<>>
  BY DEF ToJudge, ToCredit, ToEnd
<1> QED
  BY <1>1, <1>2, <1>3, <1>4

(* The step that a verifier is at tells what is left to do.                *)
LEMMA VerifierAt ==
  ASSUME NEW t \in Unsettled \cup {ToEnd}
  PROVE  /\ t # <<>>
         /\ Head(t) = "load" => t = ToLoad
         /\ Head(t) = "look" => t = ToLook
         /\ Head(t) = "write" => t = ToWrite
         /\ Head(t) = "judge" => t = ToJudge
         /\ Head(t) = "credit" => t = ToCredit
         /\ Head(t) = "override" => t = ToEnd
         /\ Head(t) \in {"load", "look", "write", "judge", "credit", "override"}
  BY DEF Unsettled, ToLoad, ToLook, ToWrite, ToJudge, ToCredit, ToEnd

(* What is left differs from step to step.                                 *)
LEMMA ToDiffer ==
  /\ ToLook # ToLoad /\ ToWrite # ToLoad /\ ToJudge # ToLoad /\ ToCredit # ToLoad
  /\ ToEnd # ToLoad /\ ToEnd \notin Unsettled /\ <<>> \notin Unsettled
  BY DEF Unsettled, ToLoad, ToLook, ToWrite, ToJudge, ToCredit, ToEnd

(* What a verification is going to save of a row that is there.            *)
LEMMA VerifiedCopy ==
  ASSUME NEW a \in Attempt, NEW r, Verifies(r)
  PROVE  /\ ~ Refuses(a, r)
         /\ Copy(a, r).row = a.row /\ Copy(a, r).status = "verified"
<1>1. EffectiveStatus(a.status, "verified", AllowTimedOut) = "verified"
  BY DEF EffectiveStatus, IsReattempting, PreStarted
<1>2. r.op = "update" /\ r.to = "verified"
  BY DEF Verifies
<1>3. ~ Refuses(a, r)
  BY <1>1, <1>2 DEF Refuses, IsLegal, Incomplete, PreStarted, InProgress
<1>4. ASSUME NEW s \in BOOLEAN, NEW n \in BOOLEAN
      PROVE  /\ Saved(a, "verified", s, n).row = a.row
             /\ Saved(a, "verified", s, n).status = "verified"
  BY <1>1 DEF Saved, Attempt
<1>5. Copy(a, r) = Saved(a, "verified", r.to = "timed_out", FALSE)
  BY <1>2 DEF Copy
<1>6. (r.to = "timed_out") \in BOOLEAN /\ FALSE \in BOOLEAN
  OBVIOUS
<1>7. /\ Copy(a, r).row = a.row
      /\ Copy(a, r).status = "verified"
  BY <1>4, <1>5, <1>6, Zenon
<1> QED
  BY <1>3, <1>7

(* Every request has something to do.                                      *)
LEMMA StepsNotEmpty == ASSUME NEW r \in Request PROVE Steps(r) # <<>>
<1>1. r.op \in Operation
  BY DEF Request
<1>2. \A t \in Seq(Step) : Save \o t # <<>>
  <2>1. Save \in Seq(Step) /\ Len(Save) = 3
    BY DEF Save, Step
  <2>2. ASSUME NEW t \in Seq(Step) PROVE Save \o t # <<>>
    <3>1. Len(Save \o t) = Len(Save) + Len(t) /\ Len(t) \in Nat
      BY <2>1, ConcatProperties, LenProperties, Zenon
    <3> QED BY <2>1, <3>1
  <2> QED BY <2>2
<1>3. /\ <<"judge", "credit", "withdraw", "look", "write">> \in Seq(Step)
      /\ <<"judge", "credit", "override">> \in Seq(Step)
      /\ <<"insert">> \in Seq(Step)
  BY DEF Step
<1>4. Updating(r.to) # <<>> /\ Save \o <<"insert">> # <<>> /\ Save # <<>>
  BY <1>2, <1>3 DEF Updating, Save
<1> QED
  BY <1>1, <1>4 DEF Steps, Operation

(* A worker that takes up a verification is a verifier; the others stay    *)
(* what they are, and one more is yet to see to the credit.                *)
LEMMA BeginVerify ==
  ASSUME RaceInv, VerifyInv, NEW w \in Workers, NEW r \in Request,
         Verifies(r) => r.slot \in Live(db, Exam), Begin(w, r)
  PROVE  VerifyInv' /\ w \in Running'
<1> DEFINE task == [Idle EXCEPT !.request = r, !.todo = Steps(r)]
<1>1. /\ work \in [Workers -> Work] /\ work[w] = Idle /\ Idle.todo = <<>>
      /\ work' = [work EXCEPT ![w] = task] /\ db' = db
  BY IdleIsWork DEF RaceInv, RaceTypeOK, Begin
<1>2. task.request = r /\ task.todo = Steps(r)
  BY DEF Idle
<1> HIDE DEF task
<1>3. \A v \in Workers : work'[v] = IF v = w THEN task ELSE work[v]
  BY <1>1
<1>4. Steps(r) # <<>>
  BY StepsNotEmpty
<1>5. w \in Running'
  BY <1>2, <1>3, <1>4 DEF Running
<1>6. ASSUME OnlyVerifying'
      PROVE  (\A v \in Running : Verifier(v))' /\ CreditFollows'
  <2>1. \/ since' = [requests |-> {r}, db |-> db] /\ Running = {}
        \/ since' = [since EXCEPT !.requests = @ \cup {r}] /\ OnlyVerifying
    <3>1. since \in [requests : SUBSET Request, db : Database]
      BY DEF RaceInv, RaceTypeOK
    <3>2. CASE Running = {}
      <4>1. since' = [requests |-> {r}, db |-> db]
        BY <3>2, Zenon DEF Begin
      <4> QED BY <3>2, <4>1
    <3>3. CASE Running # {}
      <4>1. since' = [since EXCEPT !.requests = @ \cup {r}] /\ since.requests # {}
        BY <1>6, <3>3 DEF Begin, OnlyVerifying, NoneYet
      <4>2. since'.requests = since.requests \cup {r}
        BY <3>1, <4>1
      <4> QED BY <1>6, <4>1, <4>2 DEF OnlyVerifying
    <3> QED BY <3>2, <3>3
  <2>2. r \in since'.requests /\ (Running # {} => since.requests \subseteq since'.requests)
    BY <2>1 DEF RaceInv, RaceTypeOK
  <2>3. Verifies(r)
    BY <1>6, <2>2 DEF OnlyVerifying
  <2>4. task.todo = ToLoad
    BY <1>2, <2>3, VerifyingSteps
  <2>5. Verifier(w)'
    BY <1>1, <1>2, <1>3, <2>2, <2>3, <2>4 DEF Verifier, Row, Rows, Live, Unsettled
  <2>6. ASSUME NEW v \in Running', v # w PROVE Verifier(v)'
    <3>1. v \in Running /\ work'[v] = work[v]
      BY <1>3, <2>6 DEF Running
    <3>2. Verifier(v)
      BY <2>1, <3>1 DEF VerifyInv
    <3> QED BY <1>1, <2>2, <3>1, <3>2 DEF Verifier, Row, Rows
  <2>7. CreditFollows'
    BY <1>3, <2>4 DEF CreditFollows, Unsettled
  <2> QED BY <2>5, <2>6, <2>7
<1> QED
  BY <1>5, <1>6 DEF VerifyInv

(* Only the status page verifies, and it has the attempt it verifies.      *)
LEMMA AskVerify ==
  ASSUME RaceInv, VerifyInv, NEW w \in Workers, Ask(w)
  PROVE  VerifyInv' /\ w \in Running'
<1>1. ASSUME NEW i \in Slots, NEW op \in Operation, NEW to \in ValidStatus,
             Begin(w, [op |-> op, slot |-> i, to |-> to]),
             op = "update" /\ to = "verified" => i \in Live(db, Exam)
      PROVE  VerifyInv' /\ w \in Running'
  <2> DEFINE r == [op |-> op, slot |-> i, to |-> to]
  <2>1. r \in Request /\ r.op = op /\ r.slot = i /\ r.to = to
    BY DEF Request
  <2>2. Begin(w, r)
    BY <1>1
  <2>3. Verifies(r) => r.slot \in Live(db, Exam)
    BY <1>1, <2>1 DEF Verifies
  <2> HIDE DEF r
  <2> QED BY <2>1, <2>2, <2>3, BeginVerify
<1>2. /\ {"update", "acknowledge", "release", "remove", "resume", "create"}
           \subseteq Operation
      /\ "created" \in ValidStatus /\ "timed_out" \in ValidStatus /\ 1 \in Slots
  BY ConstantsAssumption
  DEF Operation, ValidStatus, Completed, Incomplete, PreStarted, Slots
<1>3. ASSUME NEW i \in Slots, NEW to \in Racing, AskUpdate(w, i, to)
      PROVE  VerifyInv' /\ w \in Running'
  BY <1>1, <1>2, <1>3, RaceAssumption DEF AskUpdate
<1>4. ASSUME NEW i \in Slots, AskTimeout(w, i)
      PROVE  VerifyInv' /\ w \in Running'
  BY <1>1, <1>2, <1>4 DEF AskTimeout
<1>5. ASSUME NEW i, NEW op \in Operation, AskOther(w, i, op)
      PROVE  VerifyInv' /\ w \in Running'
  <2>1. i \in Slots
    BY <1>5 DEF AskOther, Live
  <2> QED BY <1>1, <1>2, <1>5, <2>1 DEF AskOther
<1>6. CASE AskCreate(w)
  <2>1. AskOther(w, Latest(db, Exam), "resume")
        \/ Begin(w, [op |-> "create", slot |-> 1, to |-> "created"])
    BY <1>6 DEF AskCreate
  <2> QED BY <1>1, <1>2, <1>5, <2>1
<1> QED
  BY <1>2, <1>3, <1>4, <1>5, <1>6 DEF Ask

SettledWhenQuiet ==
  AllVerified(db', Exam) => db'.credit[Exam] = "satisfied"

(* A step of a verifier leaves it a verifier or idle, keeps what is live   *)
(* live, and does not drop the credit that was to follow.                  *)
LEMMA VerifierStep ==
  ASSUME RaceInv, VerifyInv, OnlyVerifying, NEW w \in Running,
         NEW task, Continue(w, task), task.request = work[w].request,
         task.todo \in (Unsettled \ {ToLoad}) \cup {ToEnd, <<>>},
         task.todo # <<>> => task.row.row = "live" /\ task.row.status = "verified",
         \A i \in Slots : Rows[i].row = "live" => Rows'[i].row = "live",
         AllVerified(db', Exam) =>
           \/ db'.credit[Exam] = "satisfied"
           \/ task.todo \in Unsettled
           \/ \E v \in Workers \ {w} : work[v].todo \in Unsettled
  PROVE  VerifyInv' /\ (FallsQuiet => SettledWhenQuiet)
<1>1. /\ work \in [Workers -> Work] /\ w \in Workers
      /\ work' = [work EXCEPT ![w] = IF task.todo = <<>> THEN Idle ELSE task]
      /\ since' = IF task.todo = <<>> /\ Running = {w} THEN NoneYet ELSE since
  BY DEF RaceInv, RaceTypeOK, Running, Continue
<1>2. \A v \in Workers :
        work'[v] = IF v # w THEN work[v] ELSE IF task.todo = <<>> THEN Idle ELSE task
  BY <1>1
<1>3. Idle.todo = <<>> /\ <<>> \notin Unsettled /\ ToEnd # <<>>
  BY IdleIsWork, ToDiffer DEF ToEnd
<1>4. CreditFollows'
  <2>1. ASSUME task.todo \in Unsettled PROVE work'[w].todo \in Unsettled
    BY <1>1, <1>2, <1>3, <2>1
  <2>2. \A v \in Workers \ {w} : work'[v] = work[v]
    BY <1>2
  <2> QED BY <1>1, <2>1, <2>2 DEF CreditFollows
<1>5. ASSUME OnlyVerifying', NEW v \in Running' PROVE Verifier(v)'
  <2>1. since' = since
    BY <1>1, <1>5 DEF OnlyVerifying, NoneYet
  <2>2. v \in Workers /\ work'[v].todo # <<>>
    BY <1>5 DEF Running
  <2>3. \A u \in Running : Verifier(u)
    BY DEF VerifyInv
  <2>4. CASE v = w
    <3>1. work'[v] = task /\ task.todo # <<>>
      BY <1>2, <1>3, <2>2, <2>4
    <3>2. work[w].request \in since.requests /\ Row(w).row = "live"
      BY <2>3 DEF Verifier
    <3>3. work[w].request.slot \in Slots
      BY <1>1 DEF Work, Request
    <3> QED BY <2>1, <2>4, <3>1, <3>2, <3>3 DEF Verifier, Row
  <2>5. CASE v # w
    <3>1. v \in Running /\ work'[v] = work[v]
      BY <1>2, <2>2, <2>5 DEF Running
    <3>2. Verifier(v)
      BY <2>3, <3>1
    <3>3. work[v].request.slot \in Slots
      BY <1>1, <2>2 DEF Work, Request
    <3> QED BY <2>1, <3>1, <3>2, <3>3 DEF Verifier, Row
  <2> QED BY <2>4, <2>5
<1>6. ASSUME FallsQuiet PROVE SettledWhenQuiet
  <2>1. \A v \in Workers : work'[v].todo = <<>>
    BY <1>6 DEF FallsQuiet, Running
  <2> QED BY <1>3, <1>4, <2>1 DEF CreditFollows, SettledWhenQuiet
<1> QED
  BY <1>4, <1>5, <1>6 DEF VerifyInv

(* Every step of a verification, whatever other verifications have done in *)
(* the meantime.                                                           *)
LEMMA ServeVerify ==
  ASSUME RaceInv, VerifyInv, OnlyVerifying, NEW w \in Workers, Serve(w)
  PROVE  VerifyInv' /\ (FallsQuiet => SettledWhenQuiet)
<1> DEFINE r    == work[w].request
           todo == work[w].todo
           next == [work[w] EXCEPT !.todo = Tail(@)]
           stop == [work[w] EXCEPT !.todo = <<>>]
<1>1. w \in Running /\ \E step : At(w, step)
  BY DEF Serve, Load, Look, Write, Judge, Credit, Withdraw, Override, DeleteRow,
     Restore, Uncredit, Insert, At, Running
<1>2. /\ work[w] \in Work /\ r \in Request /\ r.slot \in Slots
      /\ next.request = r /\ next.row = work[w].row /\ next.todo = Tail(todo)
      /\ stop.request = r /\ stop.todo = <<>>
  BY <1>1, AtWork DEF Work, Request
<1>3. Verifier(w) /\ CreditFollows /\ Verifies(r)
  BY <1>1 DEF VerifyInv, Verifier, OnlyVerifying
<1>4. /\ todo \in Unsettled \cup {ToEnd} /\ Row(w).row = "live"
      /\ todo # ToLoad => work[w].row.row = "live" /\ work[w].row.status = "verified"
  BY <1>3 DEF Verifier
<1>5. /\ Exam \in Exams /\ db \in Database /\ Rows \in [Slots -> Attempt]
  BY ExamIsProctored DEF RaceInv, RaceTypeOK, TypeOK, Database, Rows
<1>6. \E step \in {"load", "look", "write", "judge", "credit", "override"} : At(w, step)
  BY <1>1, <1>4, VerifierAt DEF At
<1> HIDE DEF r, todo, next, stop
<1>7. CASE db' = db /\ GoOn(w) /\ todo \in {ToLook, ToJudge}
  <2>1. Continue(w, next)
    BY <1>7 DEF GoOn, next
  <2>2. next.todo \in {ToWrite, ToCredit}
    BY <1>2, <1>7, VerifyingSteps
  <2>3. next.todo \in Unsettled \ {ToLoad} /\ todo # ToLoad
    BY <1>7, <2>2, ToDiffer DEF Unsettled
  <2> QED BY <1>1, <1>2, <1>4, <1>7, <2>1, <2>3, VerifierStep DEF Rows, r, todo
<1>8. CASE Load(w)
  <2> DEFINE copy == Copy(Row(w), r)
             task == Holding(work[w], Row(w).status, copy)
  <2>1. todo = ToLoad /\ db' = db
    BY <1>4, <1>8, VerifierAt DEF Load, At, todo
  <2>2. Row(w) \in Attempt
    BY <1>2, <1>5 DEF Row, r
  <2>3. /\ ~ Refuses(Row(w), r)
        /\ copy.row = "live" /\ copy.status = "verified"
    BY <1>3, <1>4, <2>2, VerifiedCopy
  <2>4. Continue(w, task)
    BY <1>4, <1>8, <2>3 DEF Load, r
  <2>5. task.request = r /\ task.todo = ToLook /\ task.row = copy
    <3>1. \A from, row : /\ Holding(work[w], from, row).request = r
                         /\ Holding(work[w], from, row).todo = Tail(todo)
                         /\ Holding(work[w], from, row).row = row
      BY <1>2 DEF Holding, Work, r, todo
    <3> QED BY <2>1, <3>1, VerifyingSteps
  <2> HIDE DEF copy, task
  <2>6. task.todo \in Unsettled \ {ToLoad}
    BY <2>5, ToDiffer DEF Unsettled
  <2> QED BY <1>1, <2>1, <2>3, <2>4, <2>5, <2>6, VerifierStep DEF Rows, r
<1>9. CASE Look(w)
  <2>1. todo = ToLook
    BY <1>4, <1>9, VerifierAt DEF Look, At, todo
  <2> QED BY <1>4, <1>7, <1>9, <2>1 DEF Look
<1>10. CASE Judge(w)
  <2>1. todo = ToJudge
    BY <1>4, <1>10, VerifierAt DEF Judge, At, todo
  <2>2. todo # ToLoad /\ work[w].row.status = "verified"
    BY <1>4, <2>1, ToDiffer
  <2>3. CASE GoOn(w)
    BY <1>7, <1>10, <2>1, <2>3 DEF Judge
  <2>4. CASE ~ GoOn(w)
    <3>1. ~ CanUpdateCreditGradesAndEmail(db, Exam, "verified") /\ GiveUp(w) /\ db' = db
      BY <1>10, <2>2, <2>4 DEF Judge
    <3>2. ~ AllVerified(db', Exam)
      BY <3>1 DEF CanUpdateCreditGradesAndEmail, AllVerified
    <3>3. Continue(w, stop)
      BY <3>1 DEF GiveUp, stop
    <3> QED BY <1>1, <1>2, <3>1, <3>2, <3>3, VerifierStep DEF Rows, r
  <2> QED BY <2>3, <2>4
<1>11. CASE Write(w)
  <2>1. todo = ToWrite /\ todo # ToLoad
    BY <1>4, <1>11, VerifierAt, ToDiffer DEF Write, At, todo
  <2>2. Continue(w, next) /\ next.todo = ToJudge
    BY <1>2, <1>11, <2>1, VerifyingSteps DEF Write, GoOn, next
  <2>3. next.todo \in Unsettled \ {ToLoad}
    BY <2>2, ToDiffer DEF Unsettled
  <2>4. \A i \in Slots : Rows'[i] = IF i = r.slot THEN work[w].row ELSE Rows[i]
    BY <1>2, <1>5, <1>11 DEF Write, Rows, Database, r
  <2> QED BY <1>1, <1>2, <1>4, <2>1, <2>2, <2>3, <2>4, VerifierStep DEF r
<1>12. CASE Credit(w)
  <2>1. todo = ToCredit /\ todo # ToLoad
    BY <1>4, <1>12, VerifierAt, ToDiffer DEF Credit, At, todo
  <2>2. Continue(w, next) /\ next.todo = ToEnd
    BY <1>2, <1>12, <2>1, VerifyingSteps DEF Credit, GoOn, next
  <2>3. db' = [db EXCEPT !.credit[Exam] = "satisfied"]
    BY <1>4, <1>12, <2>1 DEF Credit, NeedsCreditUpdate, CreditFor
  <2>4. Rows' = Rows /\ db'.credit[Exam] = "satisfied"
    BY <1>5, <2>3 DEF Rows, Database
  <2> QED BY <1>1, <1>2, <1>4, <2>1, <2>2, <2>4, VerifierStep DEF r
<1>13. CASE Override(w)
  <2>1. todo = ToEnd
    BY <1>4, <1>13, VerifierAt DEF Override, At, todo
  <2>2. Continue(w, next) /\ next.todo = <<>>
    BY <1>2, <1>13, <2>1, VerifyingSteps DEF Override, GoOn, next
  <2>3. db'.att = db.att /\ db'.credit = db.credit
    BY <1>5, <1>13 DEF Override, Database
  <2>4. AllVerified(db', Exam) => AllVerified(db, Exam)
    BY <2>3 DEF AllVerified, HasAttempt, HasStatus, Live
  <2>5. \A v \in Workers : work[v].todo \in Unsettled => v # w
    BY <2>1, ToDiffer DEF todo
  <2> QED BY <1>1, <1>2, <1>3, <2>2, <2>3, <2>4, <2>5, VerifierStep
          DEF CreditFollows, Rows, r
<1>14. \/ Load(w) \/ Look(w) \/ Write(w) \/ Judge(w) \/ Credit(w) \/ Override(w)
  BY <1>4, VerifierAt
  DEF Serve, Withdraw, DeleteRow, Restore, Uncredit, Insert, At, todo
<1> QED
  BY <1>8, <1>9, <1>10, <1>11, <1>12, <1>13, <1>14

(* Verifications stay verifications until one of the requests is not one.  *)
LEMMA NextVerifyInv ==
  ASSUME RaceInv, VerifyInv, [RaceNext]_raceVars
  PROVE  /\ VerifyInv'
         /\ FallsQuiet /\ OnlyVerifying => SettledWhenQuiet
<1>1. CASE UNCHANGED raceVars
  BY <1>1 DEF raceVars, VerifyInv, OnlyVerifying, Running, Verifier, CreditFollows,
     Row, Rows, AllVerified, HasAttempt, HasStatus, Live, FallsQuiet
<1>2. ASSUME NEW w \in Workers, Ask(w)
      PROVE  VerifyInv' /\ ~ FallsQuiet
  BY <1>2, AskVerify DEF FallsQuiet
<1>3. ASSUME NEW w \in Workers, Serve(w)
      PROVE  VerifyInv' /\ (FallsQuiet /\ OnlyVerifying => SettledWhenQuiet)
  <2>1. CASE OnlyVerifying
    BY <1>3, <2>1, ServeVerify
  <2>2. CASE ~ OnlyVerifying
    <3>1. since' \in {since, NoneYet}
      BY <1>3 DEF Serve, Load, Look, Write, Judge, Credit, Withdraw, Override,
         DeleteRow, Restore, Uncredit, Insert, GoOn, GiveUp, Continue
    <3>2. ~ OnlyVerifying'
      BY <2>2, <3>1 DEF OnlyVerifying, NoneYet
    <3> QED BY <2>2, <3>2 DEF VerifyInv
  <2> QED BY <2>1, <2>2
<1>4. ASSUME NEW i \in Slots, RunOut(i)
      PROVE  VerifyInv' /\ ~ FallsQuiet
  BY <1>4 DEF RunOut, VerifyInv, OnlyVerifying, NoneYet, FallsQuiet, Running
<1> QED
  BY <1>1, <1>2, <1>3, <1>4 DEF RaceNext

(* Attempts that are verified at the same time, by any number of           *)
(* processes: when all attempts at the exam are verified and nobody is     *)
(* working on them any more, the learner has the credit, although each of  *)
(* the requests counted the verified attempts for itself.                  *)
THEOREM VerifiersAlwaysSettle == RaceSpec => VerifiersSettleCredit
<1>1. RaceInit => VerifyInv
  BY DEF RaceInit, VerifyInv, OnlyVerifying, NoneYet
<1>2. RaceInv /\ VerifyInv /\ [RaceNext]_raceVars =>
        [FallsQuiet /\ since.requests # {} /\ (\A r \in since.requests : Verifies(r))
           => (AllVerified(db', Exam) => db'.credit[Exam] = "satisfied")]_raceVars
  BY NextVerifyInv DEF OnlyVerifying, SettledWhenQuiet
<1>3. RaceInv /\ VerifyInv /\ [RaceNext]_raceVars => (RaceInv /\ VerifyInv)'
  BY NextRaceInv, NextVerifyInv
<1> QED
  BY <1>1, <1>2, <1>3, InitRaceInv, PTL DEF RaceSpec, VerifiersSettleCredit

-----------------------------------------------------------------------------
(* Requests that are repeated.  D is the database the requests found, d    *)
(* the one there is; t is a request in progress, and W the set of those.   *)

RowOf(d, r) == d.att[Exam][r.slot]

(* What a request is to save of the row it is about, and what it is to     *)
(* tell the LMS then.                                                      *)
Kept(D, r) == Copy(RowOf(D, r), r)

WithKept(D, r) == [D EXCEPT !.att[Exam][r.slot] = Kept(D, r)]

Told(D, r) == Settled(WithKept(D, r), Exam, RowOf(D, r).status, Kept(D, r).status)

Cut(a) == [a EXCEPT !.proctored = FALSE, !.registered = FALSE]

(* What was checked when the request was asked for.                        *)
Asked(D, r) ==
  /\ r.op = "create" => ~ HasAttempt(D, Exam)
  /\ r.op # "create" => r.slot \in Live(D, Exam)
  /\ r.op = "update" => (r.to = "timed_out" <=> Overdue(RowOf(D, r)))
  /\ r.op = "update" /\ r.to = "started" => r.slot = Latest(D, Exam)
  /\ r.op = "resume" =>
       /\ r.slot = Latest(D, Exam)
       /\ InResumeProcess(RowOf(D, r)) /\ ~ Overdue(RowOf(D, r))

Elsewhere(d, D, r) == \A j \in Slots \ {r.slot} : d.att[Exam][j] = D.att[Exam][j]

LmsAs(d, D) == d.credit[Exam] = D.credit[Exam] /\ d.override[Exam] = D.override[Exam]

LmsBetween(d, D, F) ==
  /\ d.credit[Exam] \in {D.credit[Exam], F.credit[Exam]}
  /\ d.override[Exam] \in {D.override[Exam], F.override[Exam]}

(* The request is refused, and so is each repetition of it.                *)
RefusedInv(d, W, D, r) == d = D /\ \A t \in W : t.todo = Steps(r)

(* The request saves nothing but a row.                                    *)
SLook == <<"look", "write">>
SWrite == <<"write">>

SaveInv(d, W, D, r) ==
  /\ Elsewhere(d, D, r) /\ LmsAs(d, D)
  /\ RowOf(d, r) \in {RowOf(D, r), Kept(D, r)}
  /\ \A t \in W : \/ t.todo = Save
                  \/ t.todo \in {SLook, SWrite} /\ t.row = Kept(D, r)
  /\ \/ RowOf(d, r) = Kept(D, r)
     \/ \E t \in W : t.todo = Save => RowOf(d, r) = RowOf(D, r)

(* The request saves a status other than declined, of which the LMS may    *)
(* have to be told.                                                        *)
AboutToSave == {ToLoad, ToLook, ToWrite}

Updater(t, d, D, r) ==
  /\ t.todo \in Unsettled \cup {ToEnd}
  /\ t.todo # ToLoad =>
       /\ t.row = Kept(D, r)
       /\ t.from = RowOf(D, r).status \/ (t.from = t.row.status /\ RowOf(d, r) = t.row)
  /\ t.todo \notin AboutToSave => RowOf(d, r) = Kept(D, r)
  /\ t.todo \in {ToCredit, ToEnd} =>
       CanUpdateCreditGradesAndEmail(WithKept(D, r), Exam, Kept(D, r).status)

(* A request that found the row as it was does all that is left to do.     *)
Leads(t, d, D, r) ==
  /\ IF t.todo = ToLoad THEN RowOf(d, r) = RowOf(D, r)
     ELSE t.from = RowOf(D, r).status
  /\ t.todo = ToEnd => d.credit[Exam] = Told(D, r).credit[Exam]

UpdateInv(d, W, D, r) ==
  /\ Elsewhere(d, D, r) /\ LmsBetween(d, D, Told(D, r))
  /\ RowOf(d, r) \in {RowOf(D, r), Kept(D, r)}
  /\ \A t \in W : Updater(t, d, D, r)
  /\ \/ RowOf(d, r) = Kept(D, r) /\ LmsAs(d, Told(D, r))
     \/ \E t \in W : Leads(t, d, D, r)

(* The request declines the attempt, and saves it once more.               *)
DLoad == <<"load", "look", "write", "judge", "credit", "withdraw", "look", "write">>
DLook == <<"look", "write", "judge", "credit", "withdraw", "look", "write">>
DWrite == <<"write", "judge", "credit", "withdraw", "look", "write">>
DJudge == <<"judge", "credit", "withdraw", "look", "write">>
DCredit == <<"credit", "withdraw", "look", "write">>
DWithdraw == <<"withdraw", "look", "write">>

Decliner(t, d, D, r) ==
  /\ t.todo \in {DLoad, DLook, DWrite, DJudge, DCredit, DWithdraw, SLook, SWrite}
  /\ t.todo \in {DLook, DWrite, DJudge, DCredit, DWithdraw} =>
       t.row \in {Kept(D, r), Cut(Kept(D, r))}
  /\ t.todo \in {SLook, SWrite} => t.row = Cut(Kept(D, r))
  /\ t.todo \in {DWithdraw, SLook, SWrite} => d.credit[Exam] = "declined"

DeclineInv(d, W, D, r) ==
  /\ Elsewhere(d, D, r) /\ d.override[Exam] = D.override[Exam]
  /\ RowOf(d, r) \in {RowOf(D, r), Kept(D, r), Cut(Kept(D, r))}
  /\ \A t \in W : Decliner(t, d, D, r)
  /\ W = {} => RowOf(d, r) = Cut(Kept(D, r)) /\ d.credit[Exam] = "declined"

(* The request removes the attempt.                                        *)
RLoad == <<"load", "delete", "restore", "uncredit">>
RDelete == <<"delete", "restore", "uncredit">>
RRestore == <<"restore", "uncredit">>
RUncredit == <<"uncredit">>

Remover(t, d, D, r) ==
  /\ t.todo \in {RLoad, RDelete, RRestore, RUncredit}
  /\ t.todo # RLoad => t.from = RowOf(D, r).status
  /\ t.todo \in {RRestore, RUncredit} => RowOf(d, r) = Archived
  /\ t.todo = RUncredit => d.override[Exam] = FALSE

RemoveInv(d, W, D, r) ==
  /\ Elsewhere(d, D, r) /\ LmsBetween(d, D, Removed(D, Exam, r.slot))
  /\ RowOf(d, r) \in {RowOf(D, r), Archived}
  /\ \A t \in W : Remover(t, d, D, r)
  /\ \/ RowOf(d, r) = Archived /\ LmsAs(d, Removed(D, Exam, r.slot))
     \/ \E t \in W : t.todo = RLoad => RowOf(d, r) = RowOf(D, r)

(* The request goes on with an attempt, or makes one, and nothing overlaps *)
(* it.                                                                     *)
ILoad == <<"load", "look", "write", "insert">>
ILook == <<"look", "write", "insert">>
IWrite == <<"write", "insert">>
IInsert == <<"insert">>

ToFollow(D, r) == IF r.op = "resume" THEN WithKept(D, r) ELSE D

AloneInv(d, W, D, r) ==
  /\ \A t \in W :
       \/ r.op = "resume" /\ t.todo = ILoad /\ d = D
       \/ /\ r.op = "resume" /\ d = D
          /\ t.todo \in {ILook, IWrite} /\ t.row = Kept(D, r)
       \/ t.todo = IInsert /\ d = ToFollow(D, r)
  /\ W = {} => \E outcome \in Outcomes(Exam, TRUE) :
                 d = IF outcome = "refused" THEN ToFollow(D, r)
                     ELSE NewAttempt(ToFollow(D, r), Exam, outcome, TRUE)

Progress(d, W, D, r) ==
  /\ r.op \in {"resume", "create"} => AloneInv(d, W, D, r)
  /\ r.op = "update" /\ r.to = "declined" => DeclineInv(d, W, D, r)
  /\ Refuses(RowOf(D, r), r) /\ r.op \notin {"resume", "create"}
       => RefusedInv(d, W, D, r)
  /\ ~ Refuses(RowOf(D, r), r) =>
       /\ r.op = "remove" => RemoveInv(d, W, D, r)
       /\ r.op = "update" /\ r.to # "declined" => UpdateInv(d, W, D, r)
       /\ r.op \in {"release", "acknowledge"} => SaveInv(d, W, D, r)

Tasks == {work[w] : w \in Running}

Repeats(D, r) ==
  /\ Sound(D) /\ Asked(D, r)
  /\ \A t \in Tasks : t.request = r
  /\ r.op \in {"resume", "create"} => \A v, w \in Running : v = w
  /\ Progress(db, Tasks, D, r)

RepeatInv == \A r \in since.requests : since.requests = {r} => Repeats(since.db, r)

(* What a step makes of a request in progress, t, and of the database.     *)
Advances(t, t1) == t1.todo = Tail(t.todo) /\ t1.from = t.from /\ t1.row = t.row

OnlyRow(d, d1, r, row) == Elsewhere(d1, d, r) /\ LmsAs(d1, d) /\ RowOf(d1, r) = row

OnlyLms(d, d1) == \A j \in Slots : d1.att[Exam][j] = d.att[Exam][j]

DoesLoad(t, d, t1, d1) ==
  LET a == RowOf(d, t.request)
  IN /\ d1 = d
     /\ IF a.row # "live" \/ Refuses(a, t.request) THEN t1.todo = <<>>
        ELSE /\ t1.todo = Tail(t.todo)
             /\ t1.from = a.status /\ t1.row = Copy(a, t.request)

DoesLook(t, d, t1, d1) ==
  /\ d1 = d
  /\ IF RowOf(d, t.request).row = "live" THEN Advances(t, t1) ELSE t1.todo = <<>>

DoesJudge(t, d, t1, d1) ==
  /\ d1 = d
  /\ IF CanUpdateCreditGradesAndEmail(d, Exam, t.row.status)
     THEN Advances(t, t1) ELSE t1.todo = <<>>

DoesCredit(t, d, t1, d1) ==
  /\ OnlyLms(d, d1) /\ d1.override[Exam] = d.override[Exam] /\ Advances(t, t1)
  /\ d1.credit[Exam] = IF t.row.status \in NeedsCreditUpdate
                       THEN CreditFor(t.row.status) ELSE d.credit[Exam]

DoesWithdraw(t, d, t1, d1) ==
  d1 = d /\ t1.todo = Tail(t.todo) /\ t1.from = t.from /\ t1.row = Cut(t.row)

DoesOverride(t, d, t1, d1) ==
  /\ OnlyLms(d, d1) /\ d1.credit[Exam] = d.credit[Exam] /\ Advances(t, t1)
  /\ d1.override[Exam] =
       IF OverrideOnReject /\ t.row.status \in NeedsGradeOverride THEN TRUE
       ELSE IF /\ OverrideOnReject /\ t.row.status = "verified"
               /\ t.from \in NeedsGradeOverride THEN FALSE
       ELSE d.override[Exam]

DoesRestore(t, d, t1, d1) ==
  /\ OnlyLms(d, d1) /\ d1.credit[Exam] = d.credit[Exam] /\ Advances(t, t1)
  /\ d1.override[Exam] = FALSE

DoesUncredit(t, d, t1, d1) ==
  /\ OnlyLms(d, d1) /\ d1.override[Exam] = d.override[Exam] /\ Advances(t, t1)
  /\ d1.credit[Exam] = IF t.from \in NeedsCreditUpdate THEN "none" ELSE d.credit[Exam]

DoesInsert(t, d, t1, d1) ==
  /\ Advances(t, t1)
  /\ \E outcome \in Outcomes(Exam, TRUE) :
       d1 = IF outcome = "refused" THEN d ELSE NewAttempt(d, Exam, outcome, TRUE)

Does(t, d, t1, d1) ==
  /\ Head(t.todo) = "load" => DoesLoad(t, d, t1, d1)
  /\ Head(t.todo) = "look" => DoesLook(t, d, t1, d1)
  /\ Head(t.todo) = "write" => OnlyRow(d, d1, t.request, t.row) /\ Advances(t, t1)
  /\ Head(t.todo) = "judge" => DoesJudge(t, d, t1, d1)
  /\ Head(t.todo) = "credit" => DoesCredit(t, d, t1, d1)
  /\ Head(t.todo) = "withdraw" => DoesWithdraw(t, d, t1, d1)
  /\ Head(t.todo) = "override" => DoesOverride(t, d, t1, d1)
  /\ Head(t.todo) = "insert" => DoesInsert(t, d, t1, d1)
  /\ Head(t.todo) = "delete" => OnlyRow(d, d1, t.request, Archived) /\ Advances(t, t1)
  /\ Head(t.todo) = "restore" => DoesRestore(t, d, t1, d1)
  /\ Head(t.todo) = "uncredit" => DoesUncredit(t, d, t1, d1)

(* One of the requests in progress makes a step.                           *)
Proceeds(d, W, t, d1, W1, t1) ==
  /\ d \in Database /\ d1 \in Database /\ t \in W
  /\ Does(t, d, t1, d1)
  /\ t1.request = t.request
  /\ \A u \in W1 : u \in W \/ (u = t1 /\ t1.todo # <<>>)
  /\ \A u \in W : u \in W1 \/ u = t
  /\ t1.todo # <<>> => t1 \in W1

(* The fields of b, which is the row a as it is saved with a status.       *)
AsSaved(a, to, s, b) ==
  LET status == EffectiveStatus(a.status, to, AllowTimedOut)
  IN /\ b \in Attempt /\ b.row = a.row /\ b.status = status
     /\ b.started = (a.started \/ status = "started")
     /\ b.expired = (a.expired /\ (status = "started" => a.started))
     /\ b.completed = IF to = "timed_out" /\ ~ AllowTimedOut THEN s
                      ELSE a.completed \/ status = "submitted"
     /\ b.resumable = IsResumable(a, status)
     /\ b.ready = a.ready /\ b.resumed = a.resumed
     /\ b.proctored = a.proctored /\ b.registered = a.registered

(* The fields of a row that is saved.                                      *)
LEMMA SavedFields ==
  ASSUME NEW a \in Attempt, NEW to \in ValidStatus, NEW s \in BOOLEAN
  PROVE  AsSaved(a, to, s, Saved(a, to, s, FALSE))
<1> DEFINE status == EffectiveStatus(a.status, to, AllowTimedOut)
           begins == status = "started" /\ ~ a.started
           timeout == to = "timed_out" /\ ~ AllowTimedOut
           started == a.started \/ begins
           expired == IF begins THEN FALSE ELSE a.expired
           completed == IF timeout THEN s ELSE a.completed \/ status = "submitted"
           resumable == IsResumable(a, status)
           b == Saved(a, to, s, FALSE)
<1>2. /\ a.started \in BOOLEAN /\ a.expired \in BOOLEAN /\ a.completed \in BOOLEAN
      /\ a.status \in Status
  BY DEF Attempt
<1>3. status \in Status
  BY EffectiveStatusType DEF Status
<1> HIDE DEF status
<1>4. /\ started \in BOOLEAN /\ expired \in BOOLEAN /\ completed \in BOOLEAN
      /\ resumable \in BOOLEAN
  BY <1>2 DEF IsResumable
<1>5. b = [a EXCEPT !.status = status, !.started = started, !.expired = expired,
                    !.completed = completed, !.resumable = resumable]
  BY DEF Saved, status
<1> HIDE DEF started, expired, completed, resumable, b
<1>6. /\ b \in Attempt /\ b.row = a.row /\ b.status = status /\ b.started = started
      /\ b.expired = expired /\ b.completed = completed
      /\ b.resumable = resumable
      /\ b.ready = a.ready /\ b.resumed = a.resumed
      /\ b.proctored = a.proctored /\ b.registered = a.registered
  BY <1>3, <1>4, <1>5, ZenonT(40) DEF Attempt
<1>7. started = (a.started \/ status = "started")
  BY <1>2 DEF started
<1>8. expired = (a.expired /\ (status = "started" => a.started))
  BY <1>2 DEF expired
<1>9. completed = IF to = "timed_out" /\ ~ AllowTimedOut THEN s
                  ELSE a.completed \/ status = "submitted"
  BY Zenon DEF completed
<1>10. AsSaved(a, to, s, b)
  BY <1>6, <1>7, <1>8, <1>9, Zenon DEF AsSaved, status, resumable
<1> QED
  BY <1>10 DEF b

(* A row that has been saved is refused or saved as it is.                 *)
LEMMA SavedOnce ==
  ASSUME NEW a \in Attempt, NEW to \in ValidStatus, NEW s \in BOOLEAN,
         NEW b, AsSaved(a, to, s, b),
         IsLegal(b.status, EffectiveStatus(b.status, to, AllowTimedOut))
  PROVE  Saved(b, to, s, FALSE) = b
<1> DEFINE status == EffectiveStatus(a.status, to, AllowTimedOut)
           c == Saved(b, to, s, FALSE)
<1>1. b \in Attempt /\ b.status = status
  BY DEF AsSaved
<1>2. EffectiveStatus(b.status, to, AllowTimedOut) = status
  BY <1>1 DEF EffectiveStatus, IsReattempting, IsLegal, Completed, Incomplete,
     PreStarted, InProgress, ValidStatus
<1>3. AsSaved(b, to, s, c)
  BY <1>1, SavedFields
<1> HIDE DEF c
<1>4. /\ c \in Attempt /\ c.row = b.row /\ c.status = b.status
      /\ c.ready = b.ready /\ c.resumed = b.resumed
      /\ c.proctored = b.proctored /\ c.registered = b.registered
  BY <1>1, <1>2, <1>3 DEF AsSaved
<1>5. c.started = b.started /\ c.expired = b.expired
  <2>1. c.started = (b.started \/ status = "started")
    BY <1>2, <1>3, Zenon DEF AsSaved
  <2>2. c.expired = (b.expired /\ (status = "started" => b.started))
    BY <1>2, <1>3, Zenon DEF AsSaved
  <2>3. b.started = (a.started \/ status = "started")
    BY Zenon DEF AsSaved
  <2>4. b.started \in BOOLEAN /\ b.expired \in BOOLEAN
    BY <1>1 DEF Attempt
  <2> QED BY <2>1, <2>2, <2>3, <2>4, Zenon
<1>6. c.completed = b.completed
  <2>1. c.completed = IF to = "timed_out" /\ ~ AllowTimedOut THEN s
                      ELSE b.completed \/ status = "submitted"
    BY <1>2, <1>3, Zenon DEF AsSaved
  <2>2. b.completed = IF to = "timed_out" /\ ~ AllowTimedOut THEN s
                      ELSE a.completed \/ status = "submitted"
    BY Zenon DEF AsSaved
  <2> HIDE DEF status
  <2>3. b.completed \in BOOLEAN /\ a.completed \in BOOLEAN
    BY <1>1 DEF Attempt
  <2> QED BY <2>1, <2>2, <2>3
<1>7. c.resumable = b.resumable
  <2>1. c.resumable = IsResumable(b, status)
    BY <1>2, <1>3, Zenon DEF AsSaved
  <2>2. b.resumable = IsResumable(a, status) /\ b.ready = a.ready /\ b.resumed = a.resumed
    BY Zenon DEF AsSaved
  <2>3. b.resumable \in BOOLEAN
    BY <1>1 DEF Attempt
  <2> HIDE DEF status
  <2> QED BY <2>1, <2>2, <2>3 DEF IsResumable, InResumeProcess
<1>8. c = b
  BY <1>1, <1>4, <1>5, <1>6, <1>7 DEF Attempt
<1> QED
  BY <1>8 DEF c

(* What a request that is not refused saves, it saves again, or is refused *)
(* then.                                                                   *)
LEMMA CopiedOnce ==
  ASSUME NEW a \in Attempt, NEW r \in Request, ~ Refuses(a, r),
         NEW b, b = Copy(a, r)
  PROVE  /\ b \in Attempt /\ b.row = a.row
         /\ r.op # "resume" => Refuses(b, r) \/ Copy(b, r) = b
<1>1. CASE r.op = "update"
  <2> DEFINE s == r.to = "timed_out"
  <2>1. r.to \in ValidStatus /\ s \in BOOLEAN
    BY DEF Request
  <2>2. \A x : Copy(x, r) = Saved(x, r.to, s, FALSE)
    BY <1>1 DEF Copy
  <2> HIDE DEF s
  <2>3. AsSaved(a, r.to, s, b)
    BY <2>1, <2>2, SavedFields
  <2>4. Refuses(b, r) \/ IsLegal(b.status, EffectiveStatus(b.status, r.to, AllowTimedOut))
    BY <1>1 DEF Refuses
  <2>5. IsLegal(b.status, EffectiveStatus(b.status, r.to, AllowTimedOut))
          => Saved(b, r.to, s, FALSE) = b
    BY <2>1, <2>3, SavedOnce
  <2>6. b \in Attempt /\ b.row = a.row
    BY <2>3 DEF AsSaved
  <2> QED BY <2>2, <2>4, <2>5, <2>6
<1>2. CASE r.op = "release"
  BY <1>2 DEF Copy, Refuses, Attempt
<1>3. CASE r.op = "resume"
  BY <1>3 DEF Copy, Attempt
<1>4. CASE r.op \notin {"update", "release", "resume"}
  BY <1>4 DEF Copy
<1> QED
  BY <1>1, <1>2, <1>3, <1>4

(* Which of the attempts may change the credit is a matter of their rows.  *)
LEMMA SameRowsSameCredit ==
  ASSUME NEW d, NEW d1, \A j \in Slots : d1.att[Exam][j] = d.att[Exam][j], NEW to
  PROVE  CanUpdateCreditGradesAndEmail(d1, Exam, to)
           <=> CanUpdateCreditGradesAndEmail(d, Exam, to)
<1>1. Live(d1, Exam) = Live(d, Exam)
  BY DEF Live
<1>2. \A statuses : HasStatus(d1, Exam, statuses) = HasStatus(d, Exam, statuses)
  BY <1>1 DEF HasStatus, Live
<1> QED
  BY <1>1, <1>2 DEF CanUpdateCreditGradesAndEmail

(* The steps of each request, spelled out.                                 *)
LEMMA StepsSpelledOut ==
  ASSUME NEW r \in Request
  PROVE  /\ r.op = "update" /\ r.to # "declined" => Steps(r) = ToLoad
         /\ r.op = "update" /\ r.to = "declined" => Steps(r) = DLoad
         /\ r.op \in {"acknowledge", "release"} => Steps(r) = Save
         /\ r.op = "remove" => Steps(r) = RLoad
         /\ r.op = "resume" => Steps(r) = ILoad
         /\ r.op = "create" => Steps(r) = IInsert
<1>1. ASSUME r.op = "update", r.to # "declined" PROVE Steps(r) = ToLoad
  <2> DEFINE v == [op |-> "update", slot |-> 1, to |-> "verified"]
  <2>1. Verifies(v) /\ Steps(v) = Save \o <<"judge", "credit", "override">>
    BY DEF Verifies, Steps, Updating
  <2>2. Steps(r) = Save \o <<"judge", "credit", "override">>
    BY <1>1 DEF Steps, Updating
  <2> QED BY <2>1, <2>2, VerifyingSteps
<1>2. Save \o <<"judge", "credit", "withdraw", "look", "write">> = DLoad
  <2> DEFINE t == <<"judge", "credit", "withdraw", "look", "write">>
             s == Save \o t
  <2>1. Save \in Seq(Step) /\ t \in Seq(Step) /\ Len(Save) = 3 /\ Len(t) = 5
    BY DEF Save, Step
  <2>2. s \in Seq(Step) /\ Len(s) = 8
    <3> HIDE DEF t
    <3>1. s \in Seq(Step) /\ Len(s) = Len(Save) + Len(t)
      BY <2>1, ConcatProperties, Zenon
    <3> QED BY <2>1, <3>1
  <2>3. /\ s[1] = "load" /\ s[2] = "look" /\ s[3] = "write" /\ s[4] = "judge"
        /\ s[5] = "credit" /\ s[6] = "withdraw" /\ s[7] = "look" /\ s[8] = "write"
    BY <2>1 DEF Save
  <2> HIDE DEF s
  <2>4. s = <<s[1], s[2], s[3], s[4], s[5], s[6], s[7], s[8]>>
    BY <2>2
  <2> QED BY <2>3, <2>4 DEF s, DLoad
<1>3. Save \o <<"insert">> = ILoad
  <2> DEFINE t == <<"insert">>
             s == Save \o t
  <2>1. Save \in Seq(Step) /\ t \in Seq(Step) /\ Len(Save) = 3 /\ Len(t) = 1
    BY DEF Save, Step
  <2>2. s \in Seq(Step) /\ Len(s) = 4
    <3> HIDE DEF t
    <3>1. s \in Seq(Step) /\ Len(s) = Len(Save) + Len(t)
      BY <2>1, ConcatProperties, Zenon
    <3> QED BY <2>1, <3>1
  <2>3. s[1] = "load" /\ s[2] = "look" /\ s[3] = "write" /\ s[4] = "insert"
    BY <2>1 DEF Save
  <2> HIDE DEF s
  <2>4. s = <<s[1], s[2], s[3], s[4]>>
    BY <2>2
  <2> QED BY <2>3, <2>4 DEF s, ILoad
<1>4. r.op = "update" /\ r.to = "declined" => Steps(r) = DLoad
  BY <1>2 DEF Steps, Updating
<1>5. r.op = "resume" => Steps(r) = ILoad
  BY <1>3 DEF Steps
<1>6. /\ r.op \in {"acknowledge", "release"} => Steps(r) = Save
      /\ r.op = "remove" => Steps(r) = RLoad
      /\ r.op = "create" => Steps(r) = IInsert
  BY DEF Steps, RLoad, IInsert
<1> QED
  BY <1>1, <1>4, <1>5, <1>6

(* What is left of each request after its next step.                       *)
LEMMA StepsLeft ==
  /\ Head(Save) = "load" /\ Tail(Save) = SLook
  /\ Head(SLook) = "look" /\ Tail(SLook) = SWrite
  /\ Head(SWrite) = "write" /\ Tail(SWrite) = <<>>
  /\ Head(DLoad) = "load" /\ Tail(DLoad) = DLook
  /\ Head(DLook) = "look" /\ Tail(DLook) = DWrite
  /\ Head(DWrite) = "write" /\ Tail(DWrite) = DJudge
  /\ Head(DJudge) = "judge" /\ Tail(DJudge) = DCredit
  /\ Head(DCredit) = "credit" /\ Tail(DCredit) = DWithdraw
  /\ Head(DWithdraw) = "withdraw" /\ Tail(DWithdraw) = SLook
  /\ Head(RLoad) = "load" /\ Tail(RLoad) = RDelete
  /\ Head(RDelete) = "delete" /\ Tail(RDelete) = RRestore
  /\ Head(RRestore) = "restore" /\ Tail(RRestore) = RUncredit
  /\ Head(RUncredit) = "uncredit" /\ Tail(RUncredit) = <<>>
  /\ Head(ILoad) = "load" /\ Tail(ILoad) = ILook
  /\ Head(ILook) = "look" /\ Tail(ILook) = IWrite
  /\ Head(IWrite) = "write" /\ Tail(IWrite) = IInsert
  /\ Head(IInsert) = "insert" /\ Tail(IInsert) = <<>>
<1>1. /\ Head(Save) = "load" /\ Tail(Save) = SLook
      /\ Head(SLook) = "look" /\ Tail(SLook) = SWrite
      /\ Head(SWrite) = "write" /\ Tail(SWrite) = <<>>
  BY DEF Save, SLook, SWrite
<1>2. /\ Head(DLoad) = "load" /\ Tail(DLoad) = DLook
      /\ Head(DLook) = "look" /\ Tail(DLook) = DWrite
      /\ Head(DWrite) = "write" /\ Tail(DWrite) = DJudge
  BY DEF DLoad, DLook, DWrite, DJudge
<1>3. /\ Head(DJudge) = "judge" /\ Tail(DJudge) = DCredit
      /\ Head(DCredit) = "credit" /\ Tail(DCredit) = DWithdraw
      /\ Head(DWithdraw) = "withdraw" /\ Tail(DWithdraw) = SLook
  BY DEF DJudge, DCredit, DWithdraw, SLook
<1>4. /\ Head(RLoad) = "load" /\ Tail(RLoad) = RDelete
      /\ Head(RDelete) = "delete" /\ Tail(RDelete) = RRestore
      /\ Head(RRestore) = "restore" /\ Tail(RRestore) = RUncredit
      /\ Head(RUncredit) = "uncredit" /\ Tail(RUncredit) = <<>>
  BY DEF RLoad, RDelete, RRestore, RUncredit
<1>5. /\ Head(ILoad) = "load" /\ Tail(ILoad) = ILook
      /\ Head(ILook) = "look" /\ Tail(ILook) = IWrite
      /\ Head(IWrite) = "write" /\ Tail(IWrite) = IInsert
      /\ Head(IInsert) = "insert" /\ Tail(IInsert) = <<>>
  BY DEF ILoad, ILook, IWrite, IInsert
<1> QED
  BY <1>1, <1>2, <1>3, <1>4, <1>5

(* Requests with different steps left are not the same.                    *)
LEMMA StepsDiffer ==
  /\ SLook # <<>> /\ SWrite # <<>> /\ SLook # Save /\ SWrite # Save
  /\ DLook # <<>> /\ DWrite # <<>> /\ DJudge # <<>> /\ DCredit # <<>> /\ DWithdraw # <<>>
  /\ DLoad \notin {DLook, DWrite, DJudge, DCredit, DWithdraw, SLook, SWrite}
  /\ {SLook, SWrite} \cap {DLook, DWrite, DJudge, DCredit, DWithdraw} = {}
  /\ DWithdraw \notin {DLook, DWrite, DJudge, DCredit}
  /\ RDelete # <<>> /\ RRestore # <<>> /\ RUncredit # <<>>
  /\ RLoad \notin {RDelete, RRestore, RUncredit}
  /\ RDelete \notin {RRestore, RUncredit} /\ RRestore # RUncredit
  /\ ILook # <<>> /\ IWrite # <<>> /\ IInsert # <<>>
  /\ ILoad \notin {ILook, IWrite, IInsert} /\ IInsert \notin {ILook, IWrite}
  BY DEF Save, SLook, SWrite, DLoad, DLook, DWrite, DJudge, DCredit, DWithdraw,
     RLoad, RDelete, RRestore, RUncredit, ILoad, ILook, IWrite, IInsert

(* The attempt that a request is about was there when it was asked for.    *)
LEMMA FoundLive ==
  ASSUME NEW D, Sound(D), NEW r \in Request, r.op # "create", Asked(D, r)
  PROVE  /\ RowOf(D, r) \in Attempt /\ RowOf(D, r).row = "live"
         /\ RowSound(Exam, RowOf(D, r)) /\ r.slot \in Slots
         /\ ~ Refuses(RowOf(D, r), r) =>
              /\ Kept(D, r) \in Attempt /\ Kept(D, r).row = "live"
              /\ r.op # "resume" =>
                   Refuses(Kept(D, r), r) \/ Copy(Kept(D, r), r) = Kept(D, r)
<1>1. r.slot \in Slots /\ RowOf(D, r).row = "live"
  BY DEF Asked, Live, RowOf
<1>2. RowSound(Exam, RowOf(D, r)) /\ RowOf(D, r) \in Attempt
  BY <1>1, ExamIsProctored DEF Sound, RowOf, RowSound
<1> QED
  BY <1>1, <1>2, CopiedOnce DEF Kept

(* A request that is refused stays without effect.                         *)
LEMMA RefusedStep ==
  ASSUME NEW D, Sound(D), NEW r \in Request, Asked(D, r),
         r.op \notin {"resume", "create"}, Refuses(RowOf(D, r), r),
         NEW d, NEW W, NEW t, NEW d1, NEW W1, NEW t1,
         RefusedInv(d, W, D, r), t.request = r, Proceeds(d, W, t, d1, W1, t1)
  PROVE  RefusedInv(d1, W1, D, r)
<1>1. Head(t.todo) = "load"
  <2>1. t.todo = Steps(r) /\ r.op \in Operation
    BY DEF RefusedInv, Proceeds, Request
  <2>2. Head(ToLoad) = "load"
    BY DEF ToLoad
  <2>3. t.todo \in {ToLoad, DLoad, Save, RLoad}
    BY <2>1, StepsSpelledOut DEF Operation
  <2> QED BY <2>2, <2>3, StepsLeft, ZenonT(40)
<1>2. d1 = d /\ t1.todo = <<>>
  BY <1>1 DEF Proceeds, Does, DoesLoad, RefusedInv
<1> QED
  BY <1>2 DEF RefusedInv, Proceeds

(* A request that saves a row, at each of its steps.                       *)
LEMMA SaveStep ==
  ASSUME NEW D, Sound(D), NEW r \in Request, Asked(D, r),
         r.op \in {"release", "acknowledge"}, ~ Refuses(RowOf(D, r), r),
         NEW d, NEW W, NEW t, NEW d1, NEW W1, NEW t1,
         SaveInv(d, W, D, r), t.request = r, Proceeds(d, W, t, d1, W1, t1)
  PROVE  SaveInv(d1, W1, D, r)
<1> DEFINE K == Kept(D, r)
           F == RowOf(D, r)
<1>1. /\ F.row = "live" /\ K.row = "live" /\ Copy(F, r) = K
      /\ Refuses(K, r) \/ Copy(K, r) = K
  BY FoundLive DEF Kept
<1>2. /\ RowOf(d, r) \in {F, K} /\ t \in W
      /\ \/ t.todo = Save
         \/ t.todo \in {SLook, SWrite} /\ t.row = K
  BY DEF SaveInv, Proceeds
<1> HIDE DEF K, F
<1>3. CASE t.todo = Save
  <2>1. DoesLoad(t, d, t1, d1)
    BY <1>3, StepsLeft DEF Proceeds, Does
  <2>2. CASE Refuses(RowOf(d, r), r)
    <3>1. d1 = d /\ t1.todo = <<>> /\ RowOf(d, r) = K
      BY <1>1, <1>2, <2>1, <2>2 DEF DoesLoad, F
    <3> QED BY <3>1 DEF SaveInv, Proceeds, K
  <2>3. CASE ~ Refuses(RowOf(d, r), r)
    <3>1. d1 = d /\ t1.todo = SLook /\ t1.row = K
      BY <1>1, <1>2, <1>3, <2>1, <2>3, StepsLeft, ZenonT(40) DEF DoesLoad
    <3> QED BY <3>1, StepsDiffer DEF SaveInv, Proceeds, K
  <2> QED BY <2>2, <2>3
<1>4. CASE t.todo = SLook /\ t.row = K
  <2>1. DoesLook(t, d, t1, d1)
    BY <1>4, StepsLeft DEF Proceeds, Does
  <2>2. d1 = d /\ t1.todo = SWrite /\ t1.row = K
    BY <1>1, <1>2, <1>4, <2>1, StepsLeft, ZenonT(40) DEF DoesLook, Advances
  <2> QED BY <2>2, StepsDiffer DEF SaveInv, Proceeds, K
<1>5. CASE t.todo = SWrite /\ t.row = K
  <2>1. OnlyRow(d, d1, r, K) /\ t1.todo = <<>>
    BY <1>5, StepsLeft, ZenonT(40) DEF Proceeds, Does, Advances
  <2>2. Elsewhere(d1, D, r) /\ LmsAs(d1, D) /\ RowOf(d1, r) = K
    BY <2>1 DEF SaveInv, OnlyRow, Elsewhere, LmsAs
  <2> QED BY <2>1, <2>2 DEF SaveInv, Proceeds, K
<1> QED
  BY <1>2, <1>3, <1>4, <1>5

(* A request that removes the attempt, at each of its steps.               *)
LEMMA RemoveStep ==
  ASSUME NEW D, Sound(D), NEW r \in Request, Asked(D, r), r.op = "remove",
         NEW d, NEW W, NEW t, NEW d1, NEW W1, NEW t1,
         RemoveInv(d, W, D, r), t.request = r, Proceeds(d, W, t, d1, W1, t1)
  PROVE  RemoveInv(d1, W1, D, r)
<1> DEFINE F == RowOf(D, r)
           G == Removed(D, Exam, r.slot)
<1>1. F.row = "live" /\ Archived.row # "live" /\ ~ Refuses(F, r)
  BY FoundLive DEF Archived, NoRow, Refuses
<1>2. /\ G.override[Exam] = FALSE
      /\ G.credit[Exam] = IF F.status \in NeedsCreditUpdate THEN "none"
                          ELSE D.credit[Exam]
  BY ExamIsProctored DEF Sound, Database, Removed, RowOf
<1>3. /\ RowOf(d, r) \in {F, Archived} /\ t \in W /\ Remover(t, d, D, r)
      /\ Elsewhere(d, D, r) /\ LmsBetween(d, D, G)
  BY DEF RemoveInv, Proceeds
<1> HIDE DEF F, G
<1>4. ASSUME Elsewhere(d1, D, r), LmsBetween(d1, D, G), RowOf(d1, r) \in {F, Archived},
             RowOf(d, r) = Archived => RowOf(d1, r) = Archived,
             d.override[Exam] = FALSE => d1.override[Exam] = FALSE,
             t1.todo # <<>> => Remover(t1, d1, D, r) /\ t1.todo # RLoad,
             t1.todo = <<>> =>
               RowOf(d1, r) = Archived /\ ((d1 = d /\ t.todo = RLoad) \/ LmsAs(d1, G))
      PROVE  RemoveInv(d1, W1, D, r)
  <2>1. ASSUME NEW u \in W1 PROVE Remover(u, d1, D, r)
    <3>1. CASE u = t1 /\ t1.todo # <<>>
      BY <1>4, <3>1
    <3>2. CASE u \in W
      <4>1. Remover(u, d, D, r)
        BY <3>2 DEF RemoveInv
      <4> QED BY <1>4, <4>1 DEF Remover
    <3> QED BY <3>1, <3>2 DEF Proceeds
  <2>2. \/ RowOf(d1, r) = Archived /\ LmsAs(d1, G)
        \/ \E u \in W1 : u.todo = RLoad => RowOf(d1, r) = F
    <3>1. CASE t1.todo # <<>>
      BY <1>4, <3>1 DEF Proceeds
    <3>2. CASE t1.todo = <<>> /\ LmsAs(d1, G)
      BY <1>4, <3>2
    <3>3. CASE t1.todo = <<>> /\ d1 = d /\ t.todo = RLoad
      <4>1. RowOf(d, r) = Archived /\ Archived # F
        BY <1>1, <1>4, <3>3
      <4>2. \/ RowOf(d, r) = Archived /\ LmsAs(d, G)
            \/ \E u \in W : u.todo = RLoad => RowOf(d, r) = F
        BY DEF RemoveInv, G, F
      <4>3. ASSUME NEW u \in W, u.todo = RLoad => RowOf(d, r) = F
            PROVE  u \in W1 /\ u.todo # RLoad
        BY <3>3, <4>1, <4>3 DEF Proceeds
      <4> QED BY <3>3, <4>1, <4>2, <4>3
    <3> QED BY <1>4, <3>1, <3>2, <3>3
  <2> QED BY <1>4, <2>1, <2>2 DEF RemoveInv, G, F
<1>5. CASE t.todo = RLoad
  <2>1. DoesLoad(t, d, t1, d1)
    BY <1>5, StepsLeft DEF Proceeds, Does
  <2>2. CASE RowOf(d, r) = Archived
    <3>1. d1 = d /\ t1.todo = <<>>
      BY <1>1, <2>1, <2>2 DEF DoesLoad
    <3> QED BY <1>3, <1>4, <1>5, <2>2, <3>1
  <2>3. CASE RowOf(d, r) = F
    <3>1. d1 = d /\ t1.todo = RDelete /\ t1.from = F.status
      BY <1>1, <1>5, <2>1, <2>3, StepsLeft DEF DoesLoad
    <3>2. Remover(t1, d1, D, r)
      BY <3>1, StepsDiffer DEF Remover, F
    <3> QED BY <1>3, <1>4, <3>1, <3>2, StepsDiffer
  <2> QED BY <1>3, <2>2, <2>3
<1>6. CASE t.todo = RDelete
  <2>1. OnlyRow(d, d1, r, Archived) /\ t1.todo = RRestore /\ t1.from = t.from
    BY <1>6, StepsLeft DEF Proceeds, Does, Advances
  <2>2. Elsewhere(d1, D, r) /\ LmsBetween(d1, D, G) /\ RowOf(d1, r) = Archived
        /\ d1.override[Exam] = d.override[Exam]
    BY <1>3, <2>1 DEF OnlyRow, Elsewhere, LmsAs, LmsBetween
  <2>3. Remover(t1, d1, D, r)
    BY <1>3, <1>6, <2>1, <2>2, StepsDiffer DEF Remover
  <2> QED BY <1>4, <2>1, <2>2, <2>3, StepsDiffer
<1>7. CASE t.todo = RRestore
  <2>1. DoesRestore(t, d, t1, d1) /\ t1.todo = RUncredit /\ t1.from = t.from
    BY <1>7, StepsLeft DEF Proceeds, Does, DoesRestore, Advances
  <2>2. /\ Elsewhere(d1, D, r) /\ RowOf(d1, r) = RowOf(d, r)
        /\ d1.override[Exam] = FALSE /\ LmsBetween(d1, D, G)
    BY <1>2, <1>3, <2>1 DEF DoesRestore, OnlyLms, Elsewhere, RowOf, LmsBetween, Request
  <2>3. Remover(t1, d1, D, r)
    BY <1>3, <1>7, <2>1, <2>2, StepsDiffer DEF Remover
  <2> QED BY <1>3, <1>4, <2>1, <2>2, <2>3, StepsDiffer
<1>8. CASE t.todo = RUncredit
  <2>1. DoesUncredit(t, d, t1, d1) /\ t1.todo = <<>>
    BY <1>8, StepsLeft, ZenonT(40) DEF Proceeds, Does, DoesUncredit, Advances
  <2>2. RowOf(d, r) = Archived /\ d.override[Exam] = FALSE /\ t.from = F.status
    BY <1>3, <1>8, StepsDiffer DEF Remover, F
  <2>3. /\ Elsewhere(d1, D, r) /\ RowOf(d1, r) = RowOf(d, r)
        /\ d1.override[Exam] = FALSE /\ LmsBetween(d1, D, G) /\ LmsAs(d1, G)
    BY <1>2, <1>3, <2>1, <2>2
    DEF DoesUncredit, OnlyLms, Elsewhere, RowOf, LmsBetween, LmsAs, Request
  <2> QED BY <1>4, <2>1, <2>2, <2>3
<1> QED
  BY <1>3, <1>5, <1>6, <1>7, <1>8 DEF Remover

(* The row of an attempt that is declined, and the one that is saved when  *)
(* the proctoring service has lost sight of it.                            *)
LEMMA DeclinedRows ==
  ASSUME NEW D, Sound(D), NEW r \in Request, Asked(D, r),
         r.op = "update", r.to = "declined",
         NEW K, K = Kept(D, r), NEW C, C = Cut(K)
  PROVE  /\ \A a : ~ Refuses(a, r)
         /\ K \in Attempt /\ K.row = "live" /\ K.status = "declined" /\ Copy(K, r) = K
         /\ C \in Attempt /\ C.row = "live" /\ C.status = "declined" /\ Copy(C, r) = C
         /\ Cut(C) = C
<1>1. \A from : EffectiveStatus(from, "declined", AllowTimedOut) = "declined"
  BY DEF EffectiveStatus, IsReattempting, PreStarted
<1>2. \A a : ~ Refuses(a, r)
  BY <1>1 DEF Refuses, IsLegal, Incomplete, PreStarted, InProgress
<1>3. \A x : Copy(x, r) = Saved(x, "declined", FALSE, FALSE)
  BY DEF Copy
<1>4. K \in Attempt /\ K.row = "live" /\ Copy(K, r) = K
  BY <1>2, FoundLive
<1>5. ASSUME NEW x \in Attempt
      PROVE  AsSaved(x, "declined", FALSE, Copy(x, r))
  <2>1. "declined" \in ValidStatus /\ FALSE \in BOOLEAN
    BY DEF ValidStatus, Completed
  <2>2. ASSUME NEW s \in BOOLEAN
        PROVE  AsSaved(x, "declined", s, Saved(x, "declined", s, FALSE))
    BY <2>1, SavedFields
  <2>3. AsSaved(x, "declined", FALSE, Saved(x, "declined", FALSE, FALSE))
    BY <2>1, <2>2, Zenon
  <2> QED BY <1>3, <2>3
<1>6. K.status = "declined" /\ K.resumable = IsResumable(K, "declined")
  BY <1>1, <1>4, <1>5 DEF AsSaved
<1>7. /\ C \in Attempt /\ C.row = "live" /\ C.status = "declined"
      /\ C.resumable = K.resumable /\ C.ready = K.ready /\ C.resumed = K.resumed
      /\ Cut(C) = C
  BY <1>4, <1>6 DEF Cut, Attempt
<1>8. Copy(C, r) = C
  <2> DEFINE X == Copy(C, r)
  <2>1. AsSaved(C, "declined", FALSE, X)
    BY <1>5, <1>7
  <2> HIDE DEF X
  <2>2. /\ X \in Attempt /\ X.row = C.row /\ X.status = C.status
        /\ X.ready = C.ready /\ X.resumed = C.resumed
        /\ X.proctored = C.proctored /\ X.registered = C.registered
    BY <1>1, <1>7, <2>1 DEF AsSaved
  <2>3. X.started = (C.started \/ FALSE) /\ X.expired = (C.expired /\ TRUE)
    BY <1>1, <2>1 DEF AsSaved
  <2>4. X.completed = (C.completed \/ FALSE)
    BY <1>1, <2>1 DEF AsSaved
  <2>5. X.resumable = IsResumable(C, "declined")
    BY <1>1, <2>1 DEF AsSaved
  <2>6. IsResumable(C, "declined") = C.resumable
    BY <1>4, <1>6, <1>7 DEF IsResumable, InResumeProcess, Attempt
  <2>7. X = C
    BY <1>7, <2>2, <2>3, <2>4, <2>5, <2>6 DEF Attempt
  <2> QED BY <2>7 DEF X
<1> QED
  BY <1>2, <1>4, <1>6, <1>7, <1>8

(* A request that declines the attempt, at each of its steps.              *)
LEMMA DeclineStep ==
  ASSUME NEW D, Sound(D), NEW r \in Request, Asked(D, r),
         r.op = "update", r.to = "declined",
         NEW d, NEW W, NEW t, NEW d1, NEW W1, NEW t1,
         DeclineInv(d, W, D, r), t.request = r, Proceeds(d, W, t, d1, W1, t1)
  PROVE  DeclineInv(d1, W1, D, r)
<1> DEFINE K == Kept(D, r)
           C == Cut(K)
           F == RowOf(D, r)
<1>1. /\ \A a : ~ Refuses(a, r)
      /\ F.row = "live" /\ K.row = "live" /\ C.row = "live"
      /\ K.status = "declined" /\ C.status = "declined"
      /\ Copy(F, r) = K /\ Copy(K, r) = K /\ Copy(C, r) = C /\ Cut(K) = C /\ Cut(C) = C
  BY DeclinedRows, FoundLive DEF Kept
<1>2. /\ RowOf(d, r) \in {F, K, C} /\ t \in W /\ Decliner(t, d, D, r)
      /\ Elsewhere(d, D, r) /\ d.override[Exam] = D.override[Exam]
  BY DEF DeclineInv, Proceeds
<1>3. t.todo \in {DLook, DWrite, DJudge, DCredit, DWithdraw} => t.row \in {K, C}
  BY <1>2 DEF Decliner
<1>4. t.todo \in {SLook, SWrite} => t.row = C
  BY <1>2 DEF Decliner
<1> HIDE DEF K, C, F
<1>5. /\ RowOf(d, r).row = "live" /\ ~ Refuses(RowOf(d, r), r)
      /\ Copy(RowOf(d, r), r) \in {K, C}
  BY <1>1, <1>2
<1>6. ASSUME Elsewhere(d1, D, r), d1.override[Exam] = D.override[Exam],
             RowOf(d1, r) \in {F, K, C},
             d.credit[Exam] = "declined" => d1.credit[Exam] = "declined",
             t1.todo # <<>> => Decliner(t1, d1, D, r),
             t1.todo = <<>> => RowOf(d1, r) = C /\ d1.credit[Exam] = "declined"
      PROVE  DeclineInv(d1, W1, D, r)
  <2>1. ASSUME NEW u \in W1 PROVE Decliner(u, d1, D, r)
    <3>1. CASE u = t1 /\ t1.todo # <<>>
      BY <1>6, <3>1
    <3>2. CASE u \in W
      <4>1. Decliner(u, d, D, r)
        BY <3>2 DEF DeclineInv
      <4> QED BY <1>6, <4>1 DEF Decliner
    <3> QED BY <3>1, <3>2 DEF Proceeds
  <2>2. W1 = {} => t1.todo = <<>>
    BY DEF Proceeds
  <2> QED BY <1>6, <2>1, <2>2 DEF DeclineInv, F, K, C
<1>7. CASE t.todo = DLoad
  <2>1. DoesLoad(t, d, t1, d1)
    BY <1>7, StepsLeft DEF Proceeds, Does
  <2>2. d1 = d /\ t1.todo = DLook /\ t1.row \in {K, C}
    BY <1>5, <1>7, <2>1, StepsLeft DEF DoesLoad
  <2>3. Decliner(t1, d1, D, r)
    BY <2>2, StepsDiffer DEF Decliner, K, C
  <2> QED BY <1>2, <1>6, <2>2, <2>3, StepsDiffer
<1>8. CASE t.todo = DLook
  <2>1. DoesLook(t, d, t1, d1)
    BY <1>8, StepsLeft DEF Proceeds, Does
  <2>2. d1 = d /\ t1.todo = DWrite /\ t1.row \in {K, C}
    BY <1>3, <1>5, <1>8, <2>1, StepsLeft DEF DoesLook, Advances
  <2>3. Decliner(t1, d1, D, r)
    BY <2>2, StepsDiffer DEF Decliner, K, C
  <2> QED BY <1>2, <1>6, <2>2, <2>3, StepsDiffer
<1>9. CASE t.todo = DWrite
  <2>1. OnlyRow(d, d1, r, t.row) /\ t1.todo = DJudge /\ t1.row = t.row
    BY <1>9, StepsLeft DEF Proceeds, Does, Advances
  <2>2. /\ Elsewhere(d1, D, r) /\ d1.override[Exam] = D.override[Exam]
        /\ RowOf(d1, r) \in {K, C} /\ d1.credit[Exam] = d.credit[Exam]
        /\ t1.row \in {K, C}
    BY <1>2, <1>3, <1>9, <2>1 DEF OnlyRow, Elsewhere, LmsAs
  <2>3. Decliner(t1, d1, D, r)
    BY <2>1, <2>2, StepsDiffer DEF Decliner, K, C
  <2> QED BY <1>6, <2>1, <2>2, <2>3, StepsDiffer
<1>10. CASE t.todo = DJudge
  <2>1. DoesJudge(t, d, t1, d1)
    BY <1>10, StepsLeft DEF Proceeds, Does
  <2>2. CanUpdateCreditGradesAndEmail(d, Exam, t.row.status)
    BY <1>1, <1>3, <1>10 DEF CanUpdateCreditGradesAndEmail
  <2>3. d1 = d /\ t1.todo = DCredit /\ t1.row \in {K, C}
    BY <1>3, <1>10, <2>1, <2>2, StepsLeft DEF DoesJudge, Advances
  <2>4. Decliner(t1, d1, D, r)
    BY <2>3, StepsDiffer DEF Decliner, K, C
  <2> QED BY <1>2, <1>6, <2>3, <2>4, StepsDiffer
<1>11. CASE t.todo = DCredit
  <2>1. DoesCredit(t, d, t1, d1)
    BY <1>11, StepsLeft DEF Proceeds, Does
  <2>2. t.row \in {K, C} /\ t.row.status = "declined"
    BY <1>1, <1>3, <1>11
  <2>3. d1.credit[Exam] = "declined"
    <3>1. "declined" \in NeedsCreditUpdate /\ CreditFor("declined") = "declined"
      BY DEF NeedsCreditUpdate, CreditFor
    <3> QED BY <2>1, <2>2, <3>1 DEF DoesCredit
  <2>4. /\ Elsewhere(d1, D, r) /\ d1.override[Exam] = D.override[Exam]
        /\ RowOf(d1, r) = RowOf(d, r)
    BY <1>2, <2>1 DEF DoesCredit, OnlyLms, Elsewhere, RowOf, Request
  <2>5. t1.todo = DWithdraw /\ t1.row \in {K, C}
    BY <1>11, <2>1, <2>2, StepsLeft DEF DoesCredit, Advances
  <2>6. Decliner(t1, d1, D, r)
    BY <2>3, <2>5, StepsDiffer DEF Decliner, K, C
  <2> QED BY <1>2, <1>6, <2>3, <2>4, <2>5, <2>6, StepsDiffer
<1>12. CASE t.todo = DWithdraw
  <2>1. DoesWithdraw(t, d, t1, d1)
    BY <1>12, StepsLeft DEF Proceeds, Does
  <2>2. d1 = d /\ t1.todo = SLook /\ t1.row = C /\ d.credit[Exam] = "declined"
    BY <1>1, <1>2, <1>3, <1>12, <2>1, StepsLeft, ZenonT(40) DEF DoesWithdraw, Decliner
  <2>3. Decliner(t1, d1, D, r)
    BY <2>2, StepsDiffer DEF Decliner, K, C
  <2> QED BY <1>2, <1>6, <2>2, <2>3, StepsDiffer
<1>13. CASE t.todo = SLook
  <2>1. DoesLook(t, d, t1, d1)
    BY <1>13, StepsLeft DEF Proceeds, Does
  <2>2. d1 = d /\ t1.todo = SWrite /\ t1.row = C /\ d.credit[Exam] = "declined"
    BY <1>2, <1>4, <1>5, <1>13, <2>1, StepsLeft, ZenonT(40) DEF DoesLook, Advances, Decliner
  <2>3. Decliner(t1, d1, D, r)
    BY <2>2, StepsDiffer DEF Decliner, K, C
  <2> QED BY <1>2, <1>6, <2>2, <2>3, StepsDiffer
<1>14. CASE t.todo = SWrite
  <2>1. OnlyRow(d, d1, r, C) /\ t1.todo = <<>>
    BY <1>4, <1>14, StepsLeft, ZenonT(40) DEF Proceeds, Does, Advances
  <2>2. d.credit[Exam] = "declined"
    BY <1>2, <1>14 DEF Decliner
  <2>3. /\ Elsewhere(d1, D, r) /\ d1.override[Exam] = D.override[Exam]
        /\ RowOf(d1, r) = C /\ d1.credit[Exam] = "declined"
    BY <1>2, <2>1, <2>2 DEF OnlyRow, Elsewhere, LmsAs
  <2> QED BY <1>6, <2>1, <2>3
<1> QED
  BY <1>2, <1>7, <1>8, <1>9, <1>10, <1>11, <1>12, <1>13, <1>14 DEF Decliner

(* The same for a request that saves another status.                       *)
LEMMA UpdateStepsLeft ==
  /\ Head(ToLoad) = "load" /\ Head(ToLook) = "look" /\ Head(ToWrite) = "write"
  /\ Head(ToJudge) = "judge" /\ Head(ToCredit) = "credit" /\ Head(ToEnd) = "override"
  /\ ToLook # <<>> /\ ToWrite # <<>> /\ ToJudge # <<>> /\ ToCredit # <<>> /\ ToEnd # <<>>
  /\ ToLoad \notin {ToLook, ToWrite, ToJudge, ToCredit, ToEnd}
  /\ {ToLook, ToWrite} \cap {ToJudge, ToCredit, ToEnd} = {}
  /\ ToJudge \notin {ToCredit, ToEnd} /\ ToCredit # ToEnd
<1>1. /\ Head(ToLoad) = "load" /\ Head(ToLook) = "look" /\ Head(ToWrite) = "write"
      /\ Head(ToJudge) = "judge" /\ Head(ToCredit) = "credit"
      /\ Head(ToEnd) = "override"
  BY DEF ToLoad, ToLook, ToWrite, ToJudge, ToCredit, ToEnd
<1>2. /\ ToLook # <<>> /\ ToWrite # <<>> /\ ToJudge # <<>> /\ ToCredit # <<>>
      /\ ToEnd # <<>>
      /\ ToLoad \notin {ToLook, ToWrite, ToJudge, ToCredit, ToEnd}
      /\ {ToLook, ToWrite} \cap {ToJudge, ToCredit, ToEnd} = {}
      /\ ToJudge \notin {ToCredit, ToEnd} /\ ToCredit # ToEnd
  BY DEF ToLoad, ToLook, ToWrite, ToJudge, ToCredit, ToEnd
<1> QED
  BY <1>1, <1>2

(* What the LMS is told when the request runs alone.                       *)
LEMMA ToldLms ==
  ASSUME NEW D, Sound(D), NEW r \in Request
  PROVE  LET G == Told(D, r)
             F == RowOf(D, r)
             K == Kept(D, r)
             can == CanUpdateCreditGradesAndEmail(WithKept(D, r), Exam, K.status)
         IN /\ ~ can => LmsAs(G, D)
            /\ can => /\ G.credit[Exam] = IF K.status \in NeedsCreditUpdate
                                          THEN CreditFor(K.status) ELSE D.credit[Exam]
                      /\ G.override[Exam] =
                           IF ~ OverrideOnReject THEN D.override[Exam]
                           ELSE \/ K.status \in NeedsGradeOverride
                                \/ /\ D.override[Exam]
                                   /\ ~ /\ K.status = "verified"
                                        /\ F.status \in NeedsGradeOverride
<1> DEFINE G == Told(D, r)
           F == RowOf(D, r)
           K == Kept(D, r)
           E == WithKept(D, r)
           can == CanUpdateCreditGradesAndEmail(E, Exam, K.status)
           credit == IF K.status \in NeedsCreditUpdate
                     THEN CreditFor(K.status) ELSE E.credit[Exam]
           override == IF ~ OverrideOnReject THEN E.override[Exam]
                       ELSE \/ K.status \in NeedsGradeOverride
                            \/ /\ E.override[Exam]
                               /\ ~ /\ K.status = "verified"
                                    /\ F.status \in NeedsGradeOverride
<1>1. D \in [att : [Exams -> [Slots -> Attempt]],
             credit : [Exams -> CreditStatus \cup {"none"}],
             override : [Exams -> BOOLEAN]]
  BY DEF Sound, Database
<1>2. ASSUME NEW x, NEW e, e = [D EXCEPT !.att = x]
      PROVE  /\ e.credit = D.credit /\ e.override = D.override
             /\ DOMAIN e.credit = Exams /\ DOMAIN e.override = Exams
             /\ \A c, o : /\ [e EXCEPT !.credit = c, !.override = o].credit = c
                          /\ [e EXCEPT !.credit = c, !.override = o].override = o
  BY <1>1, <1>2
<1>3. \E x : E = [D EXCEPT !.att = x]
  BY DEF WithKept
<1>4. G = IF ~ can THEN E
          ELSE [E EXCEPT !.credit = [E.credit EXCEPT ![Exam] = credit],
                         !.override = [E.override EXCEPT ![Exam] = override]]
  BY DEF Told, Settled
<1> HIDE DEF E, G, K, F, can, credit, override
<1>5. /\ E.credit = D.credit /\ E.override = D.override
      /\ DOMAIN E.credit = Exams /\ DOMAIN E.override = Exams
      /\ \A c, o : /\ [E EXCEPT !.credit = c, !.override = o].credit = c
                   /\ [E EXCEPT !.credit = c, !.override = o].override = o
  BY <1>2, <1>3
<1>6. ~ can => LmsAs(G, D)
  BY <1>4, <1>5 DEF LmsAs
<1>7. ASSUME can PROVE G.credit[Exam] = credit /\ G.override[Exam] = override
  <2>1. /\ G.credit = [E.credit EXCEPT ![Exam] = credit]
        /\ G.override = [E.override EXCEPT ![Exam] = override]
    BY <1>4, <1>5, <1>7
  <2> QED BY <1>5, <2>1, ExamIsProctored
<1>8. /\ credit = IF K.status \in NeedsCreditUpdate
                  THEN CreditFor(K.status) ELSE D.credit[Exam]
      /\ override = IF ~ OverrideOnReject THEN D.override[Exam]
                    ELSE \/ K.status \in NeedsGradeOverride
                         \/ /\ D.override[Exam]
                            /\ ~ /\ K.status = "verified"
                                 /\ F.status \in NeedsGradeOverride
  BY <1>5 DEF credit, override
<1> QED
  BY <1>6, <1>7, <1>8 DEF E, G, K, F, can

(* A request that saves a status other than declined, at each of its       *)
(* steps.                                                                  *)
LEMMA UpdateStep ==
  ASSUME NEW D, Sound(D), NEW r \in Request, Asked(D, r),
         r.op = "update", r.to # "declined", ~ Refuses(RowOf(D, r), r),
         NEW d, NEW W, NEW t, NEW d1, NEW W1, NEW t1,
         UpdateInv(d, W, D, r), t.request = r, Proceeds(d, W, t, d1, W1, t1)
  PROVE  UpdateInv(d1, W1, D, r)
<1> DEFINE K == Kept(D, r)
           F == RowOf(D, r)
           G == Told(D, r)
           can == CanUpdateCreditGradesAndEmail(WithKept(D, r), Exam, K.status)
<1>1. /\ F.row = "live" /\ K.row = "live" /\ Copy(F, r) = K
      /\ Refuses(K, r) \/ Copy(K, r) = K
  BY FoundLive DEF Kept
<1>2. /\ RowOf(d, r) \in {F, K} /\ t \in W /\ Updater(t, d, D, r)
      /\ Elsewhere(d, D, r) /\ LmsBetween(d, D, G)
  BY DEF UpdateInv, Proceeds
<1>3. /\ t.todo \in {ToLoad, ToLook, ToWrite, ToJudge, ToCredit, ToEnd}
      /\ t.todo # ToLoad =>
           t.row = K /\ (t.from = F.status \/ (t.from = K.status /\ RowOf(d, r) = K))
      /\ t.todo \in {ToJudge, ToCredit, ToEnd} => RowOf(d, r) = K
      /\ t.todo \in {ToCredit, ToEnd} => can
  BY <1>2, UpdateStepsLeft DEF Updater, Unsettled, AboutToSave
<1>4. /\ ~ can => LmsAs(G, D)
      /\ can => /\ G.credit[Exam] = IF K.status \in NeedsCreditUpdate
                                    THEN CreditFor(K.status) ELSE D.credit[Exam]
                /\ G.override[Exam] =
                     IF ~ OverrideOnReject THEN D.override[Exam]
                     ELSE \/ K.status \in NeedsGradeOverride
                          \/ /\ D.override[Exam]
                             /\ ~ /\ K.status = "verified"
                                  /\ F.status \in NeedsGradeOverride
  BY ToldLms
<1>5. ASSUME NEW u, u.todo \in {ToLook, ToWrite, ToJudge, ToCredit, ToEnd}, u.row = K,
             u.from = F.status \/ (u.from = K.status /\ RowOf(d1, r) = K),
             u.todo \in {ToJudge, ToCredit, ToEnd} => RowOf(d1, r) = K,
             u.todo \in {ToCredit, ToEnd} => can
      PROVE  Updater(u, d1, D, r)
  BY <1>5, UpdateStepsLeft DEF Updater, Unsettled, AboutToSave
<1>6. ASSUME NEW u, u.todo \in {ToLook, ToWrite, ToJudge, ToCredit}, u.from = F.status
      PROVE  Leads(u, d1, D, r)
  BY <1>6, UpdateStepsLeft DEF Leads
<1>7. t.todo # ToLoad /\ Leads(t, d, D, r) => t.from = F.status
  BY DEF Leads
<1> HIDE DEF K, F, G, can
<1>8. ASSUME Elsewhere(d1, D, r), LmsBetween(d1, D, G), RowOf(d1, r) \in {F, K},
             RowOf(d, r) = K => RowOf(d1, r) = K,
             d.credit[Exam] = G.credit[Exam] => d1.credit[Exam] = G.credit[Exam],
             d.override[Exam] = G.override[Exam] => d1.override[Exam] = G.override[Exam],
             t1.todo # <<>> => Updater(t1, d1, D, r),
             Leads(t, d, D, r) => \/ t1.todo # <<>> /\ Leads(t1, d1, D, r)
                                  \/ RowOf(d1, r) = K /\ LmsAs(d1, G),
             \/ RowOf(d1, r) = RowOf(d, r)
             \/ t1.todo # <<>> /\ Leads(t1, d1, D, r)
      PROVE  UpdateInv(d1, W1, D, r)
  <2>1. ASSUME NEW u \in W1 PROVE Updater(u, d1, D, r)
    <3>1. CASE u = t1 /\ t1.todo # <<>>
      BY <1>8, <3>1
    <3>2. CASE u \in W
      <4>1. Updater(u, d, D, r)
        BY <3>2 DEF UpdateInv
      <4> QED BY <1>8, <4>1 DEF Updater, K
    <3> QED BY <3>1, <3>2 DEF Proceeds
  <2>2. \/ RowOf(d1, r) = K /\ LmsAs(d1, G)
        \/ \E u \in W1 : Leads(u, d1, D, r)
    <3>1. CASE t1.todo # <<>> /\ Leads(t1, d1, D, r)
      BY <3>1 DEF Proceeds
    <3>2. CASE RowOf(d, r) = K /\ LmsAs(d, G)
      BY <1>8, <3>2 DEF LmsAs
    <3>3. ASSUME NEW u \in W, Leads(u, d, D, r), RowOf(d1, r) = RowOf(d, r)
          PROVE  \/ RowOf(d1, r) = K /\ LmsAs(d1, G)
                 \/ \E v \in W1 : Leads(v, d1, D, r)
      <4>1. CASE u = t
        BY <1>8, <3>3, <4>1 DEF Proceeds
      <4>2. CASE u # t
        <5>1. u \in W1
          BY <4>2 DEF Proceeds
        <5>2. Leads(u, d1, D, r)
          BY <1>8, <3>3 DEF Leads, G
        <5> QED BY <5>1, <5>2
      <4> QED BY <4>1, <4>2
    <3> QED BY <1>8, <3>1, <3>2, <3>3 DEF UpdateInv, K, G
  <2> QED BY <1>8, <2>1, <2>2 DEF UpdateInv, K, F, G
<1>9. CASE t.todo = ToLoad
  <2>1. DoesLoad(t, d, t1, d1)
    BY <1>9, UpdateStepsLeft DEF Proceeds, Does
  <2>2. Leads(t, d, D, r) => RowOf(d, r) = F
    BY <1>9 DEF Leads, F
  <2>3. CASE Refuses(RowOf(d, r), r)
    <3>1. d1 = d /\ t1.todo = <<>> /\ RowOf(d, r) # F
      BY <2>1, <2>3 DEF DoesLoad, F
    <3> QED BY <1>2, <1>8, <2>2, <3>1
  <2>4. CASE ~ Refuses(RowOf(d, r), r)
    <3>1. d1 = d /\ t1.todo = ToLook /\ t1.row = K /\ t1.from = RowOf(d, r).status
      BY <1>1, <1>2, <1>9, <2>1, <2>4, VerifyingSteps DEF DoesLoad
    <3>2. Updater(t1, d1, D, r)
      BY <1>2, <1>5, <3>1, UpdateStepsLeft
    <3>3. Leads(t, d, D, r) => Leads(t1, d1, D, r)
      BY <1>6, <2>2, <3>1
    <3> QED BY <1>2, <1>8, <3>1, <3>2, <3>3, UpdateStepsLeft
  <2> QED BY <2>3, <2>4
<1>10. CASE t.todo = ToLook
  <2>1. DoesLook(t, d, t1, d1)
    BY <1>10, UpdateStepsLeft DEF Proceeds, Does
  <2>2. d1 = d /\ t1.todo = ToWrite /\ t1.row = K /\ t1.from = t.from
    BY <1>1, <1>2, <1>3, <1>10, <2>1, VerifyingSteps, UpdateStepsLeft
    DEF DoesLook, Advances
  <2>3. Updater(t1, d1, D, r)
    BY <1>3, <1>5, <1>10, <2>2, UpdateStepsLeft
  <2>4. Leads(t, d, D, r) => Leads(t1, d1, D, r)
    BY <1>6, <1>7, <1>10, <2>2, UpdateStepsLeft
  <2> QED BY <1>2, <1>8, <2>2, <2>3, <2>4, UpdateStepsLeft
<1>11. CASE t.todo = ToWrite
  <2>1. OnlyRow(d, d1, r, K) /\ t1.todo = ToJudge /\ t1.row = K /\ t1.from = t.from
    BY <1>3, <1>11, VerifyingSteps, UpdateStepsLeft DEF Proceeds, Does, Advances
  <2>2. /\ Elsewhere(d1, D, r) /\ LmsBetween(d1, D, G) /\ RowOf(d1, r) = K
        /\ d1.credit[Exam] = d.credit[Exam] /\ d1.override[Exam] = d.override[Exam]
    BY <1>2, <2>1 DEF OnlyRow, Elsewhere, LmsAs, LmsBetween
  <2>3. t.from = F.status \/ (t.from = K.status /\ RowOf(d, r) = K)
    BY <1>3, <1>11, UpdateStepsLeft
  <2>4. Updater(t1, d1, D, r)
    BY <1>5, <2>1, <2>2, <2>3, UpdateStepsLeft
  <2>5. t.from = F.status => Leads(t1, d1, D, r)
    BY <1>6, <2>1
  <2>6. Leads(t, d, D, r) => Leads(t1, d1, D, r)
    BY <1>7, <1>11, <2>5, UpdateStepsLeft
  <2> QED BY <1>8, <2>1, <2>2, <2>3, <2>4, <2>5, <2>6, UpdateStepsLeft
<1>12. CASE t.todo = ToJudge
  <2>1. DoesJudge(t, d, t1, d1)
    BY <1>12, UpdateStepsLeft DEF Proceeds, Does
  <2>2. RowOf(d, r) = K /\ t.row = K
        /\ (t.from = F.status \/ (t.from = K.status /\ RowOf(d, r) = K))
    BY <1>3, <1>12, UpdateStepsLeft
  <2>3. CanUpdateCreditGradesAndEmail(d, Exam, K.status) <=> can
    <3>1. \A j \in Slots :
            WithKept(D, r).att[Exam][j] = IF j = r.slot THEN K ELSE D.att[Exam][j]
      BY ExamIsProctored DEF Sound, Database, WithKept, K
    <3>2. \A j \in Slots : d.att[Exam][j] = WithKept(D, r).att[Exam][j]
      BY <1>2, <2>2, <3>1 DEF Elsewhere, RowOf
    <3> QED BY <3>2, SameRowsSameCredit DEF can
  <2>4. CASE can
    <3>1. d1 = d /\ t1.todo = ToCredit /\ t1.row = K /\ t1.from = t.from
      BY <1>12, <2>1, <2>2, <2>3, <2>4, VerifyingSteps DEF DoesJudge, Advances
    <3>2. Updater(t1, d1, D, r)
      BY <1>5, <2>2, <2>4, <3>1, UpdateStepsLeft
    <3>3. Leads(t, d, D, r) => Leads(t1, d1, D, r)
      BY <1>6, <1>7, <1>12, <3>1, UpdateStepsLeft
    <3> QED BY <1>2, <1>8, <3>1, <3>2, <3>3, UpdateStepsLeft
  <2>5. CASE ~ can
    <3>1. d1 = d /\ t1.todo = <<>>
      BY <2>1, <2>2, <2>3, <2>5 DEF DoesJudge
    <3>2. LmsAs(d, G)
      BY <1>2, <1>4, <2>5 DEF LmsAs, LmsBetween
    <3> QED BY <1>2, <1>8, <2>2, <3>1, <3>2
  <2> QED BY <2>4, <2>5
<1>13. CASE t.todo = ToCredit
  <2>1. DoesCredit(t, d, t1, d1)
    BY <1>13, UpdateStepsLeft DEF Proceeds, Does
  <2>2. /\ RowOf(d, r) = K /\ t.row = K /\ can
        /\ t.from = F.status \/ (t.from = K.status /\ RowOf(d, r) = K)
    BY <1>3, <1>13, UpdateStepsLeft
  <2>3. d1.credit[Exam] = G.credit[Exam] /\ d1.override[Exam] = d.override[Exam]
    BY <1>2, <1>4, <2>1, <2>2 DEF DoesCredit, LmsBetween
  <2>4. Elsewhere(d1, D, r) /\ LmsBetween(d1, D, G) /\ RowOf(d1, r) = RowOf(d, r)
    BY <1>2, <2>1, <2>3
    DEF DoesCredit, OnlyLms, Elsewhere, RowOf, LmsBetween, Request
  <2>5. t1.todo = ToEnd /\ t1.row = K /\ t1.from = t.from
    BY <1>13, <2>1, <2>2, VerifyingSteps DEF DoesCredit, Advances
  <2>6. Updater(t1, d1, D, r)
    BY <1>5, <2>2, <2>4, <2>5
  <2>7. Leads(t, d, D, r) => Leads(t1, d1, D, r)
    BY <1>7, <1>13, <2>3, <2>5, UpdateStepsLeft DEF Leads, F, G
  <2> QED BY <1>2, <1>8, <2>2, <2>3, <2>4, <2>5, <2>6, <2>7, UpdateStepsLeft
<1>14. CASE t.todo = ToEnd
  <2>1. DoesOverride(t, d, t1, d1)
    BY <1>14, UpdateStepsLeft DEF Proceeds, Does
  <2>2. /\ RowOf(d, r) = K /\ t.row = K /\ can
        /\ t.from = F.status \/ t.from = K.status
    BY <1>3, <1>14, UpdateStepsLeft
  <2>3. /\ d1.override[Exam] \in {D.override[Exam], G.override[Exam]}
        /\ d.override[Exam] = G.override[Exam] => d1.override[Exam] = G.override[Exam]
        /\ t.from = F.status => d1.override[Exam] = G.override[Exam]
    <3>1. D.override[Exam] \in BOOLEAN
      BY ExamIsProctored DEF Sound, Database
    <3>2. d.override[Exam] \in {D.override[Exam], G.override[Exam]}
      BY <1>2 DEF LmsBetween
    <3>3. "verified" \notin NeedsGradeOverride
      BY DEF NeedsGradeOverride
    <3> QED BY <1>4, <2>1, <2>2, <3>1, <3>2, <3>3 DEF DoesOverride
  <2>4. /\ Elsewhere(d1, D, r) /\ LmsBetween(d1, D, G) /\ RowOf(d1, r) = RowOf(d, r)
        /\ d1.credit[Exam] = d.credit[Exam]
    BY <1>2, <2>1, <2>3
    DEF DoesOverride, OnlyLms, Elsewhere, RowOf, LmsBetween, Request
  <2>5. t1.todo = <<>>
    BY <1>14, <2>1, VerifyingSteps DEF DoesOverride, Advances
  <2>6. Leads(t, d, D, r) => LmsAs(d1, G)
    BY <1>7, <1>14, <2>3, <2>4, UpdateStepsLeft DEF Leads, LmsAs, G
  <2> QED BY <1>2, <1>8, <2>2, <2>3, <2>4, <2>5, <2>6
<1> QED
  BY <1>3, <1>9, <1>10, <1>11, <1>12, <1>13, <1>14

(* There is one exam: what is stored of it is all that is stored.          *)
LEMMA SameDatabase ==
  ASSUME NEW x \in Database, NEW y \in Database, LmsAs(x, y),
         \A j \in Slots : x.att[Exam][j] = y.att[Exam][j]
  PROVE  x = y
<1>1. Exams = {Exam}
  BY RaceAssumption
<1>2. /\ x.att \in [Exams -> [Slots -> Attempt]] /\ y.att \in [Exams -> [Slots -> Attempt]]
      /\ x.credit \in [Exams -> CreditStatus \cup {"none"}]
      /\ y.credit \in [Exams -> CreditStatus \cup {"none"}]
      /\ x.override \in [Exams -> BOOLEAN] /\ y.override \in [Exams -> BOOLEAN]
      /\ x = [att |-> x.att, credit |-> x.credit, override |-> x.override]
      /\ y = [att |-> y.att, credit |-> y.credit, override |-> y.override]
  BY DEF Database
<1>3. x.att[Exam] = y.att[Exam]
  BY <1>1, <1>2
<1>4. x.att = y.att
  BY <1>1, <1>2, <1>3
<1>5. x.credit = y.credit /\ x.override = y.override
  BY <1>1, <1>2 DEF LmsAs
<1> QED
  BY <1>2, <1>4, <1>5

(* The database with the row that a request keeps.                         *)
LEMMA WithKeptIs ==
  ASSUME NEW D, Sound(D), NEW r \in Request, r.slot \in Slots, Kept(D, r) \in Attempt
  PROVE  /\ WithKept(D, r) \in Database /\ LmsAs(WithKept(D, r), D)
         /\ \A j \in Slots :
              WithKept(D, r).att[Exam][j] =
                IF j = r.slot THEN Kept(D, r) ELSE D.att[Exam][j]
<1> DEFINE K == Kept(D, r)
           att == [D.att EXCEPT ![Exam] = [D.att[Exam] EXCEPT ![r.slot] = K]]
<1> HIDE DEF K
<1>1. D \in [att : [Exams -> [Slots -> Attempt]],
             credit : [Exams -> CreditStatus \cup {"none"}],
             override : [Exams -> BOOLEAN]]
  BY DEF Sound, Database
<1>2. K \in Attempt
  BY DEF K
<1>3. /\ att \in [Exams -> [Slots -> Attempt]]
      /\ \A j \in Slots : att[Exam][j] = IF j = r.slot THEN K ELSE D.att[Exam][j]
  BY <1>1, <1>2, ExamIsProctored
<1>4. WithKept(D, r) = [D EXCEPT !.att = att]
  BY DEF WithKept, K
<1> HIDE DEF att
<1>5. /\ WithKept(D, r) \in Database /\ WithKept(D, r).att = att
      /\ WithKept(D, r).credit = D.credit /\ WithKept(D, r).override = D.override
  BY <1>1, <1>3, <1>4 DEF Database
<1> QED
  BY <1>3, <1>5 DEF LmsAs, K

(* A request that goes on with an attempt, or makes one, at each of its    *)
(* steps.                                                                  *)
LEMMA AloneStep ==
  ASSUME NEW D, Sound(D), NEW r \in Request, Asked(D, r), r.op \in {"resume", "create"},
         NEW d, NEW W, NEW t, NEW d1, NEW W1, NEW t1,
         AloneInv(d, W, D, r), t.request = r, Proceeds(d, W, t, d1, W1, t1),
         W1 \subseteq {t1}
  PROVE  AloneInv(d1, W1, D, r)
<1> DEFINE K == Kept(D, r)
           F == RowOf(D, r)
<1>1. t \in W /\ Does(t, d, t1, d1) /\ d1 \in Database /\ (t1.todo # <<>> => W1 # {})
  BY DEF Proceeds
<1>2. CASE t.todo = IInsert /\ d = ToFollow(D, r)
  <2>1. DoesInsert(t, d, t1, d1) /\ t1.todo = <<>>
    BY <1>1, <1>2, StepsLeft DEF Does, DoesInsert, Advances
  <2>2. W1 = {}
    <3>1. t \in W /\ W1 \subseteq {t1}
      BY <1>1
    <3>2. ASSUME t1 \in W1 PROVE t1 \in W
      BY <2>1, <3>2 DEF Proceeds
    <3>3. t1 \notin W
      <4>1. \A u \in W : u.todo # <<>>
        BY StepsDiffer DEF AloneInv, ILoad
      <4> QED BY <2>1, <4>1
    <3> QED BY <3>1, <3>2, <3>3
  <2>3. \E outcome \in Outcomes(Exam, TRUE) :
          d1 = IF outcome = "refused" THEN ToFollow(D, r)
               ELSE NewAttempt(ToFollow(D, r), Exam, outcome, TRUE)
    BY <1>2, <2>1 DEF DoesInsert
  <2> QED BY <2>2, <2>3 DEF AloneInv
<1>3. ASSUME r.op = "resume"
      PROVE  /\ F.row = "live" /\ K \in Attempt /\ K.row = "live" /\ Copy(F, r) = K
             /\ ~ Refuses(F, r) /\ r.slot \in Slots
  <2>1. ~ Refuses(F, r)
    BY <1>3 DEF Refuses, Asked
  <2> QED BY <1>3, <2>1, FoundLive DEF Kept
<1> HIDE DEF K, F
<1>4. CASE r.op = "resume" /\ t.todo = ILoad /\ d = D
  <2>1. DoesLoad(t, d, t1, d1)
    BY <1>1, <1>4, StepsLeft DEF Does
  <2>2. d1 = D /\ t1.todo = ILook /\ t1.row = K
    BY <1>3, <1>4, <2>1, StepsLeft DEF DoesLoad, F
  <2> QED BY <1>1, <1>4, <2>2, StepsDiffer DEF AloneInv, K
<1>5. CASE r.op = "resume" /\ d = D /\ t.row = K /\ t.todo = ILook
  <2>1. DoesLook(t, d, t1, d1)
    BY <1>1, <1>5, StepsLeft DEF Does
  <2>2. d1 = D /\ t1.todo = IWrite /\ t1.row = K
    BY <1>3, <1>5, <2>1, StepsLeft DEF DoesLook, Advances, F
  <2> QED BY <1>1, <1>5, <2>2, StepsDiffer DEF AloneInv, K
<1>6. CASE r.op = "resume" /\ d = D /\ t.row = K /\ t.todo = IWrite
  <2>1. OnlyRow(D, d1, r, K) /\ t1.todo = IInsert
    BY <1>1, <1>6, StepsLeft DEF Does, Advances
  <2>2. /\ WithKept(D, r) \in Database /\ LmsAs(WithKept(D, r), D)
        /\ \A j \in Slots :
             WithKept(D, r).att[Exam][j] = IF j = r.slot THEN K ELSE D.att[Exam][j]
    BY <1>3, <1>6, WithKeptIs DEF K
  <2>3. \A j \in Slots : d1.att[Exam][j] = WithKept(D, r).att[Exam][j]
    BY <2>1, <2>2 DEF OnlyRow, Elsewhere, RowOf
  <2>4. LmsAs(d1, WithKept(D, r))
    BY <2>1, <2>2 DEF OnlyRow, LmsAs
  <2>5. d1 = ToFollow(D, r)
    BY <1>1, <1>6, <2>2, <2>3, <2>4, SameDatabase DEF ToFollow
  <2> QED BY <1>1, <2>1, <2>5, StepsDiffer DEF AloneInv
<1> QED
  BY <1>1, <1>2, <1>4, <1>5, <1>6 DEF AloneInv, K

(* The first of the requests, before its first step.                       *)
LEMMA FirstOne ==
  ASSUME NEW D, NEW r \in Request, NEW t, t.todo = Steps(r)
  PROVE  Progress(D, {t}, D, r)
<1>1. r.op \in {"resume", "create"} => AloneInv(D, {t}, D, r)
  BY StepsSpelledOut DEF AloneInv, ToFollow
<1>2. r.op = "update" /\ r.to = "declined" => DeclineInv(D, {t}, D, r)
  BY StepsSpelledOut, StepsDiffer DEF DeclineInv, Elsewhere, Decliner
<1>3. RefusedInv(D, {t}, D, r)
  BY DEF RefusedInv
<1>4. r.op = "remove" => RemoveInv(D, {t}, D, r)
  BY StepsSpelledOut, StepsDiffer DEF RemoveInv, Elsewhere, LmsBetween, Remover
<1>5. r.op = "update" /\ r.to # "declined" => UpdateInv(D, {t}, D, r)
  BY StepsSpelledOut, UpdateStepsLeft
  DEF UpdateInv, Elsewhere, LmsBetween, Updater, Leads, Unsettled, AboutToSave
<1>6. r.op \in {"release", "acknowledge"} => SaveInv(D, {t}, D, r)
  BY StepsSpelledOut DEF SaveInv, Elsewhere, LmsAs
<1> QED
  BY <1>1, <1>2, <1>3, <1>4, <1>5, <1>6 DEF Progress

(* A repetition of a request that joins the others.                        *)
LEMMA OneMore ==
  ASSUME NEW D, NEW r \in Request, r.op \notin {"resume", "create"},
         NEW d, NEW W, Progress(d, W, D, r), NEW t, t.todo = Steps(r),
         NEW W1, W \subseteq W1, W1 \subseteq W \cup {t}, t \in W1
  PROVE  Progress(d, W1, D, r)
<1>1. ASSUME DeclineInv(d, W, D, r), r.op = "update", r.to = "declined"
      PROVE  DeclineInv(d, W1, D, r)
  <2>1. Decliner(t, d, D, r)
    BY <1>1, StepsSpelledOut, StepsDiffer DEF Decliner
  <2> QED BY <1>1, <2>1 DEF DeclineInv
<1>2. RefusedInv(d, W, D, r) => RefusedInv(d, W1, D, r)
  BY DEF RefusedInv
<1>3. ASSUME RemoveInv(d, W, D, r), r.op = "remove"
      PROVE  RemoveInv(d, W1, D, r)
  <2>1. Remover(t, d, D, r)
    BY <1>3, StepsSpelledOut, StepsDiffer DEF Remover
  <2> QED BY <1>3, <2>1 DEF RemoveInv
<1>4. ASSUME UpdateInv(d, W, D, r), r.op = "update", r.to # "declined"
      PROVE  UpdateInv(d, W1, D, r)
  <2>1. Updater(t, d, D, r)
    BY <1>4, StepsSpelledOut, UpdateStepsLeft DEF Updater, Unsettled, AboutToSave
  <2> QED BY <1>4, <2>1 DEF UpdateInv
<1>5. ASSUME SaveInv(d, W, D, r), r.op \in {"release", "acknowledge"}
      PROVE  SaveInv(d, W1, D, r)
  <2>1. t.todo = Save
    BY <1>5, StepsSpelledOut
  <2> QED BY <1>5, <2>1 DEF SaveInv
<1> QED
  BY <1>1, <1>2, <1>3, <1>4, <1>5 DEF Progress

(* Any of the requests makes a step.                                       *)
LEMMA ProgressStep ==
  ASSUME NEW D, Sound(D), NEW r \in Request, Asked(D, r),
         NEW d, NEW W, NEW t, NEW d1, NEW W1, NEW t1,
         Progress(d, W, D, r), t.request = r, Proceeds(d, W, t, d1, W1, t1),
         r.op \in {"resume", "create"} => W1 \subseteq {t1}
  PROVE  Progress(d1, W1, D, r)
<1>1. r.op \in {"resume", "create"} => AloneInv(d1, W1, D, r)
  BY AloneStep DEF Progress
<1>2. r.op = "update" /\ r.to = "declined" => DeclineInv(d1, W1, D, r)
  BY DeclineStep DEF Progress
<1>3. ASSUME Refuses(RowOf(D, r), r), r.op \notin {"resume", "create"}
      PROVE  RefusedInv(d1, W1, D, r)
  <2>1. RefusedInv(d, W, D, r)
    BY <1>3 DEF Progress
  <2> QED BY <1>3, <2>1, RefusedStep
<1>4. ASSUME ~ Refuses(RowOf(D, r), r)
      PROVE  /\ r.op = "remove" => RemoveInv(d1, W1, D, r)
             /\ r.op = "update" /\ r.to # "declined" => UpdateInv(d1, W1, D, r)
             /\ r.op \in {"release", "acknowledge"} => SaveInv(d1, W1, D, r)
  <2>1. r.op = "remove" => RemoveInv(d1, W1, D, r)
    BY <1>4, RemoveStep DEF Progress
  <2>2. r.op = "update" /\ r.to # "declined" => UpdateInv(d1, W1, D, r)
    BY <1>4, UpdateStep DEF Progress
  <2>3. r.op \in {"release", "acknowledge"} => SaveInv(d1, W1, D, r)
    BY <1>4, SaveStep DEF Progress
  <2> QED BY <2>1, <2>2, <2>3
<1> QED
  BY <1>1, <1>2, <1>3, <1>4 DEF Progress

(* A step of a worker is one that its request may make next.               *)
LEMMA ServeDoes ==
  ASSUME RaceInv, NEW w \in Workers, Serve(w)
  PROVE  \E t1 : /\ Continue(w, t1) /\ t1.request = work[w].request
                 /\ Does(work[w], db, t1, db') /\ w \in Running
<1> DEFINE t == work[w]
           r == t.request
           next == [t EXCEPT !.todo = Tail(@)]
           stop == [t EXCEPT !.todo = <<>>]
<1>1. w \in Running /\ \E step : At(w, step)
  BY DEF Serve, Load, Look, Write, Judge, Credit, Withdraw, Override, DeleteRow,
     Restore, Uncredit, Insert, At, Running
<1>2. /\ t \in Work /\ r \in Request /\ r.slot \in Slots
      /\ next.request = r /\ Advances(t, next)
      /\ stop.request = r /\ stop.todo = <<>>
  BY <1>1, AtWork DEF Work, Request, Advances
<1>3. /\ Exam \in Exams /\ db \in Database
      /\ db.att[Exam] \in [Slots -> Attempt]
  BY ExamIsProctored DEF RaceInv, RaceTypeOK, TypeOK, Database
<1>4. \A from, row : /\ Holding(t, from, row).request = r
                     /\ Holding(t, from, row).todo = Tail(t.todo)
                     /\ Holding(t, from, row).from = from
                     /\ Holding(t, from, row).row = row
  BY <1>2 DEF Holding, Work
<1>5. ASSUME NEW t1, Continue(w, t1), t1.request = r, Does(t, db, t1, db')
      PROVE  \E u : /\ Continue(w, u) /\ u.request = r
                    /\ Does(t, db, u, db') /\ w \in Running
  BY <1>1, <1>5
<1>6. ASSUME NEW row, db' = [db EXCEPT !.att[Exam][r.slot] = row]
      PROVE  OnlyRow(db, db', r, row)
  BY <1>2, <1>3, <1>6 DEF OnlyRow, Elsewhere, LmsAs, RowOf, Database
<1>7. ASSUME NEW c, db' = [db EXCEPT !.credit[Exam] = c]
      PROVE  /\ OnlyLms(db, db') /\ db'.override[Exam] = db.override[Exam]
             /\ db'.credit[Exam] = c
  BY <1>3, <1>7 DEF OnlyLms, Database
<1>8. ASSUME NEW o, db' = [db EXCEPT !.override[Exam] = o]
      PROVE  /\ OnlyLms(db, db') /\ db'.credit[Exam] = db.credit[Exam]
             /\ db'.override[Exam] = o
  BY <1>3, <1>8 DEF OnlyLms, Database
<1>9. GoOn(w) => Continue(w, next)
  BY DEF GoOn
<1>10. GiveUp(w) => Continue(w, stop)
  BY DEF GiveUp
<1>11. Row(w) = RowOf(db, r)
  BY DEF Row, Rows, RowOf
<1> HIDE DEF t, r, next, stop
<1>12. CASE Load(w)
  <2> DEFINE a == RowOf(db, r)
             task == Holding(t, a.status, Copy(a, r))
  <2>1. Head(t.todo) = "load" /\ db' = db
    BY <1>12 DEF Load, At, t
  <2>2. CASE a.row # "live" \/ Refuses(a, r)
    <3>1. Continue(w, stop)
      BY <1>10, <1>11, <1>12, <2>2 DEF Load, r, t
    <3>2. Does(t, db, stop, db')
      BY <1>2, <2>1, <2>2 DEF Does, DoesLoad, r
    <3> QED BY <1>2, <1>5, <3>1, <3>2 DEF t, r
  <2>3. CASE ~ (a.row # "live" \/ Refuses(a, r))
    <3>1. Continue(w, task)
      BY <1>11, <1>12, <2>3 DEF Load, r, t
    <3>2. Does(t, db, task, db')
      BY <1>4, <2>1, <2>3 DEF Does, DoesLoad, r
    <3>3. task.request = r
      BY <1>4
    <3> HIDE DEF task
    <3> QED BY <1>5, <3>1, <3>2, <3>3 DEF t, r
  <2> QED BY <2>2, <2>3
<1>13. CASE Look(w)
  <2>1. Head(t.todo) = "look" /\ db' = db
    BY <1>13 DEF Look, At, t
  <2>2. CASE RowOf(db, r).row = "live"
    <3>1. Continue(w, next)
      BY <1>9, <1>11, <1>13, <2>2 DEF Look
    <3>2. Does(t, db, next, db')
      BY <1>2, <2>1, <2>2 DEF Does, DoesLook, r
    <3> QED BY <1>2, <1>5, <3>1, <3>2 DEF t, r
  <2>3. CASE RowOf(db, r).row # "live"
    <3>1. Continue(w, stop)
      BY <1>10, <1>11, <1>13, <2>3 DEF Look
    <3>2. Does(t, db, stop, db')
      BY <1>2, <2>1, <2>3 DEF Does, DoesLook, r
    <3> QED BY <1>2, <1>5, <3>1, <3>2 DEF t, r
  <2> QED BY <2>2, <2>3
<1>14. CASE Judge(w)
  <2>1. Head(t.todo) = "judge" /\ db' = db
    BY <1>14 DEF Judge, At, t
  <2>2. CASE CanUpdateCreditGradesAndEmail(db, Exam, t.row.status)
    <3>1. Continue(w, next)
      BY <1>9, <1>14, <2>2 DEF Judge, t
    <3>2. Does(t, db, next, db')
      BY <1>2, <2>1, <2>2 DEF Does, DoesJudge
    <3> QED BY <1>2, <1>5, <3>1, <3>2 DEF t, r
  <2>3. CASE ~ CanUpdateCreditGradesAndEmail(db, Exam, t.row.status)
    <3>1. Continue(w, stop)
      BY <1>10, <1>14, <2>3 DEF Judge, t
    <3>2. Does(t, db, stop, db')
      BY <1>2, <2>1, <2>3 DEF Does, DoesJudge
    <3> QED BY <1>2, <1>5, <3>1, <3>2 DEF t, r
  <2> QED BY <2>2, <2>3
<1>15. CASE Write(w)
  <2>1. /\ Head(t.todo) = "write" /\ Continue(w, next)
        /\ db' = [db EXCEPT !.att[Exam][r.slot] = t.row]
    BY <1>9, <1>15 DEF Write, At, t, r
  <2>2. OnlyRow(db, db', r, t.row)
    BY <1>6, <2>1
  <2>3. Does(t, db, next, db')
    BY <1>2, <2>1, <2>2 DEF Does, r
  <2> QED BY <1>2, <1>5, <2>1, <2>3 DEF t, r
<1>16. CASE DeleteRow(w)
  <2>1. /\ Head(t.todo) = "delete" /\ Continue(w, next)
        /\ db' = [db EXCEPT !.att[Exam][r.slot] = Archived]
    BY <1>9, <1>16 DEF DeleteRow, At, t, r
  <2>2. OnlyRow(db, db', r, Archived)
    BY <1>6, <2>1
  <2>3. Does(t, db, next, db')
    BY <1>2, <2>1, <2>2 DEF Does, r
  <2> QED BY <1>2, <1>5, <2>1, <2>3 DEF t, r
<1>17. CASE Credit(w)
  <2> DEFINE status == t.row.status
  <2>1. /\ Head(t.todo) = "credit" /\ Continue(w, next)
        /\ db' = IF status \in NeedsCreditUpdate
                 THEN [db EXCEPT !.credit[Exam] = CreditFor(status)] ELSE db
    BY <1>9, <1>17 DEF Credit, At, t
  <2> HIDE DEF status
  <2>2. CASE status \in NeedsCreditUpdate
    <3>1. db' = [db EXCEPT !.credit[Exam] = CreditFor(status)]
      BY <2>1, <2>2
    <3>2. /\ OnlyLms(db, db') /\ db'.override[Exam] = db.override[Exam]
          /\ db'.credit[Exam] = CreditFor(status)
      BY <1>7, <3>1
    <3>3. Does(t, db, next, db')
      BY <1>2, <2>1, <2>2, <3>2 DEF Does, DoesCredit, status
    <3> QED BY <1>2, <1>5, <2>1, <3>3 DEF t, r
  <2>3. CASE status \notin NeedsCreditUpdate
    <3>1. Does(t, db, next, db')
      BY <1>2, <2>1, <2>3 DEF Does, DoesCredit, OnlyLms, status
    <3> QED BY <1>2, <1>5, <2>1, <3>1 DEF t, r
  <2> QED BY <2>2, <2>3
<1>18. CASE Uncredit(w)
  <2>1. /\ Head(t.todo) = "uncredit" /\ Continue(w, next)
        /\ db' = IF t.from \in NeedsCreditUpdate
                 THEN [db EXCEPT !.credit[Exam] = "none"] ELSE db
    BY <1>9, <1>18 DEF Uncredit, At, t
  <2>2. CASE t.from \in NeedsCreditUpdate
    <3>1. db' = [db EXCEPT !.credit[Exam] = "none"]
      BY <2>1, <2>2
    <3>2. /\ OnlyLms(db, db') /\ db'.override[Exam] = db.override[Exam]
          /\ db'.credit[Exam] = "none"
      BY <1>7, <3>1
    <3>3. Does(t, db, next, db')
      BY <1>2, <2>1, <2>2, <3>2 DEF Does, DoesUncredit
    <3> QED BY <1>2, <1>5, <2>1, <3>3 DEF t, r
  <2>3. CASE t.from \notin NeedsCreditUpdate
    <3>1. Does(t, db, next, db')
      BY <1>2, <2>1, <2>3 DEF Does, DoesUncredit, OnlyLms
    <3> QED BY <1>2, <1>5, <2>1, <3>1 DEF t, r
  <2> QED BY <2>2, <2>3
<1>19. CASE Withdraw(w)
  <2> DEFINE task == Holding(t, t.from, Cut(t.row))
  <2>1. Head(t.todo) = "withdraw" /\ db' = db /\ Continue(w, task)
    BY <1>19 DEF Withdraw, At, Cut, t
  <2>2. Does(t, db, task, db') /\ task.request = r
    BY <1>4, <2>1 DEF Does, DoesWithdraw
  <2> HIDE DEF task
  <2> QED BY <1>5, <2>1, <2>2 DEF t, r
<1>20. CASE Override(w)
  <2> DEFINE sets == OverrideOnReject /\ t.row.status \in NeedsGradeOverride
             ends == /\ OverrideOnReject /\ t.row.status = "verified"
                     /\ t.from \in NeedsGradeOverride
  <2>1. /\ Head(t.todo) = "override" /\ Continue(w, next)
        /\ db' = IF sets THEN [db EXCEPT !.override[Exam] = TRUE]
                 ELSE IF ends THEN [db EXCEPT !.override[Exam] = FALSE] ELSE db
    BY <1>9, <1>20 DEF Override, At, t
  <2> HIDE DEF sets, ends
  <2>2. /\ OnlyLms(db, db') /\ db'.credit[Exam] = db.credit[Exam]
        /\ db'.override[Exam] =
             IF sets THEN TRUE ELSE IF ends THEN FALSE ELSE db.override[Exam]
    <3>1. CASE sets
      BY <1>8, <2>1, <3>1
    <3>2. CASE ~ sets /\ ends
      BY <1>8, <2>1, <3>2
    <3>3. CASE ~ sets /\ ~ ends
      BY <2>1, <3>3 DEF OnlyLms
    <3> QED BY <3>1, <3>2, <3>3
  <2>3. DoesOverride(t, db, next, db')
    BY <1>2, <2>2 DEF DoesOverride, sets, ends
  <2>4. Does(t, db, next, db')
    BY <2>1, <2>3 DEF Does
  <2> QED BY <1>2, <1>5, <2>1, <2>4 DEF t, r
<1>21. CASE Restore(w)
  <2>1. /\ Head(t.todo) = "restore" /\ Continue(w, next)
        /\ db' = [db EXCEPT !.override[Exam] = FALSE]
    BY <1>9, <1>21 DEF Restore, At, t
  <2>2. /\ OnlyLms(db, db') /\ db'.credit[Exam] = db.credit[Exam]
        /\ db'.override[Exam] = FALSE
    BY <1>8, <2>1
  <2>3. Does(t, db, next, db')
    BY <1>2, <2>1, <2>2 DEF Does, DoesRestore
  <2> QED BY <1>2, <1>5, <2>1, <2>3 DEF t, r
<1>22. ASSUME NEW outcome \in Outcomes(Exam, TRUE), Insert(w, outcome)
       PROVE  \E u : /\ Continue(w, u) /\ u.request = r
                     /\ Does(t, db, u, db') /\ w \in Running
  <2>1. /\ Head(t.todo) = "insert" /\ Continue(w, next)
        /\ db' = IF outcome = "refused" THEN db ELSE NewAttempt(db, Exam, outcome, TRUE)
    BY <1>9, <1>22 DEF Insert, At, t
  <2>2. Does(t, db, next, db')
    BY <1>2, <2>1 DEF Does, DoesInsert
  <2> QED BY <1>2, <1>5, <2>1, <2>2
<1> QED
  BY <1>12, <1>13, <1>14, <1>15, <1>16, <1>17, <1>18, <1>19, <1>20, <1>21, <1>22
  DEF Serve, t, r

(* Only a request that the pages or the staff tools offer is asked for.    *)
LEMMA AskedFor ==
  ASSUME RaceInv, NEW w \in Workers, Ask(w)
  PROVE  \E r \in Request : Begin(w, r) /\ Asked(db, r)
<1>1. /\ {"update", "acknowledge", "release", "remove", "resume", "create"}
           \subseteq Operation
      /\ "created" \in ValidStatus /\ "timed_out" \in ValidStatus /\ 1 \in Slots
  BY ConstantsAssumption
  DEF Operation, ValidStatus, Completed, Incomplete, PreStarted, Slots
<1>2. ASSUME NEW i \in Slots, NEW op \in Operation, NEW to \in ValidStatus,
             Begin(w, [op |-> op, slot |-> i, to |-> to]),
             op # "create" => i \in Live(db, Exam),
             op = "create" => ~ HasAttempt(db, Exam),
             op = "update" => (to = "timed_out" <=> Overdue(Rows[i])),
             op = "update" /\ to = "started" => i = Latest(db, Exam),
             op = "resume" => /\ i = Latest(db, Exam)
                              /\ InResumeProcess(Rows[i]) /\ ~ Overdue(Rows[i])
      PROVE  \E r \in Request : Begin(w, r) /\ Asked(db, r)
  <2> DEFINE r == [op |-> op, slot |-> i, to |-> to]
  <2>1. r \in Request /\ r.op = op /\ r.slot = i /\ r.to = to
    BY DEF Request
  <2>2. Begin(w, r)
    BY <1>2
  <2> HIDE DEF r
  <2>3. Asked(db, r)
    BY <1>2, <2>1 DEF Asked, RowOf, Rows
  <2> QED BY <2>1, <2>2, <2>3
<1>3. ASSUME NEW i \in Slots, NEW to \in Racing, AskUpdate(w, i, to)
      PROVE  \E r \in Request : Begin(w, r) /\ Asked(db, r)
  <2>1. to \in ValidStatus /\ to # "timed_out"
    BY RaceAssumption
  <2> QED BY <1>1, <1>2, <1>3, <2>1 DEF AskUpdate
<1>4. ASSUME NEW i \in Slots, AskTimeout(w, i)
      PROVE  \E r \in Request : Begin(w, r) /\ Asked(db, r)
  BY <1>1, <1>2, <1>4 DEF AskTimeout
<1>5. ASSUME NEW i \in Slots, NEW op \in {"acknowledge", "release", "remove"},
             AskOther(w, i, op)
      PROVE  \E r \in Request : Begin(w, r) /\ Asked(db, r)
  BY <1>1, <1>2, <1>5 DEF AskOther
<1>6. CASE AskCreate(w)
  <2>1. CASE HasAttempt(db, Exam)
    <3> DEFINE i == Latest(db, Exam)
    <3>1. MayCreate(db, Exam) /\ AskOther(w, i, "resume")
      BY <1>6, <2>1 DEF AskCreate
    <3>2. i \in Slots /\ i \in Live(db, Exam) /\ ~ Overdue(Rows[i])
      BY <3>1 DEF AskOther, Live
    <3>3. InResumeProcess(Rows[i])
      BY <2>1, <3>1, ExamIsProctored DEF MayCreate, Rows
    <3>4. Begin(w, [op |-> "resume", slot |-> i, to |-> "created"])
      BY <3>1 DEF AskOther
    <3> HIDE DEF i
    <3> QED BY <1>1, <1>2, <3>2, <3>3, <3>4 DEF i
  <2>2. CASE ~ HasAttempt(db, Exam)
    <3>1. Begin(w, [op |-> "create", slot |-> 1, to |-> "created"])
      BY <1>6, <2>2 DEF AskCreate
    <3> QED BY <1>1, <1>2, <2>2, <3>1
  <2> QED BY <2>1, <2>2
<1> QED
  BY <1>3, <1>4, <1>5, <1>6 DEF Ask

(* A request that begins is the first of its kind, or one more of them, or *)
(* nothing is claimed from then on.                                        *)
LEMMA BeginRepeat ==
  ASSUME RaceInv, RepeatInv, NEW w \in Workers, NEW r0 \in Request,
         Asked(db, r0), Begin(w, r0)
  PROVE  RepeatInv' /\ w \in Running'
<1> DEFINE task == [Idle EXCEPT !.request = r0, !.todo = Steps(r0)]
<1>1. /\ work \in [Workers -> Work] /\ work[w] = Idle /\ Idle.todo = <<>>
      /\ work' = [work EXCEPT ![w] = task] /\ db' = db
      /\ since \in [requests : SUBSET Request, db : Database]
  BY IdleIsWork DEF RaceInv, RaceTypeOK, Begin
<1>2. task.request = r0 /\ task.todo = Steps(r0) /\ Steps(r0) # <<>>
  BY StepsNotEmpty DEF Idle
<1> HIDE DEF task
<1>3. \A v \in Workers : work'[v] = IF v = w THEN task ELSE work[v]
  BY <1>1
<1>4. Running' = Running \cup {w} /\ w \notin Running
  BY <1>1, <1>2, <1>3 DEF Running
<1>5. Tasks' = Tasks \cup {task}
  <2>1. Tasks' = {work'[v] : v \in Running'}
    BY DEF Tasks
  <2> QED BY <1>3, <1>4, <2>1 DEF Tasks, Running
<1>6. Sound(db)
  BY DEF RaceInv, CopiesSound, RowsSound
<1>7. ASSUME NEW r \in since'.requests, since'.requests = {r}
      PROVE  Repeats(since.db, r)'
  <2>1. CASE Running = {}
    <3>1. since' = [requests |-> {r0}, db |-> db]
      BY <2>1, Zenon DEF Begin
    <3>2. since'.db = db /\ r = r0
      BY <1>7, <3>1
    <3>3. Tasks' = {task} /\ Running' = {w}
      BY <1>4, <1>5, <2>1 DEF Tasks
    <3>4. Progress(db, {task}, db, r0)
      BY <1>2, FirstOne
    <3>5. Progress(db', Tasks', since'.db, r)
      BY <1>1, <3>2, <3>3, <3>4
    <3> QED BY <1>2, <1>6, <3>2, <3>3, <3>5 DEF Repeats
  <2>2. CASE Running # {}
    <3>1. /\ since' = [since EXCEPT !.requests = @ \cup {r0}]
          /\ since.requests # {} /\ Comparable(since.requests \cup {r0})
      BY <1>7, <2>2 DEF Begin, NoneYet
    <3>2. since'.requests = since.requests \cup {r0} /\ since'.db = since.db
      BY <1>1, <3>1
    <3>3. r = r0 /\ since.requests = {r}
      BY <1>7, <3>1, <3>2
    <3>4. Comparable({r})
      BY <3>1, <3>3
    <3>5. r.op \notin {"resume", "create"}
      BY <3>4 DEF Comparable, Verifies
    <3>6. Repeats(since.db, r)
      BY <3>3 DEF RepeatInv
    <3>7. Progress(db, Tasks', since.db, r)
      <4>1. Progress(db, Tasks, since.db, r) /\ r \in Request
        BY <3>3, <3>6 DEF Repeats
      <4> QED BY <1>2, <1>5, <3>3, <3>5, <4>1, OneMore
    <3>8. Progress(db', Tasks', since'.db, r)
      BY <1>1, <3>2, <3>7
    <3>9. \A t \in Tasks' : t.request = r
      BY <1>2, <1>5, <3>3, <3>6 DEF Repeats
    <3>10. Sound(since'.db) /\ Asked(since'.db, r)
      BY <3>2, <3>6 DEF Repeats
    <3> QED BY <3>5, <3>8, <3>9, <3>10 DEF Repeats
  <2> QED BY <2>1, <2>2
<1> QED
  BY <1>4, <1>7 DEF RepeatInv

(* A step of a worker brings the request it repeats forward; when it was   *)
(* the last one at work, none of the request is left to do.                *)
LEMMA ServeRepeat ==
  ASSUME RaceInv, RepeatInv, NEW w \in Workers, Serve(w)
  PROVE  /\ RepeatInv'
         /\ FallsQuiet => \A r \in since.requests :
              since.requests = {r} => Progress(db', {}, since.db, r)
<1>1. PICK t1 : /\ Continue(w, t1) /\ t1.request = work[w].request
                /\ Does(work[w], db, t1, db') /\ w \in Running
  BY ServeDoes
<1>2. /\ work \in [Workers -> Work] /\ db \in Database /\ Idle.todo = <<>>
      /\ since \in [requests : SUBSET Request, db : Database]
  BY IdleIsWork DEF RaceInv, RaceTypeOK, TypeOK
<1>3. db' \in Database
  BY ServeInv DEF RaceInv, RaceTypeOK, TypeOK
<1>4. /\ work' = [work EXCEPT ![w] = IF t1.todo = <<>> THEN Idle ELSE t1]
      /\ since' \in {since, NoneYet}
  BY <1>1 DEF Continue
<1>5. \A v \in Workers :
        work'[v] = IF v = w THEN IF t1.todo = <<>> THEN Idle ELSE t1 ELSE work[v]
  BY <1>2, <1>4
<1>6. Running' = IF t1.todo = <<>> THEN Running \ {w} ELSE Running
  BY <1>1, <1>2, <1>5 DEF Running
<1>7. Tasks' = {work'[v] : v \in Running'}
  BY DEF Tasks
<1>8. Proceeds(db, Tasks, work[w], db', Tasks', t1)
  <2>1. work[w] \in Tasks
    BY <1>1 DEF Tasks
  <2>2. \A u \in Tasks' : u \in Tasks \/ (u = t1 /\ t1.todo # <<>>)
    BY <1>5, <1>6, <1>7 DEF Tasks, Running
  <2>3. \A u \in Tasks : u \in Tasks' \/ u = work[w]
    BY <1>5, <1>6, <1>7 DEF Tasks, Running
  <2>4. t1.todo # <<>> => t1 \in Tasks'
    BY <1>1, <1>5, <1>6, <1>7 DEF Running
  <2> QED BY <1>1, <1>2, <1>3, <2>1, <2>2, <2>3, <2>4 DEF Proceeds
<1>9. ASSUME NEW r \in since.requests, since.requests = {r}
      PROVE  /\ Progress(db', Tasks', since.db, r)
             /\ \A t \in Tasks' : t.request = r
             /\ r.op \in {"resume", "create"} => \A v, u \in Running' : v = u
             /\ Sound(since.db) /\ Asked(since.db, r)
  <2>1. /\ Repeats(since.db, r) /\ r \in Request
    BY <1>2, <1>9 DEF RepeatInv
  <2>2. work[w].request = r
    BY <1>8, <2>1 DEF Repeats, Proceeds
  <2>3. \A t \in Tasks' : t.request = r
    BY <1>1, <1>8, <2>1, <2>2 DEF Repeats, Proceeds
  <2>4. r.op \in {"resume", "create"} => \A v, u \in Running' : v = u
    BY <1>6, <2>1 DEF Repeats
  <2>5. r.op \in {"resume", "create"} => Tasks' \subseteq {t1}
    BY <1>1, <1>5, <1>6, <1>7, <2>1 DEF Repeats, Running
  <2>6. Sound(since.db) /\ Asked(since.db, r) /\ Progress(db, Tasks, since.db, r)
    BY <2>1 DEF Repeats
  <2>7. Progress(db', Tasks', since.db, r)
    BY <1>8, <2>1, <2>2, <2>5, <2>6, ProgressStep
  <2> QED BY <2>3, <2>4, <2>6, <2>7
<1>10. RepeatInv'
  <2>1. CASE since' = since
    BY <1>9, <2>1 DEF RepeatInv, Repeats
  <2>2. CASE since' = NoneYet
    BY <2>2 DEF RepeatInv, NoneYet
  <2> QED BY <1>4, <2>1, <2>2
<1>11. ASSUME FallsQuiet
       PROVE  \A r \in since.requests :
                since.requests = {r} => Progress(db', {}, since.db, r)
  <2>1. Tasks' = {}
    BY <1>7, <1>11 DEF FallsQuiet
  <2> QED BY <1>9, <2>1
<1> QED
  BY <1>10, <1>11

(* No exam is declined along with the one there is, and no onboarding exam *)
(* clears any errors.                                                      *)
LEMMA NoOtherExam ==
  ASSUME NEW x \in Database, NEW to
  PROVE  Cascade(x, Exam) = x /\ ClearOnboardingErrors(x, Exam, to) = x
<1>1. /\ x.att \in [Exams -> [Slots -> Attempt]]
      /\ x.credit \in [Exams -> CreditStatus \cup {"none"}]
      /\ x.override \in [Exams -> BOOLEAN]
      /\ x = [att |-> x.att, credit |-> x.credit, override |-> x.override]
  BY DEF Database
<1>2. OtherProctored(Exam) = {}
  BY RaceAssumption DEF OtherProctored
<1>3. /\ [f \in Exams |-> x.att[f]] = x.att
      /\ [f \in Exams |-> x.credit[f]] = x.credit
      /\ [f \in Exams |-> x.override[f]] = x.override
  BY <1>1
<1>4. Cascade(x, Exam) =
        [att |-> [f \in Exams |-> x.att[f]], credit |-> [f \in Exams |-> x.credit[f]],
         override |-> [f \in Exams |-> x.override[f]]]
  BY <1>2 DEF Cascade
<1>5. ClearOnboardingErrors(x, Exam, to) = x
  BY ExamIsProctored DEF ClearOnboardingErrors
<1> QED
  BY <1>1, <1>3, <1>4, <1>5

(* An update that is not refused, alone: what it leaves of the rows; but   *)
(* for a time-out, it leaves no attempt that is out of time.               *)
LEMMA ToldIs ==
  ASSUME NEW D, Sound(D), NEW r \in Request, r.op = "update", Asked(D, r),
         ~ Refuses(RowOf(D, r), r)
  PROVE  /\ Sound(Told(D, r)) /\ r.slot \in Slots /\ Kept(D, r) \in Attempt
         /\ \A j \in Slots :
              Told(D, r).att[Exam][j] =
                IF j = r.slot THEN Kept(D, r) ELSE D.att[Exam][j]
         /\ Kept(D, r).status =
              EffectiveStatus(RowOf(D, r).status, r.to, AllowTimedOut)
         /\ r.to # "timed_out" => ~ Overdue(Kept(D, r))
<1> DEFINE F == RowOf(D, r)
           K == Kept(D, r)
           s == r.to = "timed_out"
           status == EffectiveStatus(F.status, r.to, AllowTimedOut)
<1>1. F \in Attempt /\ RowSound(Exam, F) /\ r.slot \in Slots /\ r.to \in ValidStatus
  BY FoundLive DEF Request
<1>2. K = Saved(F, r.to, s, FALSE) /\ s \in BOOLEAN
  BY DEF Kept, Copy
<1>3. IsLegal(F.status, status)
  BY DEF Refuses
<1>4. \A x \in BOOLEAN : RowSound(Exam, Saved(F, r.to, x, FALSE))
  BY <1>1, <1>3, SavedSound, ValidCanHave, ExamIsProctored
<1> HIDE DEF s
<1>5. RowSound(Exam, K) /\ AsSaved(F, r.to, s, K)
  BY <1>1, <1>2, <1>4, SavedFields
<1>6. WithKept(D, r) = WithRow(D, Exam, r.slot, K)
  BY DEF WithKept, WithRow
<1> HIDE DEF K
<1>7. /\ Sound(WithKept(D, r))
      /\ \A j \in Slots : WithKept(D, r).att[Exam][j] =
                            IF j = r.slot THEN K ELSE D.att[Exam][j]
  BY <1>5, <1>6, WriteRowSound, ExamIsProctored
<1>8. Sound(Told(D, r)) /\ Told(D, r).att = WithKept(D, r).att
  BY <1>7, SettledSound, ExamIsProctored DEF Told
<1>9. K \in Attempt /\ K.status = status
  BY <1>5 DEF AsSaved
<1>10. ASSUME r.to # "timed_out" PROVE ~ Overdue(K)
  <2>1. ~ Overdue(F)
    BY <1>10 DEF Asked
  <2>2. K.started = (F.started \/ status = "started")
    BY <1>5, Zenon DEF AsSaved
  <2>3. K.expired = (F.expired /\ (status = "started" => F.started))
    BY <1>5, Zenon DEF AsSaved
  <2>4. F.status \in ValidStatus
    BY <1>1, ExamIsProctored DEF RowSound
  <2>5. status \in Incomplete => F.status \in Incomplete
    BY <1>3, <2>4 DEF IsLegal, ValidStatus
  <2>6. ~ (K.started /\ K.expired /\ K.status \in Incomplete)
    BY <1>9, <2>1, <2>2, <2>3, <2>5, Zenon DEF Overdue
  <2> QED BY <2>6 DEF Overdue
<1> QED
  BY <1>1, <1>7, <1>8, <1>9, <1>10 DEF K

(* What an update that runs alone leaves.                                  *)
LEMMA UpdateAlone ==
  ASSUME NEW D, Sound(D), NEW r \in Request, r.op = "update", Asked(D, r),
         ~ Refuses(RowOf(D, r), r), r.to # "timed_out"
  PROVE  Update(D, Exam, r.slot, r.to, FALSE) =
           IF r.to = "declined" THEN Withdrawn(Told(D, r), Exam, r.slot)
           ELSE Told(D, r)
<1> DEFINE F == RowOf(D, r)
           T == Told(D, r)
           X == Withdrawn(T, Exam, r.slot)
           from == F.status
           new == EffectiveStatus(from, r.to, AllowTimedOut)
           d0 == IF new = "started" /\ ~ F.started THEN AllowedTimeRead(D, Exam) ELSE D
           d1 == SaveStatus(d0, Exam, r.slot, r.to, FALSE, FALSE)
           d2 == IF /\ new \in CascadableFailure
                    /\ CanUpdateCreditGradesAndEmail(d1, Exam, new)
                 THEN Cascade(Withdrawn(d1, Exam, r.slot), Exam)
                 ELSE d1
<1>1. Update(D, Exam, r.slot, r.to, FALSE) =
        IF IsLegal(from, new) THEN ClearOnboardingErrors(Read(d2, Exam, r.slot), Exam, new)
        ELSE D
  BY DEF Update, RowOf
<1>2. IsLegal(from, new)
  BY DEF Refuses
<1>3. d0 = D
  <2>1. new = "started" => r.to = "started"
    BY DEF EffectiveStatus
  <2>2. r.to = "started" => Read(D, Exam, Latest(D, Exam)) = D
    BY DEF Asked, Read, RowOf
  <2> QED BY <2>1, <2>2 DEF AllowedTimeRead
<1>4. SaveStatus(D, Exam, r.slot, r.to, FALSE, FALSE) = T
  <2>1. Kept(D, r) = Saved(F, r.to, FALSE, FALSE)
    <3>1. (r.to = "timed_out") = FALSE
      OBVIOUS
    <3> QED BY <3>1 DEF Kept, Copy
  <2> QED BY <2>1 DEF SaveStatus, Told, WithKept, RowOf
<1>5. /\ Sound(T) /\ T \in Database /\ r.slot \in Slots
      /\ T.att[Exam][r.slot] = Kept(D, r) /\ Kept(D, r) \in Attempt
      /\ Kept(D, r).status = new /\ ~ Overdue(Kept(D, r))
  BY ToldIs DEF Sound
<1>6. Read(T, Exam, r.slot) = T
  BY <1>5 DEF Read
<1>7. d1 = T
  BY <1>3, <1>4
<1>8. CASE r.to = "declined"
  <2>1. new = "declined"
    BY <1>8 DEF EffectiveStatus, IsReattempting, PreStarted
  <2>2. d2 = Cascade(X, Exam)
    BY <1>7, <2>1 DEF CascadableFailure, CanUpdateCreditGradesAndEmail
  <2>3. X = WithRow(T, Exam, r.slot, Cut(Kept(D, r)))
    BY <1>5 DEF Withdrawn, WithRow, Cut
  <2>4. RowSound(Exam, Cut(Kept(D, r))) /\ Cut(Kept(D, r)).status = "declined"
    <3>1. RowSound(Exam, Kept(D, r))
      BY <1>5, ExamIsProctored DEF Sound
    <3> QED BY <1>5, <2>1, <3>1 DEF RowSound, Cut, Attempt, InResumeProcess
  <2>5. X \in Database /\ X.att[Exam][r.slot] = Cut(Kept(D, r))
    BY <1>5, <2>3, <2>4, WriteRowSound, ExamIsProctored DEF Sound
  <2>6. Read(X, Exam, r.slot) = X
    BY <2>4, <2>5 DEF Read, Overdue, Incomplete, PreStarted, InProgress
  <2> HIDE DEF d2, X
  <2>7. ClearOnboardingErrors(Read(d2, Exam, r.slot), Exam, new) = X
    BY <2>2, <2>5, <2>6, NoOtherExam
  <2> QED BY <1>1, <1>2, <1>8, <2>7 DEF X, d2
<1>9. CASE r.to # "declined"
  <2>1. new # "declined"
    BY <1>9 DEF EffectiveStatus
  <2>2. d2 = T
    BY <1>7, <2>1 DEF CascadableFailure
  <2> HIDE DEF d2, T
  <2>3. ClearOnboardingErrors(Read(d2, Exam, r.slot), Exam, new) = T
    BY <1>5, <1>6, <2>2, NoOtherExam
  <2> QED BY <1>1, <1>2, <1>9, <2>3 DEF d2, T
<1> QED
  BY <1>8, <1>9

(* An update that falls quiet has done what it does alone, once.           *)
LEMMA UpdateEffects ==
  ASSUME NEW D, Sound(D), NEW r \in Request, r.op = "update", Asked(D, r),
         NEW d \in Database, Progress(d, {}, D, r)
  PROVE  d \in Effects(D, r)
<1> DEFINE F == RowOf(D, r)
           K == Kept(D, r)
           T == Told(D, r)
           alone == IF r.to = "timed_out" THEN Read(D, Exam, r.slot)
                    ELSE Update(D, Exam, r.slot, r.to, FALSE)
<1>1. Effects(D, r) = {alone}
  BY DEF Effects
<1>2. CASE Refuses(F, r)
  <2>1. d = D
    BY <1>2 DEF Progress, RefusedInv
  <2>2. ~ IsLegal(F.status, EffectiveStatus(F.status, r.to, AllowTimedOut))
    BY <1>2 DEF Refuses
  <2>3. r.to # "timed_out"
    BY <2>2 DEF IsLegal, EffectiveStatus, Incomplete, PreStarted, InProgress
  <2>4. alone = D
    BY <2>2, <2>3 DEF Update, RowOf
  <2> QED BY <1>1, <2>1, <2>4
<1>3. CASE ~ Refuses(F, r)
  <2>1. /\ T \in Database /\ r.slot \in Slots /\ K \in Attempt
        /\ \A j \in Slots :
             T.att[Exam][j] = IF j = r.slot THEN K ELSE D.att[Exam][j]
        /\ K.status = EffectiveStatus(F.status, r.to, AllowTimedOut)
    BY <1>3, ToldIs DEF Sound
  <2>2. CASE r.to = "declined"
    <3> DEFINE X == Withdrawn(T, Exam, r.slot)
    <3>1. alone = X
      BY <1>3, <2>2, UpdateAlone
    <3>2. K.status = "declined"
      BY <2>1, <2>2 DEF EffectiveStatus, IsReattempting, PreStarted
    <3>3. /\ Elsewhere(d, D, r) /\ d.override[Exam] = D.override[Exam]
          /\ RowOf(d, r) = Cut(K) /\ d.credit[Exam] = "declined"
      BY <2>2 DEF Progress, DeclineInv
    <3>4. T.credit[Exam] = "declined" /\ T.override[Exam] = D.override[Exam]
      <4>1. CanUpdateCreditGradesAndEmail(WithKept(D, r), Exam, K.status)
        BY <3>2 DEF CanUpdateCreditGradesAndEmail
      <4>2. /\ T.credit[Exam] = IF K.status \in NeedsCreditUpdate
                                THEN CreditFor(K.status) ELSE D.credit[Exam]
            /\ T.override[Exam] =
                 IF ~ OverrideOnReject THEN D.override[Exam]
                 ELSE \/ K.status \in NeedsGradeOverride
                      \/ /\ D.override[Exam]
                         /\ ~ /\ K.status = "verified"
                              /\ F.status \in NeedsGradeOverride
        BY <4>1, ToldLms
      <4>3. D.override[Exam] \in BOOLEAN
        BY ExamIsProctored DEF Sound, Database
      <4>4. /\ K.status \in NeedsCreditUpdate /\ CreditFor(K.status) = "declined"
            /\ K.status \notin NeedsGradeOverride /\ K.status # "verified"
        BY <3>2 DEF NeedsCreditUpdate, CreditFor, NeedsGradeOverride
      <4> HIDE DEF T, K, F
      <4>5. T.credit[Exam] = "declined"
        BY <4>2, <4>4
      <4>6. T.override[Exam] = D.override[Exam]
        BY <4>2, <4>3, <4>4
      <4> QED BY <4>5, <4>6
    <3>5. X \in Database /\ LmsAs(X, T)
          /\ \A j \in Slots : X.att[Exam][j] = IF j = r.slot THEN Cut(K) ELSE T.att[Exam][j]
      <4> DEFINE att == [T.att EXCEPT ![Exam] = [T.att[Exam] EXCEPT ![r.slot] = Cut(K)]]
      <4>1. Cut(K) \in Attempt
        BY <2>1 DEF Cut, Attempt
      <4>2. /\ T.att[Exam][r.slot] = K /\ T.att \in [Exams -> [Slots -> Attempt]]
            /\ X = [T EXCEPT !.att = att]
        BY <2>1 DEF Withdrawn, Cut, Database
      <4> HIDE DEF X, T, K
      <4>3. /\ att \in [Exams -> [Slots -> Attempt]]
            /\ \A j \in Slots : att[Exam][j] = IF j = r.slot THEN Cut(K) ELSE T.att[Exam][j]
        BY <4>1, <4>2, ExamIsProctored
      <4> HIDE DEF att
      <4>4. /\ X \in Database /\ X.att = att
            /\ X.credit = T.credit /\ X.override = T.override
        BY <2>1, <4>2, <4>3 DEF Database
      <4> QED BY <4>3, <4>4 DEF LmsAs
    <3> HIDE DEF X, T, K
    <3>6. \A j \in Slots : d.att[Exam][j] = X.att[Exam][j]
      BY <2>1, <3>3, <3>5 DEF Elsewhere, RowOf
    <3>7. LmsAs(d, X)
      BY <3>3, <3>4, <3>5 DEF LmsAs
    <3>8. d = X
      BY <3>5, <3>6, <3>7, SameDatabase
    <3> QED BY <1>1, <3>1, <3>8 DEF X
  <2>3. CASE r.to # "declined"
    <3>1. Elsewhere(d, D, r) /\ RowOf(d, r) = K /\ LmsAs(d, T)
      BY <1>3, <2>3 DEF Progress, UpdateInv
    <3>2. \A j \in Slots : d.att[Exam][j] = T.att[Exam][j]
      BY <2>1, <3>1 DEF Elsewhere, RowOf
    <3>3. d = T
      BY <2>1, <3>1, <3>2, SameDatabase
    <3>4. alone = T
      <4>1. CASE r.to # "timed_out"
        BY <1>3, <2>3, <4>1, UpdateAlone
      <4>2. CASE r.to = "timed_out"
        <5>1. Overdue(F) /\ K = Saved(F, "timed_out", TRUE, FALSE)
          <6>1. (r.to = "timed_out") = TRUE
            BY <4>2
          <6> QED BY <4>2, <6>1 DEF Asked, Kept, Copy
        <5>2. SaveStatus(D, Exam, r.slot, "timed_out", TRUE, FALSE) = T
          BY <5>1 DEF SaveStatus, Told, WithKept, RowOf
        <5>3. alone = ClearOnboardingErrors(T, Exam, "submitted")
          BY <4>2, <5>1, <5>2 DEF Read, RowOf
        <5> QED BY <2>1, <5>3, NoOtherExam
      <4> QED BY <4>1, <4>2
    <3> QED BY <1>1, <3>3, <3>4
  <2> QED BY <2>2, <2>3
<1> QED
  BY <1>2, <1>3

(* So have the requests that save a row, or remove it.                     *)
LEMMA RowEffects ==
  ASSUME NEW D, Sound(D), NEW r \in Request, Asked(D, r),
         r.op \in {"acknowledge", "release", "remove"},
         NEW d \in Database, Progress(d, {}, D, r)
  PROVE  d \in Effects(D, r)
<1> DEFINE F == RowOf(D, r)
           K == Kept(D, r)
<1>1. D \in Database /\ r.slot \in Slots /\ F \in Attempt
      /\ (~ Refuses(F, r) => K \in Attempt)
  BY FoundLive DEF Sound
<1>2. ASSUME ~ Refuses(F, r), r.op \in {"acknowledge", "release"}
      PROVE  Elsewhere(d, D, r) /\ LmsAs(d, D) /\ RowOf(d, r) = K
  BY <1>2 DEF Progress, SaveInv
<1>3. CASE r.op = "acknowledge"
  <2>1. ~ Refuses(F, r) /\ K = F
    BY <1>3 DEF Refuses, Kept, Copy
  <2>2. d = D
    BY <1>1, <1>2, <1>3, <2>1, SameDatabase DEF Elsewhere, RowOf
  <2> QED BY <1>3, <2>2 DEF Effects
<1>4. CASE r.op = "release"
  <2>1. Effects(D, r) = {IF F.resumable THEN WithKept(D, r) ELSE D}
    BY <1>4 DEF Effects, WithKept, Kept, RowOf
  <2>2. CASE Refuses(F, r)
    <3>1. ~ F.resumable /\ d = D
      BY <1>4, <2>2 DEF Refuses, Progress, RefusedInv
    <3> QED BY <2>1, <3>1
  <2>3. CASE ~ Refuses(F, r)
    <3>1. F.resumable
      BY <1>4, <2>3 DEF Refuses
    <3>2. /\ WithKept(D, r) \in Database /\ LmsAs(WithKept(D, r), D)
          /\ \A j \in Slots : WithKept(D, r).att[Exam][j] =
                                IF j = r.slot THEN K ELSE D.att[Exam][j]
      BY <1>1, <2>3, WithKeptIs
    <3> HIDE DEF K
    <3>3. \A j \in Slots : d.att[Exam][j] = WithKept(D, r).att[Exam][j]
      BY <1>2, <1>4, <2>3, <3>2 DEF Elsewhere, RowOf
    <3>4. LmsAs(d, WithKept(D, r))
      BY <1>2, <1>4, <2>3, <3>2 DEF LmsAs
    <3>5. d = WithKept(D, r)
      BY <3>2, <3>3, <3>4, SameDatabase
    <3> QED BY <2>1, <3>1, <3>5
  <2> QED BY <2>2, <2>3
<1>5. CASE r.op = "remove"
  <2> DEFINE G == Removed(D, Exam, r.slot)
  <2>1. /\ Elsewhere(d, D, r) /\ RowOf(d, r) = Archived /\ LmsAs(d, G)
    BY <1>5 DEF Progress, RemoveInv, Refuses
  <2>2. G \in Database
    BY RemovedSound, ExamIsProctored DEF Sound
  <2>3. \A j \in Slots :
          G.att[Exam][j] = IF j = r.slot THEN Archived ELSE D.att[Exam][j]
    BY <1>1, ExamIsProctored DEF Removed, Database
  <2> HIDE DEF G
  <2>4. \A j \in Slots : d.att[Exam][j] = G.att[Exam][j]
    BY <2>1, <2>3 DEF Elsewhere, RowOf
  <2>5. d = G
    BY <2>1, <2>2, <2>4, SameDatabase
  <2> QED BY <1>5, <2>5 DEF Effects, G
<1> QED
  BY <1>3, <1>4, <1>5

(* And so have those that go on with an attempt, or make one.              *)
LEMMA AloneEffects ==
  ASSUME NEW D, Sound(D), NEW r \in Request, Asked(D, r),
         r.op \in {"resume", "create"}, pastDue = {},
         NEW d \in Database, Progress(d, {}, D, r)
  PROVE  d \in Effects(D, r)
<1> DEFINE F == RowOf(D, r)
           K == Kept(D, r)
           N == ToFollow(D, r)
<1>1. PICK outcome \in Outcomes(Exam, TRUE) :
        d = IF outcome = "refused" THEN N ELSE NewAttempt(N, Exam, outcome, TRUE)
  BY DEF Progress, AloneInv
<1>2. /\ MayCreate(D, Exam) /\ MarkedResumed(D, Exam) = N
      /\ AllowedTimeRead(N, Exam) = N
  <2>1. CASE r.op = "create"
    <3>1. N = D /\ ~ HasAttempt(D, Exam)
      BY <2>1 DEF ToFollow, Asked
    <3> QED BY <3>1 DEF MayCreate, MarkedResumed, AllowedTimeRead
  <2>2. CASE r.op = "resume"
    <3>1. /\ r.slot = Latest(D, Exam) /\ r.slot \in Live(D, Exam)
          /\ InResumeProcess(F) /\ ~ Overdue(F) /\ HasAttempt(D, Exam)
      BY <2>2 DEF Asked, HasAttempt
    <3>2. /\ F \in Attempt /\ F.row = "live" /\ r.slot \in Slots
          /\ K \in Attempt /\ K.row = "live"
      <4>1. ~ Refuses(F, r)
        BY <2>2, <3>1 DEF Refuses
      <4> QED BY <2>2, <4>1, FoundLive
    <3>3. K = [F EXCEPT !.resumed = TRUE, !.resumable = FALSE]
      BY <2>2 DEF Kept, Copy
    <3>4. ~ Overdue(K)
      BY <3>1, <3>2, <3>3 DEF Overdue, Attempt
    <3>5. N = WithKept(D, r)
      BY <2>2 DEF ToFollow
    <3>6. MarkedResumed(D, Exam) = N
      <4>1. MarkedResumed(D, Exam) =
              [D EXCEPT !.att[Exam][r.slot] = [@ EXCEPT !.resumed = TRUE, !.resumable = FALSE]]
        BY <3>1 DEF MarkedResumed, RowOf
      <4>2. [D EXCEPT !.att[Exam][r.slot] = [@ EXCEPT !.resumed = TRUE, !.resumable = FALSE]]
              = [D EXCEPT !.att[Exam][r.slot] = K]
        BY <3>3 DEF RowOf
      <4> QED BY <3>5, <4>1, <4>2 DEF WithKept
    <3>7. MayCreate(D, Exam)
      BY <3>1 DEF MayCreate, RowOf
    <3>8. /\ \A j \in Slots : N.att[Exam][j] = IF j = r.slot THEN K ELSE D.att[Exam][j]
      BY <3>2, <3>5, WithKeptIs
    <3> HIDE DEF N, K
    <3>9. Live(N, Exam) = Live(D, Exam)
      BY <3>2, <3>8 DEF Live, RowOf
    <3>10. Latest(N, Exam) = r.slot
      BY <3>1, <3>9 DEF Latest
    <3>11. Read(N, Exam, r.slot) = N
      BY <3>2, <3>4, <3>8 DEF Read
    <3> QED BY <3>6, <3>7, <3>10, <3>11 DEF AllowedTimeRead
  <2> QED BY <2>1, <2>2
<1> HIDE DEF N
<1>3. CreateAttempt(D, Exam, TRUE, outcome) = d
  BY <1>1, <1>2 DEF CreateAttempt
<1> QED
  BY <1>3 DEF Effects

(* Requests that are repeated stay so until another one comes between; as  *)
(* the last of them is done, they have done what one of them does alone.   *)
LEMMA NextRepeatInv ==
  ASSUME RaceInv, RepeatInv, [RaceNext]_raceVars
  PROVE  /\ RepeatInv'
         /\ FallsQuiet => \A r \in since.requests :
              since.requests = {r} => db' \in Effects(since.db, r)
<1>1. CASE UNCHANGED raceVars
  BY <1>1 DEF raceVars, RepeatInv, Repeats, Tasks, Running, FallsQuiet
<1>2. ASSUME NEW w \in Workers, Ask(w)
      PROVE  RepeatInv' /\ ~ FallsQuiet
  BY <1>2, AskedFor, BeginRepeat DEF FallsQuiet
<1>3. ASSUME NEW w \in Workers, Serve(w), FallsQuiet,
             NEW r \in since.requests, since.requests = {r}
      PROVE  db' \in Effects(since.db, r)
  <2>1. Progress(db', {}, since.db, r)
    BY <1>3, ServeRepeat
  <2>2. /\ r \in Request /\ r.op \in Operation /\ pastDue = {}
    BY RaceAssumption DEF RaceInv, RaceTypeOK, TypeOK, Request
  <2>3. Sound(since.db) /\ Asked(since.db, r)
    BY <1>3 DEF RepeatInv, Repeats
  <2>4. db' \in Database
    BY <1>3, ServeInv DEF RaceInv, RaceTypeOK, TypeOK
  <2>5. CASE r.op = "update"
    BY <2>1, <2>2, <2>3, <2>4, <2>5, UpdateEffects
  <2>6. CASE r.op \in {"acknowledge", "release", "remove"}
    BY <2>1, <2>2, <2>3, <2>4, <2>6, RowEffects
  <2>7. CASE r.op \in {"resume", "create"}
    BY <2>1, <2>2, <2>3, <2>4, <2>7, AloneEffects
  <2> QED BY <2>2, <2>5, <2>6, <2>7 DEF Operation
<1>4. ASSUME NEW w \in Workers, Serve(w)
      PROVE  RepeatInv'
  BY <1>4, ServeRepeat
<1>5. ASSUME NEW i \in Slots, RunOut(i)
      PROVE  RepeatInv' /\ ~ FallsQuiet
  BY <1>5 DEF RunOut, RepeatInv, NoneYet, FallsQuiet, Running
<1> QED
  BY <1>1, <1>2, <1>3, <1>4, <1>5 DEF RaceNext, FallsQuiet, raceVars

(* A double click, a second tab, a retry: however many processes serve the *)
(* same request on the attempts at a proctored exam, and in whatever order *)
(* their steps come, what they leave when the last of them is done is what *)
(* update_attempt_status, or the handler of that request, leaves when it   *)
(* runs alone, once.                                                       *)
THEOREM RepeatingIsHarmless == RaceSpec => RepeatedIsOnce
<1>1. RaceInit => RepeatInv
  BY DEF RaceInit, RepeatInv, NoneYet
<1>2. RaceInv /\ RepeatInv /\ [RaceNext]_raceVars =>
        [FallsQuiet => \A r \in since.requests :
           since.requests = {r} => db' \in Effects(since.db, r)]_raceVars
  BY NextRepeatInv
<1>3. RaceInv /\ RepeatInv /\ [RaceNext]_raceVars => (RaceInv /\ RepeatInv)'
  BY NextRaceInv, NextRepeatInv
<1> QED
  BY <1>1, <1>2, <1>3, InitRaceInv, PTL DEF RaceSpec, RepeatedIsOnce
=============================================================================
