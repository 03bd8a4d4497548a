--------------------------- MODULE BackendSession ---------------------------
(***************************************************************************)
(* What the proctoring service knows of the attempts at an exam.  A REST   *)
(* backend registers each attempt and is told when it is started, stopped, *)
(* in error or removed (rest.py).  The calls are made from within the      *)
(* handlers of ExamAttempts, in the midst of what they save and with no    *)
(* transaction around it.  A call may raise, and then the handler goes no  *)
(* further; or the service may answer with an error, which nobody looks    *)
(* at but when an attempt is registered.  No call is made a second time.   *)
(*                                                                         *)
(* One proctored exam, so that a declined exam has no others to decline.   *)
(***************************************************************************)
EXTENDS ExamAttempts, SequencesExt

CONSTANT Exam   \* the exam, with a REST backend

ASSUME SessionAssumption ==
  /\ Exams = {Exam} /\ Kind[Exam] = "proctored"
  /\ (AdminStatuses \cup Verdicts) \cap OnboardingErrors = {}

VARIABLES
  session,  \* what the service was last told of each attempt
  astray    \* attempts about which a call, or the answer to a removal, was lost

sessionVars == <<db, pastDue, session, astray>>

Sessions ==
  {"none", "created", "started", "restarted", "submitted", "error", "deleted"}

SessionTypeOK ==
  /\ TypeOK
  /\ session \in [Slots -> Sessions]
  /\ astray \subseteq Slots

-----------------------------------------------------------------------------
(* Runs: what a handler does to the database, and the calls it makes on    *)
(* its way, each with the database that it finds.                          *)

Run(d) == [db |-> d, calls |-> << >>]

(* Without an external id no request is made (_make_attempt_request).      *)
Tell(d, i, what) ==
  IF what # "nothing" /\ d.att[Exam][i].registered
  THEN <<[att |-> i, what |-> what, db |-> d]>> ELSE << >>

(* A run, and one that goes on from the database it leaves.                *)
Joined(run, next) == [db |-> next.db, calls |-> run.calls \o next.calls]

(* Mutants of Notice: every start is told; a time-out is told as what was  *)
(* asked for, which is nothing.                                            *)
NoticeOfStart(asked, stored, first) ==
  IF stored \in {"started", "submitted", "error"} THEN stored ELSE "nothing"

NoticeAsAsked(asked, stored, first) ==
  IF (asked = "started" /\ first) \/ asked \in {"submitted", "error"}
  THEN asked ELSE "nothing"

(* What the service is told of a new status.                               *)
Notice(asked, stored, first) ==
  IF (stored = "started" /\ first) \/ stored \in {"submitted", "error"}
  THEN stored ELSE "nothing"

(* The call about the end of an attempt that a read has ended.             *)
TellEnd(a, d1, i) ==
  IF Overdue(a) THEN Tell(d1, i, Notice("timed_out", d1.att[Exam][i].status, FALSE))
  ELSE << >>

ReadTo(d, d1, i) == [db |-> d1, calls |-> TellEnd(d.att[Exam][i], d1, i)]

Reading(d, i) == ReadTo(d, Read(d, Exam, i), i)

TimeReading(d) == IF HasAttempt(d, Exam) THEN Reading(d, Latest(d, Exam)) ELSE Run(d)

(* Mutant of Updating: the service is told as soon as the row is saved.    *)
UpdatingToldFirst(d, i, to, instantly) ==
  LET a   == d.att[Exam][i]
      new == EffectiveStatus(a.status, to, AllowTimedOut)
      row == Saved(a, to, FALSE, instantly)
  IN IF ~ IsLegal(a.status, new) THEN Run(d)
     ELSE [db    |-> Update(d, Exam, i, to, instantly),
           calls |-> Tell([d EXCEPT !.att[Exam][i] = row], i, Notice(to, new, ~ a.started))]

(* update_attempt_status, which leaves d1.  The service is told last of    *)
(* all.  The re-read of the row before that may end an attempt whose time  *)
(* is over already, and then the service hears of its end before it hears  *)
(* of its start.                                                           *)
UpdateTo(d, d1, i, to, instantly) ==
  LET a     == d.att[Exam][i]
      new   == EffectiveStatus(a.status, to, AllowTimedOut)
      first == new = "started" /\ ~ a.started
  IN IF ~ IsLegal(a.status, new) THEN Run(d)
     ELSE [db    |-> d1,
           calls |-> (IF first THEN TimeReading(d).calls ELSE << >>)
                     \o TellEnd(Saved(a, to, FALSE, instantly), d1, i)
                     \o Tell(d1, i, Notice(to, new, first))]

Updating(d, i, to, instantly) ==
  UpdateTo(d, Update(d, Exam, i, to, instantly), i, to, instantly)

(* The row is saved when the service has answered.                         *)
Registering(d, outcome) ==
  LET i == FreshSlot(d, Exam)
  IN [db    |-> NewAttempt(d, Exam, outcome, TRUE),
      calls |-> IF outcome = "created"
                THEN <<[att |-> i, what |-> "created", db |-> d]>> ELSE << >>]

(* create_exam_attempt.                                                    *)
Creating(d, proctored, outcome) ==
  LET d1   == MarkedResumed(d, Exam)
      read == TimeReading(d1)
  IN IF ~ MayCreate(d, Exam) THEN Run(d)
     ELSE IF ~ proctored THEN Run(NewAttempt(d1, Exam, "created", FALSE))
     ELSE IF Exam \in pastDue THEN Run(d1)
     ELSE IF outcome = "refused" THEN read
     ELSE Joined(read, Registering(read.db, outcome))

Starting(d, instantly) ==
  LET i == Latest(d, Exam)
      a == d.att[Exam][i]
  IN IF ~ HasAttempt(d, Exam) \/ (a.started /\ a.status = "started") THEN Run(d)
     ELSE Updating(d, i, "started", instantly)

(* Mutant of Removing: only attempts that were started have a session.     *)
RemovingStarted(d, i) ==
  [db    |-> Removed(d, Exam, i),
   calls |-> IF d.att[Exam][i].started THEN Tell(d, i, "deleted") ELSE << >>]

(* The service is told before the row is deleted (on_attempt_changed): if  *)
(* that raises, the attempt stays, and so do the credit and the override.  *)
Removing(d, i) == [db |-> Removed(d, Exam, i), calls |-> Tell(d, i, "deleted")]

-----------------------------------------------------------------------------
(* The service.                                                            *)

(* A session that is started twice, or after its end, is one that has been *)
(* restarted; one that was removed is no more.                             *)
Heard(s, what) ==
  CASE s = "deleted" -> s
    [] what = "started" /\ s \notin {"created", "deleted"} -> "restarted"
    [] OTHER -> what

(* What a session comes to by the calls that are heard, in their order.    *)
LastHeard(calls, s, heard) ==
  FoldLeft(LAMBDA x, k : IF k \in heard THEN Heard(x, calls[k].what) ELSE x,
           s, [k \in DOMAIN calls |-> k])

(* A handler runs, up to the call numbered `last' if that one raises.  The *)
(* service acts on the calls in `heard'.                                   *)
PerformUpTo(run, last, heard) ==
  LET made    == {k \in DOMAIN run.calls : k <= last}
      about(i) == {k \in made : run.calls[k].att = i}
      lost    == {k \in made : \/ k \notin heard /\ run.calls[k].what # "created"
                               \/ k = last /\ run.calls[k].what = "deleted"}
      d1      == IF last \in made THEN run.calls[last].db ELSE run.db
  IN /\ db' = d1
     /\ session' = [i \in Slots |->
                      LastHeard(run.calls, session[i], heard \cap about(i))]
     /\ astray' = {i \in astray : about(i) = {} \/ session[i] = "deleted"} \cup
          {i \in Slots : about(i) \cap lost # {}} \cup
          {i \in Slots : db.att[Exam][i].registered /\ d1.att[Exam][i].row = "live"
                         /\ ~ d1.att[Exam][i].registered}

(* A registration that raises leaves at most a session that is nobody's.   *)
Perform(run) ==
  LET registers == {k \in DOMAIN run.calls : run.calls[k].what = "created"}
  IN \E last \in 1 .. Len(run.calls) + 1 :
       \E heard \in SUBSET {k \in DOMAIN run.calls : k <= last} :
         /\ {k \in registers : k <= last} \ {last} = registers \cap heard
         /\ PerformUpTo(run, last, heard)
         /\ UNCHANGED pastDue

-----------------------------------------------------------------------------
(* The handlers of ExamAttempts, with their calls.                         *)

(* Entering an exam in order to decline it, or to start it.                *)
Entering(run, proctored, startClock, instantly) ==
  IF ~ proctored
  THEN Joined(run, Updating(run.db, Latest(run.db, Exam), "declined", FALSE))
  ELSE IF startClock THEN Joined(run, Starting(run.db, instantly))
  ELSE run

Posting(proctored, startClock, outcome, instantly) ==
  /\ Exam \notin pastDue
  /\ RoomToCreate(Exam)
  /\ Perform(
       IF Creates(db, Exam, proctored, outcome)
       THEN Entering(Creating(db, proctored, outcome), proctored, startClock, instantly)
       ELSE Creating(db, proctored, outcome))

(* A request that names an attempt reads it first, and goes on from there. *)
Found(i) == Read(db, Exam, i)

Serving(i, next) == i \in Live(db, Exam) /\ Perform(Joined(Reading(db, i), next))

Polling(i) == Serving(i, Run(Found(i)))

Putting(i, to) == Serving(i, Updating(Found(i), i, to, FALSE))

StartingUp(i, instantly) == Serving(i, Starting(Found(i), instantly))

ReportingError(i) ==
  Serving(i, IF Found(i).att[Exam][i].status = "submitted" THEN Run(Found(i))
             ELSE Updating(Found(i), i, "error", FALSE))

Releasing(i) ==
  Serving(i, Run([Found(i) EXCEPT !.att[Exam][i] =
                    IF @.resumable
                    THEN [@ EXCEPT !.ready = TRUE, !.resumable = FALSE] ELSE @]))

Deleting(i) == Serving(i, Removing(Found(i), i))

(* One attempt after the other, in no certain order.                       *)
ThenRemoving(run, i) == Joined(run, Removing(run.db, i))

DeletingAll ==
  /\ HasAttempt(db, Exam)
  /\ \E order \in SetToSeqs(Live(db, Exam)) :
       Perform(FoldLeft(ThenRemoving, Run(db), order))

DeletingRaw(i) ==
  /\ i \in Live(db, Exam)
  /\ db.att[Exam][i].status \in PreStarted /\ ~ db.att[Exam][i].started
  /\ Perform([db    |-> [db EXCEPT !.att[Exam][i] = Archived],
              calls |-> Tell(db, i, "deleted")])

(* ReadyCallback and StartCallback.                                        *)
CallingBack(i, link) ==
  LET status == Found(i).att[Exam][i].status
  IN /\ IF link THEN db.att[Exam][i].proctored ELSE db.att[Exam][i].registered
     /\ Serving(i,
          IF status \in {"created", "download_software_clicked"}
          THEN Updating(Found(i), i, "ready_to_start", FALSE)
          ELSE IF link /\ status \in InProgress
          THEN Updating(Found(i), i, "submitted", FALSE)
          ELSE Run(Found(i)))

SettingStatus(i, to) == i \in Live(db, Exam) /\ Perform(Updating(db, i, to, FALSE))

SessionNext ==
  \/ \E proctored, startClock \in BOOLEAN :
       \E outcome \in Outcomes(Exam, proctored), instantly \in {FALSE, startClock} :
         Posting(proctored, startClock, outcome, instantly)
  \/ DeletingAll
  \/ ClockNext(Exam) /\ UNCHANGED <<session, astray>>
  \/ \E i \in Slots :
       \/ Polling(i) \/ ReportingError(i) \/ Releasing(i)
       \/ \E instantly \in BOOLEAN : StartingUp(i, instantly)
       \/ \E to \in {"ready_to_submit", "submitted", "download_software_clicked",
                     "declined"} : Putting(i, to)
       \/ \E to \in Verdicts : db.att[Exam][i].registered /\ Putting(i, to)
       \/ Deleting(i) \/ DeletingRaw(i)
       \/ \E link \in BOOLEAN : CallingBack(i, link)
       \/ \E to \in AdminStatuses \cup Verdicts \cup {db.att[Exam][i].status} :
            SettingStatus(i, to)

SessionInit ==
  /\ Init
  /\ session = [i \in Slots |-> "none"]
  /\ astray = {}

SessionSpec == SessionInit /\ [][SessionNext]_sessionVars

-----------------------------------------------------------------------------
(* Properties.                                                             *)

(* Unless a call about it has got lost, the service has the attempt in the *)
(* state the platform has it in: a session that was started is ended with  *)
(* the exam, however that ends (submitted, timed out by a read in whatever *)
(* handler, entered again, set by staff), and one in error is known to be. *)
SessionAgrees ==
  \A i \in Live(db, Exam) \ astray :
    LET a == db.att[Exam][i]
    IN a.registered =>
         /\ a.status = "submitted" => session[i] \in {"submitted", "restarted"}
         /\ a.status = "error" => session[i] = "error"
         /\ a.started /\ a.status \in InProgress => session[i] = "started"

(* The service is told of a start once (MST-862), however often the clock  *)
(* is started, the learner comes back from the page that ends the exam or  *)
(* staff set the status: but for an exam that ends as it starts, a session *)
(* never starts again.                                                     *)
StartToldOnce ==
  [][\A i \in Slots :
       session'[i] = "restarted" /\ session[i] # "restarted"
         => ~ db.att[Exam][i].started /\ db'.att[Exam][i].expired]_sessionVars

(* No session is left behind by an attempt that has been removed, but for  *)
(* lost calls, and for an attempt that was declined: it has lost its       *)
(* external id by the time anything could be told.                         *)
NoGhostSession ==
  \A i \in Slots \ astray :
    db.att[Exam][i].row = "archived" => session[i] \in {"none", "deleted"}

-----------------------------------------------------------------------------
(* The invariant the proofs use.                                           *)

(* What the service may have been told last of an attempt, as far as no    *)
(* call about it was lost.                                                 *)
Agrees(a, s) ==
  /\ a.status = "submitted" => s \in {"submitted", "restarted"}
  /\ a.status = "error" => s = "error"
  /\ a.started /\ a.status \in Incomplete => s = "started"

(* And even then, an attempt that waits for its start has a session that   *)
(* was not started, and a session that has gone was lost from sight.       *)
SessionFits(i) ==
  LET a == db.att[Exam][i]
      s == session[i]
  IN /\ a.row = "unused" => s = "none" /\ ~ a.started
     /\ a.row = "archived" => i \in astray \/ s \in {"none", "deleted"}
     /\ a.row = "live" /\ ~ a.registered => i \in astray \/ s = "none"
     /\ a.row = "live" /\ a.registered =>
          /\ s # "none" /\ (s = "deleted" => i \in astray)
          /\ ~ a.started /\ a.status \in Incomplete => s \in {"created", "deleted"}
          /\ i \in astray \/ Agrees(a, s)

(* The service has a session for every attempt that is registered, and for *)
(* no other, in the state the attempt is in, until a call has been lost.   *)
SessionsFit == AttemptsInLine /\ SessionTypeOK /\ \A i \in Slots : SessionFits(i)
=============================================================================
