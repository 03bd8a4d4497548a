----------------------------- MODULE AttemptRace -----------------------------
(***************************************************************************)
(* Requests on the attempts at one proctored exam that overlap.  Module    *)
(* ExamAttempts runs each of them alone, but nothing in the code makes     *)
(* them run so: there is no lock and no transaction.  Here a step is one   *)
(* access to the database or one call of a service of the LMS, and what a  *)
(* request holds in between is its own copy of a row, saved as a whole.    *)
(*                                                                         *)
(* A read that times an attempt out is a request of its own here, wherever *)
(* in another request the code makes it, and so is the save of the time    *)
(* left that goes before an error (acknowledge: update_exam_attempt).      *)
(* There is one exam, so that a decline has no other exam to cascade to.   *)
(***************************************************************************)
EXTENDS ExamAttempts, Sequences

CONSTANTS
  Workers,      \* processes that serve requests
  Racing,       \* the statuses that requests ask for
  MaxOverlaps   \* bound: requests that begin while another one is running

Exam == CHOOSE e \in Exams : TRUE

ASSUME RaceAssumption ==
  /\ Exams = {Exam} /\ Kind[Exam] = "proctored" /\ Dated = {}
  /\ Racing \subseteq ValidStatus \ {"timed_out"}
  /\ MaxOverlaps \in Nat

VARIABLES
  work,      \* the request each worker serves
  since,     \* history: the requests since none was running, and db by then
  overlaps   \* how many requests have begun while another one was running

raceVars == <<db, pastDue, work, since, overlaps>>

Operation == {"update", "acknowledge", "release", "remove", "resume", "create"}

Request == [op : Operation, slot : Slots, to : ValidStatus]

(* look is what the pre_save handler does, which reads the row once more   *)
(* and may call the instructor service before the row is written; restore  *)
(* and uncredit take back what the grades and credit services hold.        *)
Step == {"load", "look", "write", "judge", "credit", "withdraw", "override",
         "insert", "delete", "restore", "uncredit"}

Save == <<"load", "look", "write">>

Updating(to) ==
  IF to = "declined"
  THEN Save \o <<"judge", "credit", "withdraw", "look", "write">>
  ELSE Save \o <<"judge", "credit", "override">>

Steps(r) ==
  CASE r.op = "update" -> Updating(r.to)
    [] r.op \in {"acknowledge", "release"} -> Save
    [] r.op = "remove" -> <<"load", "delete", "restore", "uncredit">>
    [] r.op = "resume" -> Save \o <<"insert">>
    [] r.op = "create" -> <<"insert">>

(* todo: the steps that are left; from: the status found by load; row: the *)
(* copy of the row, as it is going to be saved.                            *)
Work == [request : Request, todo : Seq(Step), from : Status, row : Attempt]

Idle ==
  [request |-> [op |-> "create", slot |-> 1, to |-> "created"],
   todo |-> <<>>, from |-> "created", row |-> NoRow]

NoneYet ==
  [requests |-> {},
   db |-> [att      |-> [e \in Exams |-> [i \in Slots |-> NoRow]],
           credit   |-> [e \in Exams |-> "none"],
           override |-> [e \in Exams |-> FALSE]]]

RaceTypeOK ==
  /\ TypeOK
  /\ work \in [Workers -> Work]
  /\ since \in [requests : SUBSET Request, db : Database]
  /\ overlaps \in 0 .. MaxOverlaps

Running == {w \in Workers : work[w].todo # <<>>}

Rows == db.att[Exam]

At(w, step) == work[w].todo # <<>> /\ Head(work[w].todo) = step

Row(w) == Rows[work[w].request.slot]

-----------------------------------------------------------------------------
(* How a request begins, goes on and ends.                                 *)

Verifies(r) == r.op = "update" /\ r.to = "verified"

(* Requests whose joint effect the properties below speak of: the same one *)
(* several times, or verifications.                                        *)
Comparable(requests) ==
  \/ \E r \in requests : requests = {r} /\ r.op \notin {"resume", "create"}
  \/ \A r \in requests : Verifies(r)

Begin(w, r) ==
  /\ work[w] = Idle
  /\ work' = [work EXCEPT ![w] = [Idle EXCEPT !.request = r, !.todo = Steps(r)]]
  /\ since' =
       IF Running = {} THEN [requests |-> {r}, db |-> db]
       ELSE IF since.requests # {} /\ Comparable(since.requests \cup {r})
            THEN [since EXCEPT !.requests = @ \cup {r}]
            ELSE NoneYet
  /\ IF Running = {} THEN UNCHANGED overlaps
     ELSE overlaps < MaxOverlaps /\ overlaps' = overlaps + 1
  /\ UNCHANGED <<db, pastDue>>

Continue(w, task) ==
  /\ work' = [work EXCEPT ![w] = IF task.todo = <<>> THEN Idle ELSE task]
  /\ since' = IF task.todo = <<>> /\ Running = {w} THEN NoneYet ELSE since
  /\ UNCHANGED <<pastDue, overlaps>>

GoOn(w) == Continue(w, [work[w] EXCEPT !.todo = Tail(@)])

GiveUp(w) == Continue(w, [work[w] EXCEPT !.todo = <<>>])

(* A request past a step that leaves it with another copy of its row.      *)
Holding(task, from, row) ==
  [task EXCEPT !.todo = Tail(@), !.from = from, !.row = row]

-----------------------------------------------------------------------------
(* The requests.  What a view checks in the row it reads, and what of that *)
(* update_attempt_status checks again (IsLegal), are two different reads.  *)

Checked(a, to) ==
  /\ to = "error" => a.status # "submitted"
  /\ to = "started" => ~ (a.started /\ a.status = "started")
  /\ to = "ready_to_start" =>
       a.status \in {"created", "download_software_clicked"}

AskUpdate(w, i, to) ==
  /\ i \in Live(db, Exam)
  /\ ~ Overdue(Rows[i]) /\ Checked(Rows[i], to)
  /\ to = "started" => i = Latest(db, Exam)
  /\ Begin(w, [op |-> "update", slot |-> i, to |-> to])

AskTimeout(w, i) ==
  /\ i \in Live(db, Exam) /\ Overdue(Rows[i])
  /\ Begin(w, [op |-> "update", slot |-> i, to |-> "timed_out"])

AskOther(w, i, op) ==
  /\ i \in Live(db, Exam) /\ ~ Overdue(Rows[i])
  /\ Begin(w, [op |-> op, slot |-> i, to |-> "created"])

Inserting ==
  {v \in Running : work[v].request.op \in {"resume", "create"}}

(* Bound of the model: every request that may insert a row has a slot.     *)
AskCreate(w) ==
  /\ Cardinality(Unused(db, Exam)) > Cardinality(Inserting)
  /\ IF HasAttempt(db, Exam)
     THEN MayCreate(db, Exam) /\ AskOther(w, Latest(db, Exam), "resume")
     ELSE Begin(w, [op |-> "create", slot |-> 1, to |-> "created"])

-----------------------------------------------------------------------------
(* The steps.                                                              *)

(* Mutant of Refuses: any change of status goes through.                   *)
RefusesNothing(a, r) ==
  \/ r.op = "release" /\ ~ a.resumable
  \/ r.op = "resume" /\ ~ InResumeProcess(a)

Refuses(a, r) ==
  \/ /\ r.op = "update"
     /\ ~ IsLegal(a.status, EffectiveStatus(a.status, r.to, AllowTimedOut))
  \/ r.op = "release" /\ ~ a.resumable
  \/ r.op = "resume" /\ ~ InResumeProcess(a)

(* The row as a request is going to save it.                               *)
Copy(a, r) ==
  CASE r.op = "update"  -> Saved(a, r.to, r.to = "timed_out", FALSE)
    [] r.op = "release" -> [a EXCEPT !.ready = TRUE, !.resumable = FALSE]
    [] r.op = "resume"  -> [a EXCEPT !.resumed = TRUE, !.resumable = FALSE]
    [] OTHER            -> a

Load(w) ==
  LET r == work[w].request
  IN /\ At(w, "load")
     /\ IF Row(w).row # "live" \/ Refuses(Row(w), r) THEN GiveUp(w)
        ELSE Continue(w, Holding(work[w], Row(w).status, Copy(Row(w), r)))
     /\ UNCHANGED db

Look(w) ==
  /\ At(w, "look")
  /\ IF Row(w).row = "live" THEN GoOn(w) ELSE GiveUp(w)
  /\ UNCHANGED db

(* Mutant of Write: only the status is saved.                              *)
WriteStatus(w) ==
  /\ At(w, "write")
  /\ db' = [db EXCEPT !.att[Exam][work[w].request.slot].status = work[w].row.status]
  /\ GoOn(w)

(* Saving an object whose row is gone inserts the row again.               *)
Write(w) ==
  /\ At(w, "write")
  /\ db' = [db EXCEPT !.att[Exam][work[w].request.slot] = work[w].row]
  /\ GoOn(w)

(* Mutant of Judge: the other attempts are read when the request begins.   *)
JudgeAsOfBegin(w) ==
  LET i == work[w].request.slot
      d == [since.db EXCEPT !.att[Exam][i] = work[w].row]
  IN /\ At(w, "judge")
     /\ IF CanUpdateCreditGradesAndEmail(d, Exam, work[w].row.status)
        THEN GoOn(w) ELSE GiveUp(w)
     /\ UNCHANGED db

Judge(w) ==
  /\ At(w, "judge")
  /\ IF CanUpdateCreditGradesAndEmail(db, Exam, work[w].row.status)
     THEN GoOn(w) ELSE GiveUp(w)
  /\ UNCHANGED db

Credit(w) ==
  LET status == work[w].row.status
  IN /\ At(w, "credit")
     /\ db' = IF status \in NeedsCreditUpdate
              THEN [db EXCEPT !.credit[Exam] = CreditFor(status)] ELSE db
     /\ GoOn(w)

(* A declined attempt is saved once more, from the copy loaded before.     *)
Withdraw(w) ==
  /\ At(w, "withdraw")
  /\ Continue(w, Holding(work[w], work[w].from,
       [work[w].row EXCEPT !.proctored = FALSE, !.registered = FALSE]))
  /\ UNCHANGED db

Override(w) ==
  LET status == work[w].row.status
  IN /\ At(w, "override")
     /\ db' = IF OverrideOnReject /\ status \in NeedsGradeOverride
              THEN [db EXCEPT !.override[Exam] = TRUE]
              ELSE IF /\ OverrideOnReject /\ status = "verified"
                      /\ work[w].from \in NeedsGradeOverride
              THEN [db EXCEPT !.override[Exam] = FALSE]
              ELSE db
     /\ GoOn(w)

(* Mutant of Insert: a refused registration goes unnoticed.                *)
InsertUnregistered(w, outcome) ==
  /\ At(w, "insert")
  /\ db' = NewAttempt(db, Exam, outcome, TRUE)
  /\ GoOn(w)

Insert(w, outcome) ==
  /\ At(w, "insert")
  /\ db' = IF outcome = "refused" THEN db ELSE NewAttempt(db, Exam, outcome, TRUE)
  /\ GoOn(w)

DeleteRow(w) ==
  /\ At(w, "delete")
  /\ db' = [db EXCEPT !.att[Exam][work[w].request.slot] = Archived]
  /\ GoOn(w)

Restore(w) ==
  /\ At(w, "restore")
  /\ db' = [db EXCEPT !.override[Exam] = FALSE]
  /\ GoOn(w)

Uncredit(w) ==
  /\ At(w, "uncredit")
  /\ db' = IF work[w].from \in NeedsCreditUpdate
           THEN [db EXCEPT !.credit[Exam] = "none"] ELSE db
  /\ GoOn(w)

(* The time allowed to an attempt runs out, whoever is working on it.      *)
RunOut(i) ==
  /\ Expire(Exam, i)
  /\ since' = NoneYet
  /\ UNCHANGED <<work, overlaps>>

Serve(w) ==
  \/ Load(w) \/ Look(w) \/ Write(w) \/ Judge(w) \/ Credit(w) \/ Withdraw(w)
  \/ Override(w) \/ DeleteRow(w) \/ Restore(w) \/ Uncredit(w)
  \/ \E outcome \in Outcomes(Exam, TRUE) : Insert(w, outcome)

Ask(w) ==
  \/ \E i \in Slots :
       \/ \E to \in Racing : AskUpdate(w, i, to)
       \/ AskTimeout(w, i)
       \/ \E op \in {"acknowledge", "release", "remove"} : AskOther(w, i, op)
  \/ AskCreate(w)

RaceInit ==
  /\ Init
  /\ work = [w \in Workers |-> Idle]
  /\ since = NoneYet
  /\ overlaps = 0

RaceNext == (\E w \in Workers : Ask(w) \/ Serve(w)) \/ (\E i \in Slots : RunOut(i))

RaceSpec == RaceInit /\ [][RaceNext]_raceVars

-----------------------------------------------------------------------------
(* Properties.                                                             *)

(* What a request does when it runs alone, as module ExamAttempts says.    *)
Effects(d, r) ==
  CASE r.op = "update" /\ r.to = "timed_out" -> {Read(d, Exam, r.slot)}
    [] r.op = "update" /\ r.to # "timed_out" -> {Update(d, Exam, r.slot, r.to, FALSE)}
    [] r.op = "acknowledge" -> {d}
    [] r.op = "release" ->
         {IF d.att[Exam][r.slot].resumable
          THEN [d EXCEPT !.att[Exam][r.slot] = Copy(@, r)] ELSE d}
    [] r.op = "remove" -> {Removed(d, Exam, r.slot)}
    [] r.op \in {"resume", "create"} ->
         {CreateAttempt(d, Exam, TRUE, outcome) : outcome \in Outcomes(Exam, TRUE)}

(* A request that nothing else overlaps, and one that overlaps nothing but *)
(* repetitions of itself (a double click, a second tab, a retry), leaves   *)
(* what the same request leaves when it runs alone, once.                  *)
FallsQuiet == Running # {} /\ Running' = {}

RepeatedIsOnce ==
  [][FallsQuiet => \A r \in since.requests :
       since.requests = {r} => db' \in Effects(since.db, r)]_raceVars

(* The attempts at an exam may be verified at the same time: when they all *)
(* are, the credit requirement is satisfied, whichever request saved last  *)
(* and whichever counted the verified attempts first.                      *)
VerifiersSettleCredit ==
  [][FallsQuiet /\ since.requests # {} /\ (\A r \in since.requests : Verifies(r))
       => (AllVerified(db', Exam) => db'.credit[Exam] = "satisfied")]_raceVars

(* However requests overlap, a row keeps its flags and its status in line, *)
(* since it is saved as a whole; so does every copy of it yet to be saved. *)
CopiesSound == RowsSound /\ \A w \in Workers : RowSound(Exam, work[w].row)

-----------------------------------------------------------------------------
(* What comments in the code say, and overlapping requests do not keep to. *)

(* create_exam_attempt: an attempt in error "must be marked as ready to    *)
(* resume, and another attempt must be made [...] This is the only case    *)
(* where multiple attempts for the same exam should exist".                *)
MultipleOnlyToResume == SupersededIsResumed
=============================================================================
