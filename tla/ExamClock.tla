----------------------------- MODULE ExamClock -----------------------------
(***************************************************************************)
(* The time of the attempts, in seconds: how much is allowed at a start,   *)
(* what the due date leaves of it, what an interrupted attempt keeps for   *)
(* the one that resumes it, and who changes it (course team, staff).       *)
(* ExamAttempts knows only that the time allowed is over: here that is so  *)
(* when the clock says so.  A request takes place within a second, after   *)
(* its beginning and before its end.                                       *)
(***************************************************************************)
EXTENDS ExamAttempts, Integers, FiniteSetsExt

CONSTANTS
  Minute,       \* seconds in a minute
  Horizon,      \* bound: seconds the clock runs
  Limit,        \* time_limit_mins of each exam
  DueDates,     \* due dates an exam with a date may have
  Allowances,   \* additional time staff grant, in minutes
  Multipliers   \* time multipliers staff grant, in halves

NoDate == 0

ASSUME ClockAssumption ==
  /\ Minute \in Nat \ {0} /\ Horizon \in Nat
  /\ Limit \in [Exams -> Nat \ {0}] /\ DueDates \subseteq Nat \ {NoDate}
  /\ Allowances \subseteq Nat /\ \A k \in Multipliers : k \in Nat /\ k >= 2

VARIABLES
  now,      \* seconds since the beginning
  due,      \* due date of each exam for the learner
  extra,    \* minutes of the allowance additional_time_granted, 0 if none
  times,    \* the times of each attempt
  most,     \* history: the most minutes the learner ever had a right to
  advanced  \* history: exams whose due date was brought forward

clockVars == <<db, pastDue, now, due, extra, times, most, advanced>>

(* started_at, allowed_time_limit_mins and time_remaining_seconds (a zero  *)
(* is treated like no value); with the seconds the attempt has been        *)
(* running, and whether the learner has been given the time afresh: it, or *)
(* an attempt that it continues, resumes one that had no time stored.      *)
Times == [since : Nat, mins : Nat, remaining : Nat, run : Nat, afresh : BOOLEAN]

NoTimes == [since |-> 0, mins |-> 0, remaining |-> 0, run |-> 0, afresh |-> FALSE]

-----------------------------------------------------------------------------
(* Time allowed and time left.                                             *)

(* Mutant of AllowedMins: the allowance is added to a remaining time too.  *)
AllowedMinsAdded(e, remaining) ==
  extra[e] + IF remaining > 0 THEN remaining \div Minute ELSE Limit[e]

(* Mutant of ClippedMins: the due date does not matter.                    *)
UnclippedMins(e, mins) == mins

ClippedMins(e, mins) ==
  IF due[e] = NoDate \/ now + mins * Minute < due[e] THEN mins
  ELSE IF due[e] > now THEN (due[e] - now - 1) \div Minute
  ELSE 0

AllowedMins(e, remaining) ==
  IF remaining > 0 THEN remaining \div Minute ELSE Limit[e] + extra[e]

MinsFor(e, remaining) == ClippedMins(e, AllowedMins(e, remaining))

EndOf(e, i) == times[e][i].since + times[e][i].mins * Minute

(* Stored as an integer, the time remaining loses its last fraction of a   *)
(* second.                                                                 *)
TimeRemaining(e, i) ==
  IF db.att[e][i].started /\ EndOf(e, i) > now THEN EndOf(e, i) - now - 1 ELSE 0

Runs(e, i) ==
  LET a == db.att[e][i]
  IN a.row = "live" /\ a.started /\ ~ a.expired /\ a.status \in Incomplete

(* What a new attempt takes over from the one it resumes.                  *)
Resumes(e) == HasAttempt(db, e) /\ InResumeProcess(db.att[e][Latest(db, e)])

Inherited(e) == IF Resumes(e) THEN times[e][Latest(db, e)].remaining ELSE 0

StartsAfresh(e) ==
  Resumes(e) /\ (Inherited(e) = 0 \/ times[e][Latest(db, e)].afresh)

-----------------------------------------------------------------------------
(* Requests: those of ExamAttempts, each with its effect on the times.     *)

Timed(e) ==
  [i \in Slots |->
     LET isNew     == db.att[e][i].row = "unused" /\ db'.att[e][i].row = "live"
         begins    == db'.att[e][i].started /\ ~ db.att[e][i].started
         remaining == IF isNew THEN Inherited(e) ELSE times[e][i].remaining
     IN [times[e][i] EXCEPT
           !.remaining = remaining,
           !.afresh    = @ \/ (isNew /\ StartsAfresh(e)),
           !.since     = IF begins THEN now ELSE @,
           !.mins      = IF begins THEN MinsFor(e, remaining) ELSE @]]

EnterOrResume(e) ==
  \E proctored, startClock \in BOOLEAN :
    /\ "created" \in Outcomes(e, proctored)
    /\ Post(e, proctored, startClock, "created",
            startClock /\ MinsFor(e, Inherited(e)) = 0)

(* The time is computed from the attempt that is current after the read.   *)
StartClock(e, i) ==
  LET k == Latest(Read(db, e, i), e)
  IN Start(e, i, MinsFor(e, times[e][k].remaining) = 0)

TimedRequest(e) ==
  /\ \/ EnterOrResume(e)
     \/ \E i \in Slots :
          \/ StartClock(e, i) \/ Stop(e, i) \/ Submit(e, i) \/ Poll(e, i)
          \/ MarkReadyToResume(e, i) \/ Delete(e, i)
  /\ times' = [times EXCEPT ![e] = Timed(e)]
  /\ UNCHANGED <<now, due, extra, most, advanced>>

(* The page reports that the proctoring software is lost: the time that    *)
(* remains is stored before the attempt is put in error.                   *)
ReportError(e, i) ==
  /\ Error(e, i)
  /\ times' = IF Read(db, e, i).att[e][i].status = "submitted" THEN times
              ELSE [times EXCEPT ![e][i].remaining = TimeRemaining(e, i)]
  /\ UNCHANGED <<now, due, extra, most, advanced>>

-----------------------------------------------------------------------------
(* The clock, the course team and staff.                                   *)

IsPassed(date, time) == date # NoDate /\ date <= time

Tick ==
  /\ now < Horizon
  /\ now' = now + 1
  /\ db' = [db EXCEPT !.att = [e \in Exams |-> [i \in Slots |->
       [db.att[e][i] EXCEPT
          !.expired = @ \/ (db.att[e][i].started /\ EndOf(e, i) <= now + 1)]]]]
  /\ pastDue' = {e \in Exams : IsPassed(due[e], now + 1)}
  /\ times' = [e \in Exams |-> [i \in Slots |->
       [times[e][i] EXCEPT !.run = IF Runs(e, i) THEN @ + 1 ELSE @]]]
  /\ UNCHANGED <<due, extra, most, advanced>>

(* The course is published with another date, or the learner gets one of   *)
(* their own.                                                              *)
MoveDue(e) ==
  /\ e \in Dated
  /\ \E date \in DueDates \cup {NoDate} :
       /\ due' = [due EXCEPT ![e] = date]
       /\ pastDue' = (pastDue \ {e}) \cup (IF IsPassed(date, now) THEN {e} ELSE {})
       /\ advanced' = IF date # NoDate /\ (due[e] = NoDate \/ date < due[e])
                      THEN advanced \cup {e} ELSE advanced
  /\ UNCHANGED <<db, now, extra, times, most>>

Granted(minutes) ==
  /\ extra' = minutes
  /\ most' = [e \in Exams |-> Max({most[e], Limit[e] + minutes[e]})]
  /\ UNCHANGED <<db, pastDue, now, due, times, advanced>>

(* An allowance replaces the one the learner had; an attempt that has been *)
(* started keeps the time it was started with.                             *)
AddAllowance(e) == \E mins \in Allowances : Granted([extra EXCEPT ![e] = mins])

RemoveAllowance(e) == Granted([extra EXCEPT ![e] = 0])

(* round: a half goes to the even neighbour.                               *)
Rounded(halves) ==
  LET whole == halves \div 2
  IN IF halves % 2 = 1 /\ whole % 2 = 1 THEN whole + 1 ELSE whole

AddBulkAllowances ==
  \E k \in Multipliers : Granted([e \in Exams |-> Rounded(Limit[e] * (k - 2))])

ClockInit ==
  /\ Init
  /\ now = 0
  /\ due \in [Exams -> DueDates \cup {NoDate}]
  /\ \A e \in Exams \ Dated : due[e] = NoDate
  /\ extra = [e \in Exams |-> 0]
  /\ times = [e \in Exams |-> [i \in Slots |-> NoTimes]]
  /\ most = Limit
  /\ advanced = {}

ClockedNext ==
  \/ Tick
  \/ AddBulkAllowances
  \/ \E e \in Exams :
       \/ TimedRequest(e)
       \/ \E i \in Slots : ReportError(e, i)
       \/ MoveDue(e) \/ AddAllowance(e) \/ RemoveAllowance(e)

ClockSpec == ClockInit /\ [][ClockedNext]_clockVars

-----------------------------------------------------------------------------
(* Properties.                                                             *)

(* However often an attempt is interrupted and resumed, and whatever staff *)
(* and the course team do in between, the learner gets no more time over   *)
(* all the attempts than limit and allowance gave a right to, but for      *)
(* practice.  The exception is an attempt that resumes one with no time    *)
(* stored, which starts afresh: an error in the last second, or one that   *)
(* is reported again when the time is over, leaves a zero, which counts as *)
(* no value.                                                               *)
NoTimeGained ==
  \A e \in SatOnce :
    (\A i \in Live(db, e) : ~ times[e][i].afresh)
      => MapThenSumSet(LAMBDA i : times[e][i].run, Live(db, e))
           <= most[e] * Minute

(* When the due date has passed no attempt is running any more, however    *)
(* late it was started, resumed or given an allowance, unless the date was *)
(* brought forward: the page may show the exam as over (ContentInTime).    *)
OverByDueDate ==
  \A e \in pastDue \ advanced : \A i \in Slots : ~ Runs(e, i)
=============================================================================
