-------------------------- MODULE ExamClock_proofs --------------------------
(***************************************************************************)
(* Proofs about ExamClock: when the due date of an exam has passed, no     *)
(* attempt at it is running; and over all the attempts at an exam, however *)
(* they are interrupted and resumed, the learner gains no time.            *)
(***************************************************************************)
EXTENDS ExamClock, ExamAttempts_proofs

-----------------------------------------------------------------------------
(* Time that is allowed.                                                   *)

(* A division rounds down.                                                 *)
LEMMA DivisionRoundsDown ==
  ASSUME NEW a \in Nat, NEW b \in Nat \ {0}
  PROVE  a \div b \in Nat /\ (a \div b) * b <= a
  OBVIOUS

(* At least a minute is at least a second.                                 *)
LEMMA MinutesLast ==
  ASSUME NEW a \in Nat, NEW b \in Nat \ {0}
  PROVE  a * b \in Nat /\ (a # 0 => a * b > 0)
  OBVIOUS

(* Half minutes are rounded to minutes.                                    *)
LEMMA RoundedNat ==
  ASSUME NEW halves \in Nat
  PROVE  Rounded(halves) \in Nat
  BY DEF Rounded

-----------------------------------------------------------------------------
(* Which requests start the clock of an attempt.                           *)

(* The attempt was started and its time is not over, whatever its status.  *)
Ticking(a) == a.started /\ ~ a.expired

(* A slot that is not used yet has nothing to its account.                 *)
Spoilt(a) == a.row = "unused" /\ a.started

(* No clock starts in a row.                                               *)
NoStart(a, b) ==
  /\ Ticking(b) => Ticking(a) /\ b.row = a.row
  /\ Spoilt(b) => Spoilt(a)
  /\ b.started => a.started

(* A clock starts in a row, unless the time that is allowed is none.       *)
Starts(a, b, none) ==
  ~ a.started /\ ~ Spoilt(b) /\ (Ticking(b) => ~ none /\ b.row = "live")

Quiet(d, d1) == \A f \in Exams, j \in Slots : NoStart(d.att[f][j], d1.att[f][j])

(* Only the clock of attempt k at exam e may start.                        *)
StartsAt(d, d1, e, k, none) ==
  \A f \in Exams, j \in Slots :
    \/ NoStart(d.att[f][j], d1.att[f][j])
    \/ f = e /\ j = k /\ Starts(d.att[f][j], d1.att[f][j], none)

(* Before and after a start, nothing else starts.                          *)
LEMMA QuietTransitive ==
  ASSUME NEW d, NEW d1, NEW d2
  PROVE  /\ Quiet(d, d)
         /\ Quiet(d, d1) /\ Quiet(d1, d2) => Quiet(d, d2)
         /\ \A e, k, n : StartsAt(d, d1, e, k, n) /\ Quiet(d1, d2) => StartsAt(d, d2, e, k, n)
         /\ \A e, k, n : Quiet(d, d1) => StartsAt(d, d1, e, k, n)
  BY DEF Quiet, StartsAt, NoStart, Starts

(* A row that is saved with another status than "started", or had been     *)
(* started before, or is not started with no time.                         *)
LEMMA SavedQuiet ==
  ASSUME NEW a \in Attempt, NEW to, NEW s \in BOOLEAN, NEW n \in BOOLEAN,
         NEW b, b = Saved(a, to, s, n)
  PROVE  /\ \/ EffectiveStatus(a.status, to, AllowTimedOut) # "started"
            \/ a.started
            => NoStart(a, b)
         /\ a.row = "live" => NoStart(a, b) \/ Starts(a, b, n)
         /\ b.started = (a.started \/ EffectiveStatus(a.status, to, AllowTimedOut) = "started")
<1> DEFINE new == EffectiveStatus(a.status, to, AllowTimedOut)
<1>1. /\ b.row = a.row
      /\ b.started = (a.started \/ (new = "started" /\ ~ a.started))
      /\ b.expired = IF new = "started" /\ ~ a.started THEN n ELSE a.expired
  BY DEF Saved, Attempt
<1> HIDE DEF new
<1>2. a.started \in BOOLEAN /\ a.expired \in BOOLEAN
  BY DEF Attempt
<1>3. new # "started" \/ a.started => NoStart(a, b)
  BY <1>1, <1>2 DEF NoStart, Ticking, Spoilt
<1>4. new = "started" /\ ~ a.started /\ a.row = "live" => Starts(a, b, n)
  BY <1>1, <1>2 DEF Starts, Ticking, Spoilt
<1>5. b.started = (a.started \/ new = "started")
  BY <1>1, <1>2
<1> QED
  BY <1>3, <1>4, <1>5 DEF new

(* To save such a row, in a slot that there is.                            *)
LEMMA SaveQuiet ==
  ASSUME NEW d, Sound(d), NEW e \in Exams, NEW i, NEW to, CanHave(e, to),
         NEW s \in BOOLEAN, NEW n \in BOOLEAN,
         i \in Slots =>
           IsLegal(d.att[e][i].status,
                   EffectiveStatus(d.att[e][i].status, to, AllowTimedOut)),
         NEW d1, d1 = SaveStatus(d, e, i, to, s, n)
  PROVE  /\ EffectiveStatus(d.att[e][i].status, to, AllowTimedOut) # "started"
              => Quiet(d, d1)
         /\ i \in Live(d, e) => StartsAt(d, d1, e, i, n)
<1>1. OthersKept(d, d1, e, i)
  BY SaveStatusSound
<1>2. i \in Slots => d1.att[e][i] = Saved(d.att[e][i], to, s, n)
  BY SaveStatusDoes
<1>3. i \in Slots => d.att[e][i] \in Attempt
  BY DEF Sound, RowSound
<1>4. \A a : NoStart(a, a)
  BY DEF NoStart
<1>5. ASSUME EffectiveStatus(d.att[e][i].status, to, AllowTimedOut) # "started"
      PROVE  Quiet(d, d1)
  <2>1. i \in Slots => NoStart(d.att[e][i], d1.att[e][i])
    BY <1>2, <1>3, <1>5, SavedQuiet
  <2> QED BY <1>1, <1>4, <2>1 DEF OthersKept, Quiet
<1>6. ASSUME i \in Live(d, e) PROVE StartsAt(d, d1, e, i, n)
  <2>1. i \in Slots /\ d.att[e][i].row = "live"
    BY <1>6 DEF Live
  <2>2. \/ NoStart(d.att[e][i], d1.att[e][i])
        \/ Starts(d.att[e][i], d1.att[e][i], n)
    BY <1>2, <1>3, <2>1, SavedQuiet
  <2> QED BY <1>1, <1>4, <2>2 DEF OthersKept, StartsAt
<1> QED
  BY <1>5, <1>6

(* What is cleared, removed or read starts nothing.                        *)
LEMMA ClearQuiet ==
  ASSUME NEW d, Sound(d), NEW e \in Exams, NEW to
  PROVE  Quiet(d, ClearOnboardingErrors(d, e, to))
<1>1. \A a : NoStart(a, a) /\ NoStart(a, Archived)
  BY DEF NoStart, Ticking, Spoilt, Archived, NoRow
<1> QED
  BY <1>1, ClearOnboardingErrorsSound DEF Quiet

(* A read starts nothing: an attempt that it times out stays as started    *)
(* as it was, and no attempt appears.                                      *)
LEMMA ReadQuiet ==
  ASSUME NEW d, Sound(d), NEW e \in Exams, NEW i, NEW d1, d1 = Read(d, e, i)
  PROVE  /\ Quiet(d, d1)
         /\ \A j \in Live(d1, e) :
              d.att[e][j].row = "live" /\ d1.att[e][j].started = d.att[e][j].started
<1>1. CASE ~ Overdue(d.att[e][i])
  BY <1>1, ReadSound, QuietTransitive DEF Live
<1>2. CASE Overdue(d.att[e][i])
  <2>1. \A n \in BOOLEAN, s \in BOOLEAN : s /\ ~ n =>
          d1 = ClearOnboardingErrors(
                 SaveStatus(d, e, i, "timed_out", s, n), e, "submitted")
    BY <1>2, Zenon DEF Read
  <2>2. PICK s \in BOOLEAN, n \in BOOLEAN : s /\ ~ n
    OBVIOUS
  <2> DEFINE x == SaveStatus(d, e, i, "timed_out", s, n)
  <2>3. d1 = ClearOnboardingErrors(x, e, "submitted")
    BY <2>1, <2>2
  <2>4. "timed_out" \in Completed /\ CanHave(e, "timed_out")
    BY DEF Completed, CanHave, Status, ValidStatus
  <2>5. IsLegal(d.att[e][i].status,
                EffectiveStatus(d.att[e][i].status, "timed_out", AllowTimedOut))
    BY <2>4, EndingIsLegal
  <2>6. EffectiveStatus(d.att[e][i].status, "timed_out", AllowTimedOut) # "started"
    BY DEF EffectiveStatus
  <2>7. /\ Sound(x) /\ OthersKept(d, x, e, i) /\ Quiet(d, x)
    BY <2>4, <2>5, <2>6, SaveStatusSound, SaveQuiet
  <2>8. i \in Slots => x.att[e][i] = Saved(d.att[e][i], "timed_out", s, n)
    BY <2>4, <2>5, SaveStatusDoes
  <2> HIDE DEF x
  <2>9. Quiet(d, d1)
    BY <2>3, <2>7, ClearQuiet, QuietTransitive
  <2>10. \A j \in Slots : x.att[e][j].row = d.att[e][j].row
                          /\ x.att[e][j].started = d.att[e][j].started
    <3>1. \A j \in Slots : d.att[e][j] \in Attempt
      BY DEF Sound, RowSound
    <3>2. i \in Slots => x.att[e][i].started = d.att[e][i].started
                         /\ x.att[e][i].row = d.att[e][i].row
      <4>1. \A a \in Attempt : a.started \in BOOLEAN
        BY DEF Attempt
      <4>2. i \in Slots => x.att[e][i].row = d.att[e][i].row
        BY <2>8, <3>1 DEF Saved, Attempt
      <4> QED BY <2>6, <2>8, <3>1, <4>1, <4>2, SavedQuiet
    <3> QED BY <2>7, <3>2 DEF OthersKept
  <2>11. \A j \in Slots : d1.att[e][j] \in {x.att[e][j], Archived}
    BY <2>3, <2>7, ClearOnboardingErrorsSound
  <2>12. Archived.row # "live"
    BY DEF Archived, NoRow
  <2> QED BY <2>9, <2>10, <2>11, <2>12 DEF Live
<1> QED
  BY <1>1, <1>2

(* Writing a row in which nothing starts.                                  *)
LEMMA WriteQuiet ==
  ASSUME NEW d, Sound(d), NEW e \in Exams, NEW i, NEW row,
         i \in Slots => RowSound(e, row) /\ NoStart(d.att[e][i], row),
         NEW d1, d1 = WithRow(d, e, i, row)
  PROVE  Sound(d1) /\ Quiet(d, d1)
<1>1. \A a : NoStart(a, a)
  BY DEF NoStart
<1> QED
  BY <1>1, WriteRowSound DEF Quiet

(* An attempt that is made has not been started.                           *)
LEMMA NewAttemptQuiet ==
  ASSUME NEW d, Sound(d), NEW e \in Exams, NEW status, CanHave(e, status),
         status # "error", NEW proctored \in BOOLEAN,
         NEW d1, d1 = NewAttempt(d, e, status, proctored)
  PROVE  Sound(d1) /\ Quiet(d, d1)
<1> DEFINE row == [NoRow EXCEPT
                     !.row = "live", !.status = status, !.proctored = proctored,
                     !.registered = proctored /\ status = "created"]
<1>1. d1 = WithRow(d, e, FreshSlot(d, e), row)
  BY DEF NewAttempt, WithRow
<1>2. RowSound(e, row)
  BY DEF RowSound, CanHave, NoRow, Attempt, InResumeProcess
<1>3. \A a : NoStart(a, row)
  BY DEF NoStart, Ticking, Spoilt, NoRow
<1> HIDE DEF row
<1> QED
  BY <1>1, <1>2, <1>3, WriteQuiet

(* The cascade of a decline makes and declines, and starts nothing.        *)
LEMMA DeclinedTooQuiet ==
  ASSUME NEW d, Sound(d), NEW f \in Exams
  PROVE  Quiet(d, DeclinedToo(d, f))
<1> DEFINE d1 == IF HasAttempt(d, f) THEN Read(d, f, Latest(d, f))
                 ELSE NewAttempt(d, f, "created", FALSE)
           i  == Latest(d1, f)
           d2 == SaveStatus(d1, f, i, "declined", FALSE, FALSE)
<1>1. CanHave(f, "created") /\ CanHave(f, "declined") /\ "declined" \in Completed
  BY DEF CanHave, Status, ValidStatus, Completed, Incomplete, PreStarted
<1>2. Sound(Read(d, f, Latest(d, f))) /\ Quiet(d, Read(d, f, Latest(d, f)))
  BY ReadSound, ReadQuiet
<1>3. \A p \in BOOLEAN : Sound(NewAttempt(d, f, "created", p))
                         /\ Quiet(d, NewAttempt(d, f, "created", p))
  BY <1>1, NewAttemptQuiet
<1>4. Sound(NewAttempt(d, f, "created", FALSE)) /\ Quiet(d, NewAttempt(d, f, "created", FALSE))
  BY <1>3, Zenon
<1>5. Sound(d1) /\ Quiet(d, d1)
  BY <1>2, <1>4
<1>6. DeclinedToo(d, f) \in {d1, d2}
  BY DEF DeclinedToo
<1> HIDE DEF d1, i
<1>7. IsLegal(d1.att[f][i].status,
              EffectiveStatus(d1.att[f][i].status, "declined", AllowTimedOut))
  BY <1>1, EndingIsLegal
<1>8. EffectiveStatus(d1.att[f][i].status, "declined", AllowTimedOut) # "started"
  BY DEF EffectiveStatus
<1>9. ASSUME NEW s \in BOOLEAN, NEW n \in BOOLEAN
      PROVE  Quiet(d1, SaveStatus(d1, f, i, "declined", s, n))
  BY <1>1, <1>5, <1>7, <1>8, SaveQuiet
<1>10. Quiet(d1, d2)
  BY <1>9, Zenon
<1> HIDE DEF d2
<1>11. DeclinedToo(d, f) = d1 \/ DeclinedToo(d, f) = d2
  BY <1>6
<1>12. Quiet(d, d2)
  BY <1>5, <1>10, QuietTransitive
<1> QED
  BY <1>5, <1>11, <1>12

(* The cascade as a whole starts nothing.                                  *)
LEMMA CascadeQuiet ==
  ASSUME NEW d, Sound(d), NEW e \in Exams
  PROVE  Quiet(d, Cascade(d, e))
<1> DEFINE visited(f) == IF f \in OtherProctored(e) THEN DeclinedToo(d, f) ELSE d
<1>1. \A f \in Exams : Quiet(d, visited(f))
  BY DeclinedTooQuiet, QuietTransitive
<1>2. \A f \in Exams : Cascade(d, e).att[f] = visited(f).att[f]
  BY DEF Cascade
<1> HIDE DEF visited
<1> QED
  BY <1>1, <1>2 DEF Quiet

(* update_attempt_status starts the attempt it is asked to start.          *)
LEMMA UpdateStarts ==
  ASSUME NEW d, Sound(d), NEW e \in Exams, NEW i \in Live(d, e), NEW to, CanHave(e, to),
         to = "started" => i = Latest(d, e), NEW n \in BOOLEAN,
         NEW d3, d3 = Update(d, e, i, to, n)
  PROVE  /\ StartsAt(d, d3, e, i, n)
         /\ to # "started" => Quiet(d, d3)
<1> DEFINE a   == d.att[e][i]
           new == EffectiveStatus(a.status, to, AllowTimedOut)
<1>1. i \in Slots /\ HasAttempt(d, e)
  BY DEF Live, HasAttempt
<1>2. new = "started" => to = "started"
  BY DEF EffectiveStatus
<1>3. CASE ~ IsLegal(a.status, new)
  <2>1. d3 = d
    BY <1>3, Zenon DEF Update
  <2> QED BY <2>1, QuietTransitive
<1>4. CASE IsLegal(a.status, new)
  <2>1. new = "started" /\ ~ a.started => AllowedTimeRead(d, e) = d
    <3>1. ~ Overdue(a) => Read(d, e, i) = d
      BY ReadSound
    <3> QED BY <1>1, <1>2, <3>1 DEF AllowedTimeRead, Overdue
  <2>2. \A s \in BOOLEAN : ~ s =>
          \E x, y : /\ x = SaveStatus(d, e, i, to, s, n)
                    /\ y \in {x, Cascade(Withdrawn(x, e, i), e)}
                    /\ d3 = ClearOnboardingErrors(Read(y, e, i), e, new)
    <3>1. ASSUME NEW x, x = SaveStatus(d, e, i, to, FALSE, n)
          PROVE  \E y : /\ y \in {x, Cascade(Withdrawn(x, e, i), e)}
                        /\ d3 = ClearOnboardingErrors(Read(y, e, i), e, new)
      BY <1>4, <2>1, <3>1, Zenon DEF Update
    <3> QED BY <3>1, Zenon
  <2>3. PICK s \in BOOLEAN : ~ s
    OBVIOUS
  <2>4. PICK x, y : /\ x = SaveStatus(d, e, i, to, s, n)
                    /\ y \in {x, Cascade(Withdrawn(x, e, i), e)}
                    /\ d3 = ClearOnboardingErrors(Read(y, e, i), e, new)
    BY <2>2, <2>3
  <2>5. /\ Sound(x) /\ StartsAt(d, x, e, i, n)
        /\ to # "started" => Quiet(d, x)
    BY <1>1, <1>2, <1>4, <2>4, SaveStatusSound, SaveQuiet
  <2>6. Sound(Withdrawn(x, e, i)) /\ Quiet(x, Withdrawn(x, e, i))
    <3> DEFINE row == [x.att[e][i] EXCEPT !.proctored = FALSE,
                                          !.registered = FALSE]
    <3>1. Withdrawn(x, e, i) = WithRow(x, e, i, row)
      BY DEF WithRow, Withdrawn
    <3>2. RowSound(e, row) /\ NoStart(x.att[e][i], row)
      <4>1. \A r : RowSound(e, r) => RowSound(e,
                    [r EXCEPT !.proctored = FALSE, !.registered = FALSE])
        BY WithdrawnSound
      <4>2. \A r \in Attempt : NoStart(r,
                    [r EXCEPT !.proctored = FALSE, !.registered = FALSE])
        BY DEF NoStart, Ticking, Spoilt, Attempt
      <4> QED BY <1>1, <2>5, <4>1, <4>2 DEF Sound, RowSound
    <3> HIDE DEF row
    <3> QED BY <2>5, <3>1, <3>2, WriteQuiet
  <2>7. Sound(y) /\ Quiet(x, y)
    BY <2>4, <2>5, <2>6, CascadeSound, CascadeQuiet, QuietTransitive
  <2>8. Quiet(x, d3)
    BY <2>4, <2>7, ReadSound, ReadQuiet, ClearQuiet, QuietTransitive
  <2> QED BY <2>5, <2>8, QuietTransitive
<1> QED
  BY <1>3, <1>4

(* Making an attempt starts nothing either.                                *)
LEMMA CreateQuiet ==
  ASSUME NEW d, Sound(d), NEW e \in Exams, NEW proctored \in BOOLEAN,
         NEW d1, d1 = CreateAttempt(d, e, proctored, "created")
  PROVE  Quiet(d, d1)
<1> DEFINE dm == MarkedResumed(d, e)
           dr == IF proctored THEN AllowedTimeRead(dm, e) ELSE dm
<1>1. Sound(dm) /\ Quiet(d, dm)
  <2> DEFINE i   == Latest(d, e)
             row == [d.att[e][i] EXCEPT !.resumed = TRUE, !.resumable = FALSE]
  <2>1. CASE HasAttempt(d, e) /\ InResumeProcess(d.att[e][i])
    <3>1. dm = WithRow(d, e, i, row)
      BY <2>1 DEF MarkedResumed, WithRow
    <3>2. RowSound(e, row) /\ NoStart(d.att[e][i], row)
      <4>1. \A a : RowSound(e, a) /\ InResumeProcess(a) =>
              RowSound(e, [a EXCEPT !.resumed = TRUE, !.resumable = FALSE])
        BY DEF RowSound, Attempt, InResumeProcess
      <4>2. \A a \in Attempt : NoStart(a, [a EXCEPT !.resumed = TRUE, !.resumable = FALSE])
        BY DEF NoStart, Ticking, Spoilt, Attempt
      <4>3. RowSound(e, d.att[e][i]) /\ d.att[e][i] \in Attempt
        BY <2>1, LatestIsLive DEF Sound, RowSound
      <4> QED BY <2>1, <4>1, <4>2, <4>3
    <3> HIDE DEF row, dm
    <3> QED BY <3>1, <3>2, WriteQuiet
  <2>2. CASE ~ (HasAttempt(d, e) /\ InResumeProcess(d.att[e][i]))
    BY <2>2, QuietTransitive DEF MarkedResumed
  <2> QED BY <2>1, <2>2
<1>2. d1 = d \/ d1 = dm \/ d1 = dr \/ d1 = NewAttempt(dr, e, "created", proctored)
  BY DEF CreateAttempt
<1> HIDE DEF dm
<1>3. Sound(dr) /\ Quiet(d, dr)
  BY <1>1, ReadSound, ReadQuiet, QuietTransitive DEF AllowedTimeRead
<1> HIDE DEF dr
<1>4. ASSUME d1 = NewAttempt(dr, e, "created", proctored) PROVE Quiet(d, d1)
  <2>1. CanHave(e, "created")
    BY DEF CanHave, Status, ValidStatus, Incomplete, PreStarted
  <2>2. Quiet(dr, d1)
    BY <1>3, <1>4, <2>1, NewAttemptQuiet
  <2> QED BY <1>3, <2>2, QuietTransitive
<1> QED
  BY <1>1, <1>2, <1>3, <1>4, QuietTransitive

-----------------------------------------------------------------------------
(* The requests.                                                           *)

(* Nothing is to the account of a slot that is not used yet.               *)
NoneSpoilt(d) == \A e \in Exams, i \in Slots : ~ Spoilt(d.att[e][i])

(* To enter or resume an exam may start the attempt that is made.          *)
LEMMA PostStarts ==
  ASSUME InLine(db), NoneSpoilt(db), NEW e \in Exams, NEW proctored \in BOOLEAN,
         NEW startClock \in BOOLEAN, NEW n \in BOOLEAN,
         "created" \in Outcomes(e, proctored),
         Post(e, proctored, startClock, "created", n)
  PROVE  \/ Quiet(db, db')
         \/ startClock /\ \E k \in Unused(db, e) : StartsAt(db, db', e, k, n)
<1> DEFINE d1 == CreateAttempt(db, e, proctored, "created")
<1>1. Unused(db, e) # {} /\ Sound(db)
  BY DEF Post, RoomToCreate, InLine
<1>2. Goes(db, db, "timed_out") /\ \A f \in Exams \ {e} : FinishedKept(db, db, f)
  BY GoesSimple DEF InLine, Honest, FinishedKept
<1>3. Creates(db, e, proctored, "created") => Created(db, d1, e)
  BY <1>1, <1>2, CreateAttemptDoes
<1>4. Quiet(db, d1)
  BY <1>1, CreateQuiet
<1>5. db' = IF ~ Creates(db, e, proctored, "created") THEN d1
            ELSE IF Kind[e] # "timed" /\ ~ proctored
            THEN Update(d1, e, Latest(d1, e), "declined", FALSE)
            ELSE IF startClock THEN StartLatest(d1, e, n)
            ELSE d1
  BY DEF Post
<1> HIDE DEF d1
<1>6. CASE db' = d1
  BY <1>4, <1>6
<1>7. CASE db' # d1
  <2> DEFINE k == Latest(d1, e)
  <2>1. Sound(d1) /\ k \in Unused(db, e) /\ k \in Live(d1, e)
    BY <1>3, <1>5, <1>7 DEF Created, InLine
  <2>2. CanHave(e, "declined") /\ CanHave(e, "started")
    BY DEF CanHave, Status, ValidStatus, Completed, Incomplete, InProgress
  <2>3. \/ db' = Update(d1, e, k, "declined", FALSE)
        \/ startClock /\ db' = Update(d1, e, k, "started", n)
    BY <1>5, <1>7 DEF StartLatest
  <2> HIDE DEF k
  <2>4. ASSUME db' = Update(d1, e, k, "declined", FALSE) PROVE Quiet(db, db')
    <3>1. \A m \in BOOLEAN : ~ m => db' = Update(d1, e, k, "declined", m)
      BY <2>4, Zenon
    <3>2. ASSUME NEW m \in BOOLEAN, ~ m PROVE Quiet(d1, db')
      <4>1. db' = Update(d1, e, k, "declined", m)
        BY <3>1, <3>2
      <4>2. "declined" # "started"
        OBVIOUS
      <4> QED BY <2>1, <2>2, <4>1, <4>2, UpdateStarts
    <3>3. Quiet(d1, db')
      BY <3>2
    <3> QED BY <1>4, <3>3, QuietTransitive
  <2>5. ASSUME db' = Update(d1, e, k, "started", n) PROVE StartsAt(db, db', e, k, n)
    <3>1. StartsAt(d1, db', e, k, n)
      BY <2>1, <2>2, <2>5, UpdateStarts DEF k
    <3>2. k \in Slots /\ ~ db.att[e][k].started
      BY <2>1 DEF NoneSpoilt, Spoilt, Unused
    <3> QED BY <1>4, <3>1, <3>2 DEF StartsAt, Quiet, NoStart, Starts
  <2> QED BY <2>1, <2>3, <2>4, <2>5
<1> QED
  BY <1>6, <1>7

(* Start starts the attempt that is current after the read.                *)
LEMMA StartStarts ==
  ASSUME InLine(db), NEW e \in Exams, NEW i \in Slots, NEW n \in BOOLEAN,
         Start(e, i, n), NEW k, k = Latest(Read(db, e, i), e)
  PROVE  \/ Quiet(db, db')
         \/ k \in Live(db, e) /\ StartsAt(db, db', e, k, n)
<1> DEFINE d1 == Read(db, e, i)
<1>1. Sound(db)
  BY DEF InLine
<1>2. /\ Sound(d1) /\ Quiet(db, d1)
      /\ \A j \in Live(d1, e) :
           db.att[e][j].row = "live" /\ d1.att[e][j].started = db.att[e][j].started
  BY <1>1, ReadSound, ReadQuiet
<1>3. db' = StartLatest(d1, e, n)
  BY DEF Start
<1>4. k = Latest(d1, e)
  BY Zenon DEF d1
<1> HIDE DEF d1
<1>5. CASE db' = d1
  BY <1>2, <1>5
<1>6. CASE db' # d1
  <2>1. HasAttempt(d1, e) /\ db' = Update(d1, e, k, "started", n)
    BY <1>3, <1>4, <1>6 DEF StartLatest
  <2>2. k \in Live(d1, e) /\ CanHave(e, "started")
    BY <1>4, <2>1, LatestIsLive DEF CanHave, Status, ValidStatus, Incomplete, InProgress
  <2>3. StartsAt(d1, db', e, k, n)
    BY <1>2, <1>4, <2>1, <2>2, UpdateStarts
  <2>4. k \in Live(db, e) /\ d1.att[e][k].started = db.att[e][k].started
    BY <1>2, <2>2 DEF Live
  <2>5. StartsAt(db, db', e, k, n)
    BY <1>2, <2>3, <2>4 DEF StartsAt, Quiet, NoStart, Starts
  <2> QED BY <2>4, <2>5
<1> QED
  BY <1>5, <1>6

(* No other request of the learner or of staff starts a clock.             *)
LEMMA OthersQuiet ==
  ASSUME InLine(db), NEW e \in Exams, NEW i \in Slots,
         \/ Stop(e, i) \/ Submit(e, i) \/ Error(e, i) \/ Poll(e, i)
         \/ MarkReadyToResume(e, i) \/ Delete(e, i)
  PROVE  Quiet(db, db')
<1> DEFINE d1   == Read(db, e, i)
           a    == d1.att[e][i]
           row  == [a EXCEPT !.ready = TRUE, !.resumable = FALSE]
           Ends == {"ready_to_submit", "submitted", "error"}
<1>1. /\ i \in Live(db, e)
      /\ \/ db' = d1
         \/ \E to \in Ends : db' = Update(d1, e, i, to, FALSE)
         \/ a.resumable /\ db' = WithRow(d1, e, i, row)
         \/ db' = Removed(d1, e, i)
  BY DEF Stop, Submit, PutStatus, Error, Poll, MarkReadyToResume, Delete, WithRow
<1>2. Honest(db) /\ Sound(db)
  BY DEF InLine, Honest
<1>3. i \in Live(d1, e) /\ Sound(d1) /\ Quiet(db, d1)
  BY <1>1, <1>2, ReadDoes, ReadSound, ReadQuiet
<1>4. \A to \in Ends : CanHave(e, to) /\ to # "started"
  BY DEF CanHave, Status, ValidStatus, Completed, Incomplete, InProgress
<1> HIDE DEF d1, Ends
<1>5. ASSUME NEW to \in Ends, db' = Update(d1, e, i, to, FALSE)
      PROVE  Quiet(d1, db')
  <2>1. ASSUME NEW n \in BOOLEAN, NEW x, x = Update(d1, e, i, to, n)
        PROVE  Quiet(d1, x)
    BY <1>3, <1>4, <2>1, UpdateStarts
  <2> QED BY <1>5, <2>1, Zenon
<1>6. ASSUME a.resumable, db' = WithRow(d1, e, i, row) PROVE Quiet(d1, db')
  <2>1. RowSound(e, a) /\ a \in Attempt /\ i \in Slots
    BY <1>3 DEF Sound, RowSound, Live
  <2>2. RowSound(e, row)
    <3>1. \A r : RowSound(e, r) /\ r.resumable =>
            RowSound(e, [r EXCEPT !.ready = TRUE, !.resumable = FALSE])
      BY DEF RowSound, Attempt, InResumeProcess
    <3> QED BY <1>6, <2>1, <3>1
  <2>3. NoStart(a, row)
    BY <2>1 DEF NoStart, Ticking, Spoilt, Attempt
  <2> HIDE DEF row
  <2> QED BY <1>3, <1>6, <2>2, <2>3, WriteQuiet
<1>7. ASSUME db' = Removed(d1, e, i) PROVE Quiet(d1, db')
  <2>1. db'.att = WithRow(d1, e, i, Archived).att
    BY <1>3, <1>7 DEF Removed, WithRow, Sound, Database
  <2>2. Quiet(d1, WithRow(d1, e, i, Archived))
    <3>1. NoStart(a, Archived) /\ RowSound(e, Archived)
      BY UnusedRowsSound DEF NoStart, Ticking, Spoilt, Archived, NoRow
    <3> QED BY <1>3, <3>1, WriteQuiet
  <2> QED BY <2>1, <2>2 DEF Quiet
<1>8. Quiet(d1, db') \/ db' = d1
  BY <1>1, <1>5, <1>6, <1>7
<1> QED
  BY <1>3, <1>8, QuietTransitive

-----------------------------------------------------------------------------
(* The invariant.                                                          *)

ClockTypes ==
  /\ now \in Nat
  /\ due \in [Exams -> Nat] /\ extra \in [Exams -> Nat]
  /\ times \in [Exams -> [Slots -> Times]]
  /\ \A e \in Exams \ Dated : due[e] = NoDate
  /\ pastDue = {e \in Exams : IsPassed(due[e], now)}

(* An attempt that would still run at time `at' ends later than that, and  *)
(* before a due date that has not been brought forward.                    *)
EndsInTime(end, at, date, forward) ==
  at < end /\ (~ forward /\ date # NoDate => end < date)

TickingInTime ==
  \A e \in Exams, i \in Slots :
    Ticking(db.att[e][i]) => EndsInTime(EndOf(e, i), now, due[e], e \in advanced)

ClockInv == AttemptsInLine /\ NoneSpoilt(db) /\ ClockTypes /\ TickingInTime

(* Of an attempt that ends in time nothing is left when the date has passed. *)
LEMMA ClockInvSafe == ClockInv => OverByDueDate
<1> SUFFICES ASSUME ClockInv, NEW e \in pastDue \ advanced, NEW i \in Slots, Runs(e, i)
             PROVE  FALSE
  BY DEF OverByDueDate
<1>1. e \in Exams /\ due[e] # NoDate /\ due[e] <= now /\ e \notin advanced
  BY DEF ClockInv, ClockTypes, IsPassed
<1>2. Ticking(db.att[e][i])
  BY DEF Runs, Ticking
<1>3. now < EndOf(e, i) /\ EndOf(e, i) < due[e]
  BY <1>1, <1>2 DEF ClockInv, TickingInTime, EndsInTime
<1>4. times[e][i].since \in Nat /\ times[e][i].mins \in Nat
  BY <1>1 DEF ClockInv, ClockTypes, Times
<1>5. EndOf(e, i) \in Nat
  <2>1. times[e][i].mins * Minute \in Nat
    BY <1>4, MinutesLast, ClockAssumption
  <2> QED BY <1>4, <2>1 DEF EndOf
<1>6. now \in Nat /\ due[e] \in Nat
  BY <1>1 DEF ClockInv, ClockTypes
<1> QED
  BY <1>1, <1>3, <1>5, <1>6

(* The time a start is given: it ends in time, or it is none.              *)
LEMMA MinsInTime ==
  ASSUME ClockTypes, NEW e \in Exams, NEW remaining \in Nat,
         NEW mins, mins = MinsFor(e, remaining)
  PROVE  /\ mins \in Nat
         /\ mins # 0 => \A forward :
              EndsInTime(now + mins * Minute, now, due[e], forward)
<1> DEFINE allowed == AllowedMins(e, remaining)
           left    == due[e] - now - 1
<1>1. now \in Nat /\ due[e] \in Nat /\ Minute \in Nat \ {0}
  BY ClockAssumption DEF ClockTypes
<1>2. allowed \in Nat
  <2>1. extra[e] \in Nat /\ Limit[e] \in Nat
    BY ClockAssumption DEF ClockTypes
  <2>2. remaining \div Minute \in Nat
    BY <1>1, DivisionRoundsDown
  <2> QED BY <2>1, <2>2 DEF AllowedMins
<1>3. mins = IF due[e] = NoDate \/ now + allowed * Minute < due[e] THEN allowed
             ELSE IF due[e] > now THEN left \div Minute
             ELSE 0
  BY DEF MinsFor, ClippedMins
<1> HIDE DEF allowed
<1>4. due[e] > now => left \in Nat /\ left + 1 = due[e] - now
  BY <1>1
<1>5. due[e] > now => left \div Minute \in Nat /\ (left \div Minute) * Minute <= left
  BY <1>1, <1>4, DivisionRoundsDown
<1>6. mins \in Nat
  BY <1>2, <1>3, <1>5
<1>7. ASSUME mins # 0 PROVE now < now + mins * Minute
  BY <1>1, <1>6, <1>7, MinutesLast
<1>8. ASSUME mins # 0, due[e] # NoDate PROVE now + mins * Minute < due[e]
  <2>1. CASE now + allowed * Minute < due[e]
    BY <1>3, <2>1
  <2>2. CASE ~ (now + allowed * Minute < due[e])
    <3>1. due[e] > now /\ mins = left \div Minute
      BY <1>3, <1>8, <2>2
    <3>2. mins * Minute <= left /\ mins * Minute \in Nat
      BY <1>1, <1>5, <1>6, <3>1, MinutesLast
    <3> HIDE DEF left
    <3>3. left \in Nat /\ left + 1 = due[e] - now
      BY <1>4, <3>1
    <3> QED BY <1>1, <3>2, <3>3
  <2> QED BY <2>1, <2>2
<1> QED
  BY <1>6, <1>7, <1>8 DEF EndsInTime

(* The time an attempt has stored after a request: an attempt that is made *)
(* has taken over that of the one it resumes.                              *)
StoredAfter(e, i) ==
  IF db.att[e][i].row = "unused" /\ db'.att[e][i].row = "live"
  THEN Inherited(e) ELSE times[e][i].remaining

(* The times of an attempt after a request.                                *)
LEMMA TimedSays ==
  ASSUME ClockTypes, NEW e \in Exams, NEW i \in Slots,
         NEW t, t = Timed(e)[i]
  PROVE  /\ t \in Times /\ StoredAfter(e, i) \in Nat
         /\ t.remaining = StoredAfter(e, i) /\ t.run = times[e][i].run
         /\ t.afresh = \/ times[e][i].afresh
                       \/ /\ db.att[e][i].row = "unused" /\ db'.att[e][i].row = "live"
                          /\ StartsAfresh(e)
         /\ IF db'.att[e][i].started /\ ~ db.att[e][i].started
            THEN t.since = now /\ t.mins = MinsFor(e, StoredAfter(e, i))
            ELSE t.since = times[e][i].since /\ t.mins = times[e][i].mins
<1> DEFINE isNew  == db.att[e][i].row = "unused" /\ db'.att[e][i].row = "live"
           begins == db'.att[e][i].started /\ ~ db.att[e][i].started
           stored == StoredAfter(e, i)
           old    == times[e][i]
           afresh == old.afresh \/ (isNew /\ StartsAfresh(e))
           since  == IF begins THEN now ELSE old.since
           mins   == IF begins THEN MinsFor(e, stored) ELSE old.mins
<1>1. old \in Times /\ now \in Nat /\ old.remaining \in Nat
  BY DEF ClockTypes, Times
<1>2. Inherited(e) \in Nat
  <2>1. CASE Resumes(e)
    <3>1. times[e][Latest(db, e)] \in Times
      BY <2>1, LatestIsLive DEF Resumes, ClockTypes
    <3> QED BY <2>1, <3>1 DEF Inherited, Times
  <2> QED BY <2>1 DEF Inherited
<1>3. stored \in Nat
  BY <1>1, <1>2 DEF StoredAfter
<1>4. t = [old EXCEPT !.remaining = stored, !.afresh = afresh,
                      !.since = since, !.mins = mins]
  BY DEF Timed, StoredAfter
<1>5. MinsFor(e, stored) \in Nat
  BY <1>3, MinsInTime
<1>6. afresh \in BOOLEAN
  OBVIOUS
<1> HIDE DEF stored, old, afresh
<1>7. since \in Nat /\ mins \in Nat
  BY <1>1, <1>5 DEF Times
<1> HIDE DEF isNew, begins, since, mins
<1>8. /\ t \in Times /\ t.since = since /\ t.mins = mins
      /\ t.remaining = stored /\ t.run = old.run /\ t.afresh = afresh
  BY <1>1, <1>3, <1>4, <1>6, <1>7 DEF Times
<1> QED
  BY <1>3, <1>8, Zenon DEF begins, stored, old, since, mins, afresh, isNew

(* The start of an attempt sets its times, and nothing else does.          *)
LEMMA TimedDoes ==
  ASSUME ClockTypes, NEW e \in Exams, NEW i \in Slots,
         NEW t, t = Timed(e)[i]
  PROVE  /\ t \in Times /\ StoredAfter(e, i) \in Nat
         /\ IF db'.att[e][i].started /\ ~ db.att[e][i].started
            THEN t.since = now /\ t.mins = MinsFor(e, StoredAfter(e, i))
            ELSE t.since = times[e][i].since /\ t.mins = times[e][i].mins
  BY TimedSays, ZenonT(40)

(* A request starts no clock, or the clock of an attempt at this exam that *)
(* is given some time.                                                     *)
RowTimely(f, j, e) ==
  LET a == db.att[f][j]
      b == db'.att[f][j]
  IN \/ NoStart(a, b)
     \/ /\ f = e /\ ~ a.started /\ ~ Spoilt(b)
        /\ Ticking(b) => MinsFor(e, StoredAfter(e, j)) # 0

(* What a timely request starts ends in time, and what ran before still    *)
(* does.                                                                   *)
LEMMA RequestInTime ==
  ASSUME ClockInv, NEW e \in Exams, \A f \in Exams, j \in Slots : RowTimely(f, j, e),
         times' = [times EXCEPT ![e] = Timed(e)],
         UNCHANGED <<now, due, advanced>>
  PROVE  /\ NoneSpoilt(db') /\ TickingInTime'
         /\ times' \in [Exams -> [Slots -> Times]]
<1>1. ClockTypes
  BY DEF ClockInv
<1>2. NoneSpoilt(db')
  BY DEF ClockInv, NoneSpoilt, RowTimely, NoStart
<1>3. /\ times' \in [Exams -> [Slots -> Times]]
      /\ \A f \in Exams, j \in Slots :
           times'[f][j] = IF f = e THEN Timed(e)[j] ELSE times[f][j]
  <2>1. Timed(e) \in [Slots -> Times]
    <3>1. \A j \in Slots : Timed(e)[j] \in Times
      BY <1>1, TimedDoes
    <3>2. Timed(e) = [j \in Slots |-> Timed(e)[j]]
      BY DEF Timed
    <3> QED BY <3>1, <3>2
  <2> QED BY <1>1, <2>1 DEF ClockTypes
<1>4. ASSUME NEW f \in Exams, NEW j \in Slots, Ticking(db'.att[f][j])
      PROVE  EndsInTime(times'[f][j].since + times'[f][j].mins * Minute,
                        now, due[f], f \in advanced)
  <2> DEFINE t == times'[f][j]
  <2>1. CASE NoStart(db.att[f][j], db'.att[f][j])
    <3>1. Ticking(db.att[f][j])
      BY <1>4, <2>1 DEF NoStart
    <3>2. db.att[f][j].started
      BY <3>1 DEF Ticking
    <3>3. t.since = times[f][j].since /\ t.mins = times[f][j].mins
      BY <1>1, <1>3, <3>2, TimedDoes
    <3>4. EndsInTime(EndOf(f, j), now, due[f], f \in advanced)
      BY <3>1 DEF ClockInv, TickingInTime
    <3> QED BY <3>3, <3>4 DEF EndOf
  <2>2. CASE ~ NoStart(db.att[f][j], db'.att[f][j])
    <3>1. /\ f = e /\ ~ db.att[e][j].started
          /\ MinsFor(e, StoredAfter(e, j)) # 0
      BY <1>4, <2>2 DEF RowTimely
    <3>2. db'.att[e][j].started
      BY <1>4, <3>1 DEF Ticking
    <3>3. /\ StoredAfter(e, j) \in Nat
          /\ t.since = now /\ t.mins = MinsFor(e, StoredAfter(e, j))
      BY <1>1, <1>3, <3>1, <3>2, TimedDoes
    <3>4. \A forward : EndsInTime(now + t.mins * Minute, now, due[e], forward)
      BY <1>1, <3>1, <3>3, MinsInTime
    <3> QED BY <3>1, <3>3, <3>4
  <2> QED BY <2>1, <2>2
<1>5. TickingInTime'
  BY <1>4 DEF TickingInTime, EndOf
<1> QED
  BY <1>2, <1>3, <1>5

(* Nothing else changes with a request.                                    *)
LEMMA RequestKeepsInv ==
  ASSUME ClockInv, NEW e \in Exams, \A f \in Exams, j \in Slots : RowTimely(f, j, e),
         times' = [times EXCEPT ![e] = Timed(e)],
         UNCHANGED <<pastDue, now, due, extra, advanced>>,
         InLine(db')
  PROVE  ClockInv'
<1>1. /\ NoneSpoilt(db') /\ TickingInTime'
      /\ times' \in [Exams -> [Slots -> Times]]
  BY RequestInTime
<1>2. AttemptsInLine'
  BY DEF ClockInv, AttemptsInLine, InLine, Sound, UsedInOrder, Superseded,
     CreditHonest, Live, HasStatus
<1>3. ClockTypes'
  BY <1>1 DEF ClockInv, ClockTypes, IsPassed
<1>4. NoneSpoilt(db)'
  BY <1>1 DEF NoneSpoilt
<1> QED
  BY <1>1, <1>2, <1>3, <1>4 DEF ClockInv

(* A request that starts nothing is timely.                                *)
LEMMA QuietTimely ==
  ASSUME Quiet(db, db'), NEW e
  PROVE  \A f \in Exams, j \in Slots : RowTimely(f, j, e)
  BY DEF Quiet, RowTimely

(* So is one that starts an attempt, unless there is no time for it.       *)
LEMMA StartTimely ==
  ASSUME ClockTypes, NEW e \in Exams, NEW k \in Slots, NEW n \in BOOLEAN,
         StartsAt(db, db', e, k, n),
         Ticking(db'.att[e][k]) /\ db'.att[e][k].row = "live" /\ ~ n
           => MinsFor(e, StoredAfter(e, k)) # 0
  PROVE  \A f \in Exams, j \in Slots : RowTimely(f, j, e)
  BY DEF StartsAt, Starts, RowTimely

(* To enter or resume an exam.                                             *)
LEMMA EnterOrResumeTimely ==
  ASSUME ClockInv, NEW e \in Exams, EnterOrResume(e)
  PROVE  /\ \A f \in Exams, j \in Slots : RowTimely(f, j, e)
         /\ InLine(db') /\ pastDue' = pastDue
<1>1. PICK proctored \in BOOLEAN, startClock \in BOOLEAN :
        /\ "created" \in Outcomes(e, proctored)
        /\ Post(e, proctored, startClock, "created",
                startClock /\ MinsFor(e, Inherited(e)) = 0)
  BY DEF EnterOrResume
<1> DEFINE n == startClock /\ MinsFor(e, Inherited(e)) = 0
<1>2. n \in BOOLEAN /\ Post(e, proctored, startClock, "created", n)
  BY <1>1
<1>3. startClock /\ ~ n => MinsFor(e, Inherited(e)) # 0
  OBVIOUS
<1> HIDE DEF n
<1>4. InLine(db) /\ NoneSpoilt(db) /\ ClockTypes
  BY DEF ClockInv, AttemptsInLine
<1>5. InLine(db') /\ pastDue' = pastDue
  BY <1>1, <1>2, <1>4, PostHandled DEF Handled, Post
<1>6. CASE Quiet(db, db')
  BY <1>5, <1>6, QuietTimely
<1>7. CASE ~ Quiet(db, db')
  <2>1. startClock /\ \E k \in Unused(db, e) : StartsAt(db, db', e, k, n)
    BY <1>1, <1>2, <1>4, <1>7, PostStarts
  <2>2. PICK k \in Unused(db, e) : StartsAt(db, db', e, k, n)
    BY <2>1
  <2>3. k \in Slots /\ db.att[e][k].row = "unused"
    BY DEF Unused
  <2>4. db'.att[e][k].row = "live" => StoredAfter(e, k) = Inherited(e)
    BY <2>3 DEF StoredAfter
  <2> QED BY <1>2, <1>3, <1>4, <1>5, <2>1, <2>2, <2>3, <2>4, StartTimely
<1> QED
  BY <1>6, <1>7

(* To start an attempt.                                                    *)
LEMMA StartClockTimely ==
  ASSUME ClockInv, NEW e \in Exams, NEW i \in Slots, StartClock(e, i)
  PROVE  /\ \A f \in Exams, j \in Slots : RowTimely(f, j, e)
         /\ InLine(db') /\ pastDue' = pastDue
<1> DEFINE k == Latest(Read(db, e, i), e)
           n == MinsFor(e, times[e][k].remaining) = 0
<1>1. n \in BOOLEAN /\ Start(e, i, n)
  BY DEF StartClock
<1>2. ~ n => MinsFor(e, times[e][k].remaining) # 0
  OBVIOUS
<1> HIDE DEF n
<1>3. InLine(db) /\ ClockTypes
  BY DEF ClockInv, AttemptsInLine
<1>4. InLine(db') /\ pastDue' = pastDue
  BY <1>1, <1>3, StartHandled DEF Handled, Start
<1>5. CASE Quiet(db, db')
  BY <1>4, <1>5, QuietTimely
<1>6. CASE ~ Quiet(db, db')
  <2>1. k \in Live(db, e) /\ StartsAt(db, db', e, k, n)
    BY <1>1, <1>3, <1>6, StartStarts
  <2> HIDE DEF k
  <2>2. k \in Slots /\ StoredAfter(e, k) = times[e][k].remaining
    BY <2>1 DEF StoredAfter, Live
  <2> QED BY <1>1, <1>2, <1>3, <1>4, <2>1, <2>2, StartTimely DEF k
<1> QED
  BY <1>5, <1>6

(* The requests that start nothing.                                        *)
LEMMA OthersTimely ==
  ASSUME ClockInv, NEW e \in Exams, NEW i \in Slots,
         \/ Stop(e, i) \/ Submit(e, i) \/ Error(e, i) \/ Poll(e, i)
         \/ MarkReadyToResume(e, i) \/ Delete(e, i)
  PROVE  Quiet(db, db') /\ InLine(db') /\ pastDue' = pastDue
<1>1. InLine(db)
  BY DEF ClockInv, AttemptsInLine
<1>2. {"ready_to_submit", "submitted"} \subseteq ValidStatus
  BY DEF ValidStatus, Completed, Incomplete, InProgress
<1>3. InLine(db')
  <2>1. CASE Stop(e, i) \/ Submit(e, i)
    <3>1. PICK to \in {"ready_to_submit", "submitted"} : PutStatus(e, i, to)
      BY <2>1 DEF Stop, Submit
    <3>2. Handled(db, db', e, to)
      BY <1>1, <1>2, <3>1, PutStatusHandled
    <3> QED BY <3>2 DEF Handled
  <2>2. CASE Error(e, i) \/ Poll(e, i)
    BY <1>1, <2>2, ConditionalHandled DEF Handled
  <2>3. CASE MarkReadyToResume(e, i) \/ Delete(e, i)
    BY <1>1, <2>3, MarkReadyToResumeHandled, DeleteHandled DEF Handled
  <2> QED BY <2>1, <2>2, <2>3
<1>4. pastDue' = pastDue
  BY DEF Stop, Submit, PutStatus, Error, Poll, MarkReadyToResume, Delete
<1> QED
  BY <1>1, <1>3, <1>4, OthersQuiet

(* A request keeps the invariant.                                          *)
LEMMA TimedRequestKeeps ==
  ASSUME ClockInv, NEW e \in Exams, TimedRequest(e)
  PROVE  ClockInv'
<1>1. /\ times' = [times EXCEPT ![e] = Timed(e)]
      /\ UNCHANGED <<now, due, extra, advanced>>
  BY DEF TimedRequest
<1>2. CASE EnterOrResume(e)
  BY <1>1, <1>2, EnterOrResumeTimely, RequestKeepsInv
<1>3. ASSUME NEW i \in Slots, StartClock(e, i) PROVE ClockInv'
  BY <1>1, <1>3, StartClockTimely, RequestKeepsInv
<1>4. ASSUME NEW i \in Slots,
             \/ Stop(e, i) \/ Submit(e, i) \/ Poll(e, i)
             \/ MarkReadyToResume(e, i) \/ Delete(e, i)
      PROVE  ClockInv'
  BY <1>1, <1>4, OthersTimely, QuietTimely, RequestKeepsInv
<1> QED
  BY <1>2, <1>3, <1>4 DEF TimedRequest

(* What an error stores is a time, and no clock is changed by it.          *)
LEMMA ReportErrorKeeps ==
  ASSUME ClockInv, NEW e \in Exams, NEW i \in Slots, ReportError(e, i)
  PROVE  ClockInv'
<1>1. /\ Error(e, i) /\ UNCHANGED <<now, due, extra, advanced>>
      /\ \/ times' = times
         \/ times' = [times EXCEPT ![e][i].remaining = TimeRemaining(e, i)]
  BY DEF ReportError
<1>2. Quiet(db, db') /\ InLine(db') /\ pastDue' = pastDue
  BY <1>1, OthersTimely
<1>3. ClockTypes /\ AttemptsInLine
  BY DEF ClockInv
<1>4. TimeRemaining(e, i) \in Nat
  <2>1. times[e][i].since \in Nat /\ times[e][i].mins \in Nat /\ now \in Nat
    BY <1>3 DEF ClockTypes, Times
  <2>2. times[e][i].mins * Minute \in Nat
    BY <2>1, MinutesLast, ClockAssumption
  <2> QED BY <2>1, <2>2 DEF TimeRemaining, EndOf
<1>5. /\ times' \in [Exams -> [Slots -> Times]]
      /\ \A f \in Exams, j \in Slots :
           times'[f][j].since = times[f][j].since /\ times'[f][j].mins = times[f][j].mins
  <2>1. \A t \in Times, r \in Nat :
          LET x == [t EXCEPT !.remaining = r]
          IN x \in Times /\ x.since = t.since /\ x.mins = t.mins
    BY DEF Times
  <2>2. times \in [Exams -> [Slots -> Times]]
    BY <1>3 DEF ClockTypes
  <2>3. CASE times' = times
    BY <2>2, <2>3
  <2>4. CASE times' = [times EXCEPT ![e][i].remaining = TimeRemaining(e, i)]
    <3> DEFINE x == [times[e][i] EXCEPT !.remaining = TimeRemaining(e, i)]
    <3>1. times' = [times EXCEPT ![e][i] = x]
      BY <2>2, <2>4
    <3>2. x \in Times /\ x.since = times[e][i].since /\ x.mins = times[e][i].mins
      BY <1>4, <2>1, <2>2
    <3> HIDE DEF x
    <3> QED BY <2>2, <3>1, <3>2
  <2> QED BY <1>1, <2>3, <2>4
<1>6. TickingInTime'
  BY <1>1, <1>2, <1>5 DEF ClockInv, TickingInTime, EndOf, Quiet, NoStart
<1>7. NoneSpoilt(db)'
  BY <1>2 DEF ClockInv, NoneSpoilt, Quiet, NoStart
<1>8. AttemptsInLine'
  BY <1>2, <1>3 DEF AttemptsInLine, InLine, Sound, UsedInOrder, Superseded,
     CreditHonest, Live, HasStatus
<1>9. ClockTypes'
  BY <1>1, <1>2, <1>3, <1>5 DEF ClockTypes, IsPassed
<1> QED
  BY <1>6, <1>7, <1>8, <1>9 DEF ClockInv

(* Whatever of the time of the attempts is over is not what keeps them in  *)
(* line.                                                                   *)
LEMMA ExpiryInLine ==
  ASSUME NEW d, InLine(d), NEW d1, d1 \in Database, d1.credit = d.credit,
         \A e \in Exams, i \in Slots : \E over \in BOOLEAN :
           d1.att[e][i] = [d.att[e][i] EXCEPT !.expired = over]
  PROVE  InLine(d1)
<1>1. Sound(d)
  BY DEF InLine
<1>2. \A e \in Exams, i \in Slots :
        /\ RowSound(e, d1.att[e][i])
        /\ d1.att[e][i].row = d.att[e][i].row
        /\ d1.att[e][i].status = d.att[e][i].status
        /\ d1.att[e][i].resumed = d.att[e][i].resumed
  <2>1. ASSUME NEW e \in Exams, NEW a, RowSound(e, a), NEW over \in BOOLEAN,
               NEW b, b = [a EXCEPT !.expired = over]
        PROVE  /\ RowSound(e, b)
               /\ b.row = a.row /\ b.status = a.status /\ b.resumed = a.resumed
    BY <2>1 DEF RowSound, Attempt, InResumeProcess
  <2>2. ASSUME NEW e \in Exams, NEW i \in Slots
        PROVE  /\ RowSound(e, d1.att[e][i])
               /\ d1.att[e][i].row = d.att[e][i].row
               /\ d1.att[e][i].status = d.att[e][i].status
               /\ d1.att[e][i].resumed = d.att[e][i].resumed
    <3>1. RowSound(e, d.att[e][i])
      BY <1>1 DEF Sound
    <3>2. PICK over \in BOOLEAN : d1.att[e][i] = [d.att[e][i] EXCEPT !.expired = over]
      OBVIOUS
    <3> QED BY <2>1, <3>1, <3>2
  <2> QED BY <2>2
<1>3. \A e \in Exams : Live(d1, e) = Live(d, e)
  BY <1>2 DEF Live
<1>4. \A e \in Exams : \A statuses : HasStatus(d1, e, statuses) = HasStatus(d, e, statuses)
  BY <1>2, <1>3 DEF HasStatus, Live
<1>5. Sound(d1) /\ UsedInOrder(d1)
  BY <1>2 DEF InLine, Sound, UsedInOrder
<1>6. Superseded(d1)
  BY <1>2, <1>3 DEF InLine, Superseded, Live, SatOnce
<1>7. CreditHonest(d1)
  BY <1>4 DEF InLine, CreditHonest, SatOnce
<1> QED
  BY <1>5, <1>6, <1>7 DEF InLine

(* A second passes.                                                        *)
LEMMA TickKeeps ==
  ASSUME ClockInv, Tick
  PROVE  ClockInv'
<1> DEFINE over(e, i) == \/ db.att[e][i].expired
                         \/ db.att[e][i].started /\ EndOf(e, i) <= now + 1
           row(e, i)  == [db.att[e][i] EXCEPT !.expired = over(e, i)]
           att        == [e \in Exams |-> [i \in Slots |-> row(e, i)]]
           run(e, i)  == IF Runs(e, i) THEN times[e][i].run + 1 ELSE times[e][i].run
<1>1. /\ AttemptsInLine /\ InLine(db) /\ Sound(db) /\ db \in Database
      /\ ClockTypes /\ NoneSpoilt(db) /\ TickingInTime
  BY DEF ClockInv, AttemptsInLine, InLine, Sound
<1>2. /\ db' = [db EXCEPT !.att = att]
      /\ now' = now + 1 /\ UNCHANGED <<due, extra, advanced>>
      /\ pastDue' = {e \in Exams : IsPassed(due[e], now + 1)}
      /\ times' = [e \in Exams |-> [i \in Slots |->
                     [times[e][i] EXCEPT !.run = run(e, i)]]]
  BY DEF Tick
<1>3. \A e \in Exams, i \in Slots :
        db.att[e][i] \in Attempt /\ over(e, i) \in BOOLEAN /\ times[e][i] \in Times
  BY <1>1 DEF Sound, RowSound, ClockTypes, Attempt
<1>4. \A e \in Exams, i \in Slots : row(e, i) \in Attempt
                                    /\ row(e, i).expired = over(e, i)
                                    /\ row(e, i).started = db.att[e][i].started
                                    /\ row(e, i).row = db.att[e][i].row
  <2>1. ASSUME NEW a \in Attempt, NEW o \in BOOLEAN, NEW b, b = [a EXCEPT !.expired = o]
        PROVE  b \in Attempt /\ b.expired = o /\ b.started = a.started /\ b.row = a.row
    BY <2>1 DEF Attempt
  <2> HIDE DEF over
  <2> QED BY <1>3, <2>1
<1>5. \A e \in Exams, i \in Slots : run(e, i) \in Nat
  BY <1>3 DEF Times
<1>6. /\ times' \in [Exams -> [Slots -> Times]]
      /\ \A e \in Exams, i \in Slots :
           times'[e][i].since = times[e][i].since /\ times'[e][i].mins = times[e][i].mins
  <2> HIDE DEF run
  <2> QED BY <1>2, <1>3, <1>5, ZenonT(40) DEF Times
<1> HIDE DEF row
<1>7. att \in [Exams -> [Slots -> Attempt]]
  BY <1>4
<1>8. /\ db' \in Database /\ db'.credit = db.credit
      /\ \A e \in Exams, i \in Slots : db'.att[e][i] = row(e, i)
  <2>1. \A x \in Database : \A y \in [Exams -> [Slots -> Attempt]] :
          [x EXCEPT !.att = y] \in Database /\ [x EXCEPT !.att = y].credit = x.credit
          /\ [x EXCEPT !.att = y].att = y
    BY DEF Database
  <2>2. \A e \in Exams, i \in Slots : att[e][i] = row(e, i)
    OBVIOUS
  <2> HIDE DEF att
  <2> QED BY <1>1, <1>2, <1>7, <2>1, <2>2
<1>9. InLine(db')
  <2>1. \A e \in Exams, i \in Slots : \E o \in BOOLEAN :
          db'.att[e][i] = [db.att[e][i] EXCEPT !.expired = o]
    BY <1>3, <1>8, Zenon DEF row
  <2> QED BY <1>1, <1>8, <2>1, ExpiryInLine, ZenonT(40)
<1>10. now' \in Nat
  BY <1>1, <1>2 DEF ClockTypes
<1>11. ClockTypes'
  BY <1>1, <1>2, <1>6, <1>10 DEF ClockTypes
<1>12. AttemptsInLine'
  <2>1. pastDue' \in SUBSET Dated
    BY <1>1, <1>2 DEF ClockTypes, IsPassed
  <2> QED BY <1>9, <2>1 DEF AttemptsInLine, InLine, Sound, UsedInOrder, Superseded,
              CreditHonest, Live, HasStatus
<1>13. NoneSpoilt(db)'
  <2>1. ASSUME NEW e \in Exams, NEW i \in Slots PROVE ~ Spoilt(db'.att[e][i])
    <3>1. ~ Spoilt(db.att[e][i])
      BY <1>1 DEF NoneSpoilt
    <3>2. /\ db'.att[e][i].row = db.att[e][i].row
          /\ db'.att[e][i].started = db.att[e][i].started
      BY <1>4, <1>8
    <3> QED BY <3>1, <3>2 DEF Spoilt
  <2> QED BY <2>1 DEF NoneSpoilt
<1>14. ASSUME NEW e \in Exams, NEW i \in Slots, Ticking(db'.att[e][i])
       PROVE  EndsInTime(EndOf(e, i), now + 1, due[e], e \in advanced)
  <2>1. Ticking(db.att[e][i]) /\ ~ (EndOf(e, i) <= now + 1)
    BY <1>4, <1>8, <1>14 DEF Ticking
  <2>2. EndOf(e, i) \in Nat /\ now \in Nat
    <3>1. times[e][i].since \in Nat /\ times[e][i].mins \in Nat /\ now \in Nat
      BY <1>1, <1>3 DEF Times, ClockTypes
    <3>2. times[e][i].mins * Minute \in Nat
      BY <3>1, MinutesLast, ClockAssumption
    <3> QED BY <3>1, <3>2 DEF EndOf
  <2>3. now + 1 < EndOf(e, i)
    BY <2>1, <2>2
  <2> QED BY <1>1, <2>1, <2>3 DEF TickingInTime, EndsInTime
<1>15. TickingInTime'
  BY <1>2, <1>6, <1>14 DEF TickingInTime, EndOf
<1> QED
  BY <1>11, <1>12, <1>13, <1>15 DEF ClockInv

(* The course team moves a date, or staff change an allowance.             *)
LEMMA MoveDueKeeps ==
  ASSUME ClockInv, NEW e \in Exams, MoveDue(e)
  PROVE  ClockInv'
<1>1. PICK date \in DueDates \cup {NoDate} :
        /\ due' = [due EXCEPT ![e] = date]
        /\ pastDue' = (pastDue \ {e}) \cup (IF IsPassed(date, now) THEN {e} ELSE {})
        /\ advanced' = IF date # NoDate /\ (due[e] = NoDate \/ date < due[e])
                       THEN advanced \cup {e} ELSE advanced
  BY DEF MoveDue
<1>2. e \in Dated /\ UNCHANGED <<db, now, extra, times>>
  BY DEF MoveDue
<1>3. AttemptsInLine /\ ClockTypes /\ TickingInTime /\ NoneSpoilt(db)
  BY DEF ClockInv
<1>4. date \in Nat /\ due \in [Exams -> Nat] /\ now \in Nat
  BY <1>3, ClockAssumption DEF ClockTypes, NoDate
<1>5. /\ due' \in [Exams -> Nat]
      /\ \A f \in Exams : due'[f] = IF f = e THEN date ELSE due[f]
  BY <1>1, <1>4
<1>6. pastDue' = {f \in Exams : IsPassed(due'[f], now')}
  BY <1>1, <1>2, <1>3, <1>5 DEF ClockTypes
<1>7. \A f \in Exams \ Dated : due'[f] = NoDate
  BY <1>2, <1>3, <1>5 DEF ClockTypes
<1>8. ClockTypes'
  BY <1>2, <1>3, <1>5, <1>6, <1>7 DEF ClockTypes
<1>9. AttemptsInLine'
  <2>1. pastDue' \in SUBSET Dated
    BY <1>6, <1>7 DEF IsPassed
  <2>2. InLine(db')
    BY <1>2, <1>3 DEF AttemptsInLine
  <2> QED BY <2>1, <2>2 DEF AttemptsInLine, InLine, Sound, UsedInOrder, Superseded,
             CreditHonest, Live, HasStatus
<1>10. ASSUME NEW f \in Exams, NEW i \in Slots, Ticking(db.att[f][i])
       PROVE  EndsInTime(EndOf(f, i), now, due'[f], f \in advanced')
  <2>1. EndsInTime(EndOf(f, i), now, due[f], f \in advanced)
    BY <1>3, <1>10 DEF TickingInTime
  <2>2. f \in advanced => f \in advanced'
    BY <1>1
  <2>3. CASE f # e
    BY <1>1, <1>5, <2>1, <2>2, <2>3 DEF EndsInTime
  <2>4. CASE f = e
    <3>1. SUFFICES ASSUME e \notin advanced', date # NoDate
                   PROVE  EndOf(e, i) < date
      BY <1>5, <2>1, <2>4 DEF EndsInTime
    <3>2. e \notin advanced /\ due[e] # NoDate /\ ~ (date < due[e])
      BY <1>1, <3>1
    <3>3. EndOf(e, i) < due[e]
      BY <2>1, <2>4, <3>2 DEF EndsInTime
    <3>4. EndOf(e, i) \in Nat /\ due[e] \in Nat
      <4>1. times[e][i].since \in Nat /\ times[e][i].mins \in Nat
        BY <1>3 DEF ClockTypes, Times
      <4>2. times[e][i].mins * Minute \in Nat
        BY <4>1, MinutesLast, ClockAssumption
      <4> QED BY <1>4, <4>1, <4>2 DEF EndOf
    <3> QED BY <1>4, <3>2, <3>3, <3>4
  <2> QED BY <2>3, <2>4
<1>11. TickingInTime'
  BY <1>2, <1>10 DEF TickingInTime, EndOf
<1>12. NoneSpoilt(db)'
  BY <1>2, <1>3 DEF NoneSpoilt
<1> QED
  BY <1>8, <1>9, <1>11, <1>12 DEF ClockInv

(* An allowance is a number of minutes, and changes no attempt.            *)
LEMMA GrantedKeeps ==
  ASSUME ClockInv, NEW minutes \in [Exams -> Nat], Granted(minutes)
  PROVE  ClockInv'
<1>1. UNCHANGED <<db, pastDue, now, due, times, advanced>> /\ extra' = minutes
  BY DEF Granted
<1>2. ClockTypes'
  BY <1>1 DEF ClockInv, ClockTypes
<1>3. TickingInTime' /\ NoneSpoilt(db)'
  BY <1>1 DEF ClockInv, TickingInTime, EndOf, NoneSpoilt
<1>4. AttemptsInLine'
  BY <1>1 DEF ClockInv, AttemptsInLine, InLine, Sound, UsedInOrder, Superseded,
     CreditHonest, Live, HasStatus
<1> QED
  BY <1>2, <1>3, <1>4 DEF ClockInv

(* However an allowance is given or taken back, it is a number of          *)
(* minutes.                                                                *)
LEMMA AllowancesGrant ==
  ASSUME ClockInv,
         \/ AddBulkAllowances
         \/ \E e \in Exams : AddAllowance(e) \/ RemoveAllowance(e)
  PROVE  \E minutes \in [Exams -> Nat] : Granted(minutes)
<1>1. extra \in [Exams -> Nat]
  BY DEF ClockInv, ClockTypes
<1>2. ASSUME AddBulkAllowances
      PROVE  \E minutes \in [Exams -> Nat] : Granted(minutes)
  <2>1. PICK k \in Multipliers : Granted([e \in Exams |-> Rounded(Limit[e] * (k - 2))])
    BY <1>2 DEF AddBulkAllowances
  <2>2. ASSUME NEW e \in Exams PROVE Rounded(Limit[e] * (k - 2)) \in Nat
    <3>1. \A a, b \in Nat : a * b \in Nat
      OBVIOUS
    <3>2. Limit[e] \in Nat /\ k - 2 \in Nat
      BY ClockAssumption
    <3>3. Limit[e] * (k - 2) \in Nat
      BY <3>1, <3>2
    <3> QED BY <3>3, RoundedNat
  <2> QED BY <2>1, <2>2
<1>3. ASSUME NEW e \in Exams, AddAllowance(e) \/ RemoveAllowance(e)
      PROVE  \E minutes \in [Exams -> Nat] : Granted(minutes)
  BY <1>1, <1>3, ClockAssumption DEF AddAllowance, RemoveAllowance
<1> QED
  BY <1>2, <1>3

(* So it keeps the invariant.                                              *)
LEMMA AllowancesKeep ==
  ASSUME ClockInv,
         \/ AddBulkAllowances
         \/ \E e \in Exams : AddAllowance(e) \/ RemoveAllowance(e)
  PROVE  ClockInv'
  BY AllowancesGrant, GrantedKeeps

-----------------------------------------------------------------------------
(* No attempt runs when it is over.                                        *)

(* At first nothing has been started.                                      *)
LEMMA ClockInitInv == ClockInit => ClockInv
<1> SUFFICES ASSUME ClockInit PROVE ClockInv
  OBVIOUS
<1>1. AttemptsInLine
  BY InitInLine DEF ClockInit
<1>2. \A e \in Exams, i \in Slots : ~ db.att[e][i].started
  BY DEF ClockInit, Init, NoRow
<1>3. now = 0 /\ pastDue = {} /\ \A e \in Exams : due[e] \in Nat
  <2>1. due \in [Exams -> DueDates \cup {NoDate}] /\ now = 0 /\ pastDue = {}
    BY DEF ClockInit, Init
  <2>2. DueDates \subseteq Nat /\ NoDate \in Nat
    BY ClockAssumption DEF NoDate
  <2> QED BY <2>1, <2>2
<1>4. pastDue = {e \in Exams : IsPassed(due[e], now)}
  BY <1>3 DEF IsPassed, NoDate
<1>5. ClockTypes
  <2>1. NoTimes \in Times
    BY DEF NoTimes, Times
  <2>2. due \in [Exams -> Nat]
    BY <1>3 DEF ClockInit
  <2> QED BY <1>3, <1>4, <2>1, <2>2 DEF ClockInit, ClockTypes
<1> QED
  BY <1>1, <1>2, <1>5 DEF ClockInv, NoneSpoilt, Spoilt, TickingInTime, Ticking

(* Every step keeps what runs within its time.                             *)
LEMMA ClockNextInv == ClockInv /\ [ClockedNext]_clockVars => ClockInv'
<1> SUFFICES ASSUME ClockInv, [ClockedNext]_clockVars PROVE ClockInv'
  OBVIOUS
<1>1. CASE UNCHANGED clockVars
  <2>1. UNCHANGED <<db, pastDue, now, due, extra, times, advanced>>
    BY <1>1 DEF clockVars
  <2>2. ClockTypes' /\ TickingInTime' /\ NoneSpoilt(db)'
    BY <2>1 DEF ClockInv, ClockTypes, TickingInTime, EndOf, NoneSpoilt
  <2>3. AttemptsInLine'
    BY <2>1 DEF ClockInv, AttemptsInLine, InLine, Sound, UsedInOrder, Superseded,
       CreditHonest, Live, HasStatus
  <2> QED BY <2>2, <2>3 DEF ClockInv
<1>2. CASE Tick
  BY <1>2, TickKeeps
<1>3. CASE AddBulkAllowances
  BY <1>3, AllowancesKeep
<1>4. ASSUME NEW e \in Exams,
             \/ TimedRequest(e)
             \/ \E i \in Slots : ReportError(e, i)
             \/ MoveDue(e) \/ AddAllowance(e) \/ RemoveAllowance(e)
      PROVE  ClockInv'
  BY <1>4, TimedRequestKeeps, ReportErrorKeeps, MoveDueKeeps, AllowancesKeep
<1> QED
  BY <1>1, <1>2, <1>3, <1>4 DEF ClockedNext

(* Whatever is started, interrupted, resumed or granted, and whenever the  *)
(* course team moves a date: no attempt at an exam runs when its due date  *)
(* has passed, unless the date was brought forward.                        *)
THEOREM NoneRunsWhenOver == ClockSpec => []OverByDueDate
  BY ClockInitInv, ClockNextInv, ClockInvSafe, PTL DEF ClockSpec

(* The attempts follow one another under the clock as they do without it,  *)
(* though the time of several of them may run out in the same second.      *)
THEOREM ClockKeepsInLine == ClockSpec => []AttemptsInLine
<1>1. ClockInv => AttemptsInLine
  BY DEF ClockInv
<1> QED
  BY <1>1, ClockInitInv, ClockNextInv, PTL DEF ClockSpec

-----------------------------------------------------------------------------
(* Sums.  What a recursion over finite sets says is shown by induction     *)
(* over their subsets: the statement is the set G of the subsets of which  *)
(* it is true.                                                             *)

(* The time that a set of attempts has been running.                       *)
RunTime(T, S) == MapThenSumSet(LAMBDA j : T[j].run, S)

(* The sum is a recursive function on the subsets: one element, and the    *)
(* sum of the rest.                                                        *)
Picked(S) == CHOOSE x \in S : TRUE

Sums(g, T, S) ==
  g = [A \in SUBSET S |->
         IF A = {} THEN 0 ELSE T[Picked(A)].run + g[A \ {Picked(A)}]]

(* The element that is taken out is one of the set.                        *)
LEMMA PickedIn ==
  ASSUME NEW S, S # {}
  PROVE  Picked(S) \in S
  BY DEF Picked

(* What such a function says of a subset depends on the subset alone.      *)
LEMMA SumsAgree ==
  ASSUME NEW T, NEW S, IsFiniteSet(S), NEW U \in SUBSET S, NEW V \in SUBSET S,
         NEW g, Sums(g, T, U), NEW h, Sums(h, T, V)
  PROVE  \A A \in SUBSET (U \cap V) : g[A] = h[A]
<1> DEFINE G == {A \in SUBSET S : A \in SUBSET (U \cap V) => g[A] = h[A]}
<1>1. ASSUME NEW A \in SUBSET S, \A B \in SUBSET A : B # A => B \in G,
             A \in SUBSET (U \cap V)
      PROVE  g[A] = h[A]
  <2>1. A \in SUBSET U /\ A \in SUBSET V
    BY <1>1
  <2>2. /\ g[A] = IF A = {} THEN 0 ELSE T[Picked(A)].run + g[A \ {Picked(A)}]
        /\ h[A] = IF A = {} THEN 0 ELSE T[Picked(A)].run + h[A \ {Picked(A)}]
    BY <2>1 DEF Sums
  <2>3. ASSUME A # {} PROVE g[A \ {Picked(A)}] = h[A \ {Picked(A)}]
    <3>1. A \ {Picked(A)} \in SUBSET A /\ A \ {Picked(A)} # A
      BY <2>3, PickedIn
    <3> QED BY <1>1, <3>1
  <2> QED BY <2>2, <2>3
<1>2. \A A \in SUBSET S : (\A B \in SUBSET A : B # A => B \in G) => A \in G
  BY <1>1
<1> HIDE DEF G
<1>3. \A A \in SUBSET S : A \in G
  BY <1>2, SubsetInduction
<1> QED
  BY <1>3 DEF G

(* There is one for every finite set.                                      *)
LEMMA SumsExist ==
  ASSUME NEW T, NEW S, IsFiniteSet(S)
  PROVE  \A A \in SUBSET S : \E g : Sums(g, T, A)
<1> DEFINE G == {A \in SUBSET S : \E g : Sums(g, T, A)}
<1>1. ASSUME NEW U \in SUBSET S, \A B \in SUBSET U : B # U => B \in G
      PROVE  \E g : Sums(g, T, U)
  <2> DEFINE of(B) == CHOOSE g : Sums(g, T, B)
             rest(A) == A \ {Picked(A)}
             f == [A \in SUBSET U |->
                     IF A = {} THEN 0 ELSE T[Picked(A)].run + of(rest(A))[rest(A)]]
  <2>1. ASSUME NEW B \in SUBSET U, B # U PROVE Sums(of(B), T, B)
    <3>1. \E g : Sums(g, T, B)
      BY <1>1, <2>1
    <3> QED BY <3>1
  <2>2. \A A \in SUBSET U : A # {} =>
          /\ rest(A) \in SUBSET A /\ rest(A) # A
          /\ rest(A) \in SUBSET U /\ rest(A) # U
    BY PickedIn
  <2> HIDE DEF of
  <2>3. ASSUME NEW B \in SUBSET U, B # U PROVE f[B] = of(B)[B]
    <3>1. of(B)[B] = IF B = {} THEN 0 ELSE T[Picked(B)].run + of(B)[rest(B)]
      <4>1. B \in SUBSET B
        OBVIOUS
      <4> QED BY <2>1, <2>3, <4>1 DEF Sums
    <3>2. f[B] = IF B = {} THEN 0 ELSE T[Picked(B)].run + of(rest(B))[rest(B)]
      OBVIOUS
    <3>3. ASSUME B # {} PROVE of(B)[rest(B)] = of(rest(B))[rest(B)]
      <4> DEFINE R == rest(B)
      <4>1. R \in SUBSET B /\ R \in SUBSET U /\ R # U
        BY <2>2, <3>3
      <4> HIDE DEF R, f
      <4>2. Sums(of(B), T, B) /\ Sums(of(R), T, R)
        BY <2>1, <2>3, <4>1
      <4>3. R \in SUBSET S /\ B \in SUBSET S /\ R \in SUBSET (B \cap R)
        BY <4>1
      <4>4. of(B)[R] = of(R)[R]
        BY <4>2, <4>3, SumsAgree
      <4> QED BY <4>4 DEF R
    <3> HIDE DEF f
    <3> QED BY <3>1, <3>2, <3>3
  <2>4. ASSUME NEW A \in SUBSET U
        PROVE  f[A] = IF A = {} THEN 0 ELSE T[Picked(A)].run + f[rest(A)]
    <3>1. CASE A = {}
      BY <3>1
    <3>2. CASE A # {}
      BY <2>2, <2>3, <3>2
    <3> QED BY <3>1, <3>2
  <2>5. f = [A \in SUBSET U |-> f[A]]
    OBVIOUS
  <2> HIDE DEF f
  <2>6. f = [A \in SUBSET U |-> IF A = {} THEN 0 ELSE T[Picked(A)].run + f[rest(A)]]
    BY <2>4, <2>5
  <2>7. Sums(f, T, U)
    BY <2>6 DEF Sums
  <2> QED BY <2>7
<1>2. \A A \in SUBSET S : (\A B \in SUBSET A : B # A => B \in G) => A \in G
  BY <1>1
<1> HIDE DEF G
<1>3. \A A \in SUBSET S : A \in G
  BY <1>2, SubsetInduction
<1> QED
  BY <1>3 DEF G

(* So the time a set has been running is what the recursion says.          *)
LEMMA RunTimeRecursive ==
  ASSUME NEW T, NEW S, IsFiniteSet(S)
  PROVE  /\ RunTime(T, {}) = 0
         /\ S # {} => RunTime(T, S) = T[Picked(S)].run + RunTime(T, S \ {Picked(S)})
<1> DEFINE of(A) == CHOOSE g : Sums(g, T, A)
<1>1. \A A : RunTime(T, A) = of(A)[A]
  BY DEF RunTime, MapThenSumSet, MapThenFoldSet, Sums, Picked
<1>2. \A A \in SUBSET S : Sums(of(A), T, A)
  BY SumsExist
<1> HIDE DEF of
<1>3. \A A \in SUBSET S :
        of(A)[A] = IF A = {} THEN 0 ELSE T[Picked(A)].run + of(A)[A \ {Picked(A)}]
  <2>1. ASSUME NEW A \in SUBSET S
        PROVE  of(A)[A] = IF A = {} THEN 0
                          ELSE T[Picked(A)].run + of(A)[A \ {Picked(A)}]
    <3>1. Sums(of(A), T, A) /\ A \in SUBSET A
      BY <1>2
    <3> QED BY <3>1 DEF Sums
  <2> QED BY <2>1
<1>4. RunTime(T, {}) = 0
  BY <1>1, <1>3
<1>5. ASSUME S # {}
      PROVE  RunTime(T, S) = T[Picked(S)].run + RunTime(T, S \ {Picked(S)})
  <2> DEFINE U == S \ {Picked(S)}
  <2>1. U \in SUBSET S /\ U \in SUBSET (S \cap U) /\ S \in SUBSET S
    OBVIOUS
  <2>2. Sums(of(S), T, S) /\ Sums(of(U), T, U)
    BY <1>2, <2>1
  <2> HIDE DEF U
  <2>3. of(S)[U] = of(U)[U]
    BY <2>1, <2>2, SumsAgree
  <2>4. of(S)[S] = T[Picked(S)].run + of(S)[U]
    BY <1>3, <1>5, <2>1 DEF U
  <2> QED BY <1>1, <2>3, <2>4 DEF U
<1> QED
  BY <1>4, <1>5

(* Whatever attempt is left out, its time is what is left out.             *)
LEMMA RunTimeLess ==
  ASSUME NEW S, IsFiniteSet(S), NEW T, \A x \in S : T[x].run \in Nat
  PROVE  /\ RunTime(T, {}) = 0 /\ RunTime(T, S) \in Nat
         /\ \A x \in S : RunTime(T, S) = T[x].run + RunTime(T, S \ {x})
<1>1. \A A \in SUBSET S : /\ IsFiniteSet(A)
                          /\ A # {} => Picked(A) \in A
  BY FS_Subset, PickedIn
<1>2. /\ RunTime(T, {}) = 0
      /\ \A A \in SUBSET S : A # {} =>
           RunTime(T, A) = T[Picked(A)].run + RunTime(T, A \ {Picked(A)})
  BY <1>1, RunTimeRecursive
<1>3. \A A \in SUBSET S : RunTime(T, A) \in Nat
  <2> DEFINE G == {A \in SUBSET S : RunTime(T, A) \in Nat}
  <2>1. ASSUME NEW A \in SUBSET S, \A B \in SUBSET A : B # A => B \in G
        PROVE  RunTime(T, A) \in Nat
    <3>1. CASE A = {}
      BY <1>2, <3>1
    <3>2. CASE A # {}
      <4>1. /\ Picked(A) \in S
            /\ A \ {Picked(A)} \in SUBSET A /\ A \ {Picked(A)} # A
        BY <1>1, <3>2
      <4>2. RunTime(T, A \ {Picked(A)}) \in Nat
        BY <2>1, <4>1
      <4> QED BY <1>2, <3>2, <4>1, <4>2
    <3> QED BY <3>1, <3>2
  <2>2. \A A \in SUBSET S : (\A B \in SUBSET A : B # A => B \in G) => A \in G
    BY <2>1
  <2> HIDE DEF G
  <2>3. \A A \in SUBSET S : A \in G
    BY <2>2, SubsetInduction
  <2> QED BY <2>3 DEF G
<1>4. \A A \in SUBSET S : \A x \in A : RunTime(T, A) = T[x].run + RunTime(T, A \ {x})
  <2> DEFINE fine(A) == \A x \in A : RunTime(T, A) = T[x].run + RunTime(T, A \ {x})
             G == {A \in SUBSET S : fine(A)}
  <2>1. ASSUME NEW A \in SUBSET S, \A B \in SUBSET A : B # A => B \in G,
               NEW x \in A
        PROVE  RunTime(T, A) = T[x].run + RunTime(T, A \ {x})
    <3> DEFINE c == Picked(A)
    <3>1. c \in A
      BY <1>1
    <3>2. RunTime(T, A) = T[c].run + RunTime(T, A \ {c})
      BY <1>2
    <3> HIDE DEF c
    <3>3. CASE x = c
      BY <3>2, <3>3
    <3>4. CASE x # c
      <4>1. A \ {c} \in G /\ A \ {x} \in G
        BY <2>1, <3>1
      <4>2. RunTime(T, A \ {c}) = T[x].run + RunTime(T, (A \ {c}) \ {x})
        BY <3>4, <4>1
      <4>3. RunTime(T, A \ {x}) = T[c].run + RunTime(T, (A \ {x}) \ {c})
        BY <3>1, <3>4, <4>1
      <4> HIDE DEF G, fine
      <4> DEFINE r == RunTime(T, (A \ {x}) \ {c})
      <4>4. (A \ {c}) \ {x} = (A \ {x}) \ {c}
        OBVIOUS
      <4>5. r \in Nat
        BY <1>3
      <4>6. T[x].run \in Nat /\ T[c].run \in Nat
        BY <3>1
      <4>7. RunTime(T, A \ {c}) = T[x].run + r /\ RunTime(T, A \ {x}) = T[c].run + r
        BY <4>2, <4>3, <4>4
      <4> HIDE DEF r
      <4> QED BY <3>2, <4>5, <4>6, <4>7
    <3> QED BY <3>3, <3>4
  <2>2. \A A \in SUBSET S : (\A B \in SUBSET A : B # A => B \in G) => A \in G
    BY <2>1
  <2> HIDE DEF G
  <2>3. \A A \in SUBSET S : A \in G
    BY <2>2, SubsetInduction
  <2> QED BY <2>3 DEF G
<1> QED
  BY <1>2, <1>3, <1>4

(* Fewer attempts have been running for less time.                         *)
LEMMA RunTimeMonotone ==
  ASSUME NEW S, IsFiniteSet(S), NEW T, \A x \in S : T[x].run \in Nat,
         NEW U \in SUBSET S
  PROVE  RunTime(T, U) \in Nat /\ RunTime(T, U) <= RunTime(T, S)
<1>1. \A A \in SUBSET S :
        /\ RunTime(T, A) \in Nat
        /\ \A x \in A : RunTime(T, A) = T[x].run + RunTime(T, A \ {x})
  BY FS_Subset, RunTimeLess
<1> DEFINE G == {A \in SUBSET S : U \in SUBSET A => RunTime(T, U) <= RunTime(T, A)}
<1>2. ASSUME NEW A \in SUBSET S, \A B \in SUBSET A : B # A => B \in G, U \in SUBSET A
      PROVE  RunTime(T, U) <= RunTime(T, A)
  <2>1. CASE U = A
    BY <1>1, <2>1
  <2>2. CASE U # A
    <3>1. PICK x \in A : x \notin U
      BY <1>2, <2>2
    <3>2. A \ {x} \in G /\ U \in SUBSET (A \ {x}) /\ A \ {x} \in SUBSET S
      BY <1>2, <3>1
    <3>3. RunTime(T, U) <= RunTime(T, A \ {x})
      BY <3>2
    <3>4. RunTime(T, A) = T[x].run + RunTime(T, A \ {x})
      BY <1>1
    <3>5. /\ T[x].run \in Nat /\ RunTime(T, A \ {x}) \in Nat /\ RunTime(T, U) \in Nat
      BY <1>1, <3>2
    <3> HIDE DEF G
    <3> QED BY <3>3, <3>4, <3>5
  <2> QED BY <2>1, <2>2
<1>3. \A A \in SUBSET S : (\A B \in SUBSET A : B # A => B \in G) => A \in G
  BY <1>2
<1> HIDE DEF G
<1>4. \A A \in SUBSET S : A \in G
  BY <1>3, SubsetInduction
<1> QED
  BY <1>1, <1>4 DEF G

(* Attempts that have been running for as long one by one have been        *)
(* running for as long together.                                           *)
LEMMA RunTimeSame ==
  ASSUME NEW S, IsFiniteSet(S), NEW T, NEW T1,
         \A x \in S : T[x].run \in Nat /\ T1[x].run = T[x].run
  PROVE  \A A \in SUBSET S : RunTime(T1, A) = RunTime(T, A)
<1>1. \A A \in SUBSET S :
        /\ RunTime(T, {}) = 0 /\ RunTime(T1, {}) = 0
        /\ \A x \in A : RunTime(T, A) = T[x].run + RunTime(T, A \ {x})
        /\ \A x \in A : RunTime(T1, A) = T1[x].run + RunTime(T1, A \ {x})
  BY FS_Subset, RunTimeLess
<1> DEFINE G == {A \in SUBSET S : RunTime(T1, A) = RunTime(T, A)}
<1>2. ASSUME NEW A \in SUBSET S, \A B \in SUBSET A : B # A => B \in G
      PROVE  RunTime(T1, A) = RunTime(T, A)
  <2>1. CASE A = {}
    BY <1>1, <2>1
  <2>2. CASE A # {}
    <3>1. PICK x \in A : x \in S
      BY <2>2
    <3>2. RunTime(T1, A \ {x}) = RunTime(T, A \ {x})
      BY <1>2
    <3> QED BY <1>1, <3>1, <3>2
  <2> QED BY <2>1, <2>2
<1>3. \A A \in SUBSET S : (\A B \in SUBSET A : B # A => B \in G) => A \in G
  BY <1>2
<1> HIDE DEF G
<1>4. \A A \in SUBSET S : A \in G
  BY <1>3, SubsetInduction
<1> QED
  BY <1>4 DEF G

-----------------------------------------------------------------------------
(* How far a request that reports no error takes the attempts.             *)

Interrupted(a) == AttemptStage(a) \in {"interrupted", "released"}

(* An attempt goes on: it is started while it is open if at all, and not   *)
(* interrupted.                                                            *)
GoesOn(a, b) ==
  /\ a.row = "live"
  /\ a.started => b.started
  /\ b.started => a.started \/ AttemptStage(a) = "open"
  /\ AttemptStage(b) = "open" => AttemptStage(a) = "open"
  /\ Interrupted(b) => Interrupted(a)

(* Attempts at exam e go on or are removed.                                *)
GoOnAt(d, d1, e) ==
  \A j \in Slots :
    /\ d1.att[e][j].row = "unused" => d.att[e][j].row = "unused"
    /\ d1.att[e][j].row = "live" => GoesOn(d.att[e][j], d1.att[e][j])

(* One attempt is made, and declined at once, where there was none.        *)
DeclinedAt(d, d1, e) ==
  /\ \A j \in Slots : d1.att[e][j].row = "unused" => d.att[e][j].row = "unused"
  /\ \E s \in Unused(d, e) :
       Live(d1, e) = {s} /\ AttemptStage(d1.att[e][s]) = "closed"

(* One is made that resumes the current one, if there is any.              *)
ResumedAt(d, d1, e) ==
  \E s \in Unused(d, e) :
    /\ d1.att[e][s].row = "live" => ~ Interrupted(d1.att[e][s])
    /\ Live(d1, e) \subseteq Live(d, e) \cup {s}
    /\ HasAttempt(d, e) => InResumeProcess(d.att[e][Latest(d, e)])
    /\ \A j \in Slots \ {s} :
         /\ d1.att[e][j].row = "unused" => d.att[e][j].row = "unused"
         /\ d1.att[e][j].row = "live" => GoesOn(d.att[e][j], d1.att[e][j])

GoOn(d, d1) == \A f \in SatOnce : GoOnAt(d, d1, f)

(* What goes on goes on.                                                   *)
LEMMA GoesOnTransitive ==
  ASSUME NEW a, NEW b, NEW c, GoesOn(a, b), GoesOn(b, c)
  PROVE  GoesOn(a, c)
  BY DEF GoesOn

(* So do the attempts at an exam, one step after the other.                *)
LEMMA GoOnAtTransitive ==
  ASSUME NEW d, NEW d1, NEW d2, NEW e, GoOnAt(d, d1, e), GoOnAt(d1, d2, e)
  PROVE  GoOnAt(d, d2, e)
<1>1. ASSUME NEW j \in Slots, d2.att[e][j].row = "live"
      PROVE  GoesOn(d.att[e][j], d2.att[e][j])
  <2>1. GoesOn(d1.att[e][j], d2.att[e][j])
    BY <1>1 DEF GoOnAt
  <2>2. GoesOn(d.att[e][j], d1.att[e][j])
    BY <2>1 DEF GoOnAt, GoesOn
  <2> QED BY <2>1, <2>2, GoesOnTransitive
<1> QED
  BY <1>1 DEF GoOnAt

(* A row that moves on, but for an error, goes on.                         *)
LEMMA RowMoveGoesOn ==
  ASSUME NEW e \in SatOnce, NEW to, to # "error", NEW a \in Attempt, NEW b,
         RowMove(e, a, b, to)
  PROVE  /\ b.row = "unused" => a.row = "unused"
         /\ b.row = "live" => GoesOn(a, b)
<1>1. b.row = "unused" => a.row = "unused"
  BY DEF RowMove
<1>2. ASSUME b.row = "live" PROVE GoesOn(a, b)
  <2>1. a.row = "live"
    BY <1>2 DEF RowMove, Attempt
  <2>2. /\ a.started => b.started
        /\ b.started => a.started \/ AttemptStage(a) = "open"
    BY <1>2, Zenon DEF RowMove
  <2>3. \/ AttemptStage(b) = AttemptStage(a)
        \/ <<AttemptStage(a), AttemptStage(b)>> \in Ending
    BY <1>2 DEF RowMove, Moves
  <2>4. /\ AttemptStage(b) = "open" => AttemptStage(a) = "open"
        /\ Interrupted(b) => Interrupted(a)
    BY <2>3 DEF Ending, Interrupted
  <2> QED BY <2>1, <2>2, <2>4, Zenon DEF GoesOn
<1> QED
  BY <1>1, <1>2

(* So do the rows of an exam that move on.                                 *)
LEMMA MovedGoesOn ==
  ASSUME NEW d, Sound(d), NEW d1, NEW e \in SatOnce, NEW to, to # "error",
         MovedAt(d, d1, e, to)
  PROVE  GoOnAt(d, d1, e)
<1>1. \A j \in Slots : d.att[e][j] \in Attempt
  BY DEF Sound, RowSound, SatOnce
<1> QED
  BY <1>1, RowMoveGoesOn DEF GoOnAt, MovedAt

(* What the pieces of a handler do to the database is of that kind.        *)
LEMMA GoesGoesOn ==
  ASSUME NEW d, Sound(d), NEW d1, NEW to, to # "error", Goes(d, d1, to)
  PROVE  GoOn(d, d1)
  BY MovedGoesOn DEF GoOn, Goes, Moved, SatOnce

(* An exam is declined after moves.                                        *)
LEMMA DeclinedAfter ==
  ASSUME NEW d, NEW d1, NEW d2, NEW e, GoOnAt(d, d1, e), AnewAt(d1, d2, e)
  PROVE  DeclinedAt(d, d2, e)
<1>1. PICK s \in Unused(d1, e) :
        /\ Live(d2, e) = {s}
        /\ AttemptStage(d2.att[e][s]) = "closed"
        /\ \A j \in Slots \ {s} : d2.att[e][j].row = "unused" => d1.att[e][j].row = "unused"
  BY DEF AnewAt
<1>2. s \in Unused(d, e) /\ d2.att[e][s].row = "live"
  BY <1>1 DEF GoOnAt, Unused, Live
<1>3. \A j \in Slots : d2.att[e][j].row = "unused" => d.att[e][j].row = "unused"
  BY <1>1, <1>2 DEF GoOnAt
<1> QED
  BY <1>1, <1>2, <1>3 DEF DeclinedAt

-----------------------------------------------------------------------------
(* The requests.                                                           *)

(* What entering an exam does to the attempts at it, and elsewhere.        *)
EnteredAt(d, d1, e) ==
  /\ e \in SatOnce => GoOnAt(d, d1, e) \/ ResumedAt(d, d1, e)
  /\ \A f \in SatOnce \ {e} : GoOnAt(d, d1, f) \/ DeclinedAt(d, d1, f)

(* To make an attempt is to resume the current one.                        *)
LEMMA CreatedEnters ==
  ASSUME NEW d, InLine(d), NEW d1, NEW e \in Exams, Created(d, d1, e)
  PROVE  /\ e \in SatOnce => ResumedAt(d, d1, e)
         /\ \A f \in SatOnce \ {e} : GoOnAt(d, d1, f)
<1> DEFINE s == Latest(d1, e)
<1>1. Sound(d)
  BY DEF InLine
<1>2. \A f \in SatOnce \ {e} : GoOnAt(d, d1, f)
  <2>1. ASSUME NEW f \in SatOnce \ {e} PROVE GoOnAt(d, d1, f)
    <3>1. MovedAt(d, d1, f, "timed_out")
      BY DEF Created, SatOnce
    <3> QED BY <1>1, <3>1, MovedGoesOn
  <2> QED BY <2>1
<1>3. ASSUME e \in SatOnce PROVE ResumedAt(d, d1, e)
  <2>1. /\ s \in Unused(d, e)
        /\ ~ Interrupted(d1.att[e][s])
        /\ Live(d1, e) = Live(d, e) \cup {s}
        /\ \A i \in Live(d, e) : InResumeProcess(d.att[e][i])
        /\ \A j \in Slots \ {s} : RowMove(e, d.att[e][j], d1.att[e][j], "timed_out")
    BY <1>3 DEF Created, Interrupted
  <2>2. HasAttempt(d, e) => InResumeProcess(d.att[e][Latest(d, e)])
    BY <2>1, LatestIsLive
  <2>3. \A j \in Slots : d.att[e][j] \in Attempt
    BY <1>1 DEF Sound, RowSound
  <2>4. \A j \in Slots \ {s} :
          /\ d1.att[e][j].row = "unused" => d.att[e][j].row = "unused"
          /\ d1.att[e][j].row = "live" => GoesOn(d.att[e][j], d1.att[e][j])
    BY <1>3, <2>1, <2>3, RowMoveGoesOn
  <2> HIDE DEF s
  <2> QED BY <2>1, <2>2, <2>4 DEF ResumedAt
<1> QED
  BY <1>2, <1>3

(* What happens to it next, in the same request, goes on from there.       *)
LEMMA EnteredGoesOn ==
  ASSUME NEW d, NEW d1, Sound(d1), NEW d2, NEW e \in SatOnce,
         ResumedAt(d, d1, e), NEW to, to # "error", MovedAt(d1, d2, e, to)
  PROVE  ResumedAt(d, d2, e)
<1>1. PICK s \in Unused(d, e) :
    /\ d1.att[e][s].row = "live" => ~ Interrupted(d1.att[e][s])
    /\ Live(d1, e) \subseteq Live(d, e) \cup {s}
    /\ HasAttempt(d, e) => InResumeProcess(d.att[e][Latest(d, e)])
    /\ \A j \in Slots \ {s} :
         /\ d1.att[e][j].row = "unused" => d.att[e][j].row = "unused"
         /\ d1.att[e][j].row = "live" => GoesOn(d.att[e][j], d1.att[e][j])
  BY DEF ResumedAt
<1>2. GoOnAt(d1, d2, e)
  BY MovedGoesOn
<1>3. s \in Slots
  BY DEF Unused
<1>4. Live(d2, e) \subseteq Live(d1, e)
  BY <1>2 DEF GoOnAt, GoesOn, Live
<1>5. ASSUME NEW j \in Slots \ {s}, d2.att[e][j].row = "live"
      PROVE  GoesOn(d.att[e][j], d2.att[e][j])
  <2>1. GoesOn(d1.att[e][j], d2.att[e][j])
    BY <1>2, <1>5 DEF GoOnAt
  <2>2. GoesOn(d.att[e][j], d1.att[e][j])
    BY <1>1, <2>1 DEF GoesOn
  <2> QED BY <2>1, <2>2, GoesOnTransitive
<1>6. \A j \in Slots \ {s} : d2.att[e][j].row = "unused" => d.att[e][j].row = "unused"
  BY <1>1, <1>2 DEF GoOnAt
<1>7. d2.att[e][s].row = "live" => ~ Interrupted(d2.att[e][s])
  BY <1>1, <1>2, <1>3 DEF GoOnAt, GoesOn
<1> QED
  BY <1>1, <1>4, <1>5, <1>6, <1>7 DEF ResumedAt

(* To enter an exam, and to resume it.                                     *)
LEMMA PostEnters ==
  ASSUME InLine(db), NEW e \in Exams, NEW proctored \in BOOLEAN,
         NEW startClock \in BOOLEAN, NEW n \in BOOLEAN,
         "created" \in Outcomes(e, proctored),
         Post(e, proctored, startClock, "created", n)
  PROVE  EnteredAt(db, db', e)
<1> DEFINE d1 == CreateAttempt(db, e, proctored, "created")
<1>1. Unused(db, e) # {} /\ RoomToDecline(db, e) /\ Sound(db)
  BY DEF Post, RoomToCreate, InLine
<1>2. Goes(db, db, "timed_out") /\ \A f \in Exams \ {e} : FinishedKept(db, db, f)
  BY GoesSimple DEF InLine, Honest, FinishedKept
<1>3. /\ Creates(db, e, proctored, "created") => Created(db, d1, e)
      /\ ~ Creates(db, e, proctored, "created") => Goes(db, d1, "timed_out")
      /\ ~ proctored => \A f \in Exams \ {e}, j \in Slots :
           d1.att[f][j] = db.att[f][j]
  BY <1>1, <1>2, CreateAttemptDoes
<1>4. db' = IF ~ Creates(db, e, proctored, "created") THEN d1
            ELSE IF Kind[e] # "timed" /\ ~ proctored
            THEN Update(d1, e, Latest(d1, e), "declined", FALSE)
            ELSE IF startClock THEN StartLatest(d1, e, n)
            ELSE d1
  BY DEF Post
<1> HIDE DEF d1
<1>5. CASE ~ Creates(db, e, proctored, "created")
  <2>1. GoOn(db, db')
    BY <1>1, <1>3, <1>4, <1>5, GoesGoesOn
  <2> QED BY <2>1 DEF GoOn, EnteredAt
<1>6. CASE Creates(db, e, proctored, "created")
  <2>1. Created(db, d1, e)
    BY <1>3, <1>6
  <2>2. /\ e \in SatOnce => ResumedAt(db, d1, e)
        /\ \A f \in SatOnce \ {e} : GoOnAt(db, d1, f)
    BY <2>1, CreatedEnters
  <2>3. InLine(d1) /\ Sound(d1) /\ Latest(d1, e) \in Live(d1, e)
    BY <2>1 DEF Created, InLine
  <2>4. CASE db' = d1
    BY <2>2, <2>4 DEF EnteredAt
  <2>5. ASSUME NEW to \in {"declined", "started"},
               Updated(d1, db', e, Latest(d1, e), to)
        PROVE  EnteredAt(db, db', e)
    <3>1. ASSUME e \in SatOnce PROVE ResumedAt(db, db', e)
      <4>1. MovedAt(d1, db', e, to)
        BY <2>5 DEF Updated
      <4> QED BY <2>2, <2>3, <3>1, <4>1, EnteredGoesOn
    <3>2. ASSUME NEW f \in SatOnce \ {e}
          PROVE  GoOnAt(db, db', f) \/ DeclinedAt(db, db', f)
      <4>1. f \in Exams /\ GoOnAt(db, d1, f)
        BY <2>2 DEF SatOnce
      <4>2. MovedAt(d1, db', f, to) \/ AnewAt(d1, db', f)
        BY <2>5, <4>1 DEF Updated
      <4>3. CASE MovedAt(d1, db', f, to)
        <5>1. GoOnAt(d1, db', f)
          BY <2>3, <4>3, MovedGoesOn
        <5> QED BY <4>1, <5>1, GoOnAtTransitive
      <4>4. CASE AnewAt(d1, db', f)
        BY <4>1, <4>4, DeclinedAfter
      <4> QED BY <4>2, <4>3, <4>4
    <3> QED BY <3>1, <3>2 DEF EnteredAt
  <2>6. CanHave(e, "declined") /\ CanHave(e, "started")
    BY DEF CanHave, Status, ValidStatus, Completed, Incomplete, InProgress
  <2>7. CASE ~ proctored /\ db' = Update(d1, e, Latest(d1, e), "declined", FALSE)
    <3>1. OtherProctored(e) \subseteq Exams \ {e}
      BY DEF OtherProctored
    <3>2. RoomToDecline(d1, e)
      BY <1>1, <1>3, <2>7, <3>1 DEF RoomToDecline, HasAttempt, Live, Unused
    <3>3. ASSUME NEW m \in BOOLEAN, NEW x,
                 x = Update(d1, e, Latest(d1, e), "declined", m)
          PROVE  Updated(d1, x, e, Latest(d1, e), "declined")
      BY <2>3, <2>6, <3>2, <3>3, UpdateDoes
    <3>4. Updated(d1, db', e, Latest(d1, e), "declined")
      BY <2>7, <3>3, Zenon
    <3> QED BY <2>5, <3>4
  <2>8. CASE db' = Update(d1, e, Latest(d1, e), "started", n)
    <3>1. Updated(d1, db', e, Latest(d1, e), "started")
      BY <2>3, <2>6, <2>8, UpdateDoes
    <3> QED BY <2>5, <3>1
  <2> QED BY <1>4, <1>6, <2>4, <2>7, <2>8 DEF StartLatest
<1> QED
  BY <1>5, <1>6

(* A read and an update that is no decline and no error.                   *)
LEMMA ReadUpdateGoesOn ==
  ASSUME NEW d, InLine(d), NEW e \in Exams, NEW i \in Live(d, e),
         NEW d1, d1 = Read(d, e, i), NEW k \in Live(d1, e), NEW to, CanHave(e, to),
         to \notin {"declined", "error"}, NEW n \in BOOLEAN,
         NEW d2, d2 = Update(d1, e, k, to, n)
  PROVE  GoOn(d, d1) /\ GoOn(d, d2)
<1>1. Honest(d) /\ Sound(d) /\ i \in Slots
  BY DEF InLine, Honest, Live
<1>2. Goes(d, d1, "timed_out")
  BY <1>1, ReadDoes
<1>3. InLine(d1) /\ Sound(d1) /\ GoOn(d, d1)
  BY <1>1, <1>2, MovedKeepsLine, GoesGoesOn DEF InLine
<1>4. Goes(d1, d2, to)
  BY <1>3, UpdateMoves
<1>5. GoOn(d1, d2)
  BY <1>3, <1>4, GoesGoesOn
<1> QED
  BY <1>3, <1>5, GoOnAtTransitive DEF GoOn

(* A status that the page asks for is one of those updates.                *)
LEMMA PutStatusGoesOn ==
  ASSUME InLine(db), NEW e \in Exams, NEW i \in Slots, NEW to, CanHave(e, to),
         to \notin {"declined", "error"}, PutStatus(e, i, to)
  PROVE  GoOn(db, db')
<1>1. i \in Live(db, e) /\ db' = Update(Read(db, e, i), e, i, to, FALSE)
  BY DEF PutStatus
<1>2. i \in Live(Read(db, e, i), e)
  BY <1>1, ReadDoes DEF InLine, Honest
<1>3. ASSUME NEW n \in BOOLEAN, NEW x, x = Update(Read(db, e, i), e, i, to, n)
      PROVE  GoOn(db, x)
  BY <1>1, <1>2, <1>3, ReadUpdateGoesOn
<1> QED
  BY <1>1, <1>3, Zenon

(* To start the current attempt is to go on.                               *)
LEMMA StartGoesOn ==
  ASSUME InLine(db), NEW e \in Exams, NEW i \in Slots, NEW n \in BOOLEAN, Start(e, i, n)
  PROVE  GoOn(db, db')
<1> DEFINE d1 == Read(db, e, i)
<1>1. i \in Live(db, e) /\ db' = StartLatest(d1, e, n) /\ Honest(db) /\ Sound(db)
  BY DEF Start, InLine, Honest
<1>2. Goes(db, d1, "timed_out")
  BY <1>1, ReadDoes
<1>3. CASE db' = d1
  BY <1>1, <1>2, <1>3, GoesGoesOn
<1>4. CASE db' # d1
  <2>1. HasAttempt(d1, e) /\ db' = Update(d1, e, Latest(d1, e), "started", n)
    BY <1>1, <1>4 DEF StartLatest
  <2>2. Latest(d1, e) \in Live(d1, e) /\ CanHave(e, "started")
    BY <2>1, LatestIsLive DEF CanHave, Status, ValidStatus, Incomplete, InProgress
  <2> HIDE DEF d1
  <2>3. ASSUME NEW x, x = d1, NEW k \in Live(x, e), db' = Update(x, e, k, "started", n)
        PROVE  GoOn(db, db')
    BY <1>1, <2>2, <2>3, ReadUpdateGoesOn DEF d1
  <2> QED BY <2>1, <2>2, <2>3
<1> QED
  BY <1>3, <1>4

(* So is to poll an attempt, which ends it when its time is over.          *)
LEMMA PollGoesOn ==
  ASSUME InLine(db), NEW e \in Exams, NEW i \in Slots, Poll(e, i)
  PROVE  GoOn(db, db')
<1>1. i \in Live(db, e) /\ db' = Read(db, e, i) /\ Honest(db) /\ Sound(db)
  BY DEF Poll, InLine, Honest
<1> QED
  BY <1>1, ReadDoes, GoesGoesOn

(* An attempt that staff delete is gone, and the others go on.             *)
LEMMA DeleteGoesOn ==
  ASSUME InLine(db), NEW e \in Exams, NEW i \in Slots, Delete(e, i)
  PROVE  GoOn(db, db')
<1> DEFINE d1 == Read(db, e, i)
<1>1. i \in Live(db, e) /\ db' = Removed(d1, e, i) /\ Honest(db) /\ Sound(db)
  BY DEF Delete, InLine, Honest
<1>2. Goes(db, d1, "timed_out") /\ i \in Live(d1, e) /\ Honest(d1) /\ Sound(d1)
  BY <1>1, ReadDoes DEF Goes, Honest
<1> HIDE DEF d1
<1>3. Goes(d1, db', "timed_out")
  BY <1>1, <1>2, RemovedDoes
<1>4. GoOn(db, d1) /\ GoOn(d1, db')
  BY <1>1, <1>2, <1>3, GoesGoesOn
<1> QED
  BY <1>4, GoOnAtTransitive DEF GoOn

(* A release changes nothing but the flags of an interrupted attempt.      *)
LEMMA ReleaseGoesOn ==
  ASSUME InLine(db), NEW e \in Exams, NEW i \in Slots, MarkReadyToResume(e, i)
  PROVE  GoOn(db, db')
<1> DEFINE d1  == Read(db, e, i)
           a   == d1.att[e][i]
           row == [a EXCEPT !.ready = TRUE, !.resumable = FALSE]
<1>1. /\ i \in Live(db, e) /\ Honest(db) /\ Sound(db)
      /\ db' = IF a.resumable THEN WithRow(d1, e, i, row) ELSE d1
  BY DEF MarkReadyToResume, WithRow, InLine, Honest
<1>2. Goes(db, d1, "timed_out") /\ i \in Live(d1, e) /\ Sound(d1)
  BY <1>1, ReadDoes DEF Goes, Honest
<1>3. GoOn(db, d1)
  BY <1>1, <1>2, GoesGoesOn
<1> HIDE DEF d1
<1>4. RowSound(e, a) /\ a \in Attempt /\ a.row = "live"
  BY <1>2 DEF Sound, RowSound, Live
<1>5. CASE a.resumable
  <2>1. /\ row.row = a.row /\ row.started = a.started /\ row.ready
    BY <1>4 DEF Attempt
  <2>2. ASSUME e \in SatOnce PROVE Interrupted(a)
    BY <1>4, <1>5, <2>2 DEF Interrupted, AttemptStage, RowSound, InResumeProcess, SatOnce
  <2>3. RowSound(e, row)
    <3>1. \A r : RowSound(e, r) /\ r.resumable =>
            RowSound(e, [r EXCEPT !.ready = TRUE, !.resumable = FALSE])
      BY DEF RowSound, Attempt, InResumeProcess
    <3> QED BY <1>4, <1>5, <3>1
  <2> HIDE DEF row, a
  <2>4. AttemptStage(row) = "released"
    BY <2>1 DEF AttemptStage, InResumeProcess
  <2>5. e \in SatOnce => GoesOn(a, row)
    BY <1>4, <2>1, <2>2, <2>4, Zenon DEF GoesOn
  <2>6. \A f \in Exams, j \in Slots :
          db'.att[f][j] = IF f = e /\ j = i THEN row ELSE d1.att[f][j]
    BY <1>1, <1>2, <1>5, <2>3, WriteRowSound
  <2>7. \A x : x.row = "live" => GoesOn(x, x)
    BY DEF GoesOn
  <2>8. GoOn(d1, db')
    BY <1>4, <2>1, <2>5, <2>6, <2>7 DEF GoOn, GoOnAt, SatOnce, a
  <2> QED BY <1>3, <2>8, GoOnAtTransitive DEF GoOn
<1>6. CASE ~ a.resumable
  BY <1>1, <1>3, <1>6
<1> QED
  BY <1>5, <1>6

(* So attempts go on with every request but those that enter an exam,      *)
(* start an attempt or report an error.                                    *)
LEMMA OthersGoOn ==
  ASSUME InLine(db), NEW e \in Exams, NEW i \in Slots,
         \/ Stop(e, i) \/ Submit(e, i) \/ Poll(e, i)
         \/ MarkReadyToResume(e, i) \/ Delete(e, i)
  PROVE  GoOn(db, db')
<1>1. /\ CanHave(e, "ready_to_submit") /\ CanHave(e, "submitted")
  BY DEF CanHave, Status, ValidStatus, Completed, Incomplete, InProgress
<1>2. CASE Stop(e, i) \/ Submit(e, i)
  BY <1>1, <1>2, PutStatusGoesOn DEF Stop, Submit
<1> QED
  BY <1>2, PollGoesOn, ReleaseGoesOn, DeleteGoesOn

-----------------------------------------------------------------------------
(* The times of the attempts at an exam fit the time that is allowed.      *)

(* The attempts before attempt i, and the time that i may use at most.     *)
Below(d, e, i) == {j \in Live(d, e) : j < i}

Share(a, t) == IF a.started THEN t.mins * Minute ELSE t.remaining

(* With T the times of the attempts at e, `at' the time it is, and `right' *)
(* the seconds the learner has a right to.  What an interrupted attempt    *)
(* has been running and what it has left is within its own time; what the  *)
(* attempts before this one have been running, and what this one may use,  *)
(* is within the right.  An open attempt with nothing stored, which will   *)
(* be given the whole time, is a first attempt or one that starts afresh.  *)
Fits(d, e, i, T, at, right) ==
  LET a == d.att[e][i]
      t == T[i]
  IN /\ a.row = "unused" => t = NoTimes
     /\ a.row = "live" =>
          /\ ~ a.started => t.run = 0 /\ t.mins = 0
          /\ t.since + t.run <= at
          /\ t.run <= t.mins * Minute
          /\ Interrupted(a) => t.run + t.remaining <= t.mins * Minute
          /\ ~ a.started /\ AttemptStage(a) = "open" /\ t.remaining = 0 /\ ~ t.afresh
               => Below(d, e, i) = {}
          /\ ~ t.afresh => RunTime(T, Below(d, e, i)) + Share(a, t) <= right

FitsIn(d, e, T, at, right) == \A i \in Slots : Fits(d, e, i, T, at, right)

(* The times of attempts at most add up.                                   *)
LEMMA RunTimes ==
  ASSUME NEW T \in [Slots -> Times]
  PROVE  /\ RunTime(T, {}) = 0
         /\ \A A \in SUBSET Slots :
              /\ RunTime(T, A) \in Nat
              /\ \A B \in SUBSET A : RunTime(T, B) <= RunTime(T, A)
              /\ \A x \in A : RunTime(T, A) = T[x].run + RunTime(T, A \ {x})
<1>1. \A x \in Slots : T[x].run \in Nat
  BY DEF Times
<1>2. IsFiniteSet(Slots)
  BY ConstantsAssumption, FS_Interval DEF Slots
<1>3. RunTime(T, {}) = 0
  BY <1>1, <1>2, RunTimeLess
<1>4. ASSUME NEW A \in SUBSET Slots
      PROVE  /\ RunTime(T, A) \in Nat
             /\ \A B \in SUBSET A : RunTime(T, B) <= RunTime(T, A)
             /\ \A x \in A : RunTime(T, A) = T[x].run + RunTime(T, A \ {x})
  <2>1. IsFiniteSet(A) /\ \A x \in A : T[x].run \in Nat
    BY <1>1, <1>2, FS_Subset
  <2> QED BY <2>1, RunTimeLess, RunTimeMonotone
<1> QED
  BY <1>3, <1>4

(* They add up to the same when each of them is the same.                  *)
LEMMA SameRunTimes ==
  ASSUME NEW T \in [Slots -> Times], NEW T1,
         \A x \in Slots : T1[x].run = T[x].run
  PROVE  \A A \in SUBSET Slots : RunTime(T1, A) = RunTime(T, A)
<1>1. \A x \in Slots : T[x].run \in Nat
  BY DEF Times
<1>2. IsFiniteSet(Slots)
  BY ConstantsAssumption, FS_Interval DEF Slots
<1> QED
  BY <1>1, <1>2, RunTimeSame

(* With fewer attempts before it, and the same times of each.              *)
LEMMA BelowShrinks ==
  ASSUME NEW d, NEW d1, NEW e, Live(d1, e) \subseteq Live(d, e), NEW i,
         NEW T \in [Slots -> Times], NEW T1, \A x \in Slots : T1[x].run = T[x].run
  PROVE  /\ Below(d1, e, i) \subseteq Below(d, e, i)
         /\ RunTime(T, Below(d, e, i)) \in Nat
         /\ RunTime(T1, Below(d1, e, i)) \in Nat
         /\ RunTime(T1, Below(d1, e, i)) <= RunTime(T, Below(d, e, i))
<1>1. Below(d1, e, i) \subseteq Below(d, e, i) /\ Below(d, e, i) \subseteq Slots
  BY DEF Below, Live
<1>2. RunTime(T1, Below(d1, e, i)) = RunTime(T, Below(d1, e, i))
  BY <1>1, SameRunTimes
<1> QED
  BY <1>1, <1>2, RunTimes

(* The time that may be used is a time.                                    *)
LEMMA ShareNat ==
  ASSUME NEW a, NEW t \in Times
  PROVE  Share(a, t) \in Nat /\ t.mins * Minute \in Nat
  BY MinutesLast, ClockAssumption DEF Share, Times

(* An attempt that goes on, with the same times, still fits.               *)
LEMMA RowStillFits ==
  ASSUME NEW d, NEW d1, NEW e, Live(d1, e) \subseteq Live(d, e),
         NEW i \in Live(d1, e), NEW T \in [Slots -> Times], NEW T1,
         \A x \in Slots : T1[x].run = T[x].run, T1[i] = T[i],
         GoesOn(d.att[e][i], d1.att[e][i]), d1.att[e][i].started => d.att[e][i].started,
         NEW at \in Nat, NEW right \in Nat, Fits(d, e, i, T, at, right)
  PROVE  Fits(d1, e, i, T1, at, right)
<1> DEFINE a == d.att[e][i]
           b == d1.att[e][i]
           t == T[i]
<1>1. /\ t \in Times /\ Share(a, t) \in Nat /\ t.mins * Minute \in Nat /\ i \in Slots
      /\ a.row = "live" /\ b.row = "live"
  BY ShareNat DEF Live, GoesOn
<1>2. /\ Below(d1, e, i) \subseteq Below(d, e, i)
      /\ RunTime(T, Below(d, e, i)) \in Nat
      /\ RunTime(T1, Below(d1, e, i)) \in Nat
      /\ RunTime(T1, Below(d1, e, i)) <= RunTime(T, Below(d, e, i))
  BY BelowShrinks
<1>3. /\ a.started <=> b.started
      /\ AttemptStage(b) = "open" => AttemptStage(a) = "open"
      /\ Interrupted(b) => Interrupted(a)
  BY DEF GoesOn
<1>4. /\ ~ a.started => t.run = 0 /\ t.mins = 0
      /\ t.since + t.run <= at
      /\ t.run <= t.mins * Minute
      /\ Interrupted(a) => t.run + t.remaining <= t.mins * Minute
      /\ ~ a.started /\ AttemptStage(a) = "open" /\ t.remaining = 0 /\ ~ t.afresh
           => Below(d, e, i) = {}
      /\ ~ t.afresh => RunTime(T, Below(d, e, i)) + Share(a, t) <= right
  BY <1>1, Zenon DEF Fits
<1>5. Share(b, t) = Share(a, t)
  BY <1>3, Zenon DEF Share
<1>6. T1[i] = t
  OBVIOUS
<1> HIDE DEF a, b, t
<1>7. ~ t.afresh => RunTime(T1, Below(d1, e, i)) + Share(b, t) <= right
  BY <1>1, <1>2, <1>4, <1>5
<1>8. ~ b.started /\ AttemptStage(b) = "open" /\ t.remaining = 0 /\ ~ t.afresh
        => Below(d1, e, i) = {}
  BY <1>2, <1>3, <1>4
<1> QED
  BY <1>1, <1>3, <1>4, <1>6, <1>7, <1>8, Zenon DEF Fits, a, b

(* Attempts that go on, with the same times, still fit.                    *)
LEMMA StillFits ==
  ASSUME NEW d, NEW d1, NEW e, NEW T \in [Slots -> Times], GoOnAt(d, d1, e),
         \A j \in Slots : d1.att[e][j].started => d.att[e][j].started,
         NEW at \in Nat, NEW right \in Nat, FitsIn(d, e, T, at, right)
  PROVE  FitsIn(d1, e, T, at, right)
<1>1. Live(d1, e) \subseteq Live(d, e)
  BY DEF Live, GoOnAt, GoesOn
<1>2. ASSUME NEW i \in Slots, d1.att[e][i].row = "live"
      PROVE  Fits(d1, e, i, T, at, right)
  <2>1. i \in Live(d1, e) /\ GoesOn(d.att[e][i], d1.att[e][i])
    BY <1>2 DEF Live, GoOnAt
  <2> QED BY <1>1, <2>1, RowStillFits DEF FitsIn
<1>3. ASSUME NEW i \in Slots, d1.att[e][i].row # "live"
      PROVE  Fits(d1, e, i, T, at, right)
  BY <1>3 DEF GoOnAt, FitsIn, Fits
<1> QED
  BY <1>2, <1>3 DEF FitsIn

(* So does an attempt that is made and declined at once.                   *)
LEMMA DeclinedFits ==
  ASSUME NEW d, NEW d1, NEW e, NEW T \in [Slots -> Times], DeclinedAt(d, d1, e),
         \A j \in Slots : d1.att[e][j].started => d.att[e][j].started,
         \A j \in Unused(d, e) : ~ d.att[e][j].started,
         NEW at \in Nat, NEW right \in Nat, FitsIn(d, e, T, at, right)
  PROVE  FitsIn(d1, e, T, at, right)
<1>1. PICK s \in Unused(d, e) : Live(d1, e) = {s} /\ AttemptStage(d1.att[e][s]) = "closed"
  BY DEF DeclinedAt
<1>2. s \in Slots /\ d.att[e][s].row = "unused"
  BY DEF Unused
<1>3. T[s] = NoTimes
  BY <1>2 DEF FitsIn, Fits
<1>4. Fits(d1, e, s, T, at, right)
  <2>1. ~ d1.att[e][s].started /\ d1.att[e][s].row = "live"
    BY <1>1, <1>2 DEF Live
  <2>2. Below(d1, e, s) = {} /\ RunTime(T, {}) = 0
    BY <1>1, <1>2, RunTimes DEF Below, Slots
  <2>3. ~ Interrupted(d1.att[e][s])
    BY <1>1 DEF Interrupted
  <2>4. Share(d1.att[e][s], NoTimes) = 0
    BY <2>1 DEF Share, NoTimes
  <2>5. /\ NoTimes.run = 0 /\ NoTimes.mins = 0 /\ NoTimes.since = 0
        /\ NoTimes.run <= NoTimes.mins * Minute
    BY ClockAssumption DEF NoTimes
  <2> QED BY <1>1, <1>3, <2>1, <2>2, <2>3, <2>4, <2>5 DEF Fits
<1>5. ASSUME NEW i \in Slots, i # s PROVE Fits(d1, e, i, T, at, right)
  <2>1. d1.att[e][i].row # "live"
    BY <1>1, <1>5 DEF Live
  <2> QED BY <2>1 DEF DeclinedAt, FitsIn, Fits
<1> QED
  BY <1>4, <1>5 DEF FitsIn

(* More minutes are more seconds.                                          *)
LEMMA ProductGrows ==
  ASSUME NEW a \in Nat, NEW b \in Nat, NEW c \in Nat, a <= b
  PROVE  a * c \in Nat /\ b * c \in Nat /\ a * c <= b * c
<1>1. PICK k \in Nat : b = a + k
  <2>1. b - a \in Nat /\ b = a + (b - a)
    OBVIOUS
  <2> QED BY <2>1
<1>2. b * c = a * c + k * c /\ k * c \in Nat /\ a * c \in Nat
  BY <1>1
<1> QED
  BY <1>2

(* A start is given no more than the time that is stored, if there is any, *)
(* and no more than limit and allowance.                                   *)
LEMMA MinsWithin ==
  ASSUME ClockTypes, NEW e \in Exams, NEW remaining \in Nat,
         NEW mins, mins = MinsFor(e, remaining)
  PROVE  /\ mins \in Nat /\ mins * Minute \in Nat
         /\ remaining # 0 => mins * Minute <= remaining
         /\ remaining = 0 => mins * Minute <= (Limit[e] + extra[e]) * Minute
<1> DEFINE allowed == AllowedMins(e, remaining)
           left    == due[e] - now - 1
           whole   == Limit[e] + extra[e]
<1>1. now \in Nat /\ due[e] \in Nat /\ Minute \in Nat \ {0} /\ Minute \in Nat
  BY ClockAssumption DEF ClockTypes
<1>2. whole \in Nat
  <2>1. extra[e] \in Nat /\ Limit[e] \in Nat
    BY ClockAssumption DEF ClockTypes
  <2> QED BY <2>1
<1>3. remaining \div Minute \in Nat /\ (remaining \div Minute) * Minute <= remaining
  BY <1>1, DivisionRoundsDown
<1>4. allowed = IF remaining > 0 THEN remaining \div Minute ELSE whole
  BY DEF AllowedMins
<1>5. mins = IF due[e] = NoDate \/ now + allowed * Minute < due[e] THEN allowed
             ELSE IF due[e] > now THEN left \div Minute
             ELSE 0
  BY DEF MinsFor, ClippedMins
<1> HIDE DEF allowed, whole
<1>6. allowed \in Nat
  BY <1>2, <1>3, <1>4
<1>7. allowed * Minute \in Nat
  BY <1>1, <1>6, ProductGrows
<1>8. mins \in Nat /\ mins * Minute \in Nat /\ mins * Minute <= allowed * Minute
  <2>1. CASE mins = allowed
    BY <1>6, <1>7, <2>1
  <2>2. CASE mins = 0
    BY <1>1, <1>7, <2>2
  <2>3. CASE mins # allowed /\ mins # 0
    <3>1. /\ due[e] > now /\ mins = left \div Minute
          /\ ~ (now + allowed * Minute < due[e])
      BY <1>5, <2>3
    <3>2. left \in Nat /\ left <= allowed * Minute
      BY <1>1, <1>7, <3>1
    <3> HIDE DEF left
    <3>3. mins \in Nat /\ mins * Minute <= left
      BY <1>1, <3>1, <3>2, DivisionRoundsDown
    <3>4. mins * Minute \in Nat
      BY <1>1, <3>3, ProductGrows
    <3> QED BY <1>7, <3>2, <3>3, <3>4
  <2> QED BY <2>1, <2>2, <2>3
<1>9. ASSUME remaining # 0 PROVE mins * Minute <= remaining
  <2>1. allowed = remaining \div Minute
    BY <1>4, <1>9
  <2>2. allowed * Minute <= remaining
    BY <1>3, <2>1
  <2> QED BY <1>7, <1>8, <2>2
<1>10. ASSUME remaining = 0 PROVE mins * Minute <= whole * Minute
  BY <1>4, <1>8, <1>10
<1> QED
  BY <1>8, <1>9, <1>10 DEF whole

(* Fewer attempts, with the same times, have been running for less time.   *)
LEMMA FewerRunLess ==
  ASSUME NEW T \in [Slots -> Times], NEW T1, \A x \in Slots : T1[x].run = T[x].run,
         NEW A \in SUBSET Slots, NEW B \in SUBSET A
  PROVE  /\ RunTime(T, A) \in Nat /\ RunTime(T1, B) \in Nat
         /\ RunTime(T1, B) <= RunTime(T, A)
<1>1. RunTime(T1, B) = RunTime(T, B)
  BY SameRunTimes
<1> QED
  BY <1>1, RunTimes

(* What a request leaves of the time, with the attempt it started given    *)
(* its minutes: here an attempt that there was.                            *)
LEMMA RowFitsAfter ==
  ASSUME ClockTypes, NEW e \in SatOnce, NEW right \in Nat,
         FitsIn(db, e, times[e], now, right),
         (Limit[e] + extra[e]) * Minute <= right,
         NEW i \in Live(db', e), GoesOn(db.att[e][i], db'.att[e][i]),
         Below(db', e, i) \subseteq Below(db, e, i)
  PROVE  Fits(db', e, i, Timed(e), now, right)
<1> DEFINE a  == db.att[e][i]
           b  == db'.att[e][i]
           t  == times[e][i]
           T1 == Timed(e)
           t1 == T1[i]
           S  == RunTime(times[e], Below(db, e, i))
           S1 == RunTime(T1, Below(db', e, i))
<1>1. /\ e \in Exams /\ i \in Slots /\ times[e] \in [Slots -> Times] /\ t \in Times
      /\ now \in Nat /\ a.row = "live" /\ b.row = "live"
  BY DEF SatOnce, Live, ClockTypes, GoesOn
<1>2. /\ t1 \in Times /\ t1.remaining = t.remaining /\ t1.run = t.run
      /\ t1.afresh = t.afresh
      /\ IF b.started /\ ~ a.started
         THEN t1.since = now /\ t1.mins = MinsFor(e, t.remaining)
         ELSE t1.since = t.since /\ t1.mins = t.mins
  <2>1. StoredAfter(e, i) = t.remaining
    BY <1>1 DEF StoredAfter
  <2>2. /\ t1 \in Times
        /\ t1.remaining = StoredAfter(e, i) /\ t1.run = t.run
        /\ t1.afresh = (t.afresh \/ (a.row = "unused" /\ b.row = "live" /\ StartsAfresh(e)))
        /\ IF b.started /\ ~ a.started
           THEN t1.since = now /\ t1.mins = MinsFor(e, StoredAfter(e, i))
           ELSE t1.since = t.since /\ t1.mins = t.mins
    BY <1>1, TimedSays, ZenonT(40)
  <2>3. t.afresh \in BOOLEAN /\ a.row # "unused"
    BY <1>1 DEF Times
  <2> QED BY <2>1, <2>2, <2>3
<1>3. S \in Nat /\ S1 \in Nat /\ S1 <= S
  <2>1. \A x \in Slots : T1[x].run = times[e][x].run
    BY <1>1, TimedSays
  <2>2. Below(db, e, i) \in SUBSET Slots
    BY DEF Below, Live
  <2> HIDE DEF T1
  <2> QED BY <1>1, <2>1, <2>2, FewerRunLess
<1>4. /\ ~ a.started => t.run = 0 /\ t.mins = 0
      /\ t.since + t.run <= now
      /\ t.run <= t.mins * Minute
      /\ Interrupted(a) => t.run + t.remaining <= t.mins * Minute
      /\ ~ a.started /\ AttemptStage(a) = "open" /\ t.remaining = 0 /\ ~ t.afresh
           => Below(db, e, i) = {}
      /\ ~ t.afresh => S + Share(a, t) <= right
  BY <1>1, Zenon DEF FitsIn, Fits
<1>5. /\ a.started => b.started
      /\ b.started => a.started \/ AttemptStage(a) = "open"
      /\ AttemptStage(b) = "open" => AttemptStage(a) = "open"
      /\ Interrupted(b) => Interrupted(a)
  BY DEF GoesOn
<1>6. Fits(db', e, i, T1, now, right) <=>
        /\ ~ b.started => t1.run = 0 /\ t1.mins = 0
        /\ t1.since + t1.run <= now
        /\ t1.run <= t1.mins * Minute
        /\ Interrupted(b) => t1.run + t1.remaining <= t1.mins * Minute
        /\ ~ b.started /\ AttemptStage(b) = "open" /\ t1.remaining = 0 /\ ~ t1.afresh
             => Below(db', e, i) = {}
        /\ ~ t1.afresh => S1 + Share(b, t1) <= right
  BY <1>1, Zenon DEF Fits
<1>7. /\ Below(db, e, i) = {} => Below(db', e, i) = {} /\ S1 = 0
  <2>1. RunTime(times[e], {}) = 0
    BY <1>1, RunTimes
  <2>2. Below(db, e, i) = {} => S = 0
    BY <2>1, Zenon
  <2> QED BY <1>3, <2>2
<1>8. Share(a, t) \in Nat /\ t.mins * Minute \in Nat
  BY <1>1, ShareNat
<1> SUFFICES Fits(db', e, i, T1, now, right)
  BY Zenon
<1> HIDE DEF a, b, t, T1, t1, S, S1
<1>9. CASE b.started /\ ~ a.started
  <2>1. ~ Interrupted(a)
    BY <1>5, <1>9 DEF Interrupted
  <2>2. t1.since = now /\ t1.mins = MinsFor(e, t.remaining) /\ t1.run = 0
    BY <1>2, <1>4, <1>9
  <2>3. t.remaining \in Nat
    BY <1>1 DEF Times
  <2>4. /\ t1.mins \in Nat /\ t1.mins * Minute \in Nat
        /\ t.remaining # 0 => t1.mins * Minute <= t.remaining
        /\ t.remaining = 0 => t1.mins * Minute <= (Limit[e] + extra[e]) * Minute
    BY <1>1, <2>2, <2>3, MinsWithin
  <2>5. Share(b, t1) = t1.mins * Minute /\ Share(a, t) = t.remaining
    BY <1>9 DEF Share
  <2>6. ASSUME ~ t1.afresh PROVE S1 + Share(b, t1) <= right
    <3>1. CASE t.remaining # 0
      <4>1. S + t.remaining <= right
        BY <1>2, <1>4, <2>5, <2>6
      <4> QED BY <1>3, <2>3, <2>4, <2>5, <3>1, <4>1
    <3>2. CASE t.remaining = 0
      <4>1. Below(db, e, i) = {}
        BY <1>2, <1>4, <1>5, <1>9, <2>6, <3>2
      <4>2. S1 = 0
        BY <1>7, <4>1
      <4>3. t1.mins * Minute <= right
        <5>1. (Limit[e] + extra[e]) * Minute \in Nat
          <6>1. Limit[e] \in Nat /\ extra[e] \in Nat
            BY <1>1, ClockAssumption DEF ClockTypes
          <6>2. Limit[e] + extra[e] \in Nat
            BY <6>1
          <6> QED BY <6>2, ClockAssumption, MinutesLast
        <5> QED BY <2>4, <3>2, <5>1
      <4> QED BY <2>4, <2>5, <4>2, <4>3
    <3> QED BY <3>1, <3>2
  <2>7. t1.since + t1.run <= now /\ t1.run <= t1.mins * Minute
    BY <1>1, <2>2, <2>4
  <2> QED BY <1>5, <1>6, <1>9, <2>1, <2>6, <2>7
<1>10. CASE ~ (b.started /\ ~ a.started)
  <2>1. t1.since = t.since /\ t1.mins = t.mins
    BY <1>2, <1>10
  <2>2. Share(b, t1) = Share(a, t)
    BY <1>2, <1>5, <1>10, <2>1 DEF Share
  <2>3. ~ t1.afresh => S1 + Share(b, t1) <= right
    BY <1>2, <1>3, <1>4, <1>8, <2>2
  <2>4. ~ b.started => ~ a.started
    BY <1>5
  <2>5. ~ b.started /\ AttemptStage(b) = "open" /\ t1.remaining = 0 /\ ~ t1.afresh
          => Below(db', e, i) = {}
    BY <1>2, <1>4, <1>5, <1>7, <2>4
  <2> QED BY <1>2, <1>4, <1>5, <1>6, <2>1, <2>3, <2>4, <2>5
<1> QED
  BY <1>9, <1>10

(* The right to limit and allowance is a number of seconds.                *)
LEMMA RightNat ==
  ASSUME ClockTypes, NEW e \in Exams
  PROVE  (Limit[e] + extra[e]) * Minute \in Nat
<1>1. Limit[e] \in Nat /\ extra[e] \in Nat
  BY ClockAssumption DEF ClockTypes
<1>2. Limit[e] + extra[e] \in Nat
  BY <1>1
<1> QED
  BY <1>2, ClockAssumption, MinutesLast

(* What there is for an attempt that is made: nothing has been stored for  *)
(* it and it is the first or starts afresh, or what is stored for it and   *)
(* what all the others have been running is within the right.              *)
LEMMA InheritedFits ==
  ASSUME ClockTypes, NEW e \in SatOnce, NEW right \in Nat,
         FitsIn(db, e, times[e], now, right),
         HasAttempt(db, e) => InResumeProcess(db.att[e][Latest(db, e)]),
         ~ StartsAfresh(e)
  PROVE  /\ Inherited(e) \in Nat
         /\ ~ HasAttempt(db, e) => Inherited(e) = 0
         /\ HasAttempt(db, e) =>
              /\ Inherited(e) # 0
              /\ RunTime(times[e], Live(db, e)) + Inherited(e) <= right
<1> DEFINE k == Latest(db, e)
           a == db.att[e][k]
           t == times[e][k]
           S == RunTime(times[e], Below(db, e, k))
<1>1. ~ HasAttempt(db, e) => Inherited(e) = 0
  BY DEF Inherited, Resumes
<1>2. ASSUME HasAttempt(db, e)
      PROVE  /\ Inherited(e) \in Nat /\ Inherited(e) # 0
             /\ RunTime(times[e], Live(db, e)) + Inherited(e) <= right
  <2>1. /\ e \in Exams /\ k \in Slots /\ k \in Live(db, e) /\ a.row = "live"
        /\ \A j \in Live(db, e) : j <= k
        /\ Live(db, e) \subseteq Slots /\ Live(db, e) \subseteq Int
    BY <1>2, LatestIsLive DEF SatOnce, Live, Slots
  <2>2. times[e] \in [Slots -> Times] /\ t \in Times
    BY <2>1 DEF ClockTypes
  <2>3. Resumes(e) /\ Inherited(e) = t.remaining /\ t.remaining # 0 /\ ~ t.afresh
    BY <1>2 DEF Resumes, Inherited, StartsAfresh
  <2>4. Interrupted(a)
    BY <1>2 DEF Interrupted, AttemptStage
  <2>5. Live(db, e) \ {k} = Below(db, e, k)
    <3> HIDE DEF k
    <3> QED BY <2>1 DEF Below
  <2>6. RunTime(times[e], Live(db, e)) = t.run + S
    <3>1. RunTime(times[e], Live(db, e)) = t.run + RunTime(times[e], Live(db, e) \ {k})
      BY <2>1, <2>2, RunTimes
    <3> QED BY <2>5, <3>1
  <2>7. S \in Nat /\ t.run \in Nat /\ t.remaining \in Nat
    <3>1. Below(db, e, k) \in SUBSET Slots
      BY DEF Below, Live
    <3> QED BY <2>2, <3>1, RunTimes DEF Times
  <2>8. /\ ~ a.started => t.run = 0 /\ t.mins = 0
        /\ t.run + t.remaining <= t.mins * Minute
        /\ S + Share(a, t) <= right
    BY <2>1, <2>3, <2>4, Zenon DEF FitsIn, Fits
  <2>9. t.mins * Minute \in Nat
    BY <2>2, ShareNat
  <2> HIDE DEF a, t, S, k
  <2>10. a.started
    <3>1. SUFFICES ASSUME ~ a.started PROVE FALSE
      OBVIOUS
    <3>2. t.mins * Minute = 0
      BY <2>8, <3>1, ClockAssumption
    <3> QED BY <2>3, <2>7, <2>8, <3>2
  <2>11. Share(a, t) = t.mins * Minute
    BY <2>10 DEF Share
  <2> QED BY <2>3, <2>6, <2>7, <2>8, <2>9, <2>11
<1> QED
  BY <1>1, <1>2

(* A request does not change what the attempts have been running.          *)
LEMMA TimedRuns ==
  ASSUME ClockTypes, NEW e \in Exams
  PROVE  /\ Timed(e) \in [Slots -> Times]
         /\ \A x \in Slots : Timed(e)[x].run = times[e][x].run
<1>1. ASSUME NEW x \in Slots, NEW t, t = Timed(e)[x]
      PROVE  t \in Times /\ t.run = times[e][x].run
  BY <1>1, TimedSays, Zenon
<1>2. \A x \in Slots : Timed(e)[x] \in Times /\ Timed(e)[x].run = times[e][x].run
  BY <1>1, Zenon
<1>3. Timed(e) = [x \in Slots |-> Timed(e)[x]]
  BY DEF Timed
<1> QED
  BY <1>2, <1>3

(* The attempt that is made fits.                                          *)
LEMMA NewRowFits ==
  ASSUME ClockTypes, NEW e \in SatOnce, NEW right \in Nat,
         FitsIn(db, e, times[e], now, right),
         (Limit[e] + extra[e]) * Minute <= right,
         HasAttempt(db, e) => InResumeProcess(db.att[e][Latest(db, e)]),
         NEW s \in Unused(db, e), ~ db.att[e][s].started,
         db'.att[e][s].row = "live", ~ Interrupted(db'.att[e][s]),
         Live(db', e) \subseteq Live(db, e) \cup {s}
  PROVE  Fits(db', e, s, Timed(e), now, right)
<1> DEFINE b  == db'.att[e][s]
           T1 == Timed(e)
           t1 == T1[s]
           R  == Inherited(e)
           S  == RunTime(times[e], Live(db, e))
           S1 == RunTime(T1, Below(db', e, s))
<1>1. /\ e \in Exams /\ s \in Slots /\ times[e] \in [Slots -> Times]
      /\ now \in Nat /\ db.att[e][s].row = "unused"
  BY DEF SatOnce, Unused, ClockTypes
<1>2. times[e][s] = NoTimes
  BY <1>1 DEF FitsIn, Fits
<1>3. /\ t1 \in Times /\ t1.remaining = R /\ t1.run = 0 /\ R \in Nat
      /\ t1.afresh = StartsAfresh(e)
      /\ IF b.started THEN t1.since = now /\ t1.mins = MinsFor(e, R)
         ELSE t1.since = 0 /\ t1.mins = 0
  <2>1. StoredAfter(e, s) = R
    BY <1>1 DEF StoredAfter
  <2>2. /\ t1 \in Times /\ StoredAfter(e, s) \in Nat
        /\ t1.remaining = StoredAfter(e, s) /\ t1.run = times[e][s].run
        /\ t1.afresh = \/ times[e][s].afresh
                       \/ db.att[e][s].row = "unused" /\ b.row = "live" /\ StartsAfresh(e)
        /\ IF b.started /\ ~ db.att[e][s].started
           THEN t1.since = now /\ t1.mins = MinsFor(e, StoredAfter(e, s))
           ELSE t1.since = times[e][s].since /\ t1.mins = times[e][s].mins
    BY <1>1, TimedSays, ZenonT(40)
  <2>3. NoTimes.run = 0 /\ NoTimes.since = 0 /\ NoTimes.mins = 0 /\ NoTimes.afresh = FALSE
    BY DEF NoTimes
  <2>4. StartsAfresh(e) \in BOOLEAN
    BY DEF StartsAfresh, Resumes
  <2> QED BY <1>1, <1>2, <2>1, <2>2, <2>3, <2>4
<1>4. /\ t1.mins \in Nat /\ t1.mins * Minute \in Nat
      /\ b.started /\ R # 0 => t1.mins * Minute <= R
      /\ b.started /\ R = 0 => t1.mins * Minute <= (Limit[e] + extra[e]) * Minute
  BY <1>1, <1>3, MinsWithin, ShareNat DEF Times
<1>5. (Limit[e] + extra[e]) * Minute \in Nat
  BY <1>1, RightNat
<1>6. S \in Nat /\ S1 \in Nat /\ S1 <= S
  <2>1. \A x \in Slots : T1[x].run = times[e][x].run
    BY <1>1, TimedRuns, Zenon
  <2>2. Live(db, e) \in SUBSET Slots /\ Below(db', e, s) \in SUBSET Live(db, e)
    BY <1>1 DEF Below, Live, Slots
  <2> HIDE DEF T1
  <2> QED BY <1>1, <2>1, <2>2, FewerRunLess
<1>7. ~ HasAttempt(db, e) => Below(db', e, s) = {} /\ S1 = 0
  <2>1. ~ HasAttempt(db, e) => Live(db, e) = {} /\ Below(db', e, s) = {}
    BY <1>1 DEF HasAttempt, Below, Slots
  <2>2. RunTime(times[e], {}) = 0
    BY <1>1, RunTimes
  <2>3. Live(db, e) = {} => S = 0
    BY <2>2, Zenon
  <2> QED BY <1>6, <2>1, <2>3
<1>8. ~ StartsAfresh(e) =>
        /\ ~ HasAttempt(db, e) => R = 0
        /\ HasAttempt(db, e) => R # 0 /\ S + R <= right
  BY InheritedFits
<1>9. Fits(db', e, s, T1, now, right) <=>
        /\ ~ b.started => t1.run = 0 /\ t1.mins = 0
        /\ t1.since + t1.run <= now
        /\ t1.run <= t1.mins * Minute
        /\ ~ b.started /\ AttemptStage(b) = "open" /\ t1.remaining = 0 /\ ~ t1.afresh
             => Below(db', e, s) = {}
        /\ ~ t1.afresh => S1 + Share(b, t1) <= right
  BY <1>1, Zenon DEF Fits
<1> SUFFICES Fits(db', e, s, T1, now, right)
  BY Zenon
<1> HIDE DEF b, T1, t1, R, S, S1
<1>10. ASSUME ~ t1.afresh PROVE S1 + Share(b, t1) <= right
  <2>1. ~ StartsAfresh(e)
    BY <1>3, <1>10
  <2>2. Share(b, t1) = IF b.started THEN t1.mins * Minute ELSE R
    BY <1>3 DEF Share
  <2>3. CASE HasAttempt(db, e)
    <3>1. R # 0 /\ S + R <= right
      BY <1>8, <2>1, <2>3
    <3>2. Share(b, t1) \in Nat /\ Share(b, t1) <= R
      BY <1>3, <1>4, <2>2, <3>1
    <3> QED BY <1>3, <1>6, <3>1, <3>2
  <2>4. CASE ~ HasAttempt(db, e)
    <3>1. R = 0 /\ S1 = 0
      BY <1>7, <1>8, <2>1, <2>4
    <3> QED BY <1>4, <1>5, <2>2, <3>1
  <2> QED BY <2>3, <2>4
<1>11. t1.since + t1.run <= now /\ t1.run <= t1.mins * Minute
  BY <1>1, <1>3, <1>4
<1>12. t1.remaining = 0 /\ ~ t1.afresh => Below(db', e, s) = {}
  BY <1>3, <1>7, <1>8
<1> QED
  BY <1>3, <1>9, <1>10, <1>11, <1>12

(* A slot that is still unused has no times.                               *)
LEMMA UnusedTimes ==
  ASSUME ClockTypes, NEW e \in Exams, NEW i \in Slots,
         times[e][i] = NoTimes, db'.att[e][i].row = "unused",
         ~ db'.att[e][i].started
  PROVE  Timed(e)[i] = NoTimes
<1> DEFINE t == Timed(e)[i]
<1>1. StoredAfter(e, i) = times[e][i].remaining
  BY DEF StoredAfter
<1>2. /\ t \in Times
      /\ t.remaining = StoredAfter(e, i) /\ t.run = times[e][i].run
      /\ t.afresh = \/ times[e][i].afresh
                    \/ /\ db.att[e][i].row = "unused" /\ db'.att[e][i].row = "live"
                       /\ StartsAfresh(e)
      /\ IF db'.att[e][i].started /\ ~ db.att[e][i].started
         THEN t.since = now /\ t.mins = MinsFor(e, StoredAfter(e, i))
         ELSE t.since = times[e][i].since /\ t.mins = times[e][i].mins
  BY TimedSays, ZenonT(40)
<1>3. NoTimes \in Times /\ NoTimes.afresh = FALSE
  BY DEF NoTimes, Times
<1> HIDE DEF t
<1>4. /\ t.remaining = NoTimes.remaining /\ t.run = NoTimes.run
      /\ t.afresh = NoTimes.afresh /\ t.since = NoTimes.since /\ t.mins = NoTimes.mins
  BY <1>1, <1>2, <1>3
<1>5. t = NoTimes
  BY <1>2, <1>3, <1>4 DEF Times
<1> QED
  BY <1>5 DEF t

(* At the exam that a request names, the times still fit.                  *)
LEMMA RequestFits ==
  ASSUME ClockTypes, InLine(db), NoneSpoilt(db), NoneSpoilt(db'),
         NEW e \in SatOnce, NEW right \in Nat,
         FitsIn(db, e, times[e], now, right),
         (Limit[e] + extra[e]) * Minute <= right,
         GoOnAt(db, db', e) \/ ResumedAt(db, db', e)
  PROVE  FitsIn(db', e, Timed(e), now, right)
<1>1. e \in Exams
  BY DEF SatOnce
<1>2. ASSUME NEW i \in Slots, db'.att[e][i].row = "unused", db.att[e][i].row = "unused"
      PROVE  Fits(db', e, i, Timed(e), now, right)
  <2>1. times[e][i] = NoTimes
    BY <1>2 DEF FitsIn, Fits
  <2>2. ~ db'.att[e][i].started
    BY <1>1, <1>2 DEF NoneSpoilt, Spoilt
  <2>3. Timed(e)[i] = NoTimes
    BY <1>1, <1>2, <2>1, <2>2, UnusedTimes
  <2> QED BY <1>2, <2>3 DEF Fits
<1>3. ASSUME NEW i \in Slots, db'.att[e][i].row \notin {"unused", "live"}
      PROVE  Fits(db', e, i, Timed(e), now, right)
  BY <1>3 DEF Fits
<1>4. CASE GoOnAt(db, db', e)
  <2>1. Live(db', e) \subseteq Live(db, e)
    BY <1>4 DEF GoOnAt, GoesOn, Live
  <2>2. ASSUME NEW i \in Live(db', e)
        PROVE  Fits(db', e, i, Timed(e), now, right)
    <3>1. GoesOn(db.att[e][i], db'.att[e][i])
      BY <1>4, <2>2 DEF GoOnAt, Live
    <3>2. Below(db', e, i) \subseteq Below(db, e, i)
      BY <2>1 DEF Below
    <3> QED BY <3>1, <3>2, RowFitsAfter
  <2>3. \A i \in Slots : db'.att[e][i].row = "unused" => db.att[e][i].row = "unused"
    BY <1>4 DEF GoOnAt
  <2> QED BY <1>2, <1>3, <2>2, <2>3 DEF FitsIn, Live
<1>5. CASE ResumedAt(db, db', e)
  <2>1. PICK s \in Unused(db, e) :
          /\ db'.att[e][s].row = "live" => ~ Interrupted(db'.att[e][s])
          /\ Live(db', e) \subseteq Live(db, e) \cup {s}
          /\ HasAttempt(db, e) => InResumeProcess(db.att[e][Latest(db, e)])
          /\ \A j \in Slots \ {s} :
               /\ db'.att[e][j].row = "unused" => db.att[e][j].row = "unused"
               /\ db'.att[e][j].row = "live" => GoesOn(db.att[e][j], db'.att[e][j])
    BY <1>5 DEF ResumedAt
  <2>2. s \in Slots /\ db.att[e][s].row = "unused" /\ ~ db.att[e][s].started
    BY <1>1 DEF Unused, NoneSpoilt, Spoilt
  <2>3. ASSUME db'.att[e][s].row = "live"
        PROVE  Fits(db', e, s, Timed(e), now, right)
    BY <2>1, <2>2, <2>3, NewRowFits
  <2>4. ASSUME NEW i \in Live(db', e), i # s
        PROVE  Fits(db', e, i, Timed(e), now, right)
    <3>1. i \in Slots /\ i \in Live(db, e) /\ GoesOn(db.att[e][i], db'.att[e][i])
      BY <2>1, <2>4 DEF Live
    <3>2. i < s
      BY <1>1, <2>2, <2>4, <3>1 DEF InLine, UsedInOrder, Live, Slots
    <3>3. Below(db', e, i) \subseteq Below(db, e, i)
      BY <2>1, <2>2, <3>1, <3>2 DEF Below, Slots
    <3> QED BY <2>4, <3>1, <3>3, RowFitsAfter
  <2>5. \A i \in Slots : db'.att[e][i].row = "unused" => db.att[e][i].row = "unused"
    BY <2>1, <2>2
  <2>6. ASSUME NEW i \in Slots PROVE Fits(db', e, i, Timed(e), now, right)
    <3>1. CASE db'.att[e][i].row = "unused"
      BY <1>2, <2>5, <3>1
    <3>2. CASE db'.att[e][i].row = "live"
      BY <2>3, <2>4, <3>2 DEF Live
    <3> QED BY <1>3, <3>1, <3>2
  <2> QED BY <2>6 DEF FitsIn
<1> QED
  BY <1>4, <1>5

-----------------------------------------------------------------------------
(* The invariant.                                                          *)

(* At every exam that is sat once, what the attempts have been running and *)
(* may use fits the most that limit and allowance ever gave a right to.    *)
TimesFit ==
  \A e \in SatOnce :
    /\ Limit[e] + extra[e] <= most[e]
    /\ FitsIn(db, e, times[e], now, most[e] * Minute)

GainInv == ClockInv /\ most \in [Exams -> Nat] /\ TimesFit

(* What it says of the state after a step.                                 *)
LEMMA TimesFitThen ==
  TimesFit' <=> \A f \in SatOnce :
    /\ Limit[f] + extra'[f] <= most'[f]
    /\ FitsIn(db', f, times'[f], now', most'[f] * Minute)
  BY DEF TimesFit, FitsIn, Fits, Below, Live

(* The right is in seconds, and covers what limit and allowance give now.  *)
LEMMA RightCovers ==
  ASSUME ClockTypes, NEW e \in SatOnce, most \in [Exams -> Nat],
         Limit[e] + extra[e] <= most[e]
  PROVE  /\ most[e] * Minute \in Nat
         /\ (Limit[e] + extra[e]) * Minute <= most[e] * Minute
<1>1. e \in Exams /\ Limit[e] \in Nat /\ extra[e] \in Nat /\ Minute \in Nat
  BY ClockAssumption DEF ClockTypes, SatOnce
<1>2. Limit[e] + extra[e] \in Nat /\ most[e] \in Nat
  BY <1>1
<1> QED
  BY <1>1, <1>2, ProductGrows

(* A request of the learner or of staff keeps it.                          *)
LEMMA TimedRequestFits ==
  ASSUME GainInv, NEW e \in Exams, TimedRequest(e), ClockInv'
  PROVE  TimesFit'
<1>1. /\ times' = [times EXCEPT ![e] = Timed(e)]
      /\ UNCHANGED <<now, extra, most>>
  BY DEF TimedRequest
<1>2. /\ InLine(db) /\ Sound(db) /\ NoneSpoilt(db) /\ ClockTypes
      /\ NoneSpoilt(db') /\ most \in [Exams -> Nat]
  BY DEF GainInv, ClockInv, AttemptsInLine, InLine, NoneSpoilt
<1>3. \A f \in Exams : times'[f] = IF f = e THEN Timed(e) ELSE times[f]
  BY <1>1, <1>2 DEF ClockTypes
<1>4. EnteredAt(db, db', e) /\ \A f \in Exams, j \in Slots : RowTimely(f, j, e)
  <2>1. CASE EnterOrResume(e)
    <3>1. PICK proctored \in BOOLEAN, startClock \in BOOLEAN :
            /\ "created" \in Outcomes(e, proctored)
            /\ Post(e, proctored, startClock, "created",
                    startClock /\ MinsFor(e, Inherited(e)) = 0)
      BY <2>1 DEF EnterOrResume
    <3> DEFINE n == startClock /\ MinsFor(e, Inherited(e)) = 0
    <3>2. n \in BOOLEAN /\ Post(e, proctored, startClock, "created", n)
      BY <3>1
    <3> HIDE DEF n
    <3>3. EnteredAt(db, db', e)
      BY <1>2, <3>1, <3>2, PostEnters
    <3>4. \A f \in Exams, j \in Slots : RowTimely(f, j, e)
      BY <2>1, EnterOrResumeTimely DEF GainInv
    <3> QED BY <3>3, <3>4
  <2>2. ASSUME NEW i \in Slots, StartClock(e, i)
        PROVE  GoOn(db, db') /\ \A f \in Exams, j \in Slots : RowTimely(f, j, e)
    <3> DEFINE k == Latest(Read(db, e, i), e)
               n == MinsFor(e, times[e][k].remaining) = 0
    <3>1. n \in BOOLEAN /\ Start(e, i, n)
      BY <2>2 DEF StartClock
    <3> HIDE DEF n
    <3>2. GoOn(db, db')
      BY <1>2, <3>1, StartGoesOn
    <3>3. \A f \in Exams, j \in Slots : RowTimely(f, j, e)
      BY <2>2, StartClockTimely DEF GainInv
    <3> QED BY <3>2, <3>3
  <2>3. ASSUME NEW i \in Slots,
               \/ Stop(e, i) \/ Submit(e, i) \/ Poll(e, i)
               \/ MarkReadyToResume(e, i) \/ Delete(e, i)
        PROVE  GoOn(db, db') /\ \A f \in Exams, j \in Slots : RowTimely(f, j, e)
    <3>1. GoOn(db, db')
      BY <1>2, <2>3, OthersGoOn
    <3>2. Quiet(db, db')
      BY <2>3, OthersTimely DEF GainInv
    <3> QED BY <3>1, <3>2, QuietTimely
  <2>4. GoOn(db, db') => EnteredAt(db, db', e)
    BY DEF GoOn, EnteredAt
  <2> QED BY <2>1, <2>2, <2>3, <2>4 DEF TimedRequest
<1>5. ASSUME NEW f \in SatOnce
      PROVE  FitsIn(db', f, times'[f], now, most[f] * Minute)
  <2>1. /\ f \in Exams /\ Limit[f] + extra[f] <= most[f]
        /\ FitsIn(db, f, times[f], now, most[f] * Minute)
    BY DEF GainInv, TimesFit, SatOnce
  <2>2. /\ most[f] * Minute \in Nat
        /\ (Limit[f] + extra[f]) * Minute <= most[f] * Minute
    BY <1>2, <2>1, RightCovers
  <2>3. CASE f = e
    <3>1. e \in SatOnce /\ (GoOnAt(db, db', e) \/ ResumedAt(db, db', e))
      BY <1>4, <2>3 DEF EnteredAt
    <3>2. FitsIn(db', e, Timed(e), now, most[e] * Minute)
      BY <1>2, <2>1, <2>2, <2>3, <3>1, RequestFits
    <3> QED BY <1>3, <2>1, <2>3, <3>2
  <2>4. CASE f # e
    <3>1. GoOnAt(db, db', f) \/ DeclinedAt(db, db', f)
      BY <1>4, <2>4 DEF EnteredAt
    <3>2. \A j \in Slots : db'.att[f][j].started => db.att[f][j].started
      BY <1>4, <2>1, <2>4 DEF RowTimely, NoStart
    <3>3. \A j \in Unused(db, f) : ~ db.att[f][j].started
      BY <1>2, <2>1 DEF NoneSpoilt, Spoilt, Unused
    <3>4. times'[f] = times[f] /\ times[f] \in [Slots -> Times] /\ now \in Nat
      BY <1>2, <1>3, <2>1, <2>4 DEF ClockTypes
    <3>5. FitsIn(db', f, times[f], now, most[f] * Minute)
      BY <2>1, <2>2, <3>1, <3>2, <3>3, <3>4, StillFits, DeclinedFits
    <3> QED BY <3>4, <3>5
  <2> QED BY <2>3, <2>4
<1> QED
  BY <1>1, <1>5, TimesFitThen DEF GainInv, TimesFit

(* An attempt that is put in error has its time stored: what is left of    *)
(* it, less a second.                                                      *)
LEMMA StoredFits ==
  ASSUME ClockTypes, NEW e \in Exams, NEW i \in Slots, NEW t, t = times[e][i],
         t.since + t.run <= now, t.run <= t.mins * Minute,
         NEW left, left = TimeRemaining(e, i)
  PROVE  /\ left \in Nat /\ t.run + left <= t.mins * Minute
         /\ ~ db.att[e][i].started => left = 0
<1> DEFINE m == t.mins * Minute
<1>1. t.since \in Nat /\ t.run \in Nat /\ t.mins \in Nat /\ now \in Nat
  BY DEF ClockTypes, Times
<1>2. m \in Nat
  BY <1>1, MinutesLast, ClockAssumption
<1>3. EndOf(e, i) = t.since + m
  BY Zenon DEF EndOf
<1>4. t.run <= m
  OBVIOUS
<1> HIDE DEF m
<1>5. left = IF db.att[e][i].started /\ EndOf(e, i) > now
             THEN EndOf(e, i) - now - 1 ELSE 0
  BY Zenon DEF TimeRemaining
<1>6. left \in Nat /\ t.run + left <= m
  BY <1>1, <1>2, <1>3, <1>4, <1>5
<1>7. ~ db.att[e][i].started => left = 0
  BY <1>5
<1> QED
  BY <1>6, <1>7, Zenon DEF m

(* What an update to error makes of the attempts.                          *)
LEMMA ErrorUpdate ==
  ASSUME NEW d, InLine(d), NEW e \in Exams, NEW i \in Live(d, e),
         NEW n \in BOOLEAN, NEW d1, d1 = Update(d, e, i, "error", n)
  PROVE  /\ \A f \in Exams, j \in Slots : f # e \/ j # i =>
              d1.att[f][j] = d.att[f][j] \/ d1.att[f][j] = Archived
         /\ d1.att[e][i].row # "unused"
         /\ d1.att[e][i].row = "live" =>
              /\ d1.att[e][i].status = "error"
              /\ d.att[e][i].started => d1.att[e][i].started
<1>1. i \in Slots /\ d.att[e][i].row = "live"
  BY DEF Live
<1>2. \A f \in Exams, j \in Slots : f # e \/ j # i =>
        d1.att[f][j] = d.att[f][j] \/ d1.att[f][j] = Archived
  BY VerdictUpdateAlone
<1>3. Goes(d, d1, "error")
  BY UpdateMoves DEF CanHave, Status, ValidStatus, Completed
<1>4. RowMove(e, d.att[e][i], d1.att[e][i], "error")
  BY <1>1, <1>3 DEF Goes, Moved, MovedAt
<1>5. d1.att[e][i].row # "unused"
      /\ (d1.att[e][i].row = "live" /\ d.att[e][i].started => d1.att[e][i].started)
  BY <1>1, <1>4, Zenon DEF RowMove
<1>6. d1.att[e][i].row = "live" => d1.att[e][i].status = "error"
  <2>1. PICK s \in BOOLEAN : ~ s
    OBVIOUS
  <2>2. PICK x : x = SaveStatus(d, e, i, "error", s, n)
    OBVIOUS
  <2>3. /\ x.att[e][i].status = "error"
        /\ \A f \in Exams, j \in Slots :
             d1.att[f][j] = x.att[f][j] \/ d1.att[f][j] = Archived
    BY <2>1, <2>2, VerdictUpdate
  <2> QED BY <1>1, <2>3 DEF Archived, NoRow
<1> QED
  BY <1>2, <1>5, <1>6

(* An attempt that is put in error fits with the time that is stored.      *)
LEMMA ErrorRowFits ==
  ASSUME ClockTypes, NEW e \in SatOnce, NEW i \in Live(db, e), NEW right \in Nat,
         Fits(db, e, i, times[e], now, right),
         NEW d1, Live(d1, e) \subseteq Live(db, e), d1.att[e][i].row = "live",
         AttemptStage(d1.att[e][i]) # "open",
         d1.att[e][i].started <=> db.att[e][i].started,
         NEW T1, \A x \in Slots : T1[x].run = times[e][x].run,
         T1[i] = [times[e][i] EXCEPT !.remaining = TimeRemaining(e, i)]
  PROVE  Fits(d1, e, i, T1, now, right)
<1> DEFINE a    == db.att[e][i]
           b    == d1.att[e][i]
           t    == times[e][i]
           t1   == T1[i]
           left == TimeRemaining(e, i)
           S    == RunTime(times[e], Below(db, e, i))
           S1   == RunTime(T1, Below(d1, e, i))
<1>1. /\ e \in Exams /\ i \in Slots /\ times[e] \in [Slots -> Times] /\ t \in Times
      /\ now \in Nat /\ a.row = "live"
  BY DEF SatOnce, Live, ClockTypes
<1>2. /\ ~ a.started => t.run = 0 /\ t.mins = 0
      /\ t.since + t.run <= now
      /\ t.run <= t.mins * Minute
      /\ ~ t.afresh => S + Share(a, t) <= right
  BY <1>1, Zenon DEF Fits
<1>3. /\ left \in Nat /\ t.run + left <= t.mins * Minute
      /\ ~ a.started => left = 0
  BY <1>1, <1>2, StoredFits
<1>4. /\ t1.since = t.since /\ t1.mins = t.mins /\ t1.run = t.run
      /\ t1.remaining = left /\ t1.afresh = t.afresh
  BY <1>1 DEF Times
<1>5. S \in Nat /\ S1 \in Nat /\ S1 <= S
  BY <1>1, BelowShrinks
<1>6. Share(a, t) \in Nat
  BY <1>1, ShareNat
<1>7. Fits(d1, e, i, T1, now, right) <=>
        /\ ~ b.started => t1.run = 0 /\ t1.mins = 0
        /\ t1.since + t1.run <= now
        /\ t1.run <= t1.mins * Minute
        /\ Interrupted(b) => t1.run + t1.remaining <= t1.mins * Minute
        /\ ~ t1.afresh => S1 + Share(b, t1) <= right
  BY <1>1, Zenon DEF Fits
<1> SUFFICES Fits(d1, e, i, T1, now, right)
  OBVIOUS
<1>8. b.started <=> a.started
  OBVIOUS
<1> HIDE DEF a, b, t, t1, left, S, S1
<1>9. Share(b, t1) <= Share(a, t) /\ Share(b, t1) \in Nat
  <2>1. CASE a.started
    BY <1>4, <1>6, <1>8, <2>1 DEF Share
  <2>2. CASE ~ a.started
    <3>1. Share(b, t1) = 0
      BY <1>3, <1>4, <1>8, <2>2 DEF Share
    <3> QED BY <1>6, <3>1
  <2> QED BY <2>1, <2>2
<1>10. ~ t1.afresh => S1 + Share(b, t1) <= right
  BY <1>2, <1>4, <1>5, <1>6, <1>9
<1> QED
  BY <1>2, <1>3, <1>4, <1>7, <1>8, <1>10

(* A report of an error keeps the times within what is allowed.            *)
LEMMA ReportErrorFits ==
  ASSUME GainInv, NEW e \in Exams, NEW i \in Slots, ReportError(e, i)
  PROVE  TimesFit'
<1> DEFINE d1 == Read(db, e, i)
<1>1. /\ Error(e, i) /\ i \in Live(db, e) /\ UNCHANGED <<pastDue, now, extra, most>>
      /\ db' = IF d1.att[e][i].status = "submitted" THEN d1
               ELSE Update(d1, e, i, "error", FALSE)
      /\ times' = IF d1.att[e][i].status = "submitted" THEN times
                  ELSE [times EXCEPT ![e][i].remaining = TimeRemaining(e, i)]
  BY DEF ReportError, Error
<1>2. /\ InLine(db) /\ Sound(db) /\ Honest(db) /\ ClockTypes /\ ClockInv
      /\ most \in [Exams -> Nat]
  BY DEF GainInv, ClockInv, AttemptsInLine, InLine, Honest
<1>3. Quiet(db, db')
  BY <1>1, <1>2, OthersTimely
<1>4. Goes(db, d1, "timed_out") /\ i \in Live(d1, e)
  BY <1>1, <1>2, ReadDoes
<1>5. InLine(d1) /\ GoOn(db, d1)
  BY <1>2, <1>4, MovedKeepsLine, GoesGoesOn
<1> HIDE DEF d1
<1>6. \A f \in SatOnce :
        /\ f \in Exams /\ most[f] * Minute \in Nat /\ times[f] \in [Slots -> Times]
        /\ FitsIn(db, f, times[f], now, most[f] * Minute)
        /\ \A j \in Slots : db'.att[f][j].started => db.att[f][j].started
  <2>1. ASSUME NEW f \in SatOnce PROVE most[f] * Minute \in Nat
    BY <1>2, RightCovers DEF GainInv, TimesFit
  <2> QED BY <1>2, <1>3, <2>1 DEF GainInv, TimesFit, SatOnce, ClockTypes, Quiet, NoStart
<1>7. ASSUME NEW f \in SatOnce, GoOnAt(db, db', f), times'[f] = times[f]
      PROVE  FitsIn(db', f, times'[f], now, most[f] * Minute)
  <2>1. now \in Nat
    BY <1>2 DEF ClockTypes
  <2> QED BY <1>6, <1>7, <2>1, StillFits
<1>8. ASSUME NEW f \in SatOnce
      PROVE  FitsIn(db', f, times'[f], now, most[f] * Minute)
  <2>1. CASE d1.att[e][i].status = "submitted"
    BY <1>1, <1>5, <1>7, <2>1 DEF GoOn
  <2>2. CASE d1.att[e][i].status # "submitted"
    <3>1. /\ db' = Update(d1, e, i, "error", FALSE)
          /\ times' = [times EXCEPT ![e][i].remaining = TimeRemaining(e, i)]
      BY <1>1, <2>2
    <3>2. /\ \A g \in Exams, j \in Slots : g # e \/ j # i =>
               db'.att[g][j] = d1.att[g][j] \/ db'.att[g][j] = Archived
          /\ db'.att[e][i].row # "unused"
          /\ db'.att[e][i].row = "live" =>
               /\ db'.att[e][i].status = "error"
               /\ d1.att[e][i].started => db'.att[e][i].started
      <4>1. ASSUME NEW n \in BOOLEAN, NEW x, x = Update(d1, e, i, "error", n)
            PROVE  /\ \A g \in Exams, j \in Slots : g # e \/ j # i =>
                        x.att[g][j] = d1.att[g][j] \/ x.att[g][j] = Archived
                   /\ x.att[e][i].row # "unused"
                   /\ x.att[e][i].row = "live" =>
                        /\ x.att[e][i].status = "error"
                        /\ d1.att[e][i].started => x.att[e][i].started
        BY <1>4, <1>5, <4>1, ErrorUpdate
      <4> QED BY <3>1, <4>1, ZenonT(40)
    <3>3. \A j \in Slots : f # e \/ j # i =>
            /\ db'.att[f][j].row = "unused" => db.att[f][j].row = "unused"
            /\ db'.att[f][j].row = "live" => GoesOn(db.att[f][j], db'.att[f][j])
      <4>1. Archived.row = "archived"
        BY DEF Archived, NoRow
      <4>2. GoOnAt(db, d1, f) /\ f \in Exams
        BY <1>5, <1>6 DEF GoOn
      <4> QED BY <3>2, <4>1, <4>2 DEF GoOnAt
    <3>4. CASE f # e
      <4>1. GoOnAt(db, db', f)
        BY <3>3, <3>4 DEF GoOnAt
      <4>2. times'[f] = times[f]
        BY <1>2, <1>6, <3>1, <3>4 DEF ClockTypes
      <4> QED BY <1>7, <4>1, <4>2
    <3>5. CASE f = e
      <4> DEFINE T1 == times'[e]
      <4>1. /\ e \in SatOnce /\ times[e] \in [Slots -> Times]
            /\ most[e] * Minute \in Nat /\ now \in Nat
            /\ FitsIn(db, e, times[e], now, most[e] * Minute)
        BY <1>2, <1>6, <3>5 DEF ClockTypes
      <4>2. /\ T1[i] = [times[e][i] EXCEPT !.remaining = TimeRemaining(e, i)]
            /\ \A j \in Slots : j # i => T1[j] = times[e][j]
        BY <1>2, <3>1 DEF ClockTypes
      <4>3. \A j \in Slots : T1[j].run = times[e][j].run
        BY <4>1, <4>2 DEF Times
      <4> HIDE DEF T1
      <4>4. Live(db', e) \subseteq Live(db, e)
        BY <1>1, <3>3, <3>5 DEF Live, GoesOn
      <4>5. ASSUME NEW j \in Slots, j # i
            PROVE  Fits(db', e, j, T1, now, most[e] * Minute)
        <5>1. Fits(db, e, j, times[e], now, most[e] * Minute)
          BY <4>1 DEF FitsIn
        <5>2. CASE db'.att[e][j].row = "live"
          <6>1. /\ j \in Live(db', e) /\ GoesOn(db.att[e][j], db'.att[e][j])
                /\ db'.att[e][j].started => db.att[e][j].started
            BY <1>6, <3>3, <3>5, <4>5, <5>2 DEF Live
          <6> QED BY <4>1, <4>2, <4>3, <4>4, <4>5, <5>1, <6>1, RowStillFits
        <5>3. CASE db'.att[e][j].row # "live"
          BY <3>3, <3>5, <4>2, <4>5, <5>1, <5>3 DEF Fits
        <5> QED BY <5>2, <5>3
      <4>6. Fits(db', e, i, T1, now, most[e] * Minute)
        <5>1. CASE db'.att[e][i].row = "live"
          <6>1. AttemptStage(db'.att[e][i]) # "open"
            BY <3>2, <5>1 DEF AttemptStage, Incomplete, PreStarted, InProgress
          <6>2. db'.att[e][i].started <=> db.att[e][i].started
            <7>1. GoesOn(db.att[e][i], d1.att[e][i])
              BY <1>4, <1>5, <4>1 DEF GoOn, GoOnAt, Live
            <7>2. db.att[e][i].started \in BOOLEAN /\ db'.att[e][i].started \in BOOLEAN
              <8>1. Sound(db')
                BY <1>1, <1>2, OthersTimely DEF InLine
              <8> QED BY <1>2, <8>1 DEF Sound, RowSound, Attempt
            <7>3. db.att[e][i].started => db'.att[e][i].started
              BY <3>2, <5>1, <7>1 DEF GoesOn
            <7>4. db'.att[e][i].started => db.att[e][i].started
              BY <1>6, <4>1
            <7> QED BY <7>2, <7>3, <7>4
          <6>3. Fits(db, e, i, times[e], now, most[e] * Minute)
            BY <4>1 DEF FitsIn
          <6> QED BY <1>1, <1>2, <4>1, <4>2, <4>3, <4>4, <5>1, <6>1, <6>2, <6>3, ErrorRowFits
        <5>2. CASE db'.att[e][i].row # "live"
          BY <3>2, <5>2 DEF Fits
        <5> QED BY <5>1, <5>2
      <4>7. FitsIn(db', e, T1, now, most[e] * Minute)
        BY <4>5, <4>6 DEF FitsIn
      <4> QED BY <3>5, <4>7 DEF T1
    <3> QED BY <3>4, <3>5
  <2> QED BY <2>1, <2>2
<1> QED
  BY <1>1, <1>8, TimesFitThen DEF GainInv, TimesFit

(* More right is right enough.                                             *)
LEMMA MoreRight ==
  ASSUME NEW d, NEW e, NEW T \in [Slots -> Times], NEW at,
         NEW right \in Nat, NEW more \in Nat, right <= more,
         FitsIn(d, e, T, at, right)
  PROVE  FitsIn(d, e, T, at, more)
<1>1. ASSUME NEW i \in Slots PROVE Fits(d, e, i, T, at, more)
  <2> DEFINE S == RunTime(T, Below(d, e, i))
             u == Share(d.att[e][i], T[i])
  <2>1. Below(d, e, i) \in SUBSET Slots /\ T[i] \in Times
    BY DEF Below, Live
  <2>2. S \in Nat /\ u \in Nat
    BY <2>1, RunTimes, ShareNat
  <2>3. Fits(d, e, i, T, at, right)
    BY DEF FitsIn
  <2>4. d.att[e][i].row = "live" /\ ~ T[i].afresh => S + u <= right
    BY <2>3, Zenon DEF Fits
  <2> HIDE DEF S, u
  <2>5. d.att[e][i].row = "live" /\ ~ T[i].afresh => S + u <= more
    BY <2>2, <2>4
  <2> QED BY <2>3, <2>5, Zenon DEF Fits, S, u
<1> QED
  BY <1>1 DEF FitsIn

(* The greater of two numbers is not less than either.                     *)
LEMMA GreaterOf ==
  ASSUME NEW a \in Nat, NEW b \in Nat
  PROVE  Max({a, b}) \in Nat /\ a <= Max({a, b}) /\ b <= Max({a, b})
<1>1. \E x \in {a, b} : \A y \in {a, b} : x >= y
  <2>1. CASE a >= b
    BY <2>1
  <2>2. CASE ~ (a >= b)
    BY <2>2
  <2> QED BY <2>1, <2>2
<1>2. Max({a, b}) \in {a, b} /\ \A y \in {a, b} : Max({a, b}) >= y
  BY <1>1 DEF Max
<1> QED
  BY <1>2

(* An allowance that is granted adds to the right.                         *)
LEMMA GrantedFits ==
  ASSUME GainInv, NEW minutes \in [Exams -> Nat], Granted(minutes)
  PROVE  most' \in [Exams -> Nat] /\ TimesFit'
<1>1. /\ UNCHANGED <<db, now, times>> /\ extra' = minutes
      /\ most' = [e \in Exams |-> Max({most[e], Limit[e] + minutes[e]})]
  BY DEF Granted
<1>2. ClockTypes /\ most \in [Exams -> Nat]
  BY DEF GainInv, ClockInv
<1>3. ASSUME NEW e \in Exams
      PROVE  /\ most'[e] \in Nat /\ most[e] <= most'[e]
             /\ Limit[e] + minutes[e] <= most'[e]
  <2>1. Limit[e] \in Nat /\ minutes[e] \in Nat
    BY ClockAssumption
  <2>2. most[e] \in Nat /\ Limit[e] + minutes[e] \in Nat
    BY <1>2, <2>1
  <2>3. most'[e] = Max({most[e], Limit[e] + minutes[e]})
    BY <1>1
  <2> QED BY <2>2, <2>3, GreaterOf
<1>4. most' \in [Exams -> Nat]
  BY <1>1, <1>3
<1>5. ASSUME NEW e \in SatOnce
      PROVE  FitsIn(db, e, times[e], now, most'[e] * Minute)
  <2>1. e \in Exams /\ most[e] \in Nat /\ Minute \in Nat /\ times[e] \in [Slots -> Times]
    BY <1>2, ClockAssumption DEF SatOnce, ClockTypes
  <2>2. /\ most[e] * Minute \in Nat /\ most'[e] * Minute \in Nat
        /\ most[e] * Minute <= most'[e] * Minute
    BY <1>3, <2>1, ProductGrows
  <2>3. FitsIn(db, e, times[e], now, most[e] * Minute)
    BY DEF GainInv, TimesFit
  <2> QED BY <2>1, <2>2, <2>3, MoreRight
<1>7. \A e \in SatOnce : Limit[e] + minutes[e] <= most'[e]
  BY <1>3 DEF SatOnce
<1> QED
  BY <1>1, <1>4, <1>5, TimesFitThen, <1>7

(* At first there is nothing to fit.                                       *)
LEMMA ClockInitFits == ClockInit => GainInv
<1> SUFFICES ASSUME ClockInit PROVE GainInv
  OBVIOUS
<1>1. \A e \in Exams, i \in Slots :
        db.att[e][i].row = "unused" /\ times[e][i] = NoTimes
  BY DEF ClockInit, Init, NoRow
<1>2. most = Limit /\ most \in [Exams -> Nat] /\ \A e \in Exams : extra[e] = 0
  BY ClockAssumption DEF ClockInit
<1>3. ASSUME NEW e \in SatOnce
      PROVE  /\ Limit[e] + extra[e] <= most[e]
             /\ FitsIn(db, e, times[e], now, most[e] * Minute)
  <2>1. e \in Exams
    BY DEF SatOnce
  <2>2. Limit[e] + extra[e] <= most[e]
    BY <1>2, <2>1
  <2>3. \A i \in Slots : Fits(db, e, i, times[e], now, most[e] * Minute)
    BY <1>1, <2>1 DEF Fits
  <2> QED BY <2>2, <2>3 DEF FitsIn
<1> QED
  BY <1>2, <1>3, ClockInitInv DEF GainInv, TimesFit

-----------------------------------------------------------------------------
(* A second passes.                                                        *)

(* Only an open attempt runs, and the attempts before a live one do not.   *)
LEMMA OnlyOpenRuns ==
  ASSUME InLine(db), NEW e \in SatOnce, NEW i \in Slots, Runs(e, i)
  PROVE  /\ Ticking(db.att[e][i]) /\ db.att[e][i].row = "live"
         /\ ~ Interrupted(db.att[e][i])
         /\ \A j \in Live(db, e) : i \notin Below(db, e, j)
<1>1. RowSound(e, db.att[e][i]) /\ Superseded(db) /\ Kind[e] # "practice"
  BY DEF InLine, Sound, SatOnce
<1>2. /\ Ticking(db.att[e][i]) /\ db.att[e][i].row = "live"
      /\ db.att[e][i].status \in Incomplete /\ i \in Live(db, e)
  BY DEF Runs, Ticking, Live
<1>3. ~ InResumeProcess(db.att[e][i])
  BY <1>1, <1>2 DEF RowSound
<1>4. ~ Interrupted(db.att[e][i])
  BY <1>2, <1>3 DEF Interrupted, AttemptStage
<1>5. \A j \in Live(db, e) : i \notin Below(db, e, j)
  BY <1>1, <1>2, <1>3 DEF Superseded, Below, InResumeProcess
<1> QED
  BY <1>2, <1>4, <1>5

(* What attempts have been running depends on those attempts alone.        *)
LEMMA SameRunTimesOf ==
  ASSUME NEW T \in [Slots -> Times], NEW T1, NEW B \in SUBSET Slots,
         \A x \in B : T1[x].run = T[x].run
  PROVE  RunTime(T1, B) = RunTime(T, B)
<1>1. \A x \in B : T[x].run \in Nat /\ T1[x].run = T[x].run
  BY DEF Times
<1>2. IsFiniteSet(Slots)
  BY FS_Interval, ConstantsAssumption DEF Slots
<1>3. IsFiniteSet(B)
  BY <1>2, FS_Subset
<1> QED
  BY <1>1, <1>3, RunTimeSame

(* An attempt fits a second later.                                         *)
LEMMA RowFitsLater ==
  ASSUME ClockInv, NEW e \in SatOnce, NEW i \in Live(db, e), NEW right \in Nat,
         Fits(db, e, i, times[e], now, right),
         NEW d1, Live(d1, e) = Live(db, e),
         d1.att[e][i].row = "live",
         d1.att[e][i].started = db.att[e][i].started,
         AttemptStage(d1.att[e][i]) = AttemptStage(db.att[e][i]),
         NEW T1, \A x \in Slots : T1[x] =
           [times[e][x] EXCEPT !.run = IF Runs(e, x) THEN @ + 1 ELSE @]
  PROVE  Fits(d1, e, i, T1, now + 1, right)
<1> DEFINE a  == db.att[e][i]
           b  == d1.att[e][i]
           t  == times[e][i]
           t1 == T1[i]
           m  == t.mins * Minute
           B  == Below(db, e, i)
           S  == RunTime(times[e], B)
<1>1. /\ e \in Exams /\ i \in Slots /\ times[e] \in [Slots -> Times] /\ t \in Times
      /\ now \in Nat /\ a.row = "live" /\ InLine(db) /\ TickingInTime
      /\ B \subseteq Slots
  BY DEF SatOnce, Live, ClockInv, ClockTypes, AttemptsInLine, Below
<1>2. /\ ~ a.started => t.run = 0 /\ t.mins = 0
      /\ t.since + t.run <= now
      /\ t.run <= m
      /\ Interrupted(a) => t.run + t.remaining <= m
      /\ ~ a.started /\ AttemptStage(a) = "open" /\ t.remaining = 0 /\ ~ t.afresh
           => B = {}
      /\ ~ t.afresh => S + Share(a, t) <= right
  BY <1>1, Zenon DEF Fits
<1>3. /\ t1.since = t.since /\ t1.mins = t.mins /\ t1.remaining = t.remaining
      /\ t1.afresh = t.afresh
      /\ t1.run = IF Runs(e, i) THEN t.run + 1 ELSE t.run
  <2>1. \A x \in Times : \A r : LET y == [x EXCEPT !.run = r]
          IN /\ y.since = x.since /\ y.mins = x.mins /\ y.remaining = x.remaining
             /\ y.afresh = x.afresh /\ y.run = r
    BY DEF Times
  <2>2. t1 = [t EXCEPT !.run = IF Runs(e, i) THEN @ + 1 ELSE @]
    BY <1>1
  <2> HIDE DEF t1, t
  <2> QED BY <1>1, <2>1, <2>2
<1>4. Below(d1, e, i) = B
  BY DEF Below
<1>5. RunTime(T1, B) = S
  <2>1. \A x \in B : T1[x].run = times[e][x].run
    <3>1. ASSUME NEW x \in B PROVE T1[x].run = times[e][x].run
      <4>1. ~ Runs(e, x)
        BY <1>1, OnlyOpenRuns
      <4>2. T1[x] = [times[e][x] EXCEPT !.run = times[e][x].run]
        BY <1>1, <4>1
      <4>3. times[e][x] \in Times
        BY <1>1
      <4> QED BY <4>2, <4>3 DEF Times
    <3> QED BY <3>1
  <2> QED BY <1>1, <2>1, SameRunTimesOf
<1>6. /\ t.since \in Nat /\ t.run \in Nat /\ t.remaining \in Nat /\ m \in Nat
  BY <1>1, ShareNat DEF Times
<1>7. Runs(e, i) => /\ a.started /\ ~ Interrupted(a) /\ now < t.since + m
  <2>1. Ticking(a) => now < t.since + m
    BY <1>1 DEF TickingInTime, EndsInTime, EndOf
  <2> QED BY <1>1, <2>1, OnlyOpenRuns DEF Ticking
<1>8. Fits(d1, e, i, T1, now + 1, right) <=>
        /\ ~ b.started => t1.run = 0 /\ t1.mins = 0
        /\ t1.since + t1.run <= now + 1
        /\ t1.run <= t1.mins * Minute
        /\ Interrupted(b) => t1.run + t1.remaining <= t1.mins * Minute
        /\ ~ b.started /\ AttemptStage(b) = "open" /\ t1.remaining = 0 /\ ~ t1.afresh
             => B = {}
        /\ ~ t1.afresh => S + Share(b, t1) <= right
  BY <1>4, <1>5, Zenon DEF Fits
<1>9. /\ b.started = a.started /\ AttemptStage(b) = AttemptStage(a)
      /\ Interrupted(b) <=> Interrupted(a)
  BY DEF Interrupted
<1>10. Share(b, t1) = Share(a, t)
  BY <1>3, <1>9, Zenon DEF Share
<1>11. t1.mins * Minute = m
  BY <1>3
<1> SUFFICES Fits(d1, e, i, T1, now + 1, right)
  OBVIOUS
<1> HIDE DEF a, b, t, t1, m, B, S
<1>12. /\ t1.since + t1.run <= now + 1
       /\ t1.run <= t1.mins * Minute
       /\ Interrupted(b) => t1.run + t1.remaining <= t1.mins * Minute
  <2>1. CASE Runs(e, i)
    BY <1>1, <1>2, <1>3, <1>6, <1>7, <1>9, <1>11, <2>1
  <2>2. CASE ~ Runs(e, i)
    BY <1>1, <1>2, <1>3, <1>6, <1>9, <1>11, <2>2
  <2> QED BY <2>1, <2>2
<1>13. ~ b.started => t1.run = 0 /\ t1.mins = 0
  BY <1>2, <1>3, <1>7, <1>9
<1>14. ~ b.started /\ AttemptStage(b) = "open" /\ t1.remaining = 0 /\ ~ t1.afresh
         => B = {}
  BY <1>2, <1>3, <1>9
<1>15. ~ t1.afresh => S + Share(b, t1) <= right
  BY <1>2, <1>3, <1>10
<1> QED
  BY <1>8, <1>12, <1>13, <1>14, <1>15

(* What one more second makes of the times.                                *)
LEMMA TickFits ==
  ASSUME GainInv, Tick
  PROVE  TimesFit'
<1>1. /\ now' = now + 1 /\ UNCHANGED <<extra, most>>
      /\ db' = [db EXCEPT !.att = [e \in Exams |-> [i \in Slots |->
           [db.att[e][i] EXCEPT
              !.expired = @ \/ (db.att[e][i].started /\ EndOf(e, i) <= now + 1)]]]]
      /\ times' = [e \in Exams |-> [i \in Slots |->
           [times[e][i] EXCEPT !.run = IF Runs(e, i) THEN @ + 1 ELSE @]]]
  BY DEF Tick
<1>2. /\ ClockInv /\ ClockTypes /\ Sound(db) /\ db \in Database
      /\ most \in [Exams -> Nat]
  BY DEF GainInv, ClockInv, AttemptsInLine, InLine, Sound
<1>3. \A e \in Exams, i \in Slots :
        LET a == db.att[e][i]
            b == db'.att[e][i]
        IN /\ b.row = a.row /\ b.started = a.started
           /\ AttemptStage(b) = AttemptStage(a)
  <2>1. ASSUME NEW a \in Attempt, NEW o, NEW b, b = [a EXCEPT !.expired = o]
        PROVE  /\ b.row = a.row /\ b.started = a.started
               /\ AttemptStage(b) = AttemptStage(a)
    BY <2>1 DEF Attempt, AttemptStage, InResumeProcess
  <2>2. ASSUME NEW e \in Exams, NEW i \in Slots
        PROVE  \E o : db'.att[e][i] = [db.att[e][i] EXCEPT !.expired = o]
    <3>1. db'.att[e][i] = [db.att[e][i] EXCEPT
              !.expired = @ \/ (db.att[e][i].started /\ EndOf(e, i) <= now + 1)]
      BY <1>1, <1>2 DEF Database
    <3> QED BY <3>1
  <2>3. ASSUME NEW e \in Exams, NEW i \in Slots
        PROVE  /\ db'.att[e][i].row = db.att[e][i].row
               /\ db'.att[e][i].started = db.att[e][i].started
               /\ AttemptStage(db'.att[e][i]) = AttemptStage(db.att[e][i])
    <3>1. db.att[e][i] \in Attempt
      BY <1>2 DEF Database
    <3>2. PICK o : db'.att[e][i] = [db.att[e][i] EXCEPT !.expired = o]
      BY <2>2
    <3> QED BY <2>1, <3>1, <3>2
  <2> QED BY <2>3, Zenon
<1>4. \A e \in Exams, i \in Slots :
        times'[e][i] = [times[e][i] EXCEPT !.run = IF Runs(e, i) THEN @ + 1 ELSE @]
  BY <1>1
<1>5. ASSUME NEW e \in SatOnce
      PROVE  FitsIn(db', e, times'[e], now + 1, most[e] * Minute)
  <2>1. /\ e \in Exams /\ most[e] * Minute \in Nat
        /\ FitsIn(db, e, times[e], now, most[e] * Minute)
        /\ times[e] \in [Slots -> Times]
    BY <1>2, RightCovers DEF GainInv, TimesFit, SatOnce, ClockTypes
  <2>2. Live(db', e) = Live(db, e)
    BY <1>3, <2>1 DEF Live
  <2>3. ASSUME NEW i \in Live(db, e)
        PROVE  Fits(db', e, i, times'[e], now + 1, most[e] * Minute)
    <3>1. /\ i \in Slots /\ db.att[e][i].row = "live"
          /\ Fits(db, e, i, times[e], now, most[e] * Minute)
      BY <2>1 DEF FitsIn, Live
    <3>2. /\ db'.att[e][i].row = "live"
          /\ db'.att[e][i].started = db.att[e][i].started
          /\ AttemptStage(db'.att[e][i]) = AttemptStage(db.att[e][i])
      BY <1>3, <2>1, <3>1
    <3>3. \A x \in Slots : times'[e][x] =
            [times[e][x] EXCEPT !.run = IF Runs(e, x) THEN @ + 1 ELSE @]
      BY <1>4, <2>1
    <3> QED BY <1>2, <2>1, <2>2, <3>1, <3>2, <3>3, RowFitsLater
  <2>4. ASSUME NEW i \in Slots, i \notin Live(db, e)
        PROVE  Fits(db', e, i, times'[e], now + 1, most[e] * Minute)
    <3>1. db.att[e][i].row # "live" /\ db'.att[e][i].row = db.att[e][i].row
      BY <1>3, <2>1, <2>4 DEF Live
    <3>2. db'.att[e][i].row = "unused" => times'[e][i] = NoTimes
      <4>1. ~ Runs(e, i)
        BY <3>1 DEF Runs
      <4>2. times'[e][i] = [times[e][i] EXCEPT !.run = times[e][i].run]
        BY <1>4, <2>1, <4>1
      <4>3. times'[e][i] = times[e][i]
        BY <2>1, <4>2 DEF Times
      <4>4. db.att[e][i].row = "unused" => times[e][i] = NoTimes
        BY <2>1 DEF FitsIn, Fits
      <4> QED BY <3>1, <4>3, <4>4
    <3> QED BY <3>1, <3>2 DEF Fits
  <2> QED BY <2>3, <2>4 DEF FitsIn
<1> QED
  BY <1>1, <1>5, TimesFitThen DEF GainInv, TimesFit

(* However the allowances are given or taken back.                         *)
LEMMA AllowancesFit ==
  ASSUME GainInv,
         \/ AddBulkAllowances
         \/ \E e \in Exams : AddAllowance(e) \/ RemoveAllowance(e)
  PROVE  most' \in [Exams -> Nat] /\ TimesFit'
<1>1. \E minutes \in [Exams -> Nat] : Granted(minutes)
  BY AllowancesGrant DEF GainInv
<1> QED
  BY <1>1, GrantedFits

(* Every step keeps the times within what is allowed.                      *)
LEMMA ClockNextFits == GainInv /\ [ClockedNext]_clockVars => GainInv'
<1> SUFFICES ASSUME GainInv, [ClockedNext]_clockVars PROVE GainInv'
  OBVIOUS
<1>1. ClockInv'
  BY ClockNextInv DEF GainInv
<1>2. ASSUME UNCHANGED <<db, now, extra, times, most>>
      PROVE  most' \in [Exams -> Nat] /\ TimesFit'
  BY <1>2, TimesFitThen DEF GainInv, TimesFit
<1>3. CASE UNCHANGED clockVars \/ \E e \in Exams : MoveDue(e)
  <2>1. UNCHANGED <<db, now, extra, times, most>>
    BY <1>3 DEF clockVars, MoveDue
  <2> QED BY <1>1, <1>2, <2>1 DEF GainInv
<1>4. CASE Tick
  BY <1>1, <1>4, TickFits DEF GainInv, Tick
<1>5. CASE \/ AddBulkAllowances
           \/ \E e \in Exams : AddAllowance(e) \/ RemoveAllowance(e)
  BY <1>1, <1>5, AllowancesFit DEF GainInv
<1>6. ASSUME NEW e \in Exams, TimedRequest(e) PROVE GainInv'
  BY <1>1, <1>6, TimedRequestFits DEF GainInv, TimedRequest
<1>7. ASSUME NEW e \in Exams, NEW i \in Slots, ReportError(e, i) PROVE GainInv'
  BY <1>1, <1>7, ReportErrorFits DEF GainInv, ReportError
<1> QED
  BY <1>3, <1>4, <1>5, <1>6, <1>7 DEF ClockedNext

(* Times that fit are no longer in all than what is allowed: the current   *)
(* attempt's own time, and what is before it.                              *)
LEMMA FittingGainsNothing == GainInv => NoTimeGained
<1> SUFFICES ASSUME GainInv, NEW e \in SatOnce,
                    \A i \in Live(db, e) : ~ times[e][i].afresh
             PROVE  RunTime(times[e], Live(db, e)) <= most[e] * Minute
  BY DEF NoTimeGained, RunTime, MapThenSumSet, MapThenFoldSet
<1>1. /\ e \in Exams /\ ClockTypes /\ times[e] \in [Slots -> Times]
      /\ FitsIn(db, e, times[e], now, most[e] * Minute)
      /\ most[e] * Minute \in Nat
  BY RightCovers DEF GainInv, ClockInv, ClockTypes, TimesFit, SatOnce
<1>2. CASE Live(db, e) = {}
  <2>1. RunTime(times[e], {}) = 0
    BY <1>1, RunTimes
  <2>2. RunTime(times[e], Live(db, e)) = 0
    BY <1>2, <2>1
  <2> QED BY <1>1, <2>2
<1>3. CASE Live(db, e) # {}
  <2> DEFINE k == Latest(db, e)
             t == times[e][k]
             B == Below(db, e, k)
             S == RunTime(times[e], B)
             u == Share(db.att[e][k], t)
  <2>1. /\ k \in Slots /\ k \in Live(db, e) /\ \A j \in Live(db, e) : j <= k
        /\ Live(db, e) \in SUBSET Slots /\ Live(db, e) \subseteq Int
        /\ db.att[e][k].row = "live"
    BY <1>1, <1>3, LatestIsLive DEF HasAttempt, Live, Slots
  <2>2. Live(db, e) \ {k} = B
    <3> HIDE DEF k
    <3> QED BY <2>1 DEF Below
  <2>3. RunTime(times[e], Live(db, e)) = t.run + S
    <3>1. RunTime(times[e], Live(db, e)) = t.run + RunTime(times[e], Live(db, e) \ {k})
      BY <1>1, <2>1, RunTimes
    <3> QED BY <2>2, <3>1
  <2>4. S \in Nat /\ t \in Times /\ t.run \in Nat
    <3>1. B \in SUBSET Slots
      BY DEF Below, Live
    <3> QED BY <1>1, <2>1, <3>1, RunTimes DEF Times
  <2>5. u \in Nat /\ t.mins * Minute \in Nat
    BY <2>4, ShareNat
  <2>6. /\ ~ db.att[e][k].started => t.run = 0
        /\ t.run <= t.mins * Minute
        /\ S + u <= most[e] * Minute
    BY <1>1, <2>1, Zenon DEF FitsIn, Fits
  <2> HIDE DEF k, t, B, S
  <2>7. t.run <= u
    <3>1. CASE db.att[e][k].started
      BY <2>6, <3>1 DEF Share
    <3>2. CASE ~ db.att[e][k].started
      <4> HIDE DEF u
      <4> QED BY <2>5, <2>6, <3>2
    <3> QED BY <3>1, <3>2
  <2> HIDE DEF u
  <2> QED BY <1>1, <2>3, <2>4, <2>5, <2>6, <2>7
<1> QED
  BY <1>2, <1>3

(* However often an attempt is interrupted and resumed, whatever staff and *)
(* the course team do in between: over all the attempts at an exam the     *)
(* learner gets no more time than limit and allowance gave a right to,     *)
(* unless an attempt was given its time afresh.                            *)
THEOREM NobodyGainsTime == ClockSpec => []NoTimeGained
  BY ClockInitFits, ClockNextFits, FittingGainsNothing, PTL DEF ClockSpec
=============================================================================
