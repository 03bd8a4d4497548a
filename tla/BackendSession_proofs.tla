------------------------ MODULE BackendSession_proofs ------------------------
(***************************************************************************)
(* Proofs about BackendSession.  What a call does to what the service      *)
(* knows, and what is lost with it, is followed call by call: a handler    *)
(* is a run, runs are joined, and what is shown of a run is that it takes  *)
(* an attempt and a session that fit to an attempt and a session that fit, *)
(* if it ends and at whichever call it raises.                             *)
(***************************************************************************)
EXTENDS BackendSession, ExamAttempts_proofs

-----------------------------------------------------------------------------
(* An attempt and its session.                                             *)

(* In the course of a run: the state of the session, and whether a call    *)
(* about it was lost in this run or (kept) in an earlier one.              *)
Ledger == [s : Sessions, mark : {"clear", "kept", "lost"}]

(* Attempt a and ledger t fit, in a run that found attempt a0, session s0. *)
Fits(a, t, a0, s0) ==
  /\ a.row = "unused" => t.s = "none" /\ ~ a.started /\ ~ a0.started
  /\ a.row = "archived" => t.mark # "clear" \/ t.s \in {"none", "deleted"}
  /\ a.row = "live" => (a0.started => a.started)
  /\ a.row = "live" /\ ~ a.registered =>
       t.mark # "clear" \/ t.s = "none" \/ a0.registered
  /\ a.row = "live" /\ a.registered =>
       /\ t.s # "none"
       /\ t.s = "deleted" => t.mark = "lost" \/ (t.mark = "kept" /\ s0 = "deleted")
       /\ ~ a.started /\ a.status \in Incomplete => t.s \in {"created", "deleted"}
       /\ t.mark # "clear" \/ Agrees(a, t.s)
  /\ t.s = "restarted" /\ s0 # "restarted" =>
       a.row = "live" /\ ~ a0.started /\ a.started /\ a.expired

(* The ledger after a call that is heard, and after one that is not.       *)
Told(what, t, s0) ==
  [s |-> Heard(t.s, what),
   mark |-> IF t.mark = "kept" /\ s0 # "deleted" THEN "clear" ELSE t.mark]

Missed(t) == [s |-> t.s, mark |-> "lost"]

(* The outcomes of a call that is answered, and of one that raises.        *)
Answers(what, t, s0) ==
  IF what = "created" THEN {Told(what, t, s0)} ELSE {Told(what, t, s0), Missed(t)}

Raises(what, t, s0) ==
  IF what = "created"
  THEN {[s |-> t.s, mark |-> Told(what, t, s0).mark]}
  ELSE IF what = "deleted" THEN {Missed(Told(what, t, s0)), Missed(t)}
  ELSE {Told(what, t, s0), Missed(t)}

Whats == {"created", "started", "submitted", "error", "deleted"}

LEMMA OutcomesAreLedgers ==
  ASSUME NEW what \in Whats, NEW t \in Ledger, NEW s0
  PROVE  Answers(what, t, s0) \subseteq Ledger /\ Raises(what, t, s0) \subseteq Ledger
  BY DEF Answers, Raises, Told, Missed, Heard, Whats, Ledger, Sessions

(* A change of the attempt that the service need not know of.              *)
Silent(a, b, a0) ==
  /\ b.row = a.row /\ (a.started => b.started)
  /\ b.row = "unused" /\ b.started => a.started
  /\ a.started /\ a.expired => b.expired
  /\ a.registered /\ ~ b.registered => a0.registered
  /\ b.registered =>
       /\ a.registered /\ (b.started => a.started)
       /\ \/ b.status = a.status
          \/ /\ b.status \notin {"submitted", "error"}
             /\ b.status \in Incomplete => a.status \in Incomplete

LEMMA SilentFits ==
  ASSUME NEW a \in Attempt, NEW b \in Attempt, NEW a0 \in Attempt, NEW s0,
         NEW t \in Ledger, Fits(a, t, a0, s0), Silent(a, b, a0)
  PROVE  Fits(b, t, a0, s0)
  BY DEF Fits, Silent, Agrees, Ledger, Attempt

(* The end of an attempt, or an error in it, of which the service is told. *)
LEMMA EndFits ==
  ASSUME NEW a \in Attempt, NEW b \in Attempt, NEW a0 \in Attempt, NEW s0,
         NEW t \in Ledger, Fits(a, t, a0, s0),
         a.row = "live", a.registered, b.row = "live", b.registered,
         a.started => b.started, a.started /\ a.expired => b.expired,
         b.status \in {"submitted", "error"},
         NEW u \in Answers(b.status, t, s0) \cup Raises(b.status, t, s0)
  PROVE  Fits(b, u, a0, s0)
<1>1. b.status \notin Incomplete
  BY DEF Incomplete, PreStarted, InProgress
<1>2. u \in {Told(b.status, t, s0), Missed(t)}
  BY DEF Answers, Raises
<1>3. CASE u = Missed(t)
  BY <1>1, <1>3 DEF Fits, Missed, Ledger, Attempt
<1>4. CASE u = Told(b.status, t, s0)
  <2>1. u.s = (IF t.s = "deleted" THEN t.s ELSE b.status)
    BY <1>4 DEF Told, Heard
  <2>2. u.mark = IF t.mark = "kept" /\ s0 # "deleted" THEN "clear" ELSE t.mark
    BY <1>4 DEF Told
  <2> QED BY <1>1, <2>1, <2>2 DEF Fits, Agrees, Ledger, Attempt
<1> QED
  BY <1>2, <1>3, <1>4

(* The start of an attempt, of which the service is told.                  *)
LEMMA StartFits ==
  ASSUME NEW a \in Attempt, NEW b \in Attempt, NEW a0 \in Attempt, NEW s0,
         NEW t \in Ledger, Fits(a, t, a0, s0),
         a.row = "live", a.registered, ~ a.started, a.status \in Incomplete,
         b.row = "live", b.registered, b.started,
         b.status \in {"started", "timed_out"},
         NEW u \in Answers("started", t, s0) \cup Raises("started", t, s0)
  PROVE  Fits(b, u, a0, s0)
<1>1. t.s \in {"created", "deleted"}
  BY DEF Fits
<1>2. u \in {Told("started", t, s0), Missed(t)}
  BY DEF Answers, Raises
<1>3. CASE u = Missed(t)
  BY <1>1, <1>3 DEF Fits, Missed, Ledger, Attempt
<1>4. CASE u = Told("started", t, s0)
  <2>1. u.s = (IF t.s = "deleted" THEN t.s ELSE "started")
    BY <1>1, <1>4 DEF Told, Heard
  <2>2. u.mark = IF t.mark = "kept" /\ s0 # "deleted" THEN "clear" ELSE t.mark
    BY <1>4 DEF Told
  <2> QED BY <1>1, <2>1, <2>2 DEF Fits, Agrees, Ledger, Attempt
<1> QED
  BY <1>2, <1>3, <1>4

(* An attempt that ends as it starts: the service hears of its end first.  *)
LEMMA InstantFits ==
  ASSUME NEW a \in Attempt, NEW b \in Attempt, NEW a0 \in Attempt, NEW s0,
         NEW t \in Ledger, Fits(a, t, a0, s0),
         a.row = "live", a.registered, ~ a.started, a.status \in Incomplete,
         b.row = "live", b.registered, b.started, b.expired,
         b.status = "submitted",
         NEW u \in Answers("submitted", t, s0),
         NEW v \in Answers("started", u, s0) \cup Raises("started", u, s0)
  PROVE  Fits(b, v, a0, s0)
<1>1. t.s \in {"created", "deleted"} /\ ~ a0.started
  BY DEF Fits
<1>2. /\ u \in {Told("submitted", t, s0), Missed(t)}
      /\ v \in {Told("started", u, s0), Missed(u)}
  BY DEF Answers, Raises
<1>3. /\ u = Missed(t) => u.mark = "lost" /\ u.s = t.s
      /\ u = Told("submitted", t, s0) =>
           /\ u.s = IF t.s = "deleted" THEN t.s ELSE "submitted"
           /\ u.mark = IF t.mark = "kept" /\ s0 # "deleted" THEN "clear" ELSE t.mark
  BY DEF Told, Missed, Heard
<1>4. /\ v = Missed(u) => v.mark = "lost" /\ v.s = u.s
      /\ v = Told("started", u, s0) =>
           /\ v.s = IF u.s = "deleted" THEN u.s
                    ELSE IF u.s = "created" THEN "started"
                    ELSE IF u.s = "submitted" THEN "restarted" ELSE v.s
           /\ v.mark = IF u.mark = "kept" /\ s0 # "deleted" THEN "clear" ELSE u.mark
  BY DEF Told, Missed, Heard
<1>5. t.s = "deleted" => t.mark = "lost" \/ (t.mark = "kept" /\ s0 = "deleted")
  BY DEF Fits
<1> QED
  BY <1>1, <1>2, <1>3, <1>4, <1>5
  DEF Fits, Agrees, Ledger, Attempt, Incomplete, PreStarted, InProgress

(* The removal of an attempt the service knows of.                         *)
LEMMA RemovalFits ==
  ASSUME NEW a \in Attempt, NEW a0 \in Attempt, NEW s0,
         NEW t \in Ledger, Fits(a, t, a0, s0),
         a.row = "live", a.registered, a.started => a0.started
  PROVE  /\ \A u \in Answers("deleted", t, s0) : Fits(Archived, u, a0, s0)
         /\ \A u \in Raises("deleted", t, s0) : Fits(a, u, a0, s0)
<1>1. Told("deleted", t, s0).s = "deleted"
  BY DEF Told, Heard
<1>2. Archived.row = "archived"
  BY DEF Archived, NoRow
<1>3. ASSUME NEW u \in Answers("deleted", t, s0) PROVE Fits(Archived, u, a0, s0)
  <2>1. u = Told("deleted", t, s0) \/ u = Missed(t)
    BY <1>3 DEF Answers
  <2>2. u.s = "deleted" \/ (u.mark = "lost" /\ u.s = t.s)
    BY <1>1, <2>1 DEF Missed
  <2> QED BY <1>2, <2>2 DEF Fits
<1>4. ASSUME NEW u \in Raises("deleted", t, s0) PROVE Fits(a, u, a0, s0)
  <2>1. u = Missed(Told("deleted", t, s0)) \/ u = Missed(t)
    BY <1>4 DEF Raises
  <2>2. u.mark = "lost" /\ (u.s = "deleted" \/ u.s = t.s)
    BY <1>1, <2>1 DEF Missed
  <2> QED BY <2>2 DEF Fits
<1> QED
  BY <1>3, <1>4

(* The removal of one it does not know of.                                 *)
LEMMA UnknownRemovalFits ==
  ASSUME NEW a \in Attempt, NEW a0 \in Attempt, NEW s0,
         NEW t \in Ledger, Fits(a, t, a0, s0),
         a.row = "live", ~ a.registered, ~ a0.registered, a.started => a0.started
  PROVE  Fits(Archived, t, a0, s0)
<1>1. Archived.row = "archived"
  BY DEF Archived, NoRow
<1> QED
  BY <1>1 DEF Fits

(* A new attempt, registered or not.                                       *)
LEMMA RegisteredFits ==
  ASSUME NEW a \in Attempt, NEW b \in Attempt, NEW a0 \in Attempt, NEW s0,
         NEW t \in Ledger, Fits(a, t, a0, s0), a.row = "unused",
         b.row = "live", b.registered, b.status = "created", ~ b.started
  PROVE  /\ \A u \in Answers("created", t, s0) : Fits(b, u, a0, s0)
         /\ \A u \in Raises("created", t, s0) : Fits(a, u, a0, s0)
<1>1. t.s = "none" /\ ~ a0.started
  BY DEF Fits
<1>2. Heard(t.s, "created") = "created"
  BY <1>1 DEF Heard
<1>3. ASSUME NEW u \in Answers("created", t, s0) PROVE Fits(b, u, a0, s0)
  <2>1. u.s = "created"
    BY <1>2, <1>3 DEF Answers, Told
  <2> QED BY <1>1, <2>1 DEF Fits, Agrees, Incomplete, PreStarted, InProgress
<1>4. ASSUME NEW u \in Raises("created", t, s0) PROVE Fits(a, u, a0, s0)
  <2>1. u.s = "none"
    BY <1>1, <1>4 DEF Raises
  <2> QED BY <1>1, <2>1 DEF Fits
<1> QED
  BY <1>3, <1>4

LEMMA UnregisteredFits ==
  ASSUME NEW a \in Attempt, NEW b \in Attempt, NEW a0 \in Attempt, NEW s0,
         NEW t \in Ledger, Fits(a, t, a0, s0), a.row = "unused",
         b.row = "live", ~ b.registered
  PROVE  Fits(b, t, a0, s0)
  BY DEF Fits

-----------------------------------------------------------------------------
(* Runs.                                                                   *)

Lines == {d \in Database : InLine(d)}

Call == [att : Slots, what : Whats, db : Lines]

Runs == [db : Lines, calls : Seq(Call)]

Row(d, i) == d.att[Exam][i]

(* Slot i when call c has been answered, and when it has raised.           *)
Answered(c, i, s0, t) == IF c.att = i THEN Answers(c.what, t, s0) ELSE {t}

Raised(c, i, s0, t) == IF c.att = i THEN Raises(c.what, t, s0) ELSE {t}

(* The ledgers of slot i along the first n calls, all of them answered.    *)
Trail(calls, n, i, s0, t) ==
  \A k \in 1 .. n : t[k] \in Answered(calls[k], i, s0, t[k - 1])

Ledgers(calls) == [0 .. Len(calls) -> Ledger]

(* A run leaves slot i fitting if it finds it fitting in database d,       *)
(* whichever call raises.  The handler found o there, and the session s0.  *)
KeepsAt(run, d, i, o, s0) ==
  \A t \in Ledgers(run.calls) : Fits(Row(d, i), t[0], o, s0) =>
    /\ Trail(run.calls, Len(run.calls), i, s0, t) =>
         Fits(Row(run.db, i), t[Len(run.calls)], o, s0)
    /\ \A n \in 1 .. Len(run.calls) :
         Trail(run.calls, n - 1, i, s0, t)
         /\ t[n] \in Raised(run.calls[n], i, s0, t[n - 1])
           => Fits(Row(run.calls[n].db, i), t[n], o, s0)

Keeps(run, d) ==
  run \in Runs /\ \A i \in Slots : \A s0 : KeepsAt(run, d, i, Row(d, i), s0)

LEMMA RowType ==
  ASSUME NEW d \in Lines, NEW i \in Slots
  PROVE  Row(d, i) \in Attempt /\ RowSound(Exam, Row(d, i)) /\ Exam \in SatOnce
<1>1. Exam \in Exams /\ Kind[Exam] # "practice"
  BY SessionAssumption
<1>2. Sound(d)
  BY DEF Lines, InLine
<1> QED
  BY <1>1, <1>2 DEF Sound, RowSound, Row, SatOnce

(* A run that makes no call.                                               *)
LEMMA QuietKeeps ==
  ASSUME NEW run \in Runs, run.calls = << >>, NEW d, NEW i \in Slots, NEW o, NEW s0,
         \A t \in Ledger : Fits(Row(d, i), t, o, s0) => Fits(Row(run.db, i), t, o, s0)
  PROVE  KeepsAt(run, d, i, o, s0)
<1>1. Len(run.calls) = 0
  OBVIOUS
<1>2. ASSUME NEW t \in Ledgers(run.calls), Fits(Row(d, i), t[0], o, s0)
      PROVE  Fits(Row(run.db, i), t[0], o, s0)
  <2>1. t[0] \in Ledger
    BY <1>1 DEF Ledgers
  <2> QED BY <1>2, <2>1
<1> QED
  BY <1>1, <1>2 DEF KeepsAt

(* A run that makes one.                                                   *)
LEMMA OneCallKeeps ==
  ASSUME NEW run \in Runs, NEW c \in Call, run.calls = <<c>>,
         NEW d, NEW i \in Slots, NEW o, NEW s0,
         \A t \in Ledger : Fits(Row(d, i), t, o, s0) =>
           /\ \A u \in Answered(c, i, s0, t) : Fits(Row(run.db, i), u, o, s0)
           /\ \A u \in Raised(c, i, s0, t) : Fits(Row(c.db, i), u, o, s0)
  PROVE  KeepsAt(run, d, i, o, s0)
<1>1. Len(run.calls) = 1 /\ run.calls[1] = c
  OBVIOUS
<1>2. ASSUME NEW t \in Ledgers(run.calls), Fits(Row(d, i), t[0], o, s0)
      PROVE  /\ Trail(run.calls, 1, i, s0, t) => Fits(Row(run.db, i), t[1], o, s0)
             /\ t[1] \in Raised(c, i, s0, t[0]) => Fits(Row(c.db, i), t[1], o, s0)
  <2>1. t[0] \in Ledger
    BY <1>1 DEF Ledgers
  <2>2. Trail(run.calls, 1, i, s0, t) => t[1] \in Answered(c, i, s0, t[0])
    BY <1>1 DEF Trail
  <2> QED BY <1>2, <2>1, <2>2
<1>3. ASSUME NEW t \in Ledgers(run.calls), Fits(Row(d, i), t[0], o, s0),
             NEW n \in 1 .. 1, t[n] \in Raised(run.calls[n], i, s0, t[n - 1])
      PROVE  Fits(Row(run.calls[n].db, i), t[n], o, s0)
  <2>1. n = 1
    OBVIOUS
  <2> QED BY <1>1, <1>2, <1>3, <2>1
<1> QED
  BY <1>1, <1>2, <1>3 DEF KeepsAt

(* A run that makes two.                                                   *)
LEMMA TwoCallsKeep ==
  ASSUME NEW run \in Runs, NEW c1 \in Call, NEW c2 \in Call,
         Len(run.calls) = 2, run.calls[1] = c1, run.calls[2] = c2,
         NEW d, NEW i \in Slots, NEW o, NEW s0,
         \A t \in Ledger : Fits(Row(d, i), t, o, s0) =>
           /\ \A u \in Raised(c1, i, s0, t) : Fits(Row(c1.db, i), u, o, s0)
           /\ \A u \in Answered(c1, i, s0, t) :
                /\ \A v \in Answered(c2, i, s0, u) : Fits(Row(run.db, i), v, o, s0)
                /\ \A v \in Raised(c2, i, s0, u) : Fits(Row(c2.db, i), v, o, s0)
  PROVE  KeepsAt(run, d, i, o, s0)
<1>1. Len(run.calls) = 2 /\ run.calls[1] = c1 /\ run.calls[2] = c2
  OBVIOUS
<1>2. ASSUME NEW t \in Ledgers(run.calls), Fits(Row(d, i), t[0], o, s0)
      PROVE  /\ Trail(run.calls, 2, i, s0, t) => Fits(Row(run.db, i), t[2], o, s0)
             /\ t[1] \in Raised(c1, i, s0, t[0]) => Fits(Row(c1.db, i), t[1], o, s0)
             /\ Trail(run.calls, 1, i, s0, t) /\ t[2] \in Raised(c2, i, s0, t[1])
                  => Fits(Row(c2.db, i), t[2], o, s0)
  <2>1. t[0] \in Ledger
    BY <1>1 DEF Ledgers
  <2>2. Trail(run.calls, 1, i, s0, t) => t[1] \in Answered(c1, i, s0, t[0])
    BY <1>1 DEF Trail
  <2>3. Trail(run.calls, 2, i, s0, t) =>
          t[1] \in Answered(c1, i, s0, t[0]) /\ t[2] \in Answered(c2, i, s0, t[1])
    BY <1>1 DEF Trail
  <2> QED BY <1>2, <2>1, <2>2, <2>3
<1>3. ASSUME NEW t \in Ledgers(run.calls), Fits(Row(d, i), t[0], o, s0),
             NEW n \in 1 .. 2, Trail(run.calls, n - 1, i, s0, t),
             t[n] \in Raised(run.calls[n], i, s0, t[n - 1])
      PROVE  Fits(Row(run.calls[n].db, i), t[n], o, s0)
  <2>1. n = 1 \/ n = 2
    OBVIOUS
  <2> QED BY <1>1, <1>2, <1>3, <2>1
<1> QED
  BY <1>1, <1>2, <1>3 DEF KeepsAt

(* One run after the other.                                                *)
LEMMA JoinedRuns ==
  ASSUME NEW run \in Runs, NEW next \in Runs
  PROVE  /\ Joined(run, next) \in Runs
         /\ Joined(run, next).db = next.db
         /\ Len(Joined(run, next).calls) = Len(run.calls) + Len(next.calls)
         /\ \A k \in 1 .. Len(run.calls) : Joined(run, next).calls[k] = run.calls[k]
         /\ \A k \in 1 .. Len(next.calls) :
              Joined(run, next).calls[Len(run.calls) + k] = next.calls[k]
<1> DEFINE C == run.calls
           D == next.calls
<1>1. C \in Seq(Call) /\ D \in Seq(Call) /\ next.db \in Lines
  BY DEF Runs
<1>2. Joined(run, next) = [db |-> next.db, calls |-> C \o D]
  BY DEF Joined
<1> HIDE DEF C, D
<1>3. /\ C \o D \in Seq(Call) /\ Len(C \o D) = Len(C) + Len(D)
      /\ \A k \in 1 .. Len(C) : (C \o D)[k] = C[k]
      /\ \A k \in 1 .. Len(D) : (C \o D)[Len(C) + k] = D[k]
  BY <1>1
<1> QED
  BY <1>1, <1>2, <1>3 DEF Runs, C, D

LEMMA JoinedKeeps ==
  ASSUME NEW run \in Runs, NEW next \in Runs, NEW d, NEW i \in Slots, NEW o, NEW s0,
         KeepsAt(run, d, i, o, s0), KeepsAt(next, run.db, i, o, s0)
  PROVE  KeepsAt(Joined(run, next), d, i, o, s0)
<1> DEFINE both == Joined(run, next)
           l == Len(run.calls)
           m == Len(next.calls)
<1>1. /\ both.db = next.db /\ Len(both.calls) = l + m
      /\ \A k \in 1 .. l : both.calls[k] = run.calls[k]
      /\ \A k \in 1 .. m : both.calls[l + k] = next.calls[k]
  BY JoinedRuns
<1>2. l \in Nat /\ m \in Nat
  BY LenProperties DEF Runs
<1> HIDE DEF both, l, m
<1> SUFFICES ASSUME NEW t \in Ledgers(both.calls), Fits(Row(d, i), t[0], o, s0)
             PROVE  /\ Trail(both.calls, l + m, i, s0, t) =>
                         Fits(Row(next.db, i), t[l + m], o, s0)
                    /\ \A n \in 1 .. l + m :
                         Trail(both.calls, n - 1, i, s0, t)
                         /\ t[n] \in Raised(both.calls[n], i, s0, t[n - 1])
                           => Fits(Row(both.calls[n].db, i), t[n], o, s0)
  BY <1>1 DEF KeepsAt, both
<1> DEFINE t1 == [k \in 0 .. l |-> t[k]]
           t2 == [k \in 0 .. m |-> t[l + k]]
<1>3. t1 \in Ledgers(run.calls) /\ t2 \in Ledgers(next.calls)
  <2>1. t \in [0 .. l + m -> Ledger]
    BY <1>1 DEF Ledgers
  <2>2. t1 \in [0 .. l -> Ledger] /\ t2 \in [0 .. m -> Ledger]
    BY <1>2, <2>1
  <2> QED BY <2>2 DEF Ledgers, l, m
<1>4. /\ \A k \in 0 .. l : t1[k] = t[k]
      /\ \A k \in 0 .. m : t2[k] = t[l + k]
  OBVIOUS
<1> HIDE DEF t1, t2
<1>5. ASSUME NEW n \in 0 .. l, Trail(both.calls, n, i, s0, t)
      PROVE  Trail(run.calls, n, i, s0, t1)
  BY <1>1, <1>2, <1>4, <1>5 DEF Trail
<1>6. ASSUME NEW n \in 0 .. m, Trail(both.calls, l + n, i, s0, t)
      PROVE  Trail(next.calls, n, i, s0, t2) /\ Trail(run.calls, l, i, s0, t1)
  <2>1. ASSUME NEW k \in 1 .. n
        PROVE  t2[k] \in Answered(next.calls[k], i, s0, t2[k - 1])
    <3>1. t[l + k] \in Answered(both.calls[l + k], i, s0, t[l + k - 1])
      BY <1>2, <1>6, <2>1 DEF Trail
    <3>2. both.calls[l + k] = next.calls[k] /\ t2[k] = t[l + k]
      BY <1>1, <1>2, <1>4
    <3>3. t2[k - 1] = t[l + k - 1]
      <4>1. k - 1 \in 0 .. m /\ l + (k - 1) = l + k - 1
        BY <1>2
      <4> QED BY <1>4, <4>1
    <3> QED BY <3>1, <3>2, <3>3
  <2>2. Trail(both.calls, l, i, s0, t)
    BY <1>2, <1>6 DEF Trail
  <2> QED BY <1>2, <1>5, <2>1, <2>2 DEF Trail
<1>7. Fits(Row(d, i), t1[0], o, s0)
  BY <1>2, <1>4
<1>8. ASSUME Trail(run.calls, l, i, s0, t1)
      PROVE  Fits(Row(run.db, i), t2[0], o, s0)
  <2>1. Fits(Row(run.db, i), t1[l], o, s0)
    BY <1>3, <1>7, <1>8 DEF KeepsAt, l
  <2>2. t1[l] = t2[0]
    BY <1>2, <1>4
  <2> QED BY <2>1, <2>2
<1>9. ASSUME Trail(both.calls, l + m, i, s0, t)
      PROVE  Fits(Row(next.db, i), t[l + m], o, s0)
  <2>1. Trail(next.calls, m, i, s0, t2) /\ Fits(Row(run.db, i), t2[0], o, s0)
    BY <1>2, <1>6, <1>8, <1>9
  <2>2. Fits(Row(next.db, i), t2[m], o, s0)
    BY <1>3, <2>1 DEF KeepsAt, m
  <2> QED BY <1>2, <1>4, <2>2
<1>10. ASSUME NEW n \in 1 .. l + m, Trail(both.calls, n - 1, i, s0, t),
              t[n] \in Raised(both.calls[n], i, s0, t[n - 1])
       PROVE  Fits(Row(both.calls[n].db, i), t[n], o, s0)
  <2>1. CASE n <= l
    <3>1. n \in 1 .. l /\ n - 1 \in 0 .. l /\ n \in 0 .. l
      BY <1>2, <2>1
    <3>2. Trail(run.calls, n - 1, i, s0, t1)
      BY <1>5, <1>10, <3>1
    <3>3. t1[n] \in Raised(run.calls[n], i, s0, t1[n - 1])
      BY <1>1, <1>4, <1>10, <3>1
    <3>4. Fits(Row(run.calls[n].db, i), t1[n], o, s0)
      BY <1>3, <1>7, <3>1, <3>2, <3>3 DEF KeepsAt, l
    <3> QED BY <1>1, <1>4, <3>1, <3>4
  <2>2. CASE n > l
    <3> DEFINE k == n - l
    <3>1. /\ k \in 1 .. m /\ k - 1 \in 0 .. m /\ k \in 0 .. m
          /\ n = l + k /\ n - 1 = l + (k - 1)
      BY <1>2, <2>2
    <3> HIDE DEF k
    <3>2. Trail(next.calls, k - 1, i, s0, t2) /\ Fits(Row(run.db, i), t2[0], o, s0)
      BY <1>6, <1>8, <1>10, <3>1
    <3>3. t2[k] \in Raised(next.calls[k], i, s0, t2[k - 1])
      BY <1>1, <1>4, <1>10, <3>1
    <3>4. Fits(Row(next.calls[k].db, i), t2[k], o, s0)
      BY <1>3, <3>1, <3>2, <3>3 DEF KeepsAt, m
    <3> QED BY <1>1, <1>4, <3>1, <3>4
  <2> QED BY <1>2, <2>1, <2>2
<1> QED
  BY <1>9, <1>10

-----------------------------------------------------------------------------
(* What the handlers do to the rows of the exam.                           *)

LEMMA ExamIs ==
  /\ Exam \in Exams /\ Exam \in SatOnce /\ Exams = {Exam}
  /\ OtherProctored(Exam) = {} /\ \A d : RoomToDecline(d, Exam)
<1>1. Exams = {Exam} /\ Kind[Exam] # "practice"
  BY SessionAssumption
<1>2. OtherProctored(Exam) = {}
  BY <1>1 DEF OtherProctored
<1> QED
  BY <1>1, <1>2 DEF SatOnce, RoomToDecline

LEMMA LineIs ==
  ASSUME NEW d, InLine(d)
  PROVE  d \in Lines /\ Honest(d) /\ Sound(d)
  BY DEF Lines, InLine, Honest, Sound

LEMMA LiveRow ==
  ASSUME NEW d, NEW i
  PROVE  i \in Live(d, Exam) <=> i \in Slots /\ Row(d, i).row = "live"
  BY DEF Live, Row

(* A row after the end of its time has been noticed.                       *)
Ended(a) == Saved(a, "timed_out", TRUE, FALSE)

LEMMA SaveRow ==
  ASSUME NEW d \in Lines, NEW i \in Live(d, Exam), NEW to \in ValidStatus,
         NEW stamped \in BOOLEAN, NEW instantly \in BOOLEAN,
         IsLegal(Row(d, i).status, EffectiveStatus(Row(d, i).status, to, AllowTimedOut)),
         NEW d1, d1 = SaveStatus(d, Exam, i, to, stamped, instantly)
  PROVE  /\ d1 \in Lines /\ Live(d1, Exam) = Live(d, Exam)
         /\ Row(d1, i) = Saved(Row(d, i), to, stamped, instantly)
         /\ \A j \in Slots : j # i => Row(d1, j) = Row(d, j)
<1>1. InLine(d) /\ Sound(d) /\ Honest(d) /\ i \in Slots
  BY LineIs DEF Lines, Live
<1>2. CanHave(Exam, to)
  BY DEF CanHave, Status
<1>3. /\ OthersKept(d, d1, Exam, i) /\ Live(d1, Exam) = Live(d, Exam)
      /\ d1.att[Exam][i] = Saved(d.att[Exam][i], to, stamped, instantly)
  BY <1>1, <1>2, ExamIs, SaveStatusDoes DEF Row
<1>4. Goes(d, d1, to)
  BY <1>1, <1>2, ExamIs, SaveStatusHonest DEF Row
<1>5. InLine(d1)
  BY <1>1, <1>4, MovedKeepsLine
<1> QED
  BY <1>3, <1>5, LineIs, ExamIs DEF Row, OthersKept

LEMMA ReadRow ==
  ASSUME NEW d \in Lines, NEW i \in Live(d, Exam), NEW d1, d1 = Read(d, Exam, i)
  PROVE  /\ d1 \in Lines /\ Live(d1, Exam) = Live(d, Exam)
         /\ Row(d1, i) = IF Overdue(Row(d, i)) THEN Ended(Row(d, i)) ELSE Row(d, i)
         /\ \A j \in Slots : j # i => Row(d1, j) = Row(d, j)
<1>1. CASE ~ Overdue(Row(d, i))
  <2>1. d1 = d
    BY <1>1 DEF Read, Row
  <2> QED BY <1>1, <2>1
<1>2. CASE Overdue(Row(d, i))
  <2> DEFINE dm == SaveStatus(d, Exam, i, "timed_out", TRUE, FALSE)
  <2>1. d1 = ClearOnboardingErrors(dm, Exam, "submitted")
    BY <1>2 DEF Read, Row
  <2>2. "timed_out" \in ValidStatus /\ "timed_out" \in Completed
    BY DEF ValidStatus, Completed
  <2>3. IsLegal(Row(d, i).status,
                EffectiveStatus(Row(d, i).status, "timed_out", AllowTimedOut))
    BY <2>2, EndingIsLegal
  <2>4. /\ dm \in Lines /\ Live(dm, Exam) = Live(d, Exam)
        /\ Row(dm, i) = Ended(Row(d, i))
        /\ \A j \in Slots : j # i => Row(dm, j) = Row(d, j)
    <3>1. ASSUME NEW s \in BOOLEAN, NEW n \in BOOLEAN,
                 NEW x, x = SaveStatus(d, Exam, i, "timed_out", s, n)
          PROVE  /\ x \in Lines /\ Live(x, Exam) = Live(d, Exam)
                 /\ Row(x, i) = Saved(Row(d, i), "timed_out", s, n)
                 /\ \A j \in Slots : j # i => Row(x, j) = Row(d, j)
      BY <2>2, <2>3, <3>1, SaveRow
    <3> QED BY <3>1, Zenon DEF Ended
  <2> HIDE DEF dm
  <2>5. Honest(dm)
    BY <2>4, LineIs DEF Lines
  <2>6. d1 = dm
    BY <2>1, <2>5, ExamIs, ClearDoes
  <2> QED BY <1>2, <2>4, <2>6
<1> QED
  BY <1>1, <1>2

(* The row that update_attempt_status leaves.                              *)
Withdraw(a) == [a EXCEPT !.proctored = FALSE, !.registered = FALSE]

UpdatedRow(a, to, instantly) ==
  LET b == Saved(a, to, FALSE, instantly)
  IN IF to = "declined" THEN Withdraw(b)
     ELSE IF Overdue(b) THEN Ended(b) ELSE b

(* The read for the time allowed is one of another attempt.                *)
FirstStart(a, to) ==
  EffectiveStatus(a.status, to, AllowTimedOut) = "started" /\ ~ a.started

TimeRead(d, i, to) ==
  IF FirstStart(Row(d, i), to) THEN AllowedTimeRead(d, Exam) ELSE d

LEMMA TimeReadRow ==
  ASSUME NEW d \in Lines, NEW i \in Live(d, Exam), NEW to,
         NEW d0, d0 = TimeRead(d, i, to)
  PROVE  /\ d0 \in Lines /\ Live(d0, Exam) = Live(d, Exam)
         /\ Row(d0, i) = Row(d, i)
<1>1. CASE d0 = d
  BY <1>1
<1>2. CASE d0 # d
  <2>1. d0 = AllowedTimeRead(d, Exam) /\ ~ Overdue(Row(d, i)) /\ HasAttempt(d, Exam)
    BY <1>2 DEF TimeRead, FirstStart, Overdue, AllowedTimeRead
  <2>2. Latest(d, Exam) \in Live(d, Exam)
    BY <2>1, ExamIs, LatestIsLive
  <2>3. d0 = Read(d, Exam, Latest(d, Exam))
    BY <2>1 DEF AllowedTimeRead
  <2>4. i \in Slots
    BY DEF Live
  <2> QED BY <2>1, <2>2, <2>3, <2>4, ReadRow
<1> QED
  BY <1>1, <1>2

LEMMA UpdateRow ==
  ASSUME NEW d \in Lines, NEW i \in Live(d, Exam), NEW to \in ValidStatus,
         NEW instantly \in BOOLEAN,
         IsLegal(Row(d, i).status, EffectiveStatus(Row(d, i).status, to, AllowTimedOut)),
         NEW d0, d0 = TimeRead(d, i, to),
         NEW d3, d3 = Update(d, Exam, i, to, instantly)
  PROVE  /\ d3 \in Lines /\ Live(d3, Exam) = Live(d, Exam)
         /\ Row(d3, i) = UpdatedRow(Row(d, i), to, instantly)
         /\ \A j \in Slots : j # i => Row(d3, j) = Row(d0, j)
<1> DEFINE a   == Row(d, i)
           new == EffectiveStatus(a.status, to, AllowTimedOut)
           d1  == SaveStatus(d0, Exam, i, to, FALSE, instantly)
           d2  == IF /\ new \in CascadableFailure
                     /\ CanUpdateCreditGradesAndEmail(d1, Exam, new)
                  THEN Cascade(Withdrawn(d1, Exam, i), Exam)
                  ELSE d1
           b   == Saved(a, to, FALSE, instantly)
<1>1. InLine(d) /\ i \in Slots /\ CanHave(Exam, to)
  BY DEF Lines, Live, CanHave, Status
<1>2. d3 \in Lines /\ Live(d3, Exam) = Live(d, Exam)
  <2>1. Updated(d, d3, Exam, i, to)
    BY <1>1, ExamIs, UpdateDoes
  <2> QED BY <2>1, ExamIs, LineIs DEF Updated
<1>3. d0 \in Lines /\ Live(d0, Exam) = Live(d, Exam) /\ Row(d0, i) = a
  BY TimeReadRow
<1>4. d3 = ClearOnboardingErrors(Read(d2, Exam, i), Exam, new)
  BY DEF Update, Row, TimeRead, FirstStart
<1> HIDE DEF new
<1>5. /\ d1 \in Lines /\ Live(d1, Exam) = Live(d, Exam)
      /\ Row(d1, i) = b
      /\ \A j \in Slots : j # i => Row(d1, j) = Row(d0, j)
  <2>1. ASSUME NEW s \in BOOLEAN,
               NEW x, x = SaveStatus(d0, Exam, i, to, s, instantly)
        PROVE  /\ x \in Lines /\ Live(x, Exam) = Live(d, Exam)
               /\ Row(x, i) = Saved(a, to, s, instantly)
               /\ \A j \in Slots : j # i => Row(x, j) = Row(d0, j)
    BY <1>3, <2>1, SaveRow
  <2> QED BY <2>1, Zenon
<1> HIDE DEF d1
<1>6. new = "declined" <=> to = "declined"
  BY DEF new, EffectiveStatus, IsReattempting, PreStarted
<1>7. CASE to # "declined"
  <2>1. d2 = d1
    BY <1>6, <1>7 DEF CascadableFailure
  <2> DEFINE dr == Read(d1, Exam, i)
  <2>2. /\ dr \in Lines
        /\ Row(dr, i) = IF Overdue(b) THEN Ended(b) ELSE b
        /\ \A j \in Slots : j # i => Row(dr, j) = Row(d0, j)
    <3> HIDE DEF b
    <3> QED BY <1>5, ReadRow
  <2>3. d3 = ClearOnboardingErrors(dr, Exam, new)
    BY <1>4, <2>1
  <2> HIDE DEF dr
  <2>4. d3 = dr
    <3>1. Honest(dr)
      BY <2>2, LineIs DEF Lines
    <3> QED BY <2>3, <3>1, ExamIs, ClearDoes
  <2>5. UpdatedRow(a, to, instantly) = IF Overdue(b) THEN Ended(b) ELSE b
    BY <1>7 DEF UpdatedRow
  <2> HIDE DEF b
  <2> QED BY <1>2, <2>2, <2>4, <2>5
<1>8. CASE to = "declined"
  <2> DEFINE dw == Withdrawn(d1, Exam, i)
  <2>1. CanUpdateCreditGradesAndEmail(d1, Exam, new)
    BY <1>6, <1>8 DEF CanUpdateCreditGradesAndEmail
  <2>2. d2 = Cascade(dw, Exam)
    BY <1>6, <1>8, <2>1 DEF CascadableFailure
  <2>3. /\ Row(dw, i) = Withdraw(b)
        /\ \A j \in Slots : j # i => Row(dw, j) = Row(d0, j)
    <3>1. dw = WithRow(d1, Exam, i, Withdraw(Row(d1, i)))
      BY DEF Withdrawn, WithRow, Withdraw, Row
    <3>2. Sound(d1) /\ RowSound(Exam, Row(d1, i))
      BY <1>1, <1>5, RowType, LineIs DEF Lines
    <3>3. RowSound(Exam, Withdraw(Row(d1, i)))
      BY <3>2, ExamIs, WithdrawnSound DEF Withdraw
    <3> HIDE DEF dw
    <3>4. \A j \in Slots : Row(dw, j) = IF j = i THEN Withdraw(Row(d1, i)) ELSE Row(d1, j)
      BY <3>1, <3>2, <3>3, ExamIs, WriteRowSound DEF Row
    <3> HIDE DEF b
    <3> QED BY <1>1, <1>5, <3>4
  <2> HIDE DEF dw
  <2>4. \A j \in Slots : Row(d2, j) = Row(dw, j)
    BY <2>2, ExamIs DEF Cascade, Row
  <2> HIDE DEF d2
  <2>5. Row(d2, i).status = "declined"
    <3>1. b \in Attempt /\ b.status = "declined"
      <4>1. RowSound(Exam, Row(d1, i)) /\ RowSound(Exam, a)
        BY <1>1, <1>5, RowType
      <4>2. b.status = "declined"
        <5>1. ASSUME NEW n \in BOOLEAN, NEW x \in Attempt
              PROVE  Saved(x, to, n, instantly).status
                       = EffectiveStatus(x.status, to, AllowTimedOut)
          BY DEF Saved, Attempt
        <5>2. a \in Attempt
          BY <4>1 DEF RowSound
        <5>3. b.status = EffectiveStatus(a.status, to, AllowTimedOut)
          <6> HIDE DEF a
          <6> QED BY <5>1, <5>2, Zenon
        <5> QED BY <1>6, <1>8, <5>3 DEF new
      <4> HIDE DEF b
      <4> QED BY <1>5, <4>1, <4>2 DEF RowSound
    <3> HIDE DEF b
    <3>2. Withdraw(b).status = "declined"
      BY <3>1 DEF Withdraw, Attempt
    <3> QED BY <1>1, <2>3, <2>4, <3>2
  <2>6. Read(d2, Exam, i) = d2
    <3>1. ~ Overdue(d2.att[Exam][i])
      BY <2>5 DEF Overdue, Row, Incomplete, PreStarted, InProgress
    <3> QED BY <3>1 DEF Read
  <2>7. d3 = d2
    <3>1. d3 = ClearOnboardingErrors(d2, Exam, new)
      BY <1>4, <2>6 DEF d2
    <3> QED BY <3>1, SessionAssumption DEF ClearOnboardingErrors
  <2>8. UpdatedRow(a, to, instantly) = Withdraw(b)
    BY <1>8 DEF UpdatedRow
  <2> HIDE DEF b
  <2> QED BY <1>1, <1>2, <2>3, <2>4, <2>7, <2>8
<1> QED
  BY <1>7, <1>8

(* What is known of a row that was saved with a new status.                *)
LEMMA SavedIs ==
  ASSUME NEW a \in Attempt, NEW to \in ValidStatus,
         NEW stamped \in BOOLEAN, NEW instantly \in BOOLEAN,
         NEW new, new = EffectiveStatus(a.status, to, AllowTimedOut),
         NEW b, b = Saved(a, to, stamped, instantly)
  PROVE  /\ b \in Attempt /\ b.row = a.row /\ b.registered = a.registered
         /\ b.status = new
         /\ b.started <=> a.started \/ new = "started"
         /\ ~ (new = "started" /\ ~ a.started) => (b.expired <=> a.expired)
<1>1. new \in ValidStatus
  BY EffectiveStatusType DEF Status
<1> DEFINE begins  == new = "started" /\ ~ a.started
           timeout == to = "timed_out" /\ ~ AllowTimedOut
<1>2. b = [a EXCEPT
        !.status    = new,
        !.started   = a.started \/ begins,
        !.expired   = IF begins THEN instantly ELSE a.expired,
        !.completed = IF timeout THEN stamped
                      ELSE a.completed \/ new = "submitted",
        !.resumable = IsResumable(a, new)]
  BY DEF Saved
<1>3. IsResumable(a, new) \in BOOLEAN
  BY DEF IsResumable, InResumeProcess, Attempt
<1>4. a.started \in BOOLEAN /\ a.expired \in BOOLEAN /\ a.completed \in BOOLEAN
  BY DEF Attempt
<1>5. new \in Status
  BY <1>1 DEF Status
<1>6. b \in Attempt
  BY <1>2, <1>3, <1>4, <1>5 DEF Attempt
<1>7. /\ b.row = a.row /\ b.registered = a.registered /\ b.status = new
      /\ b.started = (a.started \/ begins)
      /\ b.expired = IF begins THEN instantly ELSE a.expired
  BY <1>2 DEF Attempt
<1> HIDE DEF timeout
<1>8. b.started <=> a.started \/ new = "started"
  BY <1>7, Zenon
<1>9. ~ begins => (b.expired <=> a.expired)
  BY <1>7, Zenon
<1> QED
  BY <1>6, <1>7, <1>8, <1>9, Zenon

LEMMA EndedIs ==
  ASSUME NEW a \in Attempt, Overdue(a)
  PROVE  /\ Ended(a) \in Attempt /\ Ended(a).row = a.row
         /\ Ended(a).registered = a.registered
         /\ Ended(a).status = IF AllowTimedOut THEN "timed_out" ELSE "submitted"
         /\ Ended(a).started /\ Ended(a).expired
<1>1. "timed_out" \in ValidStatus
  BY DEF ValidStatus, Completed
<1>2. ASSUME NEW s \in BOOLEAN, NEW n \in BOOLEAN,
             NEW b, b = Saved(a, "timed_out", s, n)
      PROVE  /\ b \in Attempt /\ b.row = a.row /\ b.registered = a.registered
             /\ b.status = (IF AllowTimedOut THEN "timed_out" ELSE "submitted")
             /\ b.started /\ b.expired
  <2> DEFINE new == EffectiveStatus(a.status, "timed_out", AllowTimedOut)
  <2>1. new = IF AllowTimedOut THEN "timed_out" ELSE "submitted"
    BY ConstantsAssumption DEF EffectiveStatus, IsReattempting, PreStarted
  <2> HIDE DEF new
  <2>2. /\ b \in Attempt /\ b.row = a.row /\ b.registered = a.registered
        /\ b.status = new
        /\ b.started <=> a.started \/ new = "started"
        /\ ~ (new = "started" /\ ~ a.started) => (b.expired <=> a.expired)
    BY <1>1, <1>2, SavedIs DEF new
  <2> QED BY <2>1, <2>2 DEF Overdue
<1> QED
  BY <1>2, Zenon DEF Ended

(* The calls of a handler about an attempt that it has saved.              *)
LEMMA NoticeType ==
  ASSUME NEW asked, NEW stored, NEW first
  PROVE  Notice(asked, stored, first) \in Whats \cup {"nothing"}
  BY DEF Notice, Whats

LEMMA ShortRuns ==
  ASSUME NEW d \in Lines
  PROVE  /\ \A c \in Call : [db |-> d, calls |-> <<c>>] \in Runs
         /\ [db |-> d, calls |-> << >>] \in Runs
<1>1. << >> \in Seq(Call) /\ \A c \in Call : <<c>> \in Seq(Call)
  OBVIOUS
<1> QED
  BY <1>1, Zenon DEF Runs

Says(d1, i, what) == what # "nothing" /\ Row(d1, i).registered

OneCall(d1, i, what) == [att |-> i, what |-> what, db |-> d1]

LEMMA TellCall ==
  ASSUME NEW d1 \in Lines, NEW i \in Slots, NEW what \in Whats \cup {"nothing"},
         NEW run, run = [db |-> d1, calls |-> Tell(d1, i, what)],
         Says(d1, i, what)
  PROVE  /\ OneCall(d1, i, what) \in Call /\ run \in Runs /\ run.db = d1
         /\ run.calls = <<OneCall(d1, i, what)>>
<1> DEFINE c == OneCall(d1, i, what)
<1>1. c \in Call
  BY DEF Call, OneCall, Says
<1>2. run = [db |-> d1, calls |-> <<c>>]
  BY DEF Tell, Row, Says, OneCall
<1> HIDE DEF c
<1>3. run \in Runs
  BY <1>1, <1>2, ShortRuns
<1>4. run.db = d1 /\ run.calls = <<c>>
  BY <1>2
<1> QED
  BY <1>1, <1>3, <1>4 DEF c

LEMMA TellType ==
  ASSUME NEW d1 \in Lines, NEW i \in Slots, NEW what \in Whats \cup {"nothing"},
         NEW run, run = [db |-> d1, calls |-> Tell(d1, i, what)]
  PROVE  /\ run \in Runs /\ run.db = d1
         /\ ~ Says(d1, i, what) => run.calls = << >>
<1>1. ASSUME Says(d1, i, what)
      PROVE  run \in Runs /\ run.db = d1
  BY <1>1, TellCall
<1>2. ASSUME ~ Says(d1, i, what)
      PROVE  run \in Runs /\ run.db = d1 /\ run.calls = << >>
  <2>1. run = [db |-> d1, calls |-> << >>]
    BY <1>2 DEF Tell, Row, Says
  <2>2. run.db = d1 /\ run.calls = << >>
    BY <2>1
  <2>3. run \in Runs
    BY <2>1, ShortRuns
  <2> QED BY <2>2, <2>3
<1> QED
  BY <1>1, <1>2, Zenon

(* A call is nothing to the other attempts.                                *)
LEMMA TellOthers ==
  ASSUME NEW d1 \in Lines, NEW i \in Slots, NEW what \in Whats \cup {"nothing"},
         NEW run, run = [db |-> d1, calls |-> Tell(d1, i, what)],
         NEW d, NEW j \in Slots, j # i, Row(d1, j) = Row(d, j), NEW o, NEW s0
  PROVE  KeepsAt(run, d, j, o, s0)
<1> DEFINE c == OneCall(d1, i, what)
<1>1. c.att # j /\ c.db = d1
  BY DEF OneCall
<1> HIDE DEF c
<1>2. run \in Runs /\ run.db = d1
  BY TellType, Zenon
<1>3. CASE ~ Says(d1, i, what)
  <2>1. run.calls = << >>
    BY <1>3, TellType
  <2> QED BY <1>2, <2>1, QuietKeeps
<1>4. CASE Says(d1, i, what)
  <2>1. c \in Call /\ run.calls = <<c>>
    BY <1>4, TellCall DEF c
  <2> QED BY <1>1, <1>2, <2>1, OneCallKeeps DEF Answered, Raised
<1> QED
  BY <1>3, <1>4

(* To the attempt itself it is as the row has changed.                     *)
LEMMA TellKeeps ==
  ASSUME NEW d1 \in Lines, NEW i \in Slots, NEW what \in Whats \cup {"nothing"},
         NEW run, run = [db |-> d1, calls |-> Tell(d1, i, what)],
         NEW d, NEW o, NEW s0,
         \A t \in Ledger : Fits(Row(d, i), t, o, s0) =>
           /\ Says(d1, i, what) =>
                \A u \in Answers(what, t, s0) \cup Raises(what, t, s0) :
                  Fits(Row(d1, i), u, o, s0)
           /\ ~ Says(d1, i, what) => Fits(Row(d1, i), t, o, s0)
  PROVE  KeepsAt(run, d, i, o, s0)
<1> DEFINE c == OneCall(d1, i, what)
<1>1. c.att = i /\ c.db = d1 /\ c.what = what
  BY DEF OneCall
<1> HIDE DEF c
<1>2. run \in Runs /\ run.db = d1
  BY TellType, Zenon
<1>3. CASE ~ Says(d1, i, what)
  <2>1. run.calls = << >>
    BY <1>3, TellType
  <2> QED BY <1>2, <1>3, <2>1, QuietKeeps
<1>4. CASE Says(d1, i, what)
  <2>1. c \in Call /\ run.calls = <<c>>
    BY <1>4, TellCall DEF c
  <2> QED BY <1>1, <1>2, <1>4, <2>1, OneCallKeeps DEF Answered, Raised
<1> QED
  BY <1>3, <1>4

(* A read.                                                                 *)
LEMMA RunIs ==
  ASSUME NEW d \in Lines
  PROVE  /\ Run(d) \in Runs /\ Run(d).db = d /\ Run(d).calls = << >>
         /\ \A i \in Slots : \A o, s0 : KeepsAt(Run(d), d, i, o, s0)
<1>1. Run(d) \in Runs /\ Run(d).db = d /\ Run(d).calls = << >>
  BY DEF Run, Runs
<1> QED
  BY <1>1, QuietKeeps

LEMMA ReadingKeeps ==
  ASSUME NEW d \in Lines, NEW i \in Live(d, Exam), NEW run, run = Reading(d, i)
  PROVE  /\ run \in Runs /\ run.db = Read(d, Exam, i)
         /\ \A j \in Slots : \A o \in Attempt : \A s0 : KeepsAt(run, d, j, o, s0)
<1> DEFINE d1   == Read(d, Exam, i)
           a    == Row(d, i)
           c    == Row(d1, i)
           what == IF Overdue(a) THEN Notice("timed_out", c.status, FALSE)
                   ELSE "nothing"
<1>1. /\ d1 \in Lines /\ c = (IF Overdue(a) THEN Ended(a) ELSE a)
      /\ \A j \in Slots : j # i => Row(d1, j) = Row(d, j)
  BY ReadRow
<1>2. run = [db |-> d1, calls |-> Tell(d1, i, what)]
  BY DEF Reading, ReadTo, TellEnd, Row, Tell
<1>3. i \in Slots /\ a.row = "live" /\ a \in Attempt
  BY LiveRow, RowType
<1>4. what \in Whats \cup {"nothing"}
  BY NoticeType DEF Whats
<1>5. Overdue(a) => what = IF AllowTimedOut THEN "nothing" ELSE "submitted"
  <2>1. Overdue(a) => c.status = IF AllowTimedOut THEN "timed_out" ELSE "submitted"
    BY <1>1, <1>3, EndedIs
  <2> QED BY <2>1 DEF Notice
<1>6. ~ Overdue(a) => what = "nothing"
  OBVIOUS
<1> HIDE DEF d1, what, c
<1>7. run \in Runs /\ run.db = d1
  BY <1>1, <1>2, <1>3, <1>4, TellType
<1>8. ASSUME NEW j \in Slots, NEW o \in Attempt, NEW s0
      PROVE  KeepsAt(run, d, j, o, s0)
  <2>1. CASE j # i
    BY <1>1, <1>2, <1>3, <1>4, <2>1, TellOthers
  <2>2. CASE j = i
    <3>1. ASSUME NEW t \in Ledger, Fits(a, t, o, s0)
          PROVE  /\ Says(d1, i, what) =>
                      \A u \in Answers(what, t, s0) \cup Raises(what, t, s0) :
                        Fits(c, u, o, s0)
                 /\ ~ Says(d1, i, what) => Fits(c, t, o, s0)
      <4> HIDE DEF a
      <4>0. Says(d1, i, what) <=> what # "nothing" /\ c.registered
        BY DEF Says, c
      <4>1. CASE ~ Overdue(a)
        BY <1>1, <1>6, <3>1, <4>0, <4>1
      <4>2. CASE Overdue(a)
        <5>1. /\ c \in Attempt /\ c.row = a.row /\ c.registered = a.registered
              /\ c.status = IF AllowTimedOut THEN "timed_out" ELSE "submitted"
              /\ c.started /\ c.expired /\ a.started
          BY <1>1, <1>3, <4>2, EndedIs DEF Overdue
        <5>2. CASE what # "nothing" /\ c.registered
          <6>1. what = c.status /\ c.status = "submitted"
            BY <1>5, <4>2, <5>1, <5>2
          <6> QED BY <1>3, <3>1, <4>0, <5>1, <5>2, <6>1, EndFits
        <5>3. CASE ~ (what # "nothing" /\ c.registered)
          <6>1. Silent(a, c, o)
            BY <1>5, <4>2, <5>1, <5>3
            DEF Silent, Incomplete, PreStarted, InProgress
          <6>2. Fits(c, t, o, s0)
            BY <1>3, <3>1, <5>1, <6>1, SilentFits
          <6> QED BY <4>0, <5>3, <6>2
        <5> QED BY <5>2, <5>3
      <4> QED BY <4>1, <4>2
    <3> QED BY <1>1, <1>2, <1>3, <1>4, <2>2, <3>1, TellKeeps DEF c, a
  <2> QED BY <2>1, <2>2
<1> QED
  BY <1>7, <1>8 DEF d1

-----------------------------------------------------------------------------
(* update_attempt_status.                                                  *)

Updates(a, b, c, to, new) ==
  /\ c \in Attempt /\ c.row = a.row
  /\ a.started => c.started
  /\ a.started /\ a.expired => c.expired
  /\ to = "declined" => ~ c.registered
  /\ to # "declined" => c.registered = a.registered
  /\ c.started => a.started \/ new = "started"
  /\ new = "started" => c.started
  /\ to # "declined" /\ Overdue(b) =>
       /\ c.status = (IF AllowTimedOut THEN "timed_out" ELSE "submitted")
       /\ c.started /\ c.expired /\ new \in Incomplete
  /\ ~ Overdue(b) => c.status = new
  /\ new \in Incomplete => a.status \in Incomplete

LEMMA UpdatedIs ==
  ASSUME NEW a \in Attempt, RowSound(Exam, a), NEW to \in ValidStatus,
         NEW instantly \in BOOLEAN,
         NEW new, new = EffectiveStatus(a.status, to, AllowTimedOut),
         IsLegal(a.status, new),
         NEW c, c = UpdatedRow(a, to, instantly),
         NEW b, b = Saved(a, to, FALSE, instantly)
  PROVE  Updates(a, b, c, to, new)
<1> USE DEF Updates
<1>1. /\ b \in Attempt /\ b.row = a.row /\ b.registered = a.registered
      /\ b.status = new
      /\ b.started <=> a.started \/ new = "started"
      /\ ~ (new = "started" /\ ~ a.started) => (b.expired <=> a.expired)
  <2>1. ASSUME NEW s \in BOOLEAN, NEW x, x = Saved(a, to, s, instantly)
        PROVE  /\ x \in Attempt /\ x.row = a.row /\ x.registered = a.registered
               /\ x.status = new
               /\ x.started <=> a.started \/ new = "started"
               /\ ~ (new = "started" /\ ~ a.started) => (x.expired <=> a.expired)
    BY <2>1, SavedIs
  <2> QED BY <2>1, Zenon
<1>2. new \in Incomplete => a.status \in Incomplete
  BY ExamIs DEF IsLegal, RowSound, ValidStatus, SatOnce
<1>3. CASE to = "declined"
  <2>1. c = Withdraw(b)
    BY <1>3 DEF UpdatedRow
  <2>2. /\ c \in Attempt /\ c.row = b.row /\ ~ c.registered /\ c.status = b.status
        /\ c.started = b.started /\ c.expired = b.expired
    BY <1>1, <2>1 DEF Withdraw, Attempt
  <2>3. new = "declined"
    BY <1>3 DEF EffectiveStatus, IsReattempting, PreStarted
  <2> QED BY <1>1, <1>2, <1>3, <2>2, <2>3
<1>4. CASE to # "declined" /\ Overdue(b)
  <2>1. c = Ended(b)
    BY <1>4 DEF UpdatedRow
  <2>2. /\ c \in Attempt /\ c.row = b.row /\ c.registered = b.registered
        /\ c.status = (IF AllowTimedOut THEN "timed_out" ELSE "submitted")
        /\ c.started /\ c.expired
    BY <1>1, <1>4, <2>1, EndedIs
  <2> QED BY <1>1, <1>2, <1>4, <2>2 DEF Overdue
<1>5. CASE to # "declined" /\ ~ Overdue(b)
  <2>1. c = b
    BY <1>5 DEF UpdatedRow
  <2> QED BY <1>1, <1>2, <1>5, <2>1
<1> QED
  BY <1>3, <1>4, <1>5

(* What it tells the service of the attempt: of its end, if the re-read    *)
(* has ended it, and of its new status.                                    *)
EndTold(a, to, instantly) ==
  IF Overdue(Saved(a, to, FALSE, instantly)) /\ ~ AllowTimedOut
  THEN "submitted" ELSE "nothing"

StatusTold(a, to) ==
  LET new == EffectiveStatus(a.status, to, AllowTimedOut)
  IN IF FirstStart(a, to) \/ new \in {"submitted", "error"} THEN new ELSE "nothing"

(* A row about which the service is told w1 and then w2, either nothing or *)
(* something, and only if the row is registered.                           *)
FitsTold(c, w1, w2, t, o, s0) ==
  /\ ~ c.registered \/ (w1 = "nothing" /\ w2 = "nothing") => Fits(c, t, o, s0)
  /\ c.registered /\ w1 # "nothing" =>
       \A u \in Answers(w1, t, s0) \cup Raises(w1, t, s0) : Fits(c, u, o, s0)
  /\ c.registered /\ w2 # "nothing" /\ w1 = "nothing" =>
       \A u \in Answers(w2, t, s0) \cup Raises(w2, t, s0) : Fits(c, u, o, s0)
  /\ c.registered /\ w2 # "nothing" /\ w1 # "nothing" =>
       \A u \in Answers(w1, t, s0) :
         \A v \in Answers(w2, u, s0) \cup Raises(w2, u, s0) : Fits(c, v, o, s0)

LEMMA UpdateFits ==
  ASSUME NEW a \in Attempt, RowSound(Exam, a), a.row = "live",
         NEW to \in ValidStatus, NEW instantly \in BOOLEAN,
         IsLegal(a.status, EffectiveStatus(a.status, to, AllowTimedOut)),
         NEW c, c = UpdatedRow(a, to, instantly),
         NEW w1, w1 = EndTold(a, to, instantly),
         NEW w2, w2 = StatusTold(a, to),
         NEW o \in Attempt, to = "declined" /\ a.registered => o.registered,
         NEW s0, NEW t \in Ledger, Fits(a, t, o, s0)
  PROVE  FitsTold(c, w1, w2, t, o, s0)
<1>a. PICK new : new = EffectiveStatus(a.status, to, AllowTimedOut)
  OBVIOUS
<1>b. PICK b : b = Saved(a, to, FALSE, instantly)
  OBVIOUS
<1>0. IsLegal(a.status, new)
  BY <1>a
<1>u. Updates(a, b, c, to, new)
  BY <1>a, <1>b, <1>0, UpdatedIs
<1>1. /\ c \in Attempt /\ c.row = a.row
      /\ a.started => c.started
      /\ a.started /\ a.expired => c.expired
      /\ to = "declined" => ~ c.registered
      /\ to # "declined" => c.registered = a.registered
      /\ c.started => a.started \/ new = "started"
      /\ new = "started" => c.started
      /\ to # "declined" /\ Overdue(b) =>
           /\ c.status = (IF AllowTimedOut THEN "timed_out" ELSE "submitted")
           /\ c.started /\ c.expired /\ new \in Incomplete
      /\ ~ Overdue(b) => c.status = new
      /\ new \in Incomplete => a.status \in Incomplete
  BY <1>u DEF Updates
<1>2. w1 = IF Overdue(b) /\ ~ AllowTimedOut THEN "submitted" ELSE "nothing"
  BY <1>b DEF EndTold
<1>3. w2 = IF (new = "started" /\ ~ a.started) \/ new \in {"submitted", "error"}
           THEN new ELSE "nothing"
  BY <1>a DEF StatusTold, FirstStart
<1>4. {"submitted", "error"} \cap Incomplete = {} /\ "timed_out" \notin Incomplete
  BY DEF Incomplete, PreStarted, InProgress
<1>5. ASSUME ~ c.registered \/ (w1 = "nothing" /\ w2 = "nothing")
      PROVE  Fits(c, t, o, s0)
  <2>1. CASE ~ c.registered
    <3>1. Silent(a, c, o)
      BY <1>1, <2>1 DEF Silent
    <3> QED BY <1>1, <3>1, SilentFits
  <2>2. CASE c.registered /\ w1 = "nothing" /\ w2 = "nothing"
    <3>1. to # "declined" /\ a.registered
      BY <1>1, <2>2
    <3>2. ~ (new = "started" /\ ~ a.started) /\ new \notin {"submitted", "error"}
      BY <1>3, <2>2
    <3>3. c.started => a.started
      BY <1>1, <3>2
    <3>4. c.status \notin {"submitted", "error"}
          /\ (c.status \in Incomplete => a.status \in Incomplete)
      <4>1. CASE Overdue(b)
        BY <1>1, <1>2, <1>4, <2>2, <3>1, <4>1
      <4>2. CASE ~ Overdue(b)
        BY <1>1, <3>2, <4>2
      <4> QED BY <4>1, <4>2
    <3>5. Silent(a, c, o)
      BY <1>1, <2>2, <3>1, <3>3, <3>4 DEF Silent
    <3> QED BY <1>1, <3>5, SilentFits
  <2> QED BY <1>5, <2>1, <2>2
<1>6. ASSUME c.registered, w1 # "nothing"
      PROVE  /\ to # "declined" /\ a.registered /\ w1 = "submitted"
             /\ c.status = "submitted" /\ c.started /\ c.expired
             /\ new \in Incomplete
  BY <1>1, <1>2, <1>6
<1>7. ASSUME c.registered, w1 # "nothing",
             NEW u \in Answers(w1, t, s0) \cup Raises(w1, t, s0)
      PROVE  Fits(c, u, o, s0)
  BY <1>1, <1>6, <1>7, EndFits
<1>8. ASSUME c.registered, w2 # "nothing", w1 = "nothing",
             NEW u \in Answers(w2, t, s0) \cup Raises(w2, t, s0)
      PROVE  Fits(c, u, o, s0)
  <2>1. to # "declined" /\ a.registered
    BY <1>1, <1>8
  <2>2. CASE new \in {"submitted", "error"}
    <3>1. c.status = new /\ w2 = new
      BY <1>1, <1>3, <1>4, <2>1, <2>2
    <3> QED BY <1>1, <1>8, <2>1, <2>2, <3>1, EndFits
  <2>3. CASE new \notin {"submitted", "error"}
    <3>1. new = "started" /\ ~ a.started /\ w2 = "started"
      BY <1>3, <1>8, <2>3
    <3>2. a.status \in Incomplete /\ c.started
      BY <1>1, <3>1 DEF Incomplete, InProgress
    <3>3. c.status \in {"started", "timed_out"}
      BY <1>1, <1>2, <1>8, <2>1, <3>1
    <3> QED BY <1>1, <1>8, <2>1, <3>1, <3>2, <3>3, StartFits
  <2> QED BY <2>2, <2>3
<1>9. ASSUME c.registered, w2 # "nothing", w1 # "nothing",
             NEW u \in Answers(w1, t, s0),
             NEW v \in Answers(w2, u, s0) \cup Raises(w2, u, s0)
      PROVE  Fits(c, v, o, s0)
  <2>1. /\ a.registered /\ w1 = "submitted" /\ c.status = "submitted"
        /\ c.started /\ c.expired /\ new \in Incomplete
    BY <1>6, <1>9
  <2>2. new = "started" /\ ~ a.started /\ w2 = "started"
    BY <1>3, <1>4, <1>9, <2>1
  <2>3. a.status \in Incomplete
    BY <1>1, <2>1
  <2> QED BY <1>1, <1>9, <2>1, <2>2, <2>3, InstantFits
<1> QED
  BY <1>5, <1>7, <1>8, <1>9 DEF FitsTold

(* The read for the time allowed.                                          *)
TimeRun(d, i, to) == IF FirstStart(Row(d, i), to) THEN TimeReading(d) ELSE Run(d)

LEMMA TimeReadingKeeps ==
  ASSUME NEW d \in Lines, NEW run, run = TimeReading(d)
  PROVE  /\ run \in Runs /\ run.db = AllowedTimeRead(d, Exam)
         /\ \A j \in Slots : \A o \in Attempt : \A s0 : KeepsAt(run, d, j, o, s0)
<1>1. CASE HasAttempt(d, Exam)
  <2>1. Latest(d, Exam) \in Live(d, Exam)
    BY <1>1, ExamIs, LatestIsLive
  <2>2. run = Reading(d, Latest(d, Exam))
    BY <1>1 DEF TimeReading
  <2>3. AllowedTimeRead(d, Exam) = Read(d, Exam, Latest(d, Exam))
    BY <1>1 DEF AllowedTimeRead
  <2> QED BY <2>1, <2>2, <2>3, ReadingKeeps
<1>2. CASE ~ HasAttempt(d, Exam)
  <2>1. run = Run(d) /\ AllowedTimeRead(d, Exam) = d
    BY <1>2 DEF TimeReading, AllowedTimeRead
  <2> QED BY <2>1, RunIs
<1> QED
  BY <1>1, <1>2

LEMMA TimeRunKeeps ==
  ASSUME NEW d \in Lines, NEW i, NEW to, NEW run, run = TimeRun(d, i, to)
  PROVE  /\ run \in Runs /\ run.db = TimeRead(d, i, to)
         /\ \A j \in Slots : \A o \in Attempt : \A s0 : KeepsAt(run, d, j, o, s0)
  BY RunIs, TimeReadingKeeps DEF TimeRun, TimeRead

(* The calls of a legal update, as those of three runs.                    *)
ThreeRuns(run, d1, i, w1, w2) ==
  Joined(run, Joined([db |-> d1, calls |-> Tell(d1, i, w1)],
                     [db |-> d1, calls |-> Tell(d1, i, w2)]))

(* Calls that follow those of a run may be joined first.                   *)
LEMMA CallsInOrder ==
  ASSUME NEW run \in Runs, NEW T \in Seq(Call), NEW U \in Seq(Call)
  PROVE  run.calls \o T \o U = run.calls \o (T \o U)
<1>1. PICK C \in Seq(Call) : C = run.calls
  BY DEF Runs
<1>2. C \o T \o U = C \o (T \o U)
  BY ConcatAssociative
<1> QED
  BY <1>1, <1>2

LEMMA UpdatingIs ==
  ASSUME NEW d \in Lines, NEW i \in Live(d, Exam), NEW to \in ValidStatus,
         NEW instantly \in BOOLEAN,
         IsLegal(Row(d, i).status, EffectiveStatus(Row(d, i).status, to, AllowTimedOut)),
         NEW d1, d1 = Update(d, Exam, i, to, instantly),
         NEW w1, w1 = EndTold(Row(d, i), to, instantly),
         NEW w2, w2 = StatusTold(Row(d, i), to)
  PROVE  Updating(d, i, to, instantly) =
           ThreeRuns(TimeRun(d, i, to), d1, i, w1, w2)
<1> USE DEF ThreeRuns
<1>a. PICK a : a = Row(d, i)
  OBVIOUS
<1>b. PICK b : b = Saved(a, to, FALSE, instantly)
  OBVIOUS
<1>c. PICK new : new = EffectiveStatus(a.status, to, AllowTimedOut)
  OBVIOUS
<1>r. PICK c : c = UpdatedRow(a, to, instantly)
  OBVIOUS
<1>1. /\ i \in Slots /\ a \in Attempt /\ RowSound(Exam, a)
  BY <1>a, LiveRow, RowType
<1>2. d1 \in Lines /\ Row(d1, i) = c
  <2>1. PICK d0 : d0 = TimeRead(d, i, to)
    OBVIOUS
  <2> QED BY <1>a, <1>r, <2>1, UpdateRow
<1>3. Updates(a, b, c, to, new)
  <2>1. IsLegal(a.status, new)
    BY <1>a, <1>c
  <2> QED BY <1>1, <1>b, <1>c, <1>r, <2>1, UpdatedIs
<1>4. TellEnd(b, d1, i) = Tell(d1, i, w1)
  <2>1. w1 = IF Overdue(b) /\ ~ AllowTimedOut THEN "submitted" ELSE "nothing"
    BY <1>a, <1>b DEF EndTold
  <2>2. CASE ~ c.registered \/ ~ Overdue(b)
    BY <1>2, <2>1, <2>2 DEF TellEnd, Tell, Row
  <2>3. CASE c.registered /\ Overdue(b)
    <3>1. d1.att[Exam][i].status = IF AllowTimedOut THEN "timed_out" ELSE "submitted"
      BY <1>2, <1>3, <2>3 DEF Updates, Row
    <3>2. w1 = Notice("timed_out", d1.att[Exam][i].status, FALSE)
      BY <2>1, <2>3, <3>1 DEF Notice
    <3> QED BY <2>3, <3>2 DEF TellEnd
  <2> QED BY <2>2, <2>3
<1>5. w2 = Notice(to, new, new = "started" /\ ~ a.started)
  BY <1>a, <1>c DEF StatusTold, FirstStart, Notice
<1>6. Updating(d, i, to, instantly) =
        [db |-> d1,
         calls |-> TimeRun(d, i, to).calls \o TellEnd(b, d1, i) \o Tell(d1, i, w2)]
  <2>1. TimeRun(d, i, to).calls =
          IF new = "started" /\ ~ a.started THEN TimeReading(d).calls ELSE << >>
    BY <1>a, <1>c DEF TimeRun, FirstStart, Run
  <2>2. IsLegal(a.status, new) /\ a = d.att[Exam][i]
    BY <1>a, <1>c DEF Row
  <2> QED BY <1>b, <1>c, <1>5, <2>1, <2>2 DEF Updating, UpdateTo
<1>7. PICK run : run = TimeRun(d, i, to)
  OBVIOUS
<1>8. run \in Runs
  BY <1>7, TimeRunKeeps
<1>9. /\ Tell(d1, i, w1) \in Seq(Call) /\ Tell(d1, i, w2) \in Seq(Call)
      /\ run.calls \in Seq(Call)
  <2>2. w1 \in Whats \cup {"nothing"} /\ w2 \in Whats \cup {"nothing"}
    BY <1>5, NoticeType DEF EndTold, Whats
  <2>3. ASSUME NEW w \in Whats \cup {"nothing"}, NEW x,
               x = [db |-> d1, calls |-> Tell(d1, i, w)]
        PROVE  x.calls \in Seq(Call) /\ x.calls = Tell(d1, i, w)
    BY <1>1, <1>2, <2>3, TellType DEF Runs
  <2> QED BY <1>8, <2>2, <2>3 DEF Runs
<1> DEFINE T == Tell(d1, i, w1)
           U == Tell(d1, i, w2)
           tail == Joined([db |-> d1, calls |-> T], [db |-> d1, calls |-> U])
<1>10. Updating(d, i, to, instantly) = [db |-> d1, calls |-> run.calls \o T \o U]
  BY <1>4, <1>6, <1>7
<1>t. T \in Seq(Call) /\ U \in Seq(Call)
  BY <1>9
<1> HIDE DEF T, U
<1>11. run.calls \o T \o U = run.calls \o (T \o U)
  BY <1>8, <1>t, CallsInOrder
<1>12. tail.db = d1 /\ tail.calls = T \o U
  BY DEF Joined
<1>13. Joined(run, tail) = [db |-> d1, calls |-> run.calls \o (T \o U)]
  <2> HIDE DEF tail
  <2> QED BY <1>12 DEF Joined
<1> QED
  BY <1>7, <1>10, <1>11, <1>13 DEF T, U

LEMMA UpdatingKeeps ==
  ASSUME NEW d \in Lines, NEW i \in Live(d, Exam), NEW to \in ValidStatus,
         NEW instantly \in BOOLEAN, NEW run, run = Updating(d, i, to, instantly)
  PROVE  /\ run \in Runs /\ run.db = Update(d, Exam, i, to, instantly)
         /\ \A j \in Slots : \A o \in Attempt : \A s0 :
              (j = i /\ to = "declined" /\ Row(d, i).registered => o.registered)
                => KeepsAt(run, d, j, o, s0)
<1>a. PICK a : a = Row(d, i)
  OBVIOUS
<1>b. PICK new : new = EffectiveStatus(a.status, to, AllowTimedOut)
  OBVIOUS
<1>1. CASE ~ IsLegal(a.status, new)
  <2>1. run = Run(d)
    BY <1>a, <1>b, <1>1 DEF Updating, UpdateTo, Row
  <2>2. Update(d, Exam, i, to, instantly) = d
    BY <1>a, <1>b, <1>1 DEF Update, Row
  <2> QED BY <2>1, <2>2, RunIs
<1>2. CASE IsLegal(a.status, new)
  <2>d. PICK d1 : d1 = Update(d, Exam, i, to, instantly)
    OBVIOUS
  <2>e. PICK d0 : d0 = TimeRead(d, i, to)
    OBVIOUS
  <2>c. PICK c : c = UpdatedRow(a, to, instantly)
    OBVIOUS
  <2>v. PICK w1 : w1 = EndTold(a, to, instantly)
    OBVIOUS
  <2>w. PICK w2 : w2 = StatusTold(a, to)
    OBVIOUS
  <2>t. PICK first : first = TimeRun(d, i, to)
    OBVIOUS
  <2>x. PICK r1 : r1 = [db |-> d1, calls |-> Tell(d1, i, w1)]
    OBVIOUS
  <2>y. PICK r2 : r2 = [db |-> d1, calls |-> Tell(d1, i, w2)]
    OBVIOUS
  <2>0. IsLegal(a.status, EffectiveStatus(a.status, to, AllowTimedOut))
    BY <1>b, <1>2
  <2>1. /\ i \in Slots /\ a \in Attempt /\ RowSound(Exam, a) /\ a.row = "live"
    BY <1>a, LiveRow, RowType
  <2>2. /\ d1 \in Lines /\ Row(d1, i) = c
        /\ \A j \in Slots : j # i => Row(d1, j) = Row(d0, j)
    BY <1>a, <1>b, <1>2, <2>d, <2>e, <2>c, UpdateRow
  <2>3. d0 \in Lines /\ Row(d0, i) = a
    BY <1>a, <2>e, TimeReadRow
  <2>4. /\ first \in Runs /\ first.db = d0
        /\ \A j \in Slots : \A o \in Attempt : \A s0 : KeepsAt(first, d, j, o, s0)
    BY <2>e, <2>t, TimeRunKeeps
  <2>5. w1 \in Whats \cup {"nothing"} /\ w2 \in Whats \cup {"nothing"}
    BY <2>v, <2>w DEF EndTold, StatusTold, FirstStart, Whats
  <2>6. /\ r1 \in Runs /\ r1.db = d1 /\ r2 \in Runs /\ r2.db = d1
        /\ r1.calls = Tell(d1, i, w1) /\ r2.calls = Tell(d1, i, w2)
    BY <2>1, <2>2, <2>5, <2>x, <2>y, TellType
  <2>7. run = Joined(first, Joined(r1, r2))
    <3>1. IsLegal(Row(d, i).status,
                  EffectiveStatus(Row(d, i).status, to, AllowTimedOut))
      BY <1>a, <2>0
    <3>2. w1 = EndTold(Row(d, i), to, instantly)
      BY <1>a, <2>v
    <3>3. w2 = StatusTold(Row(d, i), to)
      BY <1>a, <2>w
    <3>4. run = Joined(TimeRun(d, i, to),
                       Joined([db |-> d1, calls |-> Tell(d1, i, w1)],
                              [db |-> d1, calls |-> Tell(d1, i, w2)]))
      <4>1. Updating(d, i, to, instantly)
              = ThreeRuns(TimeRun(d, i, to), d1, i, w1, w2)
        BY <2>d, <3>1, <3>2, <3>3, UpdatingIs
      <4> QED BY <4>1 DEF ThreeRuns
    <3> QED BY <2>t, <2>x, <2>y, <3>4
  <2>8. Joined(r1, r2) \in Runs /\ Joined(r1, r2).db = d1
    BY <2>6, JoinedRuns
  <2>9. run \in Runs /\ run.db = d1
    <3>1. PICK rest : rest = Joined(r1, r2)
      OBVIOUS
    <3>2. rest \in Runs /\ rest.db = d1
      BY <2>8, <3>1
    <3>3. Joined(first, rest) \in Runs /\ Joined(first, rest).db = rest.db
      BY <2>4, <3>2, JoinedRuns
    <3>4. run = Joined(first, rest)
      BY <2>7, <3>1
    <3> QED BY <3>2, <3>3, <3>4
  <2>10. ASSUME NEW j \in Slots, NEW o \in Attempt, NEW s0,
                j = i /\ to = "declined" /\ Row(d, i).registered => o.registered
         PROVE  KeepsAt(Joined(r1, r2), d0, j, o, s0)
    <3>1. CASE j # i
      <4>1. KeepsAt(r1, d0, j, o, s0) /\ KeepsAt(r2, d1, j, o, s0)
        BY <2>1, <2>2, <2>5, <2>x, <2>y, <3>1, TellOthers
      <4> QED BY <2>6, <4>1, JoinedKeeps
    <3>2. CASE j = i
      <4>1. to = "declined" /\ a.registered => o.registered
        BY <1>a, <2>10, <3>2
      <4>2. ASSUME NEW t \in Ledger, Fits(a, t, o, s0)
            PROVE  /\ ~ c.registered \/ (w1 = "nothing" /\ w2 = "nothing") => Fits(c, t, o, s0)
                   /\ c.registered /\ w1 # "nothing" =>
                        \A u \in Answers(w1, t, s0) \cup Raises(w1, t, s0) : Fits(c, u, o, s0)
                   /\ c.registered /\ w2 # "nothing" /\ w1 = "nothing" =>
                        \A u \in Answers(w2, t, s0) \cup Raises(w2, t, s0) : Fits(c, u, o, s0)
                   /\ c.registered /\ w2 # "nothing" /\ w1 # "nothing" =>
                        \A u \in Answers(w1, t, s0) :
                          \A v \in Answers(w2, u, s0) \cup Raises(w2, u, s0) : Fits(c, v, o, s0)
        <5>1. FitsTold(c, w1, w2, t, o, s0)
          BY <2>0, <2>1, <2>c, <2>v, <2>w, <4>1, <4>2, UpdateFits
        <5> QED BY <5>1 DEF FitsTold
      <4>3. /\ Says(d1, i, w1) <=> w1 # "nothing" /\ c.registered
            /\ Says(d1, i, w2) <=> w2 # "nothing" /\ c.registered
        BY <2>2 DEF Says
      <4>4. CASE ~ Says(d1, i, w1)
        <5>1. Joined(r1, r2) = r2
          <6>1. r1.calls = << >>
            BY <2>1, <2>2, <2>5, <2>x, <4>4, TellType
          <6>2. r2 = [db |-> d1, calls |-> r2.calls] /\ r2.calls \in Seq(Call)
            BY <2>6, <2>y DEF Runs
          <6> QED BY <2>6, <6>1, <6>2 DEF Joined
        <5>2. ASSUME NEW t \in Ledger, Fits(Row(d0, i), t, o, s0)
              PROVE  /\ Says(d1, i, w2) =>
                          \A u \in Answers(w2, t, s0) \cup Raises(w2, t, s0) :
                            Fits(Row(d1, i), u, o, s0)
                     /\ ~ Says(d1, i, w2) => Fits(Row(d1, i), t, o, s0)
          BY <2>2, <2>3, <4>2, <4>3, <4>4, <5>2
        <5>3. KeepsAt(r2, d0, i, o, s0)
          BY <2>1, <2>2, <2>5, <2>y, <5>2, TellKeeps
        <5> QED BY <3>2, <5>1, <5>3
      <4>5. CASE Says(d1, i, w1) /\ ~ Says(d1, i, w2)
        <5>1. Joined(r1, r2) = r1
          <6>1. r2.calls = << >>
            BY <2>1, <2>2, <2>5, <2>y, <4>5, TellType
          <6>2. r1 = [db |-> d1, calls |-> r1.calls] /\ r1.calls \in Seq(Call)
            BY <2>6, <2>x DEF Runs
          <6> QED BY <2>6, <6>1, <6>2 DEF Joined
        <5>2. ASSUME NEW t \in Ledger, Fits(Row(d0, i), t, o, s0)
              PROVE  /\ Says(d1, i, w1) =>
                          \A u \in Answers(w1, t, s0) \cup Raises(w1, t, s0) :
                            Fits(Row(d1, i), u, o, s0)
                     /\ ~ Says(d1, i, w1) => Fits(Row(d1, i), t, o, s0)
          BY <2>2, <2>3, <4>2, <4>3, <4>5, <5>2
        <5>3. KeepsAt(r1, d0, i, o, s0)
          BY <2>1, <2>2, <2>5, <2>x, <5>2, TellKeeps
        <5> QED BY <3>2, <5>1, <5>3
      <4>6. CASE Says(d1, i, w1) /\ Says(d1, i, w2)
        <5> DEFINE c1 == OneCall(d1, i, w1)
                   c2 == OneCall(d1, i, w2)
        <5>1. /\ c1 \in Call /\ c1.att = i /\ c1.what = w1 /\ c1.db = d1
              /\ c2 \in Call /\ c2.att = i /\ c2.what = w2 /\ c2.db = d1
              /\ r1.calls = <<c1>> /\ r2.calls = <<c2>>
          <6>1. c1 \in Call /\ r1.calls = <<c1>>
            BY <2>1, <2>2, <2>5, <2>x, <4>6, TellCall
          <6>2. c2 \in Call /\ r2.calls = <<c2>>
            <7>1. w2 \in Whats \cup {"nothing"} /\ Says(d1, i, w2)
              BY <2>5, <4>6
            <7> HIDE DEF c1, c2
            <7> QED BY <2>1, <2>2, <2>y, <7>1, TellCall DEF c2
          <6> QED BY <6>1, <6>2 DEF OneCall
        <5> HIDE DEF c1, c2
        <5>2. /\ Len(Joined(r1, r2).calls) = 2
              /\ Joined(r1, r2).calls[1] = c1 /\ Joined(r1, r2).calls[2] = c2
          <6>1. /\ Len(r1.calls) = 1 /\ Len(r2.calls) = 1
                /\ r1.calls[1] = c1 /\ r2.calls[1] = c2
            BY <5>1
          <6>2. /\ Len(Joined(r1, r2).calls) = Len(r1.calls) + Len(r2.calls)
                /\ \A k \in 1 .. Len(r1.calls) : Joined(r1, r2).calls[k] = r1.calls[k]
                /\ \A k \in 1 .. Len(r2.calls) :
                     Joined(r1, r2).calls[Len(r1.calls) + k] = r2.calls[k]
            BY <2>6, JoinedRuns
          <6> QED BY <6>1, <6>2
        <5>3. ASSUME NEW t \in Ledger, Fits(Row(d0, i), t, o, s0)
              PROVE  /\ \A u \in Raised(c1, i, s0, t) : Fits(Row(c1.db, i), u, o, s0)
                     /\ \A u \in Answered(c1, i, s0, t) :
                          /\ \A v \in Answered(c2, i, s0, u) :
                               Fits(Row(Joined(r1, r2).db, i), v, o, s0)
                          /\ \A v \in Raised(c2, i, s0, u) : Fits(Row(c2.db, i), v, o, s0)
          BY <2>2, <2>3, <2>8, <4>2, <4>3, <4>6, <5>1, <5>3 DEF Answered, Raised
        <5>4. KeepsAt(Joined(r1, r2), d0, i, o, s0)
          BY <2>1, <2>8, <5>1, <5>2, <5>3, TwoCallsKeep
        <5> QED BY <3>2, <5>4
      <4> QED BY <4>4, <4>5, <4>6
    <3> QED BY <3>1, <3>2
  <2>11. ASSUME NEW j \in Slots, NEW o \in Attempt, NEW s0,
                j = i /\ to = "declined" /\ Row(d, i).registered => o.registered
         PROVE  KeepsAt(run, d, j, o, s0)
    <3>1. KeepsAt(first, d, j, o, s0) /\ KeepsAt(Joined(r1, r2), first.db, j, o, s0)
      BY <2>4, <2>10, <2>11
    <3> QED BY <2>4, <2>7, <2>8, <3>1, JoinedKeeps
  <2> QED BY <2>9, <2>11, <2>d
<1> QED
  BY <1>1, <1>2

-----------------------------------------------------------------------------
(* The handlers.                                                           *)

LEMMA StartingKeeps ==
  ASSUME NEW d \in Lines, NEW instantly \in BOOLEAN,
         NEW run, run = Starting(d, instantly)
  PROVE  /\ run \in Runs
         /\ \A j \in Slots : \A o \in Attempt : \A s0 : KeepsAt(run, d, j, o, s0)
<1>1. "started" \in ValidStatus
  BY DEF ValidStatus, Incomplete, InProgress
<1>2. CASE ~ HasAttempt(d, Exam) \/ run = Run(d)
  <2>1. run = Run(d)
    BY <1>2 DEF Starting
  <2> QED BY <2>1, RunIs
<1>3. CASE HasAttempt(d, Exam) /\ run # Run(d)
  <2>1. Latest(d, Exam) \in Live(d, Exam)
    BY <1>3, ExamIs, LatestIsLive
  <2>2. run = Updating(d, Latest(d, Exam), "started", instantly)
    BY <1>3 DEF Starting
  <2> QED BY <1>1, <2>1, <2>2, UpdatingKeeps
<1> QED
  BY <1>2, <1>3

(* A request that reads an attempt and goes on from there.                 *)
LEMMA FoundRow ==
  ASSUME NEW d \in Lines, NEW i \in Live(d, Exam), NEW d1, d1 = Read(d, Exam, i)
  PROVE  /\ d1 \in Lines /\ i \in Live(d1, Exam) /\ i \in Slots
         /\ Row(d, i) \in Attempt /\ Row(d1, i) \in Attempt
         /\ Row(d1, i).registered = Row(d, i).registered
         /\ Row(d1, i).started => Row(d, i).started
         /\ \A j \in Slots : j # i => Row(d1, j) = Row(d, j)
<1>1. /\ d1 \in Lines /\ Live(d1, Exam) = Live(d, Exam)
      /\ Row(d1, i) = (IF Overdue(Row(d, i)) THEN Ended(Row(d, i)) ELSE Row(d, i))
      /\ \A j \in Slots : j # i => Row(d1, j) = Row(d, j)
  BY ReadRow
<1>2. i \in Slots
  BY LiveRow
<1>3. Row(d, i) \in Attempt /\ Row(d1, i) \in Attempt
  BY <1>1, <1>2, RowType
<1>4. Overdue(Row(d, i)) =>
        Row(d, i).started /\ Ended(Row(d, i)).registered = Row(d, i).registered
  BY <1>3, EndedIs DEF Overdue
<1> QED
  BY <1>1, <1>2, <1>3, <1>4

LEMMA ServedKeeps ==
  ASSUME NEW d \in Lines, NEW i \in Live(d, Exam), NEW next \in Runs,
         \A j \in Slots : \A s0 :
           KeepsAt(next, Read(d, Exam, i), j, Row(d, j), s0)
  PROVE  Keeps(Joined(Reading(d, i), next), d)
<1>1. PICK run : run = Reading(d, i)
  OBVIOUS
<1>2. /\ run \in Runs /\ run.db = Read(d, Exam, i)
      /\ \A j \in Slots : \A o \in Attempt : \A s0 : KeepsAt(run, d, j, o, s0)
  BY <1>1, ReadingKeeps
<1>3. \A j \in Slots : Row(d, j) \in Attempt
  BY RowType
<1>4. \A j \in Slots : \A s0 : KeepsAt(Joined(run, next), d, j, Row(d, j), s0)
  BY <1>2, <1>3, JoinedKeeps
<1>5. Joined(run, next) \in Runs
  BY <1>2, JoinedRuns
<1> QED
  BY <1>1, <1>4, <1>5 DEF Keeps

LEMMA ServedUpdateKeeps ==
  ASSUME NEW d \in Lines, NEW i \in Live(d, Exam), NEW to \in ValidStatus,
         NEW instantly \in BOOLEAN, NEW next,
         next = Updating(Read(d, Exam, i), i, to, instantly)
  PROVE  Keeps(Joined(Reading(d, i), next), d)
<1>1. PICK d1 : d1 = Read(d, Exam, i)
  OBVIOUS
<1>2. /\ d1 \in Lines /\ i \in Live(d1, Exam) /\ i \in Slots
      /\ Row(d1, i).registered = Row(d, i).registered
  BY <1>1, FoundRow
<1>3. next = Updating(d1, i, to, instantly)
  BY <1>1
<1>4. /\ next \in Runs
      /\ \A j \in Slots : \A o \in Attempt : \A s0 :
           (j = i /\ to = "declined" /\ Row(d1, i).registered => o.registered)
             => KeepsAt(next, d1, j, o, s0)
  BY <1>2, <1>3, UpdatingKeeps
<1>5. \A j \in Slots : Row(d, j) \in Attempt
  BY RowType
<1>6. ASSUME NEW j \in Slots, NEW s0
      PROVE  KeepsAt(next, d1, j, Row(d, j), s0)
  BY <1>2, <1>4, <1>5
<1> QED
  BY <1>1, <1>4, <1>6, ServedKeeps

LEMMA ServedQuietKeeps ==
  ASSUME NEW d \in Lines, NEW i \in Live(d, Exam)
  PROVE  Keeps(Joined(Reading(d, i), Run(Read(d, Exam, i))), d)
<1>1. Read(d, Exam, i) \in Lines
  BY FoundRow
<1> QED
  BY <1>1, RunIs, ServedKeeps

(* A row is written that the invariant sees no difference in.              *)
LEMMA SameLine ==
  ASSUME NEW d \in Lines, NEW i \in Live(d, Exam), NEW a, a = Row(d, i),
         NEW row, RowSound(Exam, row), row.row = a.row, row.status = a.status,
         a.resumed => row.resumed,
         NEW d1, d1 = WithRow(d, Exam, i, row)
  PROVE  /\ d1 \in Lines /\ Row(d1, i) = row /\ Live(d1, Exam) = Live(d, Exam)
         /\ \A j \in Slots : j # i => Row(d1, j) = Row(d, j)
<1>1. InLine(d) /\ Sound(d) /\ i \in Slots
  BY LineIs DEF Lines, Live
<1>2. /\ Sound(d1)
      /\ \A f \in Exams, j \in Slots :
           d1.att[f][j] = IF f = Exam /\ j = i THEN row ELSE d.att[f][j]
  BY <1>1, ExamIs, WriteRowSound
<1>3. d1.credit = d.credit
  BY <1>1 DEF WithRow, Sound, Database
<1>4. /\ \A j \in Slots : Row(d1, j) = IF j = i THEN row ELSE Row(d, j)
      /\ \A f \in Exams : f = Exam
  BY <1>2, ExamIs DEF Row
<1>5. UsedInOrder(d1)
  BY <1>1, <1>4 DEF InLine, UsedInOrder, Row
<1>6. Live(d1, Exam) = Live(d, Exam)
  BY <1>4 DEF Live, Row
<1>7. Superseded(d1)
  <2>1. ASSUME NEW k \in Live(d, Exam), NEW j \in Live(d, Exam), k < j
        PROVE  Row(d1, k).resumed
    <3>1. Row(d, k).resumed
      BY <1>1, <2>1, ExamIs DEF InLine, Superseded, Row
    <3>2. k \in Slots
      BY LiveRow
    <3> QED BY <1>4, <3>1, <3>2
  <2>2. \A e \in SatOnce : e = Exam
    BY ExamIs DEF SatOnce
  <2> QED BY <1>6, <2>1, <2>2 DEF Superseded, Row
<1>8. CreditHonest(d1)
  <2>1. \A S : HasStatus(d1, Exam, S) = HasStatus(d, Exam, S)
    BY <1>4, <1>6, LiveRow DEF HasStatus, Row
  <2>2. \A e \in SatOnce : e = Exam
    BY ExamIs DEF SatOnce
  <2> HIDE DEF NeedsCreditUpdate
  <2> QED BY <1>1, <1>3, <2>1, <2>2 DEF InLine, CreditHonest
<1>9. d1 \in Lines
  BY <1>2, <1>5, <1>7, <1>8, LineIs DEF InLine
<1> QED
  BY <1>1, <1>4, <1>6, <1>9

LEMMA SilentKeeps ==
  ASSUME NEW d \in Lines, NEW i \in Slots, NEW run \in Runs, run.calls = << >>,
         \A j \in Slots : j # i => Row(run.db, j) = Row(d, j),
         NEW o \in Attempt, Silent(Row(d, i), Row(run.db, i), o),
         NEW j \in Slots, NEW p \in Attempt, j = i => p = o, NEW s0
  PROVE  KeepsAt(run, d, j, p, s0)
<1>1. CASE j # i
  BY <1>1, QuietKeeps
<1>2. CASE j = i
  <2>1. Row(d, i) \in Attempt /\ Row(run.db, i) \in Attempt
    BY RowType DEF Runs
  <2>2. \A t \in Ledger : Fits(Row(d, i), t, o, s0) => Fits(Row(run.db, i), t, o, s0)
    BY <2>1, SilentFits
  <2> QED BY <1>2, <2>2, QuietKeeps
<1> QED
  BY <1>1, <1>2

(* An attempt that was interrupted is released.                            *)
LEMMA ReleasingKeeps ==
  ASSUME NEW d \in Lines, NEW i \in Live(d, Exam),
         NEW d1, d1 = Read(d, Exam, i),
         NEW d2, d2 = [d1 EXCEPT !.att[Exam][i] =
                         IF @.resumable
                         THEN [@ EXCEPT !.ready = TRUE, !.resumable = FALSE] ELSE @]
  PROVE  Keeps(Joined(Reading(d, i), Run(d2)), d)
<1>a. PICK a : a = Row(d1, i)
  OBVIOUS
<1>1. /\ d1 \in Lines /\ i \in Live(d1, Exam) /\ i \in Slots
      /\ a \in Attempt /\ RowSound(Exam, a)
  BY <1>a, FoundRow, RowType
<1>2. PICK row : row = IF a.resumable
                       THEN [a EXCEPT !.ready = TRUE, !.resumable = FALSE] ELSE a
  OBVIOUS
<1>3. RowSound(Exam, row)
  BY <1>1, <1>2 DEF RowSound, Attempt, InResumeProcess
<1>4. /\ row.row = a.row /\ row.status = a.status /\ row.resumed = a.resumed
      /\ row.started = a.started /\ row.expired = a.expired
      /\ row.registered = a.registered
  BY <1>1, <1>2 DEF Attempt
<1>5. d2 = WithRow(d1, Exam, i, row)
  BY <1>a, <1>2 DEF WithRow, Row
<1>6. /\ d2 \in Lines /\ Row(d2, i) = row
      /\ \A j \in Slots : j # i => Row(d2, j) = Row(d1, j)
  BY <1>a, <1>1, <1>3, <1>4, <1>5, SameLine
<1>7. Run(d2) \in Runs /\ Run(d2).db = d2 /\ Run(d2).calls = << >>
  BY <1>6, RunIs
<1>8. \A o : Silent(a, row, o)
  BY <1>4 DEF Silent
<1>9. \A j \in Slots : \A s0 : KeepsAt(Run(d2), d1, j, Row(d, j), s0)
  <2>1. \A j \in Slots : Row(d, j) \in Attempt
    BY RowType
  <2>2. ASSUME NEW j \in Slots, NEW s0
        PROVE  KeepsAt(Run(d2), d1, j, Row(d, j), s0)
    <3>1. Silent(Row(d1, i), Row(Run(d2).db, i), Row(d, i))
      BY <1>a, <1>6, <1>7, <1>8
    <3>2. PICK run : run = Run(d2)
      OBVIOUS
    <3>3. /\ run \in Runs /\ run.calls = << >>
          /\ \A k \in Slots : k # i => Row(run.db, k) = Row(d1, k)
          /\ Silent(Row(d1, i), Row(run.db, i), Row(d, i))
      BY <1>6, <1>7, <3>1, <3>2
    <3>4. KeepsAt(run, d1, j, Row(d, j), s0)
      BY <1>1, <2>1, <3>3, SilentKeeps
    <3> QED BY <3>2, <3>4
  <2> QED BY <2>2
<1> QED
  BY <1>7, <1>9, ServedKeeps

(* An attempt is removed, when the service has been told.                  *)
LEMMA RemovalKeeps ==
  ASSUME NEW d \in Lines, NEW i \in Live(d, Exam), NEW d1 \in Lines,
         Row(d1, i) = Archived, \A j \in Slots : j # i => Row(d1, j) = Row(d, j),
         NEW run, run = [db |-> d1, calls |-> Tell(d, i, "deleted")]
  PROVE  /\ run \in Runs /\ run.db = d1
         /\ \A j \in Slots : \A o \in Attempt : \A s0 :
              (j = i => /\ Row(d, i).started => o.started
                        /\ o.registered => Row(d, i).registered)
                => KeepsAt(run, d, j, o, s0)
<1>a. PICK a : a = Row(d, i)
  OBVIOUS
<1>1. i \in Slots /\ a \in Attempt /\ a.row = "live"
  BY <1>a, LiveRow, RowType
<1>2. CASE ~ a.registered
  <2>1. run = [db |-> d1, calls |-> << >>]
    BY <1>a, <1>2 DEF Tell, Row
  <2>2. run \in Runs /\ run.db = d1 /\ run.calls = << >>
    BY <2>1, ShortRuns
  <2>3. ASSUME NEW j \in Slots, NEW o \in Attempt, NEW s0,
               j = i => (a.started => o.started) /\ (o.registered => a.registered)
        PROVE  KeepsAt(run, d, j, o, s0)
    <3>1. \A t \in Ledger : Fits(Row(d, j), t, o, s0) => Fits(Row(run.db, j), t, o, s0)
      <4>1. CASE j # i
        BY <2>2, <4>1
      <4>2. CASE j = i
        BY <1>a, <1>1, <1>2, <2>2, <2>3, <4>2, UnknownRemovalFits
      <4> QED BY <4>1, <4>2
    <3> QED BY <2>2, <3>1, QuietKeeps
  <2> QED BY <1>a, <2>2, <2>3
<1>3. CASE a.registered
  <2> DEFINE c == OneCall(d, i, "deleted")
  <2>1. c \in Call /\ c.att = i /\ c.what = "deleted" /\ c.db = d
    BY <1>1 DEF OneCall, Call, Whats
  <2>2. run = [db |-> d1, calls |-> <<c>>]
    BY <1>a, <1>3 DEF Tell, Row, OneCall
  <2> HIDE DEF c
  <2>3. run \in Runs /\ run.db = d1 /\ run.calls = <<c>>
    <3>1. run \in Runs
      BY <2>1, <2>2, ShortRuns
    <3>2. run.db = d1 /\ run.calls = <<c>>
      BY <2>2
    <3> QED BY <3>1, <3>2
  <2>4. ASSUME NEW j \in Slots, NEW o \in Attempt, NEW s0,
               j = i => (a.started => o.started) /\ (o.registered => a.registered)
        PROVE  KeepsAt(run, d, j, o, s0)
    <3>1. ASSUME NEW t \in Ledger, Fits(Row(d, j), t, o, s0)
          PROVE  /\ \A u \in Answered(c, j, s0, t) : Fits(Row(run.db, j), u, o, s0)
                 /\ \A u \in Raised(c, j, s0, t) : Fits(Row(c.db, j), u, o, s0)
      <4>1. CASE j # i
        BY <2>1, <2>3, <3>1, <4>1 DEF Answered, Raised
      <4>2. CASE j = i
        <5>1. /\ \A u \in Answers("deleted", t, s0) : Fits(Archived, u, o, s0)
              /\ \A u \in Raises("deleted", t, s0) : Fits(a, u, o, s0)
          BY <1>a, <1>1, <1>3, <2>4, <3>1, <4>2, RemovalFits
        <5> QED BY <1>a, <2>1, <2>3, <4>2, <5>1 DEF Answered, Raised
      <4> QED BY <4>1, <4>2
    <3> QED BY <2>1, <2>3, <3>1, OneCallKeeps
  <2> QED BY <1>a, <2>3, <2>4
<1> QED
  BY <1>2, <1>3

LEMMA RemovedRow ==
  ASSUME NEW d \in Lines, NEW i \in Live(d, Exam),
         NEW d1, d1 = Removed(d, Exam, i) \/ d1 = WithRow(d, Exam, i, Archived)
  PROVE  /\ d1 \in Lines /\ Row(d1, i) = Archived
         /\ \A j \in Slots : j # i => Row(d1, j) = Row(d, j)
<1>1. InLine(d) /\ Honest(d) /\ Sound(d) /\ i \in Slots /\ d \in Database
  BY LineIs DEF Lines, Live
<1>2. CASE d1 = Removed(d, Exam, i)
  <2>1. Goes(d, d1, "timed_out")
    BY <1>1, <1>2, ExamIs, RemovedDoes
  <2>2. d1 \in Lines
    BY <1>1, <2>1, MovedKeepsLine, LineIs
  <2>3. \A j \in Slots : Row(d1, j) = IF j = i THEN Archived ELSE Row(d, j)
    BY <1>1, <1>2, ExamIs DEF Removed, Row, Database
  <2> QED BY <1>1, <2>2, <2>3
<1>3. CASE d1 = WithRow(d, Exam, i, Archived)
  <2>1. RowSound(Exam, Archived)
    BY UnusedRowsSound, ExamIs
  <2>2. RowMove(Exam, d.att[Exam][i], Archived, "timed_out")
    <3>1. d.att[Exam][i].row # "unused"
      BY DEF Live
    <3> QED BY <3>1, RowMoveSimple
  <2>3. Goes(d, d1, "timed_out")
    BY <1>1, <1>3, <2>1, <2>2, ExamIs, ArchiveDoes
  <2>4. d1 \in Lines
    BY <1>1, <2>3, MovedKeepsLine, LineIs
  <2>5. \A j \in Slots : Row(d1, j) = IF j = i THEN Archived ELSE Row(d, j)
    BY <1>1, <1>3, <2>1, ExamIs, WriteRowSound DEF Row
  <2> QED BY <1>1, <2>4, <2>5
<1> QED
  BY <1>2, <1>3

LEMMA RemovingKeeps ==
  ASSUME NEW d \in Lines, NEW i \in Live(d, Exam), NEW run, run = Removing(d, i)
  PROVE  /\ run \in Runs /\ run.db = Removed(d, Exam, i)
         /\ \A j \in Slots : \A o \in Attempt : \A s0 :
              (j = i => /\ Row(d, i).started => o.started
                        /\ o.registered => Row(d, i).registered)
                => KeepsAt(run, d, j, o, s0)
<1>1. PICK d1 : d1 = Removed(d, Exam, i)
  OBVIOUS
<1>2. /\ d1 \in Lines /\ Row(d1, i) = Archived
      /\ \A j \in Slots : j # i => Row(d1, j) = Row(d, j)
  BY <1>1, RemovedRow
<1>3. run = [db |-> d1, calls |-> Tell(d, i, "deleted")]
  BY <1>1 DEF Removing
<1> QED
  BY <1>1, <1>2, <1>3, RemovalKeeps

LEMMA DeletingKeeps ==
  ASSUME NEW d \in Lines, NEW i \in Live(d, Exam),
         NEW d1, d1 = Read(d, Exam, i)
  PROVE  Keeps(Joined(Reading(d, i), Removing(d1, i)), d)
<1>1. /\ d1 \in Lines /\ i \in Live(d1, Exam) /\ i \in Slots
      /\ Row(d1, i).registered = Row(d, i).registered
      /\ Row(d1, i).started => Row(d, i).started
  BY FoundRow
<1>2. \A j \in Slots : Row(d, j) \in Attempt
  BY RowType
<1>3. PICK next : next = Removing(d1, i)
  OBVIOUS
<1>4. /\ next \in Runs
      /\ \A j \in Slots : \A o \in Attempt : \A s0 :
           (j = i => /\ Row(d1, i).started => o.started
                     /\ o.registered => Row(d1, i).registered)
             => KeepsAt(next, d1, j, o, s0)
  BY <1>1, <1>3, RemovingKeeps
<1>5. \A j \in Slots : \A s0 : KeepsAt(next, d1, j, Row(d, j), s0)
  BY <1>1, <1>2, <1>4
<1> QED
  BY <1>3, <1>4, <1>5, ServedKeeps

LEMMA DeletingRawKeeps ==
  ASSUME NEW d \in Lines, NEW i \in Live(d, Exam)
  PROVE  Keeps([db    |-> [d EXCEPT !.att[Exam][i] = Archived],
                calls |-> Tell(d, i, "deleted")], d)
<1>1. PICK d1 : d1 = [d EXCEPT !.att[Exam][i] = Archived]
  OBVIOUS
<1>2. /\ d1 \in Lines /\ Row(d1, i) = Archived
      /\ \A j \in Slots : j # i => Row(d1, j) = Row(d, j)
  <2>1. d1 = WithRow(d, Exam, i, Archived)
    BY <1>1 DEF WithRow
  <2> QED BY <2>1, RemovedRow
<1>3. PICK run : run = [db |-> d1, calls |-> Tell(d, i, "deleted")]
  OBVIOUS
<1>4. /\ run \in Runs
      /\ \A j \in Slots : \A o \in Attempt : \A s0 :
           (j = i => /\ Row(d, i).started => o.started
                     /\ o.registered => Row(d, i).registered)
             => KeepsAt(run, d, j, o, s0)
  BY <1>2, <1>3, RemovalKeeps
<1>5. Keeps(run, d)
  BY <1>4, RowType DEF Keeps
<1> QED
  BY <1>1, <1>3, <1>5

(* A new attempt, and its registration.                                    *)
LEMMA NewRow ==
  ASSUME NEW d \in Lines, Unused(d, Exam) # {},
         NEW status, CanHave(Exam, status), status # "error",
         NEW proctored \in BOOLEAN, NEW s, s = FreshSlot(d, Exam),
         NEW d1, d1 = NewAttempt(d, Exam, status, proctored)
  PROVE  /\ s \in Slots /\ Row(d, s).row = "unused"
         /\ Row(d1, s).row = "live" /\ Row(d1, s).status = status
         /\ Row(d1, s).registered <=> proctored /\ status = "created"
         /\ ~ Row(d1, s).started
         /\ \A j \in Slots : j # s => Row(d1, j) = Row(d, j)
<1> DEFINE row == [NoRow EXCEPT
                     !.row = "live", !.status = status, !.proctored = proctored,
                     !.registered = proctored /\ status = "created"]
<1>1. s \in Slots /\ Row(d, s).row = "unused"
  BY FreshIsFirst DEF Unused, Row
<1>2. d1 = WithRow(d, Exam, s, row)
  BY DEF NewAttempt, WithRow
<1>3. /\ RowSound(Exam, row) /\ row.row = "live" /\ row.status = status
      /\ row.registered = (proctored /\ status = "created") /\ row.started = FALSE
  BY DEF RowSound, CanHave, NoRow, Attempt, InResumeProcess
<1>4. Sound(d)
  BY LineIs DEF Lines
<1> HIDE DEF row
<1>5. \A j \in Slots : Row(d1, j) = IF j = s THEN row ELSE Row(d, j)
  BY <1>2, <1>3, <1>4, ExamIs, WriteRowSound DEF Row
<1>6. Row(d1, s) = row /\ \A j \in Slots : j # s => Row(d1, j) = Row(d, j)
  BY <1>1, <1>5
<1>7. row.registered <=> proctored /\ status = "created"
  BY <1>3, Zenon
<1> QED
  BY <1>1, <1>3, <1>6, <1>7

LEMMA EntryKeeps ==
  ASSUME NEW run \in Runs, NEW d, NEW d1, NEW j \in Slots, NEW o, NEW s0,
         \A t \in Ledger : Fits(Row(d, j), t, o, s0) => Fits(Row(d1, j), t, o, s0),
         KeepsAt(run, d1, j, o, s0)
  PROVE  KeepsAt(run, d, j, o, s0)
<1>1. ASSUME NEW t \in Ledgers(run.calls) PROVE t[0] \in Ledger
  <2>1. Len(run.calls) \in Nat
    BY LenProperties DEF Runs
  <2> QED BY <2>1 DEF Ledgers
<1> QED
  BY <1>1 DEF KeepsAt

(* The attempt that is resumed is marked: nothing the service knows of.    *)
LEMMA MarkedRow ==
  ASSUME NEW d \in Lines, NEW d1, d1 = MarkedResumed(d, Exam)
  PROVE  /\ d1 \in Lines
         /\ \A j \in Slots :
              /\ Row(d1, j).row = Row(d, j).row
              /\ Row(d1, j).registered = Row(d, j).registered
              /\ \A o : Silent(Row(d, j), Row(d1, j), o)
<1>1. CASE d1 = d
  BY <1>1, RowType DEF Silent
<1>2. CASE d1 # d
  <2>1. PICK i : i = Latest(d, Exam)
    OBVIOUS
  <2>2. PICK a : a = Row(d, i)
    OBVIOUS
  <2>3. PICK row : row = [a EXCEPT !.resumed = TRUE, !.resumable = FALSE]
    OBVIOUS
  <2>4. HasAttempt(d, Exam) /\ InResumeProcess(a)
    BY <1>2, <2>1, <2>2 DEF MarkedResumed, Row
  <2>5. i \in Live(d, Exam) /\ i \in Slots
    BY <2>1, <2>4, ExamIs, LatestIsLive
  <2>6. a \in Attempt /\ RowSound(Exam, a)
    BY <2>2, <2>5, RowType
  <2>7. RowSound(Exam, row)
    BY <2>3, <2>4, <2>6 DEF RowSound, Attempt, InResumeProcess
  <2>8. /\ row.row = a.row /\ row.status = a.status /\ row.resumed = TRUE
        /\ row.started = a.started /\ row.expired = a.expired
        /\ row.registered = a.registered
    BY <2>3, <2>6 DEF Attempt
  <2>9. d1 = WithRow(d, Exam, i, row)
    BY <2>1, <2>2, <2>3, <2>4 DEF MarkedResumed, WithRow, Row
  <2>10. /\ d1 \in Lines /\ Row(d1, i) = row
         /\ \A j \in Slots : j # i => Row(d1, j) = Row(d, j)
    BY <2>2, <2>5, <2>7, <2>8, <2>9, SameLine
  <2>11. \A o : Silent(a, row, o)
    BY <2>8 DEF Silent
  <2>12. ASSUME NEW j \in Slots
         PROVE  /\ Row(d1, j).row = Row(d, j).row
                /\ Row(d1, j).registered = Row(d, j).registered
                /\ \A o : Silent(Row(d, j), Row(d1, j), o)
    <3>1. CASE j = i
      BY <2>2, <2>8, <2>10, <2>11, <3>1
    <3>2. CASE j # i
      BY <2>10, <3>2 DEF Silent
    <3> QED BY <3>1, <3>2
  <2> QED BY <2>10, <2>12
<1> QED
  BY <1>1, <1>2

LEMMA MarkedKeeps ==
  ASSUME NEW d \in Lines, NEW d1, d1 = MarkedResumed(d, Exam), NEW run \in Runs,
         NEW j \in Slots, NEW o \in Attempt, NEW s0, KeepsAt(run, d1, j, o, s0)
  PROVE  KeepsAt(run, d, j, o, s0)
<1>1. d1 \in Lines /\ Silent(Row(d, j), Row(d1, j), o)
  BY MarkedRow
<1>2. Row(d, j) \in Attempt /\ Row(d1, j) \in Attempt
  BY <1>1, RowType
<1>3. \A t \in Ledger : Fits(Row(d, j), t, o, s0) => Fits(Row(d1, j), t, o, s0)
  BY <1>1, <1>2, SilentFits
<1> QED
  BY <1>3, EntryKeeps

KeepsAny(run, d) ==
  run \in Runs /\ \A j \in Slots : \A o \in Attempt : \A s0 : KeepsAt(run, d, j, o, s0)

LEMMA RegisteringKeeps ==
  ASSUME NEW d \in Lines, Unused(d, Exam) # {},
         NEW outcome, CanHave(Exam, outcome), outcome # "error",
         NEW d1 \in Lines, d1 = NewAttempt(d, Exam, outcome, TRUE),
         NEW run, run = Registering(d, outcome)
  PROVE  KeepsAny(run, d)
<1>s. PICK s : s = FreshSlot(d, Exam)
  OBVIOUS
<1>1. /\ s \in Slots /\ Row(d, s).row = "unused"
      /\ Row(d1, s).row = "live" /\ Row(d1, s).status = outcome
      /\ Row(d1, s).registered <=> outcome = "created"
      /\ ~ Row(d1, s).started
      /\ \A j \in Slots : j # s => Row(d1, j) = Row(d, j)
  <2>1. ASSUME NEW proctored \in BOOLEAN, NEW x,
               x = NewAttempt(d, Exam, outcome, proctored)
        PROVE  /\ s \in Slots /\ Row(d, s).row = "unused"
               /\ Row(x, s).row = "live" /\ Row(x, s).status = outcome
               /\ Row(x, s).registered <=> proctored /\ outcome = "created"
               /\ ~ Row(x, s).started
               /\ \A j \in Slots : j # s => Row(x, j) = Row(d, j)
    BY <1>s, <2>1, NewRow
  <2> QED BY <2>1, Zenon
<1>2. \A j \in Slots : Row(d, j) \in Attempt /\ Row(d1, j) \in Attempt
  BY RowType
<1>3. CASE outcome # "created"
  <2>1. run = [db |-> d1, calls |-> << >>]
    BY <1>3, Zenon DEF Registering
  <2>2. run.db = d1 /\ run.calls = << >>
    BY <2>1
  <2>3. run \in Runs
    BY <2>1, ShortRuns
  <2>4. run \in Runs /\ run.db = d1 /\ run.calls = << >>
    BY <2>2, <2>3
  <2>5. ASSUME NEW j \in Slots, NEW o \in Attempt, NEW s0
        PROVE  KeepsAt(run, d, j, o, s0)
    <3>1. \A t \in Ledger : Fits(Row(d, j), t, o, s0) => Fits(Row(run.db, j), t, o, s0)
      <4>1. CASE j # s
        BY <1>1, <2>4, <4>1
      <4>2. CASE j = s
        BY <1>1, <1>2, <1>3, <2>4, <4>2, UnregisteredFits
      <4> QED BY <4>1, <4>2
    <3> QED BY <2>4, <3>1, QuietKeeps
  <2> QED BY <2>4, <2>5 DEF KeepsAny
<1>4. CASE outcome = "created"
  <2> DEFINE c == OneCall(d, s, "created")
  <2>1. c \in Call /\ c.att = s /\ c.what = "created" /\ c.db = d
    BY <1>1 DEF OneCall, Call, Whats
  <2>2. run = [db |-> d1, calls |-> <<c>>]
    BY <1>4, <1>s, Zenon DEF Registering, OneCall
  <2> HIDE DEF c
  <2>3. run.db = d1 /\ run.calls = <<c>>
    BY <2>2
  <2>4. run \in Runs
    BY <2>1, <2>2, ShortRuns
  <2>5. ASSUME NEW j \in Slots, NEW o \in Attempt, NEW s0
        PROVE  KeepsAt(run, d, j, o, s0)
    <3>1. ASSUME NEW t \in Ledger, Fits(Row(d, j), t, o, s0)
          PROVE  /\ \A u \in Answered(c, j, s0, t) : Fits(Row(run.db, j), u, o, s0)
                 /\ \A u \in Raised(c, j, s0, t) : Fits(Row(c.db, j), u, o, s0)
      <4>1. CASE j # s
        BY <1>1, <2>1, <2>3, <3>1, <4>1 DEF Answered, Raised
      <4>2. CASE j = s
        <5>1. /\ \A u \in Answers("created", t, s0) : Fits(Row(d1, s), u, o, s0)
              /\ \A u \in Raises("created", t, s0) : Fits(Row(d, s), u, o, s0)
          BY <1>1, <1>2, <1>4, <3>1, <4>2, RegisteredFits
        <5> QED BY <2>1, <2>3, <4>2, <5>1 DEF Answered, Raised
      <4> QED BY <4>1, <4>2
    <3> QED BY <2>1, <2>3, <2>4, <3>1, OneCallKeeps
  <2> QED BY <2>4, <2>5 DEF KeepsAny
<1> QED
  BY <1>3, <1>4

(* create_exam_attempt, which does to the database what CreateAttempt does. *)
LEMMA CreatingKeeps ==
  ASSUME NEW d \in Lines, Unused(d, Exam) # {},
         NEW proctored \in BOOLEAN, NEW outcome \in Outcomes(Exam, proctored),
         NEW run, run = Creating(d, proctored, outcome)
  PROVE  /\ run \in Runs
         /\ \A j \in Slots : \A s0 : KeepsAt(run, d, j, Row(d, j), s0)
         /\ Creates(d, Exam, proctored, outcome) =>
              Latest(run.db, Exam) \in Live(run.db, Exam)
         /\ ~ proctored => \A j \in Slots :
              Row(run.db, j).registered => Row(d, j).registered
<1>m. PICK dm : dm = MarkedResumed(d, Exam)
  OBVIOUS
<1>n. PICK d1 : d1 = CreateAttempt(d, Exam, proctored, outcome)
  OBVIOUS
<1>r. PICK read : read = TimeReading(dm)
  OBVIOUS
<1>1. InLine(d) /\ Honest(d) /\ Exam \in Exams /\ \A j \in Slots : Row(d, j) \in Attempt
  BY LineIs, ExamIs, RowType DEF Lines
<1>2. /\ dm \in Lines /\ Honest(dm) /\ Run(dm) \in Runs /\ Run(dm).db = dm
      /\ \A j \in Slots : Row(dm, j).row = Row(d, j).row
      /\ \A j \in Slots : Row(dm, j).registered = Row(d, j).registered
      /\ \A j \in Slots : \A s0 : KeepsAt(Run(dm), d, j, Row(d, j), s0)
  <2>1. dm \in Lines /\ Run(dm) \in Runs /\ Run(dm).db = dm
        /\ \A j \in Slots : \A o, s0 : KeepsAt(Run(dm), dm, j, o, s0)
    BY <1>m, MarkedRow, RunIs
  <2>2. \A j \in Slots : \A s0 : KeepsAt(Run(dm), d, j, Row(d, j), s0)
    BY <1>1, <1>m, <2>1, MarkedKeeps
  <2>3. /\ \A j \in Slots : Row(dm, j).row = Row(d, j).row
        /\ \A j \in Slots : Row(dm, j).registered = Row(d, j).registered
    BY <1>m, MarkedRow
  <2> QED BY <2>1, <2>2, <2>3, LineIs DEF Lines
<1>3. /\ read \in Runs /\ read.db = AllowedTimeRead(dm, Exam) /\ read.db \in Lines
      /\ \A j \in Slots : \A o \in Attempt : \A s0 : KeepsAt(read, dm, j, o, s0)
  BY <1>2, <1>r, TimeReadingKeeps DEF Runs
<1>4. \A j \in Slots : Row(read.db, j).row = "unused" <=> Row(d, j).row = "unused"
  <2>1. Goes(dm, read.db, "timed_out")
    BY <1>1, <1>2, <1>3, AllowedTimeReadDoes
  <2>2. \A j \in Slots : RowMove(Exam, dm.att[Exam][j], read.db.att[Exam][j], "timed_out")
    BY <1>1, <2>1 DEF Goes, Moved, MovedAt
  <2> QED BY <1>2, <2>2 DEF RowMove, Row
<1>5. Unused(dm, Exam) # {} /\ Unused(read.db, Exam) # {}
  BY <1>2, <1>4 DEF Unused, Row
<1>6. /\ d1 \in Lines
      /\ Creates(d, Exam, proctored, outcome) =>
           Latest(d1, Exam) \in Live(d1, Exam)
  <2>1. Goes(d, d, "timed_out") /\ \A f \in Exams \ {Exam} : FinishedKept(d, d, f)
    BY <1>1, GoesSimple DEF FinishedKept
  <2>2. /\ Creates(d, Exam, proctored, outcome) => Created(d, d1, Exam)
        /\ ~ Creates(d, Exam, proctored, outcome) => Goes(d, d1, "timed_out")
    BY <1>1, <1>n, <2>1, CreateAttemptDoes
  <2>3. InLine(d1)
    BY <1>1, <2>2, MovedKeepsLine DEF Created
  <2> QED BY <2>2, <2>3, LineIs DEF Created
<1>7. CASE ~ MayCreate(d, Exam)
  <2>1. run = Run(d)
    BY <1>7 DEF Creating
  <2>2. run \in Runs /\ run.db = d
        /\ \A j \in Slots : \A o, s0 : KeepsAt(run, d, j, o, s0)
    BY <2>1, RunIs
  <2> QED BY <1>7, <2>2 DEF Creates
<1>8. CASE MayCreate(d, Exam) /\ ~ proctored
  <2>1. outcome = "created"
    BY <1>8 DEF Outcomes
  <2>2. run = Run(d1) /\ d1 = NewAttempt(dm, Exam, "created", FALSE)
    BY <1>8, <1>m, <1>n, <2>1, Zenon DEF Creating, CreateAttempt
  <2>3. run \in Runs /\ run.db = d1 /\ run.calls = << >>
    BY <1>6, <2>2, RunIs
  <2>4. PICK s : s = FreshSlot(dm, Exam)
    OBVIOUS
  <2>5. /\ s \in Slots /\ Row(dm, s).row = "unused"
        /\ Row(d1, s).row = "live" /\ ~ Row(d1, s).registered
        /\ \A j \in Slots : j # s => Row(d1, j) = Row(dm, j)
    <3>1. CanHave(Exam, "created") /\ "created" # "error"
      BY DEF CanHave, Status, ValidStatus, Incomplete, PreStarted
    <3>2. ASSUME NEW b \in BOOLEAN, NEW x, x = NewAttempt(dm, Exam, "created", b)
          PROVE  /\ s \in Slots /\ Row(dm, s).row = "unused"
                 /\ Row(x, s).row = "live" /\ (Row(x, s).registered <=> b)
                 /\ \A j \in Slots : j # s => Row(x, j) = Row(dm, j)
      BY <1>2, <1>5, <2>4, <3>1, <3>2, NewRow
    <3> QED BY <2>2, <3>2, Zenon
  <2>6. ASSUME NEW j \in Slots, NEW s0
        PROVE  KeepsAt(run, d, j, Row(d, j), s0)
    <3>1. Row(dm, j) \in Attempt /\ Row(d1, j) \in Attempt
      BY <1>2, <1>6, RowType
    <3>2. \A t \in Ledger : Fits(Row(dm, j), t, Row(d, j), s0) =>
                            Fits(Row(run.db, j), t, Row(d, j), s0)
      <4>1. CASE j # s
        BY <2>3, <2>5, <4>1
      <4>2. CASE j = s
        BY <1>1, <2>3, <2>5, <3>1, <4>2, UnregisteredFits
      <4> QED BY <4>1, <4>2
    <3>3. KeepsAt(run, dm, j, Row(d, j), s0)
      BY <2>3, <3>2, QuietKeeps
    <3> QED BY <1>1, <1>m, <2>3, <3>3, MarkedKeeps
  <2>7. \A j \in Slots : Row(run.db, j).registered => Row(d, j).registered
    BY <1>2, <2>3, <2>5
  <2> QED BY <1>6, <2>3, <2>6, <2>7
<1>9. CASE MayCreate(d, Exam) /\ proctored /\ Exam \in pastDue
  <2>1. run = Run(dm)
    BY <1>9, <1>m DEF Creating
  <2> QED BY <1>2, <1>9, <2>1 DEF Creates
<1>10. CASE MayCreate(d, Exam) /\ proctored /\ Exam \notin pastDue
            /\ outcome = "refused"
  <2>1. run = read
    BY <1>10, <1>m, <1>r DEF Creating
  <2>2. \A j \in Slots : \A s0 : KeepsAt(run, d, j, Row(d, j), s0)
    BY <1>1, <1>3, <1>m, <2>1, MarkedKeeps
  <2> QED BY <1>3, <1>10, <2>1, <2>2 DEF Creates
<1>11. CASE MayCreate(d, Exam) /\ proctored /\ Exam \notin pastDue
            /\ outcome # "refused"
  <2>1. PICK next : next = Registering(read.db, outcome)
    OBVIOUS
  <2>2. run = Joined(read, next)
    BY <1>11, <1>m, <1>r, <2>1 DEF Creating
  <2>3. d1 = NewAttempt(read.db, Exam, outcome, TRUE)
    <3>1. d1 = NewAttempt(read.db, Exam, outcome, proctored)
      BY <1>3, <1>11, <1>m, <1>n DEF CreateAttempt
    <3> QED BY <1>11, <3>1, Zenon
  <2>4. CanHave(Exam, outcome) /\ outcome # "error"
    <3>1. outcome \in {"created"} \cup OnboardingErrors
      BY <1>11, ConstantsAssumption DEF Outcomes
    <3>2. {"created"} \cup OnboardingErrors \subseteq ValidStatus \ {"error"}
      BY DEF OnboardingErrors, ValidStatus, Completed, Incomplete, PreStarted
    <3> QED BY <3>1, <3>2 DEF CanHave, Status
  <2>5. /\ next \in Runs /\ next.db = d1
        /\ \A j \in Slots : \A o \in Attempt : \A s0 : KeepsAt(next, read.db, j, o, s0)
    <3>1. PICK dr : dr = read.db
      OBVIOUS
    <3>2. dr \in Lines /\ Unused(dr, Exam) # {}
      BY <1>3, <1>5, <3>1
    <3>3. next = Registering(dr, outcome) /\ d1 = NewAttempt(dr, Exam, outcome, TRUE)
      BY <2>1, <2>3, <3>1, Zenon
    <3>4. KeepsAny(next, dr)
      BY <1>6, <2>4, <3>2, <3>3, RegisteringKeeps
    <3>5. next.db = NewAttempt(dr, Exam, outcome, TRUE)
      BY <3>3 DEF Registering
    <3> QED BY <3>1, <3>3, <3>4, <3>5 DEF KeepsAny
  <2>6. run \in Runs /\ run.db = d1
    <3>1. Joined(read, next) \in Runs /\ Joined(read, next).db = next.db
      BY <1>3, <2>5, JoinedRuns
    <3> QED BY <2>2, <2>5, <3>1
  <2>7. ASSUME NEW j \in Slots, NEW s0
        PROVE  KeepsAt(run, d, j, Row(d, j), s0)
    <3>1. KeepsAt(run, dm, j, Row(d, j), s0)
      BY <1>1, <1>3, <2>2, <2>5, JoinedKeeps
    <3> QED BY <1>1, <1>m, <2>6, <3>1, MarkedKeeps
  <2> QED BY <1>6, <1>11, <2>6, <2>7
<1> QED
  BY <1>7, <1>8, <1>9, <1>10, <1>11

(* A request to enter the exam.                                            *)
LEMMA PostingKeeps ==
  ASSUME NEW d \in Lines, Unused(d, Exam) # {},
         NEW proctored \in BOOLEAN, NEW startClock \in BOOLEAN,
         NEW outcome \in Outcomes(Exam, proctored), NEW instantly \in BOOLEAN,
         NEW run, run = Creating(d, proctored, outcome)
  PROVE  /\ Keeps(run, d)
         /\ Creates(d, Exam, proctored, outcome) =>
              Keeps(Entering(run, proctored, startClock, instantly), d)
<1>1. /\ run \in Runs
      /\ \A j \in Slots : \A s0 : KeepsAt(run, d, j, Row(d, j), s0)
      /\ Creates(d, Exam, proctored, outcome) =>
           Latest(run.db, Exam) \in Live(run.db, Exam)
      /\ ~ proctored => \A j \in Slots :
           Row(run.db, j).registered => Row(d, j).registered
  BY CreatingKeeps
<1>2. run.db \in Lines /\ \A j \in Slots : Row(d, j) \in Attempt
  BY <1>1, RowType DEF Runs
<1>3. ASSUME NEW next \in Runs,
             \A j \in Slots : \A s0 : KeepsAt(next, run.db, j, Row(d, j), s0)
      PROVE  Keeps(Joined(run, next), d)
  <2>1. Joined(run, next) \in Runs
    BY <1>1, JoinedRuns
  <2>2. \A j \in Slots : \A s0 : KeepsAt(Joined(run, next), d, j, Row(d, j), s0)
    BY <1>1, <1>3, JoinedKeeps
  <2> QED BY <2>1, <2>2 DEF Keeps
<1>4. ASSUME Creates(d, Exam, proctored, outcome), ~ proctored
      PROVE  Keeps(Entering(run, proctored, startClock, instantly), d)
  <2>1. PICK i : i = Latest(run.db, Exam)
    OBVIOUS
  <2>2. PICK next : next = Updating(run.db, i, "declined", FALSE)
    OBVIOUS
  <2>3. "declined" \in ValidStatus /\ i \in Live(run.db, Exam)
    BY <1>1, <1>4, <2>1 DEF ValidStatus, Completed
  <2>4. ASSUME NEW b \in BOOLEAN, NEW x, x = Updating(run.db, i, "declined", b)
        PROVE  /\ x \in Runs
               /\ \A j \in Slots : \A o \in Attempt : \A s0 :
                    (j = i /\ Row(run.db, i).registered => o.registered)
                      => KeepsAt(x, run.db, j, o, s0)
    BY <1>2, <2>3, <2>4, UpdatingKeeps
  <2>5. /\ next \in Runs
        /\ \A j \in Slots : \A o \in Attempt : \A s0 :
             (j = i /\ Row(run.db, i).registered => o.registered)
               => KeepsAt(next, run.db, j, o, s0)
    BY <2>2, <2>4, Zenon
  <2>6. \A j \in Slots : \A s0 : KeepsAt(next, run.db, j, Row(d, j), s0)
    BY <1>1, <1>2, <1>4, <2>5
  <2>7. Entering(run, proctored, startClock, instantly) = Joined(run, next)
    BY <1>4, <2>1, <2>2, Zenon DEF Entering
  <2> QED BY <1>3, <2>5, <2>6, <2>7
<1>5. ASSUME Creates(d, Exam, proctored, outcome), proctored
      PROVE  Keeps(Entering(run, proctored, startClock, instantly), d)
  <2>1. CASE startClock
    <3>1. PICK next : next = Starting(run.db, instantly)
      OBVIOUS
    <3>2. /\ next \in Runs
          /\ \A j \in Slots : \A o \in Attempt : \A s0 : KeepsAt(next, run.db, j, o, s0)
      BY <1>2, <3>1, StartingKeeps
    <3>3. Entering(run, proctored, startClock, instantly) = Joined(run, next)
      BY <1>5, <2>1, <3>1 DEF Entering
    <3> QED BY <1>2, <1>3, <3>2, <3>3
  <2>2. CASE ~ startClock
    BY <1>1, <1>5, <2>2 DEF Entering, Keeps
  <2> QED BY <2>1, <2>2
<1> QED
  BY <1>1, <1>4, <1>5 DEF Keeps

-----------------------------------------------------------------------------
(* Staff set the status of an attempt.                                     *)
LEMMA SettingKeeps ==
  ASSUME NEW d \in Lines, NEW i \in Live(d, Exam), NEW to \in ValidStatus
  PROVE  Keeps(Updating(d, i, to, FALSE), d)
<1>1. ASSUME NEW instantly \in BOOLEAN, NEW run, run = Updating(d, i, to, instantly)
      PROVE  Keeps(run, d)
  <2>1. /\ run \in Runs
        /\ \A j \in Slots : \A o \in Attempt : \A s0 :
             (j = i /\ to = "declined" /\ Row(d, i).registered => o.registered)
               => KeepsAt(run, d, j, o, s0)
    BY <1>1, UpdatingKeeps
  <2>2. \A j \in Slots : Row(d, j) \in Attempt
    BY RowType
  <2>3. \A j \in Slots : \A s0 : KeepsAt(run, d, j, Row(d, j), s0)
    BY <2>1, <2>2
  <2> QED BY <2>1, <2>3 DEF Keeps
<1> QED
  BY <1>1, Zenon

(* The attempts are removed one after the other, in whatever order.        *)
LEMMA RemovingType ==
  ASSUME NEW d, Sound(d), NEW i \in Slots
  PROVE  /\ Sound(Removed(d, Exam, i)) /\ Removed(d, Exam, i) \in Database
         /\ Tell(d, i, "deleted") \in
              Seq([att : Slots, what : Whats, db : {x \in Database : Sound(x)}])
<1> DEFINE C == [att : Slots, what : Whats, db : {x \in Database : Sound(x)}]
<1>1. Sound(Removed(d, Exam, i)) /\ Removed(d, Exam, i) \in Database /\ d \in Database
  BY ExamIs, RemovedSound DEF Sound
<1>2. PICK c : c = [att |-> i, what |-> "deleted", db |-> d]
  OBVIOUS
<1>3. c \in C
  BY <1>1, <1>2 DEF Whats
<1>4. Tell(d, i, "deleted") = <<c>> \/ Tell(d, i, "deleted") = << >>
  BY <1>2 DEF Tell
<1> HIDE DEF C
<1>5. <<c>> \in Seq(C) /\ << >> \in Seq(C)
  BY <1>3
<1>6. Tell(d, i, "deleted") \in Seq(C)
  BY <1>4, <1>5
<1> QED
  BY <1>1, <1>6 DEF C

LEMMA NothingKeeps ==
  ASSUME NEW d \in Lines
  PROVE  Keeps(Run(d), d) /\ Run(d).db = d
<1>1. Run(d) \in Runs /\ Run(d).db = d
  BY RunIs
<1>2. \A i \in Slots : \A o, s0 : KeepsAt(Run(d), d, i, o, s0)
  BY RunIs
<1> QED
  BY <1>1, <1>2 DEF Keeps

LEMMA RemovingAllKeeps ==
  ASSUME NEW d \in Lines, NEW order \in SetToSeqs(Live(d, Exam))
  PROVE  Keeps(FoldLeft(ThenRemoving, Run(d), order), d)
<1> DEFINE D == DOMAIN order
           S == {x \in Database : Sound(x)}
           V == [db : S, calls : Seq([att : Slots, what : Whats, db : S])]
           F == [p \in V \X Slots |-> ThenRemoving(p[1], p[2])]
           removes(g) == g = [A \in SUBSET D |->
                                IF A = {} THEN Run(d)
                                ELSE ThenRemoving(g[A \ {LastOf(A)}], order[LastOf(A)])]
           h == CHOOSE g : removes(g)
           gone(A) == {order[k] : k \in A}
           fine(A) ==
             /\ Keeps(h[A], d)
             /\ \A j \in Slots : Row(h[A].db, j) =
                  IF j \in gone(A) THEN Archived ELSE Row(d, j)
           G == {A \in SUBSET D : fine(A)}
<1>0. /\ order \in Seq(Slots) /\ order \in Seq(Live(d, Exam)) /\ IsFiniteSet(D)
      /\ \A k, l \in D : k # l => order[k] # order[l]
  <2>1. Live(d, Exam) \subseteq Slots /\ IsFiniteSet(Live(d, Exam))
    <3>1. Live(d, Exam) \subseteq Slots
      BY DEF Live
    <3>2. 1 \in Int /\ MaxAttempts \in Int
      BY ConstantsAssumption
    <3>3. IsFiniteSet(Slots)
      BY <3>2, FS_Interval DEF Slots
    <3> QED BY <3>1, <3>3, FS_Subset
  <2>2. Cardinality(Live(d, Exam)) \in Nat
    BY <2>1, FS_CardinalityType
  <2>3. /\ order \in [1 .. Cardinality(Live(d, Exam)) -> Live(d, Exam)]
        /\ \A k, l \in 1 .. Cardinality(Live(d, Exam)) : k # l => order[k] # order[l]
    BY DEF SetToSeqs
  <2>4. order \in Seq(Live(d, Exam)) /\ order \in Seq(Slots)
    BY <2>1, <2>2, <2>3
  <2>5. IsFiniteSet(D)
    BY <2>2, <2>3, FS_Interval
  <2> QED BY <2>3, <2>4, <2>5
<1>1. FoldLeft(ThenRemoving, Run(d), order) = h[D]
  BY DEF FoldLeft, MapThenFoldSet, LastOf, Max
<1>2. removes(h)
  <2>1. F \in [V \X Slots -> V] /\ Run(d) \in V
    <3>1. ASSUME NEW x \in V, NEW i \in Slots PROVE ThenRemoving(x, i) \in V
      <4>1. Sound(x.db) /\ x.calls \in Seq([att : Slots, what : Whats, db : S])
        OBVIOUS
      <4>2. /\ Removed(x.db, Exam, i) \in S
            /\ Tell(x.db, i, "deleted") \in Seq([att : Slots, what : Whats, db : S])
        BY <4>1, RemovingType
      <4>3. ThenRemoving(x, i) = [db    |-> Removed(x.db, Exam, i),
                                  calls |-> x.calls \o Tell(x.db, i, "deleted")]
        BY DEF ThenRemoving, Joined, Removing
      <4>4. x.calls \o Tell(x.db, i, "deleted")
              \in Seq([att : Slots, what : Whats, db : S])
        BY <4>1, <4>2, ConcatProperties
      <4> QED BY <4>2, <4>3, <4>4
    <3>2. Run(d) \in V
      BY LineIs DEF Run, Lines
    <3> HIDE DEF V
    <3> QED BY <3>1, <3>2
  <2> HIDE DEF F, V
  <2>2. PICK g \in [SUBSET D -> V] : Loops(g, D, order, Run(d), F)
    BY <1>0, <2>1, LoopsExist
  <2>3. ASSUME NEW A \in SUBSET D, A # {}
        PROVE  F[<<g[A \ {LastOf(A)}], order[LastOf(A)]>>]
                 = ThenRemoving(g[A \ {LastOf(A)}], order[LastOf(A)])
    <3>1. g[A \ {LastOf(A)}] \in V /\ order[LastOf(A)] \in Slots
      BY <1>0, <2>2, <2>3, LastIn
    <3> QED BY <3>1 DEF F
  <2>4. removes(g)
    BY <2>2, <2>3 DEF Loops
  <2> HIDE DEF removes
  <2> QED BY <2>4
<1> HIDE DEF h, F
<1>3. ASSUME NEW A \in SUBSET D, \A B \in SUBSET A : B # A => B \in G
      PROVE  fine(A)
  <2>1. CASE A = {}
    <3>1. h[A] = Run(d) /\ gone(A) = {}
      BY <1>2, <2>1
    <3>2. Keeps(Run(d), d) /\ Run(d).db = d
      BY NothingKeeps
    <3> HIDE DEF gone
    <3> QED BY <3>1, <3>2
  <2>2. CASE A # {}
    <3> DEFINE B == A \ {LastOf(A)}
               i == order[LastOf(A)]
    <3>1. LastOf(A) \in A /\ i \in Live(d, Exam) /\ i \in Slots
      BY <1>0, <2>2, LastIn
    <3>2. fine(B) /\ gone(A) = gone(B) \cup {i} /\ i \notin gone(B)
      BY <1>0, <1>3, <3>1
    <3>3. h[A] = ThenRemoving(h[B], i)
      BY <1>2, <2>2
    <3> HIDE DEF B, i, gone
    <3> PICK run : run = h[B]
      OBVIOUS
    <3>4. /\ run \in Runs /\ run.db \in Lines /\ i \in Live(run.db, Exam)
          /\ Row(run.db, i) = Row(d, i)
          /\ \A j \in Slots : \A s0 : KeepsAt(run, d, j, Row(d, j), s0)
      <4>1. run \in Runs /\ Row(run.db, i) = Row(d, i)
            /\ \A j \in Slots : \A s0 : KeepsAt(run, d, j, Row(d, j), s0)
        BY <3>1, <3>2 DEF Keeps
      <4> QED BY <3>1, <4>1, LiveRow DEF Runs
    <3> PICK next : next = Removing(run.db, i)
      OBVIOUS
    <3>5. /\ next \in Runs /\ next.db = Removed(run.db, Exam, i)
          /\ \A j \in Slots : \A o \in Attempt : \A s0 :
               (j = i => /\ Row(run.db, i).started => o.started
                         /\ o.registered => Row(run.db, i).registered)
                 => KeepsAt(next, run.db, j, o, s0)
      BY <3>4, RemovingKeeps
    <3>6. \A j \in Slots : \A s0 : KeepsAt(next, run.db, j, Row(d, j), s0)
      <4>1. \A j \in Slots : Row(d, j) \in Attempt
        BY RowType
      <4> QED BY <3>4, <3>5, <4>1
    <3>7. h[A] = Joined(run, next)
      BY <3>3 DEF ThenRemoving
    <3>8. Joined(run, next) \in Runs /\ Joined(run, next).db = next.db
      BY <3>4, <3>5, JoinedRuns
    <3>9. \A j \in Slots : \A s0 : KeepsAt(Joined(run, next), d, j, Row(d, j), s0)
      BY <3>4, <3>5, <3>6, JoinedKeeps
    <3>10. Keeps(h[A], d)
      BY <3>7, <3>8, <3>9 DEF Keeps
    <3>11. ASSUME NEW j \in Slots
           PROVE  Row(h[A].db, j) = IF j \in gone(A) THEN Archived ELSE Row(d, j)
      <4>1. h[A].db = Removed(run.db, Exam, i)
        BY <3>5, <3>7, <3>8
      <4>2. /\ Row(h[A].db, i) = Archived
            /\ j # i => Row(h[A].db, j) = Row(run.db, j)
        BY <3>4, <4>1, RemovedRow
      <4>3. Row(run.db, j) = IF j \in gone(B) THEN Archived ELSE Row(d, j)
        BY <3>2
      <4> QED BY <3>2, <4>2, <4>3
    <3> QED BY <3>10, <3>11
  <2> QED BY <2>1, <2>2
<1>4. D \in SUBSET D
  OBVIOUS
<1>5. \A A \in SUBSET D : (\A B \in SUBSET A : B # A => B \in G) => A \in G
  BY <1>3
<1>6. fine(D)
  <2> HIDE DEF G, fine
  <2>1. D \in G
    BY <1>0, <1>4, <1>5, SubsetInduction
  <2> QED BY <2>1 DEF G
<1> QED
  BY <1>1, <1>6

-----------------------------------------------------------------------------
(* A handler runs.                                                         *)

(* The service hears of the calls one after the other: h says what the     *)
(* session comes to by some of them.                                       *)
Hearing(h, calls, n, s, heard) ==
  /\ h \in [SUBSET (1 .. n) -> Sessions]
  /\ LastHeard(calls, s, heard) = h[1 .. n]
  /\ h[{}] = s
  /\ \A A \in SUBSET (1 .. n) : A # {} =>
       h[A] = IF LastOf(A) \in heard
              THEN Heard(h[A \ {LastOf(A)}], calls[LastOf(A)].what)
              ELSE h[A \ {LastOf(A)}]

LEMMA LastHeardIs ==
  ASSUME NEW calls \in Seq(Call), NEW s \in Sessions, NEW heard
  PROVE  \E h : Hearing(h, calls, Len(calls), s, heard)
<1> DEFINE X == DOMAIN calls
           seq == [k \in X |-> k]
           step(x, k) == IF k \in heard THEN Heard(x, calls[k].what) ELSE x
           F == [p \in Sessions \X X |-> step(p[1], p[2])]
           hears(g) == g = [A \in SUBSET X |->
                              IF A = {} THEN s
                              ELSE step(g[A \ {LastOf(A)}], seq[LastOf(A)])]
           h == CHOOSE g : hears(g)
<1>1. Len(calls) \in Nat /\ X = 1 .. Len(calls)
  BY LenProperties
<1>2. LastHeard(calls, s, heard) = h[X]
  BY DEF LastHeard, FoldLeft, MapThenFoldSet, LastOf, Max
<1>3. seq \in Seq(X) /\ DOMAIN seq = X
  BY <1>1
<1>4. /\ F \in [Sessions \X X -> Sessions]
      /\ \A x \in Sessions, k \in X : step(x, k) \in Sessions
  <2>1. \A k \in X : calls[k].what \in Whats
    <3>1. \A k \in X : calls[k] \in Call
      BY <1>1, ElementOfSeq
    <3> HIDE DEF X
    <3> QED BY <3>1 DEF Call
  <2>2. \A x \in Sessions : \A what \in Whats : Heard(x, what) \in Sessions
    BY DEF Heard, Sessions, Whats
  <2>3. \A x \in Sessions, k \in X : step(x, k) \in Sessions
    BY <2>1, <2>2
  <2> HIDE DEF step
  <2> QED BY <2>3
<1> HIDE DEF F, seq, X
<1>5. PICK g \in [SUBSET X -> Sessions] : Loops(g, X, seq, s, F)
  BY <1>3, <1>4, LoopsExist
<1>6. \A k \in X : seq[k] = k
  BY DEF seq
<1>7. ASSUME NEW A \in SUBSET X, A # {}
      PROVE  /\ g[A \ {LastOf(A)}] \in Sessions /\ LastOf(A) \in X
             /\ seq[LastOf(A)] = LastOf(A)
             /\ F[<<g[A \ {LastOf(A)}], seq[LastOf(A)]>>]
                  = step(g[A \ {LastOf(A)}], seq[LastOf(A)])
  <2>1. LastOf(A) \in A
    BY <1>3, <1>7, LastIn
  <2>2. seq[LastOf(A)] = LastOf(A) /\ LastOf(A) \in X /\ g[A \ {LastOf(A)}] \in Sessions
    BY <1>5, <1>6, <2>1
  <2> HIDE DEF step
  <2> QED BY <2>2 DEF F
<1>8. hears(g)
  <2> HIDE DEF step
  <2> QED BY <1>5, <1>7 DEF Loops
<1>9. hears(h)
  <2> HIDE DEF hears
  <2> QED BY <1>8
<1> HIDE DEF h
<1>10. /\ h[{}] = s
       /\ \A A \in SUBSET X : A # {} => h[A] = step(h[A \ {LastOf(A)}], LastOf(A))
  <2> HIDE DEF step
  <2> QED BY <1>7, <1>9
<1> HIDE DEF step
<1>11. \A A \in SUBSET X : h[A] \in Sessions
  <2> DEFINE G == {A \in SUBSET X : h[A] \in Sessions}
  <2>1. ASSUME NEW A \in SUBSET X, \A B \in SUBSET A : B # A => B \in G
        PROVE  h[A] \in Sessions
    <3>1. CASE A # {}
      <4>1. LastOf(A) \in A
        BY <1>3, <3>1, LastIn
      <4>2. h[A \ {LastOf(A)}] \in Sessions
        BY <2>1, <4>1
      <4>3. LastOf(A) \in X /\ h[A] = step(h[A \ {LastOf(A)}], LastOf(A))
        BY <1>10, <3>1, <4>1
      <4> HIDE DEF X
      <4>4. step(h[A \ {LastOf(A)}], LastOf(A)) \in Sessions
        BY <1>4, <4>2, <4>3
      <4> QED BY <4>3, <4>4
    <3> QED BY <1>10, <3>1
  <2>2. \A A \in SUBSET X : (\A B \in SUBSET A : B # A => B \in G) => A \in G
    BY <2>1
  <2>3. IsFiniteSet(X)
    BY <1>1, FS_Interval
  <2> HIDE DEF G
  <2>4. \A A \in SUBSET X : A \in G
    BY <2>2, <2>3, SubsetInduction
  <2> QED BY <2>4 DEF G
<1>12. h \in [SUBSET X -> Sessions]
  <2>1. h = [A \in SUBSET X |-> h[A]]
    BY <1>9
  <2> QED BY <1>11, <2>1
<1> QED
  BY <1>1, <1>2, <1>10, <1>12 DEF step, Hearing

LEMMA LastOfNumbers ==
  ASSUME NEW n \in Nat, NEW A \in SUBSET (1 .. n), A # {}
  PROVE  LastOf(A) \in A /\ \A k \in A : k <= LastOf(A)
<1>1. PICK m \in A : \A k \in A : k <= m
  BY NonEmptyHasMax
<1>2. \A k, l \in A : k >= l <=> l <= k
  <2>1. \A k \in A : k \in 1 .. n
    OBVIOUS
  <2> QED BY <2>1
<1>3. \A k \in A : m >= k
  BY <1>1, <1>2
<1>4. LastOf(A) \in A /\ \A k \in A : LastOf(A) >= k
  BY <1>3 DEF LastOf
<1> QED
  BY <1>2, <1>4

(* So that the session has a state f[k] after each of the calls, and it    *)
(* stays as it is when no more of them are heard.                          *)
Tracing(f, calls, n, m, s, heard) ==
  /\ f \in [0 .. n -> Sessions]
  /\ f[0] = s /\ f[m] = LastHeard(calls, s, heard)
  /\ \A k \in 1 .. n :
       f[k] = IF k \in heard THEN Heard(f[k - 1], calls[k].what) ELSE f[k - 1]

LEMMA HeardTrace ==
  ASSUME NEW calls \in Seq(Call), NEW s \in Sessions, NEW heard,
         NEW m \in 0 .. Len(calls), \A k \in 1 .. Len(calls) : k \in heard => k <= m
  PROVE  \E f : Tracing(f, calls, Len(calls), m, s, heard)
<1> DEFINE n == Len(calls)
<1>1. n \in Nat
  BY LenProperties
<1> HIDE DEF n
<1>h. PICK h : Hearing(h, calls, n, s, heard)
  BY LastHeardIs DEF n
<1>2. /\ h \in [SUBSET (1 .. n) -> Sessions]
      /\ LastHeard(calls, s, heard) = h[1 .. n]
      /\ h[{}] = s
      /\ \A A \in SUBSET (1 .. n) : A # {} =>
           h[A] = IF LastOf(A) \in heard
                  THEN Heard(h[A \ {LastOf(A)}], calls[LastOf(A)].what)
                  ELSE h[A \ {LastOf(A)}]
  BY <1>h DEF Hearing
<1>m. \A k \in 1 .. n : k \in heard => k <= m
  BY DEF n
<1>n. m \in 0 .. n
  BY DEF n
<1> DEFINE f == [k \in 0 .. n |-> h[1 .. k]]
           upto(A) == {k \in A : k <= m}
           G == {A \in SUBSET (1 .. n) : h[A] = h[upto(A)]}
<1>3. ASSUME NEW A \in SUBSET (1 .. n), \A B \in SUBSET A : B # A => B \in G
      PROVE  h[A] = h[upto(A)]
  <2>1. CASE A = {}
    BY <2>1
  <2>2. CASE A # {}
    <3>1. LastOf(A) \in A /\ \A k \in A : k <= LastOf(A)
      BY <1>1, <2>2, LastOfNumbers
    <3>2. CASE LastOf(A) <= m
      <4>1. \A k \in A : k <= m
        <5>1. \A k \in A : k \in 1 .. n /\ k \in Int
          OBVIOUS
        <5>2. m \in Int
          BY <1>1, <1>n
        <5>4. LastOf(A) \in Int
          BY <3>1, <5>1, Zenon
        <5>3. ASSUME NEW k \in A PROVE k <= m
          <6>1. k \in Int /\ k <= LastOf(A)
            BY <3>1, <5>1
          <6> QED BY <3>2, <5>2, <5>4, <6>1
        <5> QED BY <5>3
      <4>2. upto(A) = A
        BY <4>1
      <4> QED BY <4>2
    <3>3. CASE ~ (LastOf(A) <= m)
      <4> DEFINE B == A \ {LastOf(A)}
      <4>1. h[A] = h[B]
        BY <1>2, <1>m, <2>2, <3>1, <3>3
      <4>2. B \in G
        BY <1>3, <3>1
      <4>3. upto(B) = upto(A)
        BY <3>3
      <4> HIDE DEF B, upto
      <4> QED BY <4>1, <4>2, <4>3
    <3> QED BY <3>2, <3>3
  <2> QED BY <2>1, <2>2
<1>4. h[1 .. n] = h[1 .. m]
  <2>1. \A A \in SUBSET (1 .. n) : (\A B \in SUBSET A : B # A => B \in G) => A \in G
    BY <1>3
  <2>2. IsFiniteSet(1 .. n) /\ 1 .. n \in SUBSET (1 .. n)
    BY <1>1, FS_Interval
  <2>3. upto(1 .. n) = 1 .. m
    BY <1>1, <1>n
  <2> HIDE DEF G, upto, f
  <2>4. PICK all : all = 1 .. n
    OBVIOUS
  <2>5. 1 .. n \in G
    <3>1. \A A \in SUBSET all : (\A B \in SUBSET A : B # A => B \in G) => A \in G
      BY <2>1, <2>4
    <3>2. IsFiniteSet(all)
      BY <2>2, <2>4
    <3>3. all \in G
      BY <3>1, <3>2, SubsetInduction
    <3> QED BY <2>4, <3>3
  <2>6. h[1 .. n] = h[upto(1 .. n)]
    BY <2>5 DEF G
  <2> QED BY <2>3, <2>6
<1>5. f \in [0 .. n -> Sessions]
  <2>1. \A k \in 0 .. n : 1 .. k \in SUBSET (1 .. n)
    BY <1>1
  <2>2. \A A \in SUBSET (1 .. n) : h[A] \in Sessions
    BY <1>2
  <2>3. \A k \in 0 .. n : h[1 .. k] \in Sessions
    BY <2>1, <2>2
  <2> QED BY <2>3
<1>6. f[0] = s /\ f[m] = h[1 .. n]
  <2>1. 1 .. 0 = {} /\ 0 \in 0 .. n
    BY <1>1
  <2> QED BY <1>2, <1>4, <1>n, <2>1
<1>7. ASSUME NEW k \in 1 .. n
      PROVE  f[k] = IF k \in heard THEN Heard(f[k - 1], calls[k].what) ELSE f[k - 1]
  <2>1. /\ 1 .. k \in SUBSET (1 .. n) /\ 1 .. k # {} /\ k \in 1 .. k
        /\ k \in 0 .. n /\ k - 1 \in 0 .. n
    <3>1. k \in Nat /\ 1 <= k /\ k <= n
      BY <1>1
    <3>2. k \in 1 .. k /\ k \in 0 .. n /\ k - 1 \in 0 .. n
      BY <1>1, <3>1
    <3>3. 1 .. k \in SUBSET (1 .. n)
      BY <1>1, <3>1
    <3> QED BY <3>2, <3>3
  <2>2. LastOf(1 .. k) = k
    <3>1. LastOf(1 .. k) \in 1 .. k /\ k <= LastOf(1 .. k)
      BY <1>1, <2>1, LastOfNumbers
    <3> QED BY <3>1
  <2>3. (1 .. k) \ {k} = 1 .. (k - 1)
    BY <1>1
  <2>4. f[k] = h[1 .. k] /\ f[k - 1] = h[1 .. (k - 1)]
    BY <2>1
  <2> HIDE DEF f
  <2>5. h[1 .. k] = IF LastOf(1 .. k) \in heard
                    THEN Heard(h[(1 .. k) \ {LastOf(1 .. k)}], calls[LastOf(1 .. k)].what)
                    ELSE h[(1 .. k) \ {LastOf(1 .. k)}]
    BY <1>2, <2>1
  <2>6. h[1 .. k] = IF k \in heard THEN Heard(h[1 .. (k - 1)], calls[k].what)
                    ELSE h[1 .. (k - 1)]
    BY <2>2, <2>3, <2>5, Zenon
  <2> QED BY <2>4, <2>6
<1> HIDE DEF f
<1> QED
  BY <1>2, <1>5, <1>6, <1>7 DEF n, Tracing

(* The calls that are made, those about an attempt, and those that are     *)
(* lost, when the call numbered `last' raises; and what the handler leaves. *)
Made(run, last) == {k \in DOMAIN run.calls : k <= last}

About(run, last, i) == {k \in Made(run, last) : run.calls[k].att = i}

Lost(run, last, heard) ==
  {k \in Made(run, last) : \/ k \notin heard /\ run.calls[k].what # "created"
                           \/ k = last /\ run.calls[k].what = "deleted"}

Left(run, last) == IF last \in Made(run, last) THEN run.calls[last].db ELSE run.db

Registers(run) == {k \in DOMAIN run.calls : run.calls[k].what = "created"}

(* The ledger of slot i when the handler has gone, kept that it was lost   *)
(* from sight before.                                                      *)
Closing(u, run, last, heard, i, o, s0, kept) ==
  /\ u \in Ledger
  /\ u.s = LastHeard(run.calls, s0, heard \cap About(run, last, i))
  /\ Fits(Row(Left(run, last), i), u, o, s0)
  /\ u.mark = "lost" => About(run, last, i) \cap Lost(run, last, heard) # {}
  /\ u.mark = "kept" => kept = "kept" /\ (About(run, last, i) = {} \/ s0 = "deleted")

(* The calls of a run, as they are heard, are a trail of ledgers.          *)
LEMMA RunFits ==
  ASSUME NEW run \in Runs, NEW d, NEW i \in Slots, NEW o, NEW s0 \in Sessions,
         KeepsAt(run, d, i, o, s0),
         NEW kept \in {"clear", "kept"},
         Fits(Row(d, i), [s |-> s0, mark |-> kept], o, s0),
         NEW last \in 1 .. Len(run.calls) + 1, NEW heard \in SUBSET Made(run, last),
         {k \in Registers(run) : k <= last} \ {last} = Registers(run) \cap heard
  PROVE  \E u : Closing(u, run, last, heard, i, o, s0, kept)
<1> DEFINE C == run.calls
           n == Len(C)
           m == IF last <= n THEN last ELSE n
           about == About(run, last, i)
           lost == Lost(run, last, heard)
           H == heard \cap about
<1>1. C \in Seq(Call) /\ n \in Nat /\ DOMAIN C = 1 .. n /\ \A k \in 1 .. n : C[k] \in Call
  <2>1. C \in Seq(Call)
    BY DEF Runs
  <2> HIDE DEF C
  <2> QED BY <2>1, LenProperties, ElementOfSeq
<1>2. /\ m \in 0 .. n /\ last \in Nat /\ 1 <= last
      /\ last <= n => m = last
      /\ ~ (last <= n) => m = n
  BY <1>1
<1>3. /\ \A k \in 1 .. n : k <= m <=> k <= last
      /\ about = {k \in 1 .. n : k <= last /\ C[k].att = i}
      /\ lost = {k \in 1 .. n : /\ k <= last
                                /\ \/ k \notin heard /\ C[k].what # "created"
                                   \/ k = last /\ C[k].what = "deleted"}
  <2>1. \A k \in 1 .. n : k <= m <=> k <= last
    BY <1>1, <1>2
  <2>2. about = {k \in 1 .. n : k <= last /\ C[k].att = i}
    BY <1>1 DEF About, Made
  <2>3. lost = {k \in 1 .. n : /\ k <= last
                               /\ \/ k \notin heard /\ C[k].what # "created"
                                  \/ k = last /\ C[k].what = "deleted"}
    BY <1>1 DEF Lost, Made
  <2> QED BY <2>1, <2>2, <2>3
<1>4. \A k \in 1 .. n : C[k].what = "created" =>
        (k \in heard <=> k <= last /\ k # last)
  BY <1>1 DEF Registers
<1>k. KeepsAt(run, d, i, o, s0) /\ Fits(Row(d, i), [s |-> s0, mark |-> kept], o, s0)
  OBVIOUS
<1> HIDE DEF m, about, lost
<1>f. PICK f : Tracing(f, C, n, m, s0, H)
  <2>1. \A k \in 1 .. Len(C) : k \in H => k <= m
    BY <1>3
  <2> HIDE DEF C, H
  <2> QED BY <1>1, <1>2, <2>1, HeardTrace
<1>5. /\ f \in [0 .. n -> Sessions]
      /\ f[0] = s0 /\ f[m] = LastHeard(C, s0, H)
      /\ \A k \in 1 .. n :
           f[k] = IF k \in H THEN Heard(f[k - 1], C[k].what) ELSE f[k - 1]
  BY <1>f DEF Tracing
<1> HIDE DEF C, n
<1> DEFINE mark(k) == IF \E l \in about \cap lost : l <= k THEN "lost"
                      ELSE IF kept = "kept" /\ (s0 = "deleted" \/ \A l \in about : ~ (l <= k))
                      THEN "kept" ELSE "clear"
           t == [k \in 0 .. n |-> [s |-> f[k], mark |-> mark(k)]]
<1>6. t \in Ledgers(C)
  BY <1>5 DEF Ledgers, Ledger, n
<1>7. /\ \A k \in 0 .. n : t[k].s = f[k] /\ t[k].mark = mark(k)
      /\ \A k \in 0 .. n : t[k] = [s |-> f[k], mark |-> mark(k)]
  OBVIOUS
<1> HIDE DEF t
<1>8. t[0] = [s |-> s0, mark |-> kept]
  <2>1. \A l \in about : ~ (l <= 0)
    BY <1>3
  <2>2. mark(0) = kept
    BY <2>1
  <2> QED BY <1>1, <1>5, <1>7, <2>2
<1>9. ASSUME NEW k \in 1 .. m
      PROVE  /\ k # last => t[k] \in Answered(C[k], i, s0, t[k - 1])
             /\ k = last => t[k] \in Raised(C[k], i, s0, t[k - 1])
  <2>1. /\ k \in 1 .. n /\ k \in 0 .. n /\ k - 1 \in 0 .. n /\ k <= last
        /\ t[k] = [s |-> f[k], mark |-> mark(k)]
        /\ t[k - 1] = [s |-> f[k - 1], mark |-> mark(k - 1)]
        /\ \A l \in 1 .. n : l <= k <=> l <= k - 1 \/ l = k
    <3>1. k \in 1 .. n /\ k \in 0 .. n /\ k - 1 \in 0 .. n
      BY <1>1, <1>2
    <3>2. \A l \in 1 .. n : l <= k <=> l <= k - 1 \/ l = k
      BY <3>1
    <3>3. k <= last
      BY <1>3, <3>1
    <3> HIDE DEF mark
    <3> QED BY <1>7, <3>1, <3>2, <3>3
  <2>2. CASE C[k].att # i
    <3>1. k \notin about /\ k \notin H
      BY <1>3, <2>2
    <3>2. mark(k) = mark(k - 1)
      <4>1. \A l \in about : l <= k <=> l <= k - 1
        BY <1>3, <2>1, <3>1
      <4> QED BY <4>1
    <3>3. f[k] = f[k - 1]
      BY <1>5, <2>1, <3>1
    <3> HIDE DEF mark
    <3>4. t[k] = t[k - 1]
      BY <2>1, <3>2, <3>3
    <3> QED BY <2>2, <3>4 DEF Answered, Raised
  <2>3. CASE C[k].att = i
    <3> PICK w : w = C[k].what
      OBVIOUS
    <3> PICK u : u = t[k - 1]
      OBVIOUS
    <3> PICK v : v = t[k]
      OBVIOUS
    <3>1. k \in about /\ (k \in H <=> k \in heard)
      BY <1>3, <2>1, <2>3
    <3>2. v.s = IF k \in heard THEN Heard(u.s, w) ELSE u.s
      <4>1. v.s = f[k] /\ u.s = f[k - 1]
        BY <1>7, <2>1
      <4> QED BY <1>5, <2>1, <3>1, <4>1
    <3>3. v.mark = mark(k) /\ u.mark = mark(k - 1)
      BY <1>7, <2>1
    <3>4. k \in lost => v.mark = "lost"
      BY <2>1, <3>1, <3>3
    <3>5. k \notin lost =>
            v.mark = IF u.mark = "kept" /\ s0 # "deleted" THEN "clear" ELSE u.mark
      <4>1. /\ k \notin lost => \A l \in about \cap lost : l <= k <=> l <= k - 1
            /\ \E l \in about : l <= k
        BY <1>3, <2>1, <3>1
      <4>2. \A l \in about : l <= k - 1 => l <= k
        BY <1>3, <2>1
      <4> QED BY <3>3, <4>1, <4>2
    <3>6. v = [s |-> v.s, mark |-> v.mark]
      <4> HIDE DEF mark
      <4> QED BY <2>1
    <3>7. /\ k \in lost <=> \/ k \notin heard /\ w # "created"
                            \/ k = last /\ w = "deleted"
          /\ w = "created" => (k \in heard <=> k # last)
      BY <1>3, <1>4, <2>1
    <3> HIDE DEF mark
    <3>8. k \in heard /\ k \notin lost => v = Told(w, u, s0)
      BY <3>2, <3>5, <3>6 DEF Told
    <3>9. k \in heard /\ k \in lost => v = Missed(Told(w, u, s0))
      BY <3>2, <3>4, <3>6 DEF Told, Missed
    <3>10. k \notin heard /\ k \in lost => v = Missed(u)
      BY <3>2, <3>4, <3>6 DEF Missed
    <3>11. k \notin heard /\ k \notin lost =>
             v = [s |-> u.s, mark |-> Told(w, u, s0).mark]
      BY <3>2, <3>5, <3>6 DEF Told
    <3>12. k # last => v \in Answers(w, u, s0)
      BY <3>7, <3>8, <3>10 DEF Answers
    <3>13. k = last => v \in Raises(w, u, s0)
      BY <3>7, <3>8, <3>9, <3>10, <3>11 DEF Raises
    <3> QED BY <2>3, <3>12, <3>13 DEF Answered, Raised
  <2> QED BY <2>2, <2>3
<1> HIDE DEF mark
<1>a. /\ Trail(C, n, i, s0, t) => Fits(Row(run.db, i), t[n], o, s0)
      /\ \A k \in 1 .. n :
           Trail(C, k - 1, i, s0, t) /\ t[k] \in Raised(C[k], i, s0, t[k - 1])
             => Fits(Row(C[k].db, i), t[k], o, s0)
  BY <1>6, <1>8, <1>k DEF KeepsAt, C, n
<1>10. ASSUME last <= n
       PROVE  Fits(Row(Left(run, last), i), t[m], o, s0)
  <2>1. last \in 1 .. n /\ m = last /\ Left(run, last) = C[last].db
    BY <1>1, <1>2, <1>10 DEF Left, Made, C
  <2>2. Trail(C, last - 1, i, s0, t)
    <3>1. \A k \in 1 .. (last - 1) : k \in 1 .. m /\ k # last
      BY <1>2, <2>1
    <3> QED BY <1>9, <3>1 DEF Trail
  <2>3. t[last] \in Raised(C[last], i, s0, t[last - 1])
    BY <1>2, <1>9, <2>1
  <2> QED BY <1>a, <2>1, <2>2, <2>3
<1>11. ASSUME ~ (last <= n)
       PROVE  Fits(Row(Left(run, last), i), t[m], o, s0)
  <2>1. m = n /\ Left(run, last) = run.db
    BY <1>1, <1>2, <1>11 DEF Left, Made, C
  <2>2. \A k \in 1 .. n : k # last
    BY <1>1, <1>2, <1>11
  <2>3. Trail(C, n, i, s0, t)
    BY <1>9, <2>1, <2>2 DEF Trail
  <2> QED BY <1>a, <2>1, <2>3
<1>12. /\ mark(m) = "lost" => about \cap lost # {}
       /\ mark(m) = "kept" => kept = "kept" /\ (about = {} \/ s0 = "deleted")
  <2>1. \A l \in about : l <= m
    BY <1>3
  <2> QED BY <2>1 DEF mark
<1>13. t[m] \in Ledger
  BY <1>2, <1>6 DEF Ledgers, n
<1> QED
  BY <1>2, <1>5, <1>7, <1>10, <1>11, <1>12, <1>13 DEF about, lost, C, Closing

(* What StartToldOnce says of a step.                                      *)
StartsOnce ==
  \A i \in Slots :
    session'[i] = "restarted" /\ session[i] # "restarted"
      => ~ db.att[Exam][i].started /\ db'.att[Exam][i].expired

LEMMA LinesFit ==
  ASSUME SessionsFit
  PROVE  /\ db \in Lines /\ pastDue \in SUBSET Dated
         /\ session \in [Slots -> Sessions] /\ astray \subseteq Slots
         /\ \A i \in Slots : SessionFits(i)
  BY LineIs DEF SessionsFit, AttemptsInLine, SessionTypeOK

LEMMA LinesFitNext ==
  ASSUME db' \in Lines, pastDue' \in SUBSET Dated,
         session' \in [Slots -> Sessions], astray' \in SUBSET Slots,
         \A i \in Slots : SessionFits(i)'
  PROVE  SessionsFit'
<1>1. AttemptsInLine'
  BY DEF AttemptsInLine, Lines
<1>2. SessionTypeOK'
  BY DEF SessionTypeOK, TypeOK, Lines
<1> QED
  BY <1>1, <1>2 DEF SessionsFit

(* What the ledger says of slot i when the run is over.                    *)
LEMMA LedgerFits ==
  ASSUME NEW i \in Slots, NEW a \in Attempt, a = db'.att[Exam][i],
         NEW a0 \in Attempt, NEW s0, NEW u \in Ledger, Fits(a, u, a0, s0),
         session'[i] = u.s, u.mark # "clear" => i \in astray',
         a0.registered /\ a.row = "live" /\ ~ a.registered => i \in astray'
  PROVE  SessionFits(i)'
<1>1. u.mark \in {"clear", "kept", "lost"}
  BY DEF Ledger
<1>2. /\ a.row = "unused" => u.s = "none" /\ ~ a.started
      /\ a.row = "archived" => i \in astray' \/ u.s \in {"none", "deleted"}
      /\ a.row = "live" /\ ~ a.registered => i \in astray' \/ u.s = "none"
      /\ a.row = "live" /\ a.registered =>
           /\ u.s # "none" /\ (u.s = "deleted" => i \in astray')
           /\ ~ a.started /\ a.status \in Incomplete => u.s \in {"created", "deleted"}
           /\ i \in astray' \/ Agrees(a, u.s)
  BY <1>1 DEF Fits, Attempt
<1> QED
  BY <1>2 DEF SessionFits

LEMMA FitsAtFirst ==
  ASSUME NEW i \in Slots, SessionFits(i), NEW s0, s0 = session[i],
         NEW a, a = db.att[Exam][i], a \in Attempt
  PROVE  Fits(a, [s |-> s0, mark |-> IF i \in astray THEN "kept" ELSE "clear"], a, s0)
  BY DEF Fits, SessionFits

(* A handler whose run keeps every attempt and its session fitting.        *)
LEMMA PerformKeeps ==
  ASSUME SessionsFit, NEW run, Keeps(run, db), Perform(run)
  PROVE  SessionsFit' /\ StartsOnce
<1>1. /\ db \in Lines /\ pastDue \in SUBSET Dated
      /\ session \in [Slots -> Sessions] /\ astray \subseteq Slots
      /\ \A i \in Slots : SessionFits(i)
  BY LinesFit
<1>2. /\ run \in Runs
      /\ \A i \in Slots : \A s0 : KeepsAt(run, db, i, Row(db, i), s0)
  BY DEF Keeps
<1> PICK last \in 1 .. Len(run.calls) + 1 :
      \E heard \in SUBSET Made(run, last) :
        /\ {k \in Registers(run) : k <= last} \ {last} = Registers(run) \cap heard
        /\ PerformUpTo(run, last, heard)
        /\ UNCHANGED pastDue
  BY DEF Perform, Made, Registers
<1>3. PICK heard \in SUBSET Made(run, last) :
        /\ {k \in Registers(run) : k <= last} \ {last} = Registers(run) \cap heard
        /\ PerformUpTo(run, last, heard)
        /\ UNCHANGED pastDue
  OBVIOUS
<1> DEFINE about(i) == About(run, last, i)
           lost == Lost(run, last, heard)
<1>4. /\ db' = Left(run, last)
      /\ session' = [i \in Slots |-> LastHeard(run.calls, session[i], heard \cap about(i))]
      /\ astray' = {i \in astray : about(i) = {} \/ session[i] = "deleted"} \cup
           {i \in Slots : about(i) \cap lost # {}} \cup
           {i \in Slots : db.att[Exam][i].registered
                          /\ Left(run, last).att[Exam][i].row = "live"
                          /\ ~ Left(run, last).att[Exam][i].registered}
  BY <1>3 DEF PerformUpTo, Made, About, Lost, Left
<1> HIDE DEF about, lost
<1>5. db' \in Lines
  <2>1. CASE last \in Made(run, last)
    <3>1. run.calls \in Seq(Call) /\ last \in DOMAIN run.calls
      BY <1>2, <2>1 DEF Runs, Made
    <3>2. run.calls[last] \in Call
      BY <3>1
    <3> QED BY <1>4, <2>1, <3>2 DEF Left, Call
  <2>2. CASE last \notin Made(run, last)
    BY <1>2, <1>4, <2>2 DEF Left, Runs
  <2> QED BY <2>1, <2>2
<1>6. ASSUME NEW i \in Slots
      PROVE  /\ session'[i] \in Sessions /\ SessionFits(i)'
             /\ session'[i] = "restarted" /\ session[i] # "restarted"
                  => ~ db.att[Exam][i].started /\ db'.att[Exam][i].expired
  <2> PICK a0 : a0 = db.att[Exam][i]
    OBVIOUS
  <2> PICK a : a = db'.att[Exam][i]
    OBVIOUS
  <2> PICK s0 : s0 = session[i]
    OBVIOUS
  <2> PICK kept : kept = IF i \in astray THEN "kept" ELSE "clear"
    OBVIOUS
  <2>1. a0 \in Attempt /\ a \in Attempt /\ a0 = Row(db, i) /\ a = Row(Left(run, last), i)
    BY <1>1, <1>4, <1>5, RowType DEF Row
  <2>2. Fits(a0, [s |-> s0, mark |-> kept], a0, s0)
    BY <1>1, <2>1, FitsAtFirst
  <2>3. s0 \in Sessions /\ kept \in {"clear", "kept"} /\ KeepsAt(run, db, i, a0, s0)
    BY <1>1, <1>2, <2>1
  <2>4. PICK u : Closing(u, run, last, heard, i, a0, s0, kept)
    <3>1. Fits(Row(db, i), [s |-> s0, mark |-> kept], a0, s0)
      BY <2>1, <2>2
    <3>2. /\ last \in 1 .. Len(run.calls) + 1 /\ heard \in SUBSET Made(run, last)
          /\ {k \in Registers(run) : k <= last} \ {last} = Registers(run) \cap heard
      BY <1>3
    <3> QED BY <1>2, <2>3, <3>1, <3>2, RunFits
  <2>5. session'[i] = u.s /\ Fits(a, u, a0, s0)
    BY <1>4, <2>1, <2>4 DEF about, Closing
  <2>6. u.mark # "clear" => i \in astray'
    <3>1. u.mark \in {"clear", "kept", "lost"}
      BY <2>4 DEF Closing, Ledger
    <3>2. u.mark = "lost" => i \in astray'
      BY <1>4, <2>4 DEF about, lost, Closing
    <3>3. u.mark = "kept" => i \in astray'
      BY <1>4, <2>4 DEF about, Closing
    <3> QED BY <3>1, <3>2, <3>3
  <2>7. a0.registered /\ a.row = "live" /\ ~ a.registered => i \in astray'
    BY <1>4
  <2>8. SessionFits(i)'
    BY <2>1, <2>4, <2>5, <2>6, <2>7, LedgerFits DEF Closing
  <2>9. u.s \in Sessions
    BY <2>4 DEF Closing, Ledger
  <2>10. u.s = "restarted" /\ s0 # "restarted" => ~ a0.started /\ a.expired
    BY <2>5 DEF Fits
  <2> QED BY <2>5, <2>8, <2>9, <2>10
<1>7. session' \in [Slots -> Sessions] /\ astray' \in SUBSET Slots
  <2>1. session' = [i \in Slots |-> session'[i]]
    BY <1>4
  <2> QED BY <1>1, <1>4, <1>6, <2>1
<1> QED
  BY <1>1, <1>3, <1>5, <1>6, <1>7, LinesFitNext DEF StartsOnce

-----------------------------------------------------------------------------
(* The actions.                                                            *)

LEMMA ServedPutKeeps ==
  ASSUME NEW d \in Lines, NEW i \in Live(d, Exam), NEW to \in ValidStatus
  PROVE  Keeps(Joined(Reading(d, i), Updating(Read(d, Exam, i), i, to, FALSE)), d)
<1>1. ASSUME NEW instantly \in BOOLEAN, NEW next,
             next = Updating(Read(d, Exam, i), i, to, instantly)
      PROVE  Keeps(Joined(Reading(d, i), next), d)
  BY <1>1, ServedUpdateKeeps
<1> QED
  BY <1>1, Zenon

LEMMA ServedStartKeeps ==
  ASSUME NEW d \in Lines, NEW i \in Live(d, Exam), NEW instantly \in BOOLEAN
  PROVE  Keeps(Joined(Reading(d, i), Starting(Read(d, Exam, i), instantly)), d)
<1> PICK d1 : d1 = Read(d, Exam, i)
  OBVIOUS
<1> PICK next : next = Starting(d1, instantly)
  OBVIOUS
<1>1. d1 \in Lines /\ \A j \in Slots : Row(d, j) \in Attempt
  BY FoundRow, RowType
<1>2. /\ next \in Runs
      /\ \A j \in Slots : \A o \in Attempt : \A s0 : KeepsAt(next, d1, j, o, s0)
  BY <1>1, StartingKeeps
<1>3. \A j \in Slots : \A s0 : KeepsAt(next, Read(d, Exam, i), j, Row(d, j), s0)
  BY <1>1, <1>2
<1> QED
  BY <1>2, <1>3, ServedKeeps

(* Requests that name an attempt.                                          *)
LEMMA ServingKeeps ==
  ASSUME SessionsFit, NEW i,
         \/ Polling(i) \/ ReportingError(i) \/ Releasing(i)
         \/ \E instantly \in BOOLEAN : StartingUp(i, instantly)
         \/ \E to \in ValidStatus : Putting(i, to)
         \/ Deleting(i) \/ \E link \in BOOLEAN : CallingBack(i, link)
  PROVE  SessionsFit' /\ StartsOnce
<1>1. db \in Lines
  BY LinesFit
<1>2. {"error", "submitted", "ready_to_start"} \subseteq ValidStatus
  BY DEF ValidStatus, Completed, Incomplete, PreStarted, InProgress
<1>3. ASSUME NEW next, Serving(i, next),
             i \in Live(db, Exam) => Keeps(Joined(Reading(db, i), next), db)
      PROVE  SessionsFit' /\ StartsOnce
  <2>1. PICK run : run = Joined(Reading(db, i), next)
    OBVIOUS
  <2>2. Perform(run) /\ Keeps(run, db)
    BY <1>3, <2>1 DEF Serving
  <2> QED BY <2>2, PerformKeeps
<1>4. ASSUME NEW to \in ValidStatus, Serving(i, Updating(Found(i), i, to, FALSE))
      PROVE  SessionsFit' /\ StartsOnce
  BY <1>1, <1>3, <1>4, ServedPutKeeps DEF Found
<1>5. ASSUME Serving(i, Run(Found(i)))
      PROVE  SessionsFit' /\ StartsOnce
  BY <1>1, <1>3, <1>5, ServedQuietKeeps DEF Found
<1>6. CASE Polling(i)
  BY <1>5, <1>6 DEF Polling
<1>7. CASE ReportingError(i)
  <2>1. Serving(i, Run(Found(i))) \/ Serving(i, Updating(Found(i), i, "error", FALSE))
    BY <1>7 DEF ReportingError
  <2> QED BY <1>2, <1>4, <1>5, <2>1
<1>8. CASE Releasing(i)
  <2>1. PICK d2 : d2 = [Found(i) EXCEPT !.att[Exam][i] =
                          IF @.resumable
                          THEN [@ EXCEPT !.ready = TRUE, !.resumable = FALSE] ELSE @]
    OBVIOUS
  <2>2. Serving(i, Run(d2))
    BY <1>8, <2>1 DEF Releasing
  <2>3. i \in Live(db, Exam) => Keeps(Joined(Reading(db, i), Run(d2)), db)
    BY <1>1, <2>1, ReleasingKeeps DEF Found
  <2> QED BY <1>3, <2>2, <2>3
<1>9. CASE \E instantly \in BOOLEAN : StartingUp(i, instantly)
  <2>1. PICK instantly \in BOOLEAN : Serving(i, Starting(Found(i), instantly))
    BY <1>9 DEF StartingUp
  <2> QED BY <1>1, <1>3, <2>1, ServedStartKeeps DEF Found
<1>10. CASE \E to \in ValidStatus : Putting(i, to)
  BY <1>4, <1>10 DEF Putting
<1>11. CASE Deleting(i)
  BY <1>1, <1>3, <1>11, DeletingKeeps DEF Deleting, Found
<1>12. CASE \E link \in BOOLEAN : CallingBack(i, link)
  <2>1. \/ Serving(i, Updating(Found(i), i, "ready_to_start", FALSE))
        \/ Serving(i, Updating(Found(i), i, "submitted", FALSE))
        \/ Serving(i, Run(Found(i)))
    BY <1>12 DEF CallingBack
  <2> QED BY <1>2, <1>4, <1>5, <2>1
<1> QED
  BY <1>6, <1>7, <1>8, <1>9, <1>10, <1>11, <1>12

(* Staff and management commands that read nothing before.                 *)
LEMMA RawWritesKeep ==
  ASSUME SessionsFit, NEW i,
         \/ DeletingRaw(i) \/ \E to \in ValidStatus : SettingStatus(i, to)
         \/ DeletingAll
  PROVE  SessionsFit' /\ StartsOnce
<1>1. db \in Lines
  BY LinesFit
<1>2. CASE DeletingRaw(i)
  <2>1. PICK run : run = [db    |-> [db EXCEPT !.att[Exam][i] = Archived],
                          calls |-> Tell(db, i, "deleted")]
    OBVIOUS
  <2>2. Perform(run) /\ Keeps(run, db)
    BY <1>1, <1>2, <2>1, DeletingRawKeeps DEF DeletingRaw
  <2> QED BY <2>2, PerformKeeps
<1>3. CASE \E to \in ValidStatus : SettingStatus(i, to)
  <2>1. PICK to \in ValidStatus : SettingStatus(i, to)
    BY <1>3
  <2>2. PICK run : run = Updating(db, i, to, FALSE)
    OBVIOUS
  <2>3. Perform(run) /\ Keeps(run, db)
    BY <1>1, <2>1, <2>2, SettingKeeps DEF SettingStatus
  <2> QED BY <2>3, PerformKeeps
<1>4. CASE DeletingAll
  <2>1. PICK order \in SetToSeqs(Live(db, Exam)) :
          Perform(FoldLeft(ThenRemoving, Run(db), order))
    BY <1>4 DEF DeletingAll
  <2>2. PICK run : run = FoldLeft(ThenRemoving, Run(db), order)
    OBVIOUS
  <2>3. Perform(run) /\ Keeps(run, db)
    BY <1>1, <2>1, <2>2, RemovingAllKeeps
  <2> QED BY <2>3, PerformKeeps
<1> QED
  BY <1>2, <1>3, <1>4

(* A request to enter the exam.                                            *)
LEMMA PostingFits ==
  ASSUME SessionsFit, NEW proctored \in BOOLEAN, NEW startClock \in BOOLEAN,
         NEW outcome \in Outcomes(Exam, proctored), NEW instantly \in BOOLEAN,
         Posting(proctored, startClock, outcome, instantly)
  PROVE  SessionsFit' /\ StartsOnce
<1>1. PICK created : created = Creating(db, proctored, outcome)
  OBVIOUS
<1>2. PICK entered : entered = Entering(created, proctored, startClock, instantly)
  OBVIOUS
<1>3. db \in Lines /\ Unused(db, Exam) # {}
  BY LinesFit DEF Posting, RoomToCreate
<1>4. /\ Keeps(created, db)
      /\ Creates(db, Exam, proctored, outcome) => Keeps(entered, db)
  BY <1>1, <1>2, <1>3, PostingKeeps
<1>5. \/ Creates(db, Exam, proctored, outcome) /\ Perform(entered)
      \/ Perform(created)
  BY <1>1, <1>2 DEF Posting
<1> QED
  BY <1>4, <1>5, PerformKeeps

(* The clock.                                                              *)
LEMMA TickKeeps ==
  ASSUME SessionsFit, ClockNext(Exam), UNCHANGED <<session, astray>>
  PROVE  SessionsFit' /\ StartsOnce
<1>1. /\ db \in Lines /\ pastDue \in SUBSET Dated
      /\ session \in [Slots -> Sessions] /\ astray \subseteq Slots
      /\ \A i \in Slots : SessionFits(i)
  BY LinesFit
<1>2. db' \in Lines /\ pastDue' \in SUBSET Dated
  <2>1. Next
    BY ExamIs DEF Next, AttemptNext
  <2>2. AttemptsInLine'
    BY <2>1, NextInLine DEF SessionsFit
  <2> QED BY <2>2, LineIs DEF AttemptsInLine, Lines
<1>3. ASSUME NEW i \in Slots
      PROVE  SessionFits(i)'
  <2>1. CASE UNCHANGED db
    <3>1. SessionFits(i)
      BY <1>1
    <3> QED BY <2>1, <3>1 DEF SessionFits
  <2>2. CASE \E j \in Slots : Expire(Exam, j)
    <3>1. PICK j \in Slots : Expire(Exam, j)
      BY <2>2
    <3> PICK a : a = db.att[Exam][i]
      OBVIOUS
    <3> PICK b : b = db'.att[Exam][i]
      OBVIOUS
    <3>2. /\ b.row = a.row /\ b.registered = a.registered /\ b.started = a.started
          /\ b.status = a.status
      BY <1>1, <3>1, ExamIs DEF Expire, Lines, Database, Attempt
    <3>3. SessionFits(i)
      BY <1>1
    <3> QED BY <3>2, <3>3 DEF SessionFits, Agrees
  <2> QED BY <2>1, <2>2 DEF ClockNext, PassDue, ExtendDue
<1>4. StartsOnce
  BY DEF StartsOnce
<1> QED
  BY <1>1, <1>2, <1>3, <1>4, LinesFitNext

-----------------------------------------------------------------------------
(* The theorems.                                                           *)

LEMMA InitFits == SessionInit => SessionsFit
<1> SUFFICES ASSUME SessionInit PROVE SessionsFit
  OBVIOUS
<1>1. AttemptsInLine
  BY InitInLine DEF SessionInit
<1>2. SessionTypeOK
  BY <1>1 DEF SessionInit, SessionTypeOK, TypeOK, AttemptsInLine, InLine, Sound,
     Sessions
<1>3. ASSUME NEW i \in Slots PROVE SessionFits(i)
  <2>1. db.att[Exam][i] = NoRow /\ session[i] = "none"
    BY ExamIs DEF SessionInit, Init
  <2>2. NoRow.row = "unused" /\ ~ NoRow.started
    BY DEF NoRow
  <2> QED BY <2>1, <2>2 DEF SessionFits
<1> QED
  BY <1>1, <1>2, <1>3 DEF SessionsFit

LEMMA SessionNextKeeps ==
  ASSUME SessionsFit, SessionNext
  PROVE  SessionsFit' /\ StartsOnce
<1>1. /\ Verdicts \subseteq ValidStatus /\ AdminStatuses \subseteq ValidStatus
      /\ {"ready_to_submit", "submitted", "download_software_clicked",
          "declined"} \subseteq ValidStatus
  <2>1. {"ready_to_submit", "submitted", "download_software_clicked",
         "declined"} \subseteq ValidStatus
    BY DEF ValidStatus, Completed, Incomplete, PreStarted, InProgress
  <2> QED BY <2>1, VerdictsValid, ConstantsAssumption
<1>2. CASE \E proctored, startClock \in BOOLEAN :
             \E outcome \in Outcomes(Exam, proctored), instantly \in {FALSE, startClock} :
               Posting(proctored, startClock, outcome, instantly)
  <2>1. PICK proctored \in BOOLEAN, startClock \in BOOLEAN :
          \E outcome \in Outcomes(Exam, proctored), instantly \in {FALSE, startClock} :
            Posting(proctored, startClock, outcome, instantly)
    BY <1>2
  <2>2. PICK outcome \in Outcomes(Exam, proctored), instantly \in {FALSE, startClock} :
          Posting(proctored, startClock, outcome, instantly)
    BY <2>1
  <2>3. instantly \in BOOLEAN
    OBVIOUS
  <2> QED BY <2>2, <2>3, PostingFits
<1>3. CASE DeletingAll
  BY <1>3, RawWritesKeep
<1>4. CASE ClockNext(Exam) /\ UNCHANGED <<session, astray>>
  BY <1>4, TickKeeps
<1>5. ASSUME NEW i \in Slots,
             \/ Polling(i) \/ ReportingError(i) \/ Releasing(i)
             \/ \E instantly \in BOOLEAN : StartingUp(i, instantly)
             \/ \E to \in ValidStatus : Putting(i, to)
             \/ Deleting(i) \/ \E link \in BOOLEAN : CallingBack(i, link)
      PROVE  SessionsFit' /\ StartsOnce
  BY <1>5, ServingKeeps
<1>6. ASSUME NEW i \in Slots, NEW to \in AdminStatuses \cup Verdicts
                                        \cup {db.att[Exam][i].status},
             SettingStatus(i, to)
      PROVE  SessionsFit' /\ StartsOnce
  <2>1. db.att[Exam][i].status \in ValidStatus
    <3>1. RowSound(Exam, Row(db, i)) /\ Exam \in SatOnce
      BY LinesFit, RowType
    <3> QED BY <3>1 DEF RowSound, SatOnce, Row
  <2>2. to \in ValidStatus
    BY <1>1, <2>1
  <2> QED BY <1>6, <2>2, RawWritesKeep
<1>7. ASSUME NEW i \in Slots, DeletingRaw(i)
      PROVE  SessionsFit' /\ StartsOnce
  BY <1>7, RawWritesKeep
<1> QED
  BY <1>1, <1>2, <1>3, <1>4, <1>5, <1>6, <1>7 DEF SessionNext

LEMMA StepFits ==
  ASSUME SessionsFit, [SessionNext]_sessionVars
  PROVE  SessionsFit' /\ StartsOnce
<1>1. CASE UNCHANGED sessionVars
  <2>1. AttemptsInLine'
    BY <1>1 DEF SessionsFit, AttemptsInLine, sessionVars
  <2>2. SessionTypeOK'
    BY <1>1 DEF SessionsFit, SessionTypeOK, TypeOK, sessionVars
  <2>3. \A i \in Slots : SessionFits(i)'
    BY <1>1 DEF SessionsFit, SessionFits, sessionVars
  <2>4. StartsOnce
    BY <1>1 DEF StartsOnce, sessionVars
  <2> QED BY <2>1, <2>2, <2>3, <2>4 DEF SessionsFit
<1>2. CASE SessionNext
  BY <1>2, SessionNextKeeps
<1> QED
  BY <1>1, <1>2

(* The service has a session for every attempt that is registered, and for *)
(* no other, in the state the attempt is in, until a call has been lost:   *)
(* whichever handler ends an attempt, and wherever in its course a call    *)
(* raises and leaves it half done.                                         *)
THEOREM SessionsAlwaysFit == SessionSpec => []SessionsFit
<1>1. SessionsFit /\ [SessionNext]_sessionVars => SessionsFit'
  BY StepFits
<1> QED
  BY <1>1, InitFits, PTL DEF SessionSpec

(* Every variable has its type.                                            *)
THEOREM SessionTypeCorrect == SessionSpec => []SessionTypeOK
<1>1. SessionsFit => SessionTypeOK
  BY DEF SessionsFit
<1> QED
  BY <1>1, SessionsAlwaysFit, PTL

(* Unless a call about it has got lost, the service has an attempt in the  *)
(* state the platform has it in.                                           *)
THEOREM ServiceAgrees == SessionSpec => []SessionAgrees
<1>1. SessionsFit => SessionAgrees
  BY DEF SessionsFit, SessionFits, SessionAgrees, Agrees, Live, Incomplete
<1> QED
  BY <1>1, SessionsAlwaysFit, PTL

(* No session is left behind by an attempt that has been removed.          *)
THEOREM NoGhosts == SessionSpec => []NoGhostSession
<1>1. SessionsFit => NoGhostSession
  BY DEF SessionsFit, SessionFits, NoGhostSession
<1> QED
  BY <1>1, SessionsAlwaysFit, PTL

(* The service is told of a start once, however often the clock is started *)
(* and whichever calls are lost: a session starts again only for an exam   *)
(* that ends as it starts.                                                 *)
THEOREM StartsAreToldOnce == SessionSpec => StartToldOnce
<1>1. SessionsFit /\ [SessionNext]_sessionVars => [StartsOnce]_sessionVars
  BY StepFits
<1> QED
  BY <1>1, SessionsAlwaysFit, PTL DEF SessionSpec, StartToldOnce, StartsOnce

(* The credit of the learner follows the attempts even if handlers are     *)
(* left half done by a service that does not answer.                       *)
THEOREM CreditHonouredInSessions == SessionSpec => []CreditHonoursAttempts
<1>1. SessionsFit => CreditHonoursAttempts
  BY DEF SessionsFit, AttemptsInLine, InLine, CreditHonest, CreditHonoursAttempts,
     SatOnce
<1> QED
  BY <1>1, SessionsAlwaysFit, PTL
=============================================================================
