------------------------ MODULE ExamAttempts_proofs ------------------------
(***************************************************************************)
(* Proofs about ExamAttempts.  First, each row of the attempt table stays  *)
(* sound: every operator that a handler is composed of is shown to lead    *)
(* from a sound database to a sound one, and the actions follow from the   *)
(* operators they call.  Then the attempts at an exam together, and the    *)
(* credit that follows them; last, that they implement ExamSitting.        *)
(***************************************************************************)
EXTENDS ExamAttempts, Integers, FiniteSetTheorems, WellFoundedInduction,
        SequenceTheorems, TLAPS

(* A non-empty set of numbers up to a bound has a largest element: the     *)
(* sets of the larger elements, ordered by inclusion, have a minimal one.  *)
LEMMA NonEmptyHasMax ==
  ASSUME NEW N \in Nat, NEW S \in SUBSET (1..N), S # {}
  PROVE  \E m \in S : \A k \in S : k <= m
<1> DEFINE Above(m) == {k \in S : k > m}
           T == {Above(m) : m \in S}
<1>1. IsFiniteSet(S)
  <2>1. IsFiniteSet(1..N)
    BY FS_Interval, 1 \in Int, N \in Int
  <2> QED BY <2>1, FS_Subset
<1>2. \A m \in S : Above(m) \in SUBSET S
  OBVIOUS
<1>3. IsWellFoundedOn(StrictSubsetOrdering(S), FiniteSubsetsOf(S))
  BY <1>1, FS_StrictSubsetOrderingWellFounded
<1>4. T \subseteq FiniteSubsetsOf(S) /\ T # {}
  <2>1. \A m \in S : IsFiniteSet(Above(m))
    BY <1>1, <1>2, FS_Subset
  <2> HIDE DEF Above
  <2> QED BY <2>1, <1>2 DEF FiniteSubsetsOf
<1>5. PICK x \in T : \A y \in T : ~ (<<y, x>> \in StrictSubsetOrdering(S))
  <2> HIDE DEF T
  <2> QED BY <1>3, <1>4, WFMin
<1>6. PICK m \in S : x = Above(m)
  OBVIOUS
<1>7. ASSUME NEW k \in S, ~ (k <= m)
      PROVE  FALSE
  <2>1. k \in Int /\ m \in Int /\ k > m
    BY <1>7
  <2>2. Above(k) \subseteq Above(m) /\ Above(k) # Above(m)
    <3>1. k \in Above(m) /\ k \notin Above(k)
      BY <2>1
    <3>2. ASSUME NEW j \in Above(k) PROVE j \in Above(m)
      <4>1. j \in Int /\ j > k
        OBVIOUS
      <4> QED BY <4>1, <2>1
    <3> QED BY <3>1, <3>2
  <2>3. <<Above(k), Above(m)>> \in StrictSubsetOrdering(S)
    <3> HIDE DEF Above
    <3> QED BY <2>2, <1>2 DEF StrictSubsetOrdering
  <2>4. Above(k) \in T
    OBVIOUS
  <2> QED BY <2>3, <2>4, <1>5, <1>6
<1> QED
  BY <1>7

(* Induction over the subsets of a finite set, for a set G of them.        *)
LEMMA SubsetInduction ==
  ASSUME NEW S, IsFiniteSet(S), NEW G,
         \A A \in SUBSET S : (\A B \in SUBSET A : B # A => B \in G) => A \in G
  PROVE  \A A \in SUBSET S : A \in G
<1> DEFINE C == (SUBSET S) \ G
<1>1. SUFFICES ASSUME C # {} PROVE FALSE
  OBVIOUS
<1>2. FiniteSubsetsOf(S) = SUBSET S
  BY FS_FiniteSubsetsOfFinite
<1>3. IsWellFoundedOn(StrictSubsetOrdering(S), SUBSET S)
  BY <1>2, FS_StrictSubsetOrderingWellFounded
<1>4. C \subseteq SUBSET S
  OBVIOUS
<1> HIDE DEF C
<1>5. PICK A \in C : \A B \in C : ~ (<<B, A>> \in StrictSubsetOrdering(S))
  BY <1>1, <1>3, <1>4, WFMin
<1>6. ASSUME NEW B \in SUBSET A, B # A PROVE B \in G
  <2>1. SUFFICES ASSUME B \in C PROVE FALSE
    BY <1>4 DEF C
  <2>2. <<B, A>> \in (SUBSET S) \X (SUBSET S)
    BY <1>4, <2>1
  <2>3. <<B, A>> \in StrictSubsetOrdering(S)
    BY <1>6, <2>2 DEF StrictSubsetOrdering
  <2> QED BY <1>5, <2>1, <2>3
<1> QED
  BY <1>6 DEF C

(* The current attempt is a live one, and none is later.                   *)
LEMMA LatestIsLive ==
  ASSUME NEW d, NEW e \in Exams, HasAttempt(d, e)
  PROVE  /\ Latest(d, e) \in Live(d, e)
         /\ Latest(d, e) \in Slots
         /\ \A j \in Live(d, e) : j <= Latest(d, e)
<1>1. Live(d, e) \in SUBSET (1 .. MaxAttempts) /\ Live(d, e) # {}
  BY DEF Live, Slots, HasAttempt
<1>2. \E m \in Live(d, e) : \A k \in Live(d, e) : k <= m
  BY <1>1, NonEmptyHasMax, ConstantsAssumption
<1> QED
  BY <1>2, <1>1 DEF Latest, Slots

(* A time-out or a re-entry may change the status asked for, to submitted. *)
LEMMA EffectiveStatusType ==
  ASSUME NEW from, NEW to \in Status
  PROVE  /\ EffectiveStatus(from, to, AllowTimedOut) \in Status
         /\ to \in ValidStatus =>
              EffectiveStatus(from, to, AllowTimedOut) \in ValidStatus
         /\ to = "timed_out" /\ ~ AllowTimedOut =>
              EffectiveStatus(from, to, AllowTimedOut) = "submitted"
  BY DEF EffectiveStatus, Status, ValidStatus, Completed

(* What can be asked for as the status of an attempt at exam e.            *)
CanHave(e, to) == to \in Status /\ (Kind[e] # "practice" => to \in ValidStatus)

(* No change to a status that ends an attempt is refused.                  *)
LEMMA EndingIsLegal ==
  ASSUME NEW from, NEW to \in Completed
  PROVE  IsLegal(from, EffectiveStatus(from, to, AllowTimedOut))
  BY DEF IsLegal, EffectiveStatus, IsReattempting, Completed, OnboardingErrors,
         Incomplete, PreStarted, InProgress

(* Saving a legal change of status keeps a sound row sound.                *)
LEMMA SavedSound ==
  ASSUME NEW e \in Exams, NEW a, RowSound(e, a), NEW to, CanHave(e, to),
         NEW stamped \in BOOLEAN, NEW instantly \in BOOLEAN,
         IsLegal(a.status, EffectiveStatus(a.status, to, AllowTimedOut))
  PROVE  RowSound(e, Saved(a, to, stamped, instantly))
<1> DEFINE status  == EffectiveStatus(a.status, to, AllowTimedOut)
           begins  == status = "started" /\ ~ a.started
           timeout == to = "timed_out" /\ ~ AllowTimedOut
           b       == Saved(a, to, stamped, instantly)
<1>1. a \in Attempt
  BY DEF RowSound
<1>2. b = [a EXCEPT
        !.status    = status,
        !.started   = a.started \/ begins,
        !.expired   = IF begins THEN instantly ELSE a.expired,
        !.completed = IF timeout THEN stamped
                      ELSE a.completed \/ status = "submitted",
        !.resumable = IsResumable(a, status)]
  BY DEF Saved
<1>3. status \in Status /\ (Kind[e] # "practice" => status \in ValidStatus)
  BY EffectiveStatusType DEF CanHave
<1>4. timeout => status = "submitted"
  BY EffectiveStatusType DEF CanHave
<1>5. IsResumable(a, status) \in BOOLEAN
  BY <1>1 DEF IsResumable, InResumeProcess, Attempt
<1>6. a.started \in BOOLEAN /\ a.expired \in BOOLEAN /\ a.completed \in BOOLEAN
  BY <1>1 DEF Attempt
<1> HIDE DEF status
<1>7. b \in Attempt
  BY <1>1, <1>2, <1>3, <1>5, <1>6 DEF Attempt
<1>8. /\ b.status = status
      /\ b.resumable = IsResumable(a, status)
      /\ b.ready = a.ready /\ b.resumed = a.resumed
      /\ b.completed = IF timeout THEN stamped
                       ELSE a.completed \/ status = "submitted"
  BY <1>1, <1>2 DEF Attempt
<1> HIDE DEF b
<1>9. b.resumable => ~ b.ready /\ ~ b.resumed
  BY <1>8 DEF IsResumable, InResumeProcess
<1>10. b.resumed => b.ready
  BY <1>8 DEF RowSound
<1>11. b.status = "error" => b.resumable \/ InResumeProcess(b)
  BY <1>8 DEF IsResumable, InResumeProcess
<1>12. ASSUME Kind[e] # "practice", b.completed
       PROVE  b.status \in Completed
  <2>1. CASE status = "submitted"
    BY <2>1, <1>8 DEF Completed
  <2>2. CASE status # "submitted"
    <3>1. a.completed
      BY <2>2, <1>4, <1>8, <1>12
    <3>2. a.status \in Completed
      BY <3>1, <1>12 DEF RowSound
    <3>3. status \notin Incomplete
      BY <3>2 DEF IsLegal, status
    <3> QED BY <3>3, <1>3, <1>8, <1>12 DEF ValidStatus
  <2> QED BY <2>1, <2>2
<1>13. ASSUME Kind[e] # "practice", b.status \in Incomplete
       PROVE  ~ b.resumable /\ ~ InResumeProcess(b)
  <2>1. a.status \notin Completed
    BY <1>8, <1>13 DEF IsLegal, status
  <2>2. ~ a.resumable /\ ~ InResumeProcess(a)
    BY <2>1, <1>13 DEF RowSound, ValidStatus
  <2>3. status # "error"
    BY <1>8, <1>13 DEF Incomplete, PreStarted, InProgress
  <2> QED BY <2>2, <2>3, <1>8 DEF IsResumable, InResumeProcess
<1> QED
  BY <1>3, <1>7, <1>8, <1>9, <1>10, <1>11, <1>12, <1>13 DEF RowSound, b

-----------------------------------------------------------------------------
(* Loops over sequences.  FoldLeft is a recursion on the sets of           *)
(* positions: what is done at the last of them comes after the others.     *)

LastOf(A) == CHOOSE k \in A : \A l \in A : k >= l

Loops(h, U, seq, base, F) ==
  h = [A \in SUBSET U |->
         IF A = {} THEN base
         ELSE F[<<h[A \ {LastOf(A)}], seq[LastOf(A)]>>]]

(* A set of positions has a last one.                                      *)
LEMMA LastIn ==
  ASSUME NEW X, NEW seq \in Seq(X), NEW A \in SUBSET DOMAIN seq, A # {}
  PROVE  LastOf(A) \in A /\ seq[LastOf(A)] \in X
<1>1. Len(seq) \in Nat /\ DOMAIN seq = 1 .. Len(seq)
  BY LenProperties
<1>2. PICK m \in A : \A k \in A : k <= m
  BY <1>1, NonEmptyHasMax
<1>3. \A k \in A : m >= k
  BY <1>1, <1>2
<1>4. LastOf(A) \in A
  BY <1>2, <1>3 DEF LastOf
<1> QED
  BY <1>4, ElementOfSeq

(* What a loop makes of some positions depends on these alone.             *)
LEMMA LoopsAgree ==
  ASSUME NEW X, NEW seq \in Seq(X), NEW base, NEW F,
         NEW U \in SUBSET DOMAIN seq, NEW V \in SUBSET DOMAIN seq,
         NEW g, Loops(g, U, seq, base, F),
         NEW h, Loops(h, V, seq, base, F)
  PROVE  \A A \in SUBSET (U \cap V) : g[A] = h[A]
<1> DEFINE D == DOMAIN seq
           G == {A \in SUBSET D : A \in SUBSET (U \cap V) => g[A] = h[A]}
<1>1. ASSUME NEW A \in SUBSET D, \A B \in SUBSET A : B # A => B \in G,
             A \in SUBSET (U \cap V)
      PROVE  g[A] = h[A]
  <2>1. A \in SUBSET U /\ A \in SUBSET V
    BY <1>1
  <2>2. /\ g[A] = IF A = {} THEN base
                  ELSE F[<<g[A \ {LastOf(A)}], seq[LastOf(A)]>>]
        /\ h[A] = IF A = {} THEN base
                  ELSE F[<<h[A \ {LastOf(A)}], seq[LastOf(A)]>>]
    BY <2>1 DEF Loops
  <2>3. ASSUME A # {} PROVE g[A \ {LastOf(A)}] = h[A \ {LastOf(A)}]
    <3>1. A \ {LastOf(A)} \in SUBSET A /\ A \ {LastOf(A)} # A
      BY <2>3, LastIn
    <3> QED BY <1>1, <3>1
  <2> QED BY <2>2, <2>3
<1>2. \A A \in SUBSET D : (\A B \in SUBSET A : B # A => B \in G) => A \in G
  BY <1>1
<1>3. IsFiniteSet(D)
  BY LenProperties, FS_Interval
<1> HIDE DEF G
<1>4. \A A \in SUBSET D : A \in G
  BY <1>2, <1>3, SubsetInduction
<1> QED
  BY <1>4 DEF G

(* A step from the values V to the values V makes a loop over any sequence. *)
LEMMA LoopsExist ==
  ASSUME NEW X, NEW seq \in Seq(X), NEW V, NEW base \in V, NEW F \in [V \X X -> V]
  PROVE  \A A \in SUBSET DOMAIN seq :
           \E h \in [SUBSET A -> V] : Loops(h, A, seq, base, F)
<1> DEFINE D == DOMAIN seq
           some(h, A) == h \in [SUBSET A -> V] /\ Loops(h, A, seq, base, F)
           G == {A \in SUBSET D : \E h : some(h, A)}
<1>1. ASSUME NEW U \in SUBSET D, \A B \in SUBSET U : B # U => B \in G
      PROVE  \E h : some(h, U)
  <2> DEFINE of(B) == CHOOSE h : some(h, B)
             rest(A) == A \ {LastOf(A)}
             value(A) == IF A = {} THEN base
                         ELSE F[<<of(rest(A))[rest(A)], seq[LastOf(A)]>>]
             f == [A \in SUBSET U |-> value(A)]
  <2>1. ASSUME NEW B \in SUBSET U, B # U PROVE some(of(B), B)
    <3>1. \E h : some(h, B)
      BY <1>1, <2>1
    <3> HIDE DEF some
    <3> QED BY <3>1
  <2>2. \A A \in SUBSET U : A # {} =>
          /\ rest(A) \in SUBSET A /\ rest(A) # A
          /\ rest(A) \in SUBSET U /\ rest(A) # U
          /\ seq[LastOf(A)] \in X
    BY LastIn
  <2> HIDE DEF of
  <2>3. \A A \in SUBSET U : value(A) \in V
    <3>1. ASSUME NEW A \in SUBSET U, A # {} PROVE value(A) \in V
      <4> DEFINE R == rest(A)
      <4>1. R \in SUBSET U /\ R # U /\ seq[LastOf(A)] \in X
        BY <2>2, <3>1
      <4>2. of(R)[R] \in V
        <5>1. of(R) \in [SUBSET R -> V] /\ R \in SUBSET R
          BY <2>1, <4>1
        <5> QED BY <5>1
      <4>3. value(A) = F[<<of(R)[R], seq[LastOf(A)]>>]
        BY <3>1
      <4> HIDE DEF R, value
      <4> QED BY <4>1, <4>2, <4>3
    <3>2. value({}) \in V
      OBVIOUS
    <3> QED BY <3>1, <3>2
  <2>4. ASSUME NEW B \in SUBSET U, B # U PROVE value(B) = of(B)[B]
    <3>1. of(B)[B] = IF B = {} THEN base
                     ELSE F[<<of(B)[rest(B)], seq[LastOf(B)]>>]
      <4>1. B \in SUBSET B /\ Loops(of(B), B, seq, base, F)
        BY <2>1, <2>4
      <4> QED BY <4>1 DEF Loops
    <3>2. ASSUME B # {} PROVE of(B)[rest(B)] = of(rest(B))[rest(B)]
      <4> DEFINE R == rest(B)
      <4>1. R \in SUBSET B /\ R \in SUBSET U /\ R # U
        BY <2>2, <3>2
      <4> HIDE DEF R
      <4>2. Loops(of(B), B, seq, base, F) /\ Loops(of(R), R, seq, base, F)
        BY <2>1, <2>4, <4>1
      <4>3. R \in SUBSET D /\ B \in SUBSET D /\ R \in SUBSET (B \cap R)
        BY <4>1
      <4>4. of(B)[R] = of(R)[R]
        BY <4>2, <4>3, LoopsAgree
      <4> QED BY <4>4 DEF R
    <3> QED BY <3>1, <3>2
  <2>5. ASSUME NEW A \in SUBSET U
        PROVE  f[A] = IF A = {} THEN base
                      ELSE F[<<f[rest(A)], seq[LastOf(A)]>>]
    <3>1. CASE A = {}
      BY <3>1
    <3>2. CASE A # {}
      <4> DEFINE R == rest(A)
      <4>1. R \in SUBSET U /\ R # U
        BY <2>2, <3>2
      <4>2. f[A] = F[<<of(R)[R], seq[LastOf(A)]>>]
        BY <3>2
      <4>3. f[R] = value(R)
        BY <4>1
      <4> HIDE DEF R, f, value
      <4>4. f[R] = of(R)[R]
        BY <2>4, <4>1, <4>3
      <4> QED BY <3>2, <4>2, <4>4 DEF R
    <3> QED BY <3>1, <3>2
  <2>6. f \in [SUBSET U -> V] /\ f = [A \in SUBSET U |-> f[A]]
    <3> HIDE DEF value
    <3> QED BY <2>3
  <2> HIDE DEF f
  <2>7. f = [A \in SUBSET U |-> IF A = {} THEN base
                                ELSE F[<<f[rest(A)], seq[LastOf(A)]>>]]
    BY <2>5, <2>6
  <2>8. some(f, U)
    BY <2>6, <2>7 DEF Loops
  <2> QED BY <2>8
<1>2. \A A \in SUBSET D : (\A B \in SUBSET A : B # A => B \in G) => A \in G
  BY <1>1
<1>3. IsFiniteSet(D)
  BY LenProperties, FS_Interval
<1> HIDE DEF G, some
<1>4. \A A \in SUBSET D : A \in G
  BY <1>2, <1>3, SubsetInduction
<1> QED
  BY <1>4 DEF G, some

-----------------------------------------------------------------------------
(* The operators on the database.                                          *)

(* A row that is not in use, any more or yet, is sound.                    *)
LEMMA UnusedRowsSound ==
  ASSUME NEW e \in Exams
  PROVE  RowSound(e, NoRow) /\ RowSound(e, Archived)
  BY DEF RowSound, NoRow, Archived, Attempt, Status, ValidStatus, Incomplete,
         PreStarted, InResumeProcess

(* When the time of an attempt runs out its row stays sound, as the status *)
(* and the resume flags are left alone.                                    *)
LEMMA ExpiredSound ==
  ASSUME NEW e \in Exams, NEW a, RowSound(e, a)
  PROVE  RowSound(e, [a EXCEPT !.expired = TRUE])
<1> DEFINE b == [a EXCEPT !.expired = TRUE]
<1>1. /\ b \in Attempt
      /\ b.status = a.status /\ b.completed = a.completed
      /\ b.resumable = a.resumable /\ b.ready = a.ready /\ b.resumed = a.resumed
  BY DEF RowSound, Attempt
<1> HIDE DEF b
<1> QED
  BY <1>1 DEF RowSound, InResumeProcess, b

(* So it does when an attempt is withdrawn.                                *)
LEMMA WithdrawnSound ==
  ASSUME NEW e \in Exams, NEW a, RowSound(e, a)
  PROVE  RowSound(e, [a EXCEPT !.proctored = FALSE, !.registered = FALSE])
<1> DEFINE b == [a EXCEPT !.proctored = FALSE, !.registered = FALSE]
<1>1. /\ b \in Attempt
      /\ b.status = a.status /\ b.completed = a.completed
      /\ b.resumable = a.resumable /\ b.ready = a.ready /\ b.resumed = a.resumed
  BY DEF RowSound, Attempt
<1> HIDE DEF b
<1> QED
  BY <1>1 DEF RowSound, InResumeProcess, b

(* A database with its attempts, or the record of the LMS, replaced.       *)
LEMMA RecordUpdate ==
  ASSUME NEW A, NEW C, NEW O, NEW d \in [att : A, credit : C, override : O],
         NEW x \in A, NEW c \in C, NEW o \in O
  PROVE  /\ [d EXCEPT !.att = x] \in [att : A, credit : C, override : O]
         /\ [d EXCEPT !.att = x].att = x
         /\ [d EXCEPT !.credit = c, !.override = o]
              \in [att : A, credit : C, override : O]
         /\ [d EXCEPT !.credit = c, !.override = o].att = d.att
         /\ [d EXCEPT !.override = o, !.credit = c]
              \in [att : A, credit : C, override : O]
         /\ [d EXCEPT !.override = o, !.credit = c].att = d.att
         /\ [d EXCEPT !.att = x, !.override = o, !.credit = c]
              \in [att : A, credit : C, override : O]
         /\ [d EXCEPT !.att = x, !.override = o, !.credit = c].att = x
  OBVIOUS

OthersKept(d, d1, e, i) ==
  \A f \in Exams, j \in Slots : f # e \/ j # i => d1.att[f][j] = d.att[f][j]

WithRow(d, e, i, a) == [d EXCEPT !.att[e][i] = a]

(* Writing one sound row into a sound database; what is written to no slot *)
(* at all is not there.                                                    *)
LEMMA WriteRowSound ==
  ASSUME NEW d, Sound(d), NEW e \in Exams, NEW i, NEW a,
         i \in Slots => RowSound(e, a)
  PROVE  /\ Sound(WithRow(d, e, i, a))
         /\ \A f \in Exams, j \in Slots :
              WithRow(d, e, i, a).att[f][j] =
                IF f = e /\ j = i THEN a ELSE d.att[f][j]
<1> DEFINE att == [d.att EXCEPT ![e][i] = a]
           d1  == [d EXCEPT !.att = att]
<1>1. d \in Database /\ (i \in Slots => a \in Attempt)
  BY DEF Sound, RowSound
<1>2. WithRow(d, e, i, a) = d1
  BY DEF WithRow
<1>3. att \in [Exams -> [Slots -> Attempt]]
  BY <1>1 DEF Database
<1>4. \A f \in Exams, j \in Slots :
        att[f][j] = IF f = e /\ j = i THEN a ELSE d.att[f][j]
  BY <1>1 DEF Database
<1>5. \A f \in Exams, j \in Slots : RowSound(f, att[f][j])
  BY <1>4 DEF Sound
<1> HIDE DEF att
<1>6. d1 \in Database /\ d1.att = att
  BY <1>1, <1>3, RecordUpdate DEF Database
<1> QED
  BY <1>2, <1>4, <1>5, <1>6 DEF Sound, att

(* Telling the LMS about a status does not touch the attempts.             *)
LEMMA SettledSound ==
  ASSUME NEW d, Sound(d), NEW e \in Exams, NEW from, NEW to
  PROVE  Sound(Settled(d, e, from, to)) /\ Settled(d, e, from, to).att = d.att
<1> DEFINE d1 == Settled(d, e, from, to)
           credit == IF to \in NeedsCreditUpdate THEN CreditFor(to)
                     ELSE d.credit[e]
           override ==
             IF ~ OverrideOnReject THEN d.override[e]
             ELSE \/ to \in NeedsGradeOverride
                  \/ /\ d.override[e]
                     /\ ~ (to = "verified" /\ from \in NeedsGradeOverride)
<1>1. d \in Database
  BY DEF Sound
<1>2. CASE ~ CanUpdateCreditGradesAndEmail(d, e, to)
  BY <1>2 DEF Settled
<1>3. CASE CanUpdateCreditGradesAndEmail(d, e, to)
  <2>1. d1 = [d EXCEPT !.credit[e] = credit, !.override[e] = override]
    BY <1>3 DEF Settled
  <2>2. credit \in CreditStatus \cup {"none"}
    <3>1. d.credit[e] \in CreditStatus \cup {"none"}
      BY <1>1 DEF Database
    <3>2. to \in NeedsCreditUpdate => CreditFor(to) \in CreditStatus
      BY DEF NeedsCreditUpdate, CreditFor, CreditStatus
    <3> QED BY <3>1, <3>2
  <2>3. override \in BOOLEAN
    BY <1>1 DEF Database
  <2> DEFINE credits   == [d.credit EXCEPT ![e] = credit]
             overrides == [d.override EXCEPT ![e] = override]
  <2> HIDE DEF credit, override
  <2>4. d1 = [d EXCEPT !.credit = credits, !.override = overrides]
    BY <2>1
  <2>5. credits \in [Exams -> CreditStatus \cup {"none"}]
    BY <1>1, <2>2 DEF Database
  <2>6. overrides \in [Exams -> BOOLEAN]
    BY <1>1, <2>3 DEF Database
  <2> HIDE DEF credits, overrides, d1
  <2>7. d1 \in Database /\ d1.att = d.att
    BY <1>1, <2>4, <2>5, <2>6, RecordUpdate DEF Database
  <2> QED BY <2>7 DEF Sound, d1
<1> QED
  BY <1>2, <1>3

(* Saving a legal change of status, with what it does to credit and grade. *)
LEMMA SaveStatusSound ==
  ASSUME NEW d, Sound(d), NEW e \in Exams, NEW i, NEW to, CanHave(e, to),
         NEW stamped \in BOOLEAN, NEW instantly \in BOOLEAN,
         i \in Slots =>
           IsLegal(d.att[e][i].status,
                   EffectiveStatus(d.att[e][i].status, to, AllowTimedOut))
  PROVE  /\ Sound(SaveStatus(d, e, i, to, stamped, instantly))
         /\ OthersKept(d, SaveStatus(d, e, i, to, stamped, instantly), e, i)
<1> DEFINE row == Saved(d.att[e][i], to, stamped, instantly)
           d1  == WithRow(d, e, i, row)
<1>1. i \in Slots => RowSound(e, d.att[e][i])
  BY DEF Sound
<1>2. i \in Slots => RowSound(e, row)
  BY <1>1, SavedSound
<1>3. SaveStatus(d, e, i, to, stamped, instantly)
        = Settled(d1, e, d.att[e][i].status, row.status)
  BY DEF SaveStatus, WithRow
<1> HIDE DEF row
<1>4. /\ Sound(d1)
      /\ \A f \in Exams, j \in Slots :
           d1.att[f][j] = IF f = e /\ j = i THEN row ELSE d.att[f][j]
  BY <1>2, WriteRowSound
<1> HIDE DEF d1
<1> QED
  BY <1>3, <1>4, SettledSound, SMTT(30) DEF row, OthersKept

(* Clearing onboarding errors only archives rows.                          *)
LEMMA ClearOnboardingErrorsSound ==
  ASSUME NEW d, Sound(d), NEW e \in Exams, NEW to
  PROVE  /\ Sound(ClearOnboardingErrors(d, e, to))
         /\ \A f \in Exams, j \in Slots :
              ClearOnboardingErrors(d, e, to).att[f][j] \in {d.att[f][j], Archived}
<1> DEFINE att == [f \in Exams |-> [j \in Slots |->
                     IF j \in HasStatus(d, f, OnboardingErrors)
                     THEN Archived ELSE d.att[f][j]]]
           d1  == [d EXCEPT !.att = att]
<1>1. d \in Database /\ \A f \in Exams, j \in Slots : RowSound(f, d.att[f][j])
  BY DEF Sound
<1>2. ClearOnboardingErrors(d, e, to) \in {d, d1}
  BY DEF ClearOnboardingErrors
<1>3. \A f \in Exams, j \in Slots :
        att[f][j] \in {d.att[f][j], Archived} /\ RowSound(f, att[f][j])
  BY <1>1, UnusedRowsSound
<1>4. att \in [Exams -> [Slots -> Attempt]]
  BY <1>3 DEF RowSound
<1> HIDE DEF att
<1>5. d1 \in Database /\ d1.att = att
  BY <1>1, <1>4 DEF Database
<1> QED
  BY <1>1, <1>2, <1>3, <1>5 DEF Sound

(* Reading an attempt: it may be timed out, which is a legal change; the   *)
(* other rows stay as they are or are archived.                            *)
LEMMA ReadSound ==
  ASSUME NEW d, Sound(d), NEW e \in Exams, NEW i
  PROVE  /\ Sound(Read(d, e, i))
         /\ ~ Overdue(d.att[e][i]) => Read(d, e, i) = d
         /\ \A f \in Exams, j \in Slots : f # e \/ j # i =>
              Read(d, e, i).att[f][j] \in {d.att[f][j], Archived}
<1>1. CASE ~ Overdue(d.att[e][i])
  BY <1>1 DEF Read
<1>2. CASE Overdue(d.att[e][i])
  <2> DEFINE d1  == SaveStatus(d, e, i, "timed_out", TRUE, FALSE)
  <2>1. Read(d, e, i) = ClearOnboardingErrors(d1, e, "submitted")
    BY <1>2 DEF Read
  <2>2. CanHave(e, "timed_out")
    BY DEF CanHave, Status, ValidStatus, Completed
  <2>3. IsLegal(d.att[e][i].status,
                EffectiveStatus(d.att[e][i].status, "timed_out", AllowTimedOut))
    <3>1. "timed_out" \in Completed
      BY DEF Completed
    <3> QED BY <3>1, EndingIsLegal
  <2>4. Sound(d1) /\ OthersKept(d, d1, e, i)
    <3>1. ASSUME NEW s \in BOOLEAN, NEW n \in BOOLEAN
          PROVE  /\ Sound(SaveStatus(d, e, i, "timed_out", s, n))
                 /\ OthersKept(d, SaveStatus(d, e, i, "timed_out", s, n), e, i)
      BY <2>2, <2>3, SaveStatusSound
    <3> QED BY <3>1, Zenon
  <2> HIDE DEF d1
  <2>5. Sound(Read(d, e, i))
    BY <2>1, <2>4, ClearOnboardingErrorsSound
  <2>6. ASSUME NEW f \in Exams, NEW j \in Slots, f # e \/ j # i
        PROVE  Read(d, e, i).att[f][j] \in {d.att[f][j], Archived}
    <3>1. d1.att[f][j] = d.att[f][j]
      BY <2>4, <2>6 DEF OthersKept
    <3>2. ClearOnboardingErrors(d1, e, "submitted").att[f][j]
            \in {d1.att[f][j], Archived}
      BY <2>4, ClearOnboardingErrorsSound
    <3> QED BY <3>1, <3>2, <2>1
  <2> QED BY <1>2, <2>5, <2>6
<1> QED
  BY <1>1, <1>2

(* A new attempt is live, and has none of the flags.                       *)
LEMMA NewAttemptSound ==
  ASSUME NEW d, Sound(d), NEW e \in Exams, NEW status, CanHave(e, status),
         status # "error", NEW proctored \in BOOLEAN
  PROVE  Sound(NewAttempt(d, e, status, proctored))
<1> DEFINE row == [NoRow EXCEPT
                     !.row = "live", !.status = status, !.proctored = proctored,
                     !.registered = proctored /\ status = "created"]
<1>1. NewAttempt(d, e, status, proctored) = WithRow(d, e, FreshSlot(d, e), row)
  BY DEF NewAttempt, WithRow
<1>2. RowSound(e, row)
  BY DEF RowSound, CanHave, NoRow, Attempt, InResumeProcess
<1> QED
  BY <1>1, <1>2, WriteRowSound

(* The current attempt is read when the time allowed is worked out.        *)
LEMMA AllowedTimeReadSound ==
  ASSUME NEW d, Sound(d), NEW e \in Exams
  PROVE  Sound(AllowedTimeRead(d, e))
  BY ReadSound DEF AllowedTimeRead

(* An exam that is declined too: a complete attempt is not saved again.    *)
LEMMA DeclinedTooSound ==
  ASSUME NEW d, Sound(d), NEW f \in Exams
  PROVE  Sound(DeclinedToo(d, f))
<1> DEFINE d1 == IF HasAttempt(d, f) THEN Read(d, f, Latest(d, f))
                 ELSE NewAttempt(d, f, "created", FALSE)
           i  == Latest(d1, f)
           d2 == SaveStatus(d1, f, i, "declined", FALSE, FALSE)
<1>1. CanHave(f, "created") /\ CanHave(f, "declined") /\ "declined" \in Completed
  BY DEF CanHave, Status, ValidStatus, Completed, Incomplete, PreStarted
<1>2. Sound(Read(d, f, Latest(d, f)))
  BY ReadSound
<1>3. \A p \in BOOLEAN : Sound(NewAttempt(d, f, "created", p))
  BY <1>1, NewAttemptSound
<1>4. Sound(NewAttempt(d, f, "created", FALSE))
  BY <1>3, Zenon
<1>5. Sound(d1)
  BY <1>2, <1>4
<1>6. DeclinedToo(d, f) \in {d1, d2}
  BY DEF DeclinedToo
<1> HIDE DEF d1, i
<1>7. IsLegal(d1.att[f][i].status,
              EffectiveStatus(d1.att[f][i].status, "declined", AllowTimedOut))
  BY <1>1, EndingIsLegal
<1>8. ASSUME NEW s \in BOOLEAN, NEW n \in BOOLEAN
      PROVE  Sound(SaveStatus(d1, f, i, "declined", s, n))
  BY <1>1, <1>5, <1>7, SaveStatusSound
<1>9. Sound(d2)
  BY <1>8, Zenon
<1> QED
  BY <1>5, <1>6, <1>9

(* The cascade: each exam visited keeps sound rows.                        *)
LEMMA CascadeSound ==
  ASSUME NEW d, Sound(d), NEW e \in Exams
  PROVE  Sound(Cascade(d, e))
<1> DEFINE visited(f) == IF f \in OtherProctored(e) THEN DeclinedToo(d, f) ELSE d
<1>1. \A f \in Exams : Sound(visited(f))
  BY DeclinedTooSound
<1>2. Cascade(d, e) = [att      |-> [f \in Exams |-> visited(f).att[f]],
                       credit   |-> [f \in Exams |-> visited(f).credit[f]],
                       override |-> [f \in Exams |-> visited(f).override[f]]]
  BY DEF Cascade
<1> HIDE DEF visited
<1>3. \A f \in Exams :
        /\ visited(f).att[f] \in [Slots -> Attempt]
        /\ visited(f).credit[f] \in CreditStatus \cup {"none"}
        /\ visited(f).override[f] \in BOOLEAN
        /\ \A j \in Slots : RowSound(f, visited(f).att[f][j])
  BY <1>1 DEF Sound, Database
<1>4. Cascade(d, e) \in Database
  BY <1>2, <1>3 DEF Database
<1>5. \A f \in Exams, j \in Slots : RowSound(f, Cascade(d, e).att[f][j])
  BY <1>2, <1>3
<1> QED
  BY <1>4, <1>5 DEF Sound

(* The allowed time may be worked out from another attempt, and the read   *)
(* may end that one or clear this one, but what was a legal change of the  *)
(* attempt still is one.                                                   *)
LEMMA AllowedTimeKeepsLegal ==
  ASSUME NEW d, Sound(d), NEW e \in Exams, NEW i \in Slots, NEW to,
         IsLegal(d.att[e][i].status,
                 EffectiveStatus(d.att[e][i].status, to, AllowTimedOut)),
         NEW d0,
         d0 = IF /\ EffectiveStatus(d.att[e][i].status, to, AllowTimedOut) = "started"
                 /\ ~ d.att[e][i].started
              THEN AllowedTimeRead(d, e) ELSE d
  PROVE  IsLegal(d0.att[e][i].status,
                 EffectiveStatus(d0.att[e][i].status, to, AllowTimedOut))
<1>1. CASE d0.att[e][i] = d.att[e][i]
  BY <1>1
<1>2. CASE d0.att[e][i] = Archived
  BY <1>2 DEF IsLegal, Archived, NoRow, Completed, OnboardingErrors
<1>3. d0 = d \/ d0 = Read(d, e, Latest(d, e))
  BY DEF AllowedTimeRead
<1>4. CASE d0 # d
  <2>1. ~ Overdue(d.att[e][i])
    BY <1>4 DEF Overdue
  <2>2. d0 = Read(d, e, Latest(d, e)) /\ Latest(d, e) # i
    BY <1>3, <1>4, <2>1, ReadSound
  <2>3. d0.att[e][i] \in {d.att[e][i], Archived}
    BY <2>2, ReadSound
  <2> QED BY <2>3, <1>1, <1>2
<1> QED BY <1>1, <1>4

(* update_attempt_status.  The allowed time may read another attempt, and  *)
(* time that one out, but the status of the attempt itself is as it was    *)
(* when the transition was found legal.                                    *)
LEMMA UpdateSound ==
  ASSUME NEW d, Sound(d), NEW e \in Exams, NEW i, NEW to, CanHave(e, to),
         NEW instantly \in BOOLEAN
  PROVE  Sound(Update(d, e, i, to, instantly))
<1> DEFINE from == d.att[e][i].status
           new  == EffectiveStatus(from, to, AllowTimedOut)
           d0   == IF new = "started" /\ ~ d.att[e][i].started
                   THEN AllowedTimeRead(d, e) ELSE d
           d1   == SaveStatus(d0, e, i, to, FALSE, instantly)
           dc   == Withdrawn(d1, e, i)
           d2   == IF /\ new \in CascadableFailure
                      /\ CanUpdateCreditGradesAndEmail(d1, e, new)
                   THEN Cascade(dc, e) ELSE d1
<1>1. CASE ~ IsLegal(from, new)
  BY <1>1 DEF Update
<1>2. CASE IsLegal(from, new)
  <2>1. Update(d, e, i, to, instantly)
          = ClearOnboardingErrors(Read(d2, e, i), e, new)
    BY <1>2 DEF Update
  <2>2. Sound(d0)
    BY AllowedTimeReadSound
  <2>3. ASSUME i \in Slots
        PROVE  IsLegal(d0.att[e][i].status,
                       EffectiveStatus(d0.att[e][i].status, to, AllowTimedOut))
    BY <1>2, <2>3, AllowedTimeKeepsLegal
  <2>4. Sound(d1)
    <3> HIDE DEF d0
    <3>1. \A s \in BOOLEAN : Sound(SaveStatus(d0, e, i, to, s, instantly))
      BY <2>2, <2>3, SaveStatusSound
    <3> QED BY <3>1, Zenon
  <2> HIDE DEF d1, new
  <2>5. Sound(dc)
    <3> DEFINE row == [d1.att[e][i] EXCEPT !.proctored = FALSE,
                                           !.registered = FALSE]
    <3>1. dc = WithRow(d1, e, i, row)
      BY DEF WithRow, Withdrawn
    <3>2. i \in Slots => RowSound(e, row)
      <4>1. i \in Slots => RowSound(e, d1.att[e][i])
        BY <2>4 DEF Sound
      <4> QED BY <4>1, WithdrawnSound
    <3> QED BY <2>4, <3>1, <3>2, WriteRowSound
  <2> HIDE DEF dc
  <2>6. Sound(d2)
    BY <2>4, <2>5, CascadeSound
  <2> HIDE DEF d2
  <2> QED BY <2>1, <2>6, ReadSound, ClearOnboardingErrorsSound
<1> QED
  BY <1>1, <1>2

(* Only an attempt that was released is marked as resumed.                 *)
LEMMA MarkedResumedSound ==
  ASSUME NEW d, Sound(d), NEW e \in Exams
  PROVE  Sound(MarkedResumed(d, e))
<1> DEFINE i   == Latest(d, e)
           row == [d.att[e][i] EXCEPT !.resumed = TRUE, !.resumable = FALSE]
<1>1. CASE HasAttempt(d, e) /\ InResumeProcess(d.att[e][i])
  <2>1. MarkedResumed(d, e) = WithRow(d, e, i, row)
    BY <1>1 DEF MarkedResumed, WithRow
  <2>2. i \in Slots => RowSound(e, row)
    <3>1. \A a : RowSound(e, a) /\ InResumeProcess(a) =>
            RowSound(e, [a EXCEPT !.resumed = TRUE, !.resumable = FALSE])
      BY DEF RowSound, Attempt, InResumeProcess
    <3> QED BY <1>1, <3>1 DEF Sound
  <2> HIDE DEF i, row
  <2> QED BY <2>1, <2>2, WriteRowSound
<1>2. CASE ~ (HasAttempt(d, e) /\ InResumeProcess(d.att[e][i]))
  BY <1>2 DEF MarkedResumed
<1> QED
  BY <1>1, <1>2

(* Creating an attempt, with whatever the registration answers.            *)
LEMMA CreateAttemptSound ==
  ASSUME NEW d, Sound(d), NEW e \in Exams, NEW proctored \in BOOLEAN,
         NEW outcome \in Outcomes(e, proctored)
  PROVE  Sound(CreateAttempt(d, e, proctored, outcome))
<1> DEFINE d1 == MarkedResumed(d, e)
           d2 == IF proctored THEN AllowedTimeRead(d1, e) ELSE d1
<1>1. Sound(d1)
  BY MarkedResumedSound
<1> HIDE DEF d1
<1>2. Sound(d2)
  BY <1>1, AllowedTimeReadSound
<1>3. \/ proctored /\ outcome = "refused"
      \/ CanHave(e, outcome) /\ outcome # "error"
  BY ConstantsAssumption
  DEF Outcomes, CanHave, Status, ValidStatus, Completed, OnboardingErrors,
      Incomplete, PreStarted
<1>4. CreateAttempt(d, e, proctored, outcome) =
        IF ~ MayCreate(d, e) THEN d
        ELSE IF proctored /\ e \in pastDue THEN d1
        ELSE IF proctored /\ outcome = "refused" THEN d2
        ELSE NewAttempt(d2, e, outcome, proctored)
  BY DEF CreateAttempt, d1
<1> HIDE DEF d2
<1>5. ASSUME CanHave(e, outcome), outcome # "error"
      PROVE  Sound(NewAttempt(d2, e, outcome, proctored))
  BY <1>2, <1>5, NewAttemptSound
<1> QED
  BY <1>1, <1>2, <1>3, <1>4, <1>5

(* Starting the current attempt.                                           *)
LEMMA StartLatestSound ==
  ASSUME NEW d, Sound(d), NEW e \in Exams, NEW instantly \in BOOLEAN
  PROVE  Sound(StartLatest(d, e, instantly))
<1>1. CanHave(e, "started")
  BY DEF CanHave, Status, ValidStatus, Incomplete, InProgress
<1>2. StartLatest(d, e, instantly)
        \in {d, Update(d, e, Latest(d, e), "started", instantly)}
  BY DEF StartLatest
<1> QED
  BY <1>1, <1>2, UpdateSound

(* Removing an attempt archives it, and takes back credit and override.    *)
LEMMA RemovedSound ==
  ASSUME NEW d, Sound(d), NEW e \in Exams, NEW i
  PROVE  Sound(Removed(d, e, i))
<1> DEFINE d1       == WithRow(d, e, i, Archived)
           override == [d1.override EXCEPT ![e] = FALSE]
           credit   == [d1.credit EXCEPT ![e] =
                          IF d.att[e][i].status \in NeedsCreditUpdate
                          THEN "none" ELSE @]
           d2       == [d1 EXCEPT !.override = override, !.credit = credit]
<1>1. Removed(d, e, i) = d2
  BY DEF Removed, WithRow
<1>2. Sound(d1)
  BY UnusedRowsSound, WriteRowSound
<1> HIDE DEF d1
<1>3. /\ override \in [Exams -> BOOLEAN]
      /\ credit \in [Exams -> CreditStatus \cup {"none"}]
  BY <1>2 DEF Sound, Database
<1> HIDE DEF override, credit
<1>4. d2 \in Database /\ d2.att = d1.att
  BY <1>2, <1>3, RecordUpdate DEF Sound, Database
<1> QED
  BY <1>1, <1>2, <1>4 DEF Sound

(* Resetting a practice exam, which alone gives a row a status that is     *)
(* neither complete nor incomplete.                                        *)
LEMMA PracticeResetSound ==
  ASSUME NEW d, Sound(d), NEW e \in Exams, Kind[e] = "practice",
         NEW outcome \in Outcomes(e, d.att[e][Latest(d, e)].proctored)
  PROVE  Sound(PracticeReset(d, e, outcome))
<1> DEFINE i   == Latest(d, e)
           a   == d.att[e][i]
           row == [a EXCEPT !.status = "onboarding_reset"]
           d1  == IF a.status = "submitted" THEN Removed(d, e, i)
                  ELSE [d EXCEPT !.att[e][i].status = "onboarding_reset"]
<1>1. CASE ~ HasAttempt(d, e)
  BY <1>1 DEF PracticeReset
<1>2. CASE HasAttempt(d, e)
  <2>1. i \in Slots
    BY <1>2, LatestIsLive
  <2>2. RowSound(e, a) /\ a \in Attempt
    BY <2>1 DEF Sound, RowSound
  <2>3. RowSound(e, row)
    BY <2>2 DEF RowSound, Attempt, InResumeProcess, Status
  <2>4. [d EXCEPT !.att[e][i].status = "onboarding_reset"] = WithRow(d, e, i, row)
    BY DEF WithRow
  <2>5. PracticeReset(d, e, outcome)
          \in {d, CreateAttempt(d1, e, a.proctored, outcome)}
    BY DEF PracticeReset
  <2>6. a.proctored \in BOOLEAN
    BY <2>2 DEF Attempt
  <2> HIDE DEF row
  <2>7. Sound(WithRow(d, e, i, row)) /\ Sound(Removed(d, e, i))
    BY <2>3, WriteRowSound, RemovedSound
  <2>8. Sound(d1)
    BY <2>4, <2>7
  <2>9. outcome \in Outcomes(e, a.proctored)
    OBVIOUS
  <2> HIDE DEF a, d1, i
  <2> QED BY <2>5, <2>6, <2>8, <2>9, CreateAttemptSound
<1> QED
  BY <1>1, <1>2

-----------------------------------------------------------------------------
(* The actions.                                                            *)

(* Every status change that does not start the clock.                      *)
LEMMA PlainUpdateSound ==
  ASSUME NEW d, Sound(d), NEW e \in Exams, NEW i, NEW to, CanHave(e, to)
  PROVE  Sound(Update(d, e, i, to, FALSE))
<1>1. ASSUME NEW instantly \in BOOLEAN
      PROVE  Sound(Update(d, e, i, to, instantly))
  BY UpdateSound
<1> QED
  BY <1>1, Zenon

(* An exam of any kind can have the statuses                               *)
(* ProctoredExamStudentAttemptStatus lists as valid.                       *)
LEMMA ValidCanHave ==
  ASSUME NEW e \in Exams, NEW to \in ValidStatus
  PROVE  CanHave(e, to)
  BY DEF CanHave, Status

(* Entering an exam, with its decline or its start.                        *)
LEMMA PostSound ==
  ASSUME RowsSound, NEW e \in Exams, NEW proctored \in BOOLEAN,
         NEW startClock \in BOOLEAN, NEW outcome \in Outcomes(e, proctored),
         NEW instantly \in BOOLEAN,
         Post(e, proctored, startClock, outcome, instantly)
  PROVE  Sound(db')
<1> DEFINE d1 == CreateAttempt(db, e, proctored, outcome)
<1>1. Sound(d1)
  BY CreateAttemptSound DEF RowsSound
<1>2. CanHave(e, "declined")
  BY ValidCanHave DEF ValidStatus, Completed
<1>3. db' \in {d1, Update(d1, e, Latest(d1, e), "declined", FALSE),
              StartLatest(d1, e, instantly)}
  BY DEF Post
<1> HIDE DEF d1
<1> QED
  BY <1>1, <1>2, <1>3, PlainUpdateSound, StartLatestSound

(* Opening an exam after a prerequisite of it was declined.                *)
LEMMA DeclineForPrerequisiteSound ==
  ASSUME RowsSound, NEW e \in Exams, DeclineForPrerequisite(e)
  PROVE  Sound(db')
<1> DEFINE d1 == CreateAttempt(db, e, FALSE, "created")
<1>1. ASSUME NEW proctored \in BOOLEAN, ~ proctored
      PROVE  Sound(CreateAttempt(db, e, proctored, "created"))
  <2>1. "created" \in Outcomes(e, proctored)
    BY <1>1 DEF Outcomes
  <2> QED BY <2>1, CreateAttemptSound DEF RowsSound
<1>2. Sound(d1)
  BY <1>1, Zenon
<1>3. CanHave(e, "declined")
  BY ValidCanHave DEF ValidStatus, Completed
<1>4. db' = Update(d1, e, Latest(d1, e), "declined", FALSE)
  BY DEF DeclineForPrerequisite
<1> HIDE DEF d1
<1> QED
  BY <1>2, <1>3, <1>4, PlainUpdateSound

(* Reviews give valid statuses.                                            *)
LEMMA VerdictsValid == Verdicts \subseteq ValidStatus
  BY ConstantsAssumption DEF ValidStatus, Completed

(* The handlers that read the attempt before they act on it.               *)
LEMMA PutStatusSound ==
  ASSUME RowsSound, NEW e \in Exams, NEW i \in Slots, NEW to \in ValidStatus,
         PutStatus(e, i, to)
  PROVE  Sound(db')
<1>1. Sound(Read(db, e, i))
  BY ReadSound DEF RowsSound
<1>2. db' = Update(Read(db, e, i), e, i, to, FALSE)
  BY DEF PutStatus
<1> QED
  BY <1>1, <1>2, ValidCanHave, PlainUpdateSound

(* The handlers that read one attempt and update it.                       *)
LEMMA ReadingHandlersSound ==
  ASSUME RowsSound, NEW e \in Exams, NEW i \in Slots,
         \/ Stop(e, i) \/ Submit(e, i) \/ ClickDownload(e, i) \/ Decline(e, i)
         \/ \E instantly \in BOOLEAN : Start(e, i, instantly)
         \/ Error(e, i) \/ Poll(e, i) \/ ResetPractice(e, i)
         \/ MarkReadyToResume(e, i) \/ Delete(e, i)
         \/ ReadyCallback(e, i) \/ StartCallback(e, i) \/ ReviewCallback(e, i)
  PROVE  Sound(db')
<1> DEFINE d1 == Read(db, e, i)
<1>1. Sound(d1)
  BY ReadSound DEF RowsSound
<1>2. {"ready_to_submit", "submitted", "download_software_clicked", "declined",
       "error", "ready_to_start"} \subseteq ValidStatus
  BY DEF ValidStatus, Completed, Incomplete, InProgress, PreStarted
<1>3. CASE Stop(e, i) \/ Submit(e, i) \/ ClickDownload(e, i) \/ Decline(e, i)
  BY <1>2, <1>3, PutStatusSound DEF Stop, Submit, ClickDownload, Decline
<1> HIDE DEF d1
<1>4. ASSUME NEW to \in ValidStatus, db' = Update(d1, e, i, to, FALSE)
      PROVE  Sound(db')
  BY <1>1, <1>4, ValidCanHave, PlainUpdateSound
<1>5. ASSUME NEW instantly \in BOOLEAN, Start(e, i, instantly)
      PROVE  Sound(db')
  BY <1>1, <1>5, StartLatestSound DEF Start, d1
<1>6. CASE Error(e, i) \/ ReadyCallback(e, i) \/ StartCallback(e, i)
  <2>1. db' = d1 \/ \E to \in ValidStatus : db' = Update(d1, e, i, to, FALSE)
    BY <1>2, <1>6 DEF Error, ReadyCallback, StartCallback, d1
  <2> QED BY <1>1, <1>4, <2>1
<1>7. CASE Poll(e, i)
  BY <1>1, <1>7 DEF Poll, d1
<1>8. CASE ResetPractice(e, i)
  BY <1>1, <1>8, PracticeResetSound DEF ResetPractice, d1
<1>9. CASE MarkReadyToResume(e, i)
  <2> DEFINE row == [d1.att[e][i] EXCEPT !.ready = TRUE, !.resumable = FALSE]
  <2>1. db' = d1 \/ (d1.att[e][i].resumable /\ db' = WithRow(d1, e, i, row))
    BY <1>9 DEF MarkReadyToResume, d1, WithRow
  <2>2. d1.att[e][i].resumable => RowSound(e, row)
    <3>1. \A a : RowSound(e, a) /\ a.resumable =>
            RowSound(e, [a EXCEPT !.ready = TRUE, !.resumable = FALSE])
      BY DEF RowSound, Attempt, InResumeProcess
    <3> QED BY <1>1, <3>1 DEF Sound
  <2> HIDE DEF row
  <2> QED BY <1>1, <2>1, <2>2, WriteRowSound
<1>10. CASE Delete(e, i)
  BY <1>1, <1>10, RemovedSound DEF Delete, d1
<1>11. CASE ReviewCallback(e, i)
  BY <1>11, VerdictsValid, PutStatusSound DEF ReviewCallback
<1> QED
  BY <1>3, <1>5, <1>6, <1>7, <1>8, <1>9, <1>10, <1>11

(* The handlers that set a status with no read before.                     *)
LEMMA SetStatusSound ==
  ASSUME RowsSound, NEW e \in Exams, NEW i \in Slots,
         AdminSetStatus(e, i) \/ RetriggerStatus(e, i) \/ ReviewSaved(e, i)
  PROVE  Sound(db')
<1>1. ASSUME NEW to, CanHave(e, to), SetStatus(e, i, to)
      PROVE  Sound(db')
  BY <1>1, PlainUpdateSound DEF SetStatus, RowsSound
<1>2. CASE AdminSetStatus(e, i)
  BY <1>1, <1>2, ValidCanHave, ConstantsAssumption DEF AdminSetStatus
<1>3. CASE RetriggerStatus(e, i)
  <2>1. CanHave(e, db.att[e][i].status)
    BY DEF RowsSound, Sound, RowSound, Attempt, CanHave
  <2> QED BY <1>1, <1>3, <2>1 DEF RetriggerStatus
<1>4. CASE ReviewSaved(e, i)
  BY <1>1, <1>4, ValidCanHave, VerdictsValid DEF ReviewSaved
<1> QED
  BY <1>2, <1>3, <1>4

(* Removing all the attempts at an exam.                                   *)
LEMMA ResetAttemptsSound ==
  ASSUME RowsSound, NEW e \in Exams, ResetAttempts(e)
  PROVE  Sound(db')
<1> DEFINE rows     == [i \in Slots |-> IF i \in Live(db, e) THEN Archived
                                       ELSE db.att[e][i]]
           att      == [db.att EXCEPT ![e] = rows]
           override == [db.override EXCEPT ![e] = FALSE]
           credit   == [db.credit EXCEPT ![e] =
                          IF HasStatus(db, e, NeedsCreditUpdate) # {}
                          THEN "none" ELSE @]
<1>1. db \in Database /\ \A f \in Exams, i \in Slots : RowSound(f, db.att[f][i])
  BY DEF RowsSound, Sound
<1>2. db' = [db EXCEPT !.att = att, !.override = override, !.credit = credit]
  BY DEF ResetAttempts
<1>3. \A i \in Slots : RowSound(e, rows[i])
  BY <1>1, UnusedRowsSound
<1>4. rows \in [Slots -> Attempt]
  BY <1>3 DEF RowSound
<1> HIDE DEF rows
<1>5. /\ att \in [Exams -> [Slots -> Attempt]]
      /\ \A f \in Exams : att[f] = IF f = e THEN rows ELSE db.att[f]
  BY <1>1, <1>4 DEF Database
<1>6. \A f \in Exams, i \in Slots : RowSound(f, att[f][i])
  BY <1>1, <1>3, <1>5
<1>7. /\ override \in [Exams -> BOOLEAN]
      /\ credit \in [Exams -> CreditStatus \cup {"none"}]
  BY <1>1 DEF Database
<1> HIDE DEF att, override, credit
<1>8. db' \in Database /\ db'.att = att
  BY <1>1, <1>2, <1>5, <1>7, RecordUpdate DEF Database
<1> QED
  BY <1>6, <1>8 DEF Sound

(* The clock, and the steps that save a row without update_attempt_status. *)
LEMMA RawWritesSound ==
  ASSUME RowsSound, NEW e \in Exams, NEW i \in Slots,
         RawDelete(e, i) \/ Expire(e, i)
  PROVE  Sound(db')
<1>1. CASE RawDelete(e, i)
  <2>1. db' = WithRow(db, e, i, Archived)
    BY <1>1 DEF RawDelete, WithRow
  <2> QED BY <2>1, UnusedRowsSound, WriteRowSound DEF RowsSound
<1>2. CASE Expire(e, i)
  <2> DEFINE row == [db.att[e][i] EXCEPT !.expired = TRUE]
  <2>1. db' = WithRow(db, e, i, row)
    BY <1>2 DEF Expire, WithRow
  <2>2. RowSound(e, row)
    <3>1. RowSound(e, db.att[e][i])
      BY DEF RowsSound, Sound
    <3> QED BY <3>1, ExpiredSound
  <2> HIDE DEF row
  <2> QED BY <2>1, <2>2, WriteRowSound DEF RowsSound
<1> QED
  BY <1>1, <1>2

-----------------------------------------------------------------------------
(* The theorems.                                                           *)

(* No row is in use at first.                                              *)
LEMMA InitRowsSound == Init => RowsSound
<1> SUFFICES ASSUME Init PROVE RowsSound
  OBVIOUS
<1>1. db.att = [e \in Exams |-> [i \in Slots |-> NoRow]]
  BY DEF Init
<1>2. \A e \in Exams : RowSound(e, NoRow) /\ NoRow \in Attempt
  BY UnusedRowsSound DEF RowSound
<1>3. db \in Database
  BY <1>2 DEF Init, Database
<1> QED
  BY <1>1, <1>2, <1>3 DEF Init, RowsSound, Sound

(* Every request, callback, staff action and tick keeps the rows sound.    *)
LEMMA NextRowsSound == RowsSound /\ [Next]_vars => RowsSound'
<1> SUFFICES ASSUME RowsSound, [Next]_vars PROVE RowsSound'
  OBVIOUS
<1>1. CASE UNCHANGED vars
  BY <1>1 DEF RowsSound, vars
<1>2. ASSUME NEW e \in Exams, AttemptNext(e) \/ ReviewNext(e)
      PROVE  RowsSound'
  <2>1. pastDue \in SUBSET Dated
    BY DEF RowsSound
  <2>2. CASE LearnerNext(e)
    <3>1. UNCHANGED pastDue
      BY <2>2 DEF LearnerNext, Post, DeclineForPrerequisite, Stop, Submit,
         ClickDownload, Decline, PutStatus, Start, Error, Poll, ResetPractice
    <3>2. Sound(db')
      <4>1. ASSUME NEW proctored \in BOOLEAN, NEW startClock \in BOOLEAN,
                   NEW outcome \in Outcomes(e, proctored),
                   NEW instantly \in BOOLEAN,
                   Post(e, proctored, startClock, outcome, instantly)
            PROVE  Sound(db')
        BY <4>1, PostSound
      <4>2. \A startClock \in BOOLEAN : {FALSE, startClock} \subseteq BOOLEAN
        BY Zenon
      <4> QED
        BY <2>2, <4>1, <4>2, DeclineForPrerequisiteSound, ReadingHandlersSound
        DEF LearnerNext
    <3> QED BY <2>1, <3>1, <3>2 DEF RowsSound
  <2>3. CASE StaffNext(e)
    <3>1. UNCHANGED pastDue
      BY <2>3 DEF StaffNext, ResetAttempts, MarkReadyToResume, Delete, RawDelete,
         AdminSetStatus, RetriggerStatus, SetStatus
    <3>2. Sound(db')
      BY <2>3, ResetAttemptsSound, ReadingHandlersSound, RawWritesSound,
         SetStatusSound DEF StaffNext
    <3> QED BY <2>1, <3>1, <3>2 DEF RowsSound
  <2>4. CASE BackendNext(e)
    <3>1. UNCHANGED pastDue
      BY <2>4 DEF BackendNext, ReadyCallback, StartCallback
    <3>2. Sound(db')
      BY <2>4, ReadingHandlersSound DEF BackendNext
    <3> QED BY <2>1, <3>1, <3>2 DEF RowsSound
  <2>5. CASE ClockNext(e)
    <3>1. CASE PassDue(e) \/ ExtendDue(e)
      BY <2>1, <3>1 DEF RowsSound, PassDue, ExtendDue
    <3>2. ASSUME NEW i \in Slots, Expire(e, i)
          PROVE  RowsSound'
      <4>1. UNCHANGED pastDue
        BY <3>2 DEF Expire
      <4> QED BY <2>1, <3>2, <4>1, RawWritesSound DEF RowsSound
    <3> QED BY <2>5, <3>1, <3>2 DEF ClockNext
  <2>6. CASE ReviewNext(e)
    <3>1. UNCHANGED pastDue
      BY <2>6 DEF ReviewNext, ReviewCallback, ReviewSaved, PutStatus, SetStatus
    <3>2. Sound(db')
      BY <2>6, ReadingHandlersSound, SetStatusSound DEF ReviewNext
    <3> QED BY <2>1, <3>1, <3>2 DEF RowsSound
  <2> QED BY <1>2, <2>2, <2>3, <2>4, <2>5, <2>6 DEF AttemptNext
<1> QED
  BY <1>1, <1>2 DEF Next

(* In every reachable state, for any set of exams, any number of attempts  *)
(* and any settings, each row of the attempt table has its flags and its   *)
(* status in line.                                                         *)
THEOREM RowsAlwaysSound == Spec => []RowsSound
  BY InitRowsSound, NextRowsSound, PTL DEF Spec

(* Every variable has its type.                                            *)
THEOREM TypeCorrect == Spec => []TypeOK
<1>1. RowsSound => TypeOK
  BY DEF RowsSound, Sound, TypeOK
<1> QED
  BY <1>1, RowsAlwaysSound, PTL

(* is_resumable, ready_to_resume and resumed are successive stages of an   *)
(* attempt, whatever the order of errors, releases and new attempts.       *)
THEOREM FlagsExclusive == Spec => []ResumeFlagsExclusive
<1>1. RowsSound => ResumeFlagsExclusive
  BY DEF RowsSound, Sound, RowSound, ResumeFlagsExclusive
<1> QED
  BY <1>1, RowsAlwaysSound, PTL

(* An attempt in error can always be released, or was.                     *)
THEOREM ErrorsRecoverable == Spec => []ErrorIsRecoverable
<1>1. RowsSound => ErrorIsRecoverable
  BY DEF RowsSound, Sound, RowSound, ErrorIsRecoverable, LiveAttempt
<1> QED
  BY <1>1, RowsAlwaysSound, PTL

(* Outside practice an attempt that was submitted never becomes incomplete *)
(* again, though a read elsewhere in the same request may change it.       *)
THEOREM SubmittedComplete == Spec => []SubmittedStaysComplete
<1>1. Completed \cap Incomplete = {}
  BY DEF Completed, OnboardingErrors, Incomplete, PreStarted, InProgress
<1>2. RowsSound => SubmittedStaysComplete
  BY <1>1 DEF RowsSound, Sound, RowSound, SubmittedStaysComplete, LiveAttempt
<1> QED
  BY <1>2, RowsAlwaysSound, PTL

-----------------------------------------------------------------------------
(* What the status of a row tells of how the attempt came to it, whatever  *)
(* happened to it in between.  Staff can make a status tell less: a        *)
(* time-out they set stores no time of completion, and they may set the    *)
(* status of an onboarding error without one.                              *)

TimeOutsKept == "timed_out" \in AdminStatuses => AllowTimedOut

ErrorsRegistered == AdminStatuses \cap OnboardingErrors = {}

(* A time-out is only a status of its own where the site keeps them; a     *)
(* submitted attempt has its time of completion; an onboarding error is    *)
(* one that registration answered, and such an attempt is never resumed.   *)
RowTells(a) ==
  /\ a.status = "timed_out" => AllowTimedOut
  /\ TimeOutsKept /\ a.status = "submitted" => a.completed
  /\ ErrorsRegistered /\ a.status \in OnboardingErrors =>
       a.status \in RegistrationErrors /\ ~ a.resumable /\ ~ InResumeProcess(a)

Tells(d) == Sound(d) /\ \A e \in Exams, i \in Slots : RowTells(d.att[e][i])

(* What is asked for by anybody but the lazy check.                        *)
MayAsk(a, to) ==
  /\ TimeOutsKept /\ to = "timed_out" => AllowTimedOut
  /\ ErrorsRegistered /\ to \in OnboardingErrors => to = a.status

(* A row that is saved tells as much as before.                            *)
LEMMA SavedTells ==
  ASSUME NEW a \in Attempt, RowTells(a), NEW to,
         NEW stamped \in BOOLEAN, NEW instantly \in BOOLEAN,
         MayAsk(a, to) \/ (to = "timed_out" /\ stamped)
  PROVE  RowTells(Saved(a, to, stamped, instantly))
<1> DEFINE status  == EffectiveStatus(a.status, to, AllowTimedOut)
           b       == Saved(a, to, stamped, instantly)
<1>1. /\ b.status = status
      /\ b.resumable = IsResumable(a, status)
      /\ InResumeProcess(b) = InResumeProcess(a)
      /\ b.completed = IF to = "timed_out" /\ ~ AllowTimedOut THEN stamped
                       ELSE a.completed \/ status = "submitted"
  BY DEF Saved, Attempt, InResumeProcess
<1>2. status \in {to, "submitted"}
      /\ (to = "timed_out" /\ ~ AllowTimedOut => status = "submitted")
  BY DEF EffectiveStatus
<1> HIDE DEF status, b
<1>3. b.status = "timed_out" => AllowTimedOut
  BY <1>1, <1>2
<1>4. TimeOutsKept /\ b.status = "submitted" => b.completed
  BY <1>1, <1>2 DEF MayAsk
<1>5. ASSUME ErrorsRegistered, b.status \in OnboardingErrors
      PROVE  b.status \in RegistrationErrors /\ ~ b.resumable /\ ~ InResumeProcess(b)
  <2>1. b.status = to /\ to # "timed_out" /\ to # "error"
    BY <1>1, <1>2, <1>5 DEF OnboardingErrors
  <2>2. to = a.status
    BY <1>5, <2>1 DEF MayAsk
  <2> QED BY <1>1, <1>5, <2>1, <2>2 DEF RowTells, IsResumable
<1> QED
  BY <1>3, <1>4, <1>5 DEF RowTells, b

(* What is marked on a row, other than its status, leaves what it tells.   *)
LEMMA MarkedTells ==
  ASSUME NEW a, RowTells(a), NEW b,
         b.status = a.status, b.completed = a.completed,
         b.resumable \/ InResumeProcess(b) => a.resumable \/ InResumeProcess(a)
  PROVE  RowTells(b)
  BY DEF RowTells

(* Rows that are not in use tell nothing.                                  *)
LEMMA UnusedRowsTell == RowTells(NoRow) /\ RowTells(Archived)
  BY DEF RowTells, NoRow, Archived, OnboardingErrors

(* A change of status writes one row, and the record of the LMS.           *)
LEMMA SaveStatusTells ==
  ASSUME NEW d, Tells(d), NEW e \in Exams, NEW i, NEW to, CanHave(e, to),
         NEW stamped \in BOOLEAN, NEW instantly \in BOOLEAN,
         i \in Slots =>
           /\ IsLegal(d.att[e][i].status,
                      EffectiveStatus(d.att[e][i].status, to, AllowTimedOut))
           /\ MayAsk(d.att[e][i], to) \/ (to = "timed_out" /\ stamped)
  PROVE  Tells(SaveStatus(d, e, i, to, stamped, instantly))
<1> DEFINE row == Saved(d.att[e][i], to, stamped, instantly)
           d1  == WithRow(d, e, i, row)
           d2  == SaveStatus(d, e, i, to, stamped, instantly)
<1>1. Sound(d) /\ \A f \in Exams, j \in Slots : RowTells(d.att[f][j])
  BY DEF Tells
<1>2. i \in Slots => RowSound(e, row)
  BY <1>1, SavedSound DEF Sound
<1>3. i \in Slots => RowTells(row)
  <2>1. i \in Slots => d.att[e][i] \in Attempt
    BY <1>1 DEF Sound, RowSound
  <2> QED BY <1>1, <2>1, SavedTells
<1>4. d2 = Settled(d1, e, d.att[e][i].status, row.status)
  BY DEF SaveStatus, WithRow
<1> HIDE DEF row
<1>5. /\ Sound(d1)
      /\ \A f \in Exams, j \in Slots :
           d1.att[f][j] = IF f = e /\ j = i THEN row ELSE d.att[f][j]
  BY <1>1, <1>2, WriteRowSound
<1> HIDE DEF d1
<1>6. Sound(d2) /\ d2.att = d1.att
  BY <1>4, <1>5, SettledSound
<1> HIDE DEF d2
<1>7. \A f \in Exams, j \in Slots : RowTells(d2.att[f][j])
  BY <1>1, <1>3, <1>5, <1>6
<1> QED
  BY <1>6, <1>7 DEF Tells, d2

(* One row is replaced by another that tells as much.                      *)
LEMMA WriteRowTells ==
  ASSUME NEW d, Tells(d), NEW e \in Exams, NEW i, NEW a,
         i \in Slots => RowSound(e, a) /\ RowTells(a)
  PROVE  Tells(WithRow(d, e, i, a))
<1> DEFINE d1 == WithRow(d, e, i, a)
<1>1. /\ Sound(d1)
      /\ \A f \in Exams, j \in Slots :
           d1.att[f][j] = IF f = e /\ j = i THEN a ELSE d.att[f][j]
  BY WriteRowSound DEF Tells
<1> HIDE DEF d1
<1>2. \A f \in Exams, j \in Slots : RowTells(d1.att[f][j])
  BY <1>1 DEF Tells
<1> QED
  BY <1>1, <1>2 DEF Tells, d1

(* Clearing onboarding errors only archives rows.                          *)
LEMMA ClearOnboardingErrorsTells ==
  ASSUME NEW d, Tells(d), NEW e \in Exams, NEW to
  PROVE  Tells(ClearOnboardingErrors(d, e, to))
<1> DEFINE d1 == ClearOnboardingErrors(d, e, to)
<1>1. Sound(d1) /\ \A f \in Exams, j \in Slots : d1.att[f][j] \in {d.att[f][j], Archived}
  BY ClearOnboardingErrorsSound DEF Tells
<1> HIDE DEF d1
<1>2. \A f \in Exams, j \in Slots : RowTells(d1.att[f][j])
  BY <1>1, UnusedRowsTell DEF Tells
<1> QED
  BY <1>1, <1>2 DEF Tells, d1

(* The lazy check passes the time of completion along.                     *)
LEMMA ReadTells ==
  ASSUME NEW d, Tells(d), NEW e \in Exams, NEW i
  PROVE  Tells(Read(d, e, i))
<1>1. CASE ~ Overdue(d.att[e][i])
  BY <1>1 DEF Read
<1>2. CASE Overdue(d.att[e][i])
  <2> DEFINE d1  == SaveStatus(d, e, i, "timed_out", TRUE, FALSE)
  <2>1. Read(d, e, i) = ClearOnboardingErrors(d1, e, "submitted")
    BY <1>2 DEF Read
  <2>2. CanHave(e, "timed_out") /\ "timed_out" \in Completed
    BY DEF CanHave, Status, ValidStatus, Completed
  <2>3. IsLegal(d.att[e][i].status,
                EffectiveStatus(d.att[e][i].status, "timed_out", AllowTimedOut))
    BY <2>2, EndingIsLegal
  <2>4. ASSUME NEW s \in BOOLEAN, s, NEW n \in BOOLEAN
        PROVE  Tells(SaveStatus(d, e, i, "timed_out", s, n))
    BY <2>2, <2>3, <2>4, SaveStatusTells
  <2>5. Tells(d1)
    BY <2>4, Zenon
  <2> HIDE DEF d1
  <2> QED BY <2>1, <2>5, ClearOnboardingErrorsTells
<1> QED
  BY <1>1, <1>2

(* A new attempt is created, or has the error of its registration.         *)
LEMMA NewAttemptTells ==
  ASSUME NEW d, Tells(d), NEW e \in Exams, NEW status, CanHave(e, status),
         status \in {"created"} \cup RegistrationErrors, NEW proctored \in BOOLEAN
  PROVE  Tells(NewAttempt(d, e, status, proctored))
<1> DEFINE row == [NoRow EXCEPT
                     !.row = "live", !.status = status, !.proctored = proctored,
                     !.registered = proctored /\ status = "created"]
<1>1. NewAttempt(d, e, status, proctored) = WithRow(d, e, FreshSlot(d, e), row)
  BY DEF NewAttempt, WithRow
<1>2. RowSound(e, row)
  BY ConstantsAssumption
  DEF RowSound, CanHave, NoRow, Attempt, InResumeProcess, OnboardingErrors
<1>3. row.status = status /\ ~ row.resumable /\ ~ InResumeProcess(row)
  BY DEF NoRow, InResumeProcess
<1> HIDE DEF row
<1>4. RowTells(row)
  BY <1>3, ConstantsAssumption DEF RowTells, OnboardingErrors
<1> QED
  BY <1>1, <1>2, <1>4, WriteRowTells

(* The current attempt is read when the time allowed is worked out.        *)
LEMMA AllowedTimeReadTells ==
  ASSUME NEW d, Tells(d), NEW e \in Exams
  PROVE  Tells(AllowedTimeRead(d, e))
  BY ReadTells DEF AllowedTimeRead

(* What neither times out nor is an onboarding error may always be asked   *)
(* for.                                                                    *)
LEMMA OthersMayAsk ==
  ASSUME NEW a, NEW to, to # "timed_out", to \notin OnboardingErrors
  PROVE  MayAsk(a, to)
  BY DEF MayAsk

(* An exam that is declined along with another one.                        *)
LEMMA DeclinedTooTells ==
  ASSUME NEW d, Tells(d), NEW f \in Exams
  PROVE  Tells(DeclinedToo(d, f))
<1> DEFINE d1 == IF HasAttempt(d, f) THEN Read(d, f, Latest(d, f))
                 ELSE NewAttempt(d, f, "created", FALSE)
           i  == Latest(d1, f)
           d2 == SaveStatus(d1, f, i, "declined", FALSE, FALSE)
<1>1. CanHave(f, "created") /\ CanHave(f, "declined") /\ "declined" \in Completed
  BY DEF CanHave, Status, ValidStatus, Completed, Incomplete, PreStarted
<1>2. Tells(Read(d, f, Latest(d, f)))
  BY ReadTells
<1>3. \A p \in BOOLEAN : Tells(NewAttempt(d, f, "created", p))
  BY <1>1, NewAttemptTells
<1>4. Tells(NewAttempt(d, f, "created", FALSE))
  BY <1>3, Zenon
<1>5. Tells(d1)
  BY <1>2, <1>4
<1>6. DeclinedToo(d, f) \in {d1, d2}
  BY DEF DeclinedToo
<1> HIDE DEF d1, i
<1>7. /\ IsLegal(d1.att[f][i].status,
                 EffectiveStatus(d1.att[f][i].status, "declined", AllowTimedOut))
      /\ MayAsk(d1.att[f][i], "declined")
  BY <1>1, EndingIsLegal, OthersMayAsk DEF OnboardingErrors
<1>8. ASSUME NEW s \in BOOLEAN, NEW n \in BOOLEAN
      PROVE  Tells(SaveStatus(d1, f, i, "declined", s, n))
  BY <1>1, <1>5, <1>7, SaveStatusTells
<1>9. Tells(d2)
  BY <1>8, Zenon
<1> QED
  BY <1>5, <1>6, <1>9

(* The cascade declines the exams one by one.                              *)
LEMMA CascadeTells ==
  ASSUME NEW d, Tells(d), NEW e \in Exams
  PROVE  Tells(Cascade(d, e))
<1> DEFINE visited(f) == IF f \in OtherProctored(e) THEN DeclinedToo(d, f) ELSE d
<1>1. \A f \in Exams : Tells(visited(f))
  BY DeclinedTooTells
<1>2. Cascade(d, e).att = [f \in Exams |-> visited(f).att[f]]
  BY DEF Cascade
<1> HIDE DEF visited
<1>3. Sound(Cascade(d, e))
  BY CascadeSound DEF Tells
<1>4. \A f \in Exams, j \in Slots : RowTells(Cascade(d, e).att[f][j])
  BY <1>1, <1>2 DEF Tells
<1> QED
  BY <1>3, <1>4 DEF Tells

(* update_attempt_status.  When the allowed time makes it read the current *)
(* attempt first, it is because the attempt is to be started.              *)
LEMMA UpdateTells ==
  ASSUME NEW d, Tells(d), NEW e \in Exams, NEW i, NEW to, CanHave(e, to),
         NEW instantly \in BOOLEAN, i \in Slots => MayAsk(d.att[e][i], to)
  PROVE  Tells(Update(d, e, i, to, instantly))
<1> DEFINE from == d.att[e][i].status
           new  == EffectiveStatus(from, to, AllowTimedOut)
           d0   == IF new = "started" /\ ~ d.att[e][i].started
                   THEN AllowedTimeRead(d, e) ELSE d
           d1   == SaveStatus(d0, e, i, to, FALSE, instantly)
           dc   == Withdrawn(d1, e, i)
           d2   == IF /\ new \in CascadableFailure
                      /\ CanUpdateCreditGradesAndEmail(d1, e, new)
                   THEN Cascade(dc, e) ELSE d1
<1>1. CASE ~ IsLegal(from, new)
  BY <1>1 DEF Update
<1>2. CASE IsLegal(from, new)
  <2>1. Update(d, e, i, to, instantly)
          = ClearOnboardingErrors(Read(d2, e, i), e, new)
    BY <1>2 DEF Update
  <2>2. Tells(d0)
    BY AllowedTimeReadTells
  <2>3. i \in Slots => MayAsk(d0.att[e][i], to)
    <3>1. CASE d0 = d
      BY <3>1
    <3>2. CASE d0 # d
      <4>1. to = "started"
        BY <3>2 DEF EffectiveStatus
      <4> QED BY <4>1, OthersMayAsk DEF OnboardingErrors
    <3> QED BY <3>1, <3>2
  <2>4. ASSUME i \in Slots
        PROVE  IsLegal(d0.att[e][i].status,
                       EffectiveStatus(d0.att[e][i].status, to, AllowTimedOut))
    BY <1>2, <2>4, AllowedTimeKeepsLegal DEF Tells
  <2>5. Tells(d1)
    <3> HIDE DEF d0
    <3>1. \A s \in BOOLEAN : Tells(SaveStatus(d0, e, i, to, s, instantly))
      BY <2>2, <2>3, <2>4, SaveStatusTells
    <3> QED BY <3>1, Zenon
  <2> HIDE DEF d1, new
  <2>6. Tells(dc)
    <3> DEFINE row == [d1.att[e][i] EXCEPT !.proctored = FALSE,
                                           !.registered = FALSE]
    <3>1. dc = WithRow(d1, e, i, row)
      BY DEF WithRow, Withdrawn
    <3>2. ASSUME i \in Slots PROVE RowSound(e, row) /\ RowTells(row)
      <4>1. RowSound(e, d1.att[e][i]) /\ RowTells(d1.att[e][i])
        BY <2>5, <3>2 DEF Tells, Sound
      <4>2. RowSound(e, row)
        BY <4>1, WithdrawnSound
      <4>3. /\ row.status = d1.att[e][i].status
            /\ row.completed = d1.att[e][i].completed
            /\ row.resumable = d1.att[e][i].resumable
            /\ InResumeProcess(row) = InResumeProcess(d1.att[e][i])
        BY <4>1 DEF RowSound, Attempt, InResumeProcess
      <4> HIDE DEF row
      <4>4. RowTells(row)
        BY <4>1, <4>3, MarkedTells
      <4> QED BY <4>2, <4>4
    <3> HIDE DEF row
    <3> QED BY <2>5, <3>1, <3>2, WriteRowTells
  <2> HIDE DEF dc
  <2>7. Tells(d2)
    BY <2>5, <2>6, CascadeTells
  <2> HIDE DEF d2
  <2> QED BY <2>1, <2>7, ReadTells, ClearOnboardingErrorsTells
<1> QED
  BY <1>1, <1>2

(* An attempt that is marked as resumed had been released.                 *)
LEMMA MarkedResumedTells ==
  ASSUME NEW d, Tells(d), NEW e \in Exams
  PROVE  Tells(MarkedResumed(d, e))
<1> DEFINE i   == Latest(d, e)
           a   == d.att[e][i]
           row == [a EXCEPT !.resumed = TRUE, !.resumable = FALSE]
<1>1. CASE HasAttempt(d, e) /\ InResumeProcess(a)
  <2>1. MarkedResumed(d, e) = WithRow(d, e, i, row)
    BY <1>1 DEF MarkedResumed, WithRow
  <2>2. i \in Slots /\ RowSound(e, a) /\ RowTells(a)
    BY <1>1, LatestIsLive DEF Tells, Sound
  <2>3. \A x : RowSound(e, x) /\ InResumeProcess(x) =>
          RowSound(e, [x EXCEPT !.resumed = TRUE, !.resumable = FALSE])
    BY DEF RowSound, Attempt, InResumeProcess
  <2>4. RowTells(row)
    BY <1>1, <2>2, MarkedTells DEF RowSound, Attempt
  <2>5. RowSound(e, row)
    BY <1>1, <2>2, <2>3
  <2> HIDE DEF i, row
  <2> QED BY <2>1, <2>4, <2>5, WriteRowTells
<1>2. CASE ~ (HasAttempt(d, e) /\ InResumeProcess(a))
  BY <1>2 DEF MarkedResumed
<1> QED
  BY <1>1, <1>2

(* The status of a new attempt is what its registration answers.           *)
LEMMA CreateAttemptTells ==
  ASSUME NEW d, Tells(d), NEW e \in Exams, NEW proctored \in BOOLEAN,
         NEW outcome \in Outcomes(e, proctored)
  PROVE  Tells(CreateAttempt(d, e, proctored, outcome))
<1> DEFINE d1 == MarkedResumed(d, e)
           d2 == IF proctored THEN AllowedTimeRead(d1, e) ELSE d1
<1>1. Tells(d1)
  BY MarkedResumedTells
<1> HIDE DEF d1
<1>2. Tells(d2)
  BY <1>1, AllowedTimeReadTells
<1>3. \/ proctored /\ outcome = "refused"
      \/ CanHave(e, outcome) /\ outcome \in {"created"} \cup RegistrationErrors
  BY ConstantsAssumption
  DEF Outcomes, CanHave, Status, ValidStatus, Completed, OnboardingErrors,
      Incomplete, PreStarted
<1>4. CreateAttempt(d, e, proctored, outcome) =
        IF ~ MayCreate(d, e) THEN d
        ELSE IF proctored /\ e \in pastDue THEN d1
        ELSE IF proctored /\ outcome = "refused" THEN d2
        ELSE NewAttempt(d2, e, outcome, proctored)
  BY DEF CreateAttempt, d1
<1> HIDE DEF d2
<1> QED
  BY <1>1, <1>2, <1>3, <1>4, NewAttemptTells

(* Starting the current attempt.                                           *)
LEMMA StartLatestTells ==
  ASSUME NEW d, Tells(d), NEW e \in Exams, NEW instantly \in BOOLEAN
  PROVE  Tells(StartLatest(d, e, instantly))
<1>1. CanHave(e, "started") /\ \A a : MayAsk(a, "started")
  BY OthersMayAsk
  DEF CanHave, Status, ValidStatus, Incomplete, InProgress, OnboardingErrors
<1>2. StartLatest(d, e, instantly)
        \in {d, Update(d, e, Latest(d, e), "started", instantly)}
  BY DEF StartLatest
<1> QED
  BY <1>1, <1>2, UpdateTells

(* Removing an attempt leaves the other rows as they are.                  *)
LEMMA RemovedTells ==
  ASSUME NEW d, Tells(d), NEW e \in Exams, NEW i
  PROVE  Tells(Removed(d, e, i))
<1> DEFINE d1 == WithRow(d, e, i, Archived)
           d2 == Removed(d, e, i)
<1>1. Tells(d1)
  BY UnusedRowsSound, UnusedRowsTell, WriteRowTells
<1>2. d2.att = d1.att /\ Sound(d2)
  <2>1. Sound(d2)
    BY RemovedSound DEF Tells
  <2>2. d2 = [d1 EXCEPT !.override[e] = FALSE,
                        !.credit[e] = IF d.att[e][i].status \in NeedsCreditUpdate
                                      THEN "none" ELSE @]
    BY DEF Removed, WithRow
  <2> HIDE DEF d1, d2
  <2> QED BY <1>1, <2>1, <2>2 DEF Tells, Sound, Database
<1> HIDE DEF d1, d2
<1>3. \A f \in Exams, j \in Slots : RowTells(d2.att[f][j])
  BY <1>1, <1>2 DEF Tells
<1> QED
  BY <1>2, <1>3 DEF Tells, d2

(* Resetting a practice exam.                                              *)
LEMMA PracticeResetTells ==
  ASSUME NEW d, Tells(d), NEW e \in Exams, Kind[e] = "practice",
         NEW outcome \in Outcomes(e, d.att[e][Latest(d, e)].proctored)
  PROVE  Tells(PracticeReset(d, e, outcome))
<1> DEFINE i   == Latest(d, e)
           a   == d.att[e][i]
           row == [a EXCEPT !.status = "onboarding_reset"]
           d1  == IF a.status = "submitted" THEN Removed(d, e, i)
                  ELSE [d EXCEPT !.att[e][i].status = "onboarding_reset"]
<1>1. CASE ~ HasAttempt(d, e)
  BY <1>1 DEF PracticeReset
<1>2. CASE HasAttempt(d, e)
  <2>1. i \in Slots
    BY <1>2, LatestIsLive
  <2>2. RowSound(e, a) /\ a \in Attempt
    BY <2>1 DEF Tells, Sound, RowSound
  <2>3. RowSound(e, row)
    BY <2>2 DEF RowSound, Attempt, InResumeProcess, Status
  <2>4. RowTells(row)
    <3>1. row.status = "onboarding_reset"
      BY <2>2 DEF Attempt
    <3> QED BY <3>1 DEF RowTells, OnboardingErrors
  <2>5. [d EXCEPT !.att[e][i].status = "onboarding_reset"] = WithRow(d, e, i, row)
    BY DEF WithRow
  <2>6. PracticeReset(d, e, outcome)
          \in {d, CreateAttempt(d1, e, a.proctored, outcome)}
    BY DEF PracticeReset
  <2>7. a.proctored \in BOOLEAN /\ outcome \in Outcomes(e, a.proctored)
    BY <2>2 DEF Attempt
  <2> HIDE DEF row
  <2>8. Tells(WithRow(d, e, i, row)) /\ Tells(Removed(d, e, i))
    BY <2>3, <2>4, WriteRowTells, RemovedTells
  <2>9. Tells(d1)
    BY <2>5, <2>8
  <2> HIDE DEF a, d1, i
  <2> QED BY <2>6, <2>7, <2>9, CreateAttemptTells
<1> QED
  BY <1>1, <1>2

(* Every status change that does not start the clock.                      *)
LEMMA PlainUpdateTells ==
  ASSUME NEW d, Tells(d), NEW e \in Exams, NEW i, NEW to, CanHave(e, to),
         i \in Slots => MayAsk(d.att[e][i], to)
  PROVE  Tells(Update(d, e, i, to, FALSE))
<1>1. ASSUME NEW instantly \in BOOLEAN
      PROVE  Tells(Update(d, e, i, to, instantly))
  BY UpdateTells
<1> QED
  BY <1>1, Zenon

(* Declining an exam.                                                      *)
LEMMA DeclinedTells ==
  ASSUME NEW d, Tells(d), NEW e \in Exams, NEW i
  PROVE  Tells(Update(d, e, i, "declined", FALSE))
<1>1. CanHave(e, "declined") /\ \A a : MayAsk(a, "declined")
  BY ValidCanHave, OthersMayAsk DEF ValidStatus, Completed, OnboardingErrors
<1> QED
  BY <1>1, PlainUpdateTells

(* No verdict of a review is a time-out or an onboarding error.            *)
LEMMA VerdictsTell ==
  \A to \in Verdicts : to # "timed_out" /\ to \notin OnboardingErrors
  BY ConstantsAssumption DEF OnboardingErrors

(* Entering an exam.                                                       *)
LEMMA PostTells ==
  ASSUME Tells(db), NEW e \in Exams, NEW proctored \in BOOLEAN,
         NEW startClock \in BOOLEAN, NEW outcome \in Outcomes(e, proctored),
         NEW instantly \in BOOLEAN,
         Post(e, proctored, startClock, outcome, instantly)
  PROVE  Tells(db')
<1> DEFINE d1 == CreateAttempt(db, e, proctored, outcome)
<1>1. Tells(d1)
  BY CreateAttemptTells
<1>2. db' \in {d1, Update(d1, e, Latest(d1, e), "declined", FALSE),
              StartLatest(d1, e, instantly)}
  BY DEF Post
<1> HIDE DEF d1
<1>3. Tells(Update(d1, e, Latest(d1, e), "declined", FALSE))
  BY <1>1, DeclinedTells
<1> QED
  BY <1>1, <1>2, <1>3, StartLatestTells

(* A status change by a request, a callback or a review.                   *)
LEMMA PutStatusTells ==
  ASSUME Tells(db), NEW e \in Exams, NEW i \in Slots, NEW to \in ValidStatus,
         to # "timed_out", to \notin OnboardingErrors, PutStatus(e, i, to)
  PROVE  Tells(db')
<1>1. Tells(Read(db, e, i))
  BY ReadTells
<1>2. db' = Update(Read(db, e, i), e, i, to, FALSE)
  BY DEF PutStatus
<1> QED
  BY <1>1, <1>2, OthersMayAsk, ValidCanHave, PlainUpdateTells

(* The handlers that read an attempt before they act on it.                *)
LEMMA ReadingHandlersTell ==
  ASSUME Tells(db), NEW e \in Exams, NEW i \in Slots,
         \/ Stop(e, i) \/ Submit(e, i) \/ ClickDownload(e, i) \/ Decline(e, i)
         \/ \E instantly \in BOOLEAN : Start(e, i, instantly)
         \/ Error(e, i) \/ Poll(e, i) \/ ResetPractice(e, i)
         \/ MarkReadyToResume(e, i) \/ Delete(e, i)
         \/ ReadyCallback(e, i) \/ StartCallback(e, i) \/ ReviewCallback(e, i)
  PROVE  Tells(db')
<1> DEFINE d1 == Read(db, e, i)
           asked == {"ready_to_submit", "submitted", "download_software_clicked",
                     "declined", "error", "ready_to_start"}
<1>1. Tells(d1)
  BY ReadTells
<1>2. /\ asked \subseteq ValidStatus
      /\ \A to \in asked : to # "timed_out" /\ to \notin OnboardingErrors
  BY DEF ValidStatus, Completed, Incomplete, InProgress, PreStarted, OnboardingErrors
<1>3. CASE Stop(e, i) \/ Submit(e, i) \/ ClickDownload(e, i) \/ Decline(e, i)
  BY <1>2, <1>3, PutStatusTells DEF Stop, Submit, ClickDownload, Decline
<1> HIDE DEF d1
<1>4. ASSUME NEW to \in asked, db' = Update(d1, e, i, to, FALSE)
      PROVE  Tells(db')
  <2>1. CanHave(e, to) /\ MayAsk(d1.att[e][i], to)
    BY <1>2, ValidCanHave, OthersMayAsk
  <2> HIDE DEF asked
  <2> QED BY <1>1, <1>4, <2>1, PlainUpdateTells
<1>5. ASSUME NEW instantly \in BOOLEAN, Start(e, i, instantly)
      PROVE  Tells(db')
  BY <1>1, <1>5, StartLatestTells DEF Start, d1
<1>6. CASE Error(e, i) \/ ReadyCallback(e, i) \/ StartCallback(e, i)
  <2>1. db' = d1 \/ \E to \in asked : db' = Update(d1, e, i, to, FALSE)
    BY <1>6 DEF Error, ReadyCallback, StartCallback, d1
  <2> QED BY <1>1, <1>4, <2>1
<1>7. CASE Poll(e, i)
  BY <1>1, <1>7 DEF Poll, d1
<1>8. CASE ResetPractice(e, i)
  BY <1>1, <1>8, PracticeResetTells DEF ResetPractice, d1
<1>9. CASE MarkReadyToResume(e, i)
  <2> DEFINE a   == d1.att[e][i]
             row == [a EXCEPT !.ready = TRUE, !.resumable = FALSE]
  <2>1. db' = d1 \/ (a.resumable /\ db' = WithRow(d1, e, i, row))
    BY <1>9 DEF MarkReadyToResume, d1, WithRow
  <2>2. RowSound(e, a) /\ RowTells(a)
    BY <1>1 DEF Tells, Sound
  <2>3. ASSUME a.resumable PROVE RowSound(e, row) /\ RowTells(row)
    <3>1. \A x : RowSound(e, x) /\ x.resumable =>
            RowSound(e, [x EXCEPT !.ready = TRUE, !.resumable = FALSE])
      BY DEF RowSound, Attempt, InResumeProcess
    <3>2. RowTells(row)
      BY <2>2, <2>3, MarkedTells DEF RowSound, Attempt
    <3> QED BY <2>2, <2>3, <3>1, <3>2
  <2> HIDE DEF row, a
  <2> QED BY <1>1, <2>1, <2>3, WriteRowTells
<1>10. CASE Delete(e, i)
  BY <1>1, <1>10, RemovedTells DEF Delete, d1
<1>11. CASE ReviewCallback(e, i)
  BY <1>11, VerdictsValid, VerdictsTell, PutStatusTells DEF ReviewCallback
<1> QED
  BY <1>3, <1>5, <1>6, <1>7, <1>8, <1>9, <1>10, <1>11

(* The handlers that set a status with no read before.                     *)
LEMMA SetStatusTells ==
  ASSUME Tells(db), NEW e \in Exams, NEW i \in Slots,
         AdminSetStatus(e, i) \/ RetriggerStatus(e, i) \/ ReviewSaved(e, i)
  PROVE  Tells(db')
<1>1. ASSUME NEW to, CanHave(e, to), MayAsk(db.att[e][i], to), SetStatus(e, i, to)
      PROVE  Tells(db')
  BY <1>1, PlainUpdateTells DEF SetStatus
<1>2. CASE AdminSetStatus(e, i)
  <2>1. \A to \in AdminStatuses : CanHave(e, to) /\ MayAsk(db.att[e][i], to)
    BY ConstantsAssumption, ValidCanHave DEF MayAsk, TimeOutsKept, ErrorsRegistered
  <2> QED BY <1>1, <1>2, <2>1 DEF AdminSetStatus
<1>3. CASE RetriggerStatus(e, i)
  <2>1. RowSound(e, db.att[e][i]) /\ RowTells(db.att[e][i])
    BY DEF Tells, Sound
  <2>2. CanHave(e, db.att[e][i].status)
    BY <2>1 DEF RowSound, Attempt, CanHave
  <2>3. MayAsk(db.att[e][i], db.att[e][i].status)
    BY <2>1 DEF RowTells, MayAsk
  <2> QED BY <1>1, <1>3, <2>2, <2>3 DEF RetriggerStatus
<1>4. CASE ReviewSaved(e, i)
  BY <1>1, <1>4, ValidCanHave, VerdictsValid, VerdictsTell, OthersMayAsk
  DEF ReviewSaved
<1> QED
  BY <1>2, <1>3, <1>4

(* Removing attempts, and the clock.                                       *)
LEMMA RawWritesTell ==
  ASSUME RowsSound, Tells(db), NEW e \in Exams,
         ResetAttempts(e) \/ \E i \in Slots : RawDelete(e, i) \/ Expire(e, i)
  PROVE  Tells(db')
<1>1. CASE ResetAttempts(e)
  <2> DEFINE rows == [i \in Slots |-> IF i \in Live(db, e) THEN Archived
                                     ELSE db.att[e][i]]
  <2>1. Sound(db')
    BY <1>1, ResetAttemptsSound
  <2>2. db'.att = [db.att EXCEPT ![e] = rows]
    BY <1>1 DEF ResetAttempts, RowsSound, Sound, Database
  <2>3. \A f \in Exams : db'.att[f] = IF f = e THEN rows ELSE db.att[f]
    BY <2>2 DEF RowsSound, Sound, Database
  <2>4. \A f \in Exams, i \in Slots : RowTells(db'.att[f][i])
    BY <2>3, UnusedRowsTell DEF Tells
  <2> QED BY <2>1, <2>4 DEF Tells, Sound
<1>2. ASSUME NEW i \in Slots, RawDelete(e, i)
      PROVE  Tells(db')
  <2>1. db' = WithRow(db, e, i, Archived)
    BY <1>2 DEF RawDelete, WithRow
  <2> QED BY <2>1, UnusedRowsSound, UnusedRowsTell, WriteRowTells
<1>3. ASSUME NEW i \in Slots, Expire(e, i)
      PROVE  Tells(db')
  <2> DEFINE a   == db.att[e][i]
             row == [a EXCEPT !.expired = TRUE]
  <2>1. db' = WithRow(db, e, i, row)
    BY <1>3 DEF Expire, WithRow
  <2>2. RowSound(e, a) /\ RowTells(a)
    BY DEF Tells, Sound
  <2>3. RowSound(e, row)
    BY <2>2, ExpiredSound
  <2>4. /\ row.status = a.status /\ row.completed = a.completed
        /\ row.resumable = a.resumable
        /\ InResumeProcess(row) = InResumeProcess(a)
    BY <2>2 DEF RowSound, Attempt, InResumeProcess
  <2> HIDE DEF row, a
  <2>5. RowTells(row)
    BY <2>2, <2>4, MarkedTells
  <2> QED BY <2>1, <2>3, <2>5, WriteRowTells
<1> QED
  BY <1>1, <1>2, <1>3

RowsTell == Tells(db)

(* No row tells anything at first.                                         *)
LEMMA InitRowsTell == Init => RowsTell
<1> SUFFICES ASSUME Init PROVE RowsTell
  OBVIOUS
<1>1. Sound(db)
  BY InitRowsSound DEF RowsSound
<1>2. db.att = [e \in Exams |-> [i \in Slots |-> NoRow]]
  BY DEF Init
<1> QED
  BY <1>1, <1>2, UnusedRowsTell DEF RowsTell, Tells

(* No request, callback, staff action or tick makes a row tell less.       *)
LEMMA NextRowsTell ==
  ASSUME RowsSound, RowsTell, NEW e \in Exams, AttemptNext(e) \/ ReviewNext(e)
  PROVE  RowsTell'
<1>1. Tells(db)
  BY DEF RowsTell
<1>2. CASE LearnerNext(e)
  <2>1. ASSUME NEW proctored \in BOOLEAN, NEW startClock \in BOOLEAN,
               NEW outcome \in Outcomes(e, proctored),
               NEW instantly \in BOOLEAN,
               Post(e, proctored, startClock, outcome, instantly)
        PROVE  Tells(db')
    BY <1>1, <2>1, PostTells
  <2>2. \A startClock \in BOOLEAN : {FALSE, startClock} \subseteq BOOLEAN
    BY Zenon
  <2>3. ASSUME DeclineForPrerequisite(e) PROVE Tells(db')
    <3> DEFINE d1 == CreateAttempt(db, e, FALSE, "created")
    <3>1. ASSUME NEW p \in BOOLEAN, ~ p
          PROVE  Tells(CreateAttempt(db, e, p, "created"))
      BY <1>1, <3>1, CreateAttemptTells DEF Outcomes
    <3>2. Tells(d1)
      BY <3>1, Zenon
    <3>3. db' = Update(d1, e, Latest(d1, e), "declined", FALSE)
      BY <2>3 DEF DeclineForPrerequisite
    <3> HIDE DEF d1
    <3> QED BY <3>2, <3>3, DeclinedTells
  <2> QED
    BY <1>1, <1>2, <2>1, <2>2, <2>3, ReadingHandlersTell DEF LearnerNext, RowsTell
<1>3. CASE StaffNext(e)
  BY <1>1, <1>3, RawWritesTell, ReadingHandlersTell, SetStatusTells
  DEF StaffNext, RowsTell
<1>4. CASE BackendNext(e)
  BY <1>1, <1>4, ReadingHandlersTell DEF BackendNext, RowsTell
<1>5. CASE ClockNext(e)
  <2>1. CASE PassDue(e) \/ ExtendDue(e)
    BY <1>1, <2>1 DEF PassDue, ExtendDue, RowsTell
  <2> QED BY <1>1, <1>5, <2>1, RawWritesTell DEF ClockNext, RowsTell
<1>6. CASE ReviewNext(e)
  BY <1>1, <1>6, ReadingHandlersTell, SetStatusTells DEF ReviewNext, RowsTell
<1> QED
  BY <1>2, <1>3, <1>4, <1>5, <1>6 DEF AttemptNext

-----------------------------------------------------------------------------
(* What the attempts at one exam, and the record of the LMS, say together. *)
(* A handler that creates no attempt moves every row on along its course;  *)
(* attempts are only ever created where all before them have been resumed, *)
(* and in the first slot free.  Every request, callback, staff action and  *)
(* tick of the clock is then shown to be of one form, Handled, which says  *)
(* what it may do to the attempts at the exam it names and at the others.  *)
(* The theorems about the attempts at an exam follow from that form.       *)

(* How far the stage of an attempt moves, unless it is released: an error  *)
(* interrupts it, and everything else ends it.                             *)
Ending == {<<"open", "closed">>, <<"interrupted", "closed">>}

Interrupting ==
  Ending \cup {<<"open", "interrupted">>, <<"closed", "interrupted">>}

Moves(to) == IF to = "error" THEN Interrupting ELSE Ending

(* Statuses that no attempt gets unless the step asks for them.            *)
OnRequest == OnboardingErrors \cup {"verified", "rejected", "declined"}

(* From row a to row b, in a step that asks for the status `to' at most.   *)
RowMove(e, a, b, to) ==
  /\ b.row = "unused" <=> a.row = "unused"
  /\ a.row = "archived" => b.row = "archived"
  /\ b.row = "live" /\ a.resumed => b.resumed
  /\ b.row = "live" /\ a.started => b.started
  /\ b.row = "live" /\ b.started /\ e \in SatOnce =>
       a.started \/ AttemptStage(a) = "open"
  /\ b.row = "live" /\ b.status \in OnRequest => b.status \in {a.status, to}
  /\ b.row = "live" /\ e \in SatOnce =>
       \/ AttemptStage(b) = AttemptStage(a)
       \/ <<AttemptStage(a), AttemptStage(b)>> \in Moves(to)

MovedAt(d, d1, e, to) ==
  \A j \in Slots : RowMove(e, d.att[e][j], d1.att[e][j], to)

Moved(d, d1, to) == \A e \in Exams : MovedAt(d, d1, e, to)

(* What only the request of the learner, or staff, may change.             *)
Finished(a) == a.row = "live" /\ a.status \in Completed \ OnboardingErrors

FinishedKept(d, d1, e) ==
  \A j \in Slots : Finished(d.att[e][j]) => d1.att[e][j] = d.att[e][j]

HonestAt(d, e) ==
  d.credit[e] = "satisfied" =>
    HasStatus(d, e, NeedsCreditUpdate \ {"verified"}) = {}

Honest(d) == Sound(d) /\ CreditHonest(d)

Goes(d, d1, to) == Honest(d1) /\ Moved(d, d1, to)

-----------------------------------------------------------------------------
(* Rows.                                                                   *)

(* The stages of an attempt are what their names say.                      *)
LEMMA StagesDiffer ==
  ASSUME NEW a
  PROVE  AttemptStage(a) \in {"released", "open", "interrupted", "closed"}
  BY DEF AttemptStage

(* Moves add up.                                                           *)
LEMMA RowMoveTransitive ==
  ASSUME NEW e, NEW to, NEW a \in Attempt, NEW b \in Attempt, NEW c \in Attempt,
         RowMove(e, a, b, to), RowMove(e, b, c, to)
  PROVE  RowMove(e, a, c, to)
<1>1. a.row \in {"unused", "live", "archived"} /\ b.row \in {"unused", "live", "archived"}
  BY DEF Attempt
<1>2. c.row = "live" => b.row = "live" /\ a.row = "live"
  BY <1>1 DEF RowMove
<1>3. ASSUME c.row = "live", e \in SatOnce
      PROVE  \/ AttemptStage(c) = AttemptStage(a)
             \/ <<AttemptStage(a), AttemptStage(c)>> \in Moves(to)
  <2>1. /\ \/ AttemptStage(b) = AttemptStage(a)
           \/ <<AttemptStage(a), AttemptStage(b)>> \in Moves(to)
        /\ \/ AttemptStage(c) = AttemptStage(b)
           \/ <<AttemptStage(b), AttemptStage(c)>> \in Moves(to)
    BY <1>2, <1>3 DEF RowMove
  <2> QED BY <2>1 DEF Moves, Interrupting, Ending
<1>4. ASSUME c.row = "live", e \in SatOnce, c.started
      PROVE  a.started \/ AttemptStage(a) = "open"
  <2>1. b.started \/ AttemptStage(b) = "open"
    BY <1>4, Zenon DEF RowMove
  <2>2. CASE b.started
    BY <1>2, <1>4, <2>2, Zenon DEF RowMove
  <2>3. CASE AttemptStage(b) = "open"
    <3>1. \/ AttemptStage(b) = AttemptStage(a)
          \/ <<AttemptStage(a), AttemptStage(b)>> \in Moves(to)
      BY <1>2, <1>4, Zenon DEF RowMove
    <3> QED BY <2>3, <3>1 DEF Moves, Interrupting, Ending
  <2> QED BY <2>1, <2>2, <2>3
<1>5. c.row = "live" /\ a.started => c.started
  BY <1>2, Zenon DEF RowMove
<1>6. /\ c.row = "unused" <=> a.row = "unused"
      /\ a.row = "archived" => c.row = "archived"
      /\ c.row = "live" /\ a.resumed => c.resumed
      /\ c.row = "live" /\ c.status \in OnRequest => c.status \in {a.status, to}
  BY <1>2 DEF RowMove
<1> QED
  BY <1>3, <1>4, <1>5, <1>6, Zenon DEF RowMove

(* A row that stays, one that is archived, and a move in a wider step.     *)
LEMMA RowMoveSimple ==
  ASSUME NEW e, NEW to
  PROVE  /\ \A a : RowMove(e, a, a, to)
         /\ \A a : a.row # "unused" => RowMove(e, a, Archived, to)
         /\ \A a, b : RowMove(e, a, b, "timed_out") => RowMove(e, a, b, to)
<1>1. Archived.row = "archived"
  BY DEF Archived, NoRow
<1>2. Moves("timed_out") \subseteq Moves(to)
  BY DEF Moves, Interrupting
<1>3. "timed_out" \notin OnRequest
  BY DEF OnRequest, OnboardingErrors
<1> QED
  BY <1>1, <1>2, <1>3 DEF RowMove

(* Saving a legal change of status is a move.                              *)
LEMMA SavedMoves ==
  ASSUME NEW e \in Exams, NEW a, RowSound(e, a), NEW to, CanHave(e, to),
         NEW stamped \in BOOLEAN, NEW instantly \in BOOLEAN,
         IsLegal(a.status, EffectiveStatus(a.status, to, AllowTimedOut))
  PROVE  /\ RowMove(e, a, Saved(a, to, stamped, instantly), to)
         /\ Saved(a, to, stamped, instantly).row = a.row
         /\ Saved(a, to, stamped, instantly).status
              = EffectiveStatus(a.status, to, AllowTimedOut)
<1> DEFINE status  == EffectiveStatus(a.status, to, AllowTimedOut)
           b       == Saved(a, to, stamped, instantly)
<1>1. a \in Attempt
  BY DEF RowSound
<1>2. /\ b.row = a.row /\ b.status = status
      /\ b.resumable = IsResumable(a, status)
      /\ b.ready = a.ready /\ b.resumed = a.resumed
  BY <1>1 DEF Saved, Attempt
<1>3. status = "error" => to = "error"
  BY DEF EffectiveStatus
<1>4. status \in OnRequest => status = to
  BY DEF EffectiveStatus, OnRequest, OnboardingErrors
<1>5. b.status = status
  BY <1>2
<1> HIDE DEF b, status
<1>6. ASSUME e \in SatOnce
      PROVE  \/ AttemptStage(b) = AttemptStage(a)
             \/ <<AttemptStage(a), AttemptStage(b)>> \in Moves(to)
  <2>1. Kind[e] # "practice"
    BY <1>6 DEF SatOnce
  <2>2. InResumeProcess(b) <=> InResumeProcess(a)
    BY <1>2 DEF InResumeProcess
  <2>3. CASE InResumeProcess(a)
    BY <2>2, <2>3 DEF AttemptStage
  <2>4. CASE ~ InResumeProcess(a) /\ status \in Incomplete
    <3>1. a.status \in Incomplete
      BY <2>1, <2>4 DEF IsLegal, status, RowSound, ValidStatus
    <3> QED BY <1>2, <2>2, <2>4, <3>1 DEF AttemptStage
  <2>5. CASE ~ InResumeProcess(a) /\ status \notin Incomplete /\ status = "error"
    <3>1. AttemptStage(b) = "interrupted"
      BY <1>2, <2>2, <2>5 DEF AttemptStage, IsResumable
    <3>2. AttemptStage(a) \in {"open", "interrupted", "closed"}
      BY <2>5 DEF AttemptStage
    <3> QED BY <1>3, <2>5, <3>1, <3>2 DEF Moves, Interrupting
  <2>6. CASE ~ InResumeProcess(a) /\ status \notin Incomplete /\ status # "error"
    <3>1. AttemptStage(b) = IF status # "submitted" /\ a.resumable
                            THEN "interrupted" ELSE "closed"
      BY <1>2, <2>2, <2>6 DEF AttemptStage, IsResumable
    <3>2. AttemptStage(a) = IF a.status \in Incomplete THEN "open"
                            ELSE IF a.resumable THEN "interrupted" ELSE "closed"
      BY <2>6 DEF AttemptStage
    <3>3. a.status \in Incomplete => ~ a.resumable
      BY <2>1 DEF RowSound
    <3> QED BY <3>1, <3>2, <3>3 DEF Moves, Interrupting, Ending
  <2> QED BY <2>3, <2>4, <2>5, <2>6
<1>7. b.resumed = a.resumed
  BY <1>2
<1>8. /\ a.started => b.started
      /\ b.started /\ e \in SatOnce => a.started \/ AttemptStage(a) = "open"
  <2>1. b.started = (a.started \/ (status = "started" /\ ~ a.started))
    BY <1>1 DEF Saved, Attempt, b, status
  <2>2. ASSUME e \in SatOnce, status = "started" PROVE AttemptStage(a) = "open"
    <3>1. a.status \in Incomplete
      BY <2>2 DEF IsLegal, status, RowSound, ValidStatus, Incomplete, InProgress, SatOnce
    <3>2. ~ InResumeProcess(a)
      BY <2>2, <3>1 DEF RowSound, SatOnce
    <3> QED BY <3>1, <3>2 DEF AttemptStage
  <2>3. a.started \in BOOLEAN
    BY <1>1 DEF Attempt
  <2> QED BY <2>1, <2>2, <2>3, Zenon
<1>9. /\ b.row = a.row /\ b.status = status
      /\ b.status \in OnRequest => b.status \in {a.status, to}
  BY <1>2, <1>4
<1> QED
  BY <1>6, <1>7, <1>8, <1>9, Zenon DEF RowMove, b, status

-----------------------------------------------------------------------------
(* The operators that create no attempt.                                   *)

(* Moves of a whole database add up, too.                                  *)
LEMMA GoesTransitive ==
  ASSUME NEW d, NEW d1, NEW d2, NEW to,
         Honest(d), Goes(d, d1, to), Goes(d1, d2, to)
  PROVE  Goes(d, d2, to)
<1>1. ASSUME NEW e \in Exams, NEW j \in Slots
      PROVE  RowMove(e, d.att[e][j], d2.att[e][j], to)
  <2>1. /\ d.att[e][j] \in Attempt /\ d1.att[e][j] \in Attempt
        /\ d2.att[e][j] \in Attempt
    BY DEF Goes, Honest, Sound, RowSound
  <2>2. /\ RowMove(e, d.att[e][j], d1.att[e][j], to)
        /\ RowMove(e, d1.att[e][j], d2.att[e][j], to)
    BY DEF Goes, Moved, MovedAt
  <2> QED BY <2>1, <2>2, RowMoveTransitive
<1> QED
  BY <1>1 DEF Goes, Moved, MovedAt

(* Nothing has to happen; and a time-out may always happen on the way.     *)
LEMMA GoesSimple ==
  ASSUME NEW d, NEW to, Honest(d)
  PROVE  /\ Goes(d, d, to)
         /\ \A d1 : Goes(d, d1, "timed_out") => Goes(d, d1, to)
  BY RowMoveSimple DEF Goes, Moved, MovedAt

(* Which attempts are there, and stand against the credit, depends on the  *)
(* rows of the exam alone.                                                 *)
LEMMA SameRows ==
  ASSUME NEW d, NEW d1, NEW e, d1.att[e] = d.att[e]
  PROVE  /\ Live(d1, e) = Live(d, e)
         /\ Unused(d1, e) = Unused(d, e)
         /\ \A statuses : HasStatus(d1, e, statuses) = HasStatus(d, e, statuses)
  BY DEF Live, Unused, HasStatus

(* Telling the LMS changes the credit only where the rules allow it.       *)
LEMMA SettledCredit ==
  ASSUME NEW d, Sound(d), NEW e \in Exams, NEW from, NEW to
  PROVE  \A f \in Exams : Settled(d, e, from, to).credit[f] =
           IF f = e /\ CanUpdateCreditGradesAndEmail(d, e, to)
                    /\ to \in NeedsCreditUpdate
           THEN CreditFor(to) ELSE d.credit[f]
<1> DEFINE d1 == Settled(d, e, from, to)
           credit == IF to \in NeedsCreditUpdate THEN CreditFor(to)
                     ELSE d.credit[e]
           override ==
             IF ~ OverrideOnReject THEN d.override[e]
             ELSE \/ to \in NeedsGradeOverride
                  \/ /\ d.override[e]
                     /\ ~ (to = "verified" /\ from \in NeedsGradeOverride)
<1>1. CASE ~ CanUpdateCreditGradesAndEmail(d, e, to)
  BY <1>1 DEF Settled
<1>2. CASE CanUpdateCreditGradesAndEmail(d, e, to)
  <2>1. d1 = [d EXCEPT !.credit[e] = credit, !.override[e] = override]
    BY <1>2 DEF Settled
  <2> HIDE DEF override, credit, d1
  <2>2. d \in Database
    BY DEF Sound
  <2>3. d1.credit = [d.credit EXCEPT ![e] = credit]
    BY <2>1, <2>2 DEF Database
  <2>4. \A f \in Exams : d1.credit[f] = IF f = e THEN credit ELSE d.credit[f]
    BY <2>2, <2>3 DEF Database
  <2> QED BY <1>2, <2>4 DEF credit, d1
<1> QED
  BY <1>1, <1>2

(* What saving a status does to the rows and to the credit.                *)
LEMMA SaveStatusDoes ==
  ASSUME NEW d, Sound(d), NEW e \in Exams, NEW i \in Slots, NEW to,
         CanHave(e, to), NEW stamped \in BOOLEAN, NEW instantly \in BOOLEAN,
         IsLegal(d.att[e][i].status,
                 EffectiveStatus(d.att[e][i].status, to, AllowTimedOut)),
         NEW d1, d1 = SaveStatus(d, e, i, to, stamped, instantly),
         NEW new, new = EffectiveStatus(d.att[e][i].status, to, AllowTimedOut)
  PROVE  /\ Sound(d1)
         /\ OthersKept(d, d1, e, i)
         /\ d1.att[e][i] = Saved(d.att[e][i], to, stamped, instantly)
         /\ d1.att[e][i].row = d.att[e][i].row
         /\ d1.att[e][i].status = new
         /\ Moved(d, d1, to)
         /\ \A f \in Exams : Live(d1, f) = Live(d, f)
         /\ \A f \in Exams : d1.credit[f] =
              IF f = e /\ CanUpdateCreditGradesAndEmail(d1, e, new)
                       /\ new \in NeedsCreditUpdate
              THEN CreditFor(new) ELSE d.credit[f]
<1> DEFINE a   == d.att[e][i]
           row == Saved(a, to, stamped, instantly)
           dm  == WithRow(d, e, i, row)
<1>1. RowSound(e, a)
  BY DEF Sound
<1>2. /\ RowSound(e, row) /\ RowMove(e, a, row, to)
      /\ row.row = a.row /\ row.status = new
  BY <1>1, SavedSound, SavedMoves
<1>3. d1 = Settled(dm, e, a.status, row.status)
  BY DEF SaveStatus, WithRow
<1> HIDE DEF row
<1>4. /\ Sound(dm)
      /\ \A f \in Exams, j \in Slots :
           dm.att[f][j] = IF f = e /\ j = i THEN row ELSE d.att[f][j]
  BY <1>2, WriteRowSound
<1>5. dm.credit = d.credit
  BY DEF WithRow, Sound, Database
<1> HIDE DEF dm
<1>6. d1.att = dm.att /\ Sound(d1)
  BY <1>3, <1>4, SettledSound
<1>7. \A f \in Exams, j \in Slots :
        d1.att[f][j] = IF f = e /\ j = i THEN row ELSE d.att[f][j]
  BY <1>4, <1>6
<1>8. OthersKept(d, d1, e, i) /\ d1.att[e][i] = row
  BY <1>7 DEF OthersKept
<1>9. \A f \in Exams : Live(d1, f) = Live(d, f)
  BY <1>2, <1>7 DEF Live
<1>10. Moved(d, d1, to)
  BY <1>2, <1>7, RowMoveSimple DEF Moved, MovedAt
<1>11. \A f \in Exams : d1.credit[f] =
         IF f = e /\ CanUpdateCreditGradesAndEmail(dm, e, new)
                  /\ new \in NeedsCreditUpdate
         THEN CreditFor(new) ELSE d.credit[f]
  BY <1>2, <1>3, <1>4, <1>5, SettledCredit, SMTT(30)
<1>12. CanUpdateCreditGradesAndEmail(dm, e, new)
         <=> CanUpdateCreditGradesAndEmail(d1, e, new)
  <2>1. Live(dm, e) = Live(d1, e)
    BY <1>6, SameRows
  <2>2. \A statuses : HasStatus(dm, e, statuses) = HasStatus(d1, e, statuses)
    BY <1>6 DEF HasStatus, Live
  <2> QED BY <2>1, <2>2, Zenon DEF CanUpdateCreditGradesAndEmail
<1> QED
  BY <1>2, <1>6, <1>8, <1>9, <1>10, <1>11, <1>12 DEF row

(* Only a verified attempt satisfies the credit requirement.               *)
LEMMA SatisfiedByVerified ==
  ASSUME NEW status \in NeedsCreditUpdate
  PROVE  CreditFor(status) = "satisfied" <=> status = "verified"
<1>1. CASE status = "verified"
  BY <1>1 DEF CreditFor
<1>2. CASE status = "submitted"
  BY <1>2 DEF CreditFor
<1>3. CASE status = "declined"
  BY <1>3 DEF CreditFor
<1>4. CASE status \in {"rejected", "error"}
  BY <1>4 DEF CreditFor
<1> QED
  BY <1>1, <1>2, <1>3, <1>4 DEF NeedsCreditUpdate

(* The credit stays honest: the rule on several attempts lets a status     *)
(* that stands against it pass only where one stood against it before, and *)
(* satisfies it only where none does.                                      *)
LEMMA SaveStatusHonest ==
  ASSUME NEW d, Honest(d), NEW e \in Exams, NEW i \in Slots, NEW to,
         CanHave(e, to), NEW stamped \in BOOLEAN, NEW instantly \in BOOLEAN,
         IsLegal(d.att[e][i].status,
                 EffectiveStatus(d.att[e][i].status, to, AllowTimedOut)),
         e \in SatOnce => i \in Live(d, e)
  PROVE  Goes(d, SaveStatus(d, e, i, to, stamped, instantly), to)
<1> DEFINE d1  == SaveStatus(d, e, i, to, stamped, instantly)
           new == EffectiveStatus(d.att[e][i].status, to, AllowTimedOut)
           against == NeedsCreditUpdate \ {"verified"}
<1>1. Sound(d)
  BY DEF Honest
<1>2. /\ Sound(d1) /\ Moved(d, d1, to)
      /\ OthersKept(d, d1, e, i)
      /\ d1.att[e][i].status = new
      /\ \A f \in Exams : Live(d1, f) = Live(d, f)
      /\ \A f \in Exams : d1.credit[f] =
           IF f = e /\ CanUpdateCreditGradesAndEmail(d1, e, new)
                    /\ new \in NeedsCreditUpdate
           THEN CreditFor(new) ELSE d.credit[f]
  BY <1>1, SaveStatusDoes
<1>3. against = {"rejected", "declined", "submitted", "error"}
  BY DEF NeedsCreditUpdate
<1> HIDE DEF d1, new, against
<1>4. ASSUME NEW f \in SatOnce, f # e
      PROVE  HonestAt(d1, f)
  <2>1. f \in Exams
    BY <1>4 DEF SatOnce
  <2>2. \A j \in Slots : d1.att[f][j] = d.att[f][j]
    BY <1>2, <1>4, <2>1 DEF OthersKept
  <2>3. HasStatus(d1, f, against) = HasStatus(d, f, against)
    BY <1>2, <2>1, <2>2 DEF HasStatus, Live
  <2>4. d1.credit[f] = d.credit[f]
    BY <1>2, <1>4, <2>1
  <2> QED BY <2>3, <2>4, <1>4 DEF HonestAt, Honest, CreditHonest, against
<1>5. ASSUME e \in SatOnce, d1.credit[e] = "satisfied"
      PROVE  HasStatus(d1, e, against) = {}
  <2>1. i \in Live(d1, e)
    BY <1>2, <1>5
  <2>2. \A j \in Live(d1, e) : j # i =>
          j \in Live(d, e) /\ d1.att[e][j] = d.att[e][j]
    BY <1>2 DEF OthersKept, Live
  <2>3. CASE CanUpdateCreditGradesAndEmail(d1, e, new) /\ new \in NeedsCreditUpdate
    <3>1. CreditFor(new) = "satisfied"
      BY <1>2, <1>5, <2>3
    <3>2. new = "verified"
      BY <2>3, <3>1, SatisfiedByVerified
    <3>3. \A j \in Live(d1, e) : d1.att[e][j].status = "verified"
      <4>1. \/ \E j \in Live(d1, e) : Live(d1, e) = {j}
            \/ Live(d1, e) = HasStatus(d1, e, {"verified"})
        BY <1>5, <2>3, <3>2 DEF CanUpdateCreditGradesAndEmail, SatOnce
      <4> QED BY <1>2, <2>1, <3>2, <4>1 DEF HasStatus
    <3> QED BY <1>3, <3>3 DEF HasStatus
  <2>4. CASE ~ (CanUpdateCreditGradesAndEmail(d1, e, new) /\ new \in NeedsCreditUpdate)
    <3>1. d.credit[e] = "satisfied"
      BY <1>2, <1>5, <2>4
    <3>2. HasStatus(d, e, against) = {}
      BY <1>5, <3>1 DEF Honest, CreditHonest, against
    <3>3. \A j \in Live(d1, e) : j # i => d1.att[e][j].status \notin against
      BY <2>2, <3>2 DEF HasStatus
    <3>4. ASSUME new \in against
          PROVE  FALSE
      <4>1. ~ CanUpdateCreditGradesAndEmail(d1, e, new)
        BY <2>4, <3>4 DEF against
      <4>2. CASE new \in {"declined", "error"}
        BY <4>1, <4>2 DEF CanUpdateCreditGradesAndEmail
      <4>3. CASE new = "submitted"
        <5>1. HasStatus(d1, e, {"rejected"}) # {}
          BY <4>1, <4>3 DEF CanUpdateCreditGradesAndEmail
        <5> QED BY <5>1, <4>3, <3>3, <1>2, <1>3 DEF HasStatus
      <4>4. CASE new = "rejected"
        <5>1. \/ HasStatus(d1, e, {"declined"}) # {}
              \/ \E j, k \in HasStatus(d1, e, {"rejected"}) : j # k
          BY <4>1, <4>4 DEF CanUpdateCreditGradesAndEmail
        <5> QED BY <5>1, <4>4, <3>3, <1>2, <1>3 DEF HasStatus
      <4> QED BY <1>3, <3>4, <4>2, <4>3, <4>4
    <3> QED BY <1>2, <3>3, <3>4 DEF HasStatus
  <2> QED BY <2>3, <2>4
<1>6. CreditHonest(d1)
  BY <1>4, <1>5 DEF CreditHonest, HonestAt, against
<1> QED
  BY <1>2, <1>6 DEF Goes, Honest, d1

(* Clearing archives rows that were in onboarding error, and does nothing  *)
(* else; the end of a timed or proctored exam clears nothing.              *)
LEMMA ClearDoes ==
  ASSUME NEW d, Honest(d), NEW e \in Exams, NEW to,
         NEW d1, d1 = ClearOnboardingErrors(d, e, to)
  PROVE  /\ \A asked : Goes(d, d1, asked)
         /\ \A f \in Exams : FinishedKept(d, d1, f)
         /\ \A f \in Exams, j \in Slots :
              \/ d1.att[f][j] = d.att[f][j]
              \/ d1.att[f][j] = Archived /\ j \in HasStatus(d, f, OnboardingErrors)
         /\ d1.credit = d.credit
         /\ e \in SatOnce => d1 = d
<1> DEFINE att == [f \in Exams |-> [j \in Slots |->
                     IF j \in HasStatus(d, f, OnboardingErrors)
                     THEN Archived ELSE d.att[f][j]]]
<1>1. d1 = d \/ (Kind[e] = "practice" /\ d1 = [d EXCEPT !.att = att])
  BY DEF ClearOnboardingErrors
<1>2. Sound(d) /\ Sound(d1)
  BY ClearOnboardingErrorsSound DEF Honest
<1>3. \A f \in Exams, j \in Slots :
        \/ att[f][j] = d.att[f][j]
        \/ att[f][j] = Archived /\ j \in HasStatus(d, f, OnboardingErrors)
  OBVIOUS
<1> HIDE DEF att
<1>4. d1.credit = d.credit /\ (d1 = d \/ d1.att = att)
  BY <1>1, <1>2 DEF Sound, Database
<1>5. \A f \in Exams, j \in Slots :
        \/ d1.att[f][j] = d.att[f][j]
        \/ d1.att[f][j] = Archived /\ j \in HasStatus(d, f, OnboardingErrors)
  BY <1>3, <1>4
<1>6. e \in SatOnce => d1 = d
  BY <1>1 DEF SatOnce
<1>7. ASSUME NEW asked
      PROVE  Moved(d, d1, asked)
  <2>1. \A f \in Exams : \A j \in HasStatus(d, f, OnboardingErrors) :
          d.att[f][j].row # "unused"
    BY DEF HasStatus, Live
  <2> QED BY <1>5, <2>1, RowMoveSimple DEF Moved, MovedAt
<1>8. ASSUME NEW f \in Exams
      PROVE  FinishedKept(d, d1, f)
  BY <1>5 DEF FinishedKept, Finished, HasStatus
<1>9. CreditHonest(d1)
  <2>1. ASSUME NEW f \in SatOnce, NEW statuses
        PROVE  HasStatus(d1, f, statuses) \subseteq HasStatus(d, f, statuses)
    <3>1. f \in Exams
      BY DEF SatOnce
    <3>2. Archived.row # "live"
      BY DEF Archived, NoRow
    <3> QED BY <1>5, <3>1, <3>2 DEF HasStatus, Live
  <2>2. ASSUME NEW f \in SatOnce, d1.credit[f] = "satisfied"
        PROVE  HasStatus(d1, f, NeedsCreditUpdate \ {"verified"}) = {}
    <3>1. HasStatus(d, f, NeedsCreditUpdate \ {"verified"}) = {}
      BY <1>4, <2>2 DEF Honest, CreditHonest
    <3> HIDE DEF NeedsCreditUpdate
    <3> QED BY <2>1, <3>1
  <2> QED BY <2>2 DEF CreditHonest
<1> QED
  BY <1>2, <1>4, <1>5, <1>6, <1>7, <1>8, <1>9 DEF Goes, Honest

(* A read ends the attempt or does nothing to it, and touches nothing that *)
(* is finished.  It touches other exams when it ends an onboarding exam    *)
(* only.                                                                   *)
LEMMA ReadDoes ==
  ASSUME NEW d, Honest(d), NEW e \in Exams, NEW i \in Slots,
         e \in SatOnce => i \in Live(d, e),
         NEW d1, d1 = Read(d, e, i)
  PROVE  /\ Goes(d, d1, "timed_out")
         /\ \A f \in Exams : FinishedKept(d, d1, f)
         /\ e \in SatOnce =>
              OthersKept(d, d1, e, i) /\ Live(d1, e) = Live(d, e)
         /\ i \in Live(d, e) => i \in Live(d1, e)
         /\ \A f \in Exams : \A j \in Slots : f # e =>
              \/ d1.att[f][j] = d.att[f][j]
              \/ d1.att[f][j] = Archived /\ j \in HasStatus(d, f, OnboardingErrors)
<1>1. CASE ~ Overdue(d.att[e][i])
  <2>1. d1 = d
    BY <1>1 DEF Read
  <2> QED BY <2>1, GoesSimple DEF FinishedKept, OthersKept
<1>2. CASE Overdue(d.att[e][i])
  <2> DEFINE dm == SaveStatus(d, e, i, "timed_out", TRUE, FALSE)
             legal == IsLegal(d.att[e][i].status,
                EffectiveStatus(d.att[e][i].status, "timed_out", AllowTimedOut))
  <2>1. d1 = ClearOnboardingErrors(dm, e, "submitted")
    BY <1>2 DEF Read
  <2>2. CanHave(e, "timed_out") /\ "timed_out" \in Completed
    BY DEF CanHave, Status, ValidStatus, Completed
  <2>3. legal
    BY <2>2, EndingIsLegal
  <2> HIDE DEF legal
  <2>4. /\ Goes(d, dm, "timed_out") /\ OthersKept(d, dm, e, i)
        /\ dm.att[e][i].status \in {"timed_out", "submitted"}
        /\ \A f \in Exams : Live(dm, f) = Live(d, f)
    <3>1. ASSUME NEW s \in BOOLEAN, NEW n \in BOOLEAN,
                 NEW x, x = SaveStatus(d, e, i, "timed_out", s, n)
          PROVE  /\ Goes(d, x, "timed_out")
                 /\ OthersKept(d, x, e, i)
                 /\ x.att[e][i].status \in {"timed_out", "submitted"}
                 /\ \A f \in Exams : Live(x, f) = Live(d, f)
      <4>1. Sound(d)
        BY DEF Honest
      <4>2. EffectiveStatus(d.att[e][i].status, "timed_out", AllowTimedOut)
              \in {"timed_out", "submitted"}
        BY DEF EffectiveStatus
      <4> QED BY <2>2, <2>3, <3>1, <4>1, <4>2, SaveStatusDoes, SaveStatusHonest
              DEF legal
    <3> QED BY <3>1, Zenon
  <2> HIDE DEF dm
  <2>5. Honest(dm)
    BY <2>4 DEF Goes
  <2>6. /\ Goes(dm, d1, "timed_out")
        /\ \A f \in Exams : FinishedKept(dm, d1, f)
        /\ \A f \in Exams, j \in Slots :
             \/ d1.att[f][j] = dm.att[f][j]
             \/ d1.att[f][j] = Archived /\ j \in HasStatus(dm, f, OnboardingErrors)
        /\ e \in SatOnce => d1 = dm
    BY <2>1, <2>5, ClearDoes
  <2>7. Goes(d, d1, "timed_out")
    BY <2>4, <2>6, GoesTransitive
  <2>8. ASSUME NEW f \in Exams
        PROVE  FinishedKept(d, d1, f)
    <3>1. ASSUME NEW j \in Slots, Finished(d.att[f][j])
          PROVE  dm.att[f][j] = d.att[f][j]
      <4>1. CASE f = e /\ j = i
        <5>1. d.att[e][i].status \in Incomplete
          BY <1>2 DEF Overdue
        <5> QED BY <3>1, <4>1, <5>1
            DEF Finished, Completed, Incomplete, InProgress, PreStarted
      <4>2. CASE f # e \/ j # i
        BY <2>4, <4>2 DEF OthersKept
      <4> QED BY <4>1, <4>2
    <3> QED BY <2>6, <3>1 DEF FinishedKept
  <2>9. ASSUME NEW f \in Exams, f # e, NEW j \in Slots
        PROVE  \/ d1.att[f][j] = d.att[f][j]
               \/ d1.att[f][j] = Archived /\ j \in HasStatus(d, f, OnboardingErrors)
    <3>1. \A k \in Slots : dm.att[f][k] = d.att[f][k]
      BY <2>4, <2>9 DEF OthersKept
    <3>2. HasStatus(dm, f, OnboardingErrors) = HasStatus(d, f, OnboardingErrors)
      BY <3>1 DEF HasStatus, Live
    <3> QED BY <2>6, <3>1, <3>2
  <2>10. e \in SatOnce => OthersKept(d, d1, e, i) /\ Live(d1, e) = Live(d, e)
    BY <2>4, <2>6
  <2>11. ASSUME i \in Live(d, e)
         PROVE  i \in Live(d1, e)
    <3>1. i \in Live(dm, e) /\ i \notin HasStatus(dm, e, OnboardingErrors)
      BY <2>4, <2>11 DEF HasStatus, OnboardingErrors
    <3> QED BY <2>6, <3>1 DEF Live
  <2> QED BY <2>7, <2>8, <2>9, <2>10, <2>11
<1> QED
  BY <1>1, <1>2

(* The read of the current attempt when the time allowed is worked out.    *)
LEMMA AllowedTimeReadDoes ==
  ASSUME NEW d, Honest(d), NEW e \in Exams, NEW d1, d1 = AllowedTimeRead(d, e)
  PROVE  /\ Goes(d, d1, "timed_out")
         /\ \A f \in Exams : FinishedKept(d, d1, f)
         /\ e \in SatOnce => Live(d1, e) = Live(d, e)
         /\ \A f \in Exams : \A j \in Slots : f # e =>
              \/ d1.att[f][j] = d.att[f][j]
              \/ d1.att[f][j] = Archived /\ j \in HasStatus(d, f, OnboardingErrors)
<1>1. CASE HasAttempt(d, e)
  <2>1. Latest(d, e) \in Slots /\ Latest(d, e) \in Live(d, e)
    BY <1>1, LatestIsLive
  <2>2. d1 = Read(d, e, Latest(d, e))
    BY <1>1 DEF AllowedTimeRead
  <2> QED BY <2>1, <2>2, ReadDoes
<1>2. CASE ~ HasAttempt(d, e)
  <2>1. d1 = d
    BY <1>2 DEF AllowedTimeRead
  <2> QED BY <2>1, GoesSimple DEF FinishedKept
<1> QED
  BY <1>1, <1>2

(* Writing a row that is at the same stage, with the same status.          *)
LEMMA WriteDoes ==
  ASSUME NEW d, Honest(d), NEW e \in Exams, NEW i \in Slots, NEW row,
         RowSound(e, row), row.row = d.att[e][i].row,
         row.status = d.att[e][i].status, NEW to,
         RowMove(e, d.att[e][i], row, to),
         NEW d1, d1 = WithRow(d, e, i, row)
  PROVE  /\ Goes(d, d1, to) /\ OthersKept(d, d1, e, i)
         /\ d1.att[e][i] = row
         /\ \A f \in Exams : Live(d1, f) = Live(d, f)
<1>1. /\ Sound(d1)
      /\ \A f \in Exams, j \in Slots :
           d1.att[f][j] = IF f = e /\ j = i THEN row ELSE d.att[f][j]
  BY WriteRowSound DEF Honest
<1>2. d1.credit = d.credit
  BY DEF WithRow, Honest, Sound, Database
<1>3. \A f \in Exams : Live(d1, f) = Live(d, f)
  BY <1>1 DEF Live
<1>4. \A f \in Exams : \A statuses :
        HasStatus(d1, f, statuses) = HasStatus(d, f, statuses)
  BY <1>1, <1>3 DEF HasStatus, Live
<1>5. CreditHonest(d1)
  BY <1>2, <1>4 DEF Honest, CreditHonest, SatOnce
<1>6. Moved(d, d1, to)
  BY <1>1, RowMoveSimple DEF Moved, MovedAt
<1> QED
  BY <1>1, <1>3, <1>5, <1>6 DEF Goes, Honest, OthersKept

-----------------------------------------------------------------------------
(* The invariant exam by exam, and the operators that create attempts.     *)

InLineAt(d, e) ==
  /\ \A i, j \in Slots :
       i < j /\ d.att[e][i].row = "unused" => d.att[e][j].row = "unused"
  /\ e \in SatOnce =>
       \A i, j \in Live(d, e) : i < j => d.att[e][i].resumed
  /\ e \in SatOnce => HonestAt(d, e)

(* At exam e, which had no attempt any more, one has been made and declined. *)
AnewAt(d, d1, e) ==
  /\ ~ HasAttempt(d, e)
  /\ \E s \in Unused(d, e) :
       /\ Live(d1, e) = {s}
       /\ d1.att[e][s].status = "declined"
       /\ AttemptStage(d1.att[e][s]) = "closed"
       /\ \A j \in Slots \ {s} :
            /\ d1.att[e][j].row = "unused" => d.att[e][j].row = "unused"
            /\ d.att[e][j].row = "archived" => d1.att[e][j].row = "archived"

(* The invariant is one of each exam.                                      *)
LEMMA InLineExamByExam ==
  ASSUME NEW d
  PROVE  InLine(d) <=> Sound(d) /\ \A e \in Exams : InLineAt(d, e)
  BY DEF InLine, InLineAt, UsedInOrder, Superseded, CreditHonest, HonestAt, SatOnce

(* It depends on the rows and the credit of the exam.                      *)
LEMMA InLineSame ==
  ASSUME NEW d, NEW d1, NEW e, InLineAt(d, e), d1.att[e] = d.att[e],
         d1.credit[e] = d.credit[e]
  PROVE  InLineAt(d1, e)
<1>1. Live(d1, e) = Live(d, e)
  BY SameRows
<1>2. \A statuses : HasStatus(d1, e, statuses) = HasStatus(d, e, statuses)
  BY SameRows
<1>3. HonestAt(d, e) => HonestAt(d1, e)
  BY <1>2, Zenon DEF HonestAt
<1> QED
  BY <1>1, <1>3 DEF InLineAt

(* Moves at one exam add up.                                               *)
LEMMA MovedAtTransitive ==
  ASSUME NEW d, NEW d1, NEW d2, Sound(d), Sound(d1), Sound(d2),
         NEW e \in Exams, NEW to, MovedAt(d, d1, e, to), MovedAt(d1, d2, e, to)
  PROVE  MovedAt(d, d2, e, to)
<1>1. ASSUME NEW j \in Slots
      PROVE  RowMove(e, d.att[e][j], d2.att[e][j], to)
  <2>1. /\ d.att[e][j] \in Attempt /\ d1.att[e][j] \in Attempt
        /\ d2.att[e][j] \in Attempt
    BY DEF Sound, RowSound
  <2> QED BY <2>1, RowMoveTransitive DEF MovedAt
<1> QED
  BY <1>1 DEF MovedAt

(* Moves create no attempt, and take no attempt out of the course of       *)
(* resumption.                                                             *)
LEMMA MovedKeepsLine ==
  ASSUME NEW d, InLine(d), NEW d1, NEW to, Goes(d, d1, to)
  PROVE  InLine(d1)
<1>1. \A e \in Exams, j \in Slots : RowMove(e, d.att[e][j], d1.att[e][j], to)
  BY DEF Goes, Moved, MovedAt
<1>2. \A e \in Exams, j \in Slots :
        d.att[e][j].row \in {"unused", "live", "archived"}
  BY DEF InLine, Sound, RowSound, Attempt
<1>3. UsedInOrder(d1)
  BY <1>1 DEF InLine, UsedInOrder, RowMove
<1>4. \A e \in Exams : \A j \in Live(d1, e) :
        /\ j \in Live(d, e)
        /\ d.att[e][j].resumed => d1.att[e][j].resumed
  BY <1>1, <1>2 DEF Live, RowMove
<1>5. Superseded(d1)
  BY <1>4 DEF InLine, Superseded, SatOnce
<1> QED
  BY <1>3, <1>5 DEF InLine, Goes, Honest

(* The first free slot.                                                    *)
LEMMA FreshIsFirst ==
  ASSUME NEW d, NEW e, Unused(d, e) # {}
  PROVE  /\ FreshSlot(d, e) \in Unused(d, e) /\ FreshSlot(d, e) \in Slots
         /\ \A j \in Unused(d, e) : FreshSlot(d, e) <= j
<1> DEFINE N == MaxAttempts
           S == Unused(d, e)
           T == {N + 1 - k : k \in S}
<1>1. N \in Nat /\ S \in SUBSET (1 .. N)
  BY ConstantsAssumption DEF Unused, Slots
<1> HIDE DEF S, N
<1>2. T \in SUBSET (1 .. N) /\ T # {}
  BY <1>1 DEF S
<1>3. PICK m \in T : \A k \in T : k <= m
  BY <1>1, <1>2, NonEmptyHasMax
<1>4. PICK i \in S : m = N + 1 - i
  OBVIOUS
<1>5. ASSUME NEW j \in S
      PROVE  i <= j
  <2>1. N + 1 - j <= N + 1 - i
    BY <1>3, <1>4
  <2>2. i \in Int /\ j \in Int /\ N \in Int
    BY <1>1
  <2> QED BY <2>1, <2>2
<1>6. \E k \in Unused(d, e) : \A j \in Unused(d, e) : k <= j
  BY <1>5 DEF S
<1>7. FreshSlot(d, e) \in Unused(d, e)
      /\ \A j \in Unused(d, e) : FreshSlot(d, e) <= j
  BY <1>6, Zenon DEF FreshSlot
<1> QED
  BY <1>7 DEF Unused

(* Creating an attempt after attempts that were all resumed.               *)
LEMMA NewAttemptDoes ==
  ASSUME NEW d, InLine(d), NEW e \in Exams, Unused(d, e) # {},
         NEW status, CanHave(e, status), status \notin NeedsCreditUpdate,
         NEW proctored \in BOOLEAN,
         e \in SatOnce => \A i \in Live(d, e) : d.att[e][i].resumed,
         NEW s, s = FreshSlot(d, e),
         NEW d1, d1 = NewAttempt(d, e, status, proctored)
  PROVE  /\ InLine(d1)
         /\ s \in Unused(d, e) /\ OthersKept(d, d1, e, s)
         /\ Live(d1, e) = Live(d, e) \cup {s} /\ s \notin Live(d, e)
         /\ Latest(d1, e) = s
         /\ d1.att[e][s].status = status
         /\ AttemptStage(d1.att[e][s]) =
              IF status \in Incomplete THEN "open" ELSE "closed"
<1> DEFINE row == [NoRow EXCEPT
                     !.row = "live", !.status = status, !.proctored = proctored,
                     !.registered = proctored /\ status = "created"]
<1>1. /\ s \in Slots /\ s \in Unused(d, e)
      /\ \A j \in Unused(d, e) : s <= j
  BY FreshIsFirst
<1>2. Sound(d) /\ \A f \in Exams : InLineAt(d, f)
  BY InLineExamByExam
<1>3. d1 = WithRow(d, e, s, row)
  BY DEF NewAttempt, WithRow
<1>4. status # "error"
  BY DEF NeedsCreditUpdate
<1>5. RowSound(e, row)
  BY <1>4 DEF RowSound, CanHave, NoRow, Attempt, InResumeProcess
<1>6. /\ row.row = "live" /\ row.status = status
      /\ ~ row.ready /\ ~ row.resumed /\ ~ row.resumable
  BY DEF NoRow
<1> HIDE DEF row
<1>7. /\ Sound(d1)
      /\ \A f \in Exams, j \in Slots :
           d1.att[f][j] = IF f = e /\ j = s THEN row ELSE d.att[f][j]
  BY <1>2, <1>3, <1>5, WriteRowSound
<1>8. d1.credit = d.credit
  BY <1>2, <1>3 DEF WithRow, Sound, Database
<1>9. OthersKept(d, d1, e, s) /\ d1.att[e][s] = row
  BY <1>1, <1>7 DEF OthersKept
<1>10. Live(d1, e) = Live(d, e) \cup {s} /\ s \notin Live(d, e)
  BY <1>1, <1>6, <1>7 DEF Live, Unused
<1>11. \A j \in Live(d, e) : j < s
  <2>1. ASSUME NEW j \in Live(d, e), s < j
        PROVE  FALSE
    <3>1. d.att[e][j].row = "unused"
      BY <1>1, <1>2, <2>1 DEF InLineAt, Unused, Live
    <3> QED BY <3>1 DEF Live
  <2>2. \A j \in Live(d, e) : j \in Int /\ j # s
    BY <1>10 DEF Live, Slots
  <2> QED BY <1>1, <2>1, <2>2 DEF Slots
<1>12. InLineAt(d1, e)
  <2>1. \A i, j \in Slots :
          i < j /\ d1.att[e][i].row = "unused" => d1.att[e][j].row = "unused"
    <3>1. ASSUME NEW i \in Slots, NEW j \in Slots, i < j,
                 d1.att[e][i].row = "unused"
          PROVE  d1.att[e][j].row = "unused"
      <4>1. i # s /\ i \in Unused(d, e)
        BY <1>6, <1>7, <3>1 DEF Unused
      <4>2. s <= i /\ d.att[e][j].row = "unused"
        BY <1>1, <1>2, <3>1, <4>1 DEF InLineAt, Unused
      <4>3. j # s
        BY <1>1, <3>1, <4>2 DEF Slots
      <4> QED BY <1>7, <4>2, <4>3
    <3> QED BY <3>1
  <2>2. ASSUME e \in SatOnce
        PROVE  \A i, j \in Live(d1, e) : i < j => d1.att[e][i].resumed
    <3>1. \A i \in Live(d, e) : d1.att[e][i] = d.att[e][i] /\ d.att[e][i].resumed
      BY <1>7, <1>10, <2>2 DEF Live
    <3>2. \A j \in Live(d1, e) : ~ (s < j)
      BY <1>1, <1>10, <1>11 DEF Slots, Live
    <3> QED BY <1>10, <3>1, <3>2
  <2>3. ASSUME e \in SatOnce
        PROVE  HonestAt(d1, e)
    <3>1. \A j \in HasStatus(d1, e, NeedsCreditUpdate \ {"verified"}) :
            j \in HasStatus(d, e, NeedsCreditUpdate \ {"verified"})
      <4> HIDE DEF NeedsCreditUpdate
      <4> QED BY <1>6, <1>7, <1>10 DEF HasStatus, Live
    <3> HIDE DEF NeedsCreditUpdate
    <3> QED BY <1>2, <1>8, <2>3, <3>1 DEF InLineAt, HonestAt
  <2> QED BY <2>1, <2>2, <2>3 DEF InLineAt
<1>13. ASSUME NEW f \in Exams, f # e
       PROVE  InLineAt(d1, f)
  <2>1. d1.att[f] = d.att[f]
    BY <1>2, <1>3, <1>13 DEF WithRow, Sound, Database
  <2> QED BY <1>2, <1>8, <2>1, InLineSame
<1>14. InLine(d1)
  BY <1>7, <1>12, <1>13, InLineExamByExam
<1>15. Latest(d1, e) = s
  <2>1. HasAttempt(d1, e)
    BY <1>10 DEF HasAttempt
  <2>2. /\ Latest(d1, e) \in Live(d1, e) /\ s <= Latest(d1, e)
    BY <1>10, <2>1, LatestIsLive
  <2> QED BY <1>1, <1>10, <1>11, <2>2 DEF Slots, Live
<1>16. AttemptStage(row) = IF status \in Incomplete THEN "open" ELSE "closed"
  BY <1>6 DEF AttemptStage, InResumeProcess
<1> QED
  BY <1>1, <1>6, <1>9, <1>10, <1>14, <1>15, <1>16

(* What is true after a visit of the cascade to exam f.                    *)
VisitedAt(d, d1, f) ==
  /\ MovedAt(d, d1, f, "declined") \/ AnewAt(d, d1, f)
  /\ FinishedKept(d, d1, f)
  /\ HasAttempt(d1, f)
  /\ d1.att[f][Latest(d1, f)].status \in Completed

(* A visit declines the current attempt, or makes one and declines that,   *)
(* or finds it complete.                                                   *)
LEMMA DeclinedTooDoes ==
  ASSUME NEW d, InLine(d), NEW f \in SatOnce,
         HasAttempt(d, f) \/ Unused(d, f) # {},
         NEW d2, d2 = DeclinedToo(d, f)
  PROVE  InLine(d2) /\ VisitedAt(d, d2, f)
<1> DEFINE d1 == IF HasAttempt(d, f) THEN Read(d, f, Latest(d, f))
                 ELSE NewAttempt(d, f, "created", FALSE)
           i  == Latest(d1, f)
<1>1. f \in Exams
  BY DEF SatOnce
<1>2. Honest(d) /\ Sound(d)
  BY DEF InLine, Honest
<1>3. /\ CanHave(f, "created") /\ CanHave(f, "declined")
      /\ "declined" \in Completed /\ "declined" \notin Incomplete
      /\ "created" \in Incomplete /\ "created" \notin NeedsCreditUpdate
  BY DEF CanHave, Status, ValidStatus, Completed, Incomplete, PreStarted,
         InProgress, NeedsCreditUpdate
<1>4. /\ InLine(d1) /\ HasAttempt(d1, f)
      /\ \/ /\ HasAttempt(d, f)
            /\ Goes(d, d1, "timed_out") /\ FinishedKept(d, d1, f)
         \/ /\ ~ HasAttempt(d, f) /\ i \in Unused(d, f)
            /\ Live(d1, f) = {i} /\ d1.att[f][i].status = "created"
            /\ AttemptStage(d1.att[f][i]) = "open"
            /\ OthersKept(d, d1, f, i)
  <2>1. CASE HasAttempt(d, f)
    <3>1. Latest(d, f) \in Slots /\ Latest(d, f) \in Live(d, f)
      BY <1>1, <2>1, LatestIsLive
    <3>2. d1 = Read(d, f, Latest(d, f))
      BY <2>1
    <3> HIDE DEF d1
    <3>3. /\ Goes(d, d1, "timed_out") /\ FinishedKept(d, d1, f)
          /\ Live(d1, f) = Live(d, f)
      BY <1>1, <1>2, <3>1, <3>2, ReadDoes
    <3>4. InLine(d1)
      BY <3>3, MovedKeepsLine
    <3> QED BY <2>1, <3>3, <3>4 DEF HasAttempt
  <2>2. CASE ~ HasAttempt(d, f)
    <3>1. \A p \in BOOLEAN : \A x : x = NewAttempt(d, f, "created", p) =>
            /\ InLine(x) /\ Live(x, f) = Live(d, f) \cup {Latest(x, f)}
            /\ Latest(x, f) \in Unused(d, f)
            /\ x.att[f][Latest(x, f)].status = "created"
            /\ AttemptStage(x.att[f][Latest(x, f)]) = "open"
            /\ OthersKept(d, x, f, Latest(x, f))
      <4>1. Live(d, f) = {} /\ Unused(d, f) # {}
        BY <2>2 DEF HasAttempt
      <4> QED BY <1>1, <1>3, <4>1, NewAttemptDoes
    <3>2. d1 = NewAttempt(d, f, "created", FALSE)
      BY <2>2
    <3> HIDE DEF d1
    <3>3. /\ InLine(d1) /\ Live(d1, f) = Live(d, f) \cup {i}
          /\ i \in Unused(d, f)
          /\ d1.att[f][i].status = "created"
          /\ AttemptStage(d1.att[f][i]) = "open"
          /\ OthersKept(d, d1, f, i)
      BY <3>1, <3>2, Zenon
    <3> QED BY <2>2, <3>3 DEF HasAttempt
  <2> QED BY <2>1, <2>2
<1> HIDE DEF d1
<1>5. i \in Slots /\ i \in Live(d1, f)
  BY <1>1, <1>4, LatestIsLive
<1>6. Honest(d1) /\ Sound(d1)
  BY <1>4 DEF InLine, Honest
<1>7. CASE d1.att[f][i].status \in Completed
  <2>1. d2 = d1
    BY <1>7 DEF DeclinedToo, d1
  <2>2. HasAttempt(d, f)
    BY <1>4, <1>7 DEF Completed, OnboardingErrors
  <2>3. MovedAt(d, d1, f, "declined")
    BY <1>1, <1>4, <2>2, RowMoveSimple DEF Goes, Moved, MovedAt
  <2> QED BY <1>4, <1>7, <2>1, <2>2, <2>3 DEF VisitedAt
<1>8. CASE d1.att[f][i].status \notin Completed
  <2> DEFINE legal == IsLegal(d1.att[f][i].status,
                EffectiveStatus(d1.att[f][i].status, "declined", AllowTimedOut))
  <2>1. d2 = SaveStatus(d1, f, i, "declined", FALSE, FALSE)
    BY <1>8 DEF DeclinedToo, d1
  <2>2. legal
    BY <1>3, EndingIsLegal
  <2>3. EffectiveStatus(d1.att[f][i].status, "declined", AllowTimedOut) = "declined"
    BY DEF EffectiveStatus, IsReattempting, PreStarted
  <2>4. ASSUME NEW s \in BOOLEAN, NEW n \in BOOLEAN,
               NEW x, x = SaveStatus(d1, f, i, "declined", s, n)
        PROVE  /\ Goes(d1, x, "declined") /\ OthersKept(d1, x, f, i)
               /\ x.att[f][i].status = "declined"
               /\ Live(x, f) = Live(d1, f)
    BY <1>1, <1>3, <1>5, <1>6, <2>2, <2>3, <2>4, SaveStatusDoes, SaveStatusHonest
  <2>5. /\ Goes(d1, d2, "declined") /\ OthersKept(d1, d2, f, i)
        /\ d2.att[f][i].status = "declined"
        /\ Live(d2, f) = Live(d1, f)
    BY <2>1, <2>4, Zenon
  <2>6. InLine(d2)
    BY <1>4, <2>5, MovedKeepsLine
  <2>7. HasAttempt(d2, f) /\ Latest(d2, f) = i
    BY <1>4, <2>5 DEF HasAttempt, Latest
  <2>8. FinishedKept(d1, d2, f)
    <3>1. ~ Finished(d1.att[f][i])
      BY <1>8 DEF Finished
    <3> QED BY <1>1, <2>5, <3>1 DEF FinishedKept, OthersKept
  <2>9. CASE HasAttempt(d, f)
    <3>1. Goes(d, d1, "declined") /\ FinishedKept(d, d1, f)
      BY <1>2, <1>4, <2>9, GoesSimple
    <3>2. Goes(d, d2, "declined")
      BY <1>2, <2>5, <3>1, GoesTransitive
    <3>3. FinishedKept(d, d2, f)
      BY <2>8, <3>1 DEF FinishedKept
    <3> QED BY <1>1, <1>3, <2>5, <2>6, <2>7, <3>2, <3>3
        DEF VisitedAt, Goes, Moved
  <2>10. CASE ~ HasAttempt(d, f)
    <3>1. /\ i \in Unused(d, f) /\ Live(d1, f) = {i}
          /\ AttemptStage(d1.att[f][i]) = "open"
          /\ OthersKept(d, d1, f, i)
      BY <1>4, <2>10
    <3>2. Live(d2, f) = {i}
      BY <2>5, <3>1
    <3>3. \A j \in Slots \ {i} : d2.att[f][j] = d.att[f][j]
      BY <1>1, <2>5, <3>1 DEF OthersKept
    <3>4. AttemptStage(d2.att[f][i]) = "closed"
      <4>1. RowMove(f, d1.att[f][i], d2.att[f][i], "declined")
        BY <1>1, <1>5, <2>5 DEF Goes, Moved, MovedAt
      <4>2. d2.att[f][i].row = "live"
        BY <3>2 DEF Live
      <4>3. AttemptStage(d2.att[f][i]) # "open"
        BY <1>3, <2>5 DEF AttemptStage
      <4> QED BY <3>1, <4>1, <4>2, <4>3 DEF RowMove, Moves, Ending
    <3>5. AnewAt(d, d2, f)
      BY <2>10, <2>5, <3>1, <3>2, <3>3, <3>4 DEF AnewAt
    <3>6. FinishedKept(d, d2, f)
      <4>1. \A j \in Slots : ~ Finished(d.att[f][j])
        BY <2>10 DEF HasAttempt, Live, Finished
      <4> QED BY <4>1 DEF FinishedKept
    <3> QED BY <1>3, <2>5, <2>6, <2>7, <3>5, <3>6 DEF VisitedAt
  <2> QED BY <2>9, <2>10
<1> QED
  BY <1>7, <1>8

(* The cascade visits the other proctored exams, and no other.             *)
LEMMA CascadeDoes ==
  ASSUME NEW d, InLine(d), NEW e \in Exams, RoomToDecline(d, e),
         NEW d1, d1 = Cascade(d, e)
  PROVE  /\ InLine(d1)
         /\ \A f \in OtherProctored(e) : VisitedAt(d, d1, f)
         /\ \A f \in Exams \ OtherProctored(e) :
              d1.att[f] = d.att[f] /\ d1.credit[f] = d.credit[f]
<1> DEFINE visited(f) == IF f \in OtherProctored(e) THEN DeclinedToo(d, f) ELSE d
<1>1. OtherProctored(e) \subseteq SatOnce
  BY DEF OtherProctored, SatOnce
<1>2. \A f \in OtherProctored(e) : InLine(visited(f)) /\ VisitedAt(d, visited(f), f)
  BY <1>1, DeclinedTooDoes DEF RoomToDecline
<1>3. \A f \in Exams : InLine(visited(f))
  BY <1>2
<1>4. d1 = [att      |-> [f \in Exams |-> visited(f).att[f]],
            credit   |-> [f \in Exams |-> visited(f).credit[f]],
            override |-> [f \in Exams |-> visited(f).override[f]]]
  BY DEF Cascade
<1>5. \A f \in Exams \ OtherProctored(e) : visited(f) = d
  OBVIOUS
<1> HIDE DEF visited
<1>6. \A f \in Exams : /\ d1.att[f] = visited(f).att[f]
                       /\ d1.credit[f] = visited(f).credit[f]
  BY <1>4
<1>7. \A f \in Exams : InLineAt(d1, f)
  BY <1>3, <1>6, InLineExamByExam, InLineSame
<1>8. Sound(d1)
  BY CascadeSound DEF InLine
<1>9. ASSUME NEW f \in OtherProctored(e)
      PROVE  VisitedAt(d, d1, f)
  <2>1. f \in Exams
    BY DEF OtherProctored
  <2>2. d1.att[f] = visited(f).att[f]
    BY <1>6, <2>1
  <2>3. Live(d1, f) = Live(visited(f), f)
    BY <2>2, SameRows
  <2>4. Latest(d1, f) = Latest(visited(f), f)
    BY <2>3 DEF Latest
  <2>5. VisitedAt(d, visited(f), f)
    BY <1>2
  <2> QED BY <2>2, <2>3, <2>4, <2>5
      DEF VisitedAt, MovedAt, AnewAt, FinishedKept, HasAttempt
<1> QED
  BY <1>5, <1>6, <1>7, <1>8, <1>9, InLineExamByExam

(* update_attempt_status: where it declines it may create attempts, at     *)
(* other exams that had none.                                              *)
Updated(d, d1, e, i, to) ==
  /\ InLine(d1)
  /\ MovedAt(d, d1, e, to)
  /\ e \in SatOnce => Live(d1, e) = Live(d, e)
  /\ \A f \in Exams :
       \/ MovedAt(d, d1, f, to)
       \/ to = "declined" /\ f \in OtherProctored(e) /\ AnewAt(d, d1, f)
  /\ \A f \in Exams \ {e} : FinishedKept(d, d1, f)
  /\ to = "declined" => i \in HasStatus(d1, e, {"declined"})
  /\ to = "declined" => \A f \in OtherProctored(e) :
       \/ HasStatus(d, f, OnboardingErrors) # {}
       \/ HasAttempt(d1, f) /\ d1.att[f][Latest(d1, f)].status \in Completed

(* An update that does not decline.                                        *)
LEMMA UpdateMoves ==
  ASSUME NEW d, InLine(d), NEW e \in Exams, NEW i \in Live(d, e),
         NEW to, CanHave(e, to), to # "declined", NEW instantly \in BOOLEAN,
         NEW d3, d3 = Update(d, e, i, to, instantly)
  PROVE  /\ Goes(d, d3, to) /\ Updated(d, d3, e, i, to)
<1> DEFINE from == d.att[e][i].status
           new  == EffectiveStatus(from, to, AllowTimedOut)
           d0   == IF new = "started" /\ ~ d.att[e][i].started
                   THEN AllowedTimeRead(d, e) ELSE d
           d1   == SaveStatus(d0, e, i, to, FALSE, instantly)
           d2   == Read(d1, e, i)
<1>1. Honest(d) /\ Sound(d) /\ i \in Slots
  BY DEF InLine, Honest, Live
<1>2. CASE ~ IsLegal(from, new)
  <2>1. d3 = d
    BY <1>2 DEF Update
  <2>2. Goes(d, d, to)
    BY <1>1, GoesSimple
  <2> QED BY <2>1, <2>2 DEF Updated, Goes, Moved, FinishedKept
<1>3. CASE IsLegal(from, new)
  <2>1. new # "declined"
    BY DEF EffectiveStatus
  <2>2. d3 = ClearOnboardingErrors(d2, e, new)
    BY <1>3, <2>1 DEF Update, CascadableFailure
  <2>3. /\ Goes(d, d0, "timed_out")
        /\ \A f \in Exams : FinishedKept(d, d0, f)
        /\ e \in SatOnce => Live(d0, e) = Live(d, e)
    <3>1. CASE d0 = d
      BY <1>1, <3>1, GoesSimple DEF FinishedKept
    <3>2. CASE d0 = AllowedTimeRead(d, e)
      BY <1>1, <3>2, AllowedTimeReadDoes
    <3> QED BY <3>1, <3>2
  <2>4. IsLegal(d0.att[e][i].status,
                EffectiveStatus(d0.att[e][i].status, to, AllowTimedOut))
    <3>1. CASE d0.att[e][i] = d.att[e][i]
      BY <3>1, <1>3
    <3>2. CASE d0.att[e][i] = Archived
      BY <3>2 DEF IsLegal, Archived, NoRow, Completed, OnboardingErrors
    <3>3. CASE d0 # d
      <4>1. ~ Overdue(d.att[e][i])
        BY <3>3 DEF Overdue
      <4>2. d0 = Read(d, e, Latest(d, e))
        BY <3>3 DEF AllowedTimeRead
      <4>3. Latest(d, e) # i
        BY <1>1, <3>3, <4>1, <4>2, ReadSound
      <4>4. d0.att[e][i] \in {d.att[e][i], Archived}
        BY <1>1, <4>2, <4>3, ReadSound
      <4> QED BY <4>4, <3>1, <3>2
    <3> QED BY <3>1, <3>3
  <2> HIDE DEF d0
  <2>5. Honest(d0) /\ Sound(d0)
    BY <2>3 DEF Goes, Honest
  <2>6. e \in SatOnce => i \in Live(d0, e)
    BY <2>3
  <2>7. /\ Goes(d0, d1, to) /\ OthersKept(d0, d1, e, i)
        /\ \A f \in Exams : Live(d1, f) = Live(d0, f)
    <3>1. ASSUME NEW s \in BOOLEAN, NEW x,
                 x = SaveStatus(d0, e, i, to, s, instantly)
          PROVE  /\ Goes(d0, x, to) /\ OthersKept(d0, x, e, i)
                 /\ \A f \in Exams : Live(x, f) = Live(d0, f)
      BY <1>1, <2>4, <2>5, <2>6, <3>1, SaveStatusDoes, SaveStatusHonest
    <3> QED BY <3>1, Zenon
  <2> HIDE DEF d1
  <2>8. Honest(d1) /\ (e \in SatOnce => i \in Live(d1, e))
    BY <2>6, <2>7 DEF Goes
  <2>9. /\ Goes(d1, d2, "timed_out")
        /\ \A f \in Exams : FinishedKept(d1, d2, f)
        /\ e \in SatOnce => Live(d2, e) = Live(d1, e)
    BY <1>1, <2>8, ReadDoes
  <2> HIDE DEF d2
  <2>10. Honest(d2)
    BY <2>9 DEF Goes
  <2>11. /\ Goes(d2, d3, to)
         /\ \A f \in Exams : FinishedKept(d2, d3, f)
         /\ e \in SatOnce => d3 = d2
    BY <2>2, <2>10, ClearDoes
  <2>12. Goes(d, d3, to)
    <3>1. Goes(d, d0, to) /\ Goes(d1, d2, to)
      BY <1>1, <2>3, <2>8, <2>9, GoesSimple
    <3>2. Goes(d, d1, to)
      BY <1>1, <2>7, <3>1, GoesTransitive
    <3>3. Goes(d, d2, to)
      BY <1>1, <3>1, <3>2, GoesTransitive
    <3> QED BY <1>1, <2>11, <3>3, GoesTransitive
  <2>13. InLine(d3)
    BY <2>12, MovedKeepsLine
  <2>14. ASSUME NEW f \in Exams \ {e}
         PROVE  FinishedKept(d, d3, f)
    <3>1. \A j \in Slots : d1.att[f][j] = d0.att[f][j]
      BY <2>7 DEF OthersKept
    <3> QED BY <2>3, <2>9, <2>11, <3>1 DEF FinishedKept
  <2>15. e \in SatOnce => Live(d3, e) = Live(d, e)
    BY <2>3, <2>7, <2>9, <2>11
  <2> QED BY <2>12, <2>13, <2>14, <2>15 DEF Updated, Goes, Moved
<1> QED
  BY <1>2, <1>3

(* Clearing the errors of an onboarding exam leaves an attempt that was    *)
(* just made and declined alone.                                           *)
LEMMA ClearAfterAnew ==
  ASSUME NEW d, NEW d1, Honest(d1), NEW d2, NEW e \in Exams, AnewAt(d, d1, e),
         \A j \in Slots :
           \/ d2.att[e][j] = d1.att[e][j]
           \/ d2.att[e][j] = Archived /\ j \in HasStatus(d1, e, OnboardingErrors)
  PROVE  AnewAt(d, d2, e)
<1>1. PICK s \in Unused(d, e) :
        /\ Live(d1, e) = {s}
        /\ d1.att[e][s].status = "declined"
        /\ AttemptStage(d1.att[e][s]) = "closed"
        /\ \A j \in Slots \ {s} :
             /\ d1.att[e][j].row = "unused" => d.att[e][j].row = "unused"
             /\ d.att[e][j].row = "archived" => d1.att[e][j].row = "archived"
  BY DEF AnewAt
<1>2. HasStatus(d1, e, OnboardingErrors) = {}
  BY <1>1 DEF HasStatus, OnboardingErrors
<1>3. \A j \in Slots : d2.att[e][j] = d1.att[e][j]
  BY <1>2
<1>4. Live(d2, e) = Live(d1, e)
  BY <1>3 DEF Live
<1>5. s \in Slots
  BY DEF Unused
<1> QED
  BY <1>1, <1>3, <1>4, <1>5 DEF AnewAt

(* An update that declines.                                                *)
LEMMA UpdateDeclines ==
  ASSUME NEW d, InLine(d), NEW e \in Exams, NEW i \in Live(d, e),
         RoomToDecline(d, e), NEW instantly \in BOOLEAN,
         NEW d3, d3 = Update(d, e, i, "declined", instantly)
  PROVE  Updated(d, d3, e, i, "declined")
<1> DEFINE from == d.att[e][i].status
           new  == EffectiveStatus(from, "declined", AllowTimedOut)
           d1   == SaveStatus(d, e, i, "declined", FALSE, instantly)
           dw   == Withdrawn(d1, e, i)
           d2   == Cascade(dw, e)
<1>1. Honest(d) /\ Sound(d) /\ i \in Slots
  BY DEF InLine, Honest, Live
<1>2. CanHave(e, "declined") /\ "declined" \in Completed /\ "declined" \notin Incomplete
  BY DEF CanHave, Status, ValidStatus, Completed, Incomplete, PreStarted, InProgress
<1>3. new = "declined" /\ IsLegal(from, new)
  BY <1>2, EndingIsLegal DEF EffectiveStatus, IsReattempting, PreStarted
<1>4. d3 = ClearOnboardingErrors(Read(d2, e, i), e, "declined")
  <2>1. CanUpdateCreditGradesAndEmail(d1, e, "declined")
    BY DEF CanUpdateCreditGradesAndEmail
  <2> QED BY <1>3, <2>1 DEF Update, CascadableFailure
<1>5. /\ Goes(d, d1, "declined") /\ OthersKept(d, d1, e, i)
      /\ d1.att[e][i].status = "declined"
      /\ \A f \in Exams : Live(d1, f) = Live(d, f)
  <2>1. ASSUME NEW s \in BOOLEAN, NEW x,
               x = SaveStatus(d, e, i, "declined", s, instantly)
        PROVE  /\ Goes(d, x, "declined") /\ OthersKept(d, x, e, i)
               /\ x.att[e][i].status = "declined"
               /\ \A f \in Exams : Live(x, f) = Live(d, f)
    BY <1>1, <1>2, <1>3, <2>1, SaveStatusDoes, SaveStatusHonest
  <2> QED BY <2>1, Zenon
<1> HIDE DEF d1
<1>6. /\ Goes(d1, dw, "declined") /\ OthersKept(d1, dw, e, i)
      /\ dw.att[e][i].status = "declined"
      /\ \A f \in Exams : Live(dw, f) = Live(d1, f)
  <2> DEFINE a   == d1.att[e][i]
             row == [a EXCEPT !.proctored = FALSE, !.registered = FALSE]
  <2>1. Honest(d1) /\ RowSound(e, a)
    BY <1>1, <1>5 DEF Goes, Honest, Sound
  <2>2. dw = WithRow(d1, e, i, row)
    BY DEF WithRow, Withdrawn
  <2>3. \A r \in Attempt : /\ [r EXCEPT !.proctored = FALSE, !.registered = FALSE].row = r.row
                           /\ [r EXCEPT !.proctored = FALSE, !.registered = FALSE].status = r.status
                           /\ [r EXCEPT !.proctored = FALSE, !.registered = FALSE].resumed = r.resumed
                           /\ [r EXCEPT !.proctored = FALSE, !.registered = FALSE].ready = r.ready
                           /\ [r EXCEPT !.proctored = FALSE, !.registered = FALSE].started = r.started
                           /\ [r EXCEPT !.proctored = FALSE, !.registered = FALSE].resumable = r.resumable
    BY DEF Attempt
  <2>4. a \in Attempt
    BY <2>1 DEF RowSound
  <2>5. RowSound(e, row)
    BY <2>1, WithdrawnSound
  <2>6. /\ row.row = a.row /\ row.status = a.status /\ row.resumed = a.resumed
        /\ row.ready = a.ready /\ row.resumable = a.resumable
        /\ row.started = a.started
    BY <2>3, <2>4
  <2> HIDE DEF row
  <2>7. RowMove(e, a, row, "declined")
    BY <2>6 DEF RowMove, AttemptStage, InResumeProcess
  <2> HIDE DEF dw
  <2>8. /\ Goes(d1, dw, "declined") /\ OthersKept(d1, dw, e, i)
        /\ dw.att[e][i] = row
        /\ \A f \in Exams : Live(dw, f) = Live(d1, f)
    BY <1>1, <2>1, <2>2, <2>5, <2>6, <2>7, WriteDoes
  <2> QED BY <1>5, <2>6, <2>8
<1> HIDE DEF dw
<1>7. Goes(d, dw, "declined") /\ InLine(dw)
  BY <1>1, <1>5, <1>6, GoesTransitive, MovedKeepsLine
<1>8. \A f \in Exams \ {e}, j \in Slots : dw.att[f][j] = d.att[f][j]
  BY <1>5, <1>6 DEF OthersKept
<1>9. OtherProctored(e) \subseteq Exams \ {e}
  BY DEF OtherProctored
<1>10. RoomToDecline(dw, e)
  BY <1>8, <1>9 DEF RoomToDecline, HasAttempt, Live, Unused
<1>11. /\ InLine(d2)
       /\ \A f \in OtherProctored(e) : VisitedAt(dw, d2, f)
       /\ \A f \in Exams \ OtherProctored(e) :
            d2.att[f] = dw.att[f] /\ d2.credit[f] = dw.credit[f]
  BY <1>7, <1>10, CascadeDoes
<1> HIDE DEF d2
<1>12. d2.att[e] = dw.att[e]
  BY <1>9, <1>11
<1>13. Read(d2, e, i) = d2
  <2>1. ~ Overdue(d2.att[e][i])
    BY <1>2, <1>6, <1>12 DEF Overdue
  <2> QED BY <2>1 DEF Read
<1>14. Honest(d2) /\ Sound(d2)
  BY <1>11 DEF InLine, Honest
<1>15. /\ Goes(d2, d3, "declined")
       /\ \A f \in Exams : FinishedKept(d2, d3, f)
       /\ \A f \in Exams, j \in Slots :
            \/ d3.att[f][j] = d2.att[f][j]
            \/ d3.att[f][j] = Archived /\ j \in HasStatus(d2, f, OnboardingErrors)
       /\ e \in SatOnce => d3 = d2
  BY <1>4, <1>13, <1>14, ClearDoes
<1>16. InLine(d3)
  BY <1>11, <1>15, MovedKeepsLine
<1>17. ASSUME NEW f \in Exams \ OtherProctored(e)
       PROVE  MovedAt(d, d3, f, "declined")
  <2>1. MovedAt(d, d2, f, "declined")
    BY <1>7, <1>11 DEF Goes, Moved, MovedAt
  <2>2. MovedAt(d2, d3, f, "declined")
    BY <1>15 DEF Goes, Moved
  <2> QED BY <1>1, <1>14, <1>16, <2>1, <2>2, MovedAtTransitive DEF InLine
<1>18. ASSUME NEW f \in OtherProctored(e)
       PROVE  /\ MovedAt(d, d3, f, "declined") \/ AnewAt(d, d3, f)
              /\ HasStatus(d2, f, OnboardingErrors) \subseteq
                   HasStatus(d, f, OnboardingErrors)
  <2>1. f \in Exams /\ f # e
    BY <1>9
  <2>2. VisitedAt(dw, d2, f)
    BY <1>11
  <2>3. \A j \in Slots : dw.att[f][j] = d.att[f][j]
    BY <1>8, <2>1
  <2>4. CASE MovedAt(dw, d2, f, "declined")
    <3>1. MovedAt(d, d2, f, "declined")
      BY <2>3, <2>4 DEF MovedAt
    <3>2. MovedAt(d2, d3, f, "declined")
      BY <1>15, <2>1 DEF Goes, Moved
    <3>3. MovedAt(d, d3, f, "declined")
      BY <1>1, <1>14, <1>16, <2>1, <3>1, <3>2, MovedAtTransitive DEF InLine
    <3>4. ASSUME NEW j \in HasStatus(d2, f, OnboardingErrors)
          PROVE  j \in HasStatus(d, f, OnboardingErrors)
      <4>1. /\ j \in Slots /\ d2.att[f][j].row = "live"
            /\ d2.att[f][j].status \in OnboardingErrors
        BY DEF HasStatus, Live
      <4>2. RowMove(f, d.att[f][j], d2.att[f][j], "declined")
        BY <3>1, <4>1 DEF MovedAt
      <4>3. d.att[f][j].row \in {"unused", "live", "archived"}
        BY <1>1, <2>1, <4>1 DEF Sound, RowSound, Attempt
      <4>4. d.att[f][j].row = "live" /\ d.att[f][j].status = d2.att[f][j].status
        BY <4>1, <4>2, <4>3 DEF RowMove, OnRequest, OnboardingErrors
      <4> QED BY <4>1, <4>4 DEF HasStatus, Live
    <3> QED BY <3>3, <3>4
  <2>5. CASE AnewAt(dw, d2, f)
    <3>1. AnewAt(d, d2, f)
      BY <2>3, <2>5 DEF AnewAt, HasAttempt, Live, Unused
    <3>2. AnewAt(d, d3, f)
      BY <1>14, <1>15, <2>1, <3>1, ClearAfterAnew
    <3>3. HasStatus(d2, f, OnboardingErrors) = {}
      BY <2>5 DEF AnewAt, HasStatus, OnboardingErrors
    <3> QED BY <3>2, <3>3
  <2> QED BY <2>2, <2>4, <2>5 DEF VisitedAt
<1>19. ASSUME NEW f \in Exams \ {e}
       PROVE  FinishedKept(d, d3, f)
  <2>1. FinishedKept(d, d2, f)
    <3>1. CASE f \in OtherProctored(e)
      BY <1>8, <1>11, <3>1 DEF VisitedAt, FinishedKept
    <3>2. CASE f \notin OtherProctored(e)
      BY <1>8, <1>11, <3>2 DEF FinishedKept
    <3> QED BY <3>1, <3>2
  <2> QED BY <1>15, <2>1 DEF FinishedKept
<1>20. ASSUME NEW f \in OtherProctored(e), HasStatus(d, f, OnboardingErrors) = {}
       PROVE  HasAttempt(d3, f) /\ d3.att[f][Latest(d3, f)].status \in Completed
  <2>1. HasStatus(d2, f, OnboardingErrors) = {}
    BY <1>18, <1>20
  <2>2. f \in Exams
    BY <1>9
  <2>3. \A j \in Slots : d3.att[f][j] = d2.att[f][j]
    BY <1>15, <2>1, <2>2
  <2>4. Live(d3, f) = Live(d2, f)
    BY <2>3 DEF Live
  <2>5. HasAttempt(d2, f) /\ d2.att[f][Latest(d2, f)].status \in Completed
    BY <1>11 DEF VisitedAt
  <2>6. HasAttempt(d3, f) /\ Latest(d3, f) = Latest(d2, f)
    BY <2>4, <2>5 DEF HasAttempt, Latest
  <2>7. Latest(d2, f) \in Slots
    BY <2>2, <2>5, LatestIsLive
  <2> QED BY <2>3, <2>5, <2>6, <2>7
<1>21. i \in HasStatus(d3, e, {"declined"})
  <2>1. i \in Live(d2, e) /\ d2.att[e][i].status = "declined"
    BY <1>5, <1>6, <1>12 DEF Live
  <2>2. d3.att[e][i] = d2.att[e][i]
    <3>1. i \notin HasStatus(d2, e, OnboardingErrors)
      BY <2>1 DEF HasStatus, OnboardingErrors
    <3> QED BY <1>1, <1>15, <3>1
  <2> QED BY <2>1, <2>2 DEF HasStatus, Live
<1>22. e \in SatOnce => Live(d3, e) = Live(d, e)
  BY <1>5, <1>6, <1>12, <1>15 DEF Live
<1>23. e \notin OtherProctored(e)
  BY DEF OtherProctored
<1> QED
  BY <1>16, <1>17, <1>18, <1>19, <1>20, <1>21, <1>22, <1>23 DEF Updated

(* Any update.                                                             *)
LEMMA UpdateDoes ==
  ASSUME NEW d, InLine(d), NEW e \in Exams, NEW i \in Live(d, e),
         NEW to, CanHave(e, to), to = "declined" => RoomToDecline(d, e),
         NEW instantly \in BOOLEAN,
         NEW d1, d1 = Update(d, e, i, to, instantly)
  PROVE  Updated(d, d1, e, i, to)
  BY UpdateMoves, UpdateDeclines

(* Marking the attempt that is resumed.                                    *)
LEMMA MarkedResumedDoes ==
  ASSUME NEW d, Honest(d), NEW e \in Exams, NEW d1, d1 = MarkedResumed(d, e)
  PROVE  /\ \A to : Goes(d, d1, to)
         /\ \A f \in Exams \ {e} : FinishedKept(d, d1, f)
         /\ \A f \in Exams : Live(d1, f) = Live(d, f)
         /\ HasAttempt(d, e) /\ InResumeProcess(d.att[e][Latest(d, e)]) =>
              d1.att[e][Latest(d, e)].resumed
         /\ \A f \in Exams \ {e}, j \in Slots : d1.att[f][j] = d.att[f][j]
<1> DEFINE i   == Latest(d, e)
           a   == d.att[e][i]
           row == [a EXCEPT !.resumed = TRUE, !.resumable = FALSE]
<1>1. CASE HasAttempt(d, e) /\ InResumeProcess(a)
  <2>1. d1 = WithRow(d, e, i, row)
    BY <1>1 DEF MarkedResumed, WithRow
  <2>2. i \in Slots
    BY <1>1, LatestIsLive
  <2>3. RowSound(e, a) /\ a \in Attempt
    BY <2>2 DEF Honest, Sound, RowSound
  <2>4. RowSound(e, row)
    <3>1. \A r : RowSound(e, r) /\ InResumeProcess(r) =>
            RowSound(e, [r EXCEPT !.resumed = TRUE, !.resumable = FALSE])
      BY DEF RowSound, Attempt, InResumeProcess
    <3> QED BY <1>1, <2>3, <3>1
  <2>5. /\ row.row = a.row /\ row.status = a.status /\ row.resumed = TRUE
        /\ row.started = a.started
    BY <2>3 DEF Attempt
  <2> HIDE DEF row
  <2>6. \A to : RowMove(e, a, row, to)
    BY <1>1, <2>5 DEF RowMove, AttemptStage, InResumeProcess
  <2> HIDE DEF a, i
  <2>7. ASSUME NEW to
        PROVE  /\ Goes(d, d1, to) /\ OthersKept(d, d1, e, i)
               /\ d1.att[e][i] = row
               /\ \A f \in Exams : Live(d1, f) = Live(d, f)
    BY <2>1, <2>2, <2>4, <2>5, <2>6, WriteDoes DEF a
  <2> QED BY <1>1, <2>5, <2>7 DEF OthersKept, FinishedKept, i
<1>2. CASE ~ (HasAttempt(d, e) /\ InResumeProcess(a))
  <2>1. d1 = d
    BY <1>2 DEF MarkedResumed
  <2> QED BY <1>2, <2>1, GoesSimple DEF FinishedKept
<1> QED
  BY <1>1, <1>2

(* A request that has created an attempt at exam e, its current one.       *)
Created(d, d1, e) ==
  /\ InLine(d1)
  /\ Latest(d1, e) \in Unused(d, e)
  /\ Latest(d1, e) \in Live(d1, e)
  /\ d1.att[e][Latest(d1, e)].status \notin NeedsCreditUpdate
  /\ AttemptStage(d1.att[e][Latest(d1, e)]) \in {"open", "closed"}
  /\ \A j \in Slots \ {Latest(d1, e)} :
       RowMove(e, d.att[e][j], d1.att[e][j], "timed_out")
  /\ e \in SatOnce =>
       /\ Live(d1, e) = Live(d, e) \cup {Latest(d1, e)}
       /\ \A i \in Live(d, e) : InResumeProcess(d.att[e][i])
  /\ \A f \in Exams \ {e} :
       MovedAt(d, d1, f, "timed_out") /\ FinishedKept(d, d1, f)

(* Creating an attempt: d0 is the database a request finds, d the one that *)
(* it comes to create_exam_attempt with.  The two differ when a practice   *)
(* exam is reset.                                                          *)
LEMMA CreateAttemptDoes ==
  ASSUME NEW d0, InLine(d0), NEW e \in Exams, Unused(d0, e) # {},
         NEW d, Goes(d0, d, "timed_out"), e \in SatOnce => d = d0,
         \A f \in Exams \ {e} : FinishedKept(d0, d, f),
         NEW proctored \in BOOLEAN, NEW outcome \in Outcomes(e, proctored),
         NEW d1, d1 = CreateAttempt(d, e, proctored, outcome)
  PROVE  /\ Creates(d, e, proctored, outcome) => Created(d0, d1, e)
         /\ ~ Creates(d, e, proctored, outcome) => Goes(d0, d1, "timed_out")
         /\ ~ Creates(d, e, proctored, outcome) =>
              \A f \in Exams \ {e} : FinishedKept(d0, d1, f)
         /\ ~ proctored => \A f \in Exams \ {e}, j \in Slots :
              d1.att[f][j] = d.att[f][j]
<1> DEFINE dm == MarkedResumed(d, e)
           dr == IF proctored THEN AllowedTimeRead(dm, e) ELSE dm
<1>1. Honest(d) /\ Honest(d0) /\ InLine(d)
  BY MovedKeepsLine DEF Goes, InLine, Honest
<1>2. /\ Goes(d, dm, "timed_out")
      /\ \A f \in Exams \ {e} : FinishedKept(d, dm, f)
      /\ \A f \in Exams : Live(dm, f) = Live(d, f)
      /\ HasAttempt(d, e) /\ InResumeProcess(d.att[e][Latest(d, e)]) =>
           dm.att[e][Latest(d, e)].resumed
      /\ \A f \in Exams \ {e}, j \in Slots : dm.att[f][j] = d.att[f][j]
  BY <1>1, MarkedResumedDoes
<1> HIDE DEF dm
<1>3. Goes(d0, dm, "timed_out") /\ Honest(dm)
  BY <1>1, <1>2, GoesTransitive DEF Goes
<1>4. /\ Goes(dm, dr, "timed_out")
      /\ \A f \in Exams : FinishedKept(dm, dr, f)
      /\ e \in SatOnce => Live(dr, e) = Live(dm, e)
  <2>1. CASE proctored
    BY <1>3, <2>1, AllowedTimeReadDoes
  <2>2. CASE ~ proctored
    BY <1>3, <2>2, GoesSimple DEF FinishedKept
  <2> QED BY <2>1, <2>2
<1>5. ~ proctored => dr = dm
  OBVIOUS
<1>6. d1 = IF ~ MayCreate(d, e) THEN d
           ELSE IF proctored /\ e \in pastDue THEN dm
           ELSE IF proctored /\ outcome = "refused" THEN dr
           ELSE NewAttempt(dr, e, outcome, proctored)
  BY DEF CreateAttempt, dm
<1> HIDE DEF dr
<1>7. Goes(d0, dr, "timed_out") /\ InLine(dr)
  BY <1>1, <1>3, <1>4, GoesTransitive, MovedKeepsLine
<1>8. \A f \in Exams \ {e} : FinishedKept(d0, dm, f) /\ FinishedKept(d0, dr, f)
  BY <1>2, <1>4 DEF FinishedKept
<1>9. CASE ~ Creates(d, e, proctored, outcome)
  <2>1. d1 \in {d, dm, dr} /\ (~ proctored => d1 = d)
    BY <1>6, <1>9 DEF Creates
  <2> QED BY <1>3, <1>7, <1>8, <1>9, <2>1
<1>10. CASE Creates(d, e, proctored, outcome)
  <2> DEFINE s == FreshSlot(dr, e)
  <2>1. d1 = NewAttempt(dr, e, outcome, proctored) /\ MayCreate(d, e)
    BY <1>6, <1>10 DEF Creates
  <2>2. /\ CanHave(e, outcome) /\ outcome \notin NeedsCreditUpdate
    <3>1. outcome \in {"created"} \cup OnboardingErrors
      BY <1>10, ConstantsAssumption DEF Outcomes, Creates
    <3> QED BY <3>1 DEF CanHave, Status, ValidStatus, Completed, OnboardingErrors,
               Incomplete, PreStarted, NeedsCreditUpdate
  <2>3. Unused(dr, e) = Unused(d0, e)
    BY <1>7 DEF Unused, Goes, Moved, MovedAt, RowMove
  <2>4. ASSUME e \in SatOnce, NEW i \in Live(dr, e)
        PROVE  dr.att[e][i].resumed /\ InResumeProcess(d0.att[e][i])
    <3>1. Live(dr, e) = Live(d, e) /\ d = d0 /\ i \in Slots
      BY <1>2, <1>4, <2>4 DEF Live
    <3>2. HasAttempt(d, e)
      BY <2>4, <3>1 DEF HasAttempt
    <3>3. InResumeProcess(d.att[e][Latest(d, e)])
      BY <2>1, <2>4, <3>2 DEF MayCreate, SatOnce
    <3>4. /\ Latest(d, e) \in Live(d, e) /\ Latest(d, e) \in Slots
          /\ i <= Latest(d, e)
      BY <2>4, <3>1, <3>2, LatestIsLive
    <3>5. CASE i = Latest(d, e)
      <4>1. dm.att[e][i].resumed
        BY <1>2, <3>2, <3>3, <3>5
      <4>2. RowMove(e, dm.att[e][i], dr.att[e][i], "timed_out")
        BY <1>4, <3>1 DEF Goes, Moved, MovedAt
      <4> QED BY <2>4, <3>1, <3>3, <3>5, <4>1, <4>2 DEF RowMove, Live
    <3>6. CASE i # Latest(d, e)
      <4>1. i < Latest(d, e)
        BY <3>1, <3>4, <3>6 DEF Slots
      <4>2. d.att[e][i].resumed
        BY <1>1, <2>4, <3>1, <3>4, <4>1 DEF InLine, Superseded
      <4>3. RowMove(e, d.att[e][i], dr.att[e][i], "timed_out")
        BY <1>7, <3>1 DEF Goes, Moved, MovedAt
      <4> QED BY <2>4, <3>1, <4>2, <4>3 DEF RowMove, Live, InResumeProcess
    <3> QED BY <3>5, <3>6
  <2>5. /\ InLine(d1)
        /\ s \in Unused(dr, e) /\ OthersKept(dr, d1, e, s)
        /\ Live(d1, e) = Live(dr, e) \cup {s}
        /\ Latest(d1, e) = s
        /\ d1.att[e][s].status = outcome
        /\ AttemptStage(d1.att[e][s]) =
             IF outcome \in Incomplete THEN "open" ELSE "closed"
    BY <1>7, <2>1, <2>2, <2>3, <2>4, NewAttemptDoes
  <2> HIDE DEF s
  <2>6. \A f \in Exams, j \in Slots : f # e \/ j # s =>
          RowMove(f, d0.att[f][j], d1.att[f][j], "timed_out")
    BY <1>7, <2>5 DEF OthersKept, Goes, Moved, MovedAt
  <2>7. \A f \in Exams \ {e} : FinishedKept(d0, d1, f)
    BY <1>8, <2>5 DEF OthersKept, FinishedKept
  <2>8. e \in SatOnce => /\ Live(d1, e) = Live(d0, e) \cup {s}
                         /\ \A i \in Live(d0, e) : InResumeProcess(d0.att[e][i])
    BY <1>2, <1>4, <2>4, <2>5
  <2>9. Created(d0, d1, e)
    BY <2>2, <2>3, <2>5, <2>6, <2>7, <2>8 DEF Created, MovedAt
  <2>10. ~ proctored => \A f \in Exams \ {e}, j \in Slots :
           d1.att[f][j] = d.att[f][j]
    BY <1>2, <1>5, <2>5 DEF OthersKept
  <2> QED BY <1>10, <2>9, <2>10
<1> QED
  BY <1>9, <1>10

-----------------------------------------------------------------------------
(* The form of a step.                                                     *)

(* What any step that asks for the status `to' may make of row a: slots    *)
(* are not used again, and nothing is verified, rejected or declined unless *)
(* the step asks for it.                                                   *)
RowOnward(a, b, to) ==
  /\ b.row = "unused" => a.row = "unused"
  /\ a.row = "archived" => b.row = "archived"
  /\ b.row = "live" /\ b.status \in {"verified", "rejected", "declined"} =>
       \/ a.row = "live" /\ a.status = b.status
       \/ b.status = to

OnwardAt(d, d1, e, to) ==
  \A j \in Slots : RowOnward(d.att[e][j], d1.att[e][j], to)

(* An attempt is created: all the attempts before it have been resumed.    *)
BegunAt(d, d1, e) ==
  /\ \A i \in Live(d, e) : InResumeProcess(d.att[e][i])
  /\ \E s \in Unused(d, e) : Live(d1, e) = Live(d, e) \cup {s}
  /\ SittingStage(d1, e) \in {"open", "closed"}

(* The attempts are cleared for their onboarding errors, and the exam is   *)
(* declined, which makes another attempt.                                  *)
ReplacedAt(d, d1, e) ==
  /\ HasAttempt(d, e)
  /\ \E s \in Slots : Live(d1, e) = {s}
  /\ SittingStage(d1, e) = "closed"

(* Staff release the current attempt.                                      *)
ReleasedAt(d, d1, e) ==
  /\ Live(d1, e) = Live(d, e)
  /\ SittingStage(d, e) = "interrupted"
  /\ SittingStage(d1, e) = "released"

SatAt(d, d1, e, to) ==
  \/ MovedAt(d, d1, e, to)
  \/ BegunAt(d, d1, e)
  \/ ReplacedAt(d, d1, e)
  \/ ReleasedAt(d, d1, e)

SettledAt(d, d1, e) ==
  Live(d1, e) = Live(d, e) /\ ~ AllVerified(d, e) /\ AllVerified(d1, e) =>
    d1.credit[e] = "satisfied"

(* A handler that names exam e and asks for the status `to' has left d1    *)
(* where it found d.                                                       *)
Handled(d, d1, e, to) ==
  /\ InLine(d1)
  /\ \A f \in Exams : OnwardAt(d, d1, f, to)
  /\ \A f \in SatOnce : SatAt(d, d1, f, to)
  /\ \A f \in Exams \ {e} : FinishedKept(d, d1, f)
  /\ to = "declined" => HasStatus(d1, e, {"declined"}) # {}
  /\ to = "declined" => \A f \in OtherProctored(e) :
       \/ HasStatus(d, f, OnboardingErrors) # {}
       \/ HasAttempt(d1, f) /\ d1.att[f][Latest(d1, f)].status \in Completed
  /\ to = "verified" => \A f \in Exams : SettledAt(d, d1, f)

-----------------------------------------------------------------------------
(* The pieces that handlers are made of.                                   *)

(* Moves are steps onward.                                                 *)
LEMMA MovedIsOnward ==
  ASSUME NEW d, Sound(d), NEW e \in Exams, NEW d1, NEW to, MovedAt(d, d1, e, to)
  PROVE  OnwardAt(d, d1, e, to)
<1>1. ASSUME NEW j \in Slots
      PROVE  RowOnward(d.att[e][j], d1.att[e][j], to)
  <2>1. d.att[e][j].row \in {"unused", "live", "archived"}
    BY DEF Sound, RowSound, Attempt
  <2>2. RowMove(e, d.att[e][j], d1.att[e][j], to)
    BY DEF MovedAt
  <2> QED BY <2>1, <2>2 DEF RowMove, RowOnward, OnRequest
<1> QED
  BY <1>1 DEF OnwardAt

(* So is an attempt that is made to be declined.                           *)
LEMMA AnewIsOnward ==
  ASSUME NEW d, NEW d1, Sound(d1), NEW e \in Exams, AnewAt(d, d1, e)
  PROVE  OnwardAt(d, d1, e, "declined")
<1>1. PICK s \in Unused(d, e) :
        /\ Live(d1, e) = {s}
        /\ d1.att[e][s].status = "declined"
        /\ \A j \in Slots \ {s} :
             /\ d1.att[e][j].row = "unused" => d.att[e][j].row = "unused"
             /\ d.att[e][j].row = "archived" => d1.att[e][j].row = "archived"
  BY DEF AnewAt
<1>2. d.att[e][s].row = "unused" /\ d1.att[e][s].row = "live"
  BY <1>1 DEF Unused, Live
<1>3. \A j \in Slots \ {s} : d1.att[e][j].row # "live"
  BY <1>1 DEF Live
<1>4. ASSUME NEW j \in Slots
      PROVE  RowOnward(d.att[e][j], d1.att[e][j], "declined")
  <2>1. CASE j = s
    BY <1>1, <1>2, <2>1 DEF RowOnward
  <2>2. CASE j # s
    BY <1>1, <1>3, <2>2 DEF RowOnward
  <2> QED BY <2>1, <2>2
<1> QED
  BY <1>4 DEF OnwardAt

(* Steps onward add up, and asking for nothing is within asking.           *)
LEMMA OnwardTransitive ==
  ASSUME NEW d, NEW d1, NEW d2, NEW e, NEW to, NEW to1 \in {to, "timed_out"},
         OnwardAt(d, d1, e, to1), OnwardAt(d1, d2, e, to)
  PROVE  OnwardAt(d, d2, e, to)
<1>1. ASSUME NEW j \in Slots
      PROVE  RowOnward(d.att[e][j], d2.att[e][j], to)
  <2>1. /\ RowOnward(d.att[e][j], d1.att[e][j], to1)
        /\ RowOnward(d1.att[e][j], d2.att[e][j], to)
    BY DEF OnwardAt
  <2>2. d2.att[e][j].row = "live" => d1.att[e][j].row # "archived"
    BY <2>1 DEF RowOnward
  <2> QED BY <2>1, <2>2 DEF RowOnward
<1> QED
  BY <1>1 DEF OnwardAt

(* An attempt that moves does not get from exam to exam: what is live was. *)
LEMMA MovedLive ==
  ASSUME NEW d, Sound(d), NEW d1, NEW e \in Exams, NEW to, MovedAt(d, d1, e, to)
  PROVE  /\ Live(d1, e) \subseteq Live(d, e)
         /\ Unused(d1, e) = Unused(d, e)
<1>1. \A j \in Slots : d.att[e][j].row \in {"unused", "live", "archived"}
  BY DEF Sound, RowSound, Attempt
<1>2. \A j \in Slots : RowMove(e, d.att[e][j], d1.att[e][j], to)
  BY DEF MovedAt
<1>3. Live(d1, e) \subseteq Live(d, e)
  BY <1>1, <1>2 DEF RowMove, Live
<1>4. Unused(d1, e) = Unused(d, e)
  BY <1>1, <1>2 DEF RowMove, Unused
<1> QED
  BY <1>3, <1>4

(* The stage of a sitting is that of its only attempt.                     *)
LEMMA StageOfOnly ==
  ASSUME NEW d, NEW e \in Exams, NEW s, Live(d, e) = {s}
  PROVE  Latest(d, e) = s /\ SittingStage(d, e) = AttemptStage(d.att[e][s])
<1>1. HasAttempt(d, e)
  BY DEF HasAttempt
<1>2. Latest(d, e) = s
  BY <1>1, LatestIsLive
<1> QED
  BY <1>1, <1>2 DEF SittingStage

(* Attempts are made where there was none, or where they have been cleared *)
(* by the read before.                                                     *)
LEMMA AnewIsSat ==
  ASSUME NEW d, Sound(d), NEW d1, NEW d2, NEW e \in Exams, NEW to,
         MovedAt(d, d1, e, to), AnewAt(d1, d2, e), NEW to2
  PROVE  SatAt(d, d2, e, to2)
<1>1. PICK s \in Unused(d1, e) :
        Live(d2, e) = {s} /\ AttemptStage(d2.att[e][s]) = "closed"
  BY DEF AnewAt
<1>2. SittingStage(d2, e) = "closed"
  BY <1>1, StageOfOnly
<1>3. s \in Unused(d, e) /\ s \in Slots
  BY MovedLive DEF Unused
<1>4. CASE HasAttempt(d, e)
  BY <1>1, <1>2, <1>3, <1>4 DEF ReplacedAt, SatAt
<1>5. CASE ~ HasAttempt(d, e)
  <2>1. Live(d, e) = {}
    BY <1>5 DEF HasAttempt
  <2>2. BegunAt(d, d2, e)
    BY <1>1, <1>2, <1>3, <2>1 DEF BegunAt
  <2> QED BY <2>2 DEF SatAt
<1> QED
  BY <1>4, <1>5

(* A handler that moves attempts on and asks for nothing that it does not  *)
(* give: reads, removals, statuses other than verified and declined.       *)
LEMMA GoesHandled ==
  ASSUME NEW d, InLine(d), NEW e \in Exams, NEW to, to \notin {"declined", "verified"},
         NEW d1, Goes(d, d1, to),
         \A f \in Exams \ {e} : FinishedKept(d, d1, f)
  PROVE  Handled(d, d1, e, to)
<1>1. InLine(d1) /\ Sound(d)
  BY MovedKeepsLine DEF InLine
<1>2. \A f \in Exams : MovedAt(d, d1, f, to)
  BY DEF Goes, Moved
<1>3. \A f \in Exams : OnwardAt(d, d1, f, to)
  BY <1>1, <1>2, MovedIsOnward
<1> QED
  BY <1>1, <1>2, <1>3 DEF Handled, SatAt, SatOnce

(* The update that a review makes saves the status and clears: nothing     *)
(* ends or declines the attempt on the way.                                *)
LEMMA VerdictUpdate ==
  ASSUME NEW d, InLine(d), NEW e \in Exams, NEW i \in Live(d, e),
         NEW to \in {"verified", "rejected", "second_review_required", "error"},
         NEW stamped \in BOOLEAN, ~ stamped, NEW instantly \in BOOLEAN,
         NEW d1, d1 = SaveStatus(d, e, i, to, stamped, instantly),
         NEW d3, d3 = Update(d, e, i, to, instantly)
  PROVE  /\ Goes(d, d1, to) /\ OthersKept(d, d1, e, i)
         /\ d1.att[e][i] = Saved(d.att[e][i], to, stamped, instantly)
         /\ d1.att[e][i].status = to
         /\ \A f \in Exams : Live(d1, f) = Live(d, f)
         /\ CanUpdateCreditGradesAndEmail(d1, e, to) /\ to \in NeedsCreditUpdate
              => d1.credit[e] = CreditFor(to)
         /\ d3 = ClearOnboardingErrors(d1, e, to)
         /\ d3.credit = d1.credit
         /\ \A f \in Exams, j \in Slots :
              \/ d3.att[f][j] = d1.att[f][j]
              \/ /\ d3.att[f][j] = Archived
                 /\ j \in HasStatus(d1, f, OnboardingErrors)
<1> DEFINE from == d.att[e][i].status
           new  == EffectiveStatus(from, to, AllowTimedOut)
<1>1. Honest(d) /\ Sound(d) /\ i \in Slots
  BY DEF InLine, Honest, Live
<1>2. CanHave(e, to) /\ to \in Completed /\ to \notin Incomplete
  BY DEF CanHave, Status, ValidStatus, Completed, Incomplete, PreStarted, InProgress
<1>3. new = to /\ IsLegal(from, new)
  BY <1>2, EndingIsLegal DEF EffectiveStatus, IsReattempting, PreStarted
<1>4. d3 = ClearOnboardingErrors(Read(d1, e, i), e, to)
  <2>1. stamped = FALSE
    BY Zenon
  <2>2. d3 = ClearOnboardingErrors(
               Read(SaveStatus(d, e, i, to, FALSE, instantly), e, i), e, to)
    BY <1>3 DEF Update, CascadableFailure
  <2> QED BY <2>1, <2>2, Zenon
<1>5. /\ Goes(d, d1, to) /\ OthersKept(d, d1, e, i)
      /\ d1.att[e][i] = Saved(d.att[e][i], to, stamped, instantly)
      /\ d1.att[e][i].status = to
      /\ \A f \in Exams : Live(d1, f) = Live(d, f)
      /\ CanUpdateCreditGradesAndEmail(d1, e, to) /\ to \in NeedsCreditUpdate
           => d1.credit[e] = CreditFor(to)
  BY <1>1, <1>2, <1>3, SaveStatusDoes, SaveStatusHonest
<1>6. Read(d1, e, i) = d1
  <2>1. ~ Overdue(d1.att[e][i])
    BY <1>2, <1>5 DEF Overdue
  <2> QED BY <2>1 DEF Read
<1>7. d3 = ClearOnboardingErrors(d1, e, to)
  BY <1>4, <1>6
<1>8. /\ \A f \in Exams, j \in Slots :
           \/ d3.att[f][j] = d1.att[f][j]
           \/ /\ d3.att[f][j] = Archived
              /\ j \in HasStatus(d1, f, OnboardingErrors)
      /\ d3.credit = d1.credit
  BY <1>5, <1>7, ClearDoes DEF Goes
<1> QED
  BY <1>5, <1>7, <1>8

(* So it changes no other row, unless that is cleared away.                *)
LEMMA VerdictUpdateAlone ==
  ASSUME NEW d, InLine(d), NEW e \in Exams, NEW i \in Live(d, e),
         NEW to \in {"verified", "rejected", "second_review_required", "error"},
         NEW instantly \in BOOLEAN,
         NEW d3, d3 = Update(d, e, i, to, instantly)
  PROVE  \A f \in Exams, j \in Slots : f # e \/ j # i =>
           d3.att[f][j] = d.att[f][j] \/ d3.att[f][j] = Archived
<1>1. ASSUME NEW s \in BOOLEAN, ~ s,
             NEW d1, d1 = SaveStatus(d, e, i, to, s, instantly)
      PROVE  \A f \in Exams, j \in Slots : f # e \/ j # i =>
               d3.att[f][j] = d.att[f][j] \/ d3.att[f][j] = Archived
  <2>1. /\ OthersKept(d, d1, e, i)
        /\ \A f \in Exams, j \in Slots :
             d3.att[f][j] = d1.att[f][j] \/ d3.att[f][j] = Archived
    BY <1>1, VerdictUpdate
  <2> QED BY <2>1 DEF OthersKept
<1> QED
  BY <1>1, Zenon

(* An update to verified gives the credit once every attempt is verified.  *)
LEMMA VerifiedUpdateSettles ==
  ASSUME NEW d, InLine(d), NEW e \in Exams, NEW i \in Live(d, e),
         NEW instantly \in BOOLEAN,
         NEW d3, d3 = Update(d, e, i, "verified", instantly)
  PROVE  \A f \in Exams : SettledAt(d, d3, f)
<1> SUFFICES ASSUME NEW s \in BOOLEAN, ~ s,
                    NEW d1, d1 = SaveStatus(d, e, i, "verified", s, instantly)
             PROVE  \A f \in Exams : SettledAt(d, d3, f)
  BY Zenon
<1>1. /\ OthersKept(d, d1, e, i)
      /\ \A f \in Exams : Live(d1, f) = Live(d, f)
      /\ CanUpdateCreditGradesAndEmail(d1, e, "verified") =>
           d1.credit[e] = CreditFor("verified")
      /\ \A f \in Exams, j \in Slots :
           d3.att[f][j] = d1.att[f][j] \/ d3.att[f][j] = Archived
      /\ d3.credit = d1.credit
  BY VerdictUpdate DEF NeedsCreditUpdate
<1>2. ASSUME NEW f \in Exams, Live(d3, f) = Live(d, f), ~ AllVerified(d, f),
             AllVerified(d3, f)
      PROVE  d3.credit[f] = "satisfied"
  <2>1. Archived.row # "live"
    BY DEF Archived, NoRow
  <2>2. \A j \in Live(d, f) : d1.att[f][j] = d3.att[f][j]
    BY <1>1, <1>2, <2>1 DEF Live
  <2>3. \A j \in Live(d, f) : d1.att[f][j].status = "verified"
    BY <1>2, <2>2 DEF AllVerified, HasStatus
  <2>4. HasAttempt(d, f)
    BY <1>2 DEF AllVerified, HasAttempt
  <2>5. f = e
    <3>1. ASSUME f # e
          PROVE  FALSE
      <4>1. \A j \in Slots : d1.att[f][j] = d.att[f][j]
        BY <1>1, <3>1 DEF OthersKept
      <4>2. \A j \in Live(d, f) : d.att[f][j].status = "verified"
        BY <2>3, <4>1 DEF Live
      <4> QED BY <1>2, <2>4, <4>2 DEF AllVerified, HasStatus
    <3> QED BY <3>1
  <2>6. Live(d1, e) = HasStatus(d1, e, {"verified"})
    BY <1>1, <2>3, <2>5 DEF HasStatus
  <2>7. CanUpdateCreditGradesAndEmail(d1, e, "verified")
    BY <2>6 DEF CanUpdateCreditGradesAndEmail
  <2>8. CreditFor("verified") = "satisfied"
    BY SatisfiedByVerified DEF NeedsCreditUpdate
  <2> QED BY <1>1, <2>5, <2>7, <2>8
<1> QED
  BY <1>2 DEF SettledAt

(* An update, after reads that may have ended attempts, is handled.        *)
LEMMA UpdateHandled ==
  ASSUME NEW d, InLine(d), NEW e \in Exams, NEW d1, Goes(d, d1, "timed_out"),
         \A f \in Exams \ {e} : FinishedKept(d, d1, f),
         \A f \in Exams : \A j \in Slots : f # e =>
           \/ d1.att[f][j] = d.att[f][j]
           \/ d1.att[f][j] = Archived /\ j \in HasStatus(d, f, OnboardingErrors),
         NEW i \in Live(d1, e), NEW to, CanHave(e, to),
         to = "declined" => RoomToDecline(d1, e), NEW instantly \in BOOLEAN,
         NEW d2, d2 = Update(d1, e, i, to, instantly)
  PROVE  Handled(d, d2, e, to)
<1>1. InLine(d1) /\ Sound(d) /\ Sound(d1) /\ Honest(d)
  BY MovedKeepsLine DEF InLine, Honest
<1>2. Updated(d1, d2, e, i, to)
  BY <1>1, UpdateDoes
<1>3. InLine(d2) /\ Sound(d2)
  BY <1>2 DEF Updated, InLine
<1>4. \A f \in Exams : MovedAt(d, d1, f, "timed_out") /\ MovedAt(d, d1, f, to)
  BY <1>1, GoesSimple DEF Goes, Moved
<1>5. \A f \in Exams :
        \/ MovedAt(d1, d2, f, to)
        \/ to = "declined" /\ AnewAt(d1, d2, f)
  BY <1>2 DEF Updated
<1>6. ASSUME NEW f \in Exams
      PROVE  OnwardAt(d, d2, f, to)
  <2>1. OnwardAt(d, d1, f, "timed_out")
    BY <1>1, <1>4, MovedIsOnward
  <2>2. OnwardAt(d1, d2, f, to)
    <3>1. CASE MovedAt(d1, d2, f, to)
      BY <1>1, <3>1, MovedIsOnward
    <3>2. CASE to = "declined" /\ AnewAt(d1, d2, f)
      BY <1>3, <3>2, AnewIsOnward
    <3> QED BY <1>5, <3>1, <3>2
  <2> QED BY <2>1, <2>2, OnwardTransitive
<1>7. ASSUME NEW f \in SatOnce
      PROVE  SatAt(d, d2, f, to)
  <2>1. f \in Exams
    BY DEF SatOnce
  <2>2. CASE MovedAt(d1, d2, f, to)
    <3>1. MovedAt(d, d2, f, to)
      BY <1>1, <1>3, <1>4, <2>1, <2>2, MovedAtTransitive
    <3> QED BY <3>1 DEF SatAt
  <2>3. CASE AnewAt(d1, d2, f)
    BY <1>1, <1>4, <2>1, <2>3, AnewIsSat
  <2> QED BY <1>5, <2>1, <2>2, <2>3
<1>8. ASSUME NEW f \in Exams \ {e}
      PROVE  FinishedKept(d, d2, f)
  <2>1. FinishedKept(d1, d2, f)
    BY <1>2 DEF Updated
  <2> QED BY <2>1 DEF FinishedKept
<1>9. ASSUME to = "declined"
      PROVE  /\ HasStatus(d2, e, {"declined"}) # {}
             /\ \A f \in OtherProctored(e) :
                  \/ HasStatus(d, f, OnboardingErrors) # {}
                  \/ /\ HasAttempt(d2, f)
                     /\ d2.att[f][Latest(d2, f)].status \in Completed
  <2>1. \A f \in OtherProctored(e) :
          HasStatus(d1, f, OnboardingErrors) \subseteq
            HasStatus(d, f, OnboardingErrors)
    <3>1. OtherProctored(e) \subseteq Exams \ {e}
      BY DEF OtherProctored
    <3>2. Archived.row # "live"
      BY DEF Archived, NoRow
    <3> QED BY <3>1, <3>2 DEF HasStatus, Live
  <2> QED BY <1>2, <1>9, <2>1 DEF Updated
<1>10. ASSUME to = "verified", NEW f \in Exams
       PROVE  SettledAt(d, d2, f)
  <2>1. SettledAt(d1, d2, f)
    BY <1>1, <1>10, VerifiedUpdateSettles
  <2>2. Live(d1, f) \subseteq Live(d, f)
    BY <1>1, <1>4, MovedLive
  <2>3. Live(d2, f) \subseteq Live(d1, f)
    BY <1>1, <1>5, <1>10, MovedLive
  <2>4. ASSUME Live(d1, f) = Live(d, f), AllVerified(d1, f)
        PROVE  AllVerified(d, f)
    <3>1. \A j \in Live(d, f) : d.att[f][j].status = "verified"
      BY <1>4, <2>4 DEF AllVerified, HasStatus, MovedAt, RowMove, OnRequest, Live
    <3> QED BY <2>4, <3>1 DEF AllVerified, HasAttempt, HasStatus
  <2> QED BY <2>1, <2>2, <2>3, <2>4 DEF SettledAt
<1> QED
  BY <1>3, <1>6, <1>7, <1>8, <1>9, <1>10 DEF Handled

(* A handler that reads the attempt it names and then updates one.         *)
LEMMA ReadUpdateHandled ==
  ASSUME NEW d, InLine(d), NEW e \in Exams, NEW i \in Live(d, e),
         NEW d1, d1 = Read(d, e, i), NEW k \in Live(d1, e),
         NEW to, CanHave(e, to),
         to = "declined" => RoomToDecline(d1, e), NEW instantly \in BOOLEAN,
         NEW d2, d2 = Update(d1, e, k, to, instantly)
  PROVE  Handled(d, d2, e, to)
<1>1. Honest(d) /\ i \in Slots
  BY DEF InLine, Honest, Live
<1>2. /\ Goes(d, d1, "timed_out")
      /\ \A f \in Exams : FinishedKept(d, d1, f)
      /\ \A f \in Exams : \A j \in Slots : f # e =>
           \/ d1.att[f][j] = d.att[f][j]
           \/ d1.att[f][j] = Archived /\ j \in HasStatus(d, f, OnboardingErrors)
  BY <1>1, ReadDoes
<1> QED
  BY <1>2, UpdateHandled

(* Removing an attempt.                                                    *)
LEMMA RemovedDoes ==
  ASSUME NEW d, Honest(d), NEW e \in Exams, NEW i \in Live(d, e),
         NEW d1, d1 = Removed(d, e, i)
  PROVE  /\ \A to : Goes(d, d1, to)
         /\ \A f \in Exams \ {e} : FinishedKept(d, d1, f)
<1> DEFINE dw       == WithRow(d, e, i, Archived)
           override == [dw.override EXCEPT ![e] = FALSE]
           credit   == [dw.credit EXCEPT ![e] =
                          IF d.att[e][i].status \in NeedsCreditUpdate
                          THEN "none" ELSE @]
<1>1. Sound(d) /\ i \in Slots
  BY DEF Honest, Live
<1>2. Sound(d1)
  BY <1>1, RemovedSound
<1>3. d1 = [dw EXCEPT !.override = override, !.credit = credit]
  BY DEF Removed, WithRow
<1>4. dw.att = d1.att /\ d1.credit = credit /\ dw.credit = d.credit
  <2>1. d \in Database
    BY <1>1 DEF Sound
  <2>2. dw.credit = d.credit
    BY <2>1 DEF WithRow, Database
  <2>3. dw \in Database
    BY <1>1, UnusedRowsSound, WriteRowSound DEF Sound
  <2> HIDE DEF override, credit, dw
  <2> QED BY <1>3, <2>2, <2>3 DEF Database
<1>5. \A f \in Exams, j \in Slots :
        dw.att[f][j] = IF f = e /\ j = i THEN Archived ELSE d.att[f][j]
  BY <1>1, UnusedRowsSound, WriteRowSound
<1>6. d.credit \in [Exams -> CreditStatus \cup {"none"}]
  BY <1>1 DEF Sound, Database
<1>7. \A f \in Exams : d1.credit[f] \in {d.credit[f], "none"}
  BY <1>4, <1>6
<1> HIDE DEF dw, override, credit
<1>8. \A f \in Exams, j \in Slots :
        d1.att[f][j] = IF f = e /\ j = i THEN Archived ELSE d.att[f][j]
  BY <1>4, <1>5
<1>9. d.att[e][i].row # "unused" /\ Archived.row # "live"
  BY DEF Live, Archived, NoRow
<1>10. ASSUME NEW to
       PROVE  Moved(d, d1, to)
  BY <1>8, <1>9, RowMoveSimple DEF Moved, MovedAt
<1>11. \A f \in Exams \ {e} : FinishedKept(d, d1, f)
  BY <1>8 DEF FinishedKept
<1>12. CreditHonest(d1)
  <2>1. ASSUME NEW f \in SatOnce, d1.credit[f] = "satisfied"
        PROVE  HasStatus(d1, f, NeedsCreditUpdate \ {"verified"}) = {}
    <3>1. f \in Exams
      BY DEF SatOnce
    <3>2. HasStatus(d, f, NeedsCreditUpdate \ {"verified"}) = {}
      BY <1>7, <2>1, <3>1 DEF Honest, CreditHonest
    <3> HIDE DEF NeedsCreditUpdate
    <3> QED BY <1>8, <1>9, <3>1, <3>2 DEF HasStatus, Live
  <2> QED BY <2>1 DEF CreditHonest
<1> QED
  BY <1>2, <1>10, <1>11, <1>12 DEF Goes, Honest

(* Archiving a row, or writing one of a practice exam.                     *)
LEMMA ArchiveDoes ==
  ASSUME NEW d, Honest(d), NEW e \in Exams, NEW i \in Slots, NEW row,
         RowSound(e, row), row = Archived \/ e \notin SatOnce, NEW to,
         RowMove(e, d.att[e][i], row, to),
         NEW d1, d1 = WithRow(d, e, i, row)
  PROVE  /\ Goes(d, d1, to)
         /\ \A f \in Exams \ {e} : FinishedKept(d, d1, f)
<1>1. /\ Sound(d1)
      /\ \A f \in Exams, j \in Slots :
           d1.att[f][j] = IF f = e /\ j = i THEN row ELSE d.att[f][j]
  BY WriteRowSound DEF Honest
<1>2. d1.credit = d.credit
  BY DEF WithRow, Honest, Sound, Database
<1>3. Moved(d, d1, to)
  BY <1>1, RowMoveSimple DEF Moved, MovedAt
<1>4. Archived.row # "live"
  BY DEF Archived, NoRow
<1>5. CreditHonest(d1)
  <2>1. ASSUME NEW f \in SatOnce, d1.credit[f] = "satisfied"
        PROVE  HasStatus(d1, f, NeedsCreditUpdate \ {"verified"}) = {}
    <3>1. HasStatus(d, f, NeedsCreditUpdate \ {"verified"}) = {}
      BY <1>2, <2>1 DEF Honest, CreditHonest
    <3>2. f \in Exams
      BY DEF SatOnce
    <3> HIDE DEF NeedsCreditUpdate
    <3> QED BY <1>1, <1>4, <2>1, <3>1, <3>2 DEF HasStatus, Live
  <2> QED BY <2>1 DEF CreditHonest
<1>6. \A f \in Exams \ {e} : FinishedKept(d, d1, f)
  BY <1>1 DEF FinishedKept
<1> QED
  BY <1>1, <1>3, <1>5, <1>6 DEF Goes, Honest

(* A request that has created an attempt is handled.                       *)
LEMMA CreatedIsOnward ==
  ASSUME NEW d, InLine(d), NEW e \in Exams, NEW d1, Created(d, d1, e)
  PROVE  \A f \in Exams : OnwardAt(d, d1, f, "timed_out")
<1> DEFINE s == Latest(d1, e)
<1>1. Sound(d)
  BY DEF InLine
<1>2. ASSUME NEW j \in Slots
      PROVE  RowOnward(d.att[e][j], d1.att[e][j], "timed_out")
  <2>1. CASE j = s
    <3>1. d.att[e][j].row = "unused" /\ d1.att[e][j].row = "live"
      BY <2>1 DEF Created, Unused, Live
    <3>2. d1.att[e][j].status \notin NeedsCreditUpdate
      BY <2>1 DEF Created
    <3> QED BY <3>1, <3>2 DEF RowOnward, NeedsCreditUpdate
  <2>2. CASE j # s
    <3>1. RowMove(e, d.att[e][j], d1.att[e][j], "timed_out")
      BY <2>2 DEF Created
    <3>2. d.att[e][j].row \in {"unused", "live", "archived"}
      BY <1>1 DEF Sound, RowSound, Attempt
    <3> QED BY <3>1, <3>2 DEF RowMove, RowOnward, OnRequest
  <2> QED BY <2>1, <2>2
<1>3. ASSUME NEW f \in Exams \ {e}
      PROVE  OnwardAt(d, d1, f, "timed_out")
  BY <1>1, MovedIsOnward DEF Created
<1> QED
  BY <1>2, <1>3 DEF OnwardAt

(* The new attempt begins the sitting, or continues it.                    *)
LEMMA CreatedHandled ==
  ASSUME NEW d, InLine(d), NEW e \in Exams, NEW d1, Created(d, d1, e)
  PROVE  Handled(d, d1, e, "timed_out")
<1>1. \A f \in Exams : OnwardAt(d, d1, f, "timed_out")
  BY CreatedIsOnward
<1>2. ASSUME NEW f \in SatOnce
      PROVE  SatAt(d, d1, f, "timed_out")
  <2>1. CASE f = e
    <3>1. HasAttempt(d1, e)
      BY DEF Created, HasAttempt
    <3>2. SittingStage(d1, e) \in {"open", "closed"}
      BY <3>1 DEF SittingStage, Created
    <3>3. BegunAt(d, d1, e)
      BY <2>1, <3>2 DEF BegunAt, Created
    <3> QED BY <2>1, <3>3 DEF SatAt
  <2>2. CASE f # e
    BY <2>2 DEF Created, SatAt, SatOnce
  <2> QED BY <2>1, <2>2
<1> QED
  BY <1>1, <1>2 DEF Handled, Created

(* So it does when the exam is started, or declined, at once.              *)
LEMMA CreatedUpdateHandled ==
  ASSUME NEW d, InLine(d), NEW e \in Exams, NEW d1, Created(d, d1, e),
         NEW to \in {"declined", "started"}, NEW instantly \in BOOLEAN,
         to = "declined" => RoomToDecline(d1, e),
         NEW d2, d2 = Update(d1, e, Latest(d1, e), to, instantly)
  PROVE  Handled(d, d2, e, to)
<1> DEFINE s == Latest(d1, e)
<1>1. /\ InLine(d1) /\ s \in Live(d1, e) /\ s \in Unused(d, e) /\ s \in Slots
      /\ Sound(d) /\ Sound(d1)
  BY DEF Created, InLine, Live
<1>2. CanHave(e, to)
  BY DEF CanHave, Status, ValidStatus, Completed, Incomplete, InProgress
<1>3. Updated(d1, d2, e, s, to)
  BY <1>1, <1>2, UpdateDoes
<1> HIDE DEF s
<1>4. InLine(d2) /\ Sound(d2)
  BY <1>3 DEF Updated, InLine
<1>5. \A f \in Exams :
        \/ MovedAt(d1, d2, f, to)
        \/ to = "declined" /\ f # e /\ AnewAt(d1, d2, f)
  BY <1>3 DEF Updated, OtherProctored
<1>6. ASSUME NEW f \in Exams
      PROVE  OnwardAt(d, d2, f, to)
  <2>1. OnwardAt(d, d1, f, "timed_out")
    BY CreatedIsOnward
  <2>2. OnwardAt(d1, d2, f, to)
    <3>1. CASE MovedAt(d1, d2, f, to)
      BY <1>1, <3>1, MovedIsOnward
    <3>2. CASE to = "declined" /\ AnewAt(d1, d2, f)
      BY <1>4, <3>2, AnewIsOnward
    <3> QED BY <1>5, <3>1, <3>2
  <2> QED BY <2>1, <2>2, OnwardTransitive
<1>7. ASSUME NEW f \in Exams \ {e}
      PROVE  /\ MovedAt(d, d1, f, "timed_out") /\ MovedAt(d, d1, f, to)
             /\ HasStatus(d1, f, OnboardingErrors) \subseteq
                  HasStatus(d, f, OnboardingErrors)
  <2>1. MovedAt(d, d1, f, "timed_out")
    BY DEF Created
  <2>2. MovedAt(d, d1, f, to)
    BY <2>1, RowMoveSimple DEF MovedAt
  <2>3. ASSUME NEW j \in HasStatus(d1, f, OnboardingErrors)
        PROVE  j \in HasStatus(d, f, OnboardingErrors)
    <3>1. /\ j \in Slots /\ d1.att[f][j].row = "live"
          /\ d1.att[f][j].status \in OnboardingErrors
      BY DEF HasStatus, Live
    <3>2. RowMove(f, d.att[f][j], d1.att[f][j], "timed_out")
      BY <2>1, <3>1 DEF MovedAt
    <3>3. d.att[f][j].row \in {"unused", "live", "archived"}
      BY <1>1, <3>1 DEF Sound, RowSound, Attempt
    <3>4. d.att[f][j].row = "live" /\ d.att[f][j].status = d1.att[f][j].status
      BY <3>1, <3>2, <3>3 DEF RowMove, OnRequest, OnboardingErrors
    <3> QED BY <3>1, <3>4 DEF HasStatus, Live
  <2> QED BY <2>1, <2>2, <2>3
<1>8. ASSUME NEW f \in SatOnce
      PROVE  SatAt(d, d2, f, to)
  <2>1. f \in Exams
    BY DEF SatOnce
  <2>2. CASE f = e
    <3>1. Live(d2, e) = Live(d1, e)
      BY <1>3, <2>2 DEF Updated
    <3>2. HasAttempt(d2, e) /\ Latest(d2, e) = s
      BY <1>1, <3>1 DEF HasAttempt, Latest, s
    <3>3. RowMove(e, d1.att[e][s], d2.att[e][s], to)
      BY <1>1, <1>3 DEF Updated, MovedAt
    <3>4. d2.att[e][s].row = "live"
      BY <1>1, <3>1 DEF Live
    <3>5. AttemptStage(d1.att[e][s]) \in {"open", "closed"}
      BY DEF Created, s
    <3>6. AttemptStage(d2.att[e][s]) \in {"open", "closed"}
      BY <2>2, <3>3, <3>4, <3>5 DEF RowMove, Moves, Ending
    <3>7. SittingStage(d2, e) \in {"open", "closed"}
      BY <3>2, <3>6 DEF SittingStage
    <3>8. BegunAt(d, d2, e)
      BY <1>1, <2>2, <3>1, <3>7 DEF BegunAt, Created, s
    <3> QED BY <2>2, <3>8 DEF SatAt
  <2>3. CASE f # e /\ MovedAt(d1, d2, f, to)
    <3>1. MovedAt(d, d2, f, to)
      BY <1>1, <1>4, <1>7, <2>1, <2>3, MovedAtTransitive
    <3> QED BY <3>1 DEF SatAt
  <2>4. CASE f # e /\ AnewAt(d1, d2, f)
    BY <1>1, <1>7, <2>1, <2>4, AnewIsSat
  <2> QED BY <1>5, <2>1, <2>2, <2>3, <2>4
<1>9. ASSUME NEW f \in Exams \ {e}
      PROVE  FinishedKept(d, d2, f)
  <2>1. FinishedKept(d, d1, f) /\ FinishedKept(d1, d2, f)
    BY <1>3 DEF Updated, Created
  <2> QED BY <2>1 DEF FinishedKept
<1>10. ASSUME to = "declined"
       PROVE  /\ HasStatus(d2, e, {"declined"}) # {}
              /\ \A f \in OtherProctored(e) :
                   \/ HasStatus(d, f, OnboardingErrors) # {}
                   \/ /\ HasAttempt(d2, f)
                      /\ d2.att[f][Latest(d2, f)].status \in Completed
  <2>1. OtherProctored(e) \subseteq Exams \ {e}
    BY DEF OtherProctored
  <2> QED BY <1>3, <1>7, <1>10, <2>1 DEF Updated
<1> QED
  BY <1>4, <1>6, <1>8, <1>9, <1>10 DEF Handled

-----------------------------------------------------------------------------
(* The handlers.                                                           *)

(* What requests, callbacks, the clock and staff who name no status ask    *)
(* for; a handler that only reads or removes asks for a time-out at most.  *)
StatusesAsked ==
  {"timed_out", "started", "declined", "ready_to_submit", "submitted",
   "download_software_clicked", "error", "ready_to_start"}

(* What a handler that names attempt i leaves when it has only read it.    *)
LEMMA ReadHandled ==
  ASSUME NEW d, InLine(d), NEW e \in Exams, NEW i \in Live(d, e),
         NEW d1, d1 = Read(d, e, i)
  PROVE  Handled(d, d1, e, "timed_out")
<1>1. Honest(d) /\ i \in Slots
  BY DEF InLine, Honest, Live
<1>2. /\ Goes(d, d1, "timed_out")
      /\ \A f \in Exams : FinishedKept(d, d1, f)
  BY <1>1, ReadDoes
<1> QED
  BY <1>2, GoesHandled

(* Entering an exam.                                                       *)
LEMMA PostHandled ==
  ASSUME InLine(db), NEW e \in Exams, NEW proctored \in BOOLEAN,
         NEW startClock \in BOOLEAN, NEW outcome \in Outcomes(e, proctored),
         NEW instantly \in BOOLEAN,
         Post(e, proctored, startClock, outcome, instantly)
  PROVE  \E to \in StatusesAsked : Handled(db, db', e, to)
<1> DEFINE d1 == CreateAttempt(db, e, proctored, outcome)
<1>1. Unused(db, e) # {} /\ RoomToDecline(db, e)
  BY DEF Post, RoomToCreate
<1>2. Goes(db, db, "timed_out") /\ \A f \in Exams \ {e} : FinishedKept(db, db, f)
  BY GoesSimple DEF InLine, Honest, FinishedKept
<1>3. /\ Creates(db, e, proctored, outcome) => Created(db, d1, e)
      /\ ~ Creates(db, e, proctored, outcome) => Goes(db, d1, "timed_out")
      /\ ~ Creates(db, e, proctored, outcome) =>
           \A f \in Exams \ {e} : FinishedKept(db, d1, f)
      /\ ~ proctored => \A f \in Exams \ {e}, j \in Slots :
           d1.att[f][j] = db.att[f][j]
  BY <1>1, <1>2, CreateAttemptDoes
<1>4. db' = IF ~ Creates(db, e, proctored, outcome) THEN d1
            ELSE IF Kind[e] # "timed" /\ ~ proctored
            THEN Update(d1, e, Latest(d1, e), "declined", FALSE)
            ELSE IF startClock THEN StartLatest(d1, e, instantly)
            ELSE d1
  BY DEF Post
<1> HIDE DEF d1
<1> USE DEF StatusesAsked
<1>5. CASE ~ Creates(db, e, proctored, outcome)
  <2>1. Handled(db, d1, e, "timed_out")
    BY <1>3, <1>5, GoesHandled
  <2> QED BY <1>4, <1>5, <2>1
<1>6. CASE Creates(db, e, proctored, outcome)
  <2>1. Created(db, d1, e)
    BY <1>3, <1>6
  <2>2. CASE db' = d1
    <3>1. Handled(db, d1, e, "timed_out")
      BY <2>1, CreatedHandled
    <3> QED BY <2>2, <3>1
  <2>3. CASE ~ proctored /\ db' = Update(d1, e, Latest(d1, e), "declined", FALSE)
    <3>1. OtherProctored(e) \subseteq Exams \ {e}
      BY DEF OtherProctored
    <3>2. RoomToDecline(d1, e)
      BY <1>1, <1>3, <2>3, <3>1 DEF RoomToDecline, HasAttempt, Live, Unused
    <3>3. ASSUME NEW n \in BOOLEAN, NEW x,
                 x = Update(d1, e, Latest(d1, e), "declined", n)
          PROVE  Handled(db, x, e, "declined")
      BY <2>1, <3>2, <3>3, CreatedUpdateHandled
    <3>4. Handled(db, db', e, "declined")
      BY <2>3, <3>3, Zenon
    <3> QED BY <3>4
  <2>4. CASE db' = Update(d1, e, Latest(d1, e), "started", instantly)
    <3>1. Handled(db, db', e, "started")
      BY <2>1, <2>4, CreatedUpdateHandled
    <3> QED BY <3>1
  <2> QED BY <1>4, <1>6, <2>2, <2>3, <2>4 DEF StartLatest
<1> QED
  BY <1>5, <1>6

(* Opening an exam whose prerequisite was declined.                        *)
LEMMA DeclineForPrerequisiteHandled ==
  ASSUME InLine(db), NEW e \in Exams, DeclineForPrerequisite(e)
  PROVE  Handled(db, db', e, "declined")
<1> DEFINE d1 == CreateAttempt(db, e, FALSE, "created")
<1>1. Unused(db, e) # {} /\ RoomToDecline(db, e) /\ ~ HasAttempt(db, e)
  BY DEF DeclineForPrerequisite, RoomToCreate
<1>2. Goes(db, db, "timed_out") /\ \A f \in Exams \ {e} : FinishedKept(db, db, f)
  BY GoesSimple DEF InLine, Honest, FinishedKept
<1>3. ASSUME NEW p \in BOOLEAN, ~ p, NEW x, x = CreateAttempt(db, e, p, "created")
      PROVE  /\ Created(db, x, e)
             /\ \A f \in Exams \ {e}, j \in Slots : x.att[f][j] = db.att[f][j]
  <2>1. "created" \in Outcomes(e, p) /\ Creates(db, e, p, "created")
    BY <1>1, <1>3 DEF Outcomes, Creates, MayCreate
  <2> QED BY <1>1, <1>2, <1>3, <2>1, CreateAttemptDoes
<1>4. /\ Created(db, d1, e)
      /\ \A f \in Exams \ {e}, j \in Slots : d1.att[f][j] = db.att[f][j]
  BY <1>3, Zenon
<1>5. db' = Update(d1, e, Latest(d1, e), "declined", FALSE)
  BY DEF DeclineForPrerequisite
<1> HIDE DEF d1
<1>6. OtherProctored(e) \subseteq Exams \ {e}
  BY DEF OtherProctored
<1>7. RoomToDecline(d1, e)
  BY <1>1, <1>4, <1>6 DEF RoomToDecline, HasAttempt, Live, Unused
<1>8. ASSUME NEW n \in BOOLEAN, NEW x,
             x = Update(d1, e, Latest(d1, e), "declined", n)
      PROVE  Handled(db, x, e, "declined")
  BY <1>4, <1>7, <1>8, CreatedUpdateHandled
<1> QED
  BY <1>5, <1>8, Zenon

(* The handlers that set a status after the read of the attempt.           *)
LEMMA PutStatusHandled ==
  ASSUME InLine(db), NEW e \in Exams, NEW i \in Slots, NEW to \in ValidStatus,
         PutStatus(e, i, to)
  PROVE  Handled(db, db', e, to)
<1> DEFINE d1 == Read(db, e, i)
<1>1. /\ i \in Live(db, e) /\ db' = Update(d1, e, i, to, FALSE)
      /\ to = "declined" => RoomToDecline(d1, e)
  BY DEF PutStatus
<1>2. Honest(db)
  BY DEF InLine, Honest
<1> HIDE DEF d1
<1>3. i \in Live(d1, e)
  BY <1>1, <1>2, ReadDoes DEF d1
<1>4. ASSUME NEW n \in BOOLEAN, NEW x, x = Update(d1, e, i, to, n)
      PROVE  Handled(db, x, e, to)
  BY <1>1, <1>3, <1>4, ValidCanHave, ReadUpdateHandled DEF d1
<1> QED
  BY <1>1, <1>4, Zenon

(* The steps of staff that set a status with no read before.               *)
LEMMA SetStatusHandled ==
  ASSUME InLine(db), NEW e \in Exams, NEW i \in Slots, NEW to, CanHave(e, to),
         SetStatus(e, i, to)
  PROVE  Handled(db, db', e, to)
<1>1. /\ i \in Live(db, e) /\ db' = Update(db, e, i, to, FALSE)
      /\ to = "declined" => RoomToDecline(db, e)
  BY DEF SetStatus
<1>2. Goes(db, db, "timed_out") /\ \A f \in Exams \ {e} : FinishedKept(db, db, f)
  BY GoesSimple DEF InLine, Honest, FinishedKept
<1>3. ASSUME NEW n \in BOOLEAN, NEW x, x = Update(db, e, i, to, n)
      PROVE  Handled(db, x, e, to)
  BY <1>1, <1>2, <1>3, UpdateHandled
<1> QED
  BY <1>1, <1>3, Zenon

(* Starting the current attempt.                                           *)
LEMMA StartHandled ==
  ASSUME InLine(db), NEW e \in Exams, NEW i \in Slots, NEW instantly \in BOOLEAN,
         Start(e, i, instantly)
  PROVE  \E to \in StatusesAsked : Handled(db, db', e, to)
<1> DEFINE d1 == Read(db, e, i)
<1>1. i \in Live(db, e) /\ db' = StartLatest(d1, e, instantly)
  BY DEF Start
<1>2. Honest(db)
  BY DEF InLine, Honest
<1> HIDE DEF d1
<1>3. i \in Live(d1, e)
  BY <1>1, <1>2, ReadDoes DEF d1
<1>4. HasAttempt(d1, e) /\ Latest(d1, e) \in Live(d1, e)
  BY <1>3, LatestIsLive DEF HasAttempt
<1>5. CASE db' = d1
  <2>1. Handled(db, d1, e, "timed_out")
    BY <1>1, ReadHandled DEF d1
  <2> QED BY <1>5, <2>1 DEF StatusesAsked
<1>6. CASE db' = Update(d1, e, Latest(d1, e), "started", instantly)
  <2>1. "started" \in ValidStatus
    BY DEF ValidStatus, Incomplete, InProgress
  <2>2. Handled(db, db', e, "started")
    BY <1>1, <1>4, <1>6, <2>1, ValidCanHave, ReadUpdateHandled DEF d1
  <2> QED BY <2>2 DEF StatusesAsked
<1> QED
  BY <1>1, <1>5, <1>6 DEF StartLatest

(* The handlers that set a status if they still find the attempt in the    *)
(* one they act on.                                                        *)
LEMMA ConditionalHandled ==
  ASSUME InLine(db), NEW e \in Exams, NEW i \in Slots,
         Poll(e, i) \/ Error(e, i) \/ ReadyCallback(e, i) \/ StartCallback(e, i)
  PROVE  \E to \in StatusesAsked : Handled(db, db', e, to)
<1> DEFINE d1 == Read(db, e, i)
<1> DEFINE Ends == {"ready_to_start", "submitted", "error"}
<1>1. Ends \subseteq StatusesAsked /\ Ends \subseteq ValidStatus \ {"declined"}
  BY DEF StatusesAsked, ValidStatus, Completed, Incomplete, PreStarted
<1>2. /\ i \in Live(db, e)
      /\ \/ db' = d1
         \/ \E to \in Ends : db' = Update(d1, e, i, to, FALSE)
  BY DEF Poll, Error, ReadyCallback, StartCallback
<1>3. Honest(db)
  BY DEF InLine, Honest
<1> HIDE DEF d1, Ends
<1>4. i \in Live(d1, e)
  BY <1>2, <1>3, ReadDoes DEF d1
<1>5. CASE db' = d1
  <2>1. Handled(db, d1, e, "timed_out")
    BY <1>2, ReadHandled DEF d1
  <2> QED BY <1>5, <2>1 DEF StatusesAsked
<1>6. ASSUME NEW to \in Ends, db' = Update(d1, e, i, to, FALSE)
      PROVE  Handled(db, db', e, to)
  <2>1. ASSUME NEW n \in BOOLEAN, NEW x, x = Update(d1, e, i, to, n)
        PROVE  Handled(db, x, e, to)
    BY <1>1, <1>2, <1>4, <2>1, ValidCanHave, ReadUpdateHandled DEF d1
  <2> QED BY <1>6, <2>1, Zenon
<1> QED
  BY <1>1, <1>2, <1>5, <1>6

(* Removing an attempt.                                                    *)
LEMMA DeleteHandled ==
  ASSUME InLine(db), NEW e \in Exams, NEW i \in Slots, Delete(e, i)
  PROVE  Handled(db, db', e, "timed_out")
<1> DEFINE d1 == Read(db, e, i)
<1>1. i \in Live(db, e) /\ db' = Removed(d1, e, i)
  BY DEF Delete
<1>2. Honest(db)
  BY DEF InLine, Honest
<1>3. /\ Goes(db, d1, "timed_out") /\ i \in Live(d1, e) /\ Honest(d1)
      /\ \A f \in Exams : FinishedKept(db, d1, f)
  BY <1>1, <1>2, ReadDoes DEF Goes
<1> HIDE DEF d1
<1>4. /\ Goes(d1, db', "timed_out")
      /\ \A f \in Exams \ {e} : FinishedKept(d1, db', f)
  BY <1>1, <1>3, RemovedDoes
<1>5. Goes(db, db', "timed_out")
  BY <1>2, <1>3, <1>4, GoesTransitive
<1>6. \A f \in Exams \ {e} : FinishedKept(db, db', f)
  BY <1>3, <1>4 DEF FinishedKept
<1> QED
  BY <1>5, <1>6, GoesHandled

(* Staff remove all the attempts at an exam.                               *)
LEMMA ResetAttemptsHandled ==
  ASSUME InLine(db), pastDue \in SUBSET Dated, NEW e \in Exams, ResetAttempts(e)
  PROVE  Handled(db, db', e, "timed_out")
<1> DEFINE rows     == [i \in Slots |-> IF i \in Live(db, e) THEN Archived
                                       ELSE db.att[e][i]]
           att      == [db.att EXCEPT ![e] = rows]
           override == [db.override EXCEPT ![e] = FALSE]
           credit   == [db.credit EXCEPT ![e] =
                          IF HasStatus(db, e, NeedsCreditUpdate) # {}
                          THEN "none" ELSE @]
<1>1. Sound(db) /\ db \in Database
  BY DEF InLine, Sound
<1>2. Sound(db')
  BY <1>1, ResetAttemptsSound DEF RowsSound
<1>3. db' = [db EXCEPT !.att = att, !.override = override, !.credit = credit]
  BY DEF ResetAttempts
<1>4. \A i \in Slots : rows[i] = IF i \in Live(db, e) THEN Archived
                                 ELSE db.att[e][i]
  OBVIOUS
<1> HIDE DEF rows
<1>5. \A f \in Exams : att[f] = IF f = e THEN rows ELSE db.att[f]
  BY <1>1 DEF Database
<1>6. \A f \in Exams : credit[f] \in {db.credit[f], "none"}
  BY <1>1 DEF Database
<1> HIDE DEF att, override, credit
<1>7. db'.att = att /\ db'.credit = credit
  BY <1>1, <1>3 DEF Database
<1>8. \A f \in Exams, j \in Slots :
        \/ db'.att[f][j] = db.att[f][j]
        \/ f = e /\ db'.att[f][j] = Archived /\ j \in Live(db, f)
  BY <1>4, <1>5, <1>7
<1>9. Archived.row # "live"
  BY DEF Archived, NoRow
<1>10. Moved(db, db', "timed_out")
  <2>1. \A f \in Exams : \A j \in Live(db, f) : db.att[f][j].row # "unused"
    BY DEF Live
  <2> QED BY <1>8, <2>1, RowMoveSimple DEF Moved, MovedAt
<1>11. CreditHonest(db')
  <2>1. ASSUME NEW f \in SatOnce, db'.credit[f] = "satisfied"
        PROVE  HasStatus(db', f, NeedsCreditUpdate \ {"verified"}) = {}
    <3>1. f \in Exams
      BY DEF SatOnce
    <3>2. HasStatus(db, f, NeedsCreditUpdate \ {"verified"}) = {}
      BY <1>6, <1>7, <2>1, <3>1 DEF InLine, CreditHonest
    <3> HIDE DEF NeedsCreditUpdate
    <3> QED BY <1>8, <1>9, <3>1, <3>2 DEF HasStatus, Live
  <2> QED BY <2>1 DEF CreditHonest
<1>12. \A f \in Exams \ {e} : FinishedKept(db, db', f)
  BY <1>8 DEF FinishedKept
<1> QED
  BY <1>2, <1>10, <1>11, <1>12, GoesHandled DEF Goes, Honest

(* Whether the time of an attempt is over, is of the clock.                *)
LEMMA ClockHandled ==
  ASSUME NEW d, InLine(d), NEW e \in Exams, NEW i \in Slots, NEW over \in BOOLEAN,
         NEW d1, d1 = WithRow(d, e, i, [d.att[e][i] EXCEPT !.expired = over])
  PROVE  Handled(d, d1, e, "timed_out")
<1> DEFINE a   == d.att[e][i]
           row == [a EXCEPT !.expired = over]
<1>1. Honest(d)
  BY DEF InLine, Honest
<1>2. RowSound(e, a)
  BY DEF InLine, Sound
<1>3. RowSound(e, row)
  <2>1. \A r : RowSound(e, r) => RowSound(e, [r EXCEPT !.expired = over])
    BY DEF RowSound, Attempt, InResumeProcess
  <2> QED BY <1>2, <2>1
<1>4. /\ row.row = a.row /\ row.status = a.status /\ row.resumed = a.resumed
      /\ row.ready = a.ready /\ row.resumable = a.resumable
      /\ row.started = a.started
  <2>1. a \in Attempt
    BY <1>2 DEF RowSound
  <2> QED BY <2>1 DEF Attempt
<1>5. d1 = WithRow(d, e, i, row)
  OBVIOUS
<1> HIDE DEF row
<1>6. RowMove(e, a, row, "timed_out")
  <2>1. AttemptStage(row) = AttemptStage(a)
    BY <1>4 DEF AttemptStage, InResumeProcess
  <2> QED BY <1>4, <2>1 DEF RowMove
<1>7. Goes(d, d1, "timed_out") /\ OthersKept(d, d1, e, i)
  BY <1>1, <1>3, <1>4, <1>5, <1>6, WriteDoes
<1>8. \A f \in Exams \ {e} : FinishedKept(d, d1, f)
  BY <1>7 DEF OthersKept, FinishedKept
<1> QED
  BY <1>7, <1>8, GoesHandled

(* A row is deleted by command, and the time of an attempt runs out.       *)
LEMMA RawWritesHandled ==
  ASSUME InLine(db), NEW e \in Exams, NEW i \in Slots,
         RawDelete(e, i) \/ Expire(e, i)
  PROVE  Handled(db, db', e, "timed_out")
<1>1. Honest(db)
  BY DEF InLine, Honest
<1>2. CASE RawDelete(e, i)
  <2>1. db' = WithRow(db, e, i, Archived)
    BY <1>2 DEF RawDelete, WithRow
  <2>2. db.att[e][i].row # "unused"
    BY <1>2 DEF RawDelete, Live
  <2>3. RowMove(e, db.att[e][i], Archived, "timed_out")
    BY <2>2, RowMoveSimple
  <2> QED BY <1>1, <2>1, <2>3, UnusedRowsSound, ArchiveDoes, GoesHandled
<1>3. CASE Expire(e, i)
  <2>1. db' = WithRow(db, e, i, [db.att[e][i] EXCEPT !.expired = TRUE])
    BY <1>3 DEF Expire, WithRow
  <2>2. \A over \in BOOLEAN :
          over => db' = WithRow(db, e, i, [db.att[e][i] EXCEPT !.expired = over])
    BY <2>1, Zenon
  <2> QED BY <2>2, ClockHandled
<1> QED
  BY <1>2, <1>3

(* A practice exam is reset, and tried again.                              *)
LEMMA ResetPracticeHandled ==
  ASSUME InLine(db), NEW e \in Exams, NEW i \in Slots, ResetPractice(e, i)
  PROVE  Handled(db, db', e, "timed_out")
<1> DEFINE d1 == Read(db, e, i)
           k  == Latest(d1, e)
           a  == d1.att[e][k]
           row == [a EXCEPT !.status = "onboarding_reset"]
           d2 == IF a.status = "submitted" THEN Removed(d1, e, k)
                 ELSE [d1 EXCEPT !.att[e][k].status = "onboarding_reset"]
<1>1. /\ i \in Live(db, e) /\ Kind[e] = "practice" /\ e \notin SatOnce
      /\ Unused(db, e) # {}
  BY DEF ResetPractice, RoomToCreate, SatOnce
<1>2. PICK outcome \in Outcomes(e, a.proctored) : db' = PracticeReset(d1, e, outcome)
  BY DEF ResetPractice
<1>3. Honest(db)
  BY DEF InLine, Honest
<1>4. /\ Goes(db, d1, "timed_out") /\ i \in Live(d1, e)
      /\ Honest(d1) /\ Sound(d1)
      /\ \A f \in Exams : FinishedKept(db, d1, f)
  BY <1>1, <1>3, ReadDoes DEF Goes, Honest
<1> HIDE DEF d1
<1>5. k \in Live(d1, e) /\ k \in Slots
  BY <1>4, LatestIsLive DEF HasAttempt
<1>6. RowSound(e, a) /\ a \in Attempt
  BY <1>4, <1>5 DEF Sound, RowSound
<1>7. RowSound(e, row)
  BY <1>1, <1>6 DEF RowSound, Attempt, InResumeProcess, Status
<1>8. RowMove(e, a, row, "timed_out")
  <2>1. /\ row.row = a.row /\ row.resumed = a.resumed /\ row.status = "onboarding_reset"
        /\ row.started = a.started
    BY <1>6 DEF Attempt
  <2> HIDE DEF row
  <2> QED BY <1>1, <2>1 DEF RowMove, OnRequest, OnboardingErrors
<1>9. [d1 EXCEPT !.att[e][k].status = "onboarding_reset"] = WithRow(d1, e, k, row)
  BY DEF WithRow
<1> HIDE DEF row
<1>10. /\ Goes(d1, d2, "timed_out")
       /\ \A f \in Exams \ {e} : FinishedKept(d1, d2, f)
  <2>1. CASE d2 = Removed(d1, e, k)
    BY <1>4, <1>5, <2>1, RemovedDoes
  <2>2. CASE d2 = WithRow(d1, e, k, row)
    BY <1>1, <1>4, <1>5, <1>7, <1>8, <2>2, ArchiveDoes
  <2> QED BY <1>9, <2>1, <2>2
<1>11. db' \in {d1, CreateAttempt(d2, e, a.proctored, outcome)}
  BY <1>2 DEF PracticeReset
<1>12. a.proctored \in BOOLEAN
  BY <1>6 DEF Attempt
<1> HIDE DEF d2, a, k
<1>13. Goes(db, d2, "timed_out")
  BY <1>3, <1>4, <1>10, GoesTransitive
<1>14. \A f \in Exams \ {e} : FinishedKept(db, d2, f)
  BY <1>4, <1>10 DEF FinishedKept
<1>15. CASE db' = d1
  BY <1>4, <1>15, GoesHandled
<1>16. CASE db' = CreateAttempt(d2, e, a.proctored, outcome)
  <2>1. /\ Creates(d2, e, a.proctored, outcome) => Created(db, db', e)
        /\ ~ Creates(d2, e, a.proctored, outcome) => Goes(db, db', "timed_out")
        /\ ~ Creates(d2, e, a.proctored, outcome) =>
             \A f \in Exams \ {e} : FinishedKept(db, db', f)
    BY <1>1, <1>2, <1>12, <1>13, <1>14, <1>16, CreateAttemptDoes
  <2> QED BY <2>1, CreatedHandled, GoesHandled
<1> QED
  BY <1>11, <1>15, <1>16

(* Staff release an interrupted attempt: it is the current one, because    *)
(* those before it have been resumed, and resumed ones are not resumable.  *)
LEMMA MarkReadyToResumeHandled ==
  ASSUME InLine(db), NEW e \in Exams, NEW i \in Slots, MarkReadyToResume(e, i)
  PROVE  Handled(db, db', e, "timed_out")
<1> DEFINE d1  == Read(db, e, i)
           a   == d1.att[e][i]
           row == [a EXCEPT !.ready = TRUE, !.resumable = FALSE]
<1>1. /\ i \in Live(db, e)
      /\ db' = IF a.resumable THEN WithRow(d1, e, i, row) ELSE d1
  BY DEF MarkReadyToResume, WithRow
<1>2. Honest(db) /\ Sound(db)
  BY DEF InLine, Honest
<1>3. /\ Goes(db, d1, "timed_out") /\ i \in Live(d1, e) /\ InLine(d1)
      /\ \A f \in Exams : FinishedKept(db, d1, f)
      /\ e \in SatOnce => Live(d1, e) = Live(db, e)
  BY <1>1, <1>2, ReadDoes, MovedKeepsLine
<1>4. Handled(db, d1, e, "timed_out")
  BY <1>1, ReadHandled
<1> HIDE DEF d1
<1>5. RowSound(e, a) /\ a \in Attempt /\ Sound(d1)
  BY <1>3 DEF InLine, Sound, RowSound
<1>6. CASE a.resumable
  <2>1. RowSound(e, row)
    <3>1. \A r : RowSound(e, r) /\ r.resumable =>
            RowSound(e, [r EXCEPT !.ready = TRUE, !.resumable = FALSE])
      BY DEF RowSound, Attempt, InResumeProcess
    <3> QED BY <1>5, <1>6, <3>1
  <2>2. /\ row.row = a.row /\ row.status = a.status /\ row.resumed = a.resumed
        /\ row.ready
    BY <1>5 DEF Attempt
  <2> HIDE DEF row
  <2>3. /\ Sound(db')
        /\ \A f \in Exams, j \in Slots :
             db'.att[f][j] = IF f = e /\ j = i THEN row ELSE d1.att[f][j]
    BY <1>1, <1>5, <1>6, <2>1, WriteRowSound
  <2>4. db'.credit = d1.credit
    BY <1>1, <1>5, <1>6 DEF WithRow, Sound, Database
  <2>5. \A f \in Exams : Live(db', f) = Live(d1, f)
    BY <2>2, <2>3 DEF Live
  <2>6. \A f \in Exams : \A statuses :
          HasStatus(db', f, statuses) = HasStatus(d1, f, statuses)
    BY <2>2, <2>3, <2>5 DEF HasStatus, Live
  <2>7. InLine(db')
    <3>1. UsedInOrder(db')
      BY <1>3, <2>2, <2>3 DEF InLine, UsedInOrder
    <3>2. \A f \in Exams, j \in Slots :
            db'.att[f][j].resumed = d1.att[f][j].resumed
      BY <2>2, <2>3
    <3>3. Superseded(db')
      BY <1>3, <2>5, <3>2 DEF InLine, Superseded, SatOnce, Live
    <3>4. CreditHonest(db')
      BY <1>3, <2>4, <2>6 DEF InLine, CreditHonest, SatOnce
    <3> QED BY <2>3, <3>1, <3>3, <3>4 DEF InLine
  <2>8. ASSUME NEW f \in Exams
        PROVE  OnwardAt(db, db', f, "timed_out")
    <3>1. OnwardAt(d1, db', f, "timed_out")
      BY <2>2, <2>3 DEF OnwardAt, RowOnward
    <3>2. OnwardAt(db, d1, f, "timed_out")
      BY <1>4 DEF Handled
    <3> QED BY <3>1, <3>2, OnwardTransitive
  <2>9. ASSUME e \in SatOnce
        PROVE  ReleasedAt(db, db', e)
    <3>1. HasAttempt(db, e) /\ Live(db', e) = Live(db, e)
      BY <1>1, <1>3, <2>5, <2>9 DEF HasAttempt
    <3>2. /\ Latest(db, e) \in Live(db, e) /\ Latest(db, e) \in Slots
          /\ i <= Latest(db, e)
      BY <1>1, <3>1, LatestIsLive
    <3>3. i = Latest(db, e)
      <4>1. ASSUME i < Latest(db, e)
            PROVE  FALSE
        <5>1. a.resumed
          BY <1>1, <1>3, <2>9, <3>2, <4>1 DEF InLine, Superseded
        <5> QED BY <1>5, <1>6, <5>1 DEF RowSound
      <4> QED BY <3>2, <4>1 DEF Slots
    <3>4. AttemptStage(a) = "interrupted"
      BY <1>5, <1>6, <2>9 DEF AttemptStage, RowSound, InResumeProcess, SatOnce
    <3>5. AttemptStage(db.att[e][i]) = "interrupted"
      <4>1. RowMove(e, db.att[e][i], a, "timed_out") /\ a.row = "live"
        BY <1>3 DEF Goes, Moved, MovedAt, Live
      <4> QED BY <2>9, <3>4, <4>1 DEF RowMove, Moves, Ending
    <3>6. AttemptStage(row) = "released"
      BY <2>2 DEF AttemptStage, InResumeProcess
    <3>7. Latest(db', e) = Latest(db, e) /\ HasAttempt(db', e)
      BY <3>1 DEF Latest, HasAttempt
    <3>8. db'.att[e][i] = row
      BY <2>3
    <3> QED BY <3>1, <3>3, <3>5, <3>6, <3>7, <3>8 DEF ReleasedAt, SittingStage
  <2>10. ASSUME NEW f \in SatOnce
         PROVE  SatAt(db, db', f, "timed_out")
    <3>1. CASE f = e
      BY <2>9, <3>1 DEF SatAt
    <3>2. CASE f # e
      <4>1. f \in Exams
        BY DEF SatOnce
      <4>2. MovedAt(db, db', f, "timed_out")
        BY <1>3, <2>3, <3>2, <4>1 DEF Goes, Moved, MovedAt
      <4> QED BY <4>2 DEF SatAt
    <3> QED BY <3>1, <3>2
  <2>11. \A f \in Exams \ {e} : FinishedKept(db, db', f)
    BY <1>3, <2>3 DEF FinishedKept
  <2> QED BY <2>7, <2>8, <2>10, <2>11 DEF Handled
<1>7. CASE ~ a.resumable
  BY <1>1, <1>4, <1>7
<1> QED
  BY <1>6, <1>7

-----------------------------------------------------------------------------
(* The step.                                                               *)

(* What learners, staff, the proctoring service and the clock do: the due  *)
(* date that passes touches no attempt, staff may set any status, and the  *)
(* rest is handled with one of the statuses that are asked for.            *)
LEMMA AttemptStepHandled ==
  ASSUME AttemptsInLine, NEW e \in Exams, AttemptNext(e)
  PROVE  \/ db' = db
         \/ \E i \in Slots : AdminSetStatus(e, i) \/ RetriggerStatus(e, i)
         \/ \E to \in StatusesAsked : Handled(db, db', e, to)
<1>1. InLine(db) /\ pastDue \in SUBSET Dated
  BY DEF AttemptsInLine
<1>2. Handled(db, db', e, "timed_out") \/ Handled(db, db', e, "declined") =>
        \E to \in StatusesAsked : Handled(db, db', e, to)
  BY DEF StatusesAsked
<1>3. CASE LearnerNext(e)
  <2>1. ASSUME NEW proctored \in BOOLEAN, NEW startClock \in BOOLEAN,
               NEW outcome \in Outcomes(e, proctored), NEW instantly \in BOOLEAN,
               Post(e, proctored, startClock, outcome, instantly)
        PROVE  \E to \in StatusesAsked : Handled(db, db', e, to)
    BY <1>1, <2>1, PostHandled
  <2>2. \A startClock \in BOOLEAN : {FALSE, startClock} \subseteq BOOLEAN
    BY Zenon
  <2>3. CASE DeclineForPrerequisite(e)
    BY <1>1, <1>2, <2>3, DeclineForPrerequisiteHandled
  <2>4. ASSUME NEW i \in Slots,
               Stop(e, i) \/ Submit(e, i) \/ ClickDownload(e, i) \/ Decline(e, i)
        PROVE  \E to \in StatusesAsked : Handled(db, db', e, to)
    <3>1. {"ready_to_submit", "submitted", "download_software_clicked",
           "declined"} \subseteq ValidStatus \cap StatusesAsked
      BY DEF ValidStatus, Completed, Incomplete, InProgress, PreStarted, StatusesAsked
    <3>2. PICK to \in ValidStatus \cap StatusesAsked : PutStatus(e, i, to)
      BY <2>4, <3>1 DEF Stop, Submit, ClickDownload, Decline
    <3> QED BY <1>1, <3>2, PutStatusHandled
  <2>5. ASSUME NEW i \in Slots,
               \/ \E instantly \in BOOLEAN : Start(e, i, instantly)
               \/ Error(e, i) \/ Poll(e, i) \/ ResetPractice(e, i)
        PROVE  \E to \in StatusesAsked : Handled(db, db', e, to)
    BY <1>1, <1>2, <2>5, StartHandled, ConditionalHandled, ResetPracticeHandled
  <2> QED BY <1>3, <2>1, <2>2, <2>3, <2>4, <2>5 DEF LearnerNext
<1>4. CASE StaffNext(e)
  <2>1. CASE ResetAttempts(e)
    BY <1>1, <1>2, <2>1, ResetAttemptsHandled
  <2>2. ASSUME NEW i \in Slots,
               MarkReadyToResume(e, i) \/ Delete(e, i) \/ RawDelete(e, i)
        PROVE  Handled(db, db', e, "timed_out")
    BY <1>1, <2>2, MarkReadyToResumeHandled, DeleteHandled, RawWritesHandled
  <2> QED BY <1>2, <1>4, <2>1, <2>2 DEF StaffNext
<1>5. CASE BackendNext(e)
  BY <1>1, <1>5, ConditionalHandled DEF BackendNext
<1>6. CASE ClockNext(e)
  <2>1. CASE PassDue(e) \/ ExtendDue(e)
    BY <2>1 DEF PassDue, ExtendDue
  <2>2. ASSUME NEW i \in Slots, Expire(e, i)
        PROVE  Handled(db, db', e, "timed_out")
    BY <1>1, <2>2, RawWritesHandled
  <2> QED BY <1>2, <1>6, <2>1, <2>2 DEF ClockNext
<1> QED
  BY <1>3, <1>4, <1>5, <1>6 DEF AttemptNext

(* Every step of the system is one of the clock that touches no attempt,   *)
(* or is handled.                                                          *)
LEMMA StepHandled ==
  ASSUME AttemptsInLine, Next
  PROVE  db' = db \/ \E e \in Exams : \E to : Handled(db, db', e, to)
<1>1. InLine(db)
  BY DEF AttemptsInLine
<1>2. PICK e \in Exams : AttemptNext(e) \/ ReviewNext(e)
  BY DEF Next
<1>3. ASSUME NEW i \in Slots, AdminSetStatus(e, i) \/ RetriggerStatus(e, i)
      PROVE  \E to : Handled(db, db', e, to)
  <2>1. CanHave(e, db.att[e][i].status)
    BY <1>1 DEF InLine, Sound, RowSound, Attempt, CanHave
  <2>2. \A to \in AdminStatuses : CanHave(e, to)
    BY ValidCanHave, ConstantsAssumption
  <2>3. PICK to : CanHave(e, to) /\ SetStatus(e, i, to)
    BY <1>3, <2>1, <2>2 DEF AdminSetStatus, RetriggerStatus
  <2> QED BY <1>1, <2>3, SetStatusHandled
<1>4. CASE ReviewNext(e)
  <2>1. ASSUME NEW i \in Slots, ReviewCallback(e, i)
        PROVE  \E to : Handled(db, db', e, to)
    <3>1. PICK to \in ValidStatus : PutStatus(e, i, to)
      BY <2>1, VerdictsValid DEF ReviewCallback
    <3> QED BY <1>1, <3>1, PutStatusHandled
  <2>2. ASSUME NEW i \in Slots, ReviewSaved(e, i)
        PROVE  \E to : Handled(db, db', e, to)
    <3>1. PICK to \in ValidStatus : SetStatus(e, i, to)
      BY <2>2, VerdictsValid DEF ReviewSaved
    <3> QED BY <1>1, <3>1, ValidCanHave, SetStatusHandled
  <2> QED BY <1>4, <2>1, <2>2 DEF ReviewNext
<1>5. CASE AttemptNext(e)
  BY <1>3, <1>5, AttemptStepHandled
<1> QED
  BY <1>2, <1>4, <1>5

-----------------------------------------------------------------------------
(* The theorems.                                                           *)

(* Nothing has been attempted at first.                                    *)
LEMMA InitInLine == Init => AttemptsInLine
<1> SUFFICES ASSUME Init PROVE AttemptsInLine
  OBVIOUS
<1>1. RowsSound
  BY InitRowsSound
<1>2. \A e \in Exams, i \in Slots : db.att[e][i] = NoRow
  BY DEF Init
<1>3. NoRow.row = "unused"
  BY DEF NoRow
<1>4. \A e \in Exams : Live(db, e) = {}
  BY <1>2, <1>3 DEF Live
<1>5. UsedInOrder(db) /\ Superseded(db)
  BY <1>2, <1>3, <1>4 DEF UsedInOrder, Superseded, SatOnce
<1>6. CreditHonest(db)
  BY <1>4 DEF CreditHonest, HasStatus, SatOnce
<1> QED
  BY <1>1, <1>5, <1>6 DEF AttemptsInLine, InLine, RowsSound

(* Every step keeps the attempts in line.                                  *)
LEMMA NextInLine == AttemptsInLine /\ [Next]_vars => AttemptsInLine'
<1> SUFFICES ASSUME AttemptsInLine, [Next]_vars PROVE AttemptsInLine'
  OBVIOUS
<1>1. CASE UNCHANGED vars
  BY <1>1 DEF AttemptsInLine, vars, InLine, Sound, UsedInOrder, Superseded,
     CreditHonest, Live, HasStatus
<1>2. CASE Next
  <2>1. InLine(db')
    BY <1>2, StepHandled DEF Handled, AttemptsInLine
  <2>2. pastDue' \in SUBSET Dated
    BY NextRowsSound DEF AttemptsInLine, InLine, RowsSound
  <2>3. InLine(db)' <=> InLine(db')
    BY DEF InLine, Sound, UsedInOrder, Superseded, CreditHonest, Live, HasStatus
  <2> QED BY <2>1, <2>2, <2>3 DEF AttemptsInLine
<1> QED
  BY <1>1, <1>2

(* For any set of exams, any number of attempts and any settings, the      *)
(* attempts at each exam follow one another and the credit follows them.   *)
THEOREM AlwaysInLine == Spec => []AttemptsInLine
  BY InitInLine, NextInLine, PTL DEF Spec

(* An attempt of an exam is followed by another one only if it was         *)
(* resumed, whatever has been removed, cleared or declined in between.     *)
THEOREM SupersessionHolds == Spec => []SupersededIsResumed
<1>1. AttemptsInLine => SupersededIsResumed
  BY DEF AttemptsInLine, InLine, Superseded, SupersededIsResumed, LiveAttempt,
     SatOnce
<1> QED
  BY <1>1, AlwaysInLine, PTL

(* The only attempt that can be open is the last one, and it does not wait *)
(* to be resumed: no sequence of requests leaves two attempts at one exam  *)
(* running.                                                                *)
THEOREM OneOpenAttemptHolds == Spec => []OneOpenAttempt
<1>1. ASSUME AttemptsInLine, NEW e \in Exams, NEW i \in Slots,
             Kind[e] # "practice", LiveAttempt(e, i),
             db.att[e][i].status \in Incomplete
      PROVE  /\ i = Latest(db, e) /\ ~ db.att[e][i].resumable
             /\ ~ InResumeProcess(db.att[e][i])
  <2>1. /\ ~ db.att[e][i].resumable /\ ~ InResumeProcess(db.att[e][i])
    BY <1>1 DEF AttemptsInLine, InLine, Sound, RowSound
  <2>2. i \in Live(db, e) /\ HasAttempt(db, e)
    BY <1>1 DEF LiveAttempt, HasAttempt
  <2>3. Latest(db, e) \in Live(db, e) /\ Latest(db, e) \in Slots
        /\ i <= Latest(db, e)
    BY <2>2, LatestIsLive
  <2>4. ~ (i < Latest(db, e))
    BY <1>1, <2>1, <2>2, <2>3
    DEF AttemptsInLine, InLine, Superseded, SatOnce, InResumeProcess
  <2> QED BY <2>1, <2>3, <2>4 DEF Slots
<1>2. AttemptsInLine => OneOpenAttempt
  BY <1>1 DEF OneOpenAttempt
<1> QED
  BY <1>2, AlwaysInLine, PTL

(* The credit requirement is satisfied only while nothing stands against   *)
(* it among all the attempts at the exam.                                  *)
THEOREM CreditHonoured == Spec => []CreditHonoursAttempts
<1>1. AttemptsInLine => CreditHonoursAttempts
  BY DEF AttemptsInLine, InLine, CreditHonest, CreditHonoursAttempts, SatOnce
<1> QED
  BY <1>1, AlwaysInLine, PTL

(* The step by which the last of the attempts at an exam gets verified     *)
(* satisfies the credit requirement.                                       *)
THEOREM VerificationSettles == Spec => VerifiedSettlesCredit
<1> DEFINE Settles ==
      \A e \in Exams :
        Live(db, e) = Live(db, e)' /\ ~ AllVerified(db, e) /\ AllVerified(db, e)'
          => db.credit'[e] = "satisfied"
<1>1. AttemptsInLine /\ [Next]_vars => [Settles]_vars
  <2> SUFFICES ASSUME AttemptsInLine, Next, NEW e \in Exams,
                      Live(db, e) = Live(db, e)', ~ AllVerified(db, e),
                      AllVerified(db, e)'
               PROVE  db.credit'[e] = "satisfied"
    OBVIOUS
  <2>1. Live(db', e) = Live(db, e) /\ AllVerified(db', e)
    BY DEF Live, AllVerified, HasAttempt, HasStatus
  <2>2. CASE db' = db
    BY <2>1, <2>2
  <2>3. ASSUME NEW x \in Exams, NEW to, Handled(db, db', x, to)
        PROVE  db'.credit[e] = "satisfied"
    <3>1. CASE to = "verified"
      BY <2>1, <2>3, <3>1 DEF Handled, SettledAt
    <3>2. CASE to # "verified"
      <4>1. \A j \in Live(db, e) :
              db'.att[e][j].row = "live" /\ db'.att[e][j].status = "verified"
        BY <2>1 DEF AllVerified, HasStatus, Live
      <4>2. \A j \in Live(db, e) : db.att[e][j].status = "verified"
        BY <2>3, <3>2, <4>1 DEF Handled, OnwardAt, RowOnward, Live
      <4>3. HasAttempt(db, e)
        BY <2>1 DEF AllVerified, HasAttempt
      <4>4. AllVerified(db, e)
        BY <4>2, <4>3 DEF AllVerified, HasStatus
      <4> QED BY <4>4
    <3> QED BY <3>1, <3>2
  <2> QED BY <2>2, <2>3, StepHandled
<1> QED
  BY <1>1, AlwaysInLine, PTL DEF Spec, VerifiedSettlesCredit

(* No step changes complete attempts of two exams: the cascade leaves      *)
(* every complete attempt as it is.                                        *)
THEOREM CompletedKept == Spec => CompletedElsewhereKept
<1> DEFINE Kept ==
      \A e \in Exams : CompleteTouched(e) =>
        \A f \in Exams \ {e} : ~ CompleteTouched(f)
<1>1. AttemptsInLine /\ [Next]_vars => [Kept]_vars
  <2> SUFFICES ASSUME AttemptsInLine, Next, NEW e \in Exams, CompleteTouched(e),
                      NEW f \in Exams \ {e}, CompleteTouched(f)
               PROVE  FALSE
    OBVIOUS
  <2>1. ASSUME NEW g \in Exams, CompleteTouched(g)
        PROVE  db' # db /\ ~ FinishedKept(db, db', g)
    BY <2>1 DEF CompleteTouched, HasStatus, Live, FinishedKept, Finished
  <2> QED BY <2>1, StepHandled DEF Handled
<1> QED
  BY <1>1, AlwaysInLine, PTL DEF Spec, CompletedElsewhereKept

(* A step that declines an attempt leaves no proctored exam of the course  *)
(* open or unattempted, but for onboarding errors.                         *)
THEOREM DeclineAlwaysCascades == Spec => DeclineCascades
<1> DEFINE Cascades ==
      \A e \in Exams : BecomesDeclined(e) # {} /\ PastAttemptsNotDeclined' =>
        \A f \in OtherProctored(e) :
          \/ HasStatus(db, f, OnboardingErrors) # {}
          \/ HasAttempt(db', f) /\ db'.att[f][Latest(db', f)].status \in Completed
<1>1. AttemptsInLine /\ [Next]_vars => [Cascades]_vars
  <2> SUFFICES ASSUME AttemptsInLine, Next, NEW x \in Exams,
                      NEW i \in BecomesDeclined(x), PastAttemptsNotDeclined',
                      NEW f \in OtherProctored(x)
               PROVE  \/ HasStatus(db, f, OnboardingErrors) # {}
                      \/ /\ HasAttempt(db', f)
                         /\ db'.att[f][Latest(db', f)].status \in Completed
    OBVIOUS
  <2>1. /\ i \in Slots /\ db'.att[x][i].row = "live"
        /\ db'.att[x][i].status = "declined"
        /\ ~ (db.att[x][i].row = "live" /\ db.att[x][i].status = "declined")
    BY DEF BecomesDeclined, LiveAttempt, Live
  <2>2a. PICK e \in Exams : \E to : Handled(db, db', e, to)
    BY <2>1, StepHandled
  <2>2. PICK to : Handled(db, db', e, to)
    BY <2>2a
  <2>3. to = "declined"
    BY <2>1, <2>2 DEF Handled, OnwardAt, RowOnward
  <2>4. f \in Exams /\ Kind[f] = "proctored"
    BY DEF OtherProctored
  <2>5. CASE f # e
    <3>1. f \in OtherProctored(e)
      BY <2>4, <2>5 DEF OtherProctored
    <3> QED BY <2>2, <2>3, <3>1 DEF Handled
  <2>6. CASE f = e
    <3>1. PICK k \in HasStatus(db', e, {"declined"}) : TRUE
      BY <2>2, <2>3 DEF Handled
    <3>2. \A g \in Exams : Kind[g] = "proctored" =>
            \A j \in HasStatus(db', g, {"declined"}) : j = Latest(db', g)
      BY DEF PastAttemptsNotDeclined, HasStatus, Live, Latest
    <3>3. k = Latest(db', f) /\ k \in Live(db', f)
          /\ db'.att[f][k].status = "declined"
      BY <2>4, <2>6, <3>1, <3>2 DEF HasStatus
    <3> QED BY <3>3 DEF HasAttempt, Completed
  <2> QED BY <2>5, <2>6
<1> QED
  BY <1>1, AlwaysInLine, PTL DEF Spec, DeclineCascades

-----------------------------------------------------------------------------
(* The sitting: ExamAttempts implements ExamSitting.                       *)

(* How many attempts a sitting consists of.                                *)
Taken(d, e) == Cardinality(Live(d, e))

(* There are finitely many attempts, none where the sitting has not begun. *)
LEMMA TakenType ==
  ASSUME NEW d, NEW e \in Exams
  PROVE  /\ IsFiniteSet(Live(d, e)) /\ Taken(d, e) \in Nat
         /\ Taken(d, e) = 0 <=> Live(d, e) = {}
         /\ \A s : Live(d, e) = {s} => Taken(d, e) = 1
         /\ SittingStage(d, e) \in Sitting!Stages
         /\ Live(d, e) = {} => SittingStage(d, e) = "none"
<1>1. IsFiniteSet(Live(d, e))
  <2>1. 1 \in Int /\ MaxAttempts \in Int
    BY ConstantsAssumption
  <2>2. IsFiniteSet(1 .. MaxAttempts)
    BY <2>1, FS_Interval
  <2>3. Live(d, e) \in SUBSET (1 .. MaxAttempts)
    BY DEF Live, Slots
  <2> QED BY <2>2, <2>3, FS_Subset
<1>2. SittingStage(d, e) \in Sitting!Stages
  BY StagesDiffer DEF SittingStage, Sitting!Stages
<1>3. Live(d, e) = {} => SittingStage(d, e) = "none"
  BY DEF SittingStage, HasAttempt
<1>4. \A s : Live(d, e) = {s} => Cardinality(Live(d, e)) = 1
  BY FS_Singleton
<1> QED
  BY <1>1, <1>2, <1>3, <1>4, FS_CardinalityType, FS_EmptySet DEF Taken

(* Where the attempts move on, the sitting goes its course; where the      *)
(* current one is removed, the one before it has been released.            *)
LEMMA MovedSitting ==
  ASSUME NEW d, InLine(d), NEW e \in SatOnce, NEW d1, NEW to,
         MovedAt(d, d1, e, to)
  PROVE  \/ /\ Taken(d1, e) = Taken(d, e)
            /\ \/ SittingStage(d1, e) = SittingStage(d, e)
               \/ <<SittingStage(d, e), SittingStage(d1, e)>> \in Sitting!Course
         \/ /\ Taken(d1, e) < Taken(d, e)
            /\ \/ Taken(d1, e) = 0 /\ SittingStage(d1, e) = "none"
               \/ /\ Taken(d1, e) > 0
                  /\ \/ SittingStage(d1, e) \in {"released", SittingStage(d, e)}
                     \/ <<SittingStage(d, e), SittingStage(d1, e)>>
                          \in Sitting!Course
<1>1. e \in Exams /\ Sound(d)
  BY DEF SatOnce, InLine
<1>2. Live(d1, e) \subseteq Live(d, e)
  BY <1>1, MovedLive
<1>3. Moves(to) \subseteq Sitting!Course
  BY DEF Moves, Interrupting, Ending, Sitting!Course
<1>4. /\ Taken(d1, e) <= Taken(d, e)
      /\ Taken(d1, e) = Taken(d, e) => Live(d1, e) = Live(d, e)
  BY <1>1, <1>2, TakenType, FS_Subset DEF Taken
<1>5. ASSUME HasAttempt(d1, e), Latest(d1, e) = Latest(d, e)
      PROVE  \/ SittingStage(d1, e) = SittingStage(d, e)
             \/ <<SittingStage(d, e), SittingStage(d1, e)>> \in Sitting!Course
  <2>1. Latest(d1, e) \in Live(d1, e) /\ Latest(d1, e) \in Slots
    BY <1>1, <1>5, LatestIsLive
  <2>2. HasAttempt(d, e)
    BY <1>2, <2>1 DEF HasAttempt
  <2>3. d1.att[e][Latest(d1, e)].row = "live"
    BY <2>1 DEF Live
  <2>4. RowMove(e, d.att[e][Latest(d1, e)], d1.att[e][Latest(d1, e)], to)
    BY <2>1 DEF MovedAt
  <2> QED BY <1>3, <1>5, <2>2, <2>3, <2>4 DEF RowMove, SittingStage
<1>6. CASE Live(d1, e) = Live(d, e)
  <2>1. Taken(d1, e) = Taken(d, e)
    BY <1>6 DEF Taken
  <2>2. CASE Live(d, e) = {}
    BY <1>1, <1>6, <2>1, <2>2, TakenType
  <2>3. CASE Live(d, e) # {}
    <3>1. HasAttempt(d1, e) /\ Latest(d1, e) = Latest(d, e)
      BY <1>6, <2>3 DEF HasAttempt, Latest
    <3> QED BY <1>5, <2>1, <3>1
  <2> QED BY <2>2, <2>3
<1>7. CASE Live(d1, e) # Live(d, e)
  <2>1. Taken(d1, e) \in Nat /\ Taken(d, e) \in Nat
    BY <1>1, TakenType
  <2>2. Taken(d1, e) < Taken(d, e)
    BY <1>4, <1>7, <2>1
  <2>3. CASE Live(d1, e) = {}
    BY <1>1, <2>2, <2>3, TakenType
  <2>4. CASE Live(d1, e) # {}
    <3>1. Taken(d1, e) > 0
      BY <1>1, <2>1, <2>4, TakenType
    <3>2. HasAttempt(d1, e) /\ HasAttempt(d, e)
      BY <1>2, <2>4 DEF HasAttempt
    <3>3. /\ Latest(d1, e) \in Live(d1, e) /\ Latest(d1, e) \in Slots
          /\ Latest(d, e) \in Live(d, e) /\ Latest(d, e) \in Slots
          /\ Latest(d1, e) <= Latest(d, e)
      BY <1>1, <1>2, <3>2, LatestIsLive
    <3>4. CASE Latest(d1, e) = Latest(d, e)
      BY <1>5, <2>2, <3>1, <3>2, <3>4
    <3>5. CASE Latest(d1, e) # Latest(d, e)
      <4>1. Latest(d1, e) < Latest(d, e)
        BY <3>3, <3>5 DEF Slots
      <4>2. d.att[e][Latest(d1, e)].resumed
        BY <1>2, <3>3, <4>1 DEF InLine, Superseded
      <4>3. d1.att[e][Latest(d1, e)].resumed
        BY <3>3, <4>2 DEF MovedAt, RowMove, Live
      <4>4. SittingStage(d1, e) = "released"
        BY <3>2, <4>3 DEF SittingStage, AttemptStage, InResumeProcess
      <4> QED BY <2>2, <3>1, <4>4
    <3> QED BY <3>4, <3>5
  <2> QED BY <2>3, <2>4
<1> QED
  BY <1>6, <1>7

(* Whatever a handler does to the attempts at an exam is a step of its     *)
(* sitting, or none.                                                       *)
LEMMA SatIsSitting ==
  ASSUME NEW d, InLine(d), NEW e \in SatOnce, NEW d1, NEW to,
         SatAt(d, d1, e, to), NEW st, st = SittingStage(d, e),
         NEW st1, st1 = SittingStage(d1, e), NEW tk, tk = Taken(d, e),
         NEW tk1, tk1 = Taken(d1, e)
  PROVE  \/ st1 = st /\ tk1 = tk
         \/ /\ st \in {"none", "released"} /\ st1 \in {"open", "closed"}
            /\ tk1 = tk + 1
         \/ <<st, st1>> \in Sitting!Course /\ tk1 = tk
         \/ /\ tk1 < tk
            /\ \/ tk1 = 0 /\ st1 = "none"
               \/ tk1 > 0 /\ st1 = "released"
               \/ tk1 > 0 /\ <<st, st1>> \in Sitting!Course
               \/ tk1 > 0 /\ st1 = st
         \/ st = "released" /\ st1 = "closed" /\ tk1 = 1
<1>1. e \in Exams
  BY DEF SatOnce
<1>2. CASE MovedAt(d, d1, e, to)
  BY <1>2, MovedSitting
<1>3. CASE BegunAt(d, d1, e)
  <2>1. PICK s \in Unused(d, e) : Live(d1, e) = Live(d, e) \cup {s}
    BY <1>3 DEF BegunAt
  <2>2. s \notin Live(d, e)
    BY <2>1 DEF Live, Unused
  <2>3. tk1 = tk + 1
    BY <1>1, <2>1, <2>2, TakenType, FS_AddElement DEF Taken
  <2>4. st \in {"none", "released"}
    <3>1. CASE ~ HasAttempt(d, e)
      BY <3>1 DEF SittingStage
    <3>2. CASE HasAttempt(d, e)
      <4>1. Latest(d, e) \in Live(d, e)
        BY <1>1, <3>2, LatestIsLive
      <4> QED BY <1>3, <3>2, <4>1 DEF BegunAt, SittingStage, AttemptStage
    <3> QED BY <3>1, <3>2
  <2> QED BY <1>3, <2>3, <2>4 DEF BegunAt
<1>4. CASE ReplacedAt(d, d1, e)
  <2>1. tk1 = 1 /\ tk \in Nat /\ tk # 0
    BY <1>1, <1>4, TakenType DEF ReplacedAt, HasAttempt
  <2>2. st1 = "closed"
    BY <1>4 DEF ReplacedAt
  <2>3. st \in {"released", "open", "interrupted", "closed"}
    BY <1>4, StagesDiffer DEF ReplacedAt, SittingStage
  <2>4. {<<"open", "closed">>, <<"interrupted", "closed">>} \subseteq Sitting!Course
    BY DEF Sitting!Course
  <2>5. tk1 = tk \/ (tk1 < tk /\ tk1 > 0)
    BY <2>1
  <2> QED BY <2>1, <2>2, <2>3, <2>4, <2>5
<1>5. CASE ReleasedAt(d, d1, e)
  <2>1. tk1 = tk
    BY <1>5 DEF ReleasedAt, Taken
  <2>2. <<"interrupted", "released">> \in Sitting!Course
    BY DEF Sitting!Course
  <2> QED BY <1>5, <2>1, <2>2 DEF ReleasedAt
<1> QED
  BY <1>2, <1>3, <1>4, <1>5 DEF SatAt

(* Whatever learners, staff, the proctoring service and the clock do, each *)
(* exam is sat as module ExamSitting says.                                 *)
THEOREM AttemptsImplementSitting == Spec => ImplementsSitting
<1>1. Init => Sitting!SittingInit
  <2> SUFFICES ASSUME Init PROVE Sitting!SittingInit
    OBVIOUS
  <2>1. \A e \in Exams : Live(db, e) = {}
    BY DEF Init, Live, NoRow
  <2>2. \A e \in SatOnce : SittingStage(db, e) = "none" /\ Cardinality(Live(db, e)) = 0
    BY <2>1, TakenType DEF SatOnce, Taken
  <2> QED BY <2>2 DEF Sitting!SittingInit
<1>2. ASSUME AttemptsInLine, Next
      PROVE  \/ Sitting!SittingNext
             \/ UNCHANGED <<[e \in SatOnce |-> SittingStage(db, e)],
                            [e \in SatOnce |-> Cardinality(Live(db, e))]>>
  <2>1. /\ [e \in SatOnce |-> SittingStage(db, e)]'
             = [e \in SatOnce |-> SittingStage(db', e)]
        /\ [e \in SatOnce |-> Cardinality(Live(db, e))]'
             = [e \in SatOnce |-> Cardinality(Live(db', e))]
    BY DEF SittingStage, HasAttempt, Latest, Live
  <2>2. CASE db' = db
    BY <2>1, <2>2
  <2>3. ASSUME NEW x \in Exams, NEW to, Handled(db, db', x, to)
        PROVE  Sitting!SittingNext
    <3> DEFINE st  == [e \in SatOnce |-> SittingStage(db, e)]
               st1 == [e \in SatOnce |-> SittingStage(db', e)]
               tk  == [e \in SatOnce |-> Cardinality(Live(db, e))]
               tk1 == [e \in SatOnce |-> Cardinality(Live(db', e))]
    <3>1. ASSUME NEW e \in SatOnce
          PROVE  /\ st1[e] \in Sitting!Stages /\ tk1[e] \in Nat
                 /\ \/ st1[e] = st[e] /\ tk1[e] = tk[e]
                    \/ /\ st[e] \in {"none", "released"}
                       /\ st1[e] \in {"open", "closed"} /\ tk1[e] = tk[e] + 1
                    \/ <<st[e], st1[e]>> \in Sitting!Course /\ tk1[e] = tk[e]
                    \/ /\ tk1[e] < tk[e]
                       /\ \/ tk1[e] = 0 /\ st1[e] = "none"
                          \/ tk1[e] > 0 /\ st1[e] = "released"
                          \/ tk1[e] > 0 /\ <<st[e], st1[e]>> \in Sitting!Course
                          \/ tk1[e] > 0 /\ st1[e] = st[e]
                    \/ st[e] = "released" /\ st1[e] = "closed" /\ tk1[e] = 1
      <4>1. /\ st[e] = SittingStage(db, e) /\ st1[e] = SittingStage(db', e)
            /\ tk[e] = Taken(db, e) /\ tk1[e] = Taken(db', e)
        BY DEF Taken
      <4>2. SatAt(db, db', e, to) /\ InLine(db) /\ e \in Exams
        BY <1>2, <2>3 DEF Handled, AttemptsInLine, SatOnce
      <4>3. SittingStage(db', e) \in Sitting!Stages /\ Taken(db', e) \in Nat
        BY <4>2, TakenType
      <4> HIDE DEF st, st1, tk, tk1
      <4> QED BY <4>1, <4>2, <4>3, SatIsSitting
    <3>2. st1 \in [SatOnce -> Sitting!Stages] /\ tk1 \in [SatOnce -> Nat]
      BY <3>1
    <3>3. /\ [e \in SatOnce |-> SittingStage(db, e)]' = st1
          /\ [e \in SatOnce |-> Cardinality(Live(db, e))]' = tk1
      BY <2>1
    <3> HIDE DEF st1, tk1
    <3> QED
      BY <3>1, <3>2, <3>3
      DEF Sitting!SittingNext, Sitting!Rest, Sitting!Begin, Sitting!Proceed,
          Sitting!Withdraw, Sitting!Restart
  <2> QED BY <1>2, <2>2, <2>3, StepHandled
<1>3. AttemptsInLine /\ [Next]_vars =>
        [Sitting!SittingNext]_<<[e \in SatOnce |-> SittingStage(db, e)],
                                [e \in SatOnce |-> Cardinality(Live(db, e))]>>
  <2>1. ASSUME UNCHANGED vars
        PROVE  UNCHANGED <<[e \in SatOnce |-> SittingStage(db, e)],
                           [e \in SatOnce |-> Cardinality(Live(db, e))]>>
    BY <2>1 DEF vars, SittingStage, HasAttempt, Latest, Live
  <2> QED BY <1>2, <2>1
<1> QED
  BY <1>1, <1>3, AlwaysInLine, PTL DEF Spec, ImplementsSitting, Sitting!SittingSpec
=============================================================================
