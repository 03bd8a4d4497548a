------------------------- MODULE OnboardingPanels -------------------------
(***************************************************************************)
(* Where a learner stands with onboarding, as the course home tells the    *)
(* learner and as the instructor dashboard tells the course team.  Both    *)
(* are computed from the attempts at the onboarding exam, each in its own  *)
(* way, most recently modified first, and neither reads an attempt through *)
(* the api: an attempt that is out of time stays as it is.                 *)
(* One onboarding exam; the profile api of the backend, which replaces     *)
(* these answers where it is switched on, is left out.                     *)
(***************************************************************************)
EXTENDS StudentView, SequencesExt

CONSTANT Onboarding   \* the onboarding exam of the course

ASSUME OnboardingAssumption ==
  Onboarding \in Exams /\ Kind[Onboarding] = "practice" /\ SupportsOnboarding

VARIABLES
  recent,    \* its attempts, the most recently modified first
  approved   \* there is a verified attempt in another course, not yet lapsed

panelVars == <<db, pastDue, recent, approved>>

PanelTypeOK ==
  /\ TypeOK
  /\ recent \in Seq(Slots)
  /\ {recent[k] : k \in DOMAIN recent} = Live(db, Onboarding)
  /\ approved \in BOOLEAN

-----------------------------------------------------------------------------
(* What the two panels make of the attempts.                               *)

Onboardings(i) == db.att[Onboarding][i]

(* Those of a sequence that are in S, in their order.                      *)
Kept(seq, S) ==
  FoldLeft(LAMBDA kept, i : IF i \in S THEN Append(kept, i) ELSE kept, << >>, seq)

(* Mutant of PracticeAttempts: declined attempts are counted.              *)
AllPracticeAttempts == Kept(recent, Live(db, Onboarding))

(* get_proctored_practice_attempts_by_course_id: a declined attempt is not *)
(* taken as proctored any more.                                            *)
PracticeAttempts == Kept(recent, {i \in Slots : Onboardings(i).proctored})

Verified(i) == Onboardings(i).status = "verified"

IsReset(i) == Onboardings(i).status = "onboarding_reset"

InThisCourse == {i \in Slots : \E k \in DOMAIN PracticeAttempts : PracticeAttempts[k] = i}

(* get_onboarding_attempt_data_for_learner *)
LearnerPanel ==
  IF \E i \in InThisCourse : Verified(i) THEN "verified"
  ELSE IF approved THEN "other_course_approved"
  ELSE IF PracticeAttempts # << >> THEN Onboardings(Head(PracticeAttempts)).status
  ELSE "not_started"

(* Mutant of Relevant: a verified attempt has no precedence.               *)
RelevantNewest(kept, i) == IF IsReset(kept) /\ kept < i THEN i ELSE kept

(* Of two attempts, the later one in the list is taken only if it is       *)
(* verified, or if the other one was reset before it was made.             *)
Relevant(kept, i) == IF Verified(i) \/ (IsReset(kept) /\ kept < i) THEN i ELSE kept

RelevantAttempt ==
  FoldLeft(Relevant, Head(PracticeAttempts), Tail(PracticeAttempts))

(* onboarding_statuses *)
Shown(status) ==
  CASE status \in {"created", "download_software_clicked", "ready_to_start"} -> "setup_started"
    [] status \in {"started", "ready_to_submit"} -> "onboarding_started"
    [] status \in {"submitted", "rejected", "verified", "error", "expired"} -> status
    [] status = "onboarding_reset" -> "onboarding_reset_past_due"
    [] status \in {"not_started", "other_course_approved"} -> status
    [] OTHER -> "blank"

InstructorPanel ==
  IF PracticeAttempts = << >>
  THEN IF approved THEN "other_course_approved" ELSE "not_started"
  ELSE IF approved /\ ~ Verified(RelevantAttempt) THEN "other_course_approved"
  ELSE Shown(Onboardings(RelevantAttempt).status)

-----------------------------------------------------------------------------
(* The order of the rows by `modified' follows from what a step saves: of  *)
(* the attempts one request saves, the new one is saved last.              *)

Saves == {i \in Live(db', Onboarding) : db'.att[Onboarding][i] # db.att[Onboarding][i]}

NewestFirst(S) == [k \in 1 .. Cardinality(S) |->
  CHOOSE i \in S : Cardinality({j \in S : j >= i}) = k]

Modified ==
  recent' = NewestFirst(Saves) \o
            Kept(recent, Live(db', Onboarding) \ Saves)

(* A save that changes nothing here: staff save the attempt in the admin,  *)
(* a command sets the status it has, the learner acknowledges a result.    *)
Resave(i) ==
  /\ i \in Live(db, Onboarding)
  /\ recent' = <<i>> \o Kept(recent, Slots \ {i})
  /\ UNCHANGED <<db, pastDue, approved>>

(* Another course's onboarding is verified; its two years are over.        *)
ApprovedElsewhere == approved' = ~ approved /\ UNCHANGED <<db, pastDue, recent>>

PanelInit == Init /\ recent = << >> /\ approved = FALSE

PanelNext ==
  \/ StudentNext /\ Modified /\ UNCHANGED approved
  \/ \E i \in Slots : Resave(i)
  \/ ApprovedElsewhere

PanelSpec == PanelInit /\ [][PanelNext]_panelVars

-----------------------------------------------------------------------------
(* Properties.                                                             *)

(* The course team and the learner are told the same: the two panels pick  *)
(* the attempt that counts in two different ways, from a list that saves,  *)
(* removals and resets have put in any order, and agree but for a reset    *)
(* attempt, which only the dashboard tries to look past.                   *)
PanelsAgree ==
  LearnerPanel # "onboarding_reset" => InstructorPanel = Shown(LearnerPanel)

(* The dashboard has a word for every state onboarding can be in, but for  *)
(* those the proctoring service brings in itself: an attempt that was      *)
(* declined, by the learner or in a cascade, is not counted, and whatever  *)
(* else happens to the attempts leads to a state that has a word.          *)
NeverBlank ==
  InstructorPanel = "blank" =>
    Onboardings(RelevantAttempt).status \in OnboardingErrors \cup {"second_review_required"}
=============================================================================
