------------------------ MODULE OnboardingPanels_proofs ------------------------
(***************************************************************************)
(* Proofs about OnboardingPanels.  The panels loop over a list; what a     *)
(* loop makes of a list is shown by induction over the positions that have *)
(* been visited.  The two panels agree in whatever order the attempts are  *)
(* listed; the dashboard has a word for every onboarding attempt because   *)
(* no request or staff action leads to a state without one.                *)
(***************************************************************************)
EXTENDS OnboardingPanels, StudentView_proofs

-----------------------------------------------------------------------------
(* What the two panels make of the list.                                   *)

(* Kept is such a loop: it keeps those that are in S, and nothing else.    *)
LEMMA KeptKeeps ==
  ASSUME NEW X, NEW seq \in Seq(X), NEW S
  PROVE  /\ Kept(seq, S) \in Seq(X)
         /\ ToSet(Kept(seq, S)) = ToSet(seq) \cap S
<1> DEFINE D == DOMAIN seq
           step(kept, i) == IF i \in S THEN Append(kept, i) ELSE kept
           F == [p \in Seq(X) \X X |-> step(p[1], p[2])]
           keeps(g) == g = [A \in SUBSET D |->
                              IF A = {} THEN << >>
                              ELSE step(g[A \ {LastOf(A)}], seq[LastOf(A)])]
           h == CHOOSE g : keeps(g)
           in(A) == {seq[k] : k \in A} \cap S
           G == {A \in SUBSET D : h[A] \in Seq(X) /\ ToSet(h[A]) = in(A)}
<1>1. Kept(seq, S) = h[D]
  BY DEF Kept, FoldLeft, MapThenFoldSet, LastOf, Max
<1>2. keeps(h)
  <2>1. F \in [Seq(X) \X X -> Seq(X)] /\ << >> \in Seq(X) /\ D \in SUBSET D
    BY AppendProperties, EmptySeq
  <2> HIDE DEF F
  <2>2. PICK g \in [SUBSET D -> Seq(X)] : Loops(g, D, seq, << >>, F)
    BY <2>1, LoopsExist
  <2>3. ASSUME NEW A \in SUBSET D, A # {}
        PROVE  F[<<g[A \ {LastOf(A)}], seq[LastOf(A)]>>]
                 = step(g[A \ {LastOf(A)}], seq[LastOf(A)])
    <3>1. g[A \ {LastOf(A)}] \in Seq(X) /\ seq[LastOf(A)] \in X
      BY <2>2, <2>3, LastIn
    <3> HIDE DEF step
    <3> QED BY <3>1 DEF F
  <2>4. keeps(g)
    <3> HIDE DEF step
    <3> QED BY <2>2, <2>3 DEF Loops
  <2> HIDE DEF keeps
  <2> QED BY <2>4
<1> HIDE DEF h, F
<1>3. ASSUME NEW A \in SUBSET D, \A B \in SUBSET A : B # A => B \in G
      PROVE  h[A] \in Seq(X) /\ ToSet(h[A]) = in(A)
  <2>1. CASE A = {}
    <3>1. h[A] = << >> /\ in(A) = {}
      BY <1>2, <2>1
    <3> QED BY <3>1, EmptySeq DEF ToSet
  <2>2. CASE A # {}
    <3> DEFINE B == A \ {LastOf(A)}
               i == seq[LastOf(A)]
               b == h[B]
    <3>1. LastOf(A) \in A /\ i \in X
      BY <2>2, LastIn
    <3>2. B \in G /\ in(A) = in(B) \cup ({i} \cap S)
      BY <1>3, <3>1
    <3>3. h[A] = step(b, i)
      BY <1>2, <2>2
    <3>4. b \in Seq(X) /\ ToSet(b) = in(B)
      BY <3>2
    <3> HIDE DEF B, i, b, in
    <3>5. ToSet(Append(b, i)) = ToSet(b) \cup {i}
      <4>1. /\ DOMAIN b = 1 .. Len(b) /\ Len(b) \in Nat
            /\ DOMAIN Append(b, i) = 1 .. (Len(b) + 1)
            /\ \A k \in 1 .. Len(b) : Append(b, i)[k] = b[k]
            /\ Append(b, i)[Len(b) + 1] = i
        BY <3>1, <3>4, AppendProperties, LenProperties
      <4>2. 1 .. (Len(b) + 1) = (1 .. Len(b)) \cup {Len(b) + 1}
        BY <4>1
      <4> QED BY <4>1, <4>2 DEF ToSet
    <3>6. Append(b, i) \in Seq(X)
      BY <3>1, <3>4, AppendProperties
    <3>7. CASE i \in S
      <4>1. h[A] = Append(b, i) /\ in(A) = in(B) \cup {i}
        BY <3>2, <3>3, <3>7
      <4> QED BY <3>4, <3>5, <3>6, <4>1
    <3>8. CASE i \notin S
      <4>1. h[A] = b /\ in(A) = in(B)
        BY <3>2, <3>3, <3>8
      <4> QED BY <3>4, <4>1
    <3> QED BY <3>7, <3>8
  <2> QED BY <2>1, <2>2
<1>4. IsFiniteSet(D) /\ D \in SUBSET D
  BY LenProperties, FS_Interval
<1>5. \A A \in SUBSET D : (\A B \in SUBSET A : B # A => B \in G) => A \in G
  BY <1>3
<1>6. h[D] \in Seq(X) /\ ToSet(h[D]) = in(D)
  <2> HIDE DEF G
  <2>1. D \in G
    BY <1>4, <1>5, SubsetInduction
  <2> QED BY <2>1 DEF G
<1> QED
  BY <1>1, <1>6 DEF ToSet

(* Of the attempts a learner has made the relevant one is verified if any  *)
(* of them is, and else the first, unless that has been reset.             *)
LEMMA RelevantIs ==
  ASSUME NEW base \in Slots, NEW seq \in Seq(Slots)
  PROVE  LET r   == FoldLeft(Relevant, base, seq)
             all == {base} \cup ToSet(seq)
         IN /\ r \in all
            /\ (\E i \in all : Verified(i)) => Verified(r)
            /\ (\A i \in all : ~ Verified(i)) /\ ~ IsReset(base) => r = base
<1> DEFINE D == DOMAIN seq
           F == [p \in Slots \X Slots |-> Relevant(p[1], p[2])]
           picks(g) == g = [A \in SUBSET D |->
                              IF A = {} THEN base
                              ELSE Relevant(g[A \ {LastOf(A)}], seq[LastOf(A)])]
           h == CHOOSE g : picks(g)
           all(A) == {base} \cup {seq[k] : k \in A}
           fine(A) ==
             /\ h[A] \in all(A)
             /\ (\E i \in all(A) : Verified(i)) => Verified(h[A])
             /\ (\A i \in all(A) : ~ Verified(i)) /\ ~ IsReset(base) => h[A] = base
           G == {A \in SUBSET D : fine(A)}
<1>1. FoldLeft(Relevant, base, seq) = h[D]
  BY DEF FoldLeft, MapThenFoldSet, LastOf, Max
<1>2. picks(h)
  <2>1. F \in [Slots \X Slots -> Slots] /\ D \in SUBSET D
    BY DEF Relevant
  <2> HIDE DEF F
  <2>2. PICK g \in [SUBSET D -> Slots] : Loops(g, D, seq, base, F)
    BY <2>1, LoopsExist
  <2>3. ASSUME NEW A \in SUBSET D, A # {}
        PROVE  F[<<g[A \ {LastOf(A)}], seq[LastOf(A)]>>]
                 = Relevant(g[A \ {LastOf(A)}], seq[LastOf(A)])
    <3>1. g[A \ {LastOf(A)}] \in Slots /\ seq[LastOf(A)] \in Slots
      BY <2>2, <2>3, LastIn
    <3> QED BY <3>1 DEF F
  <2>4. picks(g)
    BY <2>2, <2>3 DEF Loops
  <2> HIDE DEF picks
  <2> QED BY <2>4
<1> HIDE DEF h, F
<1>3. ASSUME NEW A \in SUBSET D, \A B \in SUBSET A : B # A => B \in G
      PROVE  fine(A)
  <2>1. CASE A = {}
    <3>1. h[A] = base /\ all(A) = {base}
      BY <1>2, <2>1
    <3> QED BY <3>1
  <2>2. CASE A # {}
    <3> DEFINE B == A \ {LastOf(A)}
               i == seq[LastOf(A)]
               b == h[B]
    <3>1. LastOf(A) \in A
      BY <2>2, LastIn
    <3>2. fine(B) /\ all(A) = all(B) \cup {i}
      BY <1>3, <3>1
    <3>3. h[A] = Relevant(b, i)
      BY <1>2, <2>2
    <3> HIDE DEF B, i, all
    <3>4. h[A] = IF Verified(i) \/ (IsReset(b) /\ b < i) THEN i ELSE b
      BY <3>3 DEF Relevant
    <3>5. Verified(b) => ~ IsReset(b)
      BY DEF Verified, IsReset
    <3> QED BY <3>2, <3>4, <3>5
  <2> QED BY <2>1, <2>2
<1>4. IsFiniteSet(D) /\ D \in SUBSET D
  BY LenProperties, FS_Interval
<1>5. \A A \in SUBSET D : (\A B \in SUBSET A : B # A => B \in G) => A \in G
  BY <1>3
<1>6. fine(D)
  <2> HIDE DEF G, fine
  <2>1. D \in G
    BY <1>4, <1>5, SubsetInduction
  <2> QED BY <2>1 DEF G
<1> QED
  BY <1>1, <1>6 DEF ToSet

(* A list is its head and its tail.                                        *)
LEMMA HeadAndTail ==
  ASSUME NEW X, NEW P \in Seq(X), P # << >>
  PROVE  /\ Head(P) \in X /\ Tail(P) \in Seq(X)
         /\ ToSet(P) = {Head(P)} \cup ToSet(Tail(P))
<1>1. Head(P) \in X /\ Tail(P) \in Seq(X)
  BY HeadTailProperties
<1>2. /\ Len(P) \in Nat \ {0} /\ DOMAIN P = 1 .. Len(P)
      /\ Head(P) = P[1]
      /\ DOMAIN Tail(P) = 1 .. (Len(P) - 1)
      /\ \A k \in 1 .. (Len(P) - 1) : Tail(P)[k] = P[k + 1]
  BY <1>1, HeadTailProperties, LenProperties, EmptySeq
<1>3. \A k \in 1 .. Len(P) : k = 1 \/ k - 1 \in 1 .. (Len(P) - 1)
  BY <1>2
<1>4. ASSUME NEW k \in 1 .. Len(P) PROVE P[k] \in {Head(P)} \cup ToSet(Tail(P))
  <2>1. CASE k = 1
    BY <1>2, <2>1
  <2>2. CASE k # 1
    <3>1. k - 1 \in DOMAIN Tail(P) /\ Tail(P)[k - 1] = P[k]
      BY <1>2, <1>3, <2>2
    <3> QED BY <3>1 DEF ToSet
  <2> QED BY <2>1, <2>2
<1>5. 1 \in DOMAIN P /\ \A k \in 1 .. (Len(P) - 1) : k + 1 \in DOMAIN P
  BY <1>2
<1> QED
  BY <1>1, <1>2, <1>4, <1>5 DEF ToSet

(* In every state the two panels agree.                                    *)
LEMMA PanelsTellTheSame == recent \in Seq(Slots) => PanelsAgree
<1> SUFFICES ASSUME recent \in Seq(Slots), LearnerPanel # "onboarding_reset"
             PROVE  InstructorPanel = Shown(LearnerPanel)
  BY DEF PanelsAgree
<1> DEFINE P == PracticeAttempts
           r == RelevantAttempt
<1>1. P \in Seq(Slots)
  BY KeptKeeps DEF PracticeAttempts
<1>2. InThisCourse = ToSet(P)
  <2>1. \A k \in DOMAIN P : P[k] \in Slots
    BY <1>1, ElementOfSeq, LenProperties
  <2> QED BY <2>1 DEF InThisCourse, ToSet
<1>3. /\ Shown("not_started") = "not_started"
      /\ Shown("other_course_approved") = "other_course_approved"
      /\ Shown("verified") = "verified"
  BY DEF Shown
<1>4. CASE P = << >>
  <2>1. InThisCourse = {}
    BY <1>2, <1>4, EmptySeq DEF ToSet
  <2> QED BY <1>3, <1>4, <2>1 DEF LearnerPanel, InstructorPanel
<1>5. CASE P # << >>
  <2>1. Head(P) \in Slots /\ Tail(P) \in Seq(Slots) /\ ToSet(P) = {Head(P)} \cup ToSet(Tail(P))
    BY <1>1, <1>5, HeadAndTail
  <2>2. /\ (\E i \in InThisCourse : Verified(i)) => Verified(r)
        /\ r \in InThisCourse
        /\ (\A i \in InThisCourse : ~ Verified(i)) /\ ~ IsReset(Head(P)) => r = Head(P)
    BY <1>2, <2>1, RelevantIs DEF RelevantAttempt
  <2> HIDE DEF P, r
  <2>3. InstructorPanel = IF approved /\ ~ Verified(r) THEN "other_course_approved"
                          ELSE Shown(Onboardings(r).status)
    BY <1>5 DEF InstructorPanel, P, r
  <2>4. CASE \E i \in InThisCourse : Verified(i)
    BY <1>3, <2>2, <2>3, <2>4 DEF LearnerPanel, Verified
  <2>5. CASE (\A i \in InThisCourse : ~ Verified(i)) /\ approved
    BY <1>3, <2>2, <2>3, <2>5 DEF LearnerPanel
  <2>6. CASE (\A i \in InThisCourse : ~ Verified(i)) /\ ~ approved
    <3>1. LearnerPanel = Onboardings(Head(P)).status
      BY <1>5, <2>6 DEF LearnerPanel, P
    <3>2. r = Head(P)
      BY <2>2, <2>6, <3>1 DEF IsReset
    <3> QED BY <2>3, <2>6, <3>1, <3>2
  <2> QED BY <2>4, <2>5, <2>6
<1> QED
  BY <1>4, <1>5

-----------------------------------------------------------------------------
(* The list.                                                               *)

(* The attempts that a step saves are put in front, the last one first.    *)
LEMMA NewestFirstLists ==
  ASSUME NEW S \in SUBSET Slots
  PROVE  NewestFirst(S) \in Seq(Slots) /\ ToSet(NewestFirst(S)) = S
<1> DEFINE n == Cardinality(S)
           from(i) == {j \in S : j >= i}
           rank == [i \in S |-> Cardinality(from(i))]
           list == NewestFirst(S)
<1>1. IsFiniteSet(S) /\ n \in Nat /\ S \subseteq Nat
  <2>1. IsFiniteSet(Slots) /\ Slots \subseteq Nat
    BY ConstantsAssumption, FS_Interval DEF Slots
  <2> QED BY <2>1, FS_Subset, FS_CardinalityType
<1>2. \A i \in S : /\ from(i) \in SUBSET S /\ i \in from(i)
                   /\ IsFiniteSet(from(i)) /\ Cardinality(from(i)) \in 1 .. n
  <2> SUFFICES ASSUME NEW i \in S
               PROVE  /\ from(i) \in SUBSET S /\ i \in from(i)
                      /\ IsFiniteSet(from(i)) /\ Cardinality(from(i)) \in 1 .. n
    OBVIOUS
  <2> DEFINE A == from(i)
  <2>1. A \in SUBSET S /\ i \in A
    BY <1>1
  <2> HIDE DEF A
  <2>2. IsFiniteSet(A) /\ Cardinality(A) <= n /\ Cardinality(A) \in Nat
    BY <1>1, <2>1, FS_Subset, FS_CardinalityType
  <2>3. Cardinality(A) # 0
    BY <2>1, <2>2, FS_EmptySet
  <2>4. Cardinality(A) \in 1 .. n
    BY <1>1, <2>2, <2>3
  <2> QED BY <2>1, <2>2, <2>4 DEF A
<1>3. \A i, j \in S : rank[i] = rank[j] => i = j
  <2>1. ASSUME NEW i \in S, NEW j \in S, i < j PROVE rank[i] # rank[j]
    <3> DEFINE A == from(i)
               B == from(j)
    <3>1. B \in SUBSET A /\ i \in A /\ i \notin B
      <4>1. i \in Nat /\ j \in Nat /\ \A k \in S : k \in Nat
        BY <1>1
      <4>2. \A k \in S : k >= j => k >= i
        BY <2>1, <4>1
      <4>3. i >= i /\ ~ (i >= j)
        BY <2>1, <4>1
      <4> QED BY <4>2, <4>3
    <3>2. IsFiniteSet(A)
      BY <1>2
    <3>3. rank[i] = Cardinality(A) /\ rank[j] = Cardinality(B)
      OBVIOUS
    <3> HIDE DEF A, B, rank
    <3> QED BY <3>1, <3>2, <3>3, FS_Subset
  <2> HIDE DEF rank
  <2> QED BY <1>1, <2>1
<1>4. rank \in Injection(S, 1 .. n)
  <2>1. rank \in [S -> 1 .. n]
    BY <1>2
  <2> HIDE DEF rank
  <2> QED BY <1>3, <2>1 DEF Injection, IsInjective
<1>5. rank \in Surjection(S, 1 .. n)
  <2>1. IsFiniteSet(1 .. n) /\ Cardinality(1 .. n) = n
    BY <1>1, FS_Interval
  <2> HIDE DEF rank
  <2> QED BY <1>4, <2>1, FS_Injection
<1>6. \A k \in 1 .. n : \E i \in S : rank[i] = k
  <2> HIDE DEF rank
  <2> QED BY <1>5 DEF Surjection
<1>7. list = [k \in 1 .. n |-> CHOOSE i \in S : Cardinality(from(i)) = k]
  BY DEF NewestFirst
<1>8. \A k \in 1 .. n : list[k] \in S /\ rank[list[k]] = k
  <2> SUFFICES ASSUME NEW k \in 1 .. n PROVE list[k] \in S /\ rank[list[k]] = k
    OBVIOUS
  <2>1. PICK i \in S : Cardinality(from(i)) = k
    BY <1>6
  <2>2. list[k] = CHOOSE j \in S : Cardinality(from(j)) = k
    BY <1>7
  <2> HIDE DEF list, from
  <2>3. list[k] \in S /\ Cardinality(from(list[k])) = k
    BY <2>1, <2>2
  <2> QED BY <2>3
<1>9. DOMAIN list = 1 .. n
  BY <1>7
<1> HIDE DEF list, rank
<1>10. \A i \in S : rank[i] \in 1 .. n /\ list[rank[i]] = i
  BY <1>3, <1>4, <1>8 DEF Injection
<1>11. list = [k \in 1 .. n |-> list[k]]
  BY <1>7 DEF list
<1>12. list \in Seq(Slots)
  BY <1>1, <1>8, <1>11, SeqDef
<1>13. ToSet(list) = S
  BY <1>8, <1>9, <1>10 DEF ToSet
<1> QED
  BY <1>12, <1>13 DEF list

(* What is in one sequence after another.                                  *)
LEMMA ToSetConcat ==
  ASSUME NEW X, NEW s \in Seq(X), NEW t \in Seq(X)
  PROVE  s \o t \in Seq(X) /\ ToSet(s \o t) = ToSet(s) \cup ToSet(t)
<1> DEFINE u == s \o t
           m == Len(s)
           n == Len(t)
<1>1. /\ u \in Seq(X) /\ m \in Nat /\ n \in Nat
      /\ DOMAIN s = 1 .. m /\ DOMAIN t = 1 .. n /\ DOMAIN u = 1 .. (m + n)
      /\ \A k \in 1 .. (m + n) : u[k] = IF k <= m THEN s[k] ELSE t[k - m]
  BY ConcatProperties, LenProperties
<1> HIDE DEF u, m, n
<1>2. ASSUME NEW k \in 1 .. (m + n) PROVE u[k] \in ToSet(s) \cup ToSet(t)
  <2>1. CASE k <= m
    <3>1. k \in DOMAIN s /\ u[k] = s[k]
      BY <1>1, <2>1
    <3> QED BY <3>1 DEF ToSet
  <2>2. CASE ~ (k <= m)
    <3>1. k - m \in DOMAIN t /\ u[k] = t[k - m]
      BY <1>1, <2>2
    <3> QED BY <3>1 DEF ToSet
  <2> QED BY <2>1, <2>2
<1>3. ASSUME NEW k \in 1 .. m PROVE s[k] \in ToSet(u)
  <2>1. k \in DOMAIN u /\ u[k] = s[k]
    BY <1>1
  <2> QED BY <2>1 DEF ToSet
<1>4. ASSUME NEW k \in 1 .. n PROVE t[k] \in ToSet(u)
  <2>1. k + m \in DOMAIN u /\ u[k + m] = t[(k + m) - m] /\ (k + m) - m = k
    BY <1>1
  <2> QED BY <2>1 DEF ToSet
<1>5. ToSet(u) = ToSet(s) \cup ToSet(t)
  BY <1>1, <1>2, <1>3, <1>4 DEF ToSet
<1> QED
  BY <1>1, <1>5 DEF u

(* The list always holds the attempts there are.                           *)
PanelList ==
  /\ recent \in Seq(Slots) /\ ToSet(recent) = Live(db, Onboarding)
  /\ approved \in BOOLEAN

(* At first there are none, and the list is empty.                         *)
LEMMA PanelInitList == PanelInit => PanelList
<1> SUFFICES ASSUME PanelInit PROVE PanelList
  OBVIOUS
<1>1. Live(db, Onboarding) = {}
  BY OnboardingAssumption DEF PanelInit, Init, Live, NoRow
<1>2. << >> \in Seq(Slots) /\ ToSet(<< >>) = {}
  BY EmptySeq DEF ToSet
<1> QED
  BY <1>1, <1>2 DEF PanelInit, PanelList

(* A step lists what it saves and keeps what it leaves.                    *)
LEMMA PanelNextList == PanelList /\ [PanelNext]_panelVars => PanelList'
<1> SUFFICES ASSUME PanelList, [PanelNext]_panelVars PROVE PanelList'
  OBVIOUS
<1> USE DEF PanelList
<1> DEFINE L == Live(db, Onboarding)
<1>1. CASE UNCHANGED panelVars
  BY <1>1 DEF panelVars, Live
<1>2. CASE Modified /\ UNCHANGED approved
  <2> DEFINE M == Live(db', Onboarding)
             s == NewestFirst(Saves)
             t == Kept(recent, M \ Saves)
  <2>1. Saves \in SUBSET Slots /\ Saves \subseteq M
    BY DEF Saves, Live
  <2>2. s \in Seq(Slots) /\ ToSet(s) = Saves
    BY <2>1, NewestFirstLists
  <2>3. t \in Seq(Slots) /\ ToSet(t) = ToSet(recent) \cap (M \ Saves)
    BY KeptKeeps
  <2>4. M \ Saves \subseteq L
    BY DEF Saves, Live
  <2>5. recent' = s \o t
    BY <1>2 DEF Modified
  <2> HIDE DEF M, s, t
  <2>6. recent' \in Seq(Slots) /\ ToSet(recent') = ToSet(s) \cup ToSet(t)
    BY <2>2, <2>3, <2>5, ToSetConcat
  <2>7. ToSet(recent') = M
    BY <2>1, <2>2, <2>3, <2>4, <2>6
  <2> QED BY <1>2, <2>6, <2>7 DEF M
<1>3. ASSUME NEW i \in Slots, Resave(i) PROVE PanelList'
  <2> DEFINE s == <<i>>
             t == Kept(recent, Slots \ {i})
  <2>1. s \in Seq(Slots) /\ ToSet(s) = {i}
    BY DEF ToSet
  <2>2. t \in Seq(Slots) /\ ToSet(t) = ToSet(recent) \cap (Slots \ {i})
    BY KeptKeeps
  <2>3. i \in L /\ L \subseteq Slots /\ recent' = s \o t /\ UNCHANGED <<db, approved>>
    BY <1>3 DEF Resave, Live
  <2> HIDE DEF s, t
  <2>4. recent' \in Seq(Slots) /\ ToSet(recent') = {i} \cup ToSet(t)
    BY <2>1, <2>2, <2>3, ToSetConcat
  <2>5. ToSet(recent') = Live(db', Onboarding)
    BY <2>2, <2>3, <2>4
  <2> QED BY <2>3, <2>4, <2>5
<1>4. CASE ApprovedElsewhere
  BY <1>4 DEF ApprovedElsewhere
<1> QED
  BY <1>1, <1>2, <1>3, <1>4 DEF PanelNext

(* The panels only look on.                                                *)
LEMMA PanelsLookOn == PanelSpec => StudentSpec
<1>1. PanelInit => Init
  BY DEF PanelInit
<1>2. [PanelNext]_panelVars => [StudentNext]_vars
  BY DEF PanelNext, Resave, ApprovedElsewhere, panelVars, vars
<1> QED
  BY <1>1, <1>2, PTL DEF PanelSpec, StudentSpec

(* The list of the attempts by their modification lists each attempt at    *)
(* the onboarding exam and no other, whatever is saved and removed.        *)
THEOREM PanelTypeCorrect == PanelSpec => []PanelTypeOK
<1>1. AttemptsInLine /\ PanelList => PanelTypeOK
  <2>1. AttemptsInLine => TypeOK
    BY DEF AttemptsInLine, InLine, Honest, Sound, TypeOK
  <2> QED BY <2>1 DEF PanelList, PanelTypeOK, ToSet
<1> QED
  BY <1>1, PanelsLookOn, VisitsTell, PanelInitList, PanelNextList, PTL DEF PanelSpec

(* Whatever the attempts at the onboarding exam have come to, and in       *)
(* whatever order they were saved: the learner and the course team are     *)
(* told the same.                                                          *)
THEOREM PanelsAlwaysAgree == PanelSpec => []PanelsAgree
<1>1. PanelList => PanelsAgree
  BY PanelsTellTheSame DEF PanelList
<1> QED
  BY <1>1, PanelInitList, PanelNextList, PTL DEF PanelSpec

-----------------------------------------------------------------------------
(* The statuses that leave the dashboard without a word, if staff do not   *)
(* set them: nothing asks for `eligible', and whoever is declined in a     *)
(* practice exam is not counted as proctored any more.                     *)

HasWord(a) == a.status # "eligible" /\ (a.proctored => a.status # "declined")

Worded(d) ==
  /\ Sound(d)
  /\ \A e \in Exams, i \in Slots : Kind[e] = "practice" => HasWord(d.att[e][i])

(* What may be asked of an attempt with no care for proctored.             *)
Unworded == {"declined", "eligible"}

(* Rows that are not in use have a word.                                   *)
LEMMA UnusedRowsWorded == HasWord(NoRow) /\ HasWord(Archived)
  BY DEF HasWord, NoRow, Archived

(* One row is replaced by another that has a word.                         *)
LEMMA WriteRowWorded ==
  ASSUME NEW d, Worded(d), NEW e \in Exams, NEW i, NEW a,
         i \in Slots => RowSound(e, a) /\ (Kind[e] = "practice" => HasWord(a))
  PROVE  Worded(WithRow(d, e, i, a))
<1> DEFINE d1 == WithRow(d, e, i, a)
<1>1. /\ Sound(d1)
      /\ \A f \in Exams, j \in Slots :
           d1.att[f][j] = IF f = e /\ j = i THEN a ELSE d.att[f][j]
  BY WriteRowSound DEF Worded
<1> HIDE DEF d1
<1>2. \A f \in Exams, j \in Slots : Kind[f] = "practice" => HasWord(d1.att[f][j])
  BY <1>1 DEF Worded
<1> QED
  BY <1>1, <1>2 DEF Worded, d1

(* What a change of status makes of the row, and of the others.            *)
LEMMA SaveStatusWrites ==
  ASSUME NEW d, Sound(d), NEW e \in Exams, NEW i, NEW to, CanHave(e, to),
         NEW stamped \in BOOLEAN, NEW instantly \in BOOLEAN,
         i \in Slots =>
           IsLegal(d.att[e][i].status,
                   EffectiveStatus(d.att[e][i].status, to, AllowTimedOut)),
         NEW d1, d1 = SaveStatus(d, e, i, to, stamped, instantly)
  PROVE  /\ Sound(d1) /\ OthersKept(d, d1, e, i)
         /\ i \in Slots => d1.att[e][i].status \in {to, "submitted"}
<1> DEFINE row == Saved(d.att[e][i], to, stamped, instantly)
           w   == WithRow(d, e, i, row)
<1>1. Sound(d1) /\ OthersKept(d, d1, e, i)
  BY SaveStatusSound
<1>2. i \in Slots => RowSound(e, d.att[e][i]) /\ RowSound(e, row)
  BY SavedSound DEF Sound
<1>3. i \in Slots => row.status \in {to, "submitted"}
  <2>1. \A a \in Attempt : Saved(a, to, stamped, instantly).status
                             = EffectiveStatus(a.status, to, AllowTimedOut)
    BY DEF Saved, Attempt
  <2>2. i \in Slots => d.att[e][i] \in Attempt
    BY <1>2 DEF RowSound
  <2> QED BY <2>1, <2>2 DEF EffectiveStatus
<1>4. d1 = Settled(w, e, d.att[e][i].status, row.status)
  BY DEF SaveStatus, WithRow
<1> HIDE DEF row
<1>5. /\ Sound(w)
      /\ \A f \in Exams, j \in Slots :
           w.att[f][j] = IF f = e /\ j = i THEN row ELSE d.att[f][j]
  BY <1>2, WriteRowSound
<1> HIDE DEF w
<1>6. d1.att = w.att
  BY <1>4, <1>5, SettledSound
<1>7. i \in Slots => d1.att[e][i] = row
  BY <1>5, <1>6
<1> QED
  BY <1>1, <1>3, <1>7

(* A change to a status that has a word.                                   *)
LEMMA SaveStatusWorded ==
  ASSUME NEW d, Worded(d), NEW e \in Exams, NEW i, NEW to, CanHave(e, to),
         to \notin Unworded,
         NEW stamped \in BOOLEAN, NEW instantly \in BOOLEAN,
         i \in Slots =>
           IsLegal(d.att[e][i].status,
                   EffectiveStatus(d.att[e][i].status, to, AllowTimedOut))
  PROVE  Worded(SaveStatus(d, e, i, to, stamped, instantly))
<1> DEFINE d1 == SaveStatus(d, e, i, to, stamped, instantly)
<1>1. /\ Sound(d1) /\ OthersKept(d, d1, e, i)
      /\ i \in Slots => d1.att[e][i].status \in {to, "submitted"}
  BY SaveStatusWrites DEF Worded
<1> HIDE DEF d1
<1>2. ASSUME NEW f \in Exams, NEW j \in Slots, Kind[f] = "practice"
      PROVE  HasWord(d1.att[f][j])
  <2>1. CASE f = e /\ j = i
    BY <1>1, <2>1 DEF HasWord, Unworded
  <2>2. CASE f # e \/ j # i
    BY <1>1, <1>2, <2>2 DEF OthersKept, Worded
  <2> QED BY <2>1, <2>2
<1> QED
  BY <1>1, <1>2 DEF Worded, d1

(* Clearing onboarding errors only archives rows.                          *)
LEMMA ClearOnboardingErrorsWorded ==
  ASSUME NEW d, Worded(d), NEW e \in Exams, NEW to
  PROVE  Worded(ClearOnboardingErrors(d, e, to))
<1> DEFINE d1 == ClearOnboardingErrors(d, e, to)
<1>1. Sound(d1) /\ \A f \in Exams, j \in Slots : d1.att[f][j] \in {d.att[f][j], Archived}
  BY ClearOnboardingErrorsSound DEF Worded
<1> HIDE DEF d1
<1>2. \A f \in Exams, j \in Slots : Kind[f] = "practice" => HasWord(d1.att[f][j])
  BY <1>1, UnusedRowsWorded DEF Worded
<1> QED
  BY <1>1, <1>2 DEF Worded, d1

(* A read only ever times out.                                             *)
LEMMA ReadWorded ==
  ASSUME NEW d, Worded(d), NEW e \in Exams, NEW i
  PROVE  Worded(Read(d, e, i))
<1>1. CASE ~ Overdue(d.att[e][i])
  BY <1>1 DEF Read
<1>2. CASE Overdue(d.att[e][i])
  <2> DEFINE d1  == SaveStatus(d, e, i, "timed_out", TRUE, FALSE)
  <2>1. Read(d, e, i) = ClearOnboardingErrors(d1, e, "submitted")
    BY <1>2 DEF Read
  <2>2. CanHave(e, "timed_out") /\ "timed_out" \in Completed /\ "timed_out" \notin Unworded
    BY DEF CanHave, Status, ValidStatus, Completed, Unworded
  <2>3. IsLegal(d.att[e][i].status,
                EffectiveStatus(d.att[e][i].status, "timed_out", AllowTimedOut))
    BY <2>2, EndingIsLegal
  <2>4. ASSUME NEW s \in BOOLEAN, NEW n \in BOOLEAN
        PROVE  Worded(SaveStatus(d, e, i, "timed_out", s, n))
    BY <2>2, <2>3, SaveStatusWorded
  <2>5. Worded(d1)
    BY <2>4, Zenon
  <2> HIDE DEF d1
  <2> QED BY <2>1, <2>5, ClearOnboardingErrorsWorded
<1> QED
  BY <1>1, <1>2

(* A new attempt is created, or has the error of its registration.         *)
LEMMA NewAttemptWorded ==
  ASSUME NEW d, Worded(d), NEW e \in Exams, NEW status, CanHave(e, status),
         status \in {"created"} \cup RegistrationErrors, NEW proctored \in BOOLEAN
  PROVE  Worded(NewAttempt(d, e, status, proctored))
<1> DEFINE row == [NoRow EXCEPT
                     !.row = "live", !.status = status, !.proctored = proctored,
                     !.registered = proctored /\ status = "created"]
<1>1. NewAttempt(d, e, status, proctored) = WithRow(d, e, FreshSlot(d, e), row)
  BY DEF NewAttempt, WithRow
<1>2. RowSound(e, row)
  BY ConstantsAssumption
  DEF RowSound, CanHave, NoRow, Attempt, InResumeProcess, OnboardingErrors
<1>3. row.status = status
  BY DEF NoRow
<1> HIDE DEF row
<1>4. HasWord(row)
  BY <1>3, ConstantsAssumption DEF HasWord, OnboardingErrors
<1> QED
  BY <1>1, <1>2, <1>4, WriteRowWorded

(* The current attempt is read when the time allowed is worked out.        *)
LEMMA AllowedTimeReadWorded ==
  ASSUME NEW d, Worded(d), NEW e \in Exams
  PROVE  Worded(AllowedTimeRead(d, e))
  BY ReadWorded DEF AllowedTimeRead

(* The cascade declines proctored exams only.                              *)
LEMMA CascadeWorded ==
  ASSUME NEW d, Worded(d), NEW e \in Exams
  PROVE  Worded(Cascade(d, e))
<1> DEFINE visited(f) == IF f \in OtherProctored(e) THEN DeclinedToo(d, f) ELSE d
<1>1. Cascade(d, e).att = [f \in Exams |-> visited(f).att[f]]
  BY DEF Cascade
<1>2. \A f \in Exams : Kind[f] = "practice" => visited(f) = d
  BY DEF OtherProctored
<1>3. Sound(Cascade(d, e))
  BY CascadeSound DEF Worded
<1> HIDE DEF visited
<1>4. \A f \in Exams, j \in Slots :
        Kind[f] = "practice" => Cascade(d, e).att[f][j] = d.att[f][j]
  BY <1>1, <1>2
<1> QED
  BY <1>3, <1>4 DEF Worded

(* update_attempt_status.  A practice attempt that is declined is          *)
(* withdrawn, as such a change may always go on to its consequences.       *)
LEMMA UpdateWorded ==
  ASSUME NEW d, Worded(d), NEW e \in Exams, NEW i, NEW to, CanHave(e, to),
         Kind[e] = "practice" => to # "eligible", NEW instantly \in BOOLEAN
  PROVE  Worded(Update(d, e, i, to, instantly))
<1> DEFINE from == d.att[e][i].status
           new  == EffectiveStatus(from, to, AllowTimedOut)
           d0   == IF new = "started" /\ ~ d.att[e][i].started
                   THEN AllowedTimeRead(d, e) ELSE d
           d1   == SaveStatus(d0, e, i, to, FALSE, instantly)
           dc   == Withdrawn(d1, e, i)
           d2   == IF /\ new \in CascadableFailure
                      /\ CanUpdateCreditGradesAndEmail(d1, e, new)
                   THEN Cascade(dc, e) ELSE d1
<1>1. CASE ~ IsLegal(from, new)
  BY <1>1 DEF Update
<1>2. CASE IsLegal(from, new)
  <2>1. Update(d, e, i, to, instantly)
          = ClearOnboardingErrors(Read(d2, e, i), e, new)
    BY <1>2 DEF Update
  <2>2. Worded(d0)
    BY AllowedTimeReadWorded
  <2>3. ASSUME i \in Slots
        PROVE  IsLegal(d0.att[e][i].status,
                       EffectiveStatus(d0.att[e][i].status, to, AllowTimedOut))
    BY <1>2, <2>3, AllowedTimeKeepsLegal DEF Worded
  <2>4. /\ Sound(d1) /\ OthersKept(d0, d1, e, i)
        /\ i \in Slots => d1.att[e][i].status \in {to, "submitted"}
    <3> DEFINE wrote(x) ==
          /\ Sound(x) /\ OthersKept(d0, x, e, i)
          /\ i \in Slots => x.att[e][i].status \in {to, "submitted"}
    <3> HIDE DEF d0
    <3>1. ASSUME NEW s \in BOOLEAN
          PROVE  wrote(SaveStatus(d0, e, i, to, s, instantly))
      BY <2>2, <2>3, SaveStatusWrites DEF Worded
    <3> HIDE DEF wrote
    <3>2. wrote(d1)
      BY <3>1, Zenon
    <3> QED BY <3>2 DEF wrote
  <2>5. to = "declined" => new = "declined"
    BY DEF EffectiveStatus, IsReattempting, PreStarted
  <2> HIDE DEF d0, d1, new
  <2>6. Worded(dc)
    <3> DEFINE row == [d1.att[e][i] EXCEPT !.proctored = FALSE,
                                           !.registered = FALSE]
    <3>1. dc = WithRow(d1, e, i, row)
      BY DEF WithRow, Withdrawn
    <3>2. ASSUME i \in Slots
          PROVE  RowSound(e, row) /\ (Kind[e] = "practice" => HasWord(row))
      <4>1. RowSound(e, d1.att[e][i])
        BY <2>4, <3>2 DEF Sound
      <4>2. RowSound(e, row)
        BY <4>1, WithdrawnSound
      <4>3. row.status = d1.att[e][i].status /\ ~ row.proctored
        BY <4>1 DEF RowSound, Attempt
      <4>4. Kind[e] = "practice" => row.status # "eligible"
        BY <2>4, <3>2, <4>3
      <4> QED BY <4>2, <4>3, <4>4 DEF HasWord
    <3> HIDE DEF row
    <3>3. /\ Sound(dc)
          /\ \A f \in Exams, j \in Slots :
               dc.att[f][j] = IF f = e /\ j = i THEN row ELSE d1.att[f][j]
      BY <2>4, <3>1, <3>2, WriteRowSound
    <3> HIDE DEF dc
    <3>4. ASSUME NEW f \in Exams, NEW j \in Slots, Kind[f] = "practice"
          PROVE  HasWord(dc.att[f][j])
      <4>1. CASE f = e /\ j = i
        BY <3>2, <3>3, <3>4, <4>1
      <4>2. CASE f # e \/ j # i
        BY <2>2, <2>4, <3>3, <3>4, <4>2 DEF OthersKept, Worded
      <4> QED BY <4>1, <4>2
    <3> QED BY <3>3, <3>4 DEF Worded
  <2> HIDE DEF dc
  <2>7. CASE d2 = Cascade(dc, e)
    BY <2>1, <2>6, <2>7, CascadeWorded, ReadWorded, ClearOnboardingErrorsWorded
  <2>8. CASE d2 # Cascade(dc, e)
    <3>1. d2 = d1
      BY <2>8
    <3>2. Kind[e] = "practice" => to # "declined"
      BY <2>5, <2>8 DEF CascadableFailure, CanUpdateCreditGradesAndEmail
    <3>3. ASSUME NEW f \in Exams, NEW j \in Slots, Kind[f] = "practice"
          PROVE  HasWord(d1.att[f][j])
      <4>1. CASE f = e /\ j = i
        BY <2>4, <3>2, <3>3, <4>1 DEF HasWord
      <4>2. CASE f # e \/ j # i
        BY <2>2, <2>4, <3>3, <4>2 DEF OthersKept, Worded
      <4> QED BY <4>1, <4>2
    <3>4. Worded(d2)
      BY <2>4, <3>1, <3>3 DEF Worded
    <3> HIDE DEF d2
    <3> QED BY <2>1, <3>4, ReadWorded, ClearOnboardingErrorsWorded
  <2> QED BY <2>7, <2>8
<1> QED
  BY <1>1, <1>2

(* Every status change that does not start the clock.                      *)
LEMMA PlainUpdateWorded ==
  ASSUME NEW d, Worded(d), NEW e \in Exams, NEW i, NEW to, CanHave(e, to),
         Kind[e] = "practice" => to # "eligible"
  PROVE  Worded(Update(d, e, i, to, FALSE))
<1>1. ASSUME NEW instantly \in BOOLEAN
      PROVE  Worded(Update(d, e, i, to, instantly))
  BY UpdateWorded
<1> QED
  BY <1>1, Zenon

(* Declining an exam.                                                      *)
LEMMA DeclinedWorded ==
  ASSUME NEW d, Worded(d), NEW e \in Exams, NEW i
  PROVE  Worded(Update(d, e, i, "declined", FALSE))
<1>1. CanHave(e, "declined")
  BY ValidCanHave DEF ValidStatus, Completed
<1> QED
  BY <1>1, PlainUpdateWorded

(* Marking an attempt as resumed leaves its status.                        *)
LEMMA MarkedResumedWorded ==
  ASSUME NEW d, Worded(d), NEW e \in Exams
  PROVE  Worded(MarkedResumed(d, e))
<1> DEFINE i   == Latest(d, e)
           a   == d.att[e][i]
           row == [a EXCEPT !.resumed = TRUE, !.resumable = FALSE]
<1>1. CASE HasAttempt(d, e) /\ InResumeProcess(a)
  <2>1. MarkedResumed(d, e) = WithRow(d, e, i, row)
    BY <1>1 DEF MarkedResumed, WithRow
  <2>2. i \in Slots /\ RowSound(e, a) /\ (Kind[e] = "practice" => HasWord(a))
    BY <1>1, LatestIsLive DEF Worded, Sound
  <2>3. \A x : RowSound(e, x) /\ InResumeProcess(x) =>
          RowSound(e, [x EXCEPT !.resumed = TRUE, !.resumable = FALSE])
    BY DEF RowSound, Attempt, InResumeProcess
  <2>4. row.status = a.status /\ row.proctored = a.proctored
    BY <2>2 DEF RowSound, Attempt
  <2>5. RowSound(e, row)
    BY <1>1, <2>2, <2>3
  <2> HIDE DEF i, row, a
  <2>6. Kind[e] = "practice" => HasWord(row)
    BY <2>2, <2>4 DEF HasWord
  <2> QED BY <2>1, <2>5, <2>6, WriteRowWorded
<1>2. CASE ~ (HasAttempt(d, e) /\ InResumeProcess(a))
  BY <1>2 DEF MarkedResumed
<1> QED
  BY <1>1, <1>2

(* The status of a new attempt is what its registration answers.           *)
LEMMA CreateAttemptWorded ==
  ASSUME NEW d, Worded(d), NEW e \in Exams, NEW proctored \in BOOLEAN,
         NEW outcome \in Outcomes(e, proctored)
  PROVE  Worded(CreateAttempt(d, e, proctored, outcome))
<1> DEFINE d1 == MarkedResumed(d, e)
           d2 == IF proctored THEN AllowedTimeRead(d1, e) ELSE d1
<1>1. Worded(d1)
  BY MarkedResumedWorded
<1> HIDE DEF d1
<1>2. Worded(d2)
  BY <1>1, AllowedTimeReadWorded
<1>3. \/ proctored /\ outcome = "refused"
      \/ CanHave(e, outcome) /\ outcome \in {"created"} \cup RegistrationErrors
  BY ConstantsAssumption
  DEF Outcomes, CanHave, Status, ValidStatus, Completed, OnboardingErrors,
      Incomplete, PreStarted
<1>4. CreateAttempt(d, e, proctored, outcome) =
        IF ~ MayCreate(d, e) THEN d
        ELSE IF proctored /\ e \in pastDue THEN d1
        ELSE IF proctored /\ outcome = "refused" THEN d2
        ELSE NewAttempt(d2, e, outcome, proctored)
  BY DEF CreateAttempt, d1
<1> HIDE DEF d2
<1> QED
  BY <1>1, <1>2, <1>3, <1>4, NewAttemptWorded

(* Declining an exam for a prerequisite.                                   *)
LEMMA AutoDeclinedWorded ==
  ASSUME NEW d, Worded(d), NEW e \in Exams
  PROVE  Worded(AutoDeclined(d, e))
<1> DEFINE d1 == CreateAttempt(d, e, FALSE, "created")
<1>1. ASSUME NEW p \in BOOLEAN, ~ p
      PROVE  Worded(CreateAttempt(d, e, p, "created"))
  BY <1>1, CreateAttemptWorded DEF Outcomes
<1>2. Worded(d1)
  BY <1>1, Zenon
<1>3. AutoDeclined(d, e) = Update(d1, e, Latest(d1, e), "declined", FALSE)
  BY DEF AutoDeclined
<1> HIDE DEF d1
<1> QED
  BY <1>2, <1>3, DeclinedWorded

(* Starting the current attempt.                                           *)
LEMMA StartLatestWorded ==
  ASSUME NEW d, Worded(d), NEW e \in Exams, NEW instantly \in BOOLEAN
  PROVE  Worded(StartLatest(d, e, instantly))
<1>1. CanHave(e, "started")
  BY DEF CanHave, Status, ValidStatus, Incomplete, InProgress
<1>2. StartLatest(d, e, instantly)
        \in {d, Update(d, e, Latest(d, e), "started", instantly)}
  BY DEF StartLatest
<1> QED
  BY <1>1, <1>2, UpdateWorded

(* Removing an attempt leaves the other rows as they are.                  *)
LEMMA RemovedWorded ==
  ASSUME NEW d, Worded(d), NEW e \in Exams, NEW i
  PROVE  Worded(Removed(d, e, i))
<1> DEFINE d1 == WithRow(d, e, i, Archived)
           d2 == Removed(d, e, i)
<1>1. Worded(d1)
  BY UnusedRowsSound, UnusedRowsWorded, WriteRowWorded
<1>2. d2.att = d1.att /\ Sound(d2)
  <2>1. Sound(d2)
    BY RemovedSound DEF Worded
  <2>2. d2 = [d1 EXCEPT !.override[e] = FALSE,
                        !.credit[e] = IF d.att[e][i].status \in NeedsCreditUpdate
                                      THEN "none" ELSE @]
    BY DEF Removed, WithRow
  <2> HIDE DEF d1, d2
  <2> QED BY <1>1, <2>1, <2>2 DEF Worded, Sound, Database
<1> HIDE DEF d1, d2
<1> QED
  BY <1>1, <1>2 DEF Worded, d2

(* Resetting a practice exam.                                              *)
LEMMA PracticeResetWorded ==
  ASSUME NEW d, Worded(d), NEW e \in Exams, Kind[e] = "practice",
         NEW outcome \in Outcomes(e, d.att[e][Latest(d, e)].proctored)
  PROVE  Worded(PracticeReset(d, e, outcome))
<1> DEFINE i   == Latest(d, e)
           a   == d.att[e][i]
           row == [a EXCEPT !.status = "onboarding_reset"]
           d1  == IF a.status = "submitted" THEN Removed(d, e, i)
                  ELSE [d EXCEPT !.att[e][i].status = "onboarding_reset"]
<1>1. CASE ~ HasAttempt(d, e)
  BY <1>1 DEF PracticeReset
<1>2. CASE HasAttempt(d, e)
  <2>1. i \in Slots
    BY <1>2, LatestIsLive
  <2>2. RowSound(e, a) /\ a \in Attempt
    BY <2>1 DEF Worded, Sound, RowSound
  <2>3. RowSound(e, row)
    BY <2>2 DEF RowSound, Attempt, InResumeProcess, Status
  <2>4. HasWord(row)
    <3>1. row.status = "onboarding_reset"
      BY <2>2 DEF Attempt
    <3> QED BY <3>1 DEF HasWord
  <2>5. [d EXCEPT !.att[e][i].status = "onboarding_reset"] = WithRow(d, e, i, row)
    BY DEF WithRow
  <2>6. PracticeReset(d, e, outcome)
          \in {d, CreateAttempt(d1, e, a.proctored, outcome)}
    BY DEF PracticeReset
  <2>7. a.proctored \in BOOLEAN /\ outcome \in Outcomes(e, a.proctored)
    BY <2>2 DEF Attempt
  <2> HIDE DEF row
  <2>8. Worded(WithRow(d, e, i, row)) /\ Worded(Removed(d, e, i))
    BY <2>3, <2>4, WriteRowWorded, RemovedWorded
  <2>9. Worded(d1)
    BY <2>5, <2>8
  <2> HIDE DEF a, d1, i
  <2> QED BY <2>6, <2>7, <2>9, CreateAttemptWorded
<1> QED
  BY <1>1, <1>2

(* Entering an exam.                                                       *)
LEMMA PostWorded ==
  ASSUME Worded(db), NEW e \in Exams, NEW proctored \in BOOLEAN,
         NEW startClock \in BOOLEAN, NEW outcome \in Outcomes(e, proctored),
         NEW instantly \in BOOLEAN,
         Post(e, proctored, startClock, outcome, instantly)
  PROVE  Worded(db')
<1> DEFINE d1 == CreateAttempt(db, e, proctored, outcome)
<1>1. Worded(d1)
  BY CreateAttemptWorded
<1>2. db' \in {d1, Update(d1, e, Latest(d1, e), "declined", FALSE),
              StartLatest(d1, e, instantly)}
  BY DEF Post
<1> HIDE DEF d1
<1>3. Worded(Update(d1, e, Latest(d1, e), "declined", FALSE))
  BY <1>1, DeclinedWorded
<1> QED
  BY <1>1, <1>2, <1>3, StartLatestWorded

(* A status change by a request, a callback or a review.                   *)
LEMMA PutStatusWorded ==
  ASSUME Worded(db), NEW e \in Exams, NEW i \in Slots, NEW to \in ValidStatus,
         to # "eligible", PutStatus(e, i, to)
  PROVE  Worded(db')
<1>1. Worded(Read(db, e, i))
  BY ReadWorded
<1>2. db' = Update(Read(db, e, i), e, i, to, FALSE)
  BY DEF PutStatus
<1> QED
  BY <1>1, <1>2, ValidCanHave, PlainUpdateWorded

(* No verdict of a review is `eligible'.                                   *)
LEMMA VerdictsWorded == \A to \in Verdicts : to # "eligible"
  BY ConstantsAssumption

(* The handlers that read an attempt before they act on it.                *)
LEMMA ReadingHandlersWorded ==
  ASSUME Worded(db), NEW e \in Exams, NEW i \in Slots,
         \/ Stop(e, i) \/ Submit(e, i) \/ ClickDownload(e, i) \/ Decline(e, i)
         \/ \E instantly \in BOOLEAN : Start(e, i, instantly)
         \/ Error(e, i) \/ Poll(e, i) \/ ResetPractice(e, i)
         \/ MarkReadyToResume(e, i) \/ Delete(e, i)
         \/ ReadyCallback(e, i) \/ StartCallback(e, i) \/ ReviewCallback(e, i)
  PROVE  Worded(db')
<1> DEFINE d1 == Read(db, e, i)
           Given == {"ready_to_submit", "submitted", "download_software_clicked",
                     "declined", "error", "ready_to_start"}
<1>1. Worded(d1)
  BY ReadWorded
<1>2. /\ Given \subseteq ValidStatus
      /\ \A to \in Given : to # "eligible"
  BY DEF ValidStatus, Completed, Incomplete, InProgress, PreStarted
<1>3. CASE Stop(e, i) \/ Submit(e, i) \/ ClickDownload(e, i) \/ Decline(e, i)
  BY <1>2, <1>3, PutStatusWorded DEF Stop, Submit, ClickDownload, Decline
<1> HIDE DEF d1
<1>4. ASSUME NEW to \in Given, db' = Update(d1, e, i, to, FALSE)
      PROVE  Worded(db')
  <2>1. CanHave(e, to) /\ to # "eligible"
    BY <1>2, ValidCanHave
  <2> HIDE DEF Given
  <2> QED BY <1>1, <1>4, <2>1, PlainUpdateWorded
<1>5. ASSUME NEW instantly \in BOOLEAN, Start(e, i, instantly)
      PROVE  Worded(db')
  BY <1>1, <1>5, StartLatestWorded DEF Start, d1
<1>6. CASE Error(e, i) \/ ReadyCallback(e, i) \/ StartCallback(e, i)
  <2>1. db' = d1 \/ \E to \in Given : db' = Update(d1, e, i, to, FALSE)
    BY <1>6 DEF Error, ReadyCallback, StartCallback, d1
  <2> QED BY <1>1, <1>4, <2>1
<1>7. CASE Poll(e, i)
  BY <1>1, <1>7 DEF Poll, d1
<1>8. CASE ResetPractice(e, i)
  BY <1>1, <1>8, PracticeResetWorded DEF ResetPractice, d1
<1>9. CASE MarkReadyToResume(e, i)
  <2> DEFINE a   == d1.att[e][i]
             row == [a EXCEPT !.ready = TRUE, !.resumable = FALSE]
  <2>1. db' = d1 \/ (a.resumable /\ db' = WithRow(d1, e, i, row))
    BY <1>9 DEF MarkReadyToResume, d1, WithRow
  <2>2. RowSound(e, a) /\ (Kind[e] = "practice" => HasWord(a))
    BY <1>1 DEF Worded, Sound
  <2>3. a.resumable => RowSound(e, row)
    <3>1. \A x : RowSound(e, x) /\ x.resumable =>
            RowSound(e, [x EXCEPT !.ready = TRUE, !.resumable = FALSE])
      BY DEF RowSound, Attempt, InResumeProcess
    <3> QED BY <2>2, <3>1
  <2>4. row.status = a.status /\ row.proctored = a.proctored
    BY <2>2 DEF RowSound, Attempt
  <2> HIDE DEF row, a
  <2>5. Kind[e] = "practice" => HasWord(row)
    BY <2>2, <2>4 DEF HasWord
  <2> QED BY <1>1, <2>1, <2>3, <2>5, WriteRowWorded
<1>10. CASE Delete(e, i)
  BY <1>1, <1>10, RemovedWorded DEF Delete, d1
<1>11. CASE ReviewCallback(e, i)
  BY <1>11, VerdictsValid, VerdictsWorded, PutStatusWorded DEF ReviewCallback
<1> QED
  BY <1>3, <1>5, <1>6, <1>7, <1>8, <1>9, <1>10, <1>11

(* The handlers that set a status with no read before.                     *)
LEMMA SetStatusWorded ==
  ASSUME "eligible" \notin AdminStatuses, Worded(db), NEW e \in Exams,
         NEW i \in Slots,
         AdminSetStatus(e, i) \/ RetriggerStatus(e, i) \/ ReviewSaved(e, i)
  PROVE  Worded(db')
<1>1. ASSUME NEW to, CanHave(e, to), Kind[e] = "practice" => to # "eligible",
             SetStatus(e, i, to)
      PROVE  Worded(db')
  BY <1>1, PlainUpdateWorded DEF SetStatus
<1>2. CASE AdminSetStatus(e, i)
  <2>1. \A to \in AdminStatuses : CanHave(e, to) /\ to # "eligible"
    BY ConstantsAssumption, ValidCanHave
  <2> QED BY <1>1, <1>2, <2>1 DEF AdminSetStatus
<1>3. CASE RetriggerStatus(e, i)
  <2>1. RowSound(e, db.att[e][i])
    BY DEF Worded, Sound
  <2>2. CanHave(e, db.att[e][i].status)
    BY <2>1 DEF RowSound, Attempt, CanHave
  <2>3. Kind[e] = "practice" => db.att[e][i].status # "eligible"
    BY DEF Worded, HasWord
  <2> QED BY <1>1, <1>3, <2>2, <2>3 DEF RetriggerStatus
<1>4. CASE ReviewSaved(e, i)
  BY <1>1, <1>4, ValidCanHave, VerdictsValid, VerdictsWorded DEF ReviewSaved
<1> QED
  BY <1>2, <1>3, <1>4

(* Removing attempts, and the clock.                                       *)
LEMMA RawWritesWorded ==
  ASSUME RowsSound, Worded(db), NEW e \in Exams,
         ResetAttempts(e) \/ \E i \in Slots : RawDelete(e, i) \/ Expire(e, i)
  PROVE  Worded(db')
<1>1. CASE ResetAttempts(e)
  <2> DEFINE rows == [i \in Slots |-> IF i \in Live(db, e) THEN Archived
                                     ELSE db.att[e][i]]
  <2>1. Sound(db')
    BY <1>1, ResetAttemptsSound
  <2>2. db'.att = [db.att EXCEPT ![e] = rows]
    BY <1>1 DEF ResetAttempts, RowsSound, Sound, Database
  <2>3. \A f \in Exams : db'.att[f] = IF f = e THEN rows ELSE db.att[f]
    BY <2>2 DEF RowsSound, Sound, Database
  <2>4. \A f \in Exams, i \in Slots : Kind[f] = "practice" => HasWord(db'.att[f][i])
    BY <2>3, UnusedRowsWorded DEF Worded
  <2> QED BY <2>1, <2>4 DEF Worded
<1>2. ASSUME NEW i \in Slots, RawDelete(e, i)
      PROVE  Worded(db')
  <2>1. db' = WithRow(db, e, i, Archived)
    BY <1>2 DEF RawDelete, WithRow
  <2> QED BY <2>1, UnusedRowsSound, UnusedRowsWorded, WriteRowWorded
<1>3. ASSUME NEW i \in Slots, Expire(e, i)
      PROVE  Worded(db')
  <2> DEFINE a   == db.att[e][i]
             row == [a EXCEPT !.expired = TRUE]
  <2>1. db' = WithRow(db, e, i, row)
    BY <1>3 DEF Expire, WithRow
  <2>2. RowSound(e, a) /\ (Kind[e] = "practice" => HasWord(a))
    BY DEF Worded, Sound
  <2>3. RowSound(e, row)
    BY <2>2, ExpiredSound
  <2>4. row.status = a.status /\ row.proctored = a.proctored
    BY <2>2 DEF RowSound, Attempt
  <2> HIDE DEF row, a
  <2>5. Kind[e] = "practice" => HasWord(row)
    BY <2>2, <2>4 DEF HasWord
  <2> QED BY <2>1, <2>3, <2>5, WriteRowWorded
<1> QED
  BY <1>1, <1>2, <1>3

RowsWorded == Worded(db)

(* No request, callback, staff action or tick takes the word from a row.   *)
LEMMA NextRowsWorded ==
  ASSUME "eligible" \notin AdminStatuses, RowsSound, RowsWorded,
         NEW e \in Exams, AttemptNext(e) \/ ReviewNext(e)
  PROVE  RowsWorded'
<1>1. Worded(db)
  BY DEF RowsWorded
<1>2. CASE LearnerNext(e)
  <2>1. ASSUME NEW proctored \in BOOLEAN, NEW startClock \in BOOLEAN,
               NEW outcome \in Outcomes(e, proctored),
               NEW instantly \in BOOLEAN,
               Post(e, proctored, startClock, outcome, instantly)
        PROVE  Worded(db')
    BY <1>1, <2>1, PostWorded
  <2>2. \A startClock \in BOOLEAN : {FALSE, startClock} \subseteq BOOLEAN
    BY Zenon
  <2>3. ASSUME DeclineForPrerequisite(e) PROVE Worded(db')
    <3>1. db' = AutoDeclined(db, e)
      BY <2>3 DEF DeclineForPrerequisite, AutoDeclined
    <3> QED BY <1>1, <3>1, AutoDeclinedWorded
  <2> QED
    BY <1>1, <1>2, <2>1, <2>2, <2>3, ReadingHandlersWorded DEF LearnerNext, RowsWorded
<1>3. CASE StaffNext(e)
  BY <1>1, <1>3, RawWritesWorded, ReadingHandlersWorded, SetStatusWorded
  DEF StaffNext, RowsWorded
<1>4. CASE BackendNext(e)
  BY <1>1, <1>4, ReadingHandlersWorded DEF BackendNext, RowsWorded
<1>5. CASE ClockNext(e)
  <2>1. CASE PassDue(e) \/ ExtendDue(e)
    BY <1>1, <2>1 DEF PassDue, ExtendDue, RowsWorded
  <2> QED BY <1>1, <1>5, <2>1, RawWritesWorded DEF ClockNext, RowsWorded
<1>6. CASE ReviewNext(e)
  BY <1>1, <1>6, ReadingHandlersWorded, SetStatusWorded DEF ReviewNext, RowsWorded
<1> QED
  BY <1>2, <1>3, <1>4, <1>5, <1>6 DEF AttemptNext

(* Nor does a visit.                                                       *)
LEMMA OpenedWorded ==
  ASSUME NEW d, Worded(d), NEW e \in Exams, NEW v
  PROVE  Worded(Opened(d, e, v)) /\ Worded(FrontendOpened(d, e))
  BY ReadWorded, AutoDeclinedWorded DEF Opened, FrontendOpened

(* So no step takes the word from a row.                                  *)
LEMMA StudentNextWorded ==
  ASSUME "eligible" \notin AdminStatuses
  PROVE  AttemptsInLine /\ RowsWorded /\ [StudentNext]_vars => RowsWorded'
<1> SUFFICES ASSUME AttemptsInLine, RowsWorded, [StudentNext]_vars PROVE RowsWorded'
  OBVIOUS
<1>1. RowsSound /\ Worded(db)
  BY DEF AttemptsInLine, InLine, RowsSound, RowsWorded
<1>2. CASE UNCHANGED vars
  BY <1>1, <1>2 DEF vars, RowsWorded
<1>3. ASSUME NEW e \in Exams, NEW v \in Visits, OpenPage(e, v)
      PROVE  RowsWorded'
  BY <1>1, <1>3, OpenedWorded DEF OpenPage, RowsWorded
<1>4. ASSUME NEW e \in Exams, OpenInFrontend(e)
      PROVE  RowsWorded'
  <2>1. \A r \in Running : r[1] \in Exams /\ Worded(Read(db, r[1], r[2]))
    BY <1>1, ReadWorded DEF Running
  <2>2. \/ db' = FrontendOpened(db, e)
        \/ \E r \in Running : \/ db' = Read(db, r[1], r[2])
                               \/ db' = FrontendOpened(Read(db, r[1], r[2]), e)
    BY <1>4 DEF OpenInFrontend
  <2>3. Worded(FrontendOpened(db, e))
        /\ \A r \in Running : Worded(FrontendOpened(Read(db, r[1], r[2]), e))
    BY <1>1, <2>1, OpenedWorded
  <2> QED BY <2>1, <2>2, <2>3 DEF RowsWorded
<1>5. ASSUME NEW e \in Exams, AttemptNext(e) \/ ReviewNext(e)
      PROVE  RowsWorded'
  BY <1>1, <1>5, NextRowsWorded DEF RowsWorded
<1> QED
  BY <1>2, <1>3, <1>4, <1>5 DEF StudentNext

(* The rows have a word at first.                                          *)
LEMMA InitRowsWorded == Init => RowsWorded
<1> SUFFICES ASSUME Init PROVE RowsWorded
  OBVIOUS
<1>1. Sound(db)
  BY InitRowsSound DEF RowsSound
<1>2. db.att = [e \in Exams |-> [i \in Slots |-> NoRow]]
  BY DEF Init
<1> QED
  BY <1>1, <1>2, UnusedRowsWorded DEF RowsWorded, Worded

(* What the dashboard says of the relevant attempt, if it has no word.     *)
LEMMA BlankOnlyFor ==
  ASSUME ~ AllowTimedOut, recent \in Seq(Slots), RowsTell, RowsWorded,
         InstructorPanel = "blank"
  PROVE  Onboardings(RelevantAttempt).status
           \in OnboardingErrors \cup {"second_review_required"}
<1> DEFINE P == PracticeAttempts
           r == RelevantAttempt
           a == Onboardings(r)
<1>1. /\ P \in Seq(Slots)
      /\ ToSet(P) \subseteq {i \in Slots : Onboardings(i).proctored}
  BY KeptKeeps DEF PracticeAttempts
<1>2. P # << >> /\ Shown(a.status) = "blank"
  BY DEF InstructorPanel
<1>3. Head(P) \in Slots /\ Tail(P) \in Seq(Slots) /\ ToSet(P) = {Head(P)} \cup ToSet(Tail(P))
  BY <1>1, <1>2, HeadAndTail
<1>4. r \in ToSet(P)
  BY <1>3, RelevantIs DEF RelevantAttempt
<1>5. r \in Slots /\ a.proctored
  BY <1>1, <1>4
<1>6. /\ Onboarding \in Exams /\ Kind[Onboarding] = "practice"
      /\ a \in Attempt /\ RowTells(a) /\ HasWord(a)
  BY <1>5, OnboardingAssumption
  DEF RowsTell, Tells, RowsWorded, Worded, Sound, RowSound, Onboardings
<1> HIDE DEF a, P, r
<1>7. a.status \in Status /\ a.status \notin {"timed_out", "declined", "eligible"}
  BY <1>5, <1>6 DEF Attempt, RowTells, HasWord
<1> QED
  BY <1>2, <1>7 DEF Shown, Status, ValidStatus, Completed, Incomplete, PreStarted,
     InProgress, a, r

(* The dashboard never falls silent over an onboarding attempt, but for    *)
(* the statuses that the proctoring service brings in, if time-outs are    *)
(* treated as submissions and staff do not make an attempt `eligible'.     *)
THEOREM PanelNeverBlank ==
  ASSUME ~ AllowTimedOut, "eligible" \notin AdminStatuses
  PROVE  PanelSpec => []NeverBlank
<1>1. PanelList /\ RowsTell /\ RowsWorded => NeverBlank
  BY BlankOnlyFor DEF PanelList, NeverBlank
<1>2. StudentSpec => []RowsWorded
  BY VisitsTell, InitRowsWorded, StudentNextWorded, PTL DEF StudentSpec
<1> QED
  BY <1>1, <1>2, PanelsLookOn, VisitsTell, PanelInitList, PanelNextList, PTL
  DEF PanelSpec
=============================================================================
