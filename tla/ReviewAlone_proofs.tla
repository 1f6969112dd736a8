------------------------ MODULE ReviewAlone_proofs --------------------------
(***************************************************************************)
(* ReviewRounds with one recorder at a time: each round happens once, and  *)
(* the logs then implement ReviewVerdict.  Alone, a recorder appends to    *)
(* the very logs it has checked, so what it found missing is missing still *)
(* (DraftOK); nothing of the kind holds with two.                          *)
(***************************************************************************)
EXTENDS ReviewRounds_proofs

\* There is at most one recorder at a time.
OneRecorder == \A v, w \in Recorders : v = w

\* Every review of the role has been followed by a new primary review.
AllFollowed(role, b) ==
  role # "primary" =>
    \A i \in ReviewsBy(role, b) : \E p \in ReviewsBy("primary", b) : i < p

DraftOK(w) ==
  /\ pc[w] = "reviewing" => AllFollowed(draft[w].reviewer, draft[w].image)
  /\ pc[w] = "reconciling" =>
       /\ OutcomeOK(draft[w])
       /\ \A c \in Reconciled(draft[w].reviews[1]) : reconciles[c].round < draft[w].round

AloneInv == /\ RoundsHappenOnce
            /\ \A c \in 1..Len(reconciles) : OutcomeOK(reconciles[c])
            /\ Len(reviews) <= MaxReviews
            /\ \A w \in Recorders : DraftOK(w)

-----------------------------------------------------------------------------
(* Each round happens once.                                                *)

\* A review that is not refused is the first of its role since the primary.
LEMMA CheckedIsFirst ==
  ASSUME TypeOK, NEW role, NEW b, ~_round_errors(role, b)
  PROVE  AllFollowed(role, b)
<1> SUFFICES ASSUME role # "primary", NEW i \in ReviewsBy(role, b)
             PROVE  \E p \in ReviewsBy("primary", b) : i < p
  BY DEF AllFollowed
<1>1. /\ ReviewsBy("primary", b) # {} /\ ~(i > LastPrimary(b))
  BY DEF _round_errors
<1>2. Len(reviews) \in Nat BY Logs
<1>3. \E p \in ReviewsBy("primary", b) : \A q \in ReviewsBy("primary", b) : q <= p
  BY <1>1, <1>2, HasLast DEF ReviewsBy
<1>4. LastPrimary(b) \in ReviewsBy("primary", b) BY <1>3 DEF LastPrimary
<1>5. i # LastPrimary(b) BY <1>4 DEF ReviewsBy
<1>6. i \in Nat /\ LastPrimary(b) \in Nat BY <1>2, <1>4 DEF ReviewsBy
<1> QED BY <1>1, <1>4, <1>5, <1>6

\* Where the logs stay, so do their rounds; the step's own draft is shown fine.
LEMMA LogsStay ==
  ASSUME AloneInv, UNCHANGED <<reviews, reconciles>>,
         \A w \in Recorders : DraftOK(w)'
  PROVE  AloneInv'
BY DEF AloneInv, RoundsHappenOnce, OutcomeOK, ReviewsBy

\* A step of the one recorder that puts its draft aside.
LEMMA NoDraft ==
  ASSUME OneRecorder, TypeOK, NEW w \in Recorders,
         pc' = [pc EXCEPT ![w] = "idle"]
  PROVE  \A v \in Recorders : DraftOK(v)'
BY DEF OneRecorder, TypeOK, DraftOK

\* The one recorder's review is the first of its role.
LEMMA AloneReview ==
  ASSUME OneRecorder, IInv, AloneInv, NEW w \in Recorders, AppendReview(w)
  PROVE  AloneInv'
<1>1. PICK r : r = draft[w] OBVIOUS
<1>2. /\ r \in Review /\ reviews \in Seq(Review) /\ reviews' = Append(reviews, r)
      /\ reconciles' = reconciles /\ Len(reviews) < MaxReviews
  BY <1>1 DEF IInv, TypeOK, AppendReview
<1>3. Len(reviews) \in Nat BY Logs DEF IInv
<1>4. Grows(reviews, reviews', r) BY <1>2, AppendGrows
<1>5. Len(reviews') <= MaxReviews BY <1>2, <1>3, <1>4, BoundsAssumption DEF Grows, BoundsAssumption
<1>6. \A v \in Recorders : DraftOK(v)' BY NoDraft DEF AppendReview, IInv
<1>7. AllFollowed(r.reviewer, r.image) BY <1>1 DEF AppendReview, AloneInv, DraftOK
<1>8. ASSUME NEW i \in 1..Len(reviews'), NEW j \in 1..Len(reviews'),
             i < j, reviews'[i].reviewer # "primary",
             reviews'[i].reviewer = reviews'[j].reviewer, reviews'[i].image = reviews'[j].image
      PROVE  \E p \in 1..Len(reviews') : /\ reviews'[p].reviewer = "primary"
                                         /\ reviews'[p].image = reviews'[i].image
                                         /\ i < p /\ p < j
  <2>1. i \in 1..Len(reviews) /\ reviews'[i] = reviews[i] BY <1>3, <1>4, <1>8 DEF Grows
  <2>2. CASE j \in 1..Len(reviews)
    <3>1. reviews'[j] = reviews[j] BY <1>4, <2>2 DEF Grows
    <3>2. PICK p \in ReviewsBy("primary", reviews[i].image) : i < p /\ p < j
      BY <1>8, <2>1, <2>2, <3>1 DEF AloneInv, RoundsHappenOnce
    <3> QED BY <1>3, <1>4, <2>1, <3>2 DEF Grows, ReviewsBy
  <2>3. CASE j = Len(reviews) + 1
    <3>1. reviews'[j] = r BY <1>4, <2>3 DEF Grows
    <3>2. i \in ReviewsBy(r.reviewer, r.image) BY <1>8, <2>1, <3>1 DEF ReviewsBy
    <3>3. PICK p \in ReviewsBy("primary", r.image) : i < p
      BY <1>7, <1>8, <2>1, <3>1, <3>2 DEF AllFollowed
    <3> QED BY <1>3, <1>4, <1>8, <2>3, <3>1, <3>3 DEF Grows, ReviewsBy
  <2> QED BY <1>3, <1>4, <2>2, <2>3 DEF Grows
<1>9. RoundsHappenOnce'
  BY <1>2, <1>8 DEF AloneInv, RoundsHappenOnce, ReviewsBy
<1> QED BY <1>2, <1>5, <1>6, <1>9 DEF AloneInv, OutcomeOK

\* The one recorder's reconcile is of a new round.
LEMMA AloneReconcile ==
  ASSUME OneRecorder, IInv, AloneInv, NEW w \in Recorders, AppendReconcile(w)
  PROVE  AloneInv'
<1>1. PICK r : r = draft[w] OBVIOUS
<1>2. /\ r \in Reconcile /\ reconciles \in Seq(Reconcile)
      /\ reconciles' = Append(reconciles, r) /\ reviews' = reviews
  BY <1>1 DEF IInv, TypeOK, AppendReconcile
<1>3. Len(reconciles) \in Nat /\ \A c \in 1..Len(reconciles) : reconciles[c] \in Reconcile
  BY Logs DEF IInv
<1>4. Grows(reconciles, reconciles', r) BY <1>2, AppendGrows
<1>5. \A v \in Recorders : DraftOK(v)' BY NoDraft DEF AppendReconcile, IInv
<1>6. /\ OutcomeOK(r)
      /\ \A c \in 1..Len(reconciles) :
           reconciles[c].reviews[1] = r.reviews[1] => reconciles[c].round < r.round
  BY <1>1 DEF AppendReconcile, AloneInv, DraftOK, Reconciled
<1>7. ASSUME NEW c \in 1..Len(reconciles'), NEW d \in 1..Len(reconciles'),
             reconciles'[c].reviews[1] = reconciles'[d].reviews[1],
             reconciles'[c].round = reconciles'[d].round
      PROVE  c = d
  <2>1. CASE c \in 1..Len(reconciles) /\ d \in 1..Len(reconciles)
    BY <1>4, <1>7, <2>1 DEF Grows, AloneInv, RoundsHappenOnce
  <2>2. CASE c \in 1..Len(reconciles) /\ d = Len(reconciles) + 1
    <3>1. reconciles'[c] = reconciles[c] /\ reconciles'[d] = r BY <1>4, <2>2 DEF Grows
    <3>2. reconciles[c].round < r.round /\ reconciles[c].round = r.round BY <1>6, <1>7, <2>2, <3>1
    <3>3. r.round \in Nat BY <1>2 DEF Reconcile
    <3> QED BY <3>2, <3>3
  <2>3. CASE d \in 1..Len(reconciles) /\ c = Len(reconciles) + 1
    <3>1. reconciles'[d] = reconciles[d] /\ reconciles'[c] = r BY <1>4, <2>3 DEF Grows
    <3>2. reconciles[d].round < r.round /\ reconciles[d].round = r.round BY <1>6, <1>7, <2>3, <3>1
    <3>3. r.round \in Nat BY <1>2 DEF Reconcile
    <3> QED BY <3>2, <3>3
  <2> QED BY <1>3, <1>4, <2>1, <2>2, <2>3 DEF Grows
<1>8. RoundsHappenOnce' BY <1>2, <1>7 DEF AloneInv, RoundsHappenOnce, ReviewsBy
<1>9. \A c \in 1..Len(reconciles') : OutcomeOK(reconciles'[c])
  BY <1>3, <1>4, <1>6 DEF AloneInv, Grows
<1> QED BY <1>2, <1>5, <1>8, <1>9 DEF AloneInv, OutcomeOK

\* Each step of one recorder keeps the rounds.
LEMMA AloneInductive == OneRecorder /\ IInv /\ AloneInv /\ [Next]_vars => AloneInv'
<1> SUFFICES ASSUME OneRecorder, IInv, AloneInv, [Next]_vars PROVE AloneInv' OBVIOUS
<1>0. TypeOK BY DEF IInv
<1>1. ASSUME NEW w \in Recorders, NEW role \in {"primary", "blind", "tiebreak"},
             NEW reading \in Readings, LookAt(w, role, reading)
      PROVE  AloneInv'
  <2>1. \A v \in Recorders : pc'[v] = "looked" BY <1>0, <1>1 DEF LookAt, OneRecorder, TypeOK
  <2>2. \A v \in Recorders : DraftOK(v)' BY <2>1 DEF DraftOK
  <2> QED BY <1>1, <2>2, LogsStay DEF LookAt
<1>2. ASSUME NEW w \in Recorders, CheckReview(w) PROVE AloneInv'
  <2>1. UNCHANGED <<reviews, reconciles>> BY <1>2 DEF CheckReview
  <2>2. CASE _round_errors(draft[w].reviewer, draft[w].image)
    BY <1>0, <1>2, <2>1, <2>2, NoDraft, LogsStay DEF CheckReview
  <2>3. CASE ~_round_errors(draft[w].reviewer, draft[w].image)
    <3>1. PICK role, b : role = draft[w].reviewer /\ b = draft[w].image OBVIOUS
    <3>2. AllFollowed(role, b) BY <1>0, <2>3, <3>1, CheckedIsFirst
    <3>3. draft' = draft /\ pc'[w] = "reviewing" BY <1>0, <1>2, <2>3 DEF CheckReview, TypeOK
    <3>4. DraftOK(w)' BY <2>1, <3>1, <3>2, <3>3 DEF DraftOK, AllFollowed, ReviewsBy
    <3> QED BY <2>1, <3>4, LogsStay DEF OneRecorder
  <2> QED BY <2>2, <2>3
<1>3. ASSUME NEW w \in Recorders, AppendReview(w) PROVE AloneInv' BY <1>3, AloneReview
<1>4. ASSUME NEW w \in Recorders, NEW ids \in Requests, CheckReconcile(w, ids) PROVE AloneInv'
  <2>1. UNCHANGED <<reviews, reconciles>> BY <1>4 DEF CheckReconcile
  <2>2. PICK r, s : r = draft'[w] /\ s = ReadingsOf(ids) OBVIOUS
  <2>3. /\ r = [reviews |-> ids, round |-> reconcile(s).round, outcome |-> reconcile(s).outcome,
                majority |-> reconcile(s).majority]
        /\ Reconcilable(ids) /\ pc'[w] = "reconciling"
    BY <1>0, <1>4, <2>2 DEF CheckReconcile, TypeOK
  <2>4. r.reviews = ids /\ r.round = reconcile(s).round /\ r.outcome = reconcile(s).outcome BY <2>3
  <2>5. OutcomeOK(r) BY <1>0, <2>2, <2>3, <2>4, ComparedOutcome
  <2>6. \A c \in Reconciled(ids[1]) : reconciles[c].round < r.round
    BY <2>2, <2>3, <2>4 DEF Reconcilable
  <2>7. DraftOK(w)' BY <2>1, <2>2, <2>3, <2>4, <2>5, <2>6 DEF DraftOK, Reconciled, OutcomeOK
  <2> QED BY <2>1, <2>7, LogsStay DEF OneRecorder
<1>5. ASSUME NEW w \in Recorders, AppendReconcile(w) PROVE AloneInv' BY <1>5, AloneReconcile
<1>6. ASSUME NEW w \in Recorders, GiveUp(w) PROVE AloneInv'
  BY <1>0, <1>6, NoDraft, LogsStay DEF GiveUp
<1>7. CASE Regenerate \/ UNCHANGED vars
  <2>1. UNCHANGED <<reviews, reconciles, pc, draft>> BY <1>7 DEF Regenerate, vars
  <2>2. \A w \in Recorders : DraftOK(w)'
    BY <2>1 DEF AloneInv, DraftOK, AllFollowed, ReviewsBy, Reconciled, OutcomeOK
  <2> QED BY <2>1, <2>2, LogsStay
<1> QED BY <1>1, <1>2, <1>3, <1>4, <1>5, <1>6, <1>7 DEF Next

\* At first nothing has been recorded.
LEMMA AloneInit == Init => AloneInv
BY BoundsAssumption
DEF BoundsAssumption, Init, AloneInv, RoundsHappenOnce, DraftOK

\* So the rounds of one recorder always happen once.
LEMMA AloneAlways == ASSUME OneRecorder PROVE Spec => []AloneInv
<1>1. IInv /\ AloneInv /\ [Next]_vars => AloneInv' BY AloneInductive
<1> QED BY <1>1, AloneInit, Invariant, PTL DEF Spec

\* Recorded by one at a time, no round of a primary review is reconciled
\* twice and no blind or tiebreak review repeated before the next primary
\* (_round_errors, record_reconcile); with two recorders this fails.
THEOREM RoundsAreOnce == ASSUME OneRecorder PROVE Spec => []RoundsHappenOnce
<1>1. AloneInv => RoundsHappenOnce BY DEF AloneInv
<1> QED BY <1>1, AloneAlways, PTL

-----------------------------------------------------------------------------
(* The refinement of ReviewVerdict.                                        *)

\* c is the one reconcile of the highest round.
Top(log, S, c) == c \in S /\ \A d \in S \ {c} : log[d].round < log[c].round

\* A reconcile of the highest round decides.
TopsDecide == \A p, c : Top(reconciles, Reconciled(p), c) => VerdictOf(p) = reconciles[c].outcome

\* LastReconcile finds it.
LEMMA TopDecides == IInv => TopsDecide
<1> SUFFICES ASSUME IInv, NEW p, NEW c, Top(reconciles, Reconciled(p), c)
             PROVE  VerdictOf(p) = reconciles[c].outcome
  BY DEF TopsDecide
<1>1. PICK S, e : S = Reconciled(p) /\ e = LastReconcile(p) OBVIOUS
<1>2. \A d \in S : d \in Nat /\ reconciles[d].round \in Nat
  BY <1>1, Logs DEF IInv, Reconciled, Reconcile
<1>3. c \in S /\ \A d \in S \ {c} : reconciles[d].round < reconciles[c].round
  BY <1>1 DEF Top
<1>4. \E x \in S : \A d \in S \ {x} : \/ reconciles[d].round < reconciles[x].round
                                      \/ reconciles[d].round = reconciles[x].round /\ x < d
  BY <1>3
<1>5. /\ e \in S
      /\ \A d \in S \ {e} : \/ reconciles[d].round < reconciles[e].round
                            \/ reconciles[d].round = reconciles[e].round /\ e < d
  BY <1>1, <1>4 DEF LastReconcile
<1>6. e = c BY <1>2, <1>3, <1>5
<1> QED BY <1>1, <1>3, <1>6 DEF VerdictOf

\* What has been reconciled has a reconcile of the highest round.
LEMMA HasTop ==
  ASSUME IInv, AloneInv, NEW p, Reconciled(p) # {}
  PROVE  \E c : Top(reconciles, Reconciled(p), c)
<1>1. \A c \in Reconciled(p) : reconciles[c].round \in {1, 2}
  BY Logs DEF IInv, Reconciled, Reconcile
<1>2. \A c, d \in Reconciled(p) : reconciles[c].round = reconciles[d].round => c = d
  BY DEF AloneInv, RoundsHappenOnce, Reconciled
<1>3. PICK c \in Reconciled(p) : reconciles[c].round = 2 \/ \A d \in Reconciled(p) : reconciles[d].round = 1
  BY <1>1
<1>4. Top(reconciles, Reconciled(p), c) BY <1>1, <1>2, <1>3 DEF Top
<1> QED BY <1>4

\* A reconcile moves the verdict of its primary review, and only that.
LEMMA VerdictMoves ==
  ASSUME OneRecorder, IInv, AloneInv, TopsDecide', NEW w \in Recorders, AppendReconcile(w),
         NEW r, r = draft[w], NEW p, p = r.reviews[1]
  PROVE  /\ p \in 1..Len(reviews) /\ OutcomeOK(r) /\ r.round \in {1, 2}
         /\ VerdictOf(p) = IF r.round = 1 THEN "none" ELSE "disagree"
         /\ VerdictOf(p)' = r.outcome
         /\ \A q : q # p => VerdictOf(q)' = VerdictOf(q)
<1>1. /\ r \in Reconcile /\ reconciles \in Seq(Reconcile) /\ reconciles' = Append(reconciles, r)
      /\ Binds(r) /\ (r.round = 2 => Split(p))
      /\ OutcomeOK(r) /\ \A c \in Reconciled(p) : reconciles[c].round < r.round
  BY DEF IInv, TypeOK, DraftsInv, AppendReconcile, AloneInv, DraftOK
<1>2. /\ Len(reconciles) \in Nat /\ \A c \in 1..Len(reconciles) : reconciles[c] \in Reconcile
  BY Logs DEF IInv
<1>3. Grows(reconciles, reconciles', r) BY <1>1, AppendGrows
<1>4. r.round \in {1, 2} BY <1>1 DEF Reconcile
<1>5. p \in 1..Len(reviews)
  <2>1. 1 \in DOMAIN r.reviews BY <1>1, <1>4 DEF Binds
  <2> QED BY <1>1, <2>1 DEF Binds
<1>6. PICK n : n = Len(reconciles) + 1 OBVIOUS
<1>7. /\ Reconciled(p)' = Reconciled(p) \union {n} /\ reconciles'[n] = r
      /\ \A c \in Reconciled(p) : reconciles'[c] = reconciles[c] /\ c # n
  BY <1>2, <1>3, <1>6 DEF Reconciled, Grows
<1>8. VerdictOf(p)' = r.outcome
  <2>1. Top(reconciles', Reconciled(p)', n) BY <1>1, <1>7 DEF Top
  <2> QED BY <1>7, <2>1 DEF TopsDecide
<1>9. VerdictOf(p) = IF r.round = 1 THEN "none" ELSE "disagree"
  <2>1. CASE r.round = 1
    <3>1. \A c \in Reconciled(p) : reconciles[c].round \in {1, 2} BY <1>2 DEF Reconciled, Reconcile
    <3>2. Reconciled(p) = {} BY <1>1, <2>1, <3>1
    <3> QED BY <2>1, <3>2 DEF VerdictOf
  <2>2. CASE r.round = 2
    <3>1. PICK c \in Reconciled(p) : reconciles[c].outcome = "disagree" BY <1>1, <2>2 DEF Split
    <3>2. \A d \in Reconciled(p) : reconciles[d].round = 1
      <4>1. \A d \in Reconciled(p) : reconciles[d].round \in {1, 2} BY <1>2 DEF Reconciled, Reconcile
      <4> QED BY <1>1, <2>2, <4>1
    <3>3. \A d \in Reconciled(p) : d = c BY <3>1, <3>2 DEF AloneInv, RoundsHappenOnce, Reconciled
    <3>4. Top(reconciles, Reconciled(p), c) BY <3>1, <3>3 DEF Top
    <3> QED BY <2>2, <3>1, <3>4, TopDecides DEF TopsDecide
  <2> QED BY <1>4, <2>1, <2>2
<1>10. ASSUME NEW q, q # p PROVE VerdictOf(q)' = VerdictOf(q)
  <2>1. Reconciled(q)' = Reconciled(q) /\ \A c \in Reconciled(q) : reconciles'[c] = reconciles[c]
    BY <1>2, <1>3, <1>10 DEF Reconciled, Grows
  <2>2. CASE Reconciled(q) = {} BY <2>1, <2>2 DEF VerdictOf
  <2>3. CASE Reconciled(q) # {}
    <3>1. PICK c : Top(reconciles, Reconciled(q), c) BY <2>3, HasTop
    <3>2. Top(reconciles', Reconciled(q)', c) /\ c \in Reconciled(q) BY <2>1, <3>1 DEF Top
    <3>3. VerdictOf(q) = reconciles[c].outcome BY <3>1, TopDecides DEF TopsDecide
    <3>4. VerdictOf(q)' = reconciles'[c].outcome BY <3>2 DEF TopsDecide
    <3> QED BY <2>1, <3>2, <3>3, <3>4
  <2> QED BY <2>2, <2>3
<1> QED BY <1>1, <1>4, <1>5, <1>8, <1>9, <1>10

\* The verdicts as ReviewVerdict has them.
Bar == [p \in 1..MaxReviews |-> VerdictOf(p)]

\* A step of the log is a step of the verdicts, or none.
LEMMA StepImplements ==
  OneRecorder /\ IInv /\ AloneInv /\ TopsDecide' /\ [Next]_vars => [Verdict!Next]_Bar
<1> SUFFICES ASSUME OneRecorder, IInv, AloneInv, TopsDecide', [Next]_vars
             PROVE  Verdict!Next \/ UNCHANGED Bar
  OBVIOUS
<1>1. ASSUME NEW w \in Recorders, AppendReconcile(w) PROVE Verdict!Next
  <2>1. PICK r, p : r = draft[w] /\ p = r.reviews[1] OBVIOUS
  <2>2. /\ p \in 1..Len(reviews) /\ OutcomeOK(r) /\ r.round \in {1, 2}
        /\ VerdictOf(p) = IF r.round = 1 THEN "none" ELSE "disagree"
        /\ VerdictOf(p)' = r.outcome
        /\ \A q : q # p => VerdictOf(q)' = VerdictOf(q)
    BY <1>1, <2>1, VerdictMoves
  <2>3. p \in 1..MaxReviews
    BY <2>2, Logs, BoundsAssumption DEF IInv, AloneInv, BoundsAssumption
  <2>4. Bar' = [Bar EXCEPT ![p] = r.outcome] BY <2>2, <2>3 DEF Bar
  <2>5. CASE r.round = 1
    <3>1. Verdict!FirstRound(p) BY <2>2, <2>3, <2>4, <2>5 DEF Verdict!FirstRound, OutcomeOK, Bar
    <3> QED BY <2>3, <3>1 DEF Verdict!Next
  <2>6. CASE r.round = 2
    <3>1. VerdictOf(p) = "disagree" /\ r.outcome \in {"agree", "unresolved"}
      BY <2>2, <2>6 DEF OutcomeOK
    <3>2. Bar[p] = "disagree" BY <2>3, <3>1 DEF Bar
    <3>3. Verdict!SecondRound(p)
      BY <2>4, <3>1, <3>2 DEF Verdict!SecondRound, Verdict!Settled, Bar
    <3> QED BY <2>3, <3>3 DEF Verdict!Next
  <2> QED BY <2>2, <2>5, <2>6
<1>2. CASE UNCHANGED reconciles
  BY <1>2 DEF Bar, VerdictOf, LastReconcile, Reconciled
<1>3. UNCHANGED reconciles \/ \E w \in Recorders : AppendReconcile(w)
  BY DEF Next, LookAt, CheckReview, AppendReview, CheckReconcile, GiveUp, Regenerate, vars
<1> QED BY <1>1, <1>2, <1>3

\* Recorded by one at a time, the verdicts move as ReviewVerdict says: a first
\* round once, a second after a split, and never again (reconcile,
\* record_reconcile).
THEOREM ImplementsVerdict == ASSUME OneRecorder PROVE Spec => VerdictsAreFinal
<1>1. Init => Verdict!Init
  BY DEF Init, Verdict!Init, VerdictOf, Reconciled
<1>2. IInv /\ AloneInv /\ TopsDecide' /\ [Next]_vars => [Verdict!Next]_Bar BY StepImplements
<1>3. Spec => [][Verdict!Next]_Bar
  BY <1>2, TopDecides, Invariant, AloneAlways, PTL DEF Spec
<1> QED BY <1>1, <1>3, PTL DEF Spec, VerdictsAreFinal, Verdict!Spec, Bar
=============================================================================
