------------------------ MODULE ReviewRounds_proofs -------------------------
(***************************************************************************)
(* Proofs about ReviewRounds, for any number of recorders at once: types,  *)
(* that tiebreaks need splits and second rounds first ones, whose errors a *)
(* settled tie counts, and that the Stop hook's demands can be met.  None  *)
(* of them needs the check to be under the lock: both logs only grow, so   *)
(* what a draft rests on stays true.                                       *)
(***************************************************************************)
EXTENDS ReviewRounds, SequenceTheorems, FiniteSetTheorems, TLAPS

(* Sequences.                                                              *)

\* A function on 1..n is a sequence of length n.
LEMMA FunctionSeq ==
  ASSUME NEW n \in Nat, NEW S, NEW f \in [1..n -> S]
  PROVE  f \in Seq(S) /\ Len(f) = n
<1>1. f \in Seq(S) BY SeqDef
<1>2. DOMAIN f = 1..Len(f) /\ Len(f) \in Nat BY <1>1, LenProperties
<1>3. 1..n = 1..Len(f) BY <1>2
<1>4. QED BY <1>1, <1>2, <1>3

\* The logs' lengths and members.
LEMMA Logs ==
  ASSUME TypeOK
  PROVE  /\ Len(reviews) \in Nat /\ Len(reconciles) \in Nat
         /\ \A i \in 1..Len(reviews) : reviews[i] \in Review
         /\ \A c \in 1..Len(reconciles) : reconciles[c] \in Reconcile
BY LenProperties, ElementOfSeq DEF TypeOK

\* A set of numbers up to n has a last one: its members from p on are finite
\* sets, and a smallest of them in the order of inclusion is a singleton.
LEMMA HasLast ==
  ASSUME NEW n \in Nat, NEW S, S \subseteq 1..n, S # {}
  PROVE  \E p \in S : \A q \in S : q <= p
<1> DEFINE From(p) == {q \in S : p <= q}
           Tails == {From(p) : p \in S}
<1>1. IsFiniteSet(1..n) BY FS_Interval
<1>2. IsFiniteSet(S) BY <1>1, FS_Subset
<1>3. \A p \in S : From(p) \subseteq S /\ IsFiniteSet(From(p))
  BY <1>2, FS_Subset
<1>4. Tails \subseteq FiniteSubsetsOf(S) BY <1>3 DEF FiniteSubsetsOf
<1>5. Tails # {} OBVIOUS
<1>6. IsWellFoundedOn(StrictSubsetOrdering(S), FiniteSubsetsOf(S))
  BY FS_StrictSubsetOrderingWellFounded
<1> HIDE DEF Tails
<1>7. PICK x \in Tails :
        \A y \in Tails : <<y, x>> \notin StrictSubsetOrdering(S)
  BY <1>4, <1>5, <1>6, WFMin
<1> USE DEF Tails
<1>8. PICK p \in S : x = From(p) BY <1>7
<1>9. ASSUME NEW q \in S, ~(q <= p) PROVE FALSE
  <2>1. PICK y : y = From(q) OBVIOUS
  <2>2. /\ p \in From(p) /\ p \notin From(q)
        /\ \A z \in From(q) : z \in From(p)
    <3>1. p \in Nat /\ q \in Nat /\ \A z \in S : z \in Nat OBVIOUS
    <3>2. QED BY <1>9, <3>1
  <2>3. y \in Tails BY <2>1
  <2>4. <<y, x>> \in StrictSubsetOrdering(S)
    BY <1>8, <2>1, <2>2 DEF StrictSubsetOrdering
  <2> HIDE DEF Tails
  <2>5. QED BY <1>7, <2>3, <2>4
<1>10. QED BY <1>9

(* Comparing reviews.                                                      *)

\* A tie is settled by a reading that has exactly one side's errors, so the
\* majority's errors are its own.
LEMMA MajorityOfThree ==
  ASSUME NEW a, NEW b, NEW c, reviews_agree(c, a) \/ reviews_agree(c, b)
  PROVE  Majority(a, b, c) = c.errors
BY DEF reviews_agree, Majority

\* What reconcile makes of two readings and of three.
LEMMA RoundOne ==
  ASSUME NEW s \in [1..2 -> Readings]
  PROVE  /\ reconcile(s).round = 1 /\ reconcile(s).majority = {}
         /\ reconcile(s).outcome \in {"agree", "disagree"}
<1>1. Len(s) = 2 BY FunctionSeq
<1>2. QED BY <1>1 DEF reconcile

LEMMA RoundTwo ==
  ASSUME NEW s \in [1..3 -> Readings]
  PROVE  /\ reconcile(s).round = 2
         /\ reconcile(s).majority \subseteq UNION {r.errors : r \in Readings}
         /\ reconcile(s).outcome \in {"agree", "unresolved"}
         /\ reconcile(s).outcome = "agree" =>
              reconcile(s).majority = s[3].errors
<1>1. Len(s) = 3 BY FunctionSeq
<1>2. /\ reconcile(s).round = 2
      /\ reconcile(s).majority = Majority(s[1], s[2], s[3])
      /\ reconcile(s).outcome =
           IF reviews_agree(s[3], s[1]) \/ reviews_agree(s[3], s[2])
             THEN "agree" ELSE "unresolved"
  BY <1>1 DEF reconcile
<1>3. s[1] \in Readings /\ s[2] \in Readings /\ s[3] \in Readings OBVIOUS
<1>4. Majority(s[1], s[2], s[3]) \subseteq s[1].errors \union s[2].errors
  BY DEF Majority
<1>5. s[1].errors \union s[2].errors
        \subseteq UNION {r.errors : r \in Readings}
  BY <1>3
<1>6. QED BY <1>2, <1>4, <1>5, MajorityOfThree

\* The reconcile a recorder drafts is one, binds what it names, and rests on
\* a split when it is a second round.
LEMMA Compared ==
  ASSUME TypeOK, NEW ids \in Requests, Reconcilable(ids),
         NEW r, r = [reviews |-> ids,
                     round |-> reconcile(ReadingsOf(ids)).round,
                     outcome |-> reconcile(ReadingsOf(ids)).outcome,
                     majority |-> reconcile(ReadingsOf(ids)).majority]
  PROVE  /\ r \in Reconcile /\ Binds(r)
         /\ r.round = 2 => Split(r.reviews[1])
<1>0. /\ r.reviews = ids
      /\ r.round = reconcile(ReadingsOf(ids)).round
      /\ r.outcome = reconcile(ReadingsOf(ids)).outcome
      /\ r.majority = reconcile(ReadingsOf(ids)).majority
  OBVIOUS
<1>1. r.round = 2 => Split(r.reviews[1]) BY <1>0 DEF Reconcilable
<1>2. Len(reviews) \in Nat
      /\ \A i \in 1..Len(reviews) : reviews[i].reading \in Readings
  BY Logs DEF Review
<1>3. CASE ids \in [1..2 -> 1..Len(reviews)]
  <2>1. Len(ids) = 2 /\ DOMAIN ids = 1..2 BY <1>3, FunctionSeq
  <2>2. ReadingsOf(ids) \in [1..2 -> Readings]
    BY <1>2, <1>3, <2>1 DEF ReadingsOf
  <2>3. /\ r.round = 1 /\ r.majority = {}
        /\ r.outcome \in {"agree", "disagree"}
    BY <1>0, <2>2, RoundOne
  <2>4. ids \in [1..2 -> Nat] BY <1>2, <1>3
  <2>5. r \in Reconcile BY <1>0, <2>3, <2>4 DEF Reconcile
  <2>6. \A k \in 1..2 : /\ ids[k] \in 1..Len(reviews)
                        /\ reviews[ids[k]].image = reviews[ids[1]].image
    BY <1>3, <2>1 DEF Reconcilable
  <2>7. Binds(r) BY <1>0, <2>1, <2>3, <2>6 DEF Binds
  <2>8. QED BY <1>1, <2>5, <2>7
<1>4. CASE ids \in [1..3 -> 1..Len(reviews)]
  <2>1. Len(ids) = 3 /\ DOMAIN ids = 1..3 BY <1>4, FunctionSeq
  <2>2. /\ ReadingsOf(ids) \in [1..3 -> Readings]
        /\ ReadingsOf(ids)[3] = reviews[ids[3]].reading
    BY <1>2, <1>4, <2>1 DEF ReadingsOf
  <2>3. /\ r.round = 2
        /\ r.majority \subseteq UNION {x.errors : x \in Readings}
        /\ r.outcome \in {"agree", "unresolved"}
        /\ r.outcome = "agree" => r.majority = reviews[ids[3]].reading.errors
    BY <1>0, <2>2, RoundTwo
  <2>4. ids \in [1..3 -> Nat] BY <1>2, <1>4
  <2>5. r \in Reconcile BY <1>0, <2>3, <2>4 DEF Reconcile
  <2>6. \A k \in 1..3 : /\ ids[k] \in 1..Len(reviews)
                        /\ reviews[ids[k]].image = reviews[ids[1]].image
    BY <1>4, <2>1 DEF Reconcilable
  <2>7. Binds(r) BY <1>0, <2>1, <2>3, <2>6 DEF Binds
  <2>8. QED BY <1>1, <2>5, <2>7
<1>5. QED BY <1>3, <1>4 DEF Requests

-----------------------------------------------------------------------------
(* Every step keeps the logs' prefixes.                                    *)

\* What the properties look at when a log grows by one.
Grows(f, g, r) == /\ Len(g) = Len(f) + 1 /\ g[Len(f) + 1] = r
                  /\ \A i \in 1..Len(f) : g[i] = f[i]

LEMMA AppendGrows ==
  ASSUME NEW S, NEW f \in Seq(S), NEW r \in S, NEW g, g = Append(f, r)
  PROVE  g \in Seq(S) /\ Grows(f, g, r)
BY AppendProperties DEF Grows

\* The lengths are numbers, and what was in the logs is where it was.
LogsGrow ==
  /\ Len(reviews') \in Nat /\ Len(reviews) <= Len(reviews')
  /\ \A i \in 1..Len(reviews) : reviews'[i] = reviews[i]
  /\ Len(reconciles') \in Nat /\ Len(reconciles) <= Len(reconciles')
  /\ \A c \in 1..Len(reconciles) : reconciles'[c] = reconciles[c]

\* A reconcile binds what it bound, after the reviews have grown.
LEMMA BindsKept ==
  ASSUME NEW r, Binds(r), r.round \in {1, 2},
         Len(reviews) \in Nat, LogsGrow
  PROVE  Binds(r)'
<1>1. \A k \in DOMAIN r.reviews :
        /\ r.reviews[k] \in 1..Len(reviews)
        /\ reviews'[r.reviews[k]] = reviews[r.reviews[k]]
  BY DEF Binds, LogsGrow
<1>2. DOMAIN r.reviews = 1..(r.round + 1) BY DEF Binds
<1>3. 1 \in DOMAIN r.reviews /\ (r.round = 2 => 3 \in DOMAIN r.reviews)
  BY <1>2
<1>4. ASSUME NEW k \in DOMAIN r.reviews
      PROVE  /\ r.reviews[k] \in 1..Len(reviews')
             /\ reviews'[r.reviews[k]].image = reviews'[r.reviews[1]].image
  <2>1. r.reviews[k] \in 1..Len(reviews') BY <1>1 DEF LogsGrow
  <2>2. reviews[r.reviews[k]].image = reviews[r.reviews[1]].image
    BY DEF Binds
  <2>3. QED BY <1>1, <1>3, <2>1, <2>2
<1>5. ASSUME r.round = 2, r.outcome = "agree"
      PROVE  r.majority = reviews'[r.reviews[3]].reading.errors
  <2>1. r.majority = reviews[r.reviews[3]].reading.errors BY <1>5 DEF Binds
  <2>2. QED BY <1>1, <1>3, <1>5, <2>1
<1>6. QED BY <1>2, <1>4, <1>5 DEF Binds

\* Splits stay splits, and primary reviews stay in the log.
LEMMA SplitsStay ==
  ASSUME TypeOK, LogsGrow
  PROVE  /\ \A p : Split(p) => Split(p)'
         /\ \A b : ReviewsBy("primary", b) \subseteq ReviewsBy("primary", b)'
<1>1. Len(reviews) \in Nat /\ Len(reconciles) \in Nat BY Logs
<1>2. \A p : Split(p) => Split(p)' BY <1>1 DEF LogsGrow, Split, Reconciled
<1>3. \A b : ReviewsBy("primary", b) \subseteq ReviewsBy("primary", b)'
  BY <1>1 DEF LogsGrow, ReviewsBy
<1>4. QED BY <1>2, <1>3

\* What is asked of one recorder's draft.
DraftFine(w) ==
  /\ pc[w] = "reviewing" /\ draft[w].reviewer = "tiebreak" =>
       \E p \in ReviewsBy("primary", draft[w].image) : Split(p)
  /\ pc[w] = "reconciling" =>
       /\ Binds(draft[w])
       /\ draft[w].round = 2 => Split(draft[w].reviews[1])

\* What a draft rests on is still there after the logs have grown.
LEMMA DraftKept ==
  ASSUME IInv, LogsGrow, NEW w \in Recorders,
         pc'[w] = pc[w], draft'[w] = draft[w]
  PROVE  DraftFine(w)'
<1>0. Len(reviews) \in Nat BY Logs DEF IInv
<1>1. PICK r : r = draft[w] OBVIOUS
<1>2. /\ \A p : Split(p) => Split(p)'
      /\ \A b : ReviewsBy("primary", b) \subseteq ReviewsBy("primary", b)'
  BY SplitsStay DEF IInv
<1>3. ASSUME pc[w] = "reviewing", r.reviewer = "tiebreak"
      PROVE  \E p \in ReviewsBy("primary", r.image)' : Split(p)'
  <2>1. PICK p \in ReviewsBy("primary", r.image) : Split(p)
    BY <1>1, <1>3 DEF IInv, DraftsInv
  <2>2. p \in ReviewsBy("primary", r.image)' /\ Split(p)' BY <1>2, <2>1
  <2>3. QED BY <2>2
<1>4. ASSUME pc[w] = "reconciling"
      PROVE  Binds(r)' /\ (r.round = 2 => Split(r.reviews[1])')
  <2>1. Binds(r) /\ (r.round = 2 => Split(r.reviews[1]))
    BY <1>1, <1>4 DEF IInv, DraftsInv
  <2>2. r \in Reconcile BY <1>1, <1>4 DEF IInv, TypeOK
  <2>3. Binds(r)' BY <1>0, <2>1, <2>2, BindsKept DEF Reconcile
  <2>4. QED BY <1>2, <2>1, <2>3
<1>5. draft'[w] = r BY <1>1
<1>6. /\ (pc'[w] = "reviewing" /\ draft'[w].reviewer = "tiebreak") =>
           \E p \in ReviewsBy("primary", draft[w].image)' : Split(p)'
      /\ pc'[w] = "reconciling" =>
           /\ Binds(draft[w])'
           /\ draft'[w].round = 2 => Split(draft[w].reviews[1])'
  <2>1. ASSUME pc'[w] = "reviewing", draft'[w].reviewer = "tiebreak"
        PROVE  \E p \in ReviewsBy("primary", draft[w].image)' : Split(p)'
    BY <1>3, <1>5, <2>1 DEF ReviewsBy
  <2>2. ASSUME pc'[w] = "reconciling"
        PROVE  /\ Binds(draft[w])'
               /\ draft'[w].round = 2 => Split(draft[w].reviews[1])'
    <3>1. Binds(draft[w])' BY <1>4, <1>5, <2>2 DEF Binds
    <3>2. draft'[w].round = 2 => Split(draft[w].reviews[1])'
      BY <1>4, <1>5, <2>2 DEF Split, Reconciled
    <3>3. QED BY <3>1, <3>2
  <2>3. QED BY <2>1, <2>2
<1>7. QED BY <1>6 DEF DraftFine

\* A tiebreak of the log still has the split before it.
LEMMA OldTiebreak ==
  ASSUME IInv, LogsGrow, NEW t \in 1..Len(reviews),
         reviews[t].reviewer = "tiebreak"
  PROVE  \E p \in ReviewsBy("primary", reviews[t].image)' :
           p < t /\ Split(p)'
<1>1. PICK b : b = reviews[t].image OBVIOUS
<1>2. PICK p \in ReviewsBy("primary", b) : p < t /\ Split(p)
  BY <1>1 DEF IInv, TiebreakNeedsSplit
<1>3. p \in ReviewsBy("primary", b)' /\ Split(p)'
  BY <1>2, SplitsStay DEF IInv
<1>4. reviews'[t].image = b BY <1>1 DEF LogsGrow
<1>5. QED BY <1>2, <1>3, <1>4 DEF ReviewsBy

\* A reconcile r of the log still binds its reviews, and still comes after a
\* split when it is a second round.
LEMMA OldReconcile ==
  ASSUME IInv, LogsGrow, NEW c \in 1..Len(reconciles),
         NEW r, r = reconciles[c]
  PROVE  /\ Binds(r)'
         /\ r.round = 2 => \E d \in Reconciled(r.reviews[1])' :
                             d < c /\ reconciles'[d].outcome = "disagree"
<1>1. Len(reviews) \in Nat /\ Len(reconciles) \in Nat /\ r \in Reconcile
  BY Logs DEF IInv
<1>2. /\ Binds(r)
      /\ r.round = 2 => \E d \in Reconciled(r.reviews[1]) :
                          d < c /\ reconciles[d].outcome = "disagree"
  BY DEF IInv, RoundsInv
<1>3. Binds(r)' BY <1>1, <1>2, BindsKept DEF Reconcile
<1>4. ASSUME r.round = 2
      PROVE  \E d \in Reconciled(r.reviews[1])' :
               d < c /\ reconciles'[d].outcome = "disagree"
  <2>1. PICK d \in Reconciled(r.reviews[1]) :
          d < c /\ reconciles[d].outcome = "disagree"
    BY <1>2, <1>4
  <2>2. d \in Reconciled(r.reviews[1])' BY <1>1, <2>1 DEF LogsGrow, Reconciled
  <2>3. reconciles'[d] = reconciles[d] BY <2>1 DEF LogsGrow, Reconciled
  <2>4. QED BY <2>1, <2>2, <2>3
<1>5. QED BY <1>3, <1>4

\* When neither log changes, everything in them stays as it is.
LEMMA LogsSame ==
  ASSUME IInv, UNCHANGED <<reviews, reconciles>>
  PROVE  TiebreakNeedsSplit' /\ RoundsInv' /\ LogsGrow
<1>1. LogsGrow BY Logs DEF IInv, LogsGrow
<1>2. TiebreakNeedsSplit' /\ RoundsInv'
  BY DEF IInv, TiebreakNeedsSplit, RoundsInv, Binds, ReviewsBy, Split,
         Reconciled
<1>3. QED BY <1>1, <1>2

\* A step keeps the drafts fine when each is what it was, or neither a review
\* nor a reconcile on its way to a log, or shown fine.
LEMMA DraftsKept ==
  ASSUME IInv, LogsGrow,
         \A w \in Recorders : \/ pc'[w] = pc[w] /\ draft'[w] = draft[w]
                              \/ pc'[w] \in {"idle", "looked"}
                              \/ DraftFine(w)'
  PROVE  DraftsInv'
<1>1. ASSUME NEW w \in Recorders PROVE DraftFine(w)'
  <2>1. CASE pc'[w] = pc[w] /\ draft'[w] = draft[w] BY <2>1, DraftKept
  <2>2. CASE pc'[w] \in {"idle", "looked"} BY <2>2 DEF DraftFine
  <2>3. QED BY <2>1, <2>2
<1>2. QED BY <1>1 DEF DraftsInv, DraftFine

-----------------------------------------------------------------------------
(* Types.                                                                  *)

\* A draft put aside leaves the others' types as they are.
LEMMA IdleTypes ==
  ASSUME TypeOK, NEW w \in Recorders, pc' = [pc EXCEPT ![w] = "idle"],
         draft' = [draft EXCEPT ![w] = Nothing]
  PROVE  /\ pc' \in [Recorders ->
                      {"idle", "looked", "reviewing", "reconciling"}]
         /\ DOMAIN draft' = Recorders
         /\ \A v \in Recorders :
              /\ pc'[v] \in {"looked", "reviewing"} => draft'[v] \in Review
              /\ pc'[v] = "reconciling" => draft'[v] \in Reconcile
         /\ \A v \in Recorders : \/ pc'[v] = pc[v] /\ draft'[v] = draft[v]
                                 \/ pc'[v] \in {"idle", "looked"}
BY DEF TypeOK

LEMMA TypeInductive == TypeOK /\ [Next]_vars => TypeOK'
<1>1. SUFFICES ASSUME TypeOK, [Next]_vars PROVE TypeOK' OBVIOUS
<1>2. ASSUME NEW w \in Recorders,
             NEW role \in {"primary", "blind", "tiebreak"},
             NEW reading \in Readings, LookAt(w, role, reading)
      PROVE  TypeOK'
  <2>1. [reviewer |-> role, image |-> image, reading |-> reading] \in Review
    BY <1>1 DEF TypeOK, Review
  <2>2. QED BY <1>1, <1>2, <2>1 DEF LookAt, TypeOK
<1>3. ASSUME NEW w \in Recorders, CheckReview(w) PROVE TypeOK'
  <2>1. CASE _round_errors(draft[w].reviewer, draft[w].image)
    BY <1>1, <1>3, <2>1, IdleTypes DEF CheckReview, TypeOK
  <2>2. CASE ~_round_errors(draft[w].reviewer, draft[w].image)
    BY <1>1, <1>3, <2>2 DEF CheckReview, TypeOK
  <2>3. QED BY <2>1, <2>2
<1>4. ASSUME NEW w \in Recorders, AppendReview(w) PROVE TypeOK'
  <2>1. reviews' \in Seq(Review)
    BY <1>1, <1>4, AppendGrows DEF AppendReview, TypeOK
  <2>2. QED BY <1>1, <1>4, <2>1, IdleTypes DEF AppendReview, TypeOK
<1>5. ASSUME NEW w \in Recorders, NEW ids \in Requests,
             CheckReconcile(w, ids)
      PROVE  TypeOK'
  <2>1. draft'[w] \in Reconcile
    BY <1>1, <1>5, Compared DEF CheckReconcile, TypeOK
  <2>2. QED BY <1>1, <1>5, <2>1 DEF CheckReconcile, TypeOK
<1>6. ASSUME NEW w \in Recorders, AppendReconcile(w) PROVE TypeOK'
  <2>1. reconciles' \in Seq(Reconcile)
    BY <1>1, <1>6, AppendGrows DEF AppendReconcile, TypeOK
  <2>2. QED BY <1>1, <1>6, <2>1, IdleTypes DEF AppendReconcile, TypeOK
<1>7. ASSUME NEW w \in Recorders, GiveUp(w) PROVE TypeOK'
  BY <1>1, <1>7, IdleTypes DEF GiveUp, TypeOK
<1>8. CASE Regenerate BY <1>1, <1>8 DEF Regenerate, TypeOK
<1>9. CASE UNCHANGED vars BY <1>1, <1>9 DEF vars, TypeOK
<1>10. QED BY <1>1, <1>2, <1>3, <1>4, <1>5, <1>6, <1>7, <1>8, <1>9 DEF Next

-----------------------------------------------------------------------------
(* The invariant.                                                          *)

LEMMA InitInv == Init => IInv
<1>1. SUFFICES ASSUME Init PROVE IInv OBVIOUS
<1>2. reviews = <<>> /\ reconciles = <<>>
      /\ \A w \in Recorders : pc[w] = "idle"
  BY <1>1 DEF Init
<1>3. TypeOK BY <1>1, <1>2 DEF Init, TypeOK
<1>4. TiebreakNeedsSplit /\ RoundsInv
  BY <1>2 DEF TiebreakNeedsSplit, RoundsInv
<1>5. DraftsInv BY <1>2 DEF DraftsInv
<1>6. QED BY <1>3, <1>4, <1>5 DEF IInv

\* A checked tiebreak has a split to break.
LEMMA CheckedIsFine ==
  ASSUME IInv, NEW w \in Recorders, CheckReview(w),
         ~_round_errors(draft[w].reviewer, draft[w].image)
  PROVE  DraftFine(w)'
<1>1. PICK b : b = draft[w].image OBVIOUS
<1>2. /\ pc'[w] = "reviewing" /\ draft' = draft
      /\ UNCHANGED <<reviews, reconciles>>
  BY DEF CheckReview, IInv, TypeOK
<1>3. ASSUME draft[w].reviewer = "tiebreak"
      PROVE  \E p \in ReviewsBy("primary", b) : Split(p)
  <2>1. ReviewsBy("primary", b) # {} /\ Split(LastPrimary(b))
    BY <1>1, <1>3 DEF _round_errors
  <2>2. Len(reviews) \in Nat BY Logs DEF IInv
  <2>3. \E p \in ReviewsBy("primary", b) :
          \A q \in ReviewsBy("primary", b) : q <= p
    BY <2>1, <2>2, HasLast DEF ReviewsBy
  <2>4. LastPrimary(b) \in ReviewsBy("primary", b) BY <2>3 DEF LastPrimary
  <2>5. QED BY <2>1, <2>4
<1>4. QED
  BY <1>1, <1>2, <1>3 DEF DraftFine, ReviewsBy, Split, Reconciled

\* An appended tiebreak comes after the split it was checked against.
LEMMA AppendReviewKeeps ==
  ASSUME IInv, NEW w \in Recorders, AppendReview(w)
  PROVE  TiebreakNeedsSplit' /\ RoundsInv' /\ LogsGrow
<1>1. PICK r : r = draft[w] OBVIOUS
<1>2. /\ r \in Review /\ reviews \in Seq(Review)
      /\ reviews' = Append(reviews, r)
      /\ reconciles' = reconciles
  BY <1>1 DEF IInv, TypeOK, AppendReview
<1>3. Len(reviews) \in Nat /\ Len(reconciles) \in Nat BY Logs DEF IInv
<1>4. reviews' \in Seq(Review) /\ Grows(reviews, reviews', r)
  BY <1>2, AppendGrows
<1>5. LogsGrow BY <1>2, <1>3, <1>4 DEF LogsGrow, Grows
<1>6. ASSUME NEW t \in 1..Len(reviews'), reviews'[t].reviewer = "tiebreak"
      PROVE  \E p \in ReviewsBy("primary", reviews[t].image)' :
               p < t /\ Split(p)'
  <2>1. CASE t \in 1..Len(reviews)
    <3>1. reviews'[t] = reviews[t] BY <2>1, <1>5 DEF LogsGrow
    <3>2. QED BY <1>5, <1>6, <2>1, <3>1, OldTiebreak DEF ReviewsBy
  <2>2. CASE t = Len(reviews) + 1
    <3>1. reviews'[t] = r BY <1>4, <2>2 DEF Grows
    <3>2. PICK p \in ReviewsBy("primary", r.image) : Split(p)
      BY <1>1, <1>6, <3>1 DEF IInv, DraftsInv, AppendReview
    <3>3. p \in ReviewsBy("primary", r.image)' /\ Split(p)'
      BY <1>5, <3>2, SplitsStay DEF IInv
    <3>4. p < t BY <1>3, <2>2, <3>2 DEF ReviewsBy
    <3>5. QED BY <3>1, <3>3, <3>4 DEF ReviewsBy
  <2>3. QED BY <1>3, <1>4, <1>6, <2>1, <2>2 DEF Grows
<1>7. ASSUME NEW c \in 1..Len(reconciles')
      PROVE  /\ Binds(reconciles[c])'
             /\ reconciles'[c].round = 2 =>
                  \E d \in Reconciled(reconciles[c].reviews[1])' :
                    d < c /\ reconciles'[d].outcome = "disagree"
  <2>1. PICK x : x = reconciles[c] OBVIOUS
  <2>2. reconciles'[c] = x BY <1>2, <2>1
  <2>3. /\ Binds(x)'
        /\ x.round = 2 => \E d \in Reconciled(x.reviews[1])' :
                            d < c /\ reconciles'[d].outcome = "disagree"
    BY <1>2, <1>5, <2>1, OldReconcile
  <2>4. QED BY <2>2, <2>3 DEF Binds, Reconciled
<1>8. QED BY <1>5, <1>6, <1>7 DEF TiebreakNeedsSplit, RoundsInv

\* An appended reconcile is the draft that was checked.
LEMMA AppendReconcileKeeps ==
  ASSUME IInv, NEW w \in Recorders, AppendReconcile(w)
  PROVE  TiebreakNeedsSplit' /\ RoundsInv' /\ LogsGrow
<1>1. PICK r : r = draft[w] OBVIOUS
<1>2. /\ r \in Reconcile /\ reconciles \in Seq(Reconcile)
      /\ reconciles' = Append(reconciles, r)
      /\ reviews' = reviews
  BY <1>1 DEF IInv, TypeOK, AppendReconcile
<1>3. Len(reviews) \in Nat /\ Len(reconciles) \in Nat BY Logs DEF IInv
<1>4. reconciles' \in Seq(Reconcile) /\ Grows(reconciles, reconciles', r)
  BY <1>2, AppendGrows
<1>5. LogsGrow BY <1>2, <1>3, <1>4 DEF LogsGrow, Grows
<1>6. ASSUME NEW t \in 1..Len(reviews'), reviews'[t].reviewer = "tiebreak"
      PROVE  \E p \in ReviewsBy("primary", reviews[t].image)' :
               p < t /\ Split(p)'
  BY <1>2, <1>5, <1>6, OldTiebreak
<1>7. ASSUME NEW c \in 1..Len(reconciles'), NEW x, x = reconciles'[c]
      PROVE  /\ Binds(x)'
             /\ x.round = 2 => \E d \in Reconciled(x.reviews[1])' :
                                 d < c /\ reconciles'[d].outcome = "disagree"
  <2>1. CASE c \in 1..Len(reconciles)
    <3>1. x = reconciles[c] BY <1>5, <1>7, <2>1 DEF LogsGrow
    <3>2. QED BY <1>5, <2>1, <3>1, OldReconcile
  <2>2. CASE c = Len(reconciles) + 1
    <3>1. x = r BY <1>4, <1>7, <2>2 DEF Grows
    <3>2. Binds(x) /\ (x.round = 2 => Split(x.reviews[1]))
      BY <1>1, <3>1 DEF IInv, DraftsInv, AppendReconcile
    <3>3. Binds(x)'
      BY <1>2, <1>3, <1>5, <3>1, <3>2, BindsKept DEF Reconcile
    <3>4. ASSUME x.round = 2
          PROVE  \E d \in Reconciled(x.reviews[1])' :
                   d < c /\ reconciles'[d].outcome = "disagree"
      <4>1. PICK d \in Reconciled(x.reviews[1]) :
              reconciles[d].outcome = "disagree"
        BY <3>2, <3>4 DEF Split
      <4>2. d \in Reconciled(x.reviews[1])' /\ d < c
            /\ reconciles'[d] = reconciles[d]
        BY <1>3, <1>5, <2>2, <4>1 DEF LogsGrow, Reconciled
      <4>3. QED BY <4>1, <4>2
    <3>5. QED BY <3>3, <3>4
  <2>3. QED BY <1>3, <1>4, <1>7, <2>1, <2>2 DEF Grows
<1>8. ASSUME NEW c \in 1..Len(reconciles')
      PROVE  /\ Binds(reconciles[c])'
             /\ reconciles'[c].round = 2 =>
                  \E d \in Reconciled(reconciles[c].reviews[1])' :
                    d < c /\ reconciles'[d].outcome = "disagree"
  <2>1. PICK x : x = reconciles'[c] OBVIOUS
  <2>2. QED BY <1>7, <2>1 DEF Binds, Reconciled
<1>9. QED BY <1>5, <1>6, <1>8 DEF TiebreakNeedsSplit, RoundsInv

LEMMA Inductive == IInv /\ [Next]_vars => IInv'
<1>1. SUFFICES ASSUME IInv, [Next]_vars PROVE IInv' OBVIOUS
<1>2. TypeOK /\ TypeOK' BY <1>1, TypeInductive DEF IInv
<1>3. ASSUME NEW w \in Recorders,
             NEW role \in {"primary", "blind", "tiebreak"},
             NEW reading \in Readings, LookAt(w, role, reading)
      PROVE  IInv'
  <2>1. TiebreakNeedsSplit' /\ RoundsInv' /\ LogsGrow
    BY <1>1, <1>3, LogsSame DEF LookAt
  <2>2. \A v \in Recorders : \/ pc'[v] = pc[v] /\ draft'[v] = draft[v]
                             \/ pc'[v] \in {"idle", "looked"}
    BY <1>2, <1>3 DEF LookAt, TypeOK
  <2>3. DraftsInv' BY <1>1, <2>1, <2>2, DraftsKept
  <2>4. QED BY <1>2, <2>1, <2>3 DEF IInv
<1>4. ASSUME NEW w \in Recorders, CheckReview(w) PROVE IInv'
  <2>1. TiebreakNeedsSplit' /\ RoundsInv' /\ LogsGrow
    BY <1>1, <1>4, LogsSame DEF CheckReview
  <2>2. \A v \in Recorders : \/ pc'[v] = pc[v] /\ draft'[v] = draft[v]
                             \/ pc'[v] \in {"idle", "looked"}
                             \/ DraftFine(v)'
    <3>1. CASE _round_errors(draft[w].reviewer, draft[w].image)
      BY <1>2, <1>4, <3>1, IdleTypes DEF CheckReview
    <3>2. CASE ~_round_errors(draft[w].reviewer, draft[w].image)
      <4>1. DraftFine(w)' BY <1>1, <1>4, <3>2, CheckedIsFine
      <4>2. \A v \in Recorders \ {w} : pc'[v] = pc[v] /\ draft'[v] = draft[v]
        BY <1>2, <1>4, <3>2 DEF CheckReview, TypeOK
      <4>3. QED BY <4>1, <4>2
    <3>3. QED BY <3>1, <3>2
  <2>3. DraftsInv' BY <1>1, <2>1, <2>2, DraftsKept
  <2>4. QED BY <1>2, <2>1, <2>3 DEF IInv
<1>5. ASSUME NEW w \in Recorders, AppendReview(w) PROVE IInv'
  <2>1. TiebreakNeedsSplit' /\ RoundsInv' /\ LogsGrow
    BY <1>1, <1>5, AppendReviewKeeps
  <2>2. \A v \in Recorders : \/ pc'[v] = pc[v] /\ draft'[v] = draft[v]
                             \/ pc'[v] \in {"idle", "looked"}
    BY <1>2, <1>5, IdleTypes DEF AppendReview
  <2>3. DraftsInv' BY <1>1, <2>1, <2>2, DraftsKept
  <2>4. QED BY <1>2, <2>1, <2>3 DEF IInv
<1>6. ASSUME NEW w \in Recorders, NEW ids \in Requests,
             CheckReconcile(w, ids)
      PROVE  IInv'
  <2>1. /\ TiebreakNeedsSplit' /\ RoundsInv' /\ LogsGrow
        /\ UNCHANGED <<reviews, reconciles>>
    BY <1>1, <1>6, LogsSame DEF CheckReconcile
  <2>2. PICK r : r = draft'[w] OBVIOUS
  <2>3. /\ r = [reviews |-> ids,
                round |-> reconcile(ReadingsOf(ids)).round,
                outcome |-> reconcile(ReadingsOf(ids)).outcome,
                majority |-> reconcile(ReadingsOf(ids)).majority]
        /\ Reconcilable(ids) /\ pc'[w] = "reconciling"
    BY <1>2, <1>6, <2>2 DEF CheckReconcile, TypeOK
  <2>4. Binds(r) /\ (r.round = 2 => Split(r.reviews[1]))
    BY <1>2, <2>3, Compared
  <2>5. DraftFine(w)'
    BY <2>1, <2>2, <2>3, <2>4 DEF DraftFine, Binds, Split, Reconciled
  <2>6. \A v \in Recorders \ {w} : pc'[v] = pc[v] /\ draft'[v] = draft[v]
    BY <1>2, <1>6 DEF CheckReconcile, TypeOK
  <2>7. DraftsInv' BY <1>1, <2>1, <2>5, <2>6, DraftsKept
  <2>8. QED BY <1>2, <2>1, <2>7 DEF IInv
<1>7. ASSUME NEW w \in Recorders, AppendReconcile(w) PROVE IInv'
  <2>1. TiebreakNeedsSplit' /\ RoundsInv' /\ LogsGrow
    BY <1>1, <1>7, AppendReconcileKeeps
  <2>2. \A v \in Recorders : \/ pc'[v] = pc[v] /\ draft'[v] = draft[v]
                             \/ pc'[v] \in {"idle", "looked"}
    BY <1>2, <1>7, IdleTypes DEF AppendReconcile
  <2>3. DraftsInv' BY <1>1, <2>1, <2>2, DraftsKept
  <2>4. QED BY <1>2, <2>1, <2>3 DEF IInv
<1>8. ASSUME NEW w \in Recorders, GiveUp(w) PROVE IInv'
  <2>1. TiebreakNeedsSplit' /\ RoundsInv' /\ LogsGrow
    BY <1>1, <1>8, LogsSame DEF GiveUp
  <2>2. \A v \in Recorders : \/ pc'[v] = pc[v] /\ draft'[v] = draft[v]
                             \/ pc'[v] \in {"idle", "looked"}
    BY <1>2, <1>8, IdleTypes DEF GiveUp
  <2>3. DraftsInv' BY <1>1, <2>1, <2>2, DraftsKept
  <2>4. QED BY <1>2, <2>1, <2>3 DEF IInv
<1>9. CASE Regenerate \/ UNCHANGED vars
  <2>1. UNCHANGED <<reviews, reconciles, pc, draft>>
    BY <1>9 DEF Regenerate, vars
  <2>2. TiebreakNeedsSplit' /\ RoundsInv' /\ LogsGrow
    BY <1>1, <2>1, LogsSame
  <2>3. DraftsInv' BY <1>1, <2>1, <2>2, DraftsKept
  <2>4. QED BY <1>2, <2>2, <2>3 DEF IInv
<1>10. QED BY <1>1, <1>3, <1>4, <1>5, <1>6, <1>7, <1>8, <1>9 DEF Next

LEMMA Invariant == Spec => []IInv
<1>1. QED BY InitInv, Inductive, PTL DEF Spec

-----------------------------------------------------------------------------
(* The results.                                                            *)

\* Only whole reviews and reconciles are ever appended to the two logs, by
\* any number of record_vision_review and record_reconcile at once: what
\* reconcile computes always is a reconcile the log can hold.
THEOREM TypeCorrect == Spec => []TypeOK
<1>1. IInv => TypeOK BY DEF IInv
<1>2. QED BY <1>1, Invariant, PTL

\* A tiebreak review always follows a primary review of the same bytes that
\* was split, although _round_errors is tested before the lock is taken.
THEOREM TiebreaksNeedSplits == Spec => []TiebreakNeedsSplit
<1>1. IInv => TiebreakNeedsSplit BY DEF IInv
<1>2. QED BY <1>1, Invariant, PTL

\* A second round always follows a first one that was split, and all their
\* reviews are of one image, although record_reconcile tests this before the
\* lock is taken.
THEOREM SecondRoundsNeedSplits == Spec => []SecondRoundNeedsSplit
<1>1. IInv => SecondRoundNeedsSplit
  <2>1. SUFFICES ASSUME IInv, NEW c \in 1..Len(reconciles),
                        reconciles[c].round = 2
                 PROVE  \E d \in Reconciled(reconciles[c].reviews[1]) :
                          /\ d < c /\ reconciles[d].outcome = "disagree"
                          /\ \A k \in 1..3, l \in 1..2 :
                               reviews[reconciles[c].reviews[k]].image =
                                 reviews[reconciles[d].reviews[l]].image
    BY DEF SecondRoundNeedsSplit
  <2>2. PICK d \in Reconciled(reconciles[c].reviews[1]) :
          d < c /\ reconciles[d].outcome = "disagree"
    BY <2>1 DEF IInv, RoundsInv
  <2>3. /\ d \in 1..Len(reconciles)
        /\ reconciles[d].reviews[1] = reconciles[c].reviews[1]
    BY <2>2 DEF Reconciled
  <2>4. Binds(reconciles[c]) /\ Binds(reconciles[d])
    BY <2>1, <2>3 DEF IInv, RoundsInv
  <2>5. reconciles[d].round \in {1, 2}
    BY <2>1, <2>3, Logs DEF IInv, Reconcile
  <2>6. \A k \in 1..3 : reviews[reconciles[c].reviews[k]].image =
                          reviews[reconciles[c].reviews[1]].image
    BY <2>1, <2>4 DEF Binds
  <2>7. \A l \in 1..2 : reviews[reconciles[d].reviews[l]].image =
                          reviews[reconciles[d].reviews[1]].image
    <3>1. /\ DOMAIN reconciles[d].reviews = 1..(reconciles[d].round + 1)
          /\ \A l \in DOMAIN reconciles[d].reviews :
               reviews[reconciles[d].reviews[l]].image =
                 reviews[reconciles[d].reviews[1]].image
      BY <2>4 DEF Binds
    <3>2. \A l \in 1..2 : l \in 1..(reconciles[d].round + 1) BY <2>5
    <3>3. QED BY <3>1, <3>2
  <2>8. QED BY <2>2, <2>3, <2>6, <2>7
<1>2. QED BY <1>1, Invariant, PTL

\* When a second round agrees, its majority is exactly the errors of the
\* tiebreak, whatever the three reviews found (reviews_agree and the majority
\* of reconcile).
THEOREM MajoritiesAreTheTiebreaks == Spec => []MajorityIsTheTiebreaks
<1>1. IInv => MajorityIsTheTiebreaks
  BY DEF IInv, RoundsInv, Binds, MajorityIsTheTiebreaks
<1>2. QED BY <1>1, Invariant, PTL

-----------------------------------------------------------------------------
(* What the Stop hook asks for.                                            *)

\* The outcomes of each round.
OutcomeOK(r) == /\ r.round = 1 => r.outcome \in {"agree", "disagree"}
                /\ r.round = 2 => r.outcome \in {"agree", "unresolved"}

\* Every round in the log or in a draft has one of its outcomes.
OutcomesInv ==
  /\ \A c \in 1..Len(reconciles) : OutcomeOK(reconciles[c])
  /\ \A w \in Recorders : pc[w] = "reconciling" => OutcomeOK(draft[w])

\* What is compared has an outcome of its round.
LEMMA ComparedOutcome ==
  ASSUME TypeOK, NEW ids \in Requests, Reconcilable(ids),
         NEW s, s = ReadingsOf(ids), NEW r, r.round = reconcile(s).round, r.outcome = reconcile(s).outcome
  PROVE  OutcomeOK(r)
<1>1. \A i \in 1..Len(reviews) : reviews[i].reading \in Readings BY Logs DEF Review
<1>2. CASE ids \in [1..2 -> 1..Len(reviews)]
  <2>1. Len(ids) = 2 BY <1>2, Logs, FunctionSeq
  <2>2. s \in [1..2 -> Readings] BY <1>1, <1>2, <2>1 DEF ReadingsOf
  <2> QED BY <2>2, RoundOne DEF OutcomeOK
<1>3. CASE ids \in [1..3 -> 1..Len(reviews)]
  <2>1. Len(ids) = 3 BY <1>3, Logs, FunctionSeq
  <2>2. s \in [1..3 -> Readings] BY <1>1, <1>3, <2>1 DEF ReadingsOf
  <2> QED BY <2>2, RoundTwo DEF OutcomeOK
<1> QED BY <1>2, <1>3 DEF Requests

\* What is appended was drafted, and what is drafted was compared.
LEMMA OutcomesInductive == IInv /\ OutcomesInv /\ [Next]_vars => OutcomesInv'
<1> SUFFICES ASSUME IInv, OutcomesInv, [Next]_vars PROVE OutcomesInv' OBVIOUS
<1>0. TypeOK BY DEF IInv
<1>1. ASSUME NEW w \in Recorders, AppendReconcile(w) PROVE OutcomesInv'
  <2>1. PICK r : r = draft[w] OBVIOUS
  <2>2. /\ r \in Reconcile /\ reconciles \in Seq(Reconcile) /\ OutcomeOK(r)
        /\ reconciles' = Append(reconciles, r)
    BY <1>0, <1>1, <2>1 DEF TypeOK, AppendReconcile, OutcomesInv
  <2>3. Grows(reconciles, reconciles', r) BY <2>2, AppendGrows
  <2>4. \A c \in 1..Len(reconciles') : c \in 1..Len(reconciles) \/ c = Len(reconciles) + 1
    BY <1>0, <2>3, Logs DEF Grows
  <2>5. \A c \in 1..Len(reconciles') : OutcomeOK(reconciles'[c])
    BY <2>2, <2>3, <2>4 DEF Grows, OutcomesInv
  <2>6. \A v \in Recorders : pc'[v] = "reconciling" => OutcomeOK(draft'[v])
    BY <1>0, <1>1 DEF AppendReconcile, TypeOK, OutcomesInv
  <2> QED BY <2>5, <2>6 DEF OutcomesInv, OutcomeOK
<1>2. ASSUME NEW w \in Recorders, NEW ids \in Requests, CheckReconcile(w, ids)
      PROVE  OutcomesInv'
  <2>1. PICK r, s : r = draft'[w] /\ s = ReadingsOf(ids) OBVIOUS
  <2>2. /\ r = [reviews |-> ids, round |-> reconcile(s).round, outcome |-> reconcile(s).outcome,
                majority |-> reconcile(s).majority]
        /\ Reconcilable(ids) /\ reconciles' = reconciles
        /\ \A v \in Recorders \ {w} : pc'[v] = pc[v] /\ draft'[v] = draft[v]
    BY <1>0, <1>2, <2>1 DEF CheckReconcile, TypeOK
  <2>3. r.round = reconcile(s).round /\ r.outcome = reconcile(s).outcome BY <2>2
  <2>4. OutcomeOK(r) BY <1>0, <2>1, <2>2, <2>3, ComparedOutcome
  <2> QED BY <2>1, <2>2, <2>4 DEF OutcomesInv, OutcomeOK
<1>3. ASSUME UNCHANGED reconciles,
             \A w \in Recorders : \/ pc'[w] = pc[w] /\ draft'[w] = draft[w]
                                  \/ pc'[w] # "reconciling"
      PROVE  OutcomesInv'
  BY <1>3 DEF OutcomesInv, OutcomeOK
<1>4. ASSUME NEW w \in Recorders,
             \/ \E role \in {"primary", "blind", "tiebreak"}, r \in Readings : LookAt(w, role, r)
             \/ CheckReview(w) \/ AppendReview(w) \/ GiveUp(w)
      PROVE  OutcomesInv'
  <2>1. pc'[w] # "reconciling" /\ UNCHANGED reconciles
    BY <1>0, <1>4 DEF LookAt, CheckReview, AppendReview, GiveUp, TypeOK
  <2>2. \A v \in Recorders \ {w} : pc'[v] = pc[v] /\ draft'[v] = draft[v]
    BY <1>0, <1>4 DEF LookAt, CheckReview, AppendReview, GiveUp, TypeOK
  <2> QED BY <1>3, <2>1, <2>2
<1>5. CASE Regenerate \/ UNCHANGED vars BY <1>3, <1>5 DEF Regenerate, vars
<1> QED BY <1>1, <1>2, <1>4, <1>5 DEF Next

\* A set of numbers up to n has a first one: the last one counted from n down.
LEMMA HasFirst ==
  ASSUME NEW n \in Nat, NEW S, S \subseteq 1..n, S # {}
  PROVE  \E p \in S : \A q \in S : p <= q
<1> DEFINE T == {n + 1 - q : q \in S}
<1>1. T \subseteq 1..n /\ T # {}
  <2>1. \A q \in S : n + 1 - q \in 1..n OBVIOUS
  <2> QED BY <2>1
<1>2. PICK t \in T : \A u \in T : u <= t BY <1>1, HasLast
<1>3. PICK p \in S : t = n + 1 - p OBVIOUS
<1>4. \A q \in S : n + 1 - q <= n + 1 - p BY <1>2, <1>3
<1> QED BY <1>4

\* Of what has been reconciled there is a reconcile that decides, and its
\* round is the highest.
LEMMA HasVerdict ==
  ASSUME TypeOK, NEW p, Reconciled(p) # {}
  PROVE  /\ LastReconcile(p) \in Reconciled(p)
         /\ \A d \in Reconciled(p) : reconciles[d].round <= reconciles[LastReconcile(p)].round
<1>1. PICK S, n : S = Reconciled(p) /\ n = Len(reconciles) OBVIOUS
<1>2. /\ n \in Nat /\ S \subseteq 1..n /\ S # {}
      /\ \A d \in S : d \in Nat /\ reconciles[d].round \in {1, 2}
  BY <1>1, Logs DEF Reconciled, Reconcile
<1>3. \E c \in S : \A d \in S \ {c} :
        \/ reconciles[d].round < reconciles[c].round
        \/ reconciles[d].round = reconciles[c].round /\ c < d
  <2> DEFINE T == {d \in S : reconciles[d].round = 2}
  <2>1. CASE T # {}
    <3>1. T \subseteq 1..n BY <1>2
    <3>2. PICK c \in T : \A d \in T : c <= d BY <1>2, <2>1, <3>1, HasFirst
    <3> QED BY <1>2, <3>2
  <2>2. CASE T = {}
    <3>1. PICK c \in S : \A d \in S : c <= d BY <1>2, HasFirst
    <3>2. \A d \in S : reconciles[d].round = 1 BY <1>2, <2>2
    <3> QED BY <1>2, <3>1, <3>2
  <2> QED BY <2>1, <2>2
<1>4. PICK e : e = LastReconcile(p) OBVIOUS
<1>5. /\ e \in S
      /\ \A d \in S \ {e} : \/ reconciles[d].round < reconciles[e].round
                            \/ reconciles[d].round = reconciles[e].round /\ e < d
  BY <1>1, <1>3, <1>4 DEF LastReconcile
<1>6. \A d \in S : reconciles[d].round <= reconciles[e].round BY <1>2, <1>5
<1> QED BY <1>1, <1>4, <1>5, <1>6

\* The reconcile of a primary and a blind review of one image is taken when
\* there has been none.
LEMMA FirstRoundOffered ==
  ASSUME TypeOK, NEW b, NEW p \in ReviewsBy("primary", b), NEW q \in ReviewsBy("blind", b),
         Reconciled(p) = {}
  PROVE  Offers(p, 2) # {}
<1> DEFINE ids == [k \in 1..2 |-> IF k = 1 THEN p ELSE q]
<1>1. p \in 1..Len(reviews) /\ q \in 1..Len(reviews) BY DEF ReviewsBy
<1>2. ids \in [1..2 -> 1..Len(reviews)] /\ ids[1] = p /\ ids[2] = q BY <1>1
<1>3. Len(ids) = 2 BY <1>2, FunctionSeq
<1>4. reconcile(ReadingsOf(ids)).round = 1
  <2>1. PICK s : s = ReadingsOf(ids) OBVIOUS
  <2>2. s \in [1..2 -> Readings] BY <1>2, <1>3, <2>1, Logs DEF ReadingsOf, Review
  <2> QED BY <2>1, <2>2, RoundOne
<1>5. \A k \in 1..2 : /\ reviews[ids[k]].reviewer = Reviewers[k]
                      /\ reviews[ids[k]].image = reviews[ids[1]].image
  BY <1>2 DEF ReviewsBy, Reviewers
<1> HIDE DEF ids
<1>6. Reconcilable(ids) BY <1>2, <1>3, <1>4, <1>5 DEF Reconcilable
<1> QED BY <1>2, <1>6 DEF Offers

\* The reconcile of three reviews of one image is taken after a split that no
\* second round has settled.
LEMMA SecondRoundOffered ==
  ASSUME TypeOK, NEW b, NEW p \in ReviewsBy("primary", b), NEW q \in ReviewsBy("blind", b),
         NEW t \in ReviewsBy("tiebreak", b),
         Split(p), \A c \in Reconciled(p) : reconciles[c].round = 1
  PROVE  Offers(p, 3) # {}
<1> DEFINE ids == [k \in 1..3 |-> IF k = 1 THEN p ELSE IF k = 2 THEN q ELSE t]
<1>1. {p, q, t} \subseteq 1..Len(reviews) BY DEF ReviewsBy
<1>2. ids \in [1..3 -> 1..Len(reviews)] /\ ids[1] = p /\ ids[2] = q /\ ids[3] = t BY <1>1
<1>3. Len(ids) = 3 BY <1>2, FunctionSeq
<1>4. reconcile(ReadingsOf(ids)).round = 2
  <2>1. PICK s : s = ReadingsOf(ids) OBVIOUS
  <2>2. s \in [1..3 -> Readings] BY <1>2, <1>3, <2>1, Logs DEF ReadingsOf, Review
  <2> QED BY <2>1, <2>2, RoundTwo
<1>5. \A k \in 1..3 : /\ reviews[ids[k]].reviewer = Reviewers[k]
                      /\ reviews[ids[k]].image = reviews[ids[1]].image
  BY <1>2 DEF ReviewsBy, Reviewers
<1> HIDE DEF ids
<1>6. Reconcilable(ids) BY <1>2, <1>3, <1>4, <1>5 DEF Reconcilable
<1> QED BY <1>2, <1>6 DEF Offers

\* Whatever the Stop hook asks for of the latest primary review of the bytes
\* on the disk, its writer takes it, for any number of recorders at once
\* (DemandsCanBeMet).
THEOREM DemandsAreMet == Spec => []DemandsCanBeMet
<1>1. IInv /\ OutcomesInv => DemandsCanBeMet
  <2> SUFFICES ASSUME IInv, OutcomesInv, NEW p \in ReviewsBy("primary", image), p = LastPrimary(image)
               PROVE  CASE Demand(p) = "blind" -> ~_round_errors("blind", image)
                        [] Demand(p) = "reconcile" -> Offers(p, 2) # {}
                        [] Demand(p) = "tiebreak" ->
                             ~_round_errors("tiebreak", image) \/ Offers(p, 3) # {}
                        [] OTHER -> TRUE
    BY DEF DemandsCanBeMet
  <2>0. TypeOK BY DEF IInv
  <2>1. reviews[p].image = image BY DEF ReviewsBy
  <2>2. Reconciled(p) # {} => /\ LastReconcile(p) \in Reconciled(p)
                              /\ reconciles[LastReconcile(p)] \in Reconcile
    BY <2>0, HasVerdict, Logs DEF Reconciled
  <2>3. ASSUME Demand(p) = "blind" PROVE ~_round_errors("blind", image)
    <3>1. ReviewsBy("blind", image) = {} BY <2>1, <2>2, <2>3 DEF Demand, VerdictOf, Reconcile
    <3> QED BY <3>1 DEF _round_errors
  <2>4. ASSUME Demand(p) = "reconcile" PROVE Offers(p, 2) # {}
    <3>1. ReviewsBy("blind", image) # {} /\ VerdictOf(p) = "none" BY <2>1, <2>4 DEF Demand
    <3>2. Reconciled(p) = {} BY <2>2, <3>1 DEF VerdictOf, Reconcile
    <3> QED BY <2>0, <3>1, <3>2, FirstRoundOffered
  <2>5. ASSUME Demand(p) = "tiebreak"
        PROVE  ~_round_errors("tiebreak", image) \/ Offers(p, 3) # {}
    <3>1. ReviewsBy("blind", image) # {} /\ VerdictOf(p) = "disagree" BY <2>1, <2>5 DEF Demand
    <3>2. Reconciled(p) # {} BY <3>1 DEF VerdictOf
    <3>3. PICK c \in Reconciled(p) : /\ c = LastReconcile(p) /\ reconciles[c].outcome = "disagree"
                                     /\ \A d \in Reconciled(p) : reconciles[d].round <= reconciles[c].round
      BY <2>0, <3>1, <3>2, HasVerdict DEF VerdictOf
    <3>4. \A d \in Reconciled(p) : reconciles[d].round \in {1, 2} /\ OutcomeOK(reconciles[d])
      BY <2>0, Logs DEF Reconciled, Reconcile, OutcomesInv
    <3>5. reconciles[c].round = 1 BY <3>3, <3>4 DEF OutcomeOK
    <3>6. \A d \in Reconciled(p) : reconciles[d].round = 1 BY <3>3, <3>4, <3>5
    <3>7. Split(p) BY <3>3 DEF Split
    <3>8. CASE ReviewsBy("tiebreak", image) = {} BY <3>7, <3>8 DEF _round_errors
    <3>9. CASE ReviewsBy("tiebreak", image) # {}
      BY <2>0, <3>1, <3>6, <3>7, <3>9, SecondRoundOffered
    <3> QED BY <3>8, <3>9
  <2> QED BY <2>3, <2>4, <2>5
<1>2. Init => OutcomesInv BY DEF Init, OutcomesInv
<1> QED BY <1>1, <1>2, Invariant, OutcomesInductive, PTL DEF Spec

=============================================================================
