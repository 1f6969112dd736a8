---------------------------- MODULE ReviewRounds ----------------------------
(***************************************************************************)
(* The independent reviews of one image and their reconciliation:          *)
(* record_vision_review, _round_errors and record_reconcile of             *)
(* src/wire/records.py, reconcile and reviews_agree of src/wire/_vrp.py,   *)
(* and what the Stop hook's _dual_review_problems demands of them.         *)
(*                                                                         *)
(* A recorder checks the rounds against the logs it has read and appends   *)
(* later, under the lock RecordLog models: the check itself is outside the *)
(* lock, so other recorders can append in between, and the image can be    *)
(* drawn again between any two steps.                                      *)
(*                                                                         *)
(* A review's event id is its place in the log; recorded_at orders reviews *)
(* as the log does (the log refuses a clock that goes back, and stamps     *)
(* have microseconds).  What a review says is a reading: the categories of *)
(* its findings and those found with severity error.                       *)
(***************************************************************************)
EXTENDS Naturals, Sequences, FiniteSets

CONSTANTS Recorders,      \* processes that record reviews and reconciles
          Images,         \* the bytes the image file can have
          Readings,       \* what a review can find
          MaxReviews,     \* bound: reviews in the log
          MaxReconciles   \* bound: reconciles in the log

ASSUME ReadingsAssumption ==
  \A r \in Readings : /\ IsFiniteSet(r.categories)
                      /\ r.errors \subseteq r.categories

ASSUME BoundsAssumption == MaxReviews \in Nat /\ MaxReconciles \in Nat

Reviewers == <<"primary", "blind", "tiebreak">>

VARIABLES
  image,      \* the bytes of the image file
  reviews,    \* vision-reviews.jsonl
  reconciles, \* review-reconciles.jsonl
  pc,         \* where each recorder is
  draft       \* the review or the reconcile each recorder prepares

vars == <<image, reviews, reconciles, pc, draft>>

Nothing == "nothing"

Review == [reviewer : {"primary", "blind", "tiebreak"}, image : Images,
           reading : Readings]

Reconcile == [reviews : [1..2 -> Nat] \union [1..3 -> Nat], round : {1, 2},
              outcome : {"agree", "disagree", "unresolved"},
              majority : SUBSET UNION {r.errors : r \in Readings}]

-----------------------------------------------------------------------------
(* Comparing reviews.                                                      *)

\* One-sided errors are overlooked.
reviews_agreeOnCategories(l, r) ==
  2 * Cardinality(l.categories \intersect r.categories)
    >= Cardinality(l.categories \union r.categories)

\* Jaccard of the categories at least 0.5 (1 when both are empty), and no
\* error category on one side only.
reviews_agree(l, r) ==
  /\ 2 * Cardinality(l.categories \intersect r.categories)
       >= Cardinality(l.categories \union r.categories)
  /\ l.errors = r.errors

\* The error categories at least two of three readings have.
Majority(a, b, c) == (a.errors \intersect b.errors)
                       \union (a.errors \intersect c.errors)
                       \union (b.errors \intersect c.errors)

\* Rounds are counted from zero.
reconcileMiscounted(s) ==
  [round |-> Len(s) - 2, majority |-> {},
   outcome |-> IF reviews_agree(s[1], s[Len(s)]) THEN "agree" ELSE "disagree"]

\* s is the readings of primary and blind, or of primary, blind, tiebreak.
reconcile(s) ==
  IF Len(s) = 2
    THEN [round |-> 1, majority |-> {},
          outcome |-> IF reviews_agree(s[1], s[2]) THEN "agree"
                                                   ELSE "disagree"]
    ELSE [round |-> 2, majority |-> Majority(s[1], s[2], s[3]),
          outcome |-> IF reviews_agree(s[3], s[1]) \/ reviews_agree(s[3], s[2])
                        THEN "agree" ELSE "unresolved"]

-----------------------------------------------------------------------------
(* What a recorder reads in the logs.                                      *)

ReviewsBy(role, bytes) == {i \in 1..Len(reviews) : /\ reviews[i].reviewer = role
                                                   /\ reviews[i].image = bytes}

LastPrimary(bytes) == CHOOSE p \in ReviewsBy("primary", bytes) :
                        \A q \in ReviewsBy("primary", bytes) : q <= p

\* The reconciles of primary p, in the order of the log.
Reconciled(p) == {c \in 1..Len(reconciles) : reconciles[c].reviews[1] = p}

Split(p) == \E c \in Reconciled(p) : reconciles[c].outcome = "disagree"

\* _round_errors without its last test.
_round_errorsNoSplit(role, bytes) ==
  /\ role # "primary"
  /\ \/ ReviewsBy("primary", bytes) = {}
     \/ \E i \in ReviewsBy(role, bytes) : i > LastPrimary(bytes)

\* The review is refused: no primary saw these bytes, the latest primary has
\* been followed by such a review, or a tiebreak has no split to break.
_round_errors(role, bytes) ==
  /\ role # "primary"
  /\ \/ ReviewsBy("primary", bytes) = {}
     \/ \E i \in ReviewsBy(role, bytes) : i > LastPrimary(bytes)
     \/ role = "tiebreak" /\ ~Split(LastPrimary(bytes))

\* The event ids a reconcile may name.
Requests == [1..2 -> 1..Len(reviews)] \union [1..3 -> 1..Len(reviews)]

ReadingsOf(ids) == [k \in 1..Len(ids) |-> reviews[ids[k]].reading]

\* A second round is taken for what it is named.
ReconcilableAnyRound(ids) ==
  /\ \A k \in 1..Len(ids) : /\ reviews[ids[k]].reviewer = Reviewers[k]
                            /\ reviews[ids[k]].image = reviews[ids[1]].image
  /\ \A c \in Reconciled(ids[1]) :
       reconciles[c].round < reconcile(ReadingsOf(ids)).round

\* > where the code has >=.
ReconcilableAgain(ids) ==
  LET round == reconcile(ReadingsOf(ids)).round
  IN  /\ \A k \in 1..Len(ids) : /\ reviews[ids[k]].reviewer = Reviewers[k]
                                /\ reviews[ids[k]].image = reviews[ids[1]].image
      /\ \A c \in Reconciled(ids[1]) : reconciles[c].round <= round
      /\ round = 2 => Split(ids[1])

\* Only a blind review that is younger than the primary will do.
ReconcilableInOrder(ids) ==
  LET round == reconcile(ReadingsOf(ids)).round
  IN  /\ \A k \in 1..Len(ids) : /\ reviews[ids[k]].reviewer = Reviewers[k]
                                /\ reviews[ids[k]].image = reviews[ids[1]].image
      /\ ids[1] < ids[2]
      /\ \A c \in Reconciled(ids[1]) : reconciles[c].round < round
      /\ round = 2 => Split(ids[1])

\* record_reconcile raises nothing: roles in order, one image, a round not
\* yet reconciled, and a second round only after a split.
Reconcilable(ids) ==
  LET round == reconcile(ReadingsOf(ids)).round
  IN  /\ \A k \in 1..Len(ids) : /\ reviews[ids[k]].reviewer = Reviewers[k]
                                /\ reviews[ids[k]].image = reviews[ids[1]].image
      /\ \A c \in Reconciled(ids[1]) : reconciles[c].round < round
      /\ round = 2 => Split(ids[1])

-----------------------------------------------------------------------------
Init ==
  /\ image \in Images
  /\ reviews = <<>> /\ reconciles = <<>>
  /\ pc = [w \in Recorders |-> "idle"]
  /\ draft = [w \in Recorders |-> Nothing]

\* The image is hashed and looked at.
LookAt(w, role, reading) ==
  /\ pc[w] = "idle" /\ Len(reviews) < MaxReviews
  /\ pc' = [pc EXCEPT ![w] = "looked"]
  /\ draft' = [draft EXCEPT ![w] = [reviewer |-> role, image |-> image,
                                    reading |-> reading]]
  /\ UNCHANGED <<image, reviews, reconciles>>

\* The rounds are checked against the logs as they are now.
CheckReview(w) ==
  /\ pc[w] = "looked"
  /\ IF _round_errors(draft[w].reviewer, draft[w].image)
       THEN /\ pc' = [pc EXCEPT ![w] = "idle"]
            /\ draft' = [draft EXCEPT ![w] = Nothing]
       ELSE pc' = [pc EXCEPT ![w] = "reviewing"] /\ UNCHANGED draft
  /\ UNCHANGED <<image, reviews, reconciles>>

AppendReview(w) ==
  /\ pc[w] = "reviewing" /\ Len(reviews) < MaxReviews
  /\ reviews' = Append(reviews, draft[w])
  /\ pc' = [pc EXCEPT ![w] = "idle"]
  /\ draft' = [draft EXCEPT ![w] = Nothing]
  /\ UNCHANGED <<image, reconciles>>

\* The named reviews and their earlier reconciles are read and compared.
CheckReconcile(w, ids) ==
  /\ pc[w] = "idle" /\ Len(reconciles) < MaxReconciles
  /\ Reconcilable(ids)
  /\ pc' = [pc EXCEPT ![w] = "reconciling"]
  /\ draft' = [draft EXCEPT ![w] =
       LET result == reconcile(ReadingsOf(ids))
       IN  [reviews |-> ids, round |-> result.round,
            outcome |-> result.outcome, majority |-> result.majority]]
  /\ UNCHANGED <<image, reviews, reconciles>>

AppendReconcile(w) ==
  /\ pc[w] = "reconciling" /\ Len(reconciles) < MaxReconciles
  /\ reconciles' = Append(reconciles, draft[w])
  /\ pc' = [pc EXCEPT ![w] = "idle"]
  /\ draft' = [draft EXCEPT ![w] = Nothing]
  /\ UNCHANGED <<image, reviews>>

\* The process ends, or the append is refused: a repeated impression, a
\* clock set back, a log that fails integrity, an invalid record.
GiveUp(w) ==
  /\ pc[w] # "idle"
  /\ pc' = [pc EXCEPT ![w] = "idle"]
  /\ draft' = [draft EXCEPT ![w] = Nothing]
  /\ UNCHANGED <<image, reviews, reconciles>>

\* The diagram or the route plan is drawn again.
Regenerate ==
  /\ image' \in Images \ {image}
  /\ UNCHANGED <<reviews, reconciles, pc, draft>>

Next ==
  \/ \E w \in Recorders :
       \/ \E role \in {"primary", "blind", "tiebreak"}, r \in Readings :
            LookAt(w, role, r)
       \/ CheckReview(w) \/ AppendReview(w)
       \/ \E ids \in Requests : CheckReconcile(w, ids)
       \/ AppendReconcile(w) \/ GiveUp(w)
  \/ Regenerate

Spec == Init /\ [][Next]_vars

-----------------------------------------------------------------------------
(* What the Stop hook asks for.                                            *)

\* The earliest reconcile of the highest round.
LastReconcile(p) ==
  CHOOSE c \in Reconciled(p) :
    \A d \in Reconciled(p) \ {c} :
      \/ reconciles[d].round < reconciles[c].round
      \/ reconciles[d].round = reconciles[c].round /\ c < d

VerdictOf(p) == IF Reconciled(p) = {} THEN "none"
                ELSE reconciles[LastReconcile(p)].outcome

\* What _dual_review_problems demands for primary p.
Demand(p) ==
  IF ReviewsBy("blind", reviews[p].image) = {} THEN "blind"
  ELSE CASE VerdictOf(p) = "none" -> "reconcile"
         [] VerdictOf(p) = "disagree" -> "tiebreak"
         [] OTHER -> "nothing"

\* The reconciles of primary p the writer would take now.
Offers(p, n) == {ids \in [1..n -> 1..Len(reviews)] : /\ ids[1] = p
                                                     /\ Reconcilable(ids)}

-----------------------------------------------------------------------------
(* Properties of every recording, also by several processes at once.       *)

\* The logs hold reviews and reconciles, and so do the drafts.
TypeOK ==
  /\ image \in Images
  /\ reviews \in Seq(Review) /\ reconciles \in Seq(Reconcile)
  /\ pc \in [Recorders -> {"idle", "looked", "reviewing", "reconciling"}]
  /\ DOMAIN draft = Recorders
  /\ \A w \in Recorders :
       /\ pc[w] \in {"looked", "reviewing"} => draft[w] \in Review
       /\ pc[w] = "reconciling" => draft[w] \in Reconcile

\* Nobody is asked to break a tie that is none: a tiebreak in the log comes
\* after a primary review of the same bytes whose first round split, however
\* long before the append its recorder looked (_round_errors).
TiebreakNeedsSplit ==
  \A t \in 1..Len(reviews) :
    reviews[t].reviewer = "tiebreak" =>
      \E p \in ReviewsBy("primary", reviews[t].image) : p < t /\ Split(p)

\* A second round is never the first thing said of a primary review, and it
\* compares three reviews of the bytes the split was about
\* (record_reconcile).
SecondRoundNeedsSplit ==
  \A c \in 1..Len(reconciles) :
    reconciles[c].round = 2 =>
      \E d \in Reconciled(reconciles[c].reviews[1]) :
        /\ d < c /\ reconciles[d].outcome = "disagree"
        /\ \A k \in 1..3, l \in 1..2 :
             reviews[reconciles[c].reviews[k]].image =
               reviews[reconciles[d].reviews[l]].image

\* When a tiebreak settles a split, the errors that count are those the
\* tiebreak saw: the outvoted side adds none and removes none (reconcile).
MajorityIsTheTiebreaks ==
  \A c \in 1..Len(reconciles) :
    reconciles[c].round = 2 /\ reconciles[c].outcome = "agree" =>
      reconciles[c].majority = reviews[reconciles[c].reviews[3]].reading.errors

\* The Stop hook never asks for a record its writers would refuse, for the
\* latest primary review of bytes that are still on the disk
\* (_dual_review_problems against _round_errors and record_reconcile).
DemandsCanBeMet ==
  \A p \in ReviewsBy("primary", image) :
    p = LastPrimary(image) =>
      CASE Demand(p) = "blind" -> ~_round_errors("blind", image)
        [] Demand(p) = "reconcile" -> Offers(p, 2) # {}
        [] Demand(p) = "tiebreak" ->
             ~_round_errors("tiebreak", image) \/ Offers(p, 3) # {}
        [] OTHER -> TRUE

-----------------------------------------------------------------------------
(* Properties of one recorder at a time.                                   *)

\* Each step of the protocol happens once: no round of a primary review is
\* reconciled twice, and no blind or tiebreak review is repeated before the
\* image gets a new primary review (_round_errors: "each happens once").
RoundsHappenOnce ==
  /\ \A c, d \in 1..Len(reconciles) :
       /\ reconciles[c].reviews[1] = reconciles[d].reviews[1]
       /\ reconciles[c].round = reconciles[d].round
       => c = d
  /\ \A i, j \in 1..Len(reviews) :
       /\ i < j /\ reviews[i].reviewer # "primary"
       /\ reviews[i].reviewer = reviews[j].reviewer
       /\ reviews[i].image = reviews[j].image
       => \E p \in ReviewsBy("primary", reviews[i].image) : i < p /\ p < j

Verdict == INSTANCE ReviewVerdict
             WITH Primaries <- 1..MaxReviews,
                  verdict <- [p \in 1..MaxReviews |-> VerdictOf(p)]

\* Verdicts move as the protocol says, once per round, and the settled ones
\* never change.
VerdictsAreFinal == Verdict!Spec

-----------------------------------------------------------------------------
(* Why these hold: what is true of a draft stays true until it is appended. *)

\* A reconcile binds reviews of the log, of one image, as many as its round
\* has, and counts the errors the tiebreak saw when that settles it.
Binds(r) ==
  /\ \A k \in DOMAIN r.reviews :
       /\ r.reviews[k] \in 1..Len(reviews)
       /\ reviews[r.reviews[k]].image = reviews[r.reviews[1]].image
  /\ DOMAIN r.reviews = 1..(r.round + 1)
  /\ r.round = 2 /\ r.outcome = "agree" =>
       r.majority = reviews[r.reviews[3]].reading.errors

RoundsInv ==
  \A c \in 1..Len(reconciles) :
    /\ Binds(reconciles[c])
    /\ reconciles[c].round = 2 =>
         \E d \in Reconciled(reconciles[c].reviews[1]) :
           d < c /\ reconciles[d].outcome = "disagree"

DraftsInv ==
  \A w \in Recorders :
    /\ pc[w] = "reviewing" /\ draft[w].reviewer = "tiebreak" =>
         \E p \in ReviewsBy("primary", draft[w].image) : Split(p)
    /\ pc[w] = "reconciling" =>
         /\ Binds(draft[w])
         /\ draft[w].round = 2 => Split(draft[w].reviews[1])

IInv == TypeOK /\ TiebreakNeedsSplit /\ RoundsInv /\ DraftsInv

-----------------------------------------------------------------------------
\* What docs/records-protocol.md says of a split: "A `disagree` allows
\* exactly one `tiebreak` review and a round-2 reconcile."  So a split whose
\* image is unchanged and has no tiebreak may get one.
DisagreeAllowsTiebreak ==
  \A p \in ReviewsBy("primary", image) :
    VerdictOf(p) = "disagree" /\ ReviewsBy("tiebreak", image) = {} =>
      ~_round_errors("tiebreak", image)

=============================================================================
