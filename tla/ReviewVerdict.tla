--------------------------- MODULE ReviewVerdict ----------------------------
(***************************************************************************)
(* What the blind review of an image promises (the "Blind review and       *)
(* reconciliation" section of the record protocol, as the docstring of     *)
(* _vrp.reconcile has it): a primary review is compared once; a split is   *)
(* compared once more; no verdict changes after that.                      *)
(***************************************************************************)
CONSTANT Primaries   \* the primary reviews there may be

VARIABLE verdict     \* what is known of each: "none" until it is compared

Settled == {"agree", "unresolved"}

Init == verdict = [p \in Primaries |-> "none"]

FirstRound(p) ==
  /\ verdict[p] = "none"
  /\ \E v \in {"agree", "disagree"} : verdict' = [verdict EXCEPT ![p] = v]

\* A tiebreak that joins neither side leaves the image unknown.
SecondRound(p) ==
  /\ verdict[p] = "disagree"
  /\ \E v \in Settled : verdict' = [verdict EXCEPT ![p] = v]

Next == \E p \in Primaries : FirstRound(p) \/ SecondRound(p)

Spec == Init /\ [][Next]_verdict

=============================================================================
