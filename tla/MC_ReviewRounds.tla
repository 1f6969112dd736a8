-------------------------- MODULE MC_ReviewRounds ---------------------------
(* ReviewRounds with readings for TLC: One and Other share no category, and *)
(* Severe differs from One in the severity of its only finding, so any two  *)
(* of them are a split and the three of them are unresolved.                *)
EXTENDS ReviewRounds, TLC

CONSTANTS a, b   \* finding categories

One    == [categories |-> {a}, errors |-> {}]
Other  == [categories |-> {b}, errors |-> {}]
Severe == [categories |-> {a}, errors |-> {a}]
\* Agrees with One and with Other, which do not agree with each other.
Both   == [categories |-> {a, b}, errors |-> {}]

TwoReadings   == {One, Severe}
ThreeReadings == {One, Other, Severe}
FourReadings  == {One, Other, Severe, Both}

\* The recorders are alike, and so are the bytes of the image.
Alike == Permutations(Recorders) \union Permutations(Images)
=============================================================================
