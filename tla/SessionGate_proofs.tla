------------------------- MODULE SessionGate_proofs -------------------------
(***************************************************************************)
(* Theorems about SessionGate, for any artifacts, contents and bounds.     *)
(* The hook reads at three moments and judges with what it has read, so    *)
(* IInv keeps what its readings still have to do with the present: always  *)
(* that they are of this session and of records there are (HookOK), and    *)
(* all that is true now if nothing changed meanwhile (Undisturbed).        *)
(***************************************************************************)
EXTENDS SessionGate, TLAPS

Recorded == [path : Artifacts, sha256 : Bytes, at : 0..clock]

Shape ==
  /\ clock \in Nat /\ begun \in 0..clock /\ decided \in 0..clock
  /\ content \in [Artifacts -> Bytes \union {Absent}]
  /\ mtime \in [Artifacts -> 0..clock]
  /\ impressions \subseteq Recorded
  /\ marker \in [since : 0..clock, denials : 0..MaxDenials, readable : BOOLEAN]
  /\ hook \in [since : 0..clock, denials : 0..MaxDenials, seen : SUBSET Recorded,
               explained : BOOLEAN, changed : SUBSET Artifacts]
  /\ sketch # NoSketch => sketch \in [path : Artifacts, sha256 : Bytes]
  /\ pc \in {"resting", "working", "read", "scanned"}
  /\ status \in {"none", "pass", "fail"}
  /\ prompts \in 0..MaxPrompts /\ torn \in 0..MaxTorn /\ refusals \in Nat
  /\ disturbed \in BOOLEAN

\* Each marker that was torn is begun anew once, and the first one is.
Times ==
  /\ clock = 1 + torn + (IF marker.readable THEN 1 ELSE 0)
  /\ begun # 0 => prompts > 0
  /\ begun = 0 => /\ torn = 0 /\ refusals = 0 /\ ~marker.readable
                  /\ pc = "resting" /\ sketch = NoSketch

\* A marker is of this session, and counts its refusals if none was torn.
MarkerOK ==
  /\ marker.readable => marker.since >= begun
  /\ torn = 0 /\ begun # 0 =>
       marker.readable /\ marker.since = begun /\ refusals = marker.denials

\* What the hook has read of the marker is in it, and of the logs in them.
HookOK ==
  HookRuns =>
    /\ marker.readable /\ hook.since = marker.since /\ hook.denials = marker.denials
    /\ \A i \in hook.seen : i \in impressions /\ i.at >= hook.since

\* What it has read is what there is now.
Undisturbed ==
  /\ ~HookRuns => ~disturbed
  /\ HookRuns /\ ~disturbed =>
       /\ hook.seen = Seen(hook.since)
       /\ hook.explained = (decided >= hook.since)
       /\ pc = "scanned" =>
            hook.changed = {a \in Artifacts : content[a] # Absent /\ mtime[a] >= hook.since}

IInv == Shape /\ Times /\ MarkerOK /\ HookOK /\ Undisturbed

-----------------------------------------------------------------------------
\* Without a hook nothing is read.
LEMMA NoHookOK ==
  ASSUME NEW n \in Nat, NEW R
  PROVE  NoHook \in [since : 0..n, denials : 0..MaxDenials, seen : SUBSET R,
                     explained : BOOLEAN, changed : SUBSET Artifacts]
<1>1. 0 \in 0..n /\ 0 \in 0..MaxDenials BY LimitsAssumption DEF LimitsAssumption
<1>2. {} \in SUBSET R /\ FALSE \in BOOLEAN /\ {} \in SUBSET Artifacts OBVIOUS
<1> QED BY ONLY <1>1, <1>2, Zenon DEF NoHook

\* A marker that cannot be read, or a new one.
LEMMA MarkerTyped ==
  ASSUME NEW n \in Nat, NEW since \in 0..n, NEW denials \in 0..MaxDenials, NEW readable \in BOOLEAN
  PROVE  [since |-> since, denials |-> denials, readable |-> readable]
           \in [since : 0..n, denials : 0..MaxDenials, readable : BOOLEAN]
OBVIOUS

\* At first there is no session.
LEMMA Initially == Init => IInv
<1> SUFFICES ASSUME Init PROVE IInv OBVIOUS
<1> USE LimitsAssumption DEF LimitsAssumption
<1>1. Shape
  <2>1. hook \in [since : 0..clock, denials : 0..MaxDenials, seen : SUBSET Recorded,
                  explained : BOOLEAN, changed : SUBSET Artifacts]
    BY NoHookOK DEF Init
  <2>2. impressions \subseteq Recorded BY DEF Init, Recorded
  <2>3. marker \in [since : 0..clock, denials : 0..MaxDenials, readable : BOOLEAN]
    BY MarkerTyped DEF Init, NoMarker
  <2>4. mtime \in [Artifacts -> 0..clock] BY DEF Init
  <2>5. /\ clock \in Nat /\ begun \in 0..clock /\ decided \in 0..clock
        /\ prompts \in 0..MaxPrompts /\ torn \in 0..MaxTorn /\ refusals \in Nat
    BY DEF Init
  <2>6. content \in [Artifacts -> Bytes \union {Absent}] /\ sketch = NoSketch BY DEF Init
  <2>7. /\ pc \in {"resting", "working", "read", "scanned"} /\ disturbed \in BOOLEAN
        /\ status \in {"none", "pass", "fail"}
    BY DEF Init
  <2> QED BY <2>1, <2>2, <2>3, <2>4, <2>5, <2>6, <2>7 DEF Shape
<1>2. Times BY DEF Init, Times, NoMarker
<1>3. MarkerOK /\ HookOK /\ Undisturbed BY DEF Init, MarkerOK, HookOK, Undisturbed, HookRuns, NoMarker
<1> QED BY <1>1, <1>2, <1>3 DEF IInv

\* The session begins, or goes on with the marker it has.
LEMMA SessionStartKeeps == ASSUME IInv, SessionStart PROVE IInv'
<1> USE LimitsAssumption DEF LimitsAssumption
<1>1. Shape'
  <2>1. CASE marker.readable BY <2>1 DEF IInv, SessionStart, Shape, Recorded, Times
  <2>2. CASE ~marker.readable
    <3>1. clock' = clock + 1 /\ marker' = [since |-> clock + 1, denials |-> 0, readable |-> TRUE]
      BY <2>2 DEF SessionStart, StartOver
    <3>2. Recorded \subseteq Recorded' BY <3>1 DEF IInv, Shape, Recorded
    <3>3. begun' \in 0..clock' BY <3>1 DEF IInv, Shape, SessionStart
    <3>4. mtime' \in [Artifacts -> 0..clock'] BY <3>1 DEF IInv, Shape, SessionStart
    <3>5. hook' \in [since : 0..clock', denials : 0..MaxDenials, seen : SUBSET Recorded',
                     explained : BOOLEAN, changed : SUBSET Artifacts]
      BY <3>1, <3>2 DEF IInv, Shape, SessionStart
    <3> QED BY <3>1, <3>2, <3>3, <3>4, <3>5 DEF IInv, Shape, SessionStart, Recorded
  <2> QED BY <2>1, <2>2
<1>2. Times' /\ MarkerOK'
  BY DEF IInv, SessionStart, StartOver, Shape, Times, MarkerOK
<1>3. HookOK' /\ Undisturbed'
  BY DEF IInv, SessionStart, Shape, HookOK, Undisturbed, HookRuns
<1> QED BY <1>1, <1>2, <1>3 DEF IInv

\* The agent goes on.
LEMMA PromptKeeps == ASSUME IInv, Prompt PROVE IInv'
<1> USE LimitsAssumption DEF LimitsAssumption
<1>1. Shape' BY DEF IInv, Prompt, Shape, Recorded, world
<1>2. Times' /\ MarkerOK' BY DEF IInv, Prompt, Shape, Times, MarkerOK, world
<1>3. HookOK' /\ Undisturbed' BY DEF IInv, Prompt, HookOK, Undisturbed, HookRuns, world
<1> QED BY <1>1, <1>2, <1>3 DEF IInv

\* Under a running hook, a write disturbs it.
LEMMA WriteKeeps ==
  ASSUME IInv, NEW a \in Artifacts, NEW c \in Bytes \union {Absent}, Write(a, c) PROVE IInv'
<1>1. Shape' BY DEF IInv, Write, Shape, Recorded, HookRuns
<1>2. Times' /\ MarkerOK' BY DEF IInv, Write, Times, MarkerOK
<1>3. HookOK' /\ Undisturbed' BY DEF IInv, Write, HookOK, Undisturbed, HookRuns
<1> QED BY <1>1, <1>2, <1>3 DEF IInv

\* What is hashed is the content of a file there is.
LEMMA HashArtifactKeeps ==
  ASSUME IInv, NEW a \in Artifacts, HashArtifact(a) PROVE IInv'
<1>1. Shape' BY DEF IInv, HashArtifact, Shape, Recorded
<1>2. Times' /\ MarkerOK' BY DEF IInv, HashArtifact, Times, MarkerOK
<1>3. HookOK' /\ Undisturbed' BY DEF IInv, HashArtifact, HookOK, Undisturbed, HookRuns, Seen
<1> QED BY <1>1, <1>2, <1>3 DEF IInv

\* The log of impressions grows.
LEMMA AppendImpressionKeeps == ASSUME IInv, AppendImpression PROVE IInv'
<1> DEFINE i == [path |-> sketch.path, sha256 |-> sketch.sha256, at |-> clock]
<1>1. i \in Recorded BY DEF IInv, AppendImpression, Shape, Recorded
<1>2. Shape' BY <1>1 DEF IInv, AppendImpression, Shape, Recorded, HookRuns
<1>3. Times' /\ MarkerOK' BY DEF IInv, AppendImpression, Times, MarkerOK
<1>4. HookOK' /\ Undisturbed' BY DEF IInv, AppendImpression, HookOK, Undisturbed, HookRuns
<1> QED BY <1>2, <1>3, <1>4 DEF IInv

\* A refusal records nothing.
LEMMA DropImpressionKeeps == ASSUME IInv, DropImpression PROVE IInv'
<1>1. Shape' BY DEF IInv, DropImpression, Shape, Recorded
<1>2. Times' /\ MarkerOK' BY DEF IInv, DropImpression, Times, MarkerOK
<1>3. HookOK' /\ Undisturbed' BY DEF IInv, DropImpression, HookOK, Undisturbed, HookRuns, Seen
<1> QED BY <1>1, <1>2, <1>3 DEF IInv

\* A decision is recorded.
LEMMA AppendDecisionKeeps == ASSUME IInv, AppendDecision PROVE IInv'
<1>1. Shape' BY DEF IInv, AppendDecision, Shape, Recorded, HookRuns
<1>2. Times' /\ MarkerOK' BY DEF IInv, AppendDecision, Times, MarkerOK
<1>3. HookOK' /\ Undisturbed' BY DEF IInv, AppendDecision, HookOK, Undisturbed, HookRuns
<1> QED BY <1>1, <1>2, <1>3 DEF IInv

-----------------------------------------------------------------------------
\* The hook reads the marker and the logs, or starts the session over.
LEMMA StopReadKeeps == ASSUME IInv, StopRead PROVE IInv'
<1> USE LimitsAssumption DEF LimitsAssumption
<1>1. CASE marker.readable
  <2>1. hook' = [since |-> marker.since, denials |-> marker.denials, seen |-> Seen(marker.since),
                 explained |-> decided >= marker.since, changed |-> {}]
    BY <1>1 DEF StopRead, NoHook
  <2>2. Seen(marker.since) \subseteq Recorded BY DEF IInv, Shape, Seen
  <2>3. Shape' BY <1>1, <2>1, <2>2 DEF IInv, StopRead, Shape, Recorded
  <2>4. Times' /\ MarkerOK' BY <1>1 DEF IInv, StopRead, Times, MarkerOK
  <2>5. HookOK' BY <1>1, <2>1 DEF IInv, StopRead, HookOK, Seen
  <2>6. Undisturbed' BY <1>1, <2>1 DEF IInv, StopRead, Undisturbed, HookRuns, Seen
  <2> QED BY <2>3, <2>4, <2>5, <2>6 DEF IInv
<1>2. CASE ~marker.readable
  <2>1. clock' = clock + 1 /\ marker' = [since |-> clock + 1, denials |-> 0, readable |-> TRUE]
    BY <1>2 DEF StopRead, StartOver
  <2>2. Recorded \subseteq Recorded' BY <2>1 DEF IInv, Shape, Recorded
  <2>3. hook' \in [since : 0..clock', denials : 0..MaxDenials, seen : SUBSET Recorded',
                   explained : BOOLEAN, changed : SUBSET Artifacts]
    BY <1>2, <2>1, <2>2 DEF IInv, Shape, StopRead
  <2>4. mtime' \in [Artifacts -> 0..clock'] BY <2>1 DEF IInv, Shape, StopRead
  <2>5. Shape' BY <1>2, <2>1, <2>2, <2>3, <2>4 DEF IInv, Shape, StopRead, Recorded
  <2>6. Times' /\ MarkerOK' BY <1>2, <2>1 DEF IInv, Shape, StopRead, Times, MarkerOK
  <2>7. HookOK' /\ Undisturbed' BY <1>2 DEF IInv, StopRead, HookOK, Undisturbed, HookRuns
  <2> QED BY <2>5, <2>6, <2>7 DEF IInv
<1> QED BY <1>1, <1>2

\* It looks which files are new.
LEMMA StopScanKeeps == ASSUME IInv, StopScan PROVE IInv'
<1> DEFINE changed == {a \in Artifacts : content[a] # Absent /\ mtime[a] >= hook.since}
<1>1. /\ hook' = [hook EXCEPT !.changed = changed] /\ pc = "read" /\ pc' = "scanned"
      /\ UNCHANGED <<world, marker, status, refusals, begun, prompts, torn, disturbed>>
  BY DEF StopScan
<1> HIDE DEF changed
<1>2. /\ hook'.changed = changed /\ hook'.since = hook.since /\ hook'.denials = hook.denials
      /\ hook'.seen = hook.seen /\ hook'.explained = hook.explained
  BY <1>1 DEF IInv, Shape
<1>3. changed \subseteq Artifacts BY DEF changed
<1>4. Shape' BY <1>1, <1>3 DEF IInv, Shape, Recorded, world
<1>5. Times' /\ MarkerOK' BY <1>1 DEF IInv, Times, MarkerOK, world
<1>6. HookOK' BY <1>1, <1>2 DEF IInv, HookOK, HookRuns, world
<1>7. Undisturbed' BY <1>1, <1>2 DEF IInv, Undisturbed, HookRuns, world, Seen, changed
<1> QED BY <1>4, <1>5, <1>6, <1>7 DEF IInv

\* The session may end.
LEMMA StopAllowKeeps == ASSUME IInv, StopAllow PROVE IInv'
<1> USE LimitsAssumption DEF LimitsAssumption
<1>1. Shape'
  <2>1. hook' \in [since : 0..clock', denials : 0..MaxDenials, seen : SUBSET Recorded',
                   explained : BOOLEAN, changed : SUBSET Artifacts]
    BY NoHookOK DEF IInv, Shape, StopAllow, world
  <2> QED BY <2>1 DEF IInv, StopAllow, Shape, Recorded, world
<1>2. Times' /\ MarkerOK' BY DEF IInv, StopAllow, Times, MarkerOK, world
<1>3. HookOK' /\ Undisturbed' BY DEF StopAllow, HookOK, Undisturbed, HookRuns
<1> QED BY <1>1, <1>2, <1>3 DEF IInv

\* A refusal is counted in the marker.
LEMMA StopDenyKeeps == ASSUME IInv, StopDeny PROVE IInv'
<1> USE LimitsAssumption DEF LimitsAssumption
<1>1. /\ marker.readable /\ hook.since = marker.since /\ hook.denials = marker.denials
      /\ hook.denials < MaxDenials /\ hook.denials \in Nat
      /\ marker' = [since |-> hook.since, denials |-> hook.denials + 1, readable |-> TRUE]
  BY DEF IInv, StopDeny, HookOK, HookRuns, Shape
<1>2. Shape'
  <2>1. hook' \in [since : 0..clock', denials : 0..MaxDenials, seen : SUBSET Recorded',
                   explained : BOOLEAN, changed : SUBSET Artifacts]
    BY NoHookOK DEF IInv, Shape, StopDeny, world
  <2>2. marker' \in [since : 0..clock', denials : 0..MaxDenials, readable : BOOLEAN]
    BY <1>1, MarkerTyped DEF IInv, Shape, StopDeny, world
  <2>3. refusals' \in Nat BY DEF IInv, Shape, StopDeny, CountedRefusals
  <2> QED BY <2>1, <2>2, <2>3 DEF IInv, StopDeny, Shape, Recorded, world
<1>3. Times' BY <1>1 DEF IInv, StopDeny, Shape, Times, world
<1>4. MarkerOK'
  BY <1>1 DEF IInv, StopDeny, Shape, Times, MarkerOK, world, CountedRefusals
<1>5. HookOK' /\ Undisturbed' BY DEF StopDeny, HookOK, Undisturbed, HookRuns
<1> QED BY <1>2, <1>3, <1>4, <1>5 DEF IInv

\* A torn marker is read no more.
LEMMA StopTornKeeps == ASSUME IInv, StopTorn PROVE IInv'
<1> USE LimitsAssumption DEF LimitsAssumption
<1>1. marker.readable /\ marker'.readable = FALSE /\ torn' = torn + 1
  BY DEF IInv, StopTorn, HookOK, HookRuns, NoMarker
<1>2. Shape'
  <2>1. hook' \in [since : 0..clock', denials : 0..MaxDenials, seen : SUBSET Recorded',
                   explained : BOOLEAN, changed : SUBSET Artifacts]
    BY NoHookOK DEF IInv, Shape, StopTorn, world
  <2>2. marker' \in [since : 0..clock', denials : 0..MaxDenials, readable : BOOLEAN]
    BY MarkerTyped DEF IInv, Shape, StopTorn, world, NoMarker
  <2>3. torn' \in 0..MaxTorn BY DEF IInv, Shape, StopTorn
  <2> QED BY <2>1, <2>2, <2>3 DEF IInv, StopTorn, Shape, Recorded, world
<1>3. Times' BY <1>1 DEF IInv, StopTorn, Shape, Times, world
<1>4. MarkerOK' BY <1>1 DEF IInv, StopTorn, Shape, MarkerOK
<1>5. HookOK' /\ Undisturbed' BY DEF StopTorn, HookOK, Undisturbed, HookRuns
<1> QED BY <1>2, <1>3, <1>4, <1>5 DEF IInv

\* Nothing happens.
LEMMA StutterKeeps == ASSUME IInv, UNCHANGED vars PROVE IInv'
BY DEF IInv, vars, world, Shape, Recorded, Times, MarkerOK, HookOK, Undisturbed, HookRuns, Seen

\* Each step keeps the invariant.
LEMMA Inductive == IInv /\ [Next]_vars => IInv'
BY SessionStartKeeps, PromptKeeps, WriteKeeps, HashArtifactKeeps, AppendImpressionKeeps,
   DropImpressionKeeps, AppendDecisionKeeps, StopReadKeeps, StopScanKeeps, StopAllowKeeps,
   StopDenyKeeps, StopTornKeeps, StutterKeeps DEF Next, Stop

\* So it always holds.
LEMMA Always == Spec => []IInv
BY Initially, Inductive, PTL DEF Spec

-----------------------------------------------------------------------------
\* Whatever is written, recorded and torn when: the gate's variables keep
\* their types, and the marker never counts past the policy's limit.
THEOREM TypeCorrect == Spec => []TypeOK
<1>1. IInv => TypeOK
  <2> SUFFICES ASSUME IInv PROVE TypeOK OBVIOUS
  <2> USE LimitsAssumption DEF LimitsAssumption
  <2>1. (impressions = {} \/ begun # 0 \/ clock = 1) /\ clock <= MaxPrompts + MaxTorn + 1
    BY DEF IInv, Shape, Times
  <2>2. Recorded \subseteq Impression BY <2>1 DEF IInv, Shape, Recorded, Impression
  <2> QED BY <2>2 DEF IInv, Shape, TypeOK
<1> QED BY <1>1, Always, PTL

\* A session whose marker was not torn is refused no more often than the
\* policy says, over all its prompts (stop).
THEOREM RefusalsAreBounded == Spec => []RefusalsBounded
<1>1. IInv => RefusalsBounded
  BY LimitsAssumption DEF LimitsAssumption, IInv, Shape, Times, MarkerOK, RefusalsBounded
<1> QED BY <1>1, Always, PTL

\* The steps that end the hook.
LEMMA HookEnds ==
  ASSUME IInv, [Next]_vars, pc = "scanned", pc' # "scanned"
  PROVE  StopAllow \/ StopDeny \/ StopTorn
BY DEF Next, SessionStart, Prompt, Write, HashArtifact, AppendImpression, DropImpression,
       AppendDecision, Stop, StopRead, StopScan, vars

\* Whatever happens under the hook, what it passes is covered by an
\* impression of this session that names the bytes the artifact had then.
THEOREM PassesAreCovered == Spec => PassCoversScanned
<1> DEFINE Covers == pc = "scanned" /\ pc' = "resting" /\ status' = "pass" =>
      \A a \in hook.changed :
        \E i \in impressions : /\ i.path = a /\ i.sha256 = content[a]
                               /\ i.at >= begun
<1>1. IInv /\ [Next]_vars => Covers
  <2> SUFFICES ASSUME IInv, [Next]_vars, pc = "scanned", pc' = "resting", status' = "pass",
                      NEW a \in hook.changed
               PROVE  \E i \in impressions : i.path = a /\ i.sha256 = content[a] /\ i.at >= begun
    OBVIOUS
  <2>1. StopAllow /\ ~Problems BY HookEnds DEF StopAllow, StopDeny, StopTorn
  <2>2. PICK i \in hook.seen : i.path = a /\ i.sha256 = content[a]
    BY <2>1 DEF Problems, Fresh
  <2>3. /\ hook.since = marker.since /\ marker.readable
        /\ i \in impressions /\ i.at >= hook.since
    BY DEF IInv, HookOK, HookRuns
  <2>4. marker.since >= begun BY <2>3 DEF IInv, MarkerOK
  <2>5. i.at \in Nat /\ marker.since \in Nat /\ begun \in Nat
    BY <2>3 DEF IInv, Shape, Recorded
  <2> QED BY <2>2, <2>3, <2>4, <2>5
<1>2. IInv /\ [Next]_vars => [Covers]_vars BY <1>1
<1> HIDE DEF Covers
<1>3. Spec => [][Covers]_vars BY <1>2, Always, PTL DEF Spec
<1> QED BY <1>3 DEF PassCoversScanned, Covers

\* If nothing changed under the hook, its verdict is the truth about the
\* session, whatever happened before and however late it read what.
THEOREM VerdictsAreTrue == Spec => VerdictIsTrue
<1> DEFINE True == torn = 0 /\ pc = "scanned" /\ pc' # "scanned" /\ ~disturbed =>
                     (status' = "fail" <=> Owes)
<1>1. IInv /\ [Next]_vars => True
  <2> SUFFICES ASSUME IInv, [Next]_vars, torn = 0, pc = "scanned", pc' # "scanned", ~disturbed
               PROVE  status' = "fail" <=> Owes
    OBVIOUS
  <2>1. status' = "fail" <=> Problems BY HookEnds DEF StopAllow, StopDeny, StopTorn
  <2>2. begun # 0 /\ hook.since = begun
    BY DEF IInv, Times, MarkerOK, HookOK, HookRuns
  <2>3. /\ hook.seen = Seen(begun) /\ hook.explained = (decided >= begun)
        /\ hook.changed = Touched
    BY <2>2 DEF IInv, Undisturbed, HookRuns, Touched
  <2>4. decided \in Nat /\ begun \in Nat BY DEF IInv, Shape
  <2>5. ~(decided >= begun) <=> decided < begun BY <2>4
  <2>6. \A a \in Touched : Fresh(a) <=> \E i \in impressions : /\ i.path = a /\ i.sha256 = content[a]
                                                              /\ i.at >= begun
    BY <2>3 DEF Fresh, Seen
  <2>7. ~hook.explained <=> decided < begun BY <2>3, <2>5, Zenon
  <2>8. Problems <=> Owes BY <2>2, <2>3, <2>6, <2>7 DEF Problems, Owes
  <2> QED BY <2>1, <2>8
<1>2. IInv /\ [Next]_vars => [True]_vars BY <1>1
<1> HIDE DEF True
<1>3. Spec => [][True]_vars BY <1>2, Always, PTL DEF Spec
<1> QED BY <1>3 DEF VerdictIsTrue, True
=============================================================================
