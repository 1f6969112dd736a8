---------------------------- MODULE SessionGate -----------------------------
(***************************************************************************)
(* The session's Stop gate: session_start, problems_for and stop of        *)
(* plugins/wire/hooks/scripts/require_records.py, with record_impression   *)
(* and record_decision of src/wire/records.py as its counterpart.          *)
(*                                                                         *)
(* The hook is a process of its own.  It reads the marker, then the logs,  *)
(* then the files' times, then the files' bytes, while the agent's         *)
(* sub-agents and background commands still write: each reading may be     *)
(* stale when it is used.  record_impression hashes the artifact before    *)
(* it appends.  The marker is rewritten in place, so a hook killed in the  *)
(* middle leaves one that cannot be read.                                  *)
(*                                                                         *)
(* Times are compared with the session's start only; clock is advanced by  *)
(* whoever starts one, and everything later has that time or more.  What   *)
(* the gate asks besides impressions and decisions (reviews, upstream      *)
(* answers, song receipts) is in the other modules.                        *)
(***************************************************************************)
EXTENDS Naturals, FiniteSets

CONSTANTS Artifacts,      \* files that match artifact_globs
          Bytes,          \* what an artifact can contain
          Absent,         \* the content of a file that is not there
          MaxDenials,     \* policy: max_stop_denials
          MaxImpressions, \* bound: impressions in the log
          MaxPrompts,     \* bound: prompts of the session
          MaxTorn         \* bound: hooks killed while they write the marker

ASSUME ContentsAssumption == Absent \notin Bytes

ASSUME LimitsAssumption ==
  MaxDenials \in Nat /\ MaxImpressions \in Nat /\ MaxPrompts \in Nat
  /\ MaxTorn \in Nat

NoMarker == [since |-> 0, denials |-> 0, readable |-> FALSE]

VARIABLES
  clock,       \* the time, as far as it is compared
  content,     \* the bytes of each artifact
  mtime,       \* when each was last written
  impressions, \* the artifacts the stage impressions name: path, sha256, time
  decided,     \* when the last decision was recorded, 0 before the session
  marker,      \* .sessions/<key>.json
  pc,          \* "resting", "working", or where the Stop hook is
  hook,        \* what the running hook has read so far
  sketch,      \* the artifact record_impression has hashed, not yet recorded
  status,      \* records-status.json
  refusals,    \* history: denials since the session began
  begun,       \* history: when the session began
  prompts,     \* how often the user prompted
  torn,        \* how often a marker was torn
  disturbed    \* history: something changed since the running hook read the logs

world == <<clock, content, mtime, impressions, decided, sketch>>
vars == <<world, marker, pc, hook, status, refusals, begun, prompts, torn,
          disturbed>>

Impression == [path : Artifacts, sha256 : Bytes, at : 0..(MaxPrompts + MaxTorn + 1)]

NoHook == [since |-> 0, denials |-> 0, seen |-> {}, explained |-> FALSE,
           changed |-> {}]

NoSketch == [path |-> Absent, sha256 |-> Absent]

-----------------------------------------------------------------------------
\* Artifacts and records of earlier sessions may be there.
Init ==
  /\ clock = 1
  /\ content \in [Artifacts -> Bytes \union {Absent}]
  /\ mtime = [a \in Artifacts |-> 0]
  /\ impressions \in {{}} \union
       {{[path |-> a, sha256 |-> c, at |-> 0]} : a \in Artifacts, c \in Bytes}
  /\ decided = 0
  /\ marker = NoMarker
  /\ pc = "resting" /\ hook = NoHook /\ sketch = NoSketch
  /\ status = "none"
  /\ refusals = 0 /\ begun = 0 /\ prompts = 0 /\ torn = 0
  /\ disturbed = FALSE

-----------------------------------------------------------------------------
(* The agent and its tools.                                                *)

HookRuns == pc \in {"read", "scanned"}

\* session_start writes the marker of a session that has none, or none that
\* can be read.
StartOver ==
  /\ clock' = clock + 1
  /\ marker' = [since |-> clock + 1, denials |-> 0, readable |-> TRUE]

\* The session starts or is resumed, and the agent works.
SessionStart ==
  /\ pc = "resting" /\ prompts < MaxPrompts
  /\ prompts' = prompts + 1
  /\ pc' = "working"
  /\ IF marker.readable THEN UNCHANGED <<clock, marker>> ELSE StartOver
  /\ begun' = IF begun = 0 THEN clock' ELSE begun
  /\ UNCHANGED <<content, mtime, impressions, decided, sketch, hook, status,
                 refusals, torn, disturbed>>

\* The user goes on with the session: no hook of this file runs.
Prompt ==
  /\ pc = "resting" /\ begun # 0 /\ prompts < MaxPrompts
  /\ prompts' = prompts + 1
  /\ pc' = "working"
  /\ UNCHANGED <<world, marker, hook, status, refusals, begun, torn, disturbed>>

\* An artifact is generated, edited or removed, also by a command that goes
\* on in the background while the hook runs.
Write(a, c) ==
  /\ begun # 0
  /\ content' = [content EXCEPT ![a] = c]
  /\ mtime' = [mtime EXCEPT ![a] = clock]
  /\ disturbed' = HookRuns
  /\ UNCHANGED <<clock, impressions, decided, sketch, marker, pc, hook, status,
                 refusals, begun, prompts, torn>>

\* record_impression hashes the artifact it names.
HashArtifact(a) ==
  /\ begun # 0 /\ sketch = NoSketch /\ content[a] # Absent
  /\ Cardinality(impressions) < MaxImpressions
  /\ sketch' = [path |-> a, sha256 |-> content[a]]
  /\ UNCHANGED <<clock, content, mtime, impressions, decided, marker, pc, hook,
                 status, refusals, begun, prompts, torn, disturbed>>

\* ... and appends the impression with that hash.
AppendImpression ==
  /\ sketch # NoSketch
  /\ impressions' = impressions \union
       {[path |-> sketch.path, sha256 |-> sketch.sha256, at |-> clock]}
  /\ sketch' = NoSketch
  /\ disturbed' = HookRuns
  /\ UNCHANGED <<clock, content, mtime, decided, marker, pc, hook, status,
                 refusals, begun, prompts, torn>>

\* ... or is refused: claims that are not grounded, a repeated text.
DropImpression ==
  /\ sketch # NoSketch
  /\ sketch' = NoSketch
  /\ UNCHANGED <<clock, content, mtime, impressions, decided, marker, pc, hook,
                 status, refusals, begun, prompts, torn, disturbed>>

AppendDecision ==
  /\ begun # 0
  /\ decided' = clock
  /\ disturbed' = HookRuns
  /\ UNCHANGED <<clock, content, mtime, impressions, sketch, marker, pc, hook,
                 status, refusals, begun, prompts, torn>>

-----------------------------------------------------------------------------
(* The Stop hook.                                                          *)

\* Impressions of earlier sessions count as well.
SeenOfAnySession(since) == impressions

\* session["stage_impression"]
Seen(since) == {i \in impressions : i.at >= since}

\* The marker and then the logs are read.  Without a marker the hook only
\* starts the session over, and allows.
StopRead ==
  /\ pc = "working"
  /\ IF marker.readable
       THEN /\ pc' = "read"
            /\ hook' = [NoHook EXCEPT
                 !.since = marker.since, !.denials = marker.denials,
                 !.seen = Seen(marker.since),
                 !.explained = decided >= marker.since]
            /\ UNCHANGED <<clock, marker>>
       ELSE pc' = "resting" /\ StartOver /\ UNCHANGED hook
  /\ UNCHANGED <<content, mtime, impressions, decided, sketch, status,
                 refusals, begun, prompts, torn, disturbed>>

\* changed_artifacts: the files there are, written since the session began.
StopScan ==
  /\ pc = "read"
  /\ pc' = "scanned"
  /\ hook' = [hook EXCEPT !.changed =
       {a \in Artifacts : content[a] # Absent /\ mtime[a] >= hook.since}]
  /\ UNCHANGED <<world, marker, status, refusals, begun, prompts, torn,
                 disturbed>>

\* Any impression of the session that names the artifact will do.
FreshByName(a) == \E i \in hook.seen : i.path = a

\* An impression the hook has read names the bytes the file has now.
Fresh(a) == \E i \in hook.seen : i.path = a /\ i.sha256 = content[a]

\* The hook finds something owed.
Problems == /\ hook.changed # {}
            /\ \/ \E a \in hook.changed : ~Fresh(a)
               \/ ~hook.explained

\* The files are hashed, the verdict is written, and the session may end.
StopAllow ==
  /\ pc = "scanned"
  /\ Problems => hook.denials >= MaxDenials
  /\ status' = IF Problems THEN "fail" ELSE "pass"
  /\ pc' = "resting" /\ hook' = NoHook /\ disturbed' = FALSE
  /\ UNCHANGED <<world, marker, refusals, begun, prompts, torn>>

\* Counted up to one more than there may be.
CountedRefusals == IF refusals > MaxDenials THEN refusals ELSE refusals + 1

\* The refusal is not written to the marker.
StopDenyUncounted ==
  /\ pc = "scanned"
  /\ Problems /\ hook.denials < MaxDenials
  /\ status' = "fail"
  /\ refusals' = CountedRefusals
  /\ pc' = "working" /\ hook' = NoHook /\ disturbed' = FALSE
  /\ UNCHANGED <<world, marker, begun, prompts, torn>>

\* <= where the code has <.
StopDenyOnceMore ==
  /\ pc = "scanned"
  /\ Problems /\ hook.denials <= MaxDenials
  /\ status' = "fail"
  /\ marker' = [since |-> hook.since, denials |-> hook.denials + 1,
                readable |-> TRUE]
  /\ refusals' = CountedRefusals
  /\ pc' = "working" /\ hook' = NoHook /\ disturbed' = FALSE
  /\ UNCHANGED <<world, begun, prompts, torn>>

\* Something is owed and the limit is not reached: the marker counts the
\* refusal and the agent has to go on.
StopDeny ==
  /\ pc = "scanned"
  /\ Problems /\ hook.denials < MaxDenials
  /\ status' = "fail"
  /\ marker' = [since |-> hook.since, denials |-> hook.denials + 1,
                readable |-> TRUE]
  /\ refusals' = CountedRefusals
  /\ pc' = "working" /\ hook' = NoHook /\ disturbed' = FALSE
  /\ UNCHANGED <<world, begun, prompts, torn>>

\* The hook is killed while it rewrites the marker: a hook that fails does
\* not block.
StopTorn ==
  /\ pc = "scanned" /\ torn < MaxTorn
  /\ Problems /\ hook.denials < MaxDenials
  /\ status' = "fail"
  /\ marker' = NoMarker
  /\ torn' = torn + 1
  /\ pc' = "resting" /\ hook' = NoHook /\ disturbed' = FALSE
  /\ UNCHANGED <<world, refusals, begun, prompts>>

Stop == StopRead \/ StopScan \/ StopAllow \/ StopDeny \/ StopTorn

Next ==
  \/ SessionStart \/ Prompt
  \/ \E a \in Artifacts : \/ \E c \in Bytes \union {Absent} : Write(a, c)
                          \/ HashArtifact(a)
  \/ AppendImpression \/ DropImpression \/ AppendDecision
  \/ Stop

Spec == Init /\ [][Next]_vars

\* The agent's turn ends, and the host then runs the hook to its end.
FairSpec == Spec /\ WF_vars(Stop)

-----------------------------------------------------------------------------
TypeOK ==
  /\ clock \in Nat /\ begun \in 0..clock
  /\ content \in [Artifacts -> Bytes \union {Absent}]
  /\ mtime \in [Artifacts -> 0..clock]
  /\ impressions \subseteq Impression
  /\ decided \in 0..clock
  /\ marker.since \in 0..clock /\ marker.denials \in 0..MaxDenials
  /\ hook.seen \subseteq Impression /\ hook.changed \subseteq Artifacts
  /\ hook.denials \in 0..MaxDenials
  /\ pc \in {"resting", "working", "read", "scanned"}
  /\ status \in {"none", "pass", "fail"}

\* What the session really owes: an artifact written in it, still there,
\* whose present bytes no impression of the session names; or no decision
\* for such an artifact.
Touched == {a \in Artifacts : content[a] # Absent /\ mtime[a] >= begun}
Owes ==
  /\ begun # 0 /\ Touched # {}
  /\ \/ \E a \in Touched :
          ~ \E i \in impressions : /\ i.path = a /\ i.sha256 = content[a]
                                   /\ i.at >= begun
     \/ decided < begun

\* The hook's verdict is the truth when nothing changed while it ran: it
\* passes no session that owes and fails none that does not, although it
\* reads the logs, the times and the bytes at three moments (problems_for).
\* A marker that was torn is the exception.
VerdictIsTrue ==
  [][ torn = 0 /\ pc = "scanned" /\ pc' # "scanned" /\ ~disturbed =>
        (status' = "fail" <=> Owes) ]_vars

\* Also when files do change under the hook, it passes no artifact written
\* before it looked at the times unless an impression of this session names
\* bytes that artifact really had while the hook ran (problems_for).
PassCoversScanned ==
  [][ pc = "scanned" /\ pc' = "resting" /\ status' = "pass" =>
        \A a \in hook.changed :
          \E i \in impressions : /\ i.path = a /\ i.sha256 = content[a]
                                 /\ i.at >= begun ]_vars

\* The gate refuses a session at most max_stop_denials times, over all its
\* prompts (stop, the marker's denials).
RefusalsBounded == torn = 0 => refusals <= MaxDenials

\* An agent that cannot comply still terminates: each turn that ends is let
\* go (stop: "so a model that cannot comply still terminates").
EveryTurnEnds == pc = "working" ~> pc = "resting"

-----------------------------------------------------------------------------
\* What docs/records-protocol.md says of Stop: "it lists everything this
\* session owes".  So a pass the hook writes when nothing changed under it
\* means that nothing is owed.
PassMeansNothingOwed ==
  [][ pc = "scanned" /\ status' = "pass" /\ pc' = "resting" /\ ~disturbed =>
        ~Owes ]_vars

=============================================================================
