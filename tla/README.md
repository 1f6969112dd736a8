# Verification of wire-agent

TLA+ models of [wire-agent](../src/README.md): the plugin that designs wire
harnesses, judges them by gates, hands them to its sisters, records why, has its
drawings reviewed twice and refuses to let a session end while records are owed.
TLC checks each model on small instances; TLAPS proves theorems about
the record log, the reviews, the Stop gate, what plugins record of each other's work, the
gates of a contract, the hand-off and the hooks around a session for every value of their
constants.

`src/` in the paths below is the repository's root, so the package is
`src/src/wire/` and the hooks are `src/plugins/wire/hooks/scripts/`.
`_vrp.py` is vendored into the hooks as `_records.py`, byte for byte; the
models cite `_vrp.py`.

## The system

wire-agent is no server. It is a set of short-lived, single-threaded processes
that share files of one workspace: the CLI (`python -m wire`), the MCP server
(one per agent, also one for the blind reviewer), the host's hooks (each a
process of its own) and the sister plugins, which have their own copies of the
same record code. Whatever concurrency there is, is between processes and goes
through the file system; the only lock is `flock` on `observations/<plugin>/.lock`.

| Part | State | Operations | Interacts with | Hard part | Correct when | Modelled in |
|---|---|---|---|---|---|---|
| Record log (`records.py` `_append`, `_vrp.py` `verify_log`, validators) | `observations/wire/<kind>.jsonl`, `.lock`, archives of v1 logs | append, archive, verify, move aside (the user) | every recorder, the Stop hook, sisters | two writers, crash inside a line, clock, edits from outside | the chain stays intact or its damage is noticed; nothing is overwritten; the lock is let go | `RecordLog`, `Records` |
| Reviews of an image (`record_vision_review`, `record_reconcile`, `reconcile`) | two of the logs, the image file | review, reconcile | record log, Stop hook, blind reviewer | checks made before the lock; the image is drawn again | rounds happen once, in order, over the same bytes; settled verdicts stay | `ReviewRounds`, `ReviewVerdict` |
| Stop gate (`require_records.py`) | `.sessions/<key>.json`, `records-status.json` | session start, stop | all logs, all artifacts, the host | reads logs, times and bytes at three moments; killed while it writes | its verdict is true; it refuses a bounded number of times | `SessionGate`, `Sisters` |
| Insights (`insight_write_errors`, `insight_history`, `rejected_insight_errors`) | `insight-status.jsonl` of every plugin | status, revisit | sisters' logs | several plugins' logs, order by name | transitions are legal; a rejected hypothesis stays out | `Workspace`, `Sisters` |
| References (`resolve_ref`, `grounding`, `novelty`, `upstream`, songs) | all logs | read, answer, dispute, receipt | sisters | a reference read and gone | every read can be answered and is; a disputed concern is not repeated; a receipt is recorded once | `Workspace`, `Sisters` |
| Observation hooks (`record_image_observation.py`, `record_vision_tool_event.py`) | two observation logs | one call each | the Stop hook | no lock, a kill inside a line | what was looked at is reviewed before a pass | `Sisters` |
| Intake hook (`intake_attachments.py`) | attachments, manifest, processed marker | one call | the host's event files | two hooks at once, a crash between two files | each image of a marked event is kept | `Hooks` |
| Profile hooks, launcher (`ensure_*_profiles.py`, `wire_launcher.py`) | profiles; docker's images | provide; verify, pull, run | host, docker, gh | two hooks at once, interrupted writes, answers that come too late | no profile is half written; no image runs unattested | `Hooks` |
| Contract, gates, tables (`contract.py`, `gates.py`, `standards.py`, `continuity.py`, `crimp.py`, `formboard.py`, `export_tables.py`, `intake.py`, `imports.py`) | the contract file | load, judge, table, intake, import | sisters' artifacts | one harness judged wire by wire and group by group; a source that changes while it is read | a pass means what it says of the harness; copies can be traced | `Contract`, `Gates`, `Envelope`, `Tables`, `Design` |
| Hand-off (`export.py`, `report.py`, `_envelope.py`, `sim_pdn.py`, `cli.py`) | bundle, manifest, report, tables, sidecars, brief, request, answer | author, export, table, sim-request | simulation, production-engineering, mech | files written one after another while the contract changes; a kill between them | what passes is whole and current | `HandOff`, `SimPdn` |
| Liaison (`liaison.py`) | `*.ux-request.json`, `*.ux-response.json` | inbox, respond | UX-creator, design report, record log | inputs, report and answer change independently | no "done" while inputs are stale or a check fails | `Liaison`, `HandOff` |

### Not modelled, and why

- **Drawing** (`diagram.py`, `drawio_*.py`, `route_plan.py`, `render.py`): one pass
  of layout and formatting without state. `HandOff` takes each drawn file for a
  projection of the contract it was drawn from.
- **Guard hooks** (`protect_generated.py`, `blind_guard.py`, `safety_rail.py`):
  stateless patterns over the text of a command. The patterns are the content.
- **Release and CI** (`scripts/`, `.github/`, `docker/`): build infrastructure around
  hosted services.
- **Search** (`_vrp.py` `search`): ranks texts and changes nothing. So does the order of
  what `recall` lists of one kind; what it selects, the order of the kinds and the limit
  are modelled.
- **CLI and MCP server**: argument parsing, dispatch and `doctor`. The commands that
  change files are actions of the modules.
- **Launcher**: docker's command line beyond image and source, and a host without
  docker, where it ends at once.
- Everywhere: texts of messages, measured values beside a verdict, columns and their
  order, purposes and wishes.

## Modules

Modules of operators have no variables; those of a state machine compose them.

```
Records -- Workspace -- Sisters --+-- MC_Plugin      RecordLog ---- MC_RecordLog
                        Hooks ----+                  ReviewVerdict .. ReviewRounds -- MC_ReviewRounds
Contract -- Envelope -- Gates -- Tables -- Design -- MC_Design      SessionGate -- MC_SessionGate
                    |              +-- SimPdn --+
                    +-- Liaison ----------------+-- HandOff -- MC_HandOff
```

| Module | Models |
|---|---|
| `RecordLog` | one log, its lock and its writers, step by step |
| `ReviewVerdict` | abstract: what happens to the verdict on one primary review |
| `ReviewRounds` | reviews, reconciles, what Stop demands of them; refines `ReviewVerdict` |
| `SessionGate` | marker, Stop hook, impressions and decisions |
| `Records` | operators: what a record of each kind may be |
| `Workspace` | operators: references, insights, disputes, songs, the briefing |
| `Sisters` | the recorders of every plugin, the observation hooks, the Stop hook's other demands |
| `Hooks` | intake of attachments, profiles, launcher |
| `Contract` | operators: what the loader accepts |
| `Envelope` | operators: a sidecar and its check |
| `Gates` | operators: every gate and the verdict |
| `Tables` | operators: continuity, crimp and formboard tables, BOM, cut table, wire list, intake, imports |
| `Design` | a contract written and imported into, and what gates and tables say of it |
| `SimPdn` | operators: the simulation's brief, request and answer |
| `Liaison` | operators: UX-creator's requests, responses, inbox |
| `HandOff` | export, author, tables, simulation request and respond as processes beside an author who edits |
| `RecordLog_proofs`, `ReviewRounds_proofs`, `ReviewAlone_proofs`, `SessionGate_proofs`, `Sisters_proofs`, `Design_proofs`, `HandOff_proofs`, `Hooks_proofs` | theorems |

### RecordLog

A step of a writer is a step of `_append`: take the lock (`Acquire`), rename a
log VRP v1 wrote (`_archive_legacy`), raise (`Refuse`) or build the record
(`Compose`), and write it in three portions (`WriteSome`, `WriteRest`,
`WriteNewline`), since a killed process or a full disk can stop after any byte.
`Crash` may follow any of them. `tail` is what stands after the last newline;
readers see it (`Visible`), because `splitlines` does.

The SHA-256 is ideal: `event_id` counts the contents hashed, and `hashed`
says whether a line's id is the hash of its content. Bodies are of three kinds:
`Clean`, `Invalid` (the validator refuses them) and `Split` (their text holds a
character `json.dumps` leaves alone and `splitlines` breaks at). The world
outside may change a line, remove, repeat or exchange lines, set the clock back,
and append v1 lines; the user moves a broken log aside. The history variables are
`damage` (what has harmed the present file) and `committed` (the log as the last
append left it). What is missing at the end of a log harms
nothing that `verify_log` looks at, which `OnlyLostTailIsSilent` makes exact (finding 6).
Blank lines and lines that are JSON but no object are not
distinguished from the other forms of damage. The lock is per directory and the
model has one log of it; logs of other kinds only make waiting longer.

### ReviewVerdict and ReviewRounds

A recorder looks (`LookAt`: the image is hashed), checks (`CheckReview`, which is
`_round_errors`) and appends (`AppendReview`), three steps between which other
recorders and `Regenerate` may act; reconciling takes two. `record_reconcile`
reads the two logs one after the other, and the model reads them at once: the
second is only longer than the first knew, which the checks do not tell apart.
Event ids are places in the log; times are the order of the log (stamps have
microseconds and the log refuses a clock that goes back). What a review found is
a record of two sets, its categories and its error categories: that is all
`reviews_agree` looks at. `Demand` is what `_dual_review_problems` asks for a
primary review; all primaries are of the session.

`ReviewVerdict` is the abstract specification: none, then agree or disagree, then
for a split agree or unresolved, and nothing more. With one recorder at a time
`ReviewRounds` implements it under the mapping `VerdictOf`, which is what the Stop
hook reads.

### SessionGate

`SessionStart` and the `Stop...` actions are the hook; `Write` is any tool that
writes an artifact, also in the background while the hook runs; `HashArtifact`
and `AppendImpression` are the two halves of `record_impression`. The hook reads
marker and logs (`StopRead`), times (`StopScan`) and bytes (the decision, in
`StopAllow` and `StopDeny`). `StopTorn` is a hook killed while it rewrites the
marker; the host does not count a failed hook as a refusal. Times matter only in
comparison with the session's start, so the clock moves when a session starts
over. What else Stop asks for is in `ReviewRounds` and `Sisters`. A file whose time
is preserved by a copy and a clock set back are not modelled.

### Records, Workspace and Sisters

`Records` is the validators, `Workspace` what needs other records, both as Boolean
operators that are true of a record with an error. A text is the set of its shingles, so
that likeness (`AtLeast`) is computed; one that must merely be there is a Boolean.

In `Sisters` a recorder is two steps, since each checks its request against the
workspace (`record_impression` and the other five) and appends under the lock later
(`_append`): others record, files change and logs are damaged in between. `record_read`
is three, because it looks the references up and then hashes the document (`HashRead`);
`cmd_review_record` writes the advisory, reads it back and hashes the image again. How
bytes reach a log is `RecordLog`'s matter; here an append is one step, and an event id
is the record's place, counted over all that was ever in this log. `ws` holds the logs of
all plugins: wire and its sisters run the same code. A log that fails integrity can only be
moved aside, as its writer is told to (`MoveAside`): a new one begins, and what was in the
old one can be cited no more (`aside` counts it). The briefing holds what fits of its
`limit` lines, concerns before reads before songs, in any order within a kind. The observation hooks number their line when they begin and write it later,
whole or not. `StopRead` and `stop` are the two moments of the Stop hook: what was
observed, read and sung is looked at after the logs were read. The history variable
`debts` is what the session came to owe, and when.

### Hooks

The three hooks share nothing but processes that may be killed. `Attach` writes an event
in two steps; `ReadPending` and `ListScanned` are the two listings `main` makes; an
image is opened (`Extract`) and filled (`Fill`). The manifest is written in portions
(`AppendManifest`), each some lines and perhaps a part of the next one; a kill between two
portions leaves a line unfinished (`unended`), and the next line that is written, by
whomever, becomes part of it, as does the rest of a line into which another hook broke. A
cut just before a line's end counts as one inside it, though the next reader could still
parse that line; a cut inside a character, which makes the whole manifest undecodable until
somebody mends it, is not modelled. `_atomic_write` is one step because its temporary file is its writer's alone; the
editor of a profile writes in place. The launcher resolves (`BeginLaunch`), inspects,
verifies, pulls and runs; `gh` and docker may answer too late (`_run_timed`, `Pull` with
`intime` false: the image comes and the launcher is gone). `missed`, `spoiled` and `swallowed`
are history: they name the three ways an image can be lost, listed below.

### Contract, Gates, Tables and Design

A contract is a record of sets of elements with ids. Each gate of `gates.py` is an
operator of its name that yields a set of checks `[gate, subject, status]`; `run_gates`
puts them together and `Verdict` judges. Decimal quantities are integers in small units and
ratios are compared crosswise, so no rounding is introduced. One place is not exact in the
code and decides: `route_fit` multiplies the sum of a route's metres, the formboard adds
millimetres segment by segment. There each sum and product is rounded as the code rounds it
(`Float`, a constant): to eight significant bits in the run of `Design`, not at all in that
of `HandOff`, and by any function that leaves rounded numbers alone (`Rounds`) in the proof.
The tolerance of 1e-9 of `_segment_enters_box` (`_KEEPOUT_EPS`, `gates.py:708`) is left out;
at the sizes of a harness in whole units it decides nothing. The union-find of
`continuity.py` is translated as it is, find and join, and so is the slab test of
`_segment_enters_box`; the reference definitions they are compared with (reachability,
points of a run inside a box) are properties of `Design`.

`Design` starts with an empty contract. `Author` writes any draft the loader accepts;
`Parse` and `cmd_import` are the two moments of an import, between which the sister may
export its file anew (`Export`), so the digest may be of bytes that were not parsed
(`overtaken`). A requirement of an intake keeps its source, `user` or `agent`, which no
check of the code reads.

### Envelope, SimPdn, Liaison and HandOff

`disk` maps a path to what it holds: `None`, `Torn` (a writer was killed in it) or a
value. A digest is what it is taken of. An export is one step per file (`WriteArtifact`), then the
manifest, then for `author` the verdict (`Judge`) and the report; a table command
writes the table and then the sidecar, which pins the contract file as it is by then
(`_with_envelope`); `respond` reads the request, the report, the logs and the artifacts in
four steps and writes the answer in a fifth. `Crash` may hit every process at every step and
leaves the file it writes torn or as it was. A file is compared by `Projection`: what a
draft's file shows, drafts that show the same being one. `Edit`, `MechExports`,
`SimAnswers`, `Ask`, `SisterAnswers` and `Damage` are the others. `overtaken` and `saw` are
history.

## Runs

Every run has `CHECK_DEADLOCK FALSE`: all processes may be done, and the bounds end
the behaviours.

| Run | Instance | Shows |
|---|---|---|
| `record_log` | 2 writers, up to 2 new records after up to 2 old ones and a v1 line, 2 faults, 1 move aside, 2 clock values | all properties of `RecordLog`; two faults are enough to edit twice or to edit after a crash, and two v1 episodes give two archives |
| `record_log_split` | 1 writer, 1 record | finding 1 |
| `review_rounds` | 2 recorders, 2 contents of the image, 4 reviews, 2 reconciles, readings that differ in severity | what holds although checks precede the lock. Four reviews hold a split with a tiebreak and a second primary. The recorders are alike and so are the contents: symmetry, with invariants only |
| `review_rounds_alone` | 1 recorder, 5 reviews, 3 reconciles, 3 readings that disagree pairwise | each round once, the refinement of `ReviewVerdict`, whose errors count |
| `review_rounds_tie` | 1 recorder | finding 2 |
| `review_rounds_twice` | 2 recorders | finding 3 |
| `session_gate` | 2 artifacts of 2 contents or absent, 1 refusal, 2 impressions, 2 prompts, 1 torn marker | the gate's verdict, its bound and its end |
| `session_gate_torn` | 1 artifact | finding 4 |
| `plugin` | 2 plugins and bard, 2 recorders or hooks at once, a briefing of 2 lines, the stories below | what is owed can be paid unless its author moved it aside, and is paid before a pass; what was settled stays settled; insights move legally when one plugin at a time moves them; nothing half done is taken for done |
| `insight_order` | the story of one insight, 1 recorder | finding 5 |
| `design` | drafts at each gate's borders, 4 source files, 3 imports, 1 export anew, lengths of 8 significant bits | the tables follow from the wires, a pass has its physical meaning, copies can be traced, imports leave an intake its ground |
| `handoff` | 4 contracts, 2 processes, 2 requests, the budgets below | what passes is whole and current, and a done names every gate its report owes |

**Budgets.** `plugin` and `handoff` begin in one of a set of budgets: how often each
thing may happen, and for `plugin` which requests the plugins have. The system's
operations are many and most do not meet; a budget lets those meet that share state,
and as each behaviour has one budget, their states add up and do not multiply. Every
action has the same code in all of them.

`plugin` has stories of an insight (5 records by one recorder at a time, which is enough for
open, tried, adopted or rejected, and a revisit; and 5 by two at once), an import that
is read and answered, images that are looked at and reviewed, a review through the
advisory, songs delivered three times, concerns that are repeated, disputed and decided
on, and sessions that begin anew; and of hosts: three intake hooks over two events that
share an image and one that cannot be decoded, three profile hooks with every source
a template can come from, two launchers for every order of locks. One kill each: a second
kill only repeats the first, as nothing repairs itself in between. The recorders are
alike and so are the hooks' runners: symmetry, with invariants and properties of single
steps only.

`handoff` has budgets of three exports with three edits (so that a contract comes back:
A, B, A), two tables at once with two edits, two simulation requests with two edits, an
author beside an answer, an answer that is overtaken, and a report on a contract whose
simulation has answered. Of the four contracts two ask for
no simulation, and one of those fails its gates; two ask for one, with different loops. Two
processes are enough since every property is about one file against another, each of
which has one writer at a time that matters; the processes are alike: symmetry.

The drafts of `design` are built to each gate's borders: splices in chains and loops,
limits met and missed by one, tables of standards at, between and beyond their points,
routes whose sums round differently, runs beside, along and through a box's faces. Eight
bits are few enough that lengths of three digits round, and rounding is the same at any
width. Three imports are a first, a re-import of
a changed file and one of another board that has a connector of the same name.

### Fairness

`RecordLog`: weak fairness of each writer's steps inside the section (`Step`),
none of asking for the lock. The code in the section waits for nothing but the
file system. `LockIsReleased` needs no more; that a waiting writer gets the lock
would need a fair `flock`, which nothing promises, and is not claimed.
`SessionGate`: weak fairness of the hook's steps. A turn of the agent ends and the
host runs the hook to its end; nothing is assumed of what the agent records.
The other modules claim safety only: every process of theirs may be killed, and no code
waits for or retries anything.

## Findings

1. **A line separator breaks the log** (`_vrp.py:738`, `records.py:339`).
   `json.dumps(ensure_ascii=False)` writes U+0085, U+2028 and U+2029 as they are,
   `load_jsonl` splits at them. The record is accepted and no append after it is.
2. **A second primary review takes the tiebreak away** (`records.py:450`).
   Only the latest primary's split counts, but Stop goes on asking for the first's.
3. **Rounds can happen twice** (`records.py:434`). The rounds are checked before
   the lock is taken.
4. **A torn marker is a new session** (`require_records.py:104`). What was owed is
   forgotten.
5. **An older status counts** (`_vrp.py:1040`). `insight_history` orders statuses by
   plugin and then by place. When wire deferred an insight and circuit rejected it
   afterwards, it counts as deferred and its hypothesis can be proposed again without
   `revisits`.

Five more are stated by a passing run, whose property says exactly where the code stops
keeping what is written:

6. **A lost tail goes unnoticed** (`_vrp.py:788`, `OnlyLostTailIsSilent`). Nothing outside a
   log binds its head, so lines removed from its end leave a log that verifies;
   `records-protocol.md:54` says the chain proves that the log was not "deleted from".
7. **Board and gate round differently** (`formboard.py:26`, `TablesAgree`). With segments of
   0.1 m and 0.2 m and a wire of 0.3 m `route_fit` fails and the board's slack is 0;
   `sister-cooperation.md:84` says the gate "fails on the same data".
8. **What was moved aside is still asked for** (`records.py:311`, `DemandsResolve`). Stop
   wants an answer that cites an event nobody can cite, though `require_records.py:26` says
   that "nothing here waits on another agent".
9. **A half line swallows the next** (`intake_attachments.py:210`, `AttachmentsAreKept`). The
   manifest's record of an image can become part of a line that a killed hook left, and the
   image of a marked event is in no record (`swallowed`).
10. **Events are marked unscanned** (`intake_attachments.py:169`, `AttachmentsAreKept`). An
    event that arrives between the two listings, or is half written at the first, is marked
    and its images are lost (`missed`), though `.processed` is said to list scanned files.

Met while modelling, in the models as the code has them, and not claimed as findings:

- `import_freshness` compares the digest of the source, which a re-import refreshes, while
  elements it knows are skipped: a pass goes with copies of older data. `CopiesAreTraceable`
  is what does hold. Elements are known by system and ref only, so a second board's `J1`
  is skipped for the first board's.
- A wire type rated for 0 degrees ends the insulation gate in a division by zero, which
  `_wrap` makes one unknown check.
- The docstring of the temperature factor speaks of None outside the curve; the code
  takes the nearest end. The one of the intake speaks of "explicitly assumed" elements;
  the code blocks an element that stands on assumptions alone. It also calls requirements
  user-stated (`intake.py:3`), while `Requirement.source` may be `agent` (`intake.py:26`) and
  no check reads it: an intake can be ready on the agent's own requirements alone.
- The briefing has 8 lines. With 8 open concerns it names neither the reads nor the songs
  Stop will ask for (`BriefingNamesDemands` excepts a full one).
- Where a wire declares no terminal, the cut table prints its wire type's name and the BOM
  counts the cavity's terminal. The two agree once `terminal_compatibility` passes, which
  needs every terminal to be declared (`TablesAgree`). A terminal that is called as a wire
  type is cannot be told from it in the cut table, so the property leaves those names out.
- A simulation answer of status "rejected" whose pdn checks all pass is a pass; a pdn check
  named "report" keeps the provenance from being asked for.
- `vision_points` lists the rasters in the directory, also those of an earlier export.
- A request issued anew without one of the inputs it had counts as answered.
- `hooks.json` does not match `wire_export`, which `record_image_observation.py` handles.
- A malformed song is briefed by `recall` and cannot be received.
- The `decision_refs` of an adopted insight are not resolved.
- A hook killed while it writes an image that another has recorded leaves half a file that
  nobody tries again (`spoiled`).
- The advisory and the log entry of `review-record` may bind different bytes.
- In auto mode an answer of `gh auth status` that comes too late skips the verification.

## Proofs

`RecordLog_proofs` proves, for any sets of writers and bodies and any bounds:

- `TypeCorrect`: `Spec => []TypeOK`;
- `MutualExclusion`: the section has at most one writer, the one that holds the lock;
- `ChainAlwaysIntact`: `Spec => []ChainIntact`;
- `AppendsOnlyAppend`: `Spec => AppendOnly`;
- `OnlyTheTailIsLost`: `Spec => []OnlyLostTailIsSilent`;
- `BrokenStaysAsItIs`: `Spec => BrokenIsFrozen`;
- `LegacyIsKept`: `Spec => LegacyKept`.

`ChainIntact` says that the file verifies when no write is half done, which is
not inductive: a writer that has verified the file and not yet written must still
find the same file. The strengthening `IInv` adds that the lock is held exactly
inside the section (`LockInv`), that no line's event id is one still to be given
(`DraftsInv`, `LogHashed`: two records never share an id, which the duplicate
check needs), and for a file nothing has harmed (`SectionInv`) that it verifies,
that nothing stands after its newline outside a write, and that the draft of the
writer in the section continues it (`Follows`). The lemma `Inductive` has one step
per action; `Alone` says that a writer in the section is the only one,
`ChainAppend` that a draft that follows a chain makes a longer chain.

The three last compare the file with the log as its last append left it, whatever was done
to the file since. `MemoryInv` says that every line of the file whose id is the hash of
its content stands in `committed` (`Remembered`), there at the place its sequence
number names, and that a writer in the section goes on from it (`AtWork`). A file that
verifies numbers its lines from 1, so each line is the one `committed` has at this place
and the file is a beginning of it. For this the hash must be ideal: an editor cannot make
a line of his own that its id fits.

The
assumptions are the modules' `ASSUME`s: bodies of different kinds are different,
`NoWriter` is no writer, the bounds are numbers.

`ReviewRounds_proofs` proves, for any set of recorders that run at once, any
images, readings and bounds:

- `TypeCorrect`: `Spec => []TypeOK`;
- `TiebreaksNeedSplits`: `Spec => []TiebreakNeedsSplit`;
- `SecondRoundsNeedSplits`: `Spec => []SecondRoundNeedsSplit`;
- `MajoritiesAreTheTiebreaks`: `Spec => []MajorityIsTheTiebreaks`;
- `DemandsAreMet`: `Spec => []DemandsCanBeMet`.

The checks are made before the lock is taken, so the properties of the logs are
not inductive: what is appended was checked against older logs. `IInv` therefore
says of every draft what will have to be true when it is appended (`DraftsInv`,
`Binds`), and the argument is that this is about prefixes only: both logs grow
(`LogsGrow`), a split stays a split (`SplitsStay`), and a reconcile goes on
binding the reviews it bound (`BindsKept`). `RoundsHappenOnce` is the one property
that speaks of what is *not yet* in the log, and with two recorders it fails (run
`review_rounds_twice`). The lemma `HasLast`, that a set of numbers up to n has a
last one, stands for the induction behind `primaries[-1]`: it is taken from the
well-foundedness of inclusion of finite sets. `MajorityOfThree` is set algebra:
the tiebreak agrees with a side only when it has that side's errors. `DemandsAreMet` adds that every round in the log or in a draft
has an outcome of its kind (`OutcomesInv`); then each thing the hook asks for is met by a
request that passes the writer's checks, which the proof builds (`Offers`). The
assumptions are `ReadingsAssumption` and `BoundsAssumption`, and no proof uses the
bounds.

`ReviewAlone_proofs` is about one recorder at a time (`OneRecorder`):

- `RoundsAreOnce`: `Spec => []RoundsHappenOnce`;
- `ImplementsVerdict`: `Spec => VerdictsAreFinal`, that is, the logs implement
  `ReviewVerdict`.

Alone, a recorder appends to the logs it has checked, so a draft still finds missing what
it found missing (`DraftOK`). A step of the log is a step of the abstract verdicts or a
stutter (`StepImplements`): the reconcile that is appended has the highest round of its
primary review (`Top`), so it is the one `VerdictOf` takes. With two recorders
`RoundsHappenOnce` is false, so the hypothesis cannot be dropped.

`SessionGate_proofs` proves, for any artifacts, contents, limits and bounds:

- `TypeCorrect`: `Spec => []TypeOK`;
- `RefusalsAreBounded`: `Spec => []RefusalsBounded`;
- `VerdictsAreTrue`: `Spec => VerdictIsTrue`;
- `PassesAreCovered`: `Spec => PassCoversScanned`.

The hook judges with what it has read, so `IInv` says what its readings have to do with the
present: always that marker and impressions are of this session and still there (`HookOK`);
everything, as long as nothing changed under it (`Undisturbed`). `MarkerOK` ties the
marker's count to the refusals and its time to the session's begin until one is torn, and
`Times` counts the markers that were begun anew, which bounds the clock.

`Sisters_proofs` proves, for any plugins, recorders at once, requests, damage and bounds:

- `BaseHolds` and `ChecksHold`: `Spec => [](Base /\ SoundInv)`, the invariants below;
- `DemandsCanBeAnswered`: `Spec => []DemandsResolve`;
- `DisputesStand`: `Spec => []DisputesHold`;
- `BriefingIsComplete`: `Spec => []BriefingNamesDemands`;
- `HistoryIsLegal`: `Spec => []LegalHistory`;
- `ConcernsAreSettledOnce`: `Spec => ConcernsStayAnswered`;
- `PassLeavesNothing`: `Spec => PassMeansSettled`.

A recorder checks against logs that have changed when it appends. `Base` says what stays:
each record has its own place for an event id, times rise along a log and are in the past,
and a record that waits was checked before now. So what the logs held at a time t can be
read from them for ever, as their records up to t, and `SoundInv` says of every record,
in a log or on its way, what its check found in those of its time: that its references exist, that
it repeats nothing disputed, that its status was a legal step from the one that counted
(`StatusAt`). For histories of an insight `FinalInv` adds that nothing follows a rejection
or a replacement when one plugin moves it: its log is the only one with statuses of this
insight, so the last in the order of names is the last in time. `HookInv` ties what the
Stop hook read, and the session's debts, to the logs (`SnapOK`, `DebtOK`): no debt is
older than the log it will be looked for in, and no two records share a time. A log that is
moved aside takes its records with it: event ids go on counting, so no later record has an
id of theirs, and each theorem says what it loses. `DemandsCanBeAnswered` names the
references that are lost, `HistoryIsLegal` and `PassLeavesNothing` ask that the logs they
speak of are still there, `ConcernsAreSettledOnce` excepts the step itself. That the
prover can reason about records, the requests have the fields of their kind
(`BudgetsAssumption`); the others are `MeAssumption` (the session's plugin is one of the
plugins) and `OrderAssumption` (the plugins' order is a sequence of them).

`Design_proofs` proves, for any drafts, source files, imports and sidecars:

- `FailuresStay`: `Spec => []FailuresPersist`;
- `GroundIsKept`: `Spec => ImportsKeepGround`;
- `GroupsAreJoined`: `Spec => []GroupsAreReachability`;
- `ConductorsCarryOneNet`: `Spec => []PassingGroupsCarryOneNet`;
- `TablesAlwaysAgree`: `Rounds` implies `Spec => []TablesAgree`;
- `CopiesStayTraceable`: `Spec => []CopiesAreTraceable`;
- `KeepoutsAreGeometric`: `Spec => []KeepoutIsGeometric`.

The invariant is small: every contract was accepted by the loader (`LoadedAlways`), which
is needed for the order of a derating table and the signs of what is measured. The work is in
the gates. They judge a contract with a wire more than one without (`Grown`), and for
each gate a lemma finds in the larger contract a check that fails (`Bad`) from the one that
failed in the smaller (`ConnectivityStays` to `RatingStays`): most keep their failing check;
a bundle that has one wire more derates no less (`DeratingFalls`), a thicker bundle bends
no tighter (`HighestGrows`), and a limit times a smaller factor is smaller (`LimitFalls`).
The temperature's factor is a number because the table's points are
(`FactorIsNumber`, `CurveIsOfPoints`).

The union-find is a recursive function, and that such a function exists is shown first: a
least place where it did not would have to be later than one where it does (`AftersExist`,
`HasFirst`). A forest is `Rooted` when some r leads each node to its root and some d falls
on the way, so `Find` ends (`FindsRoot`). Joining two roots keeps a forest (`Joins`), and
after i wires two nodes have the same root exactly when every set of nodes that none of
these wires leaves holds both or neither (`JoinsOneMore`, `ForestJoins`). For
`ConductorsCarryOneNet` the points that carry one net are such a set: a passing cavity has
one wire, and a passing splice one net (`OneNetEach`).

That the tables agree with the gates is shown table by table. The formboard's stations and
the gate's length of a run are both sums of segments, rounded at each step and by recursive
functions, which exist (`SumsExist`, `Sums`, `SumOf`, `RouteSums`). A route of one segment has
one product; on a route where nothing has to be rounded the two last values are the same,
as a least place where they differ would come after one where they agree (`LastStation`,
`BoardsAgree`). Of the rounding the proof asks only that it leaves rounded numbers alone
(`Rounds`). Once the
terminals pass, each end of a wire declares its terminal (`TerminalsDeclared`), so the ends
with a terminal's name and the places of the cut table that print it are as many: a
bijection leads from one to the other (`TwoEndsEach`, `TerminalsAgree`).

Imports append item after item, by a recursive function too (`AppendsExist`). What it adds
is a copy of an item whose ref the contract did not know before this import
(`AppendedIsFresh`), so a copy of another digest with the same system and ref cannot be
added; a file that lists a ref twice is copied twice at once, with one source. `TraceInv`
adds that what was parsed is what the file holds unless it was overtaken, and that each
file lists its connectors, which comes from `ProvenanceAssumption` (drafts carry no provenance, and a
connectivity source lists its connectors and nets). For `GroundIsKept` the ids of elements
and of sources only grow (`AppendedStays`, `UpsertKeepsIds`, `ImportsGrow`): what the elements of a
ready intake stood on is still there, and those that came stand on the requirements of their
import (`ReadyDef`).

The keep-out gate computes with fractions of a run, and its reference walks along the run in
steps. `Steps` makes them small enough for every box: twice the product of the run's
extents along the three axes, so each place where the run meets a face is a whole number of parts
of two steps (`WithinParts`), fractions compare as parts do (`LessParts`, `LargerParts`),
and an interval that is not empty has a step inside (`BetweenParts`, `EntersInside`). That
coordinates are whole numbers is what the loader's model asks of points and boxes (`Point`).

`HandOff_proofs` proves, for any contracts, processes, requests and budgets, and with kills
at every step:

- `BundlesAreWhole`: `Spec => []PassingBundleIsOneContract`;
- `AnswersWereSeen`: `Spec => []AnsweredWasSeen`;
- `TablesAreCurrent`: `Spec => []EnvelopePassMeansProjected`;
- `SimulationsAreCurrent`: `Spec => []SimPassIsCurrent`;
- `DonesAreEarned`: `Spec => []DoneIsEarned`.

They compare what is on the disk with the present contract, while it was written by
processes that read an older one. `IInv` therefore keeps what each process has written and
of which contract (`JobOK`, `ExportOK`: every file of a bundle is written or still to be
written), and of each file what it will be compared with: a manifest's digests are all of
its own contract's files (`BundleOK`), an answer of wire carries the inputs it has
seen (`AnswersOK`), the simulation's answer carries the brief it solved (`SolutionOK`),
and until an edit or another export overtakes it a table is the present contract's
(`TablesOK`). The digests then do the rest: what is compared equal is the same. A lemma
for each action shows that it keeps `IInv`; most write nothing it speaks of (`Elsewhere`).
`DonesAreEarned` has an invariant of its own, `EInv`: a report holds a check of each gate its
contract owes (`Owed`, `Complete`, `JudgedAll`), a process that answers keeps what the report it
read made of them (`Sound`) and whether the dependencies were answered then, and what is answered stays
answered (`StaysAnswered`). The verdict of a report is a pass only if all checks are, since each gate
yields one of three statuses (`GatesSay`), and the simulation's answer, whatever it is,
yields a check (`AnswersSay`). Two limits are in the statement: an answer given without a report carries
its author's own verdicts, whatever they are, and the gates that look at files (imports,
manifest, simulation) passed when the report was made; the files may have changed since.
The assumptions are `TornAssumption` (a torn file is there), `PathsAssumption` (different files have different paths) and
`DraftsAssumption` (only contracts are written, and a contract that names the answer of its
simulation names the one place where it is put). No proof uses the budgets.

`Hooks_proofs` proves, for any processes, events, profiles, locks and images:

- `ProfilesAreNeverHalf`: `HooksSpec => []ProfilesAreWhole`;
- `RunsAreAttested`: `HooksSpec => []ImagesAreAttested`;
- `ImagesAreKept`: `HooksSpec => []AttachmentsAreKept`.

A process acts later on what it has decided, so `IInv` keeps what that is (`JobOK`): a hook
that provides profiles carries a template that is not half written and names of the needed
profiles only; a launcher that may pull carries an image that is attested or was not to be
checked, and one that may run an image that is there. With it go the store (`StoreOK`),
docker's images, each of which somebody pulled (`ImagesOK`), and the plan (`PlanOK`). The
assumption is `PlansAssumption`: the host begins without the profiles agents need, which
nobody but the hooks writes, and the profile in its settings is no half one.

`ImagesAreKept` has an invariant of its own, `AInv`. Every image of an event that a hook has
read whole is still to be done or recorded by it (`CollectOK`), is written to the manifest
when the hook comes to mark the event (`RecordedInv`), and stays there (`MarkedInv`). Written
(`Written`) is what the manifest names and what was swallowed: a record that became part of
a line another process had left half is there, but no reader finds it, and the property
exempts its image by name. What the manifest names, or a hook takes for recorded, has a file that is whole, is being written or is
spoiled (`FilesInv`): a hook that finds an image in the manifest does not write it again,
so a file that is emptied is one that nobody knows of, or its writer will fill it. That nothing
an event has is lost when the lists of its files become one is `FlattenHolds`; the flattening is
a recursive function, so that it exists (`FlatExists`) and what it holds are shown with least
counterexamples (`HasFirst`). The assumption is `EventsAssumption`: events are numbered and
each has a list of images.

Only model-checked:

- liveness (`LockIsReleased`, `EveryTurnEnds`), which is out of the prover's reach;
- what the runs that end in a violation show, as it is false.

## What is left

- The bytes that return to an earlier version and sessions without an id: two ways to
  record too little that no property covers yet.
