------------------------------- MODULE Sisters -------------------------------
(***************************************************************************)
(* Plugins that record what they thought of each other's work: the         *)
(* recorders of src/wire/records.py, run by every plugin of the workspace  *)
(* on its own logs, and what one of them owes before it may stop           *)
(* (plugins/wire/hooks/scripts/require_records.py).                        *)
(*                                                                         *)
(* A recorder checks its request against the workspace and appends later:  *)
(* others record, files change and logs are damaged in between.  How a     *)
(* line is appended is RecordLog's, the rounds of a review ReviewRounds',  *)
(* changed artifacts and refusals SessionGate's.                           *)
(*                                                                         *)
(* An event id is the record's place among all of its kind that its plugin  *)
(* recorded, moved aside or not.  Times are counted.                       *)
(***************************************************************************)
EXTENDS Workspace

CONSTANTS Procs,       \* recorders and hooks that run at once
          Me,          \* the plugin whose session this is
          Songs,       \* where bard delivers
          Cites(_),    \* the impressions a document cites itself
          review_record_path(_), \* the advisory of an image
          NoFiles,     \* what is there in the beginning
          Budgets      \* bounds: how often each thing may happen, and the requests there are

ASSUME MeAssumption == Me \in Plugins

\* What a request of a kind has, whatever else it leaves out.
Fields(kind) ==
  {"kind"} \union
    CASE kind \in ImpressionKinds ->
           {"artifacts", "image_sha256", "facets", "insights", "upstream"}
      [] kind = "insight_status" -> {"insight", "status"}
      [] OTHER -> {}

Requested(q) == "kind" \in DOMAIN q /\ q.kind \in Kinds /\ Fields(q.kind) \subseteq DOMAIN q

ASSUME BudgetsAssumption ==
  \A b \in Budgets :
    /\ {"requests", "imports", "advisories"} \subseteq DOMAIN b
    /\ \A p \in Plugins : \A q \in b.requests[p] : Requested(q)
    /\ \A q \in b.advisories : Requested(q) /\ q.kind = "vision_review"

VARIABLES ws, files, jobs, clock,
          observed,  \* image-observations.jsonl and vision-tool-events.jsonl
          since,     \* started_at of the session's marker
          status,    \* records-status.json
          debts,     \* history: what the session came to owe, and when
          torn,      \* history: a hook was killed in the middle of a line
          left       \* what is left of the budget

vars == <<ws, files, jobs, clock, observed, since, status, debts, torn, left>>

Idle == [op |-> "idle"]
Empty == [lines |-> <<>>, open |-> FALSE]

Init == /\ ws = [p \in Plugins |-> [log |-> [k \in Kinds |-> <<>>], broken |-> {},
                                    aside |-> [k \in Kinds |-> 0]]]
        /\ files = NoFiles /\ jobs = [pr \in Procs |-> Idle] /\ clock = 1
        /\ observed = [images |-> Empty, events |-> Empty]
        /\ since = 1 /\ status = [verdict |-> "unknown", at |-> 0]
        /\ debts = {} /\ torn = FALSE /\ left \in Budgets

Spend(what) == left[what] > 0 /\ left' = [left EXCEPT ![what] = @ - 1]
Start(pr, job) == /\ Spend("jobs") /\ jobs[pr] = Idle
                  /\ Cardinality({o \in Procs : jobs[o] # Idle}) < left.atOnce
                  /\ jobs' = [jobs EXCEPT ![pr] = job]
At(pr, op) == jobs[pr].op = op
Goto(pr, job) == jobs' = [jobs EXCEPT ![pr] = job]
Owe(new) == debts' = debts \union new

-----------------------------------------------------------------------------
(* The recorders: what is checked before the log is locked.                *)

_own(p) == ws[p].broken = {}

_context_errors(p, draft) ==
  \/ ~_own(p)
  \/ grounding_errors(draft, files)
  \/ novelty_errors(draft, Of(ws, p, draft.kind))
  \/ upstream_resolution_errors(draft, ws)
  \/ reraise_errors(draft, p, ws)
  \/ rejected_insight_errors(draft, ws)

Hashed(paths) == {[path |-> f, sha256 |-> files[f]] : f \in paths}
There(paths) == \A f \in paths : files[f] # None
_hash_evidence(evidence) ==
  {IF e.path = None THEN [path |-> None, sha256 |-> None, reference |-> e.reference]
     ELSE [path |-> e.path, sha256 |-> files[e.path], reference |-> FALSE] : e \in evidence}

\* The request was found good; checked is when.
Checked(pr, p, body) ==
  /\ Start(pr, [op |-> "append", plugin |-> p, body |-> body, checked |-> clock])
  /\ UNCHANGED <<ws, files, clock, observed, since, status, debts, torn>>

record_impression(pr, p, q) ==
  LET draft == [q EXCEPT !.artifacts = Hashed(q.artifacts)]
  IN /\ q.kind = "stage_impression" /\ StageImpressionInput(q)
     /\ There(q.artifacts) /\ ~_context_errors(p, draft) /\ Checked(pr, p, draft)

\* A review as it will be recorded, and whether it may be.
Looked(q) == [q EXCEPT !.image_sha256 = IF q.image_path = None THEN None ELSE files[q.image_path]]
Reviewable(p, q) ==
  VisionReviewInput(q) /\ There({q.image_path} \ {None}) /\ ~_context_errors(p, Looked(q))

record_vision_review(pr, p, q) ==
  q.kind = "vision_review" /\ Reviewable(p, q) /\ Checked(pr, p, Looked(q))

record_decision(pr, p, q) ==
  /\ q.kind = "decision" /\ DecisionInput(q) /\ There({e.path : e \in q.evidence} \ {None})
  /\ \A r \in q.impression_refs : resolve_ref(ws, r.system, r.event_id) # {}
  /\ \A r \in q.insight_refs : \E target \in resolve_ref(ws, r.system, r.event_id) :
                                 r.insight_id \in {i.id : i \in target.insights}
  /\ Checked(pr, p, [q EXCEPT !.evidence = _hash_evidence(q.evidence)])

record_insight(pr, p, q) ==
  /\ q.kind = "insight_status" /\ InsightStatusInput(q) /\ There({e.path : e \in q.evidence} \ {None})
  /\ ~insight_write_errors(q, ws)
  /\ Checked(pr, p, [q EXCEPT !.evidence = _hash_evidence(q.evidence)])

record_song_receipt(pr, p, q) ==
  /\ q.kind = "song_receipt" /\ SongReceiptInput(q) /\ There({q.delivery})
  /\ ~song_delivery_errors(files[q.delivery]) /\ files[q.delivery].to = p
  /\ _own(p) /\ ~received(ws[p].log, q.delivery, files[q.delivery])
  /\ Checked(pr, p, [q EXCEPT !.delivery = [path |-> q.delivery, sha256 |-> files[q.delivery]]])

\* The producer's own impressions of these bytes.
BoundTo(content, producer) ==
  {[system |-> producer, event_id |-> r.event_id] :
     r \in IF producer \in Plugins /\ ws[producer].broken = {}
             THEN {i \in Impressions(ws, producer) :
                     content \in {a.sha256 : a \in i.artifacts} \union {i.image_sha256}}
             ELSE {}}
Unsure(producer) == producer \in Plugins /\ ws[producer].broken # {}

\* The impressions a document cites, whether they can be found or not.
impressions_for_artifactUnchecked(content, producer) ==
  [refs |-> Cites(content) \union BoundTo(content, producer), unresolved |-> Unsure(producer)]

\* What can be found of what a document cites, and what is bound to it.
impressions_for_artifact(content, producer) ==
  LET found == {r \in Cites(content) : resolve_ref(ws, r.system, r.event_id) # {}}
      refs == found \union BoundTo(content, producer)
  IN [refs |-> refs, unresolved |-> found # Cites(content) \/ Unsure(producer) \/ refs = {}]

\* The artifact is hashed once its impressions have been looked up.
record_read(pr, p, q) ==
  /\ q.kind = "upstream_read" /\ ReadInput(q) /\ There({q.artifact})
  /\ Start(pr, [op |-> "hash", plugin |-> p, checked |-> clock,
                body |-> With(impressions_for_artifact(files[q.artifact], q.producer), q)])
  /\ UNCHANGED <<ws, files, clock, observed, since, status, debts, torn>>

HashRead(pr) ==
  /\ At(pr, "hash")
  /\ LET path == jobs[pr].body.artifact
     IN Goto(pr, [jobs[pr] EXCEPT !.op = "append",
                                  !.body.artifact = [path |-> path, sha256 |-> files[path]]])
  /\ UNCHANGED <<ws, files, clock, observed, since, status, debts, torn, left>>

\* Under the lock: the log must be whole and the record valid.
_append(pr) ==
  LET job == jobs[pr]  kind == job.body.kind  p == job.plugin  old == ws[p].log[kind]
      record == With([event_id |-> <<p, kind, ws[p].aside[kind] + Len(old) + 1>>, plugin |-> p,
                      sequence |-> Len(old) + 1, recorded_at |-> clock + 1,
                      checked |-> job.checked], job.body)
  IN /\ At(pr, "append") /\ Goto(pr, Idle)
     /\ IF kind \in ws[p].broken \/ record_errors(kind, record)
          THEN UNCHANGED <<ws, clock, debts>>
          ELSE /\ ws' = [ws EXCEPT ![p].log[kind] = Append(@, record)]
               /\ clock' = clock + 1
               /\ Owe(IF p = Me /\ kind = "upstream_read"
                        THEN {[what |-> "read", is |-> r, at |-> clock + 1] : r \in record.refs} ELSE {})
     /\ UNCHANGED <<files, observed, since, status, torn, left>>

-----------------------------------------------------------------------------
(* The commands of src/wire/cli.py that record.                            *)

\* wire record: one recorder for each kind.
cmd_record(pr, p, q) ==
  \/ record_impression(pr, p, q) \/ record_vision_review(pr, p, q)
  \/ record_decision(pr, p, q) \/ record_insight(pr, p, q)
  \/ record_song_receipt(pr, p, q) \/ record_read(pr, p, q)

\* wire import: what came with the source is read, if its kind says who made
\* it; the import succeeds in any case.
_record_import_read(pr, path, kind) ==
  /\ kind \in {"circuit-json", "mech-envelope"}
  /\ record_read(pr, Me, [kind |-> "upstream_read", artifact |-> path,
                          producer |-> IF kind = "circuit-json" THEN "circuit" ELSE "mech"])

\* The advisory next to an image, bound to its bytes.
build_review_record(q) ==
  [image_path |-> q.image_path, image_sha256 |-> files[q.image_path],
   impression |-> q.impression, findings |-> q.findings]

write_review_record(q) ==
  files' = [files EXCEPT ![review_record_path(q.image_path)] = build_review_record(q)]

\* wire review-record: the advisory is written, whatever becomes of the record,
\* and without --vrp-json there is none.
cmd_review_record(pr, q, vrp_json) ==
  /\ There({q.image_path}) /\ impression_is_prose(q.impression)
  /\ \A f \in q.findings : VisionFinding(f)
  /\ Start(pr, IF vrp_json THEN [op |-> "mirror", body |-> q] ELSE Idle)
  /\ write_review_record(q)
  /\ UNCHANGED <<ws, clock, observed, since, status, debts, torn>>

\* The advisory is read back and the image is hashed again.
_log_vision_review(pr) ==
  LET detail == files[review_record_path(jobs[pr].body.image_path)]
      q == [jobs[pr].body EXCEPT !.image_path = detail.image_path,
                                 !.impression = detail.impression, !.findings = detail.findings]
  IN /\ At(pr, "mirror")
     /\ Goto(pr, IF Reviewable(Me, q)
                   THEN [op |-> "append", plugin |-> Me, body |-> Looked(q), checked |-> clock]
                   ELSE Idle)
     /\ UNCHANGED <<ws, files, clock, observed, since, status, debts, torn, left>>

-----------------------------------------------------------------------------
(* The observation hooks: record_image_observation.py and                  *)
(* record_vision_tool_event.py.  No lock is taken.                         *)

next_sequence(log) == Len(log.lines) + 1

\* A line that cannot be parsed has no fields.
Unparsed == <<>>

\* A line after one without an end is part of that one.
Line(log, record, whole) ==
  IF log.open
    THEN [lines |-> Append(Front(log.lines), Unparsed), open |-> ~whole]
    ELSE [lines |-> Append(log.lines, IF whole THEN record ELSE Unparsed), open |-> ~whole]

\* The agent looked at an image; its bytes are hashed when the line is written.
ViewImage(pr, image) ==
  /\ left.observe /\ files[image] # None
  /\ Start(pr, [op |-> "image", image |-> image, sequence |-> next_sequence(observed.images)])
  /\ UNCHANGED <<ws, files, clock, observed, since, status, debts, torn>>

record_image_observation(pr, whole) ==
  LET sha256 == files[jobs[pr].image]
      id == <<"image", jobs[pr].sequence, sha256>>
  IN /\ At(pr, "image") /\ Goto(pr, Idle) /\ clock' = clock + 1
     /\ IF whole THEN UNCHANGED left ELSE Spend("kill")
     /\ torn' = (torn \/ ~whole)
     /\ observed' = [observed EXCEPT !.images =
          Line(@, [event_id |-> id, image_sha256 |-> sha256, recorded_at |-> clock + 1], whole)]
     /\ Owe({[what |-> "image", is |-> sha256, at |-> clock + 1]})
     /\ UNCHANGED <<ws, files, since, status>>

\* The vision tool answered a question.
AskVision(pr, question) ==
  /\ left.observe
  /\ Start(pr, [op |-> "event", question |-> question, sequence |-> next_sequence(observed.events)])
  /\ UNCHANGED <<ws, files, clock, observed, since, status, debts, torn>>

record_vision_tool_event(pr, whole) ==
  LET id == <<"event", jobs[pr].sequence, jobs[pr].question>>
  IN /\ At(pr, "event") /\ Goto(pr, Idle) /\ clock' = clock + 1
     /\ IF whole THEN UNCHANGED left ELSE Spend("kill")
     /\ torn' = (torn \/ ~whole)
     /\ observed' = [observed EXCEPT !.events =
          Line(@, [event_id |-> id, recorded_at |-> clock + 1], whole)]
     /\ Owe({[what |-> "event", is |-> id, at |-> clock + 1]})
     /\ UNCHANGED <<ws, files, since, status>>

-----------------------------------------------------------------------------
(* The session's hooks: require_records.py.                                *)

\* A session without a marker of its own begins; the prompts of one that has
\* one change nothing.
session_start == /\ Spend("session") /\ since' = clock + 1 /\ clock' = clock + 1
                 /\ UNCHANGED <<ws, files, jobs, observed, status, debts, torn>>

_in_session(r) == "recorded_at" \in DOMAIN r /\ r.recorded_at >= since
In(seq) == {seq[i] : i \in {j \in DOMAIN seq : _in_session(seq[j])}}

\* Reads of this session that nothing answers.
ReadProblems(log) ==
  UNION {{ref \in r.refs : ~acknowledged(log, ref, r.recorded_at)} : r \in In(log["upstream_read"])}

\* Songs to this plugin that can be received and are not.
SongProblems(log) ==
  {s \in song_deliveries(Songs, files) :
     /\ files[s].to = Me /\ ~song_delivery_errors(files[s])
     /\ ~received(log, s, files[s])}

\* The first look at each image.
FirstViews(lines) ==
  {lines[i] : i \in {j \in DOMAIN lines :
     /\ _in_session(lines[j])
     /\ ~\E k \in 1..(j - 1) : _in_session(lines[k]) /\ lines[k].image_sha256 = lines[j].image_sha256}}

\* Only what the session's reviews name counts as reviewed.
VisionProblems(log) ==
  LET reviews == In(log["vision_review"])
      events == {r.source_event_id : r \in reviews}
      images == {r.image_sha256 : r \in reviews}
  IN {e.event_id : e \in {f \in In(observed.events.lines) : f.event_id \notin events}}
     \union {o.event_id : o \in {f \in FirstViews(observed.images.lines) :
                                   f.image_sha256 \notin images /\ f.event_id \notin events}}

problems_for(log, broken) ==
  broken # {} \/ ReadProblems(log) # {} \/ SongProblems(log) # {} \/ VisionProblems(log) # {}

\* The logs are read first, what they must answer later.
StopRead(pr) == /\ Spend("stop") /\ jobs[pr] = Idle
                /\ Goto(pr, [op |-> "stop", own |-> ws[Me], at |-> clock])
                /\ UNCHANGED <<ws, files, clock, observed, since, status, debts, torn>>

stop(pr) == /\ At(pr, "stop") /\ Goto(pr, Idle)
            /\ status' = [at |-> jobs[pr].at,
                          verdict |-> IF problems_for(jobs[pr].own.log, jobs[pr].own.broken)
                                        THEN "fail" ELSE "pass"]
            /\ UNCHANGED <<ws, files, clock, observed, since, debts, torn, left>>

-----------------------------------------------------------------------------
(* The world around.                                                       *)

\* A tool or a sister writes a file, bard delivers a song.
Write(path, content) ==
  /\ Spend("write") /\ files[path] # content /\ files' = [files EXCEPT ![path] = content]
  /\ clock' = clock + 1
  /\ Owe(IF path \in Songs /\ content # None
           THEN IF content.to = Me /\ ~song_delivery_errors(content)
                  THEN {[what |-> "song", is |-> [path |-> path, sha256 |-> content], at |-> clock + 1]}
                  ELSE {}
           ELSE {})
  /\ UNCHANGED <<ws, jobs, observed, since, status, torn>>

Damage(p, kind) == /\ Spend("damage") /\ ws[p].log[kind] # <<>>
                   /\ ws' = [ws EXCEPT ![p].broken = @ \union {kind}]
                   /\ UNCHANGED <<files, jobs, clock, observed, since, status, debts, torn>>

\* A log that fails integrity is moved aside, as its writer is told to, and a
\* new one begins.
MoveAside(p, kind) ==
  /\ kind \in ws[p].broken
  /\ ws' = [ws EXCEPT ![p].broken = @ \ {kind}, ![p].log[kind] = <<>>,
                      ![p].aside[kind] = @ + Len(ws[p].log[kind])]
  /\ UNCHANGED <<files, jobs, clock, observed, since, status, debts, torn, left>>

Next ==
  \/ \E pr \in Procs :
       \/ \E p \in Plugins : \E q \in left.requests[p] : cmd_record(pr, p, q)
       \/ \E i \in left.imports : _record_import_read(pr, i.path, i.kind)
       \/ \E q \in left.advisories : \E vrp_json \in BOOLEAN : cmd_review_record(pr, q, vrp_json)
       \/ _log_vision_review(pr)
       \/ HashRead(pr) \/ _append(pr)
       \/ ViewImage(pr, "png") \/ AskVision(pr, "Is J1 readable?")
       \/ \E whole \in BOOLEAN : record_image_observation(pr, whole) \/ record_vision_tool_event(pr, whole)
       \/ StopRead(pr) \/ stop(pr)
  \/ session_start
  \/ \E path \in DOMAIN left.contents : \E c \in left.contents[path] : Write(path, c)
  \/ \E p \in Plugins : \E k \in Kinds : Damage(p, k) \/ MoveAside(p, k)

Spec == Init /\ [][Next]_vars

-----------------------------------------------------------------------------
(* Properties.                                                             *)

Statuses(ref) == {r \in UNION {Of(ws, p, "insight_status") : p \in Plugins} : r.insight = ref}

\* As long as no log of statuses has been moved aside, an insight that one
\* plugin moves, one step checked after the other was recorded, is adopted only
\* from a trial with a gate that passed, and nothing follows its rejection or
\* replacement, whoever proposed it and whichever logs are damaged meanwhile
\* (record_insight, insight_history).
LegalHistory ==
  (\A p \in Plugins : ws[p].aside["insight_status"] = 0) => \A i \in InsightsOf(ws) :
    LET statuses == Statuses(i.ref)
        alone == \A a, b \in statuses : /\ a.plugin = b.plugin
                                        /\ a.recorded_at < b.recorded_at => a.recorded_at <= b.checked
    IN alone => \A a \in statuses :
         /\ a.status = "adopted" =>
              /\ "pass" \in a.gate_verdicts
              /\ \E b \in statuses : /\ b.status = "tried" /\ b.recorded_at < a.recorded_at
                                     /\ ~\E c \in statuses : /\ b.recorded_at < c.recorded_at
                                                             /\ c.recorded_at < a.recorded_at
         /\ a.status \in {"rejected", "superseded"} => \A b \in statuses : b.recorded_at <= a.recorded_at

\* "A rejected hypothesis comes back only through revisits with a reason": no
\* impression proposes again, without revisits, what had been rejected when it
\* was checked (rejected_insight_errors).
RejectedComesBackRevised ==
  \A e \in impression_index(ws) : \A i \in e.record.insights :
    i.revisits = None =>
      ~\E o \in InsightsOf(ws) : /\ AtLeast(i.hypothesis, o.insight.hypothesis, 4, 5)
                                 /\ \E s \in Statuses(o.ref) : /\ s.status = "rejected"
                                                               /\ s.recorded_at <= e.record.checked

\* None of a plugin's logs was moved aside.
NoneAside(p) == \A k \in Kinds : ws[p].aside[k] = 0

Settled(d) ==
  LET log == ws[Me].log
  IN CASE d.what = "read" -> \E r \in Impressions(ws, Me) : \E u \in r.upstream :
            r.recorded_at > d.at /\ u.system = d.is.system /\ u.event_id = d.is.event_id
       [] d.what = "song" -> files[d.is.path] # d.is.sha256 \/ received(log, d.is.path, d.is.sha256)
       [] d.what = "event" -> \E r \in In(log["vision_review"]) : r.source_event_id = d.is
       [] d.what = "image" -> \E r \in In(log["vision_review"]) :
            r.image_sha256 = d.is \/ \E o \in In(observed.images.lines) :
                                       o.image_sha256 = d.is /\ o.event_id = r.source_event_id

\* A pass of the Stop hook leaves nothing open of what the session came to owe
\* before the hook read its logs, though records, songs and images are added
\* while it runs, unless a hook was killed in the middle of a line or a log of
\* the plugin was moved aside (stop, problems_for).
PassMeansSettled ==
  [][\A pr \in Procs :
       At(pr, "stop") /\ jobs'[pr] = Idle /\ status'.verdict = "pass" /\ ~torn /\ NoneAside(Me) =>
         \A d \in debts : since <= d.at /\ d.at <= jobs[pr].at => Settled(d)]_vars

\* An impression that was moved aside with its log.
MovedAside(ref) ==
  \E k \in ImpressionKinds : \E n \in 1..ws[ref.system].aside[k] : ref.event_id = <<ref.system, k, n>>

\* What the Stop hook wants answered can be cited when its author's logs are
\* whole, and all that cannot is what the author moved aside (record_read,
\* _append; "Nothing here waits on another agent").
DemandsResolve ==
  \A ref \in ReadProblems(ws[Me].log) :
    /\ ref.system \in Plugins
    /\ ws[ref.system].broken = {} =>
         (resolve_ref(ws, ref.system, ref.event_id) = {} <=> MovedAside(ref))

\* A concern its owner adopted, disputed or decided on is never open again,
\* in whatever order further impressions arrive, unless a log of the owner is
\* moved aside (concern_status).
ConcernsStayAnswered ==
  [][\A e \in impression_index(ws) : \A c \in e.record.facets.concerns :
       concern_status(ws, e.system, e.record, c) \in {"adopted", "disputed", "decided"} =>
         \/ \E k \in Kinds : MoveAside(OwnerOf(e.system, c), k)
         \/ concern_status(ws', e.system, e.record, c) \in {"adopted", "disputed", "decided"}]_vars

\* No plugin repeats a concern that had been disputed when it was checked while
\* it looks at the same artifacts (reraise_errors).
DisputesHold ==
  \A e \in impression_index(ws) : \A c \in e.record.facets.concerns :
    \A o \in impression_index(ws) : \A u \in o.record.upstream :
      u.disposition = "disputed" /\ u.system = e.system /\ o.record.recorded_at <= e.record.checked =>
        \A r \in {i \in Impressions(ws, e.system) : i.event_id = u.event_id} :
          \A d \in r.facets.concerns :
            /\ AtLeast(c.text, d.text, 3, 5) /\ c.about = d.about
            /\ u.concern_ids = {} \/ d.id \in u.concern_ids
            => _artifact_set(e.record) # _artifact_set(r)

\* What the Stop hook would ask for, the briefing names, or it is as long as it
\* may be: the session starts with it in context (recall, digest, problems_for).
BriefingNamesDemands ==
  ws[Me].broken = {} =>
    \A briefing \in recall(ws, Songs, files, Me) :
      \/ /\ ReadProblems(ws[Me].log) \subseteq {r.ref : r \in briefing.reads}
         /\ SongProblems(ws[Me].log) \subseteq briefing.songs
      \/ LinesOf(briefing) = limit
=============================================================================
