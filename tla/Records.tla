------------------------------- MODULE Records -------------------------------
(***************************************************************************)
(* What a record of the VibeBB Record Protocol may be: the validators of   *)
(* src/wire/_vrp.py, run by the core writer before a line is appended and  *)
(* by the hooks on every line they read.                                   *)
(*                                                                         *)
(* A text is the set of its shingles; one that must merely say something   *)
(* is a Boolean, and a list of such texts is how many it holds.  An image  *)
(* or a document is bound by its digest, which is what it is taken of.     *)
(***************************************************************************)
EXTENDS Naturals, Sequences, FiniteSets

CONSTANT None

Kinds == {"decision", "stage_impression", "vision_review", "upstream_read",
          "insight_status", "song_receipt"}
ImpressionKinds == {"stage_impression", "vision_review"}

Unique(S, keys) == Cardinality(keys) = Cardinality(S)

\* Texts at least num/den alike; two empty ones are the same.
AtLeast(a, b, num, den) ==
  IF a \union b = {} THEN TRUE
    ELSE den * Cardinality(a \intersect b) >= num * Cardinality(a \union b)

\* Enough characters, and three sentences that differ.
impression_errors(text) == Cardinality(text) < 3

_ref_errors(ref, allow_reference) ==
  IF ref.path = None THEN ~(allow_reference /\ ref.reference) ELSE ref.sha256 = None

_event_ref_errors(ref) == ref.system = None \/ ref.event_id = None
_insight_ref_errors(ref) == _event_ref_errors(ref) \/ ref.insight_id = None

_envelope_errors(r, kind) ==
  \/ r.kind # kind \/ r.plugin = None
  \/ r.sequence < 1 \/ r.recorded_at = None

_facets_errors(f) ==
  \/ f.observed < 2 \/ f.works < 1 \/ f.next_actions < 1
  \/ f.concerns = {} /\ ~f.no_concerns_reason
  \/ ~Unique(f.concerns, {c.id : c \in f.concerns})
  \/ \E c \in f.concerns :
       c.text = {} \/ c.severity \notin {"info", "warning", "error"}
  \/ ~({"maker", "user"} \subseteq f.feelings)

_claims_errors(claims, min) ==
  Len(claims) < min \/ \E i \in DOMAIN claims : claims[i].anchor = None \/ claims[i].artifact = None

_insights_errors(insights) ==
  \/ ~Unique(insights, {i.id : i \in insights})
  \/ \E i \in insights :
       \/ i.hypothesis = {} \/ ~i.test
       \/ i.revisits # None /\ (_insight_ref_errors(i.revisits) \/ ~i.revisit_reason)

_upstream_errors(upstream) ==
  \/ ~Unique(upstream, {<<e.system, e.event_id>> : e \in upstream})
  \/ \E e \in upstream :
       \/ _event_ref_errors(e) \/ ~e.effect
       \/ e.disposition \notin {"adopted", "deferred", "disputed", "noted"}

\* The prose must quote a claim's anchor.
impression_body_errors(r, min_claims) ==
  \/ impression_errors(r.impression)
  \/ _facets_errors(r.facets)
  \/ _claims_errors(r.claims, min_claims)
  \/ _insights_errors(r.insights)
  \/ _upstream_errors(r.upstream)
  \/ r.claims # <<>> /\ \A i \in DOMAIN r.claims : r.claims[i].anchor \notin r.impression

-----------------------------------------------------------------------------
(* One validator per kind.                                                 *)

decision_errors(r) ==
  \/ _envelope_errors(r, "decision")
  \/ Cardinality(r.options) < 2 \/ r.chosen \notin r.options
  \/ ~r.rationale \/ ~r.risks \/ ~r.revisit_when
  \/ r.evidence = {}
  \/ \E e \in r.evidence : _ref_errors(e, TRUE)
  \/ \E e \in r.impression_refs : _event_ref_errors(e)
  \/ \E e \in r.insight_refs : _insight_ref_errors(e)

stage_impression_errors(r) ==
  \/ _envelope_errors(r, "stage_impression")
  \/ r.artifacts = {}
  \/ \E a \in r.artifacts : _ref_errors(a, FALSE)
  \/ impression_body_errors(r, 2)

\* Every claim is looked at again, and what is refuted is a finding.
vision_review_errors(r) ==
  \/ _envelope_errors(r, "vision_review")
  \/ r.image_path = None /\ r.source_event_id = None
  \/ r.image_path # None /\ r.image_sha256 = None
  \/ r.reviewer \notin {"primary", "blind", "tiebreak"}
  \/ \E f \in r.findings : f.severity \notin {"info", "warning", "error"}
  \/ impression_body_errors(r, 1)
  \/ {l.claim : l \in r.lookback} # DOMAIN r.claims
  \/ \E l \in r.lookback : l.verdict \notin {"confirmed", "refuted", "uncertain"}
  \/ (\E l \in r.lookback : l.verdict = "refuted") /\ r.findings = {}

upstream_read_errors(r) ==
  \/ _envelope_errors(r, "upstream_read")
  \/ _ref_errors(r.artifact, FALSE) \/ r.producer = None
  \/ \E e \in r.refs : _event_ref_errors(e)

\* The decision is named, not resolved.
insight_status_errors(r) ==
  \/ _envelope_errors(r, "insight_status")
  \/ _insight_ref_errors(r.insight)
  \/ r.status \notin {"tried", "adopted", "rejected", "deferred", "superseded"}
  \/ ~r.reason
  \/ r.evidence = {}
  \/ \E e \in r.evidence : _ref_errors(e, TRUE)
  \/ \E v \in r.gate_verdicts : v \notin {"pass", "fail", "unknown"}
  \/ r.status = "adopted" /\ ("pass" \notin r.gate_verdicts \/ r.decision_refs = {})
  \/ r.status = "deferred" /\ ~r.revisit_when

song_receipt_errors(r) ==
  \/ _envelope_errors(r, "song_receipt")
  \/ _ref_errors(r.delivery, FALSE)
  \/ ~r.felt
  \/ r.prompted_review /\ ~r.follow_up

record_errors(kind, r) ==
  CASE kind = "decision" -> decision_errors(r)
    [] kind = "stage_impression" -> stage_impression_errors(r)
    [] kind = "vision_review" -> vision_review_errors(r)
    [] kind = "upstream_read" -> upstream_read_errors(r)
    [] kind = "insight_status" -> insight_status_errors(r)
    [] kind = "song_receipt" -> song_receipt_errors(r)

\* What bard may deliver.
song_delivery_errors(doc) ==
  \/ doc.kind # "bard_song_delivery" \/ doc.system # "bard" \/ doc.to = "bard"
  \/ ~doc.verse \/ ~doc.reason
  \/ _ref_errors(doc.song, FALSE)
  \/ doc.impression_refs = {} \/ \E e \in doc.impression_refs : _event_ref_errors(e)
-----------------------------------------------------------------------------
(* The requests of src/wire/records.py: what a recorder is asked to write   *)
(* before it hashes the files that the request names.                      *)

Severity == {"info", "warning", "error"}

\* A few sentences, not a status line.
impression_is_prose(text) == ~impression_errors(text)

\* Bound by its bytes, or cited.
EvidenceInput(e) == e.path = None => e.reference

EventRef(r) == r.system # None /\ r.event_id # None
InsightRef(r) == EventRef(r) /\ r.insight_id # None

Concern(c) == c.id # None /\ c.text # {} /\ c.severity \in Severity /\ c.about # None

\* That no concern comes without a reason is the record's business.
Facets(f) ==
  /\ f.observed >= 2 /\ f.works >= 1 /\ f.next_actions >= 1
  /\ {"maker", "user"} \subseteq f.feelings
  /\ \A c \in f.concerns : Concern(c)

Claim(c) == c.anchor # None /\ c.artifact # None

Insight(i) == i.id # None /\ i.hypothesis # {} /\ (i.revisits # None => InsightRef(i.revisits))

Upstream(u) ==
  EventRef(u) /\ u.effect /\ u.disposition \in {"adopted", "deferred", "disputed", "noted"}

_ImpressionBody(q) ==
  /\ impression_is_prose(q.impression) /\ Facets(q.facets)
  /\ \A i \in DOMAIN q.claims : Claim(q.claims[i])
  /\ \A i \in q.insights : Insight(i)
  /\ \A u \in q.upstream : Upstream(u)

StageImpressionInput(q) == _ImpressionBody(q) /\ q.artifacts # {}

VisionFinding(f) == f.severity \in Severity
Lookback(l) == l.claim >= 1 /\ l.verdict \in {"confirmed", "refuted", "uncertain"}

\* Whoever looks again looks at an image, not at what a tool said of it.
VisionReviewInput(q) ==
  /\ _ImpressionBody(q)
  /\ q.reviewer \in {"primary", "blind", "tiebreak"}
  /\ q.image_path = None => q.source_event_id # None /\ q.reviewer = "primary"
  /\ \A f \in q.findings : VisionFinding(f)
  /\ \A l \in q.lookback : Lookback(l)

DecisionInput(q) ==
  /\ Cardinality(q.options) >= 2 /\ q.chosen \in q.options
  /\ q.rationale /\ q.risks /\ q.revisit_when
  /\ q.evidence # {} /\ \A e \in q.evidence : EvidenceInput(e)
  /\ \A r \in q.impression_refs : EventRef(r)
  /\ \A r \in q.insight_refs : InsightRef(r)

GateResult(v) == v \in {"pass", "fail", "unknown"}

\* Which gate and which decision an adoption needs is the record's business.
InsightStatusInput(q) ==
  /\ InsightRef(q.insight) /\ q.reason
  /\ q.status \in {"tried", "adopted", "rejected", "deferred", "superseded"}
  /\ q.evidence # {} /\ \A e \in q.evidence : EvidenceInput(e)
  /\ \A v \in q.gate_verdicts : GateResult(v)

SongReceiptInput(q) == q.delivery # None
ReadInput(q) == q.artifact # None /\ q.producer # None
=============================================================================
