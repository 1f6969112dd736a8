------------------------------- MODULE Liaison -------------------------------
(***************************************************************************)
(* The liaison with UX-creator of src/wire/liaison.py: what its requests   *)
(* and the responses to them may be, and what the inbox says of each.      *)
(*                                                                         *)
(* files holds request and response files by the paths below.  Purposes,   *)
(* wishes and the notes on cited job ids are left out: no state or refusal *)
(* follows from them.                                                      *)
(***************************************************************************)
EXTENDS Envelope

RequestPath(q) == q \o ".ux-request"
ResponsePath(q) == q \o ".ux-response"

\* inputs maps paths to digests.
UXRequestOK(r) == r \notin {None, Torn} /\ r.id \notin r.depends_on

UXResponseOK(r) ==
  /\ r \notin {None, Torn}
  /\ r.status \notin {"accepted", "in_progress"} => r.reason
  /\ r.status = "done" => \A v \in r.gate_verdicts : v.verdict = "pass"

\* Files that cannot be read or do not fit their name are malformed.
_load_requests(ids, files) ==
  {q \in ids : LET r == files[RequestPath(q)] IN UXRequestOK(r) /\ r.id = q}
_load_responses(ids, files) ==
  {q \in ids : LET r == files[ResponsePath(q)] IN UXResponseOK(r) /\ r.request = q}

Malformed(ids, files) ==
  ({RequestPath(q) : q \in ids \ _load_requests(ids, files)}
     \union {ResponsePath(q) : q \in ids \ _load_responses(ids, files)})
    \ {p \in DOMAIN files : files[p] = None}

\* Compared with the request only.
_stale_inputsOfRequest(request, response, files) ==
  {p \in DOMAIN request.inputs : files[p] = None \/ files[p] # request.inputs[p]}

\* response is None while there is none.
_stale_inputs(request, response, files) ==
  {p \in DOMAIN request.inputs :
     \/ files[p] = None \/ files[p] # request.inputs[p]
     \/ /\ response # None /\ p \in DOMAIN response.input_hashes
        /\ response.input_hashes[p] # files[p]}

Unanswered(request, ids, files) == request.depends_on \ _load_responses(ids, files)

_entry(q, plugin, ids, files) ==
  LET request == files[RequestPath(q)]
      answer == files[ResponsePath(q)]
      response == IF q \in _load_responses(ids, files) /\ answer.responder = plugin
                    THEN answer ELSE None
  IN IF _stale_inputs(request, response, files) # {} THEN "stale"
     ELSE IF response # None THEN "answered"
     ELSE IF Unanswered(request, ids, files) # {} THEN "blocked" ELSE "new"

inbox(plugin, ids, files) ==
  [verdict |-> IF Malformed(ids, files) = {} THEN "pass" ELSE "fail",
   states |-> [q \in {r \in _load_requests(ids, files) :
                        files[RequestPath(r)].target_agent = plugin} |->
                 _entry(q, plugin, ids, files)]]

\* The first status found of each gate.
_report_verdictsAny(report) ==
  {[gate |-> g, verdict |-> (CHOOSE k \in report.checks :
       k.gate = g /\ (k.status = "pass" \/ \A l \in report.checks : l.gate = g => l.status # "pass")).status] :
     g \in {k.gate : k \in report.checks}}

\* The worst status of each gate.
_report_verdicts(report) ==
  {[gate |-> g,
    verdict |-> LET statuses == {k.status : k \in {l \in report.checks : l.gate = g}}
                IN IF "fail" \in statuses THEN "fail"
                   ELSE IF "unknown" \in statuses THEN "unknown" ELSE "pass"] :
     g \in {k.gate : k \in report.checks}}

\* What done needs besides: fresh inputs, answered dependencies, verdicts,
\* artifacts, an impression and whole logs.
DoneRefused(stale, unanswered, verdicts, artifacts, impressions, broken) ==
  \/ stale # {} \/ unanswered # {}
  \/ verdicts = {} \/ artifacts = {} \/ impressions = {} \/ broken # {}
=============================================================================
