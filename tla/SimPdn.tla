------------------------------- MODULE SimPdn -------------------------------
(***************************************************************************)
(* The supply-loop handoff to simulation-agent of src/wire/sim_pdn.py: the *)
(* brief a contract asks for, and what the gate makes of the answer.       *)
(*                                                                         *)
(* A request id carries the digest of its brief; digests are what they are *)
(* taken of.  The texts, the measured values and the margins are left out. *)
(***************************************************************************)
EXTENDS Tables

_branch(c, w) ==
  [ref |-> w.id, from_node |-> <<w.net, _node(w.from)>>, to_node |-> <<w.net, _node(w.to)>>,
   length |-> w.length, resistance |-> TypeOf(c, w).resistance]

\* One rail per declared supply loop, limited to 3 % unless a drop is declared.
Rail(c, r) ==
  LET n == net_map(c, r.net)
  IN [name |-> r.net, source_v |-> n.voltage, temperature |-> c.ambient,
      max_drop |-> IF n.drop # None THEN 1000 * n.drop ELSE 30 * n.voltage,
      branches |-> {_branch(c, w) : w \in {v \in c.wires : v.net \in {r.net, r.return_net}}},
      source |-> <<r.net, _node(r.source)>>,
      load |-> <<r.net, _node(r.load), n.current>>,
      return |-> IF r.return_net = None THEN <<>>
                   ELSE <<r.return_net, _node(r.return_source), _node(r.return_load)>>]

pdn_brief(c) == [rails |-> [i \in DOMAIN c.simulation.rails |-> Rail(c, c.simulation.rails[i])]]

\* brief stands for its text.
expected_request(brief) == [request_id |-> <<"pdn", brief>>, brief_sha256 |-> brief]

SimRequest(brief) ==
  [from_system |-> "wire", kind |-> "pdn", request_id |-> expected_request(brief).request_id]

\* What the simulation may write.
SimResponseOK(r) ==
  /\ r # Torn
  /\ r.status = "accepted" => r.verdict = "pass"
  /\ r.status = "rejected" => r.verdict = "fail"
  /\ r.status \in {"accepted", "rejected"} => r.report_path # None
  /\ (r.report_path = None) = (r.sha256 = None)

resolve_response(c) == IF c.simulation = None THEN None ELSE c.simulation.response

Finding(subject, status) == {[subject |-> subject, status |-> status]}

\* The report's own pdn checks, if it has any and agrees with the response.
_report_findings(report, response) ==
  LET own == {k \in report.checks : k.kind = "pdn"}
  IN IF report = Torn \/ own = {} THEN Finding("report", "unknown")
     ELSE IF report.verdict # response.verdict THEN Finding("report", "fail")
     ELSE {[subject |-> k.id, status |-> k.verdict] : k \in own}

\* The answer is recognised by the digest in its request id alone.
StaleById(brief, response) == response.request_id # expected_request(brief).request_id

Stale(brief, response) ==
  [request_id |-> response.request_id, brief_sha256 |-> response.brief_sha256]
    # expected_request(brief)

\* brief is the one c asks for, request is the path beside the response, log the simulation's decisions.
pdn_findings(c, brief, request, files, log) ==
  LET path == resolve_response(c)
      r == files[path]
      q == files[request]
      found == _report_findings(files[r.report_path], r)
  IN IF c.simulation = None THEN {}
     ELSE IF path = None \/ r = None \/ ~SimResponseOK(r) \/ q = None THEN Finding("response", "unknown")
     ELSE IF q # r.request_sha256 THEN Finding("response", "fail")
     ELSE IF q = Torn THEN Finding("response", "unknown")
     ELSE IF \/ <<q.from_system, q.kind, q.request_id>> # <<"wire", "pdn", r.request_id>>
             \/ Stale(brief, r) THEN Finding("response", "fail")
     ELSE IF r.status \in {"needs_info", "deferred"} THEN Finding("response", "unknown")
     ELSE IF files[r.report_path] = None THEN Finding("report", "unknown")
     ELSE IF files[r.report_path] # r.sha256 THEN Finding("report", "fail")
     ELSE IF \E f \in found : f.subject = "report" THEN found
     ELSE found \union Finding("response", "pass")
            \union Finding("provenance", check_envelope(path, "sim", None, files, log))

\* The verdict of sim-check; a contract without the section is unknown.
pdn_check(findings) ==
  LET statuses == {f.status : f \in findings}
  IN IF "fail" \in statuses THEN "fail"
     ELSE IF statuses = {"pass"} THEN "pass" ELSE "unknown"
=============================================================================
