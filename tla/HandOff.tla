------------------------------- MODULE HandOff -------------------------------
(***************************************************************************)
(* A contract's way to the sisters: export_design writes the bundle one    *)
(* file after the other and the manifest last, cmd_author judges it and    *)
(* writes the report, cmd_continuity, cmd_crimp and cmd_formboard write a  *)
(* table and then its sidecar, write_sim_request a brief and then the      *)
(* request, and respond answers UX-creator from the report.  Each is a     *)
(* process of its own that may be killed between two writes, two of them   *)
(* may run at once, and meanwhile the contract is edited and the sisters   *)
(* answer.                                                                 *)
(*                                                                         *)
(* disk is what each path holds.  A job reads the contract when it begins. *)
(***************************************************************************)
EXTENDS SimPdn, Liaison

CONSTANTS Drafts,      \* names of the contracts the author writes
          Text(_),     \* and the contracts
          Procs,       \* processes of wire
          Requests,    \* ids of UX-creator's requests
          DependsOn,   \* the requests each depends on
          Target,      \* and the sister each is for
          Payloads,    \* what respond is given: [status, report, refs, artifacts]
          Logos,       \* what the owner's logo file may hold
          SimReports,  \* what the simulation may find
          Envelopes,   \* what mech may export
          Budgets      \* bounds: how often each thing may happen, to which drafts and tables

VARIABLES disk,
          decisions,   \* wire's decision log: [records, broken]
          jobs,        \* what each process is at
          left,        \* what is left of the budget
          overtaken,   \* history: two exports of a table at once, or an edit
          saw          \* history: what each answer's author had before him

vars == <<disk, decisions, jobs, left, overtaken, saw>>

Idle == [op |-> "idle"]

\* The impressions in wire's logs.
Impressions == {"S1"}

\* The tables made for production-engineering.
Made == {"continuity.json", "crimp.json", "formboard.json"}

\* The paths whose names are given, and all.
Named == {"contract", "logo", "env.json", "env.json.provenance", "step",
          "bom.json", "harness-diagram.png", "provenance.json", "manifest.json",
          "design-report.json", "sim.json", "sim-request.json", "sim-response.json", "sim-report.json",
          "sim-response.json.provenance"} \union Made
Sidecars == {sidecar_path(t) : t \in Made}
Paths == Named \union Sidecars
           \union {RequestPath(q) : q \in Requests} \union {ResponsePath(q) : q \in Requests}

\* Different files have different paths.
PathsAssumption ==
  /\ Named \intersect Sidecars = {}
  /\ \A t, u \in Made : sidecar_path(t) = sidecar_path(u) => t = u
  /\ \A q \in Requests : {RequestPath(q), ResponsePath(q)} \intersect (Named \union Sidecars) = {}
  /\ \A q, r \in Requests : /\ RequestPath(q) # ResponsePath(r)
                            /\ ResponsePath(q) = ResponsePath(r) => q = r
ASSUME PathsAssumption

\* Only contracts are written, and a contract that asks for a simulation
\* names the one place of its answer, if any.
DraftsAssumption ==
  /\ \A b \in Budgets : "drafts" \in DOMAIN b /\ b.drafts \subseteq Drafts
  /\ \A d \in Drafts : Text(d).simulation # None =>
       Text(d).simulation.response \in {None, "sim-response.json"}
ASSUME DraftsAssumption

Sidecar(artifact, producer, bytes, source) ==
  [envelope_version |-> 3, producer |-> producer,
   artifact |-> [name |-> artifact, sha256 |-> bytes], sources |-> {source},
   decision_refs |-> {}]

Request(q, target, contract) ==
  [id |-> q, target_agent |-> target, depends_on |-> DependsOn[q],
   inputs |-> [p \in {"contract"} |-> contract]]

\* The request that is at a path.
RequestAt(path, contract) ==
  LET q == CHOOSE r \in Requests : path = RequestPath(r) IN Request(q, Target[q], contract)

AtFirst(d, logo, e) ==
  [p \in Paths |->
     CASE p = "contract" -> d [] p = "logo" -> logo [] p \in {"env.json", "step"} -> e
       [] p = "env.json.provenance" -> Sidecar("env.json", "mech", e, [path |-> "step", sha256 |-> e])
       [] p \in {RequestPath(q) : q \in Requests} -> RequestAt(p, d)
       [] OTHER -> None]

\* Requests are there, imports are fresh, and a decision that cites the contract.
Init == /\ left \in Budgets
        /\ \E d \in left.drafts, l \in Logos, e \in Envelopes :
             /\ \A s \in MechSources(Text(d)) : s.sha256 = e
             /\ disk = AtFirst(d, l, e)
             /\ decisions = [broken |-> FALSE, records |->
                  {[id |-> "D1", evidence |-> {[path |-> "contract", sha256 |-> d]}]}]
        /\ jobs = [p \in Procs |-> Idle]
        /\ overtaken = FALSE
        /\ saw = [q \in Requests |-> None]

Spend(what) == left[what] > 0 /\ left' = [left EXCEPT ![what] = @ - 1]
Put(path, value) == disk' = [disk EXCEPT ![path] = value]
\* A new process of wire.
Begin(p, what, job) == /\ left[what] > 0 /\ left["jobs"] > 0 /\ jobs[p] = Idle
                       /\ left' = [left EXCEPT ![what] = @ - 1, !["jobs"] = @ - 1]
                       /\ jobs' = [jobs EXCEPT ![p] = job]
At(p, op) == jobs[p].op = op
Goto(p, job) == jobs' = [jobs EXCEPT ![p] = job]
Present == disk["contract"]

-----------------------------------------------------------------------------
(* The world around: the author, mech, the simulation, UX-creator and the  *)
(* other plugins of the workspace.                                         *)

Tabling(p) == jobs[p].op \in {"table", "envelope"}

Edit(d) == /\ Spend("edit") /\ d # Present
           /\ Put("contract", d)
           /\ overtaken' = (overtaken \/ \E p \in Procs : Tabling(p))
           /\ UNCHANGED <<decisions, jobs, saw>>

MechExports(e) ==
  /\ Spend("mech") /\ e # disk["env.json"]
  /\ disk' = [disk EXCEPT !["env.json"] = e, !["step"] = e,
       !["env.json.provenance"] = Sidecar("env.json", "mech", e, [path |-> "step", sha256 |-> e])]
  /\ UNCHANGED <<decisions, jobs, overtaken, saw>>

\* The simulation solves the brief it finds and answers the request it finds.
SimAnswers(s) ==
  /\ Spend("sim") /\ disk["sim-request.json"] \notin {None, Torn} /\ disk["sim.json"] \notin {None, Torn}
  /\ LET report == [checks |-> s.checks, verdict |-> s.verdict, brief |-> disk["sim.json"]]
         response ==
           [request_id |-> disk["sim-request.json"].request_id,
            request_sha256 |-> disk["sim-request.json"], brief_sha256 |-> disk["sim.json"],
            status |-> s.status, verdict |-> s.verdict,
            report_path |-> "sim-report.json", sha256 |-> report]
     IN disk' = [disk EXCEPT
          !["sim-report.json"] = report,
          !["sim-response.json"] = response,
          !["sim-response.json.provenance"] =
            Sidecar("sim-response.json", "sim", response, Pin("sim.json", disk))]
  /\ UNCHANGED <<decisions, jobs, overtaken, saw>>

\* UX-creator issues a request anew, for the contract there is by now.
Ask(q) == /\ Spend("ask") /\ disk[RequestPath(q)] # Torn
          /\ Put(RequestPath(q), Request(q, disk[RequestPath(q)].target_agent, Present))
          /\ UNCHANGED <<decisions, jobs, overtaken, saw>>

\* Another sister answers a request for it, with what is a response.
SisterAnswers(q) ==
  /\ Spend("sister") /\ disk[RequestPath(q)].target_agent # "wire"
  /\ LET answer == [request |-> q, responder |-> "circuit", status |-> "accepted",
                    reason |-> FALSE, gate_verdicts |-> {}, artifacts |-> {},
                    input_hashes |-> disk[RequestPath(q)].inputs]
     IN UXResponseOK(answer) /\ Put(ResponsePath(q), answer)
  /\ UNCHANGED <<decisions, jobs, overtaken, saw>>

\* The decision log is damaged.
Damage == /\ Spend("damage")
          /\ decisions' = [decisions EXCEPT !.broken = TRUE]
          /\ UNCHANGED <<disk, jobs, overtaken, saw>>

-----------------------------------------------------------------------------
(* export.py, report.py and the gates.                                     *)

\* What a draft's file shows.  Files are named by a draft that has the same.
View(name, c) == CASE name = "bom.json" -> <<_bom(c), _cut_table_csv(c), _wire_list_csv(c)>>
                   [] name \in {"harness-diagram.png", "provenance.json"} -> <<c>>
                   [] name = "continuity.json" -> <<continuity_groups(c), continuity_table(c)>>
                   [] name = "crimp.json" -> <<crimp_table(c)>>
                   [] name = "formboard.json" -> <<formboard(c)>>
                   [] name = "sim.json" -> IF c.simulation = None THEN <<>> ELSE <<pdn_brief(c)>>
Projections ==
  [name \in {"bom.json", "harness-diagram.png", "provenance.json", "sim.json"} \union Made |->
     LET view == [d \in Drafts |-> View(name, Text(d))]
     IN [d \in Drafts |-> [file |-> name, draft |-> CHOOSE e \in Drafts : view[e] = view[d]]]]
Projection(name, d) == Projections[name][d]

\* The logo is read before anything is written; a route plan needs anchors
\* and is written as the diagram is.
BeginExport(p, png, author) ==
  /\ load_contract(Text(Present)) /\ owner_logo_ok(Text(Present), disk["logo"])
  /\ Begin(p, IF author THEN "author" ELSE "export",
           [op |-> "export", contract |-> Present, author |-> author, files |-> {},
            todo |-> IF png THEN <<"bom.json", "harness-diagram.png", "provenance.json">>
                            ELSE <<"bom.json", "provenance.json">>])
  /\ UNCHANGED <<disk, decisions, overtaken, saw>>

WriteArtifact(p) ==
  /\ At(p, "export") /\ jobs[p].todo # <<>>
  /\ LET name == Head(jobs[p].todo)
         bytes == Projection(name, jobs[p].contract)
     IN /\ Put(name, bytes)
        /\ Goto(p, [jobs[p] EXCEPT !.todo = Tail(@),
                                   !.files = @ \union {[path |-> name, sha256 |-> bytes]}])
  /\ UNCHANGED <<decisions, left, overtaken, saw>>

\* The manifest takes the digests of what is on disk when it is written.
WriteManifestOfDisk(p) ==
  /\ At(p, "export") /\ jobs[p].todo = <<>>
  /\ Put("manifest.json", [contract_sha256 |-> jobs[p].contract,
                           files |-> {Pin(f.path, disk) : f \in jobs[p].files}])
  /\ Goto(p, IF jobs[p].author THEN [op |-> "judge", contract |-> jobs[p].contract] ELSE Idle)
  /\ UNCHANGED <<decisions, left, overtaken, saw>>

\* The manifest holds the digests of what was written.
WriteManifest(p) ==
  /\ At(p, "export") /\ jobs[p].todo = <<>>
  /\ Put("manifest.json", [contract_sha256 |-> jobs[p].contract, files |-> jobs[p].files])
  /\ Goto(p, IF jobs[p].author THEN [op |-> "judge", contract |-> jobs[p].contract] ELSE Idle)
  /\ UNCHANGED <<decisions, left, overtaken, saw>>

_check_manifest(c) ==
  LET manifest == disk["manifest.json"]
  IN {Check("manifest_integrity", <<>>,
        IF manifest \in {None, Torn} THEN "unknown"
          ELSE Status(\/ manifest.contract_sha256 # c
                      \/ \E f \in manifest.files : disk[f.path] # f.sha256, FALSE))}

\* The gates of the contract alone.
OwnChecks == [d \in Drafts |->
  {k \in run_gates(Text(d), [p \in Paths |-> None], {}) :
     k.gate \notin {"import_freshness", "import_provenance"}}]

\* The present answer of the simulation to what a contract asks for.
Answer(d) == pdn_findings(Text(d), Projection("sim.json", d), "sim-request.json", disk, None)

\* run_gates, its checks of the contract alone taken from OwnChecks.
Judged(d) ==
  OwnChecks[d]
    \union _check_import_freshness(Text(d), disk)
    \union _check_import_provenance(Text(d), disk)
    \union _check_manifest(d)
    \union {Check("sim_pdn", <<f.subject>>, f.status) : f \in Answer(d)}

Judge(p) == /\ At(p, "judge")
            /\ Goto(p, [op |-> "report", contract |-> jobs[p].contract,
                        checks |-> Judged(jobs[p].contract)])
            /\ UNCHANGED <<disk, decisions, left, overtaken, saw>>

\* What is reported of a contract and its checks.
build_report(d, checks) ==
  LET c == Text(d)
  IN [contract_sha256 |-> d, verdict |-> Verdict(checks), checks |-> checks,
      elements |-> [counts |-> <<Cardinality(c.connectors), Cardinality(c.nets), Cardinality(c.wires)>>,
                    classes |-> {n.class : n \in c.nets},
                    length |-> MapThenSumSet(LAMBDA w : w.length, c.wires)],
      imported_sources |-> {<<s.id, s.ref, s.sha256>> : s \in Elems(c.imported_sources)}]

\* The rasters in the directory, whether the manifest lists them or not.
vision_points == {f \in {"harness-diagram.png"} : disk[f] # None}

write_report(p) ==
  /\ At(p, "report")
  /\ LET report == build_report(jobs[p].contract, jobs[p].checks)
     IN Put("design-report.json",
            [key \in DOMAIN report \union {"vision_points"} |->
               IF key = "vision_points" THEN vision_points ELSE report[key]])
  /\ Goto(p, Idle)
  /\ UNCHANGED <<decisions, left, overtaken, saw>>

-----------------------------------------------------------------------------
(* The tables for production-engineering and the simulation's request.     *)

BeginTable(p, name) ==
  /\ load_contract(Text(Present))
  /\ Begin(p, "table", [op |-> "table", table |-> name, contract |-> Present])
  /\ overtaken' = (overtaken \/ \E q \in Procs : Tabling(q) /\ jobs[q].table = name)
  /\ UNCHANGED <<disk, decisions, saw>>
cmd_continuity(p) == BeginTable(p, "continuity.json")
cmd_crimp(p) == BeginTable(p, "crimp.json")
cmd_formboard(p) == BeginTable(p, "formboard.json")

WriteTable(p, name) ==
  /\ At(p, "table") /\ jobs[p].table = name
  /\ Put(name, Projection(name, jobs[p].contract))
  /\ Goto(p, [op |-> "envelope", table |-> name])
  /\ UNCHANGED <<decisions, left, overtaken, saw>>
write_continuity_table(p) == WriteTable(p, "continuity.json")
write_crimp_table(p) == WriteTable(p, "crimp.json")
write_formboard(p) == WriteTable(p, "formboard.json")

\* The sidecar names the contract file as it is by now.
_with_envelope(p) ==
  LET name == jobs[p].table
  IN /\ At(p, "envelope")
     /\ IF Refused(decisions)
          THEN UNCHANGED disk
          ELSE Put(sidecar_path(name),
                   write_envelope(name, "wire", {"contract"}, disk, decisions))
     /\ Goto(p, Idle)
     /\ UNCHANGED <<decisions, left, overtaken, saw>>

BeginSimRequest(p) ==
  /\ load_contract(Text(Present)) /\ Text(Present).simulation # None
  /\ Begin(p, "request", [op |-> "brief", contract |-> Present])
  /\ UNCHANGED <<disk, decisions, overtaken, saw>>

WriteBrief(p) ==
  /\ At(p, "brief")
  /\ Put("sim.json", Projection("sim.json", jobs[p].contract))
  /\ Goto(p, [op |-> "simrequest", contract |-> jobs[p].contract])
  /\ UNCHANGED <<decisions, left, overtaken, saw>>

write_sim_request(p) ==
  /\ At(p, "simrequest")
  /\ Put("sim-request.json", SimRequest(Projection("sim.json", jobs[p].contract)))
  /\ Goto(p, Idle)
  /\ UNCHANGED <<decisions, left, overtaken, saw>>

-----------------------------------------------------------------------------
(* respond of liaison.py.                                                  *)

\* The request, the inputs' bytes and the responses are read first.
BeginRespond(p, q, given) ==
  LET request == disk[RequestPath(q)]
  IN /\ q \in _load_requests(Requests, disk) /\ request.target_agent = "wire"
     /\ Begin(p, "respond",
              [op |-> "respond", request |-> q, given |-> given, verdicts |-> {}, basis |-> None,
               stale |-> _stale_inputs(request, None, disk),
               unanswered |-> Unanswered(request, Requests, disk),
               hashes |-> [i \in {j \in DOMAIN request.inputs : disk[j] # None} |-> disk[i]]])
     /\ UNCHANGED <<disk, decisions, overtaken, saw>>

\* The design report is read; without one the author's own verdicts count.
Own == {[gate |-> "own", verdict |-> "pass"]}
ReadReports(p) ==
  LET report == disk["design-report.json"]  use == jobs[p].given.report
  IN /\ At(p, "respond")
     /\ Goto(p, IF use /\ report \in {None, Torn} THEN Idle
                  ELSE [jobs[p] EXCEPT !.op = "refs",
                          !.verdicts = IF use THEN _report_verdicts(report) ELSE Own,
                          !.basis = IF use THEN report.contract_sha256 ELSE None])
     /\ UNCHANGED <<disk, decisions, left, overtaken, saw>>

\* The logs must be whole, and hold what is cited.
ReadLogs(p) ==
  /\ At(p, "refs")
  /\ Goto(p, IF decisions.broken \/ ~(jobs[p].given.refs \subseteq Impressions) THEN Idle
               ELSE [jobs[p] EXCEPT !.op = "heads"])
  /\ UNCHANGED <<disk, decisions, left, overtaken, saw>>

\* The heads of the logs are read, the artifacts hashed and the response built.
HashArtifacts(p) ==
  LET job == jobs[p]  given == job.given
      answer == [request |-> job.request, responder |-> "wire", status |-> given.status,
                 reason |-> TRUE, input_hashes |-> job.hashes, gate_verdicts |-> job.verdicts,
                 artifacts |-> {Pin(a, disk) : a \in given.artifacts}]
      broken == IF decisions.broken THEN {"decision"} ELSE {}
      refused == \/ ~UXResponseOK(answer)
                 \/ \E a \in given.artifacts : disk[a] = None
                 \/ /\ given.status = "done"
                    /\ DoneRefused(job.stale, job.unanswered, job.verdicts, given.artifacts,
                                   given.refs, broken)
  IN /\ At(p, "heads")
     /\ Goto(p, IF refused THEN Idle
                  ELSE [op |-> "answer", answer |-> answer, basis |-> job.basis])
     /\ UNCHANGED <<disk, decisions, left, overtaken, saw>>

respond(p) ==
  LET answer == jobs[p].answer
  IN /\ At(p, "answer")
     /\ Put(ResponsePath(answer.request), answer)
     /\ saw' = [saw EXCEPT ![answer.request] =
                  [basis |-> jobs[p].basis, inputs |-> answer.input_hashes]]
     /\ Goto(p, Idle)
     /\ UNCHANGED <<decisions, left, overtaken>>

\* A process is killed, or fails: a refusal, a renderer that fails.  While it
\* writes, the file is left torn.
Written(job) == CASE job.op = "export" /\ job.todo # <<>> -> {Head(job.todo)}
                 [] job.op = "export" /\ job.todo = <<>> -> {"manifest.json"}
                 [] job.op = "table" -> {job.table}
                 [] job.op = "brief" -> {"sim.json"}
                 [] job.op = "envelope" -> {sidecar_path(job.table)}
                 [] job.op = "simrequest" -> {"sim-request.json"}
                 [] job.op = "report" -> {"design-report.json"}
                 [] job.op = "answer" -> {ResponsePath(job.answer.request)}
                 [] OTHER -> {}
Crash(p) == /\ Spend("crash") /\ jobs[p] # Idle
            /\ \/ UNCHANGED disk
               \/ \E path \in Written(jobs[p]) : Put(path, Torn)
            /\ Goto(p, Idle)
            /\ UNCHANGED <<decisions, overtaken, saw>>

Around == \/ \E d \in left.drafts : Edit(d)
          \/ \E e \in Envelopes : MechExports(e)
          \/ \E s \in SimReports : SimAnswers(s)
          \/ \E q \in Requests : Ask(q) \/ SisterAnswers(q)
          \/ Damage

Wire(p) == \/ \E png, author \in BOOLEAN : BeginExport(p, png, author)
           \/ WriteArtifact(p) \/ WriteManifest(p) \/ Judge(p) \/ write_report(p)
           \/ "continuity.json" \in left.tables /\ cmd_continuity(p)
           \/ "crimp.json" \in left.tables /\ cmd_crimp(p)
           \/ "formboard.json" \in left.tables /\ cmd_formboard(p)
           \/ write_continuity_table(p) \/ write_crimp_table(p) \/ write_formboard(p)
           \/ _with_envelope(p)
           \/ BeginSimRequest(p) \/ WriteBrief(p) \/ write_sim_request(p)
           \/ \E q \in Requests, g \in Payloads : BeginRespond(p, q, g)
           \/ ReadReports(p) \/ ReadLogs(p) \/ HashArtifacts(p)
           \/ respond(p)
           \/ Crash(p)

Next == Around \/ \E p \in Procs : Wire(p)

Spec == Init /\ [][Next]_vars

-----------------------------------------------------------------------------
(* Properties.                                                             *)

\* A bundle whose manifest passes for the present contract is a whole bundle
\* of that contract, though its files are written one by one, exports overlap
\* and are killed, and the contract goes back and forth (export_design,
\* _check_manifest).
PassingBundleIsOneContract ==
  Verdict(_check_manifest(Present)) = "pass" =>
    LET files == disk["manifest.json"].files
    IN /\ {"bom.json", "provenance.json"} \subseteq {f.path : f \in files}
       /\ \A f \in files : disk[f.path] = Projection(f.path, Present)

\* A table whose sidecar passes was projected from the present contract,
\* unless the contract changed under the export: the table is made of the
\* contract as it was read, and the sidecar names it as it is by then
\* (cmd_continuity, cmd_crimp, cmd_formboard, _with_envelope, check_envelope).
EnvelopePassMeansProjected ==
  \A name \in Made :
    ~overtaken /\ check_envelope(name, "wire", None, disk, decisions) = "pass"
      => disk[name] = Projection(name, Present)

\* A simulation answer that passes solved the brief of the present contract,
\* and found nothing wrong with it, though brief and request are two files
\* and the contract goes back and forth (pdn_findings: "The response must
\* answer the request the current contract would emit").
SimPassIsCurrent ==
  Text(Present).simulation # None
    /\ pdn_check(Answer(Present)) = "pass"
    => /\ disk["sim-report.json"].brief = Projection("sim.json", Present)
       /\ \A k \in disk["sim-report.json"].checks : k.kind = "pdn" => k.verdict = "pass"

\* The gates that a contract owes a verdict of: its own, the imports', the
\* manifest's and the simulation's.
Owed(d) ==
  LET c == Text(d)
  IN {k.gate : k \in OwnChecks[d]} \union {"manifest_integrity"}
       \union {"import_freshness" : s \in {t \in Elems(c.imported_sources) : t.sha256 # None}}
       \union {"import_provenance" : s \in {t \in MechSources(c) : t.sha256 # None}}
       \union (IF c.simulation = None THEN {} ELSE {"sim_pdn"})

\* An answer of done that was given with a report names every gate that the
\* report's contract owes as passed, and this contract passes its own gates;
\* the other gates passed when it was judged, and their files may have changed
\* since.  Each answer of done follows the answers to what it depends on.
\* Whether the report's contract is the one among the inputs is not asked, and
\* without a report the author's own verdicts count (respond,
\* _report_verdicts).
DoneIsEarned ==
  \A q \in _load_responses(Requests, disk) :
    LET answer == disk[ResponsePath(q)]
    IN answer.responder = "wire" /\ answer.status = "done" =>
         /\ saw[q].basis # None =>
              /\ Verdict(OwnChecks[saw[q].basis]) = "pass"
              /\ \A g \in Owed(saw[q].basis) :
                   \E v \in answer.gate_verdicts : v.gate = g /\ v.verdict = "pass"
         /\ \A d \in DependsOn[q] : disk[ResponsePath(d)] # None

\* What the inbox calls answered was answered with the bytes there are now:
\* a change between the reading of the inputs and the writing of the answer,
\* after it, or by a request that is issued anew, is noticed (respond,
\* _stale_inputs, _entry).
AnsweredWasSeen ==
  LET states == inbox("wire", Requests, disk).states
  IN \A q \in DOMAIN states :
       states[q] = "answered" =>
         \A path \in DOMAIN saw[q].inputs \intersect DOMAIN disk[RequestPath(q)].inputs :
           disk[path] = saw[q].inputs[path]
=============================================================================
