--------------------------- MODULE HandOff_proofs ---------------------------
(***************************************************************************)
(* Theorems about HandOff, for any contracts, processes, requests and      *)
(* bounds.  What passes is compared with what a process wrote when the     *)
(* contract was another, so IInv keeps, for each job, what it has written  *)
(* and of which contract (JobOK), and for each written file what it will   *)
(* be compared with.  A lemma shows for each action that it keeps IInv:    *)
(* most write nothing IInv speaks of (Elsewhere).  A second one, EInv,     *)
(* keeps which gates stand behind a report and an answer.                  *)
(***************************************************************************)
EXTENDS HandOff, SequenceTheorems, TLAPS

\* The files of a bundle, and what its manifest must list.
Bundle == {"bom.json", "harness-diagram.png", "provenance.json"}
Needed == {"bom.json", "provenance.json"}

\* An export keeps track of what it has written and has yet to write.
ExportOK(job) ==
  /\ {"op", "contract", "files", "todo"} \subseteq DOMAIN job
  /\ job.todo \in Seq(Bundle)
  /\ \A n \in Needed : (\E f \in job.files : f.path = n) \/ \E i \in 1..Len(job.todo) : job.todo[i] = n
  /\ \A f \in job.files : f.sha256 = Projection(f.path, job.contract)

\* A process knows what it writes.
JobOK(job) ==
  /\ job.op = "export" => ExportOK(job)
  /\ job.op \in {"table", "envelope"} => job.table \in Made
  /\ job.op \in {"respond", "refs", "heads"} =>
       {"op", "request", "verdicts", "basis"} \subseteq DOMAIN job /\ job.request \in Requests
  /\ job.op = "answer" => job.answer.request \in Requests

ManifestOK(m) ==
  m \notin {None, Torn} =>
    /\ \A n \in Needed : \E f \in m.files : f.path = n
    /\ \A f \in m.files : f.sha256 = Projection(f.path, m.contract_sha256)

Answered(q) == disk[ResponsePath(q)] # Torn /\ disk[ResponsePath(q)] # None
                 /\ disk[ResponsePath(q)].responder = "wire"

SideOK(name, side) ==
  side \notin {None, Torn} =>
    \E c : /\ side.sources = {[path |-> "contract", sha256 |-> c]}
          /\ side.artifact.sha256 = Projection(name, c)

Shape == /\ DOMAIN disk = Paths /\ DOMAIN jobs = Procs /\ DOMAIN saw = Requests
         /\ Present \in Drafts /\ "drafts" \in DOMAIN left /\ left.drafts \subseteq Drafts
JobsOK == \A p \in Procs : JobOK(jobs[p])
BundleOK == ManifestOK(disk["manifest.json"])
AnswersOK == \A q \in Requests : Answered(q) => saw[q].inputs = disk[ResponsePath(q)].input_hashes
SolutionOK == disk["sim-response.json"] # None =>
  /\ disk["sim-response.json"].report_path = "sim-report.json"
  /\ disk["sim-response.json"].sha256.brief = disk["sim-response.json"].brief_sha256
TablesOK ==
  ~overtaken =>
    /\ \A p \in Procs : jobs[p].op = "table" => jobs[p].contract = Present
    /\ \A p \in Procs : jobs[p].op = "envelope" =>
         disk[jobs[p].table] = Projection(jobs[p].table, Present)
    /\ \A p, q \in Procs : Tabling(p) /\ Tabling(q) /\ p # q => jobs[p].table # jobs[q].table
    /\ \A name \in Made : SideOK(name, disk[sidecar_path(name)])

IInv == Shape /\ JobsOK /\ BundleOK /\ AnswersOK /\ SolutionOK /\ TablesOK

Responses == {ResponsePath(q) : q \in Requests}
Kept(S) == \A path \in S : disk'[path] = disk[path]

-----------------------------------------------------------------------------
(* What a step leaves alone.                                               *)

\* The files are paths, and no two of them the same.
LEMMA PathsDiffer ==
  /\ Named \subseteq Paths /\ Sidecars \subseteq Paths /\ Responses \subseteq Paths
  /\ Named \intersect Sidecars = {} /\ Named \intersect Responses = {} /\ Sidecars \intersect Responses = {}
  /\ \A q \in Requests : RequestPath(q) \in Paths /\ RequestPath(q) \notin Named \union Sidecars \union Responses
  /\ \A q, r \in Requests : ResponsePath(q) = ResponsePath(r) => q = r
  /\ \A t, u \in Made : sidecar_path(t) = sidecar_path(u) => t = u
BY PathsAssumption DEF PathsAssumption, Paths, Sidecars, Responses

\* A process at rest writes nothing.
LEMMA IdleOK == JobOK(Idle)
BY DEF JobOK, Idle

\* A write to one path leaves the others.
LEMMA PutElse ==
  ASSUME Shape, NEW path \in Paths, NEW v, Put(path, v)
  PROVE  /\ DOMAIN disk' = Paths /\ disk'[path] = v
         /\ \A o \in Paths : o # path => disk'[o] = disk[o]
BY DEF Put, Shape

\* Spending a budget leaves the drafts it allows.
LEMMA SpendKeeps ==
  ASSUME Shape, NEW what, what # "drafts", left' = [left EXCEPT ![what] = @ - 1]
  PROVE  "drafts" \in DOMAIN left' /\ left'.drafts = left.drafts
BY DEF Shape

\* A job given to one process.
LEMMA JobGiven ==
  ASSUME Shape, JobsOK, NEW p \in Procs, NEW job, jobs' = [jobs EXCEPT ![p] = job], JobOK(job)
  PROVE  /\ DOMAIN jobs' = Procs /\ JobsOK'
         /\ jobs'[p] = job /\ \A q \in Procs : q # p => jobs'[q] = jobs[q]
<1>1. \A q \in Procs : jobs'[q] = IF q = p THEN job ELSE jobs[q] BY DEF Shape
<1>2. DOMAIN jobs' = Procs BY DEF Shape
<1>3. \A q \in Procs : JobOK(jobs'[q]) BY <1>1 DEF JobsOK
<1> QED BY <1>1, <1>2, <1>3 DEF JobsOK, JobOK, ExportOK

\* The bundle is as good as its manifest.
LEMMA BundleKept ==
  ASSUME BundleOK, Kept({"manifest.json"}) PROVE BundleOK'
BY DEF BundleOK, ManifestOK, Kept

\* Answers are as good as their files and what was seen.
LEMMA AnswersKept ==
  ASSUME AnswersOK, saw' = saw, Kept(Responses) PROVE AnswersOK'
BY DEF AnswersOK, Answered, Kept, Responses

\* A simulation's answer is as good as its file.
LEMMA SolutionKept ==
  ASSUME SolutionOK, Kept({"sim-response.json"}) PROVE SolutionOK'
BY DEF SolutionOK, Kept

\* Processes that are at no table do not matter to tables.
LEMMA TablesKept ==
  ASSUME TablesOK, JobsOK, overtaken' = overtaken, Kept({"contract"} \union Made \union Sidecars),
         \A q \in Procs : jobs'[q] = jobs[q] \/ jobs'[q].op \notin {"table", "envelope"}
  PROVE  TablesOK'
<1> SUFFICES ASSUME ~overtaken PROVE TablesOK' BY DEF TablesOK
<1>1. Present' = Present BY DEF Kept, Present
<1>2. \A p \in Procs : jobs'[p].op = "table" => jobs'[p].contract = Present'
  BY <1>1 DEF TablesOK
<1>3. \A p \in Procs : jobs'[p].op = "envelope" =>
         disk'[jobs'[p].table] = Projection(jobs'[p].table, Present')
  BY <1>1 DEF TablesOK, JobsOK, JobOK, Kept
<1>4. \A p, q \in Procs : Tabling(p)' /\ Tabling(q)' /\ p # q => jobs'[p].table # jobs'[q].table
  BY DEF TablesOK, Tabling
<1>5. \A name \in Made : SideOK(name, disk'[sidecar_path(name)])
  BY DEF TablesOK, Kept, Sidecars
<1> QED BY <1>2, <1>3, <1>4, <1>5 DEF TablesOK

\* One file more is written.
LEMMA ExportWrites ==
  ASSUME NEW job, ExportOK(job), job.op = "export", job.todo # <<>>,
         NEW name, name = Head(job.todo), NEW bytes, bytes = Projection(name, job.contract),
         NEW next, next = [job EXCEPT !.todo = Tail(@), !.files = @ \union {[path |-> name, sha256 |-> bytes]}]
  PROVE  name \in Bundle /\ JobOK(next)
<1> DEFINE file == [path |-> name, sha256 |-> bytes]
           files == job.files \union {file}
           rest == Tail(job.todo)
<1>1. /\ job.todo \in Seq(Bundle) /\ {"op", "contract", "files", "todo"} \subseteq DOMAIN job
      /\ \A n \in Needed : (\E f \in job.files : f.path = n) \/ \E i \in 1..Len(job.todo) : job.todo[i] = n
      /\ \A f \in job.files : f.sha256 = Projection(f.path, job.contract)
  BY DEF ExportOK
<1>2. /\ rest \in Seq(Bundle) /\ Len(rest) = Len(job.todo) - 1
      /\ \A i \in 1..Len(rest) : rest[i] = job.todo[i + 1]
      /\ name = job.todo[1] /\ name \in Bundle /\ Len(job.todo) \in Nat /\ Len(job.todo) > 0
  BY <1>1, HeadTailProperties, LenProperties, ElementOfSeq
<1>3. file.path = name /\ file.sha256 = Projection(file.path, job.contract) OBVIOUS
<1> HIDE DEF file, rest, files
<1>4. next = [job EXCEPT !.todo = rest, !.files = files] BY DEF file, rest, files
<1>5. /\ next.op = "export" /\ next.contract = job.contract /\ next.todo = rest
      /\ next.files = files /\ {"op", "contract", "files", "todo"} \subseteq DOMAIN next
  BY <1>1, <1>4
<1>6. ASSUME NEW n \in Needed
      PROVE  (\E f \in files : f.path = n) \/ \E i \in 1..Len(rest) : rest[i] = n
  <2>1. CASE \E f \in job.files : f.path = n BY <2>1 DEF files
  <2>2. CASE \E i \in 1..Len(job.todo) : job.todo[i] = n
    <3>1. PICK i \in 1..Len(job.todo) : job.todo[i] = n BY <2>2
    <3>2. CASE i = 1 BY <1>2, <1>3, <3>1, <3>2 DEF files
    <3>3. CASE i # 1
      <4>1. i - 1 \in 1..Len(rest) /\ rest[i - 1] = job.todo[(i - 1) + 1] BY <1>2, <3>3
      <4>2. (i - 1) + 1 = i OBVIOUS
      <4> QED BY <3>1, <4>1, <4>2
    <3> QED BY <3>2, <3>3
  <2> QED BY <1>1, <2>1, <2>2
<1>7. \A f \in files : f.sha256 = Projection(f.path, job.contract) BY <1>1, <1>3 DEF files
<1>8. ExportOK(next) BY <1>2, <1>5, <1>6, <1>7 DEF ExportOK
<1> QED BY <1>2, <1>5, <1>8 DEF JobOK

Watched == {"contract", "manifest.json", "sim-response.json"} \union Made \union Sidecars \union Responses
LeftKept == "drafts" \in DOMAIN left' /\ left'.drafts = left.drafts

\* A step that does nothing to what the invariant speaks of.
LEMMA Elsewhere ==
  ASSUME IInv, NEW p \in Procs, NEW job, Goto(p, job), JobOK(job),
         job.op \notin {"table", "envelope"},
         DOMAIN disk' = Paths, Kept(Watched), UNCHANGED <<overtaken, saw>>, LeftKept
  PROVE  IInv'
<1>1. /\ DOMAIN jobs' = Procs /\ JobsOK'
      /\ jobs'[p] = job /\ \A q \in Procs : q # p => jobs'[q] = jobs[q]
  BY JobGiven DEF IInv, Goto
<1>2. Shape' BY <1>1 DEF IInv, Shape, Kept, Watched, LeftKept, Present
<1>3. BundleOK' /\ AnswersOK' /\ SolutionOK'
  BY BundleKept, AnswersKept, SolutionKept DEF IInv, Kept, Watched
<1>4. TablesOK' BY <1>1, TablesKept DEF IInv, Kept, Watched
<1> QED BY <1>1, <1>2, <1>3, <1>4 DEF IInv

\* A process that begins is given its job, and the drafts stay.
LEMMA BeginKeeps ==
  ASSUME Shape, NEW p, NEW what, what # "drafts", NEW job, Begin(p, what, job)
  PROVE  LeftKept /\ Goto(p, job)
<1>1. left' = [left EXCEPT ![what] = @ - 1, !["jobs"] = @ - 1] BY DEF Begin
<1>2. LeftKept BY <1>1 DEF Shape, LeftKept
<1> QED BY <1>2 DEF Begin, Goto

\* A file is written that the invariant does not speak of.
LEMMA WrittenElsewhere ==
  ASSUME IInv, NEW path \in Paths \ Watched, NEW v, Put(path, v)
  PROVE  DOMAIN disk' = Paths /\ Kept(Watched)
<1>1. Watched \subseteq Paths BY PathsDiffer DEF Watched, Named
<1> QED BY <1>1, PutElse DEF IInv, Kept

\* The files that the invariant does not speak of.
LEMMA Elsewheres ==
  /\ Bundle \union {"design-report.json", "sim.json", "sim-request.json", "env.json", "step"} \subseteq Paths \ Watched
  /\ \A q \in Requests : RequestPath(q) \in Paths \ Watched
BY PathsDiffer DEF Bundle, Watched, Named, Made

-----------------------------------------------------------------------------
(* The steps of wire's processes.                                          *)

\* Nothing is written.
LEMMA JobOnly ==
  ASSUME IInv, NEW p \in Procs, NEW job, Goto(p, job), JobOK(job),
         job.op \notin {"table", "envelope"}, UNCHANGED <<disk, overtaken, saw>>, LeftKept
  PROVE  IInv'
<1>1. DOMAIN disk' = Paths /\ Kept(Watched) BY DEF IInv, Shape, Kept
<1> QED BY <1>1, Elsewhere

\* Who spends nothing leaves the drafts.
LEMMA SameLeft ==
  ASSUME IInv, UNCHANGED left PROVE LeftKept
BY DEF IInv, Shape, LeftKept

\* An export begins with all files before it.
LEMMA BeginExportKeeps ==
  ASSUME IInv, NEW p \in Procs, NEW png \in BOOLEAN, NEW author \in BOOLEAN, BeginExport(p, png, author)
  PROVE  IInv'
<1> DEFINE what == IF author THEN "author" ELSE "export"
           todo == IF png THEN <<"bom.json", "harness-diagram.png", "provenance.json">>
                     ELSE <<"bom.json", "provenance.json">>
           job == [op |-> "export", contract |-> Present, author |-> author, files |-> {}, todo |-> todo]
<1>1. Begin(p, what, job) /\ UNCHANGED <<disk, overtaken, saw>> BY DEF BeginExport
<1>2. LeftKept /\ Goto(p, job) BY <1>1, BeginKeeps DEF IInv
<1>3. todo \in Seq(Bundle)
  <2>1. <<"bom.json", "harness-diagram.png", "provenance.json">> \in Seq(Bundle) BY DEF Bundle
  <2>2. <<"bom.json", "provenance.json">> \in Seq(Bundle) BY DEF Bundle
  <2> QED BY <2>1, <2>2
<1>4. \A n \in Needed : \E i \in 1..Len(todo) : todo[i] = n
  <2>1. CASE png
    <3>1. todo = <<"bom.json", "harness-diagram.png", "provenance.json">> BY <2>1
    <3>2. Len(todo) = 3 /\ todo[1] = "bom.json" /\ todo[3] = "provenance.json" BY <3>1
    <3> QED BY <3>2 DEF Needed
  <2>2. CASE ~png
    <3>1. todo = <<"bom.json", "provenance.json">> BY <2>2
    <3>2. Len(todo) = 2 /\ todo[1] = "bom.json" /\ todo[2] = "provenance.json" BY <3>1
    <3> QED BY <3>2 DEF Needed
  <2> QED BY <2>1, <2>2
<1> HIDE DEF todo
<1>5. JobOK(job) BY <1>3, <1>4 DEF JobOK, ExportOK
<1>6. job.op = "export" OBVIOUS
<1> QED BY <1>1, <1>2, <1>5, <1>6, JobOnly

\* A file is written and noted with its digest.
LEMMA WriteArtifactKeeps ==
  ASSUME IInv, NEW p \in Procs, WriteArtifact(p)
  PROVE  IInv'
<1> DEFINE name == Head(jobs[p].todo)
           bytes == Projection(name, jobs[p].contract)
           next == [jobs[p] EXCEPT !.todo = Tail(@), !.files = @ \union {[path |-> name, sha256 |-> bytes]}]
<1>1. /\ jobs[p].op = "export" /\ jobs[p].todo # <<>> /\ Put(name, bytes) /\ Goto(p, next)
      /\ UNCHANGED <<left, overtaken, saw>>
  BY DEF WriteArtifact, At
<1>2. ExportOK(jobs[p]) BY <1>1 DEF IInv, JobsOK, JobOK
<1>3. name \in Bundle /\ JobOK(next) BY <1>1, <1>2, ExportWrites
<1>4. next.op = "export"
  <2>1. {"op", "contract", "files", "todo"} \subseteq DOMAIN jobs[p] BY <1>2 DEF ExportOK
  <2>2. \A x, y : [jobs[p] EXCEPT !.todo = x, !.files = y].op = jobs[p].op BY <2>1
  <2> QED BY <1>1, <2>2
<1> HIDE DEF next, bytes, name
<1>5. DOMAIN disk' = Paths /\ Kept(Watched) BY <1>1, <1>3, Elsewheres, WrittenElsewhere
<1>6. LeftKept BY <1>1, SameLeft
<1> QED BY <1>1, <1>3, <1>4, <1>5, <1>6, Elsewhere

\* The manifest lists what the export wrote.
LEMMA WriteManifestKeeps ==
  ASSUME IInv, NEW p \in Procs, WriteManifest(p)
  PROVE  IInv'
<1> DEFINE manifest == [contract_sha256 |-> jobs[p].contract, files |-> jobs[p].files]
           next == IF jobs[p].author THEN [op |-> "judge", contract |-> jobs[p].contract] ELSE Idle
<1>1. /\ jobs[p].op = "export" /\ jobs[p].todo = <<>> /\ Put("manifest.json", manifest)
      /\ Goto(p, next) /\ UNCHANGED <<left, overtaken, saw>>
  BY DEF WriteManifest, At
<1>2. ExportOK(jobs[p]) BY <1>1 DEF IInv, JobsOK, JobOK
<1>3. ManifestOK(manifest)
  <2>1. Len(jobs[p].todo) = 0 BY <1>1
  <2>2. \A n \in Needed : \E f \in jobs[p].files : f.path = n BY <1>2, <2>1 DEF ExportOK
  <2>3. \A f \in jobs[p].files : f.sha256 = Projection(f.path, jobs[p].contract) BY <1>2 DEF ExportOK
  <2> QED BY <2>2, <2>3 DEF ManifestOK
<1>4. JobOK(next) /\ next.op \notin {"table", "envelope"} BY DEF JobOK, Idle
<1>5. "manifest.json" \in Paths /\ "manifest.json" \notin Responses \union Sidecars
  BY PathsDiffer DEF Named
<1> HIDE DEF manifest, next
<1>6. DOMAIN disk' = Paths /\ disk'["manifest.json"] = manifest /\ Kept(Watched \ {"manifest.json"})
  <2>1. Watched \subseteq Paths BY PathsDiffer DEF Watched, Named
  <2> QED BY <1>1, <1>5, <2>1, PutElse DEF IInv, Kept
<1>7. LeftKept BY <1>1, SameLeft
<1>8. /\ DOMAIN jobs' = Procs /\ JobsOK' /\ jobs'[p] = next /\ \A q \in Procs : q # p => jobs'[q] = jobs[q]
  BY <1>1, <1>4, JobGiven DEF IInv, Goto
<1>9. Kept({"contract", "sim-response.json"} \union Made \union Sidecars \union Responses)
  BY <1>5, <1>6 DEF Watched, Kept, Made
<1>10. Shape' BY <1>1, <1>6, <1>7, <1>8, <1>9 DEF IInv, Shape, Kept, LeftKept, Present
<1>11. BundleOK' BY <1>3, <1>6 DEF BundleOK, ManifestOK
<1>12. AnswersOK' /\ SolutionOK' BY <1>1, <1>9, AnswersKept, SolutionKept DEF IInv, Kept
<1>13. TablesOK' BY <1>1, <1>4, <1>8, <1>9, TablesKept DEF IInv, Kept
<1> QED BY <1>8, <1>10, <1>11, <1>12, <1>13 DEF IInv

\* Judging writes nothing.
LEMMA JudgeKeeps ==
  ASSUME IInv, NEW p \in Procs, Judge(p)
  PROVE  IInv'
<1> DEFINE next == [op |-> "report", contract |-> jobs[p].contract, checks |-> Judged(jobs[p].contract)]
<1>1. Goto(p, next) /\ UNCHANGED <<disk, left, overtaken, saw>> BY DEF Judge
<1>2. JobOK(next) /\ next.op \notin {"table", "envelope"} BY DEF JobOK
<1> HIDE DEF next
<1> QED BY <1>1, <1>2, SameLeft, JobOnly

\* The design report is not among what is claimed.
LEMMA write_reportKeeps ==
  ASSUME IInv, NEW p \in Procs, write_report(p)
  PROVE  IInv'
<1>1. PICK v : Put("design-report.json", v) /\ Goto(p, Idle) /\ UNCHANGED <<left, overtaken, saw>>
  BY DEF write_report
<1>2. DOMAIN disk' = Paths /\ Kept(Watched) BY <1>1, Elsewheres, WrittenElsewhere
<1>3. Idle.op \notin {"table", "envelope"} BY DEF Idle
<1> QED BY <1>1, <1>2, <1>3, IdleOK, SameLeft, Elsewhere

\* Nor are the brief and the request: an answer carries its brief.
LEMMA SimRequestKeeps ==
  ASSUME IInv, NEW p \in Procs, BeginSimRequest(p) \/ WriteBrief(p) \/ write_sim_request(p)
  PROVE  IInv'
<1>1. CASE BeginSimRequest(p)
  <2> DEFINE next == [op |-> "brief", contract |-> Present]
  <2>1. Begin(p, "request", next) /\ UNCHANGED <<disk, overtaken, saw>> BY <1>1 DEF BeginSimRequest
  <2>2. JobOK(next) /\ next.op \notin {"table", "envelope"} BY DEF JobOK
  <2> HIDE DEF next
  <2>3. LeftKept /\ Goto(p, next) BY <2>1, BeginKeeps DEF IInv
  <2> QED BY <2>1, <2>2, <2>3, JobOnly
<1>2. CASE WriteBrief(p)
  <2> DEFINE next == [op |-> "simrequest", contract |-> jobs[p].contract]
  <2>1. PICK v : Put("sim.json", v) /\ Goto(p, next) /\ UNCHANGED <<left, overtaken, saw>>
    BY <1>2 DEF WriteBrief
  <2>2. JobOK(next) /\ next.op \notin {"table", "envelope"} BY DEF JobOK
  <2> HIDE DEF next
  <2>3. DOMAIN disk' = Paths /\ Kept(Watched) BY <2>1, Elsewheres, WrittenElsewhere
  <2> QED BY <2>1, <2>2, <2>3, SameLeft, Elsewhere
<1>3. CASE write_sim_request(p)
  <2>1. PICK v : Put("sim-request.json", v) /\ Goto(p, Idle) /\ UNCHANGED <<left, overtaken, saw>>
    BY <1>3 DEF write_sim_request
  <2>2. DOMAIN disk' = Paths /\ Kept(Watched) BY <2>1, Elsewheres, WrittenElsewhere
  <2>3. Idle.op \notin {"table", "envelope"} BY DEF Idle
  <2> QED BY <2>1, <2>2, <2>3, IdleOK, SameLeft, Elsewhere
<1> QED BY <1>1, <1>2, <1>3

-----------------------------------------------------------------------------
(* respond: what is answered is what was read.                             *)

\* A response begins with what it read.
LEMMA BeginRespondKeeps ==
  ASSUME IInv, NEW p \in Procs, NEW q \in Requests, NEW given, BeginRespond(p, q, given)
  PROVE  IInv'
<1>1. PICK next :
        /\ Begin(p, "respond", next) /\ next.op = "respond" /\ next.request = q
        /\ {"op", "request", "verdicts", "basis"} \subseteq DOMAIN next
        /\ UNCHANGED <<disk, overtaken, saw>>
  BY DEF BeginRespond
<1>2. JobOK(next) BY <1>1 DEF JobOK
<1>3. LeftKept /\ Goto(p, next) BY <1>1, BeginKeeps DEF IInv
<1> QED BY <1>1, <1>2, <1>3, JobOnly

\* It takes its verdicts from the report.
LEMMA ReadReportsKeeps ==
  ASSUME IInv, NEW p \in Procs, ReadReports(p)
  PROVE  IInv'
<1>1. PICK verdicts, basis :
        /\ jobs[p].op = "respond" /\ UNCHANGED <<disk, left, overtaken, saw>>
        /\ \/ Goto(p, Idle)
           \/ Goto(p, [jobs[p] EXCEPT !.op = "refs", !.verdicts = verdicts, !.basis = basis])
  BY DEF ReadReports, At
<1> DEFINE next == [jobs[p] EXCEPT !.op = "refs", !.verdicts = verdicts, !.basis = basis]
<1>2. {"op", "request", "verdicts", "basis"} \subseteq DOMAIN jobs[p] /\ jobs[p].request \in Requests
  BY <1>1 DEF IInv, JobsOK, JobOK
<1>3. /\ next.op = "refs" /\ next.request = jobs[p].request
      /\ {"op", "request", "verdicts", "basis"} \subseteq DOMAIN next
  BY <1>2
<1> HIDE DEF next
<1>4. JobOK(next) BY <1>2, <1>3 DEF JobOK
<1>5. CASE Goto(p, Idle)
  BY <1>1, <1>5, IdleOK, SameLeft, JobOnly DEF Idle
<1>6. CASE Goto(p, next)
  BY <1>1, <1>3, <1>4, <1>6, SameLeft, JobOnly
<1> QED BY <1>1, <1>5, <1>6 DEF next

\* It looks its references up.
LEMMA ReadLogsKeeps ==
  ASSUME IInv, NEW p \in Procs, ReadLogs(p)
  PROVE  IInv'
<1> DEFINE next == [jobs[p] EXCEPT !.op = "heads"]
<1>1. /\ jobs[p].op = "refs" /\ UNCHANGED <<disk, left, overtaken, saw>>
      /\ Goto(p, Idle) \/ Goto(p, next)
  BY DEF ReadLogs, At
<1>2. {"op", "request", "verdicts", "basis"} \subseteq DOMAIN jobs[p] /\ jobs[p].request \in Requests
  BY <1>1 DEF IInv, JobsOK, JobOK
<1>3. /\ next.op = "heads" /\ next.request = jobs[p].request
      /\ {"op", "request", "verdicts", "basis"} \subseteq DOMAIN next
  BY <1>2
<1> HIDE DEF next
<1>4. JobOK(next) BY <1>2, <1>3 DEF JobOK
<1>5. CASE Goto(p, Idle)
  BY <1>1, <1>5, IdleOK, SameLeft, JobOnly DEF Idle
<1>6. CASE Goto(p, next)
  BY <1>1, <1>3, <1>4, <1>6, SameLeft, JobOnly
<1> QED BY <1>1, <1>5, <1>6

\* It hashes what it hands over.
LEMMA HashArtifactsKeeps ==
  ASSUME IInv, NEW p \in Procs, HashArtifacts(p)
  PROVE  IInv'
<1>1. PICK answer :
        /\ jobs[p].op = "heads" /\ UNCHANGED <<disk, left, overtaken, saw>>
        /\ answer.request = jobs[p].request
        /\ \/ Goto(p, Idle)
           \/ Goto(p, [op |-> "answer", answer |-> answer, basis |-> jobs[p].basis])
  BY DEF HashArtifacts, At
<1> DEFINE next == [op |-> "answer", answer |-> answer, basis |-> jobs[p].basis]
<1>2. answer.request \in Requests BY <1>1 DEF IInv, JobsOK, JobOK
<1>3. next.op = "answer" /\ JobOK(next) BY <1>2 DEF JobOK
<1>4. CASE Goto(p, Idle)
  BY <1>1, <1>4, IdleOK, SameLeft, JobOnly DEF Idle
<1>5. CASE Goto(p, next)
  <2> HIDE DEF next
  <2> QED BY <1>1, <1>3, <1>5, SameLeft, JobOnly
<1> QED BY <1>1, <1>4, <1>5

\* A file is written that tables, bundle and simulation are not in.
LEMMA ResponseWritten ==
  ASSUME IInv, NEW q \in Requests, NEW v, Put(ResponsePath(q), v)
  PROVE  /\ DOMAIN disk' = Paths /\ disk'[ResponsePath(q)] = v
         /\ Kept(Watched \ Responses) /\ Kept({ResponsePath(r) : r \in Requests \ {q}})
<1>1. ResponsePath(q) \in Paths /\ Watched \subseteq Paths BY PathsDiffer DEF Watched, Named, Responses
<1>2. \A r \in Requests \ {q} : ResponsePath(r) \in Paths /\ ResponsePath(r) # ResponsePath(q)
  BY PathsDiffer DEF Responses
<1>3. ResponsePath(q) \in Responses BY DEF Responses
<1> QED BY <1>1, <1>2, <1>3, PutElse DEF IInv, Kept

\* An answer to another request leaves what was seen of this one.
LEMMA ResponseKeeps ==
  ASSUME IInv, Kept(Watched \ Responses), DOMAIN disk' = Paths, LeftKept, UNCHANGED overtaken,
         DOMAIN saw' = Requests, DOMAIN jobs' = Procs, JobsOK', AnswersOK',
         \A q \in Procs : jobs'[q] = jobs[q] \/ jobs'[q].op \notin {"table", "envelope"}
  PROVE  IInv'
<1>1. Kept({"contract", "manifest.json", "sim-response.json"} \union Made \union Sidecars)
  BY PathsDiffer DEF Kept, Watched, Named
<1>2. Shape' BY <1>1 DEF IInv, Shape, Kept, LeftKept, Present
<1>3. BundleOK' /\ SolutionOK' BY <1>1, BundleKept, SolutionKept DEF IInv, Kept
<1>4. TablesOK' BY <1>1, TablesKept DEF IInv, Kept
<1> QED BY <1>2, <1>3, <1>4 DEF IInv

\* An answer's inputs are what was seen.
LEMMA respondKeeps ==
  ASSUME IInv, NEW p \in Procs, respond(p)
  PROVE  IInv'
<1>1. PICK answer, q, seen :
        /\ jobs[p].op = "answer" /\ answer = jobs[p].answer /\ q = answer.request
        /\ seen.inputs = answer.input_hashes
        /\ Put(ResponsePath(q), answer) /\ saw' = [saw EXCEPT ![q] = seen]
        /\ Goto(p, Idle) /\ UNCHANGED <<left, overtaken>>
  <2> DEFINE given == [basis |-> jobs[p].basis, inputs |-> jobs[p].answer.input_hashes]
  <2>1. given.inputs = jobs[p].answer.input_hashes OBVIOUS
  <2> QED BY <2>1 DEF respond, At
<1>2. q \in Requests BY <1>1 DEF IInv, JobsOK, JobOK
<1>4. /\ DOMAIN disk' = Paths /\ disk'[ResponsePath(q)] = answer
      /\ Kept(Watched \ Responses) /\ Kept({ResponsePath(r) : r \in Requests \ {q}})
  BY <1>1, <1>2, ResponseWritten
<1>5. DOMAIN saw' = Requests /\ saw'[q] = seen /\ \A r \in Requests : r # q => saw'[r] = saw[r]
  BY <1>1, <1>2 DEF IInv, Shape
<1>6. /\ DOMAIN jobs' = Procs /\ JobsOK'
      /\ jobs'[p] = Idle /\ \A o \in Procs : o # p => jobs'[o] = jobs[o]
  BY <1>1, IdleOK, JobGiven DEF IInv, Goto
<1>7. ASSUME NEW r \in Requests, Answered(r)'
      PROVE  saw'[r].inputs = disk'[ResponsePath(r)].input_hashes
  <2>1. CASE r = q BY <1>1, <1>4, <1>5, <2>1
  <2>2. CASE r # q BY <1>4, <1>5, <1>7, <2>2 DEF IInv, AnswersOK, Answered, Kept
  <2> QED BY <2>1, <2>2
<1>8. AnswersOK' BY <1>7 DEF AnswersOK
<1>9. Idle.op \notin {"table", "envelope"} BY DEF Idle
<1> QED BY <1>1, <1>4, <1>5, <1>6, <1>8, <1>9, SameLeft, ResponseKeeps

-----------------------------------------------------------------------------
(* The tables: until an edit or another export overtakes it, a table is of *)
(* the contract that its sidecar will name.                                *)

\* What is not about tables, when only tables and sidecars are written.
LEMMA TableStep ==
  ASSUME IInv, NEW p \in Procs, NEW job, Goto(p, job), JobOK(job), LeftKept, UNCHANGED saw,
         DOMAIN disk' = Paths, Kept(Watched \ (Made \union Sidecars)), TablesOK'
  PROVE  IInv'
<1>1. DOMAIN jobs' = Procs /\ JobsOK' BY JobGiven DEF IInv, Goto
<1>2. Kept({"contract", "manifest.json", "sim-response.json"} \union Responses)
  BY PathsDiffer DEF Kept, Watched, Named, Made
<1>3. Shape' BY <1>1, <1>2 DEF IInv, Shape, Kept, LeftKept, Present
<1>4. BundleOK' /\ SolutionOK' /\ AnswersOK'
  BY <1>2, BundleKept, SolutionKept, AnswersKept DEF IInv, Kept
<1> QED BY <1>1, <1>3, <1>4 DEF IInv

\* A table begun beside another export of it is overtaken.
LEMMA BeginTableKeeps ==
  ASSUME IInv, NEW p \in Procs, NEW name \in Made, BeginTable(p, name)
  PROVE  IInv'
<1>1. PICK job :
        /\ Begin(p, "table", job) /\ UNCHANGED <<disk, saw>>
        /\ job.op = "table" /\ job.table = name /\ job.contract = Present
        /\ overtaken' = (overtaken \/ \E q \in Procs : Tabling(q) /\ jobs[q].table = name)
  <2> DEFINE given == [op |-> "table", table |-> name, contract |-> Present]
  <2>1. given.op = "table" /\ given.table = name /\ given.contract = Present OBVIOUS
  <2> QED BY <2>1 DEF BeginTable
<1>2. LeftKept /\ Goto(p, job) BY <1>1, BeginKeeps DEF IInv
<1>3. JobOK(job) BY <1>1 DEF JobOK
<1>4. jobs'[p] = job /\ \A q \in Procs : q # p => jobs'[q] = jobs[q]
  BY <1>2, <1>3, JobGiven DEF IInv, Goto
<1>5. TablesOK'
  <2> SUFFICES ASSUME ~overtaken' PROVE TablesOK' BY DEF TablesOK
  <2>1. ~overtaken /\ \A q \in Procs : Tabling(q) => jobs[q].table # name BY <1>1
  <2>2. Present' = Present BY <1>1 DEF Present
  <2>3. \A q \in Procs : jobs'[q].op = "table" => jobs'[q].contract = Present'
    BY <1>1, <1>4, <2>1, <2>2 DEF IInv, TablesOK
  <2>4. \A q \in Procs : jobs'[q].op = "envelope" =>
           disk'[jobs'[q].table] = Projection(jobs'[q].table, Present')
    BY <1>1, <1>4, <2>1, <2>2 DEF IInv, TablesOK
  <2>5. \A q, r \in Procs : Tabling(q)' /\ Tabling(r)' /\ q # r => jobs'[q].table # jobs'[r].table
    BY <1>1, <1>4, <2>1 DEF IInv, TablesOK, Tabling
  <2>6. \A n \in Made : SideOK(n, disk'[sidecar_path(n)])
    BY <1>1, <2>1 DEF IInv, TablesOK
  <2> QED BY <2>3, <2>4, <2>5, <2>6 DEF TablesOK
<1>6. DOMAIN disk' = Paths /\ Kept(Watched \ (Made \union Sidecars)) BY <1>1 DEF IInv, Shape, Kept
<1> QED BY <1>1, <1>2, <1>3, <1>5, <1>6, TableStep

\* A table is the present contract's, or was overtaken.
LEMMA WriteTableKeeps ==
  ASSUME IInv, NEW p \in Procs, NEW name \in Made, WriteTable(p, name)
  PROVE  IInv'
<1>1. PICK job :
        /\ jobs[p].op = "table" /\ jobs[p].table = name
        /\ job.op = "envelope" /\ job.table = name
        /\ Put(name, Projection(name, jobs[p].contract)) /\ Goto(p, job)
        /\ UNCHANGED <<left, overtaken, saw>>
  <2> DEFINE given == [op |-> "envelope", table |-> name]
  <2>1. given.op = "envelope" /\ given.table = name OBVIOUS
  <2> QED BY <2>1 DEF WriteTable, At
<1>2. JobOK(job) BY <1>1 DEF JobOK
<1>3. jobs'[p] = job /\ \A q \in Procs : q # p => jobs'[q] = jobs[q]
  BY <1>1, <1>2, JobGiven DEF IInv, Goto
<1>4. name \in Paths /\ name \notin Sidecars \union {"contract"} BY PathsDiffer DEF Named, Made
<1>5. /\ DOMAIN disk' = Paths /\ disk'[name] = Projection(name, jobs[p].contract)
      /\ Kept(Watched \ {name})
  <2>1. Watched \subseteq Paths BY PathsDiffer DEF Watched, Named
  <2>2. DOMAIN disk' = Paths /\ disk'[name] = Projection(name, jobs[p].contract)
    BY <1>1, <1>4 DEF Put, IInv, Shape
  <2>3. \A o \in Paths : o # name => disk'[o] = disk[o]
    BY <1>1, <1>4 DEF Put, IInv, Shape
  <2> QED BY <2>1, <2>2, <2>3 DEF Kept
<1>6. TablesOK'
  <2> SUFFICES ASSUME ~overtaken PROVE TablesOK' BY <1>1 DEF TablesOK
  <2>1. Present' = Present BY <1>4, <1>5 DEF Kept, Watched, Present
  <2>2. jobs[p].contract = Present BY <1>1 DEF IInv, TablesOK
  <2>3. \A q \in Procs : q # p /\ Tabling(q) => jobs[q].table # name
    BY <1>1 DEF IInv, TablesOK, Tabling
  <2>4. \A q \in Procs : jobs'[q].op = "table" => jobs'[q].contract = Present'
    BY <1>1, <1>3, <2>1 DEF IInv, TablesOK
  <2>5. ASSUME NEW q \in Procs, jobs'[q].op = "envelope"
        PROVE  disk'[jobs'[q].table] = Projection(jobs'[q].table, Present')
    <3>1. CASE q = p BY <1>1, <1>3, <1>5, <2>1, <2>2, <3>1
    <3>2. CASE q # p
      <4>1. jobs[q].table # name /\ jobs[q].table \in Made
        BY <1>3, <2>3, <2>5, <3>2 DEF Tabling, IInv, JobsOK, JobOK
      <4>2. disk'[jobs[q].table] = disk[jobs[q].table] BY <1>5, <4>1 DEF Kept, Watched
      <4> QED BY <1>3, <2>1, <2>5, <3>2, <4>2 DEF IInv, TablesOK
    <3> QED BY <3>1, <3>2
  <2>6. \A q, r \in Procs : Tabling(q)' /\ Tabling(r)' /\ q # r => jobs'[q].table # jobs'[r].table
    BY <1>1, <1>3 DEF IInv, TablesOK, Tabling
  <2>7. \A n \in Made : SideOK(n, disk'[sidecar_path(n)])
    BY <1>4, <1>5 DEF IInv, TablesOK, Kept, Watched, Sidecars
  <2> QED BY <2>4, <2>5, <2>6, <2>7 DEF TablesOK
<1>7. Kept(Watched \ (Made \union Sidecars)) BY <1>5 DEF Kept
<1> QED BY <1>1, <1>2, <1>5, <1>6, <1>7, SameLeft, TableStep

\* A sidecar names the table on disk and the contract there is.
LEMMA SidecarWritten ==
  ASSUME NEW name, NEW side, side = write_envelope(name, "wire", {"contract"}, disk, decisions),
         disk[name] = Projection(name, Present)
  PROVE  SideOK(name, side)
<1>1. /\ side.artifact.sha256 = disk[name]
      /\ side.sources = {[path |-> "contract", sha256 |-> Present]}
  BY DEF write_envelope, Pin, Present
<1> QED BY <1>1 DEF SideOK

\* The sidecar is of the table and the contract on disk.
LEMMA WithEnvelopeKeeps ==
  ASSUME IInv, NEW p \in Procs, _with_envelope(p)
  PROVE  IInv'
<1>1. PICK name, side :
        /\ jobs[p].op = "envelope" /\ name = jobs[p].table
        /\ side = write_envelope(name, "wire", {"contract"}, disk, decisions)
        /\ UNCHANGED disk \/ Put(sidecar_path(name), side)
        /\ Goto(p, Idle) /\ UNCHANGED <<left, overtaken, saw>>
  BY DEF _with_envelope, At
<1>2. name \in Made BY <1>1 DEF IInv, JobsOK, JobOK
<1>3. jobs'[p] = Idle /\ \A q \in Procs : q # p => jobs'[q] = jobs[q]
  BY <1>1, IdleOK, JobGiven DEF IInv, Goto
<1>4. /\ sidecar_path(name) \in Paths \ (Named \union Responses) /\ sidecar_path(name) \in Sidecars
      /\ \A n \in Made : n # name => sidecar_path(n) # sidecar_path(name)
  BY <1>2, PathsDiffer DEF Sidecars
<1>5. /\ DOMAIN disk' = Paths /\ Kept(Watched \ {sidecar_path(name)})
      /\ disk'[sidecar_path(name)] \in {disk[sidecar_path(name)], side}
  <2>1. Watched \subseteq Paths BY PathsDiffer DEF Watched, Named
  <2>2. CASE UNCHANGED disk BY <2>2 DEF IInv, Shape, Kept
  <2>3. CASE Put(sidecar_path(name), side)
    <3>1. disk' = [disk EXCEPT ![sidecar_path(name)] = side] BY <2>3 DEF Put
    <3> QED BY <1>4, <2>1, <3>1 DEF IInv, Shape, Kept
  <2> QED BY <1>1, <2>2, <2>3
<1>6. Kept({"contract"} \union Made) BY <1>4, <1>5 DEF Kept, Watched, Named
<1>7. TablesOK'
  <2> SUFFICES ASSUME ~overtaken PROVE TablesOK' BY <1>1 DEF TablesOK
  <2>1. Present' = Present BY <1>6 DEF Kept, Present
  <2>2. SideOK(name, side) BY <1>1, SidecarWritten DEF IInv, TablesOK
  <2>3. \A q \in Procs : jobs'[q].op = "table" => jobs'[q].contract = Present'
    BY <1>3, <2>1 DEF IInv, TablesOK, Idle
  <2>4. ASSUME NEW q \in Procs, jobs'[q].op = "envelope"
        PROVE  disk'[jobs'[q].table] = Projection(jobs'[q].table, Present')
    <3>1. jobs'[q] = jobs[q] BY <1>3, <2>4 DEF Idle
    <3>2. jobs[q].op = "envelope" /\ jobs[q].table \in Made
      BY <2>4, <3>1 DEF IInv, JobsOK, JobOK
    <3>3. disk'[jobs[q].table] = disk[jobs[q].table] BY <1>6, <3>2 DEF Kept
    <3> QED BY <2>1, <3>1, <3>2, <3>3 DEF IInv, TablesOK
  <2>5. \A q, r \in Procs : Tabling(q)' /\ Tabling(r)' /\ q # r => jobs'[q].table # jobs'[r].table
    BY <1>3 DEF IInv, TablesOK, Tabling, Idle
  <2>6. ASSUME NEW n \in Made PROVE SideOK(n, disk'[sidecar_path(n)])
    <3>1. CASE n = name BY <1>5, <2>2, <3>1 DEF IInv, TablesOK
    <3>2. CASE n # name
      <4>1. disk'[sidecar_path(n)] = disk[sidecar_path(n)]
        BY <1>4, <1>5, <3>2 DEF Kept, Watched, Sidecars
      <4> QED BY <4>1 DEF IInv, TablesOK
    <3> QED BY <3>1, <3>2
  <2> QED BY <2>3, <2>4, <2>5, <2>6 DEF TablesOK
<1>8. Kept(Watched \ (Made \union Sidecars)) BY <1>4, <1>5 DEF Kept
<1> QED BY <1>1, <1>5, <1>7, <1>8, IdleOK, SameLeft, TableStep

-----------------------------------------------------------------------------
(* The world around, and a process that is killed.                         *)

\* An edit overtakes the tables that are on their way; a sidecar goes on naming its contract.
LEMMA EditKeeps ==
  ASSUME IInv, NEW d \in left.drafts, Edit(d)
  PROVE  IInv'
<1>1. /\ left' = [left EXCEPT !["edit"] = @ - 1] /\ Put("contract", d)
      /\ overtaken' = (overtaken \/ \E p \in Procs : Tabling(p)) /\ UNCHANGED <<jobs, saw>>
  BY DEF Edit, Spend
<1>2. LeftKept BY <1>1, SpendKeeps DEF IInv, LeftKept
<1>3. "contract" \in Paths /\ "contract" \notin Sidecars \union Responses /\ Watched \subseteq Paths
  BY PathsDiffer DEF Watched, Named
<1>4. DOMAIN disk' = Paths /\ disk'["contract"] = d /\ Kept(Watched \ {"contract"})
  BY <1>1, <1>3, PutElse DEF IInv, Kept
<1>5. Shape' BY <1>1, <1>2, <1>4 DEF IInv, Shape, LeftKept, Present
<1>6. JobsOK' BY <1>1 DEF IInv, JobsOK, JobOK, ExportOK
<1>7. Kept({"manifest.json", "sim-response.json"} \union Sidecars \union Responses)
  BY <1>3, <1>4 DEF Kept, Watched
<1>8. BundleOK' /\ SolutionOK' /\ AnswersOK'
  BY <1>1, <1>7, BundleKept, SolutionKept, AnswersKept DEF IInv, Kept
<1>9. TablesOK'
  <2> SUFFICES ASSUME ~overtaken' PROVE TablesOK' BY DEF TablesOK
  <2>1. ~overtaken /\ \A p \in Procs : ~Tabling(p) BY <1>1
  <2>2. \A p \in Procs : jobs'[p].op \notin {"table", "envelope"} BY <1>1, <2>1 DEF Tabling
  <2>3. \A n \in Made : SideOK(n, disk'[sidecar_path(n)])
    BY <1>7, <2>1 DEF IInv, TablesOK, Kept, Sidecars
  <2> QED BY <2>2, <2>3 DEF TablesOK, Tabling
<1> QED BY <1>5, <1>6, <1>8, <1>9 DEF IInv

\* Another's step elsewhere.
LEMMA OthersElsewhere ==
  ASSUME IInv, DOMAIN disk' = Paths, Kept(Watched), UNCHANGED <<jobs, overtaken, saw>>, LeftKept
  PROVE  IInv'
<1>1. Shape' BY DEF IInv, Shape, Kept, Watched, LeftKept, Present
<1>2. JobsOK' BY DEF IInv, JobsOK, JobOK, ExportOK
<1>3. BundleOK' /\ AnswersOK' /\ SolutionOK'
  BY BundleKept, AnswersKept, SolutionKept DEF IInv, Kept, Watched
<1>4. TablesOK' BY TablesKept DEF IInv, Kept, Watched
<1> QED BY <1>1, <1>2, <1>3, <1>4 DEF IInv

\* mech writes its own files.
LEMMA MechExportsKeeps ==
  ASSUME IInv, NEW e, MechExports(e)
  PROVE  IInv'
<1>1. PICK side :
        /\ left' = [left EXCEPT !["mech"] = @ - 1] /\ UNCHANGED <<jobs, overtaken, saw>>
        /\ disk' = [disk EXCEPT !["env.json"] = e, !["step"] = e, !["env.json.provenance"] = side]
  BY DEF MechExports, Spend
<1>2. LeftKept BY <1>1, SpendKeeps DEF IInv, LeftKept
<1>3. /\ Watched \subseteq Paths
      /\ {"env.json", "step", "env.json.provenance"} \intersect Watched = {}
  BY PathsDiffer DEF Watched, Named, Made
<1>4. DOMAIN disk' = Paths /\ Kept(Watched) BY <1>1, <1>3 DEF IInv, Shape, Kept
<1> QED BY <1>1, <1>2, <1>4, OthersElsewhere

\* The simulation's answer carries the brief it solved.
LEMMA SimAnswersKeeps ==
  ASSUME IInv, NEW s, SimAnswers(s)
  PROVE  IInv'
<1>1. PICK report, response, side :
        /\ left' = [left EXCEPT !["sim"] = @ - 1] /\ UNCHANGED <<jobs, overtaken, saw>>
        /\ response.report_path = "sim-report.json" /\ response.sha256 = report
        /\ report.brief = response.brief_sha256
        /\ disk' = [disk EXCEPT !["sim-report.json"] = report, !["sim-response.json"] = response,
                                !["sim-response.json.provenance"] = side]
  <2> DEFINE report == [checks |-> s.checks, verdict |-> s.verdict, brief |-> disk["sim.json"]]
             response ==
               [request_id |-> disk["sim-request.json"].request_id,
                request_sha256 |-> disk["sim-request.json"], brief_sha256 |-> disk["sim.json"],
                status |-> s.status, verdict |-> s.verdict,
                report_path |-> "sim-report.json", sha256 |-> report]
             side == Sidecar("sim-response.json", "sim", response, Pin("sim.json", disk))
  <2>1. /\ report.brief = disk["sim.json"] /\ response.brief_sha256 = disk["sim.json"]
        /\ response.report_path = "sim-report.json" /\ response.sha256 = report
    OBVIOUS
  <2>2. /\ left' = [left EXCEPT !["sim"] = @ - 1] /\ UNCHANGED <<jobs, overtaken, saw>>
        /\ disk' = [disk EXCEPT !["sim-report.json"] = report, !["sim-response.json"] = response,
                                !["sim-response.json.provenance"] = side]
    BY DEF SimAnswers, Spend
  <2> HIDE DEF report, response, side
  <2> QED BY <2>1, <2>2
<1>2. LeftKept BY <1>1, SpendKeeps DEF IInv, LeftKept
<1>3. /\ Watched \subseteq Paths /\ "sim-response.json" \in Paths
      /\ {"sim-report.json", "sim-response.json", "sim-response.json.provenance"} \intersect Watched
           = {"sim-response.json"}
      /\ "sim-response.json" \notin Sidecars \union Responses
  BY PathsDiffer DEF Watched, Named, Made
<1>4. /\ DOMAIN disk' = Paths /\ disk'["sim-response.json"] = response
      /\ Kept(Watched \ {"sim-response.json"})
  BY <1>1, <1>3 DEF IInv, Shape, Kept
<1>5. Kept({"contract", "manifest.json"} \union Made \union Sidecars \union Responses)
  BY <1>3, <1>4 DEF Kept, Watched, Made
<1>6. Shape' BY <1>1, <1>2, <1>4, <1>5 DEF IInv, Shape, Kept, LeftKept, Present
<1>7. JobsOK' BY <1>1 DEF IInv, JobsOK, JobOK, ExportOK
<1>8. BundleOK' /\ AnswersOK' BY <1>1, <1>5, BundleKept, AnswersKept DEF IInv, Kept
<1>9. SolutionOK' BY <1>1, <1>4 DEF SolutionOK
<1>10. TablesOK' BY <1>1, <1>5, TablesKept DEF IInv, Kept
<1> QED BY <1>6, <1>7, <1>8, <1>9, <1>10 DEF IInv

\* A request issued anew leaves the answers.
LEMMA AskKeeps ==
  ASSUME IInv, NEW q \in Requests, Ask(q)
  PROVE  IInv'
<1>1. PICK v :
        /\ left' = [left EXCEPT !["ask"] = @ - 1] /\ Put(RequestPath(q), v)
        /\ UNCHANGED <<jobs, overtaken, saw>>
  BY DEF Ask, Spend
<1>2. LeftKept BY <1>1, SpendKeeps DEF IInv, LeftKept
<1>3. DOMAIN disk' = Paths /\ Kept(Watched) BY <1>1, Elsewheres, WrittenElsewhere
<1> QED BY <1>1, <1>2, <1>3, OthersElsewhere

\* A sister's answer is not wire's.
LEMMA SisterAnswersKeeps ==
  ASSUME IInv, NEW q \in Requests, SisterAnswers(q)
  PROVE  IInv'
<1>1. PICK v :
        /\ left' = [left EXCEPT !["sister"] = @ - 1] /\ Put(ResponsePath(q), v)
        /\ v.responder = "circuit" /\ UNCHANGED <<jobs, overtaken, saw>>
  <2> DEFINE answer ==
        [request |-> q, responder |-> "circuit", status |-> "accepted", reason |-> FALSE,
         gate_verdicts |-> {}, artifacts |-> {}, input_hashes |-> disk[RequestPath(q)].inputs]
  <2>1. answer.responder = "circuit" OBVIOUS
  <2> QED BY <2>1 DEF SisterAnswers, Spend
<1>2. LeftKept BY <1>1, SpendKeeps DEF IInv, LeftKept
<1>3. /\ DOMAIN disk' = Paths /\ disk'[ResponsePath(q)] = v
      /\ Kept(Watched \ Responses) /\ Kept({ResponsePath(r) : r \in Requests \ {q}})
  BY <1>1, ResponseWritten
<1>4. AnswersOK' BY <1>1, <1>3 DEF IInv, AnswersOK, Answered, Kept
<1>5. JobsOK' BY <1>1 DEF IInv, JobsOK, JobOK, ExportOK
<1>6. DOMAIN saw' = Requests /\ DOMAIN jobs' = Procs BY <1>1 DEF IInv, Shape
<1> QED BY <1>1, <1>2, <1>3, <1>4, <1>5, <1>6, ResponseKeeps

\* The log is not among what is claimed.
LEMMA DamageKeeps ==
  ASSUME IInv, Damage
  PROVE  IInv'
<1>1. left' = [left EXCEPT !["damage"] = @ - 1] /\ UNCHANGED <<disk, jobs, overtaken, saw>>
  BY DEF Damage, Spend
<1>2. LeftKept BY <1>1, SpendKeeps DEF IInv, LeftKept
<1>3. DOMAIN disk' = Paths /\ Kept(Watched) BY <1>1 DEF IInv, Shape, Kept
<1> QED BY <1>1, <1>2, <1>3, OthersElsewhere

\* What a process writes.
LEMMA WrittenIs ==
  ASSUME IInv, NEW p \in Procs, NEW path \in Written(jobs[p])
  PROVE  \/ path \in Bundle \union {"design-report.json", "sim.json", "sim-request.json"}
         \/ path = "manifest.json"
         \/ path \in Made /\ Tabling(p) /\ path = jobs[p].table
         \/ path \in Sidecars
         \/ path \in Responses
<1>1. CASE jobs[p].op = "export" /\ jobs[p].todo # <<>>
  <2>1. jobs[p].todo \in Seq(Bundle) BY <1>1 DEF IInv, JobsOK, JobOK, ExportOK
  <2>2. Head(jobs[p].todo) \in Bundle BY <1>1, <2>1, HeadTailProperties
  <2>3. path = Head(jobs[p].todo) BY <1>1 DEF Written
  <2> QED BY <2>2, <2>3
<1>2. CASE jobs[p].op = "export" /\ jobs[p].todo = <<>> BY <1>2 DEF Written
<1>3. CASE jobs[p].op = "table"
  BY <1>3 DEF Written, Tabling, IInv, JobsOK, JobOK
<1>4. CASE jobs[p].op = "envelope"
  <2>1. jobs[p].table \in Made BY <1>4 DEF IInv, JobsOK, JobOK
  <2>2. path = sidecar_path(jobs[p].table) BY <1>4 DEF Written
  <2> QED BY <2>1, <2>2 DEF Sidecars
<1>5. CASE jobs[p].op = "answer"
  <2>1. jobs[p].answer.request \in Requests BY <1>5 DEF IInv, JobsOK, JobOK
  <2>2. path = ResponsePath(jobs[p].answer.request) BY <1>5 DEF Written
  <2> QED BY <2>1, <2>2 DEF Responses
<1>6. CASE jobs[p].op \in {"brief", "simrequest", "report"} BY <1>6 DEF Written
<1>7. CASE jobs[p].op \notin {"export", "table", "envelope", "answer", "brief", "simrequest", "report"}
  BY <1>7 DEF Written
<1> QED BY <1>1, <1>2, <1>3, <1>4, <1>5, <1>6, <1>7

\* What a killed process leaves torn is what it wrote.
LEMMA TornKeeps ==
  ASSUME IInv, NEW p \in Procs, NEW path \in Written(jobs[p]), Put(path, Torn), Goto(p, Idle),
         LeftKept, UNCHANGED <<overtaken, saw>>
  PROVE  IInv'
<1>1. PICK file : file = path OBVIOUS
<1>2. \/ file \in Bundle \union {"design-report.json", "sim.json", "sim-request.json"}
      \/ file = "manifest.json"
      \/ file \in Made /\ Tabling(p) /\ file = jobs[p].table
      \/ file \in Sidecars
      \/ file \in Responses
  BY <1>1, WrittenIs
<1>3. file \in Paths /\ Watched \subseteq Paths /\ file # "contract" /\ file # "sim-response.json"
  BY <1>2, PathsDiffer DEF Bundle, Named, Made, Watched
<1>4. DOMAIN disk' = Paths /\ disk'[file] = Torn /\ \A o \in Paths : o # file => disk'[o] = disk[o]
  <2>1. Put(file, Torn) BY <1>1
  <2> QED BY <1>3, <2>1, PutElse DEF IInv
<1>5. /\ DOMAIN jobs' = Procs /\ JobsOK'
      /\ jobs'[p] = Idle /\ \A q \in Procs : q # p => jobs'[q] = jobs[q]
  BY IdleOK, JobGiven DEF IInv, Goto
<1>6. disk'["contract"] = disk["contract"] /\ disk'["sim-response.json"] = disk["sim-response.json"]
  BY <1>3, <1>4 DEF Watched
<1>7. Shape' BY <1>4, <1>5, <1>6 DEF IInv, Shape, LeftKept, Present
<1>8. BundleOK'
  <2>1. disk'["manifest.json"] \in {disk["manifest.json"], Torn} BY <1>3, <1>4 DEF Watched
  <2> QED BY <2>1 DEF IInv, BundleOK, ManifestOK
<1>9. AnswersOK'
  <2>1. \A q \in Requests : disk'[ResponsePath(q)] \in {disk[ResponsePath(q)], Torn}
    BY <1>3, <1>4 DEF Watched, Responses
  <2> QED BY <2>1 DEF IInv, AnswersOK, Answered
<1>10. SolutionOK' BY <1>6 DEF IInv, SolutionOK
<1>11. TablesOK'
  <2> SUFFICES ASSUME ~overtaken PROVE TablesOK' BY DEF TablesOK
  <2>1. Present' = Present BY <1>6 DEF Present
  <2>2. \A q \in Procs : jobs'[q].op = "table" => jobs'[q].contract = Present'
    BY <1>5, <2>1 DEF IInv, TablesOK, Idle
  <2>3. ASSUME NEW q \in Procs, jobs'[q].op = "envelope"
        PROVE  disk'[jobs'[q].table] = Projection(jobs'[q].table, Present')
    <3>1. q # p /\ jobs'[q] = jobs[q] BY <1>5, <2>3 DEF Idle
    <3>2. jobs[q].op = "envelope" /\ jobs[q].table \in Made
      BY <2>3, <3>1 DEF IInv, JobsOK, JobOK
    <3>3. file # jobs[q].table
      BY <1>2, <3>1, <3>2, PathsDiffer DEF IInv, TablesOK, Tabling, Bundle, Made, Named
    <3>4. disk'[jobs[q].table] = disk[jobs[q].table] BY <1>3, <1>4, <3>2, <3>3 DEF Watched
    <3> QED BY <2>1, <3>1, <3>2, <3>4 DEF IInv, TablesOK
  <2>4. \A q, r \in Procs : Tabling(q)' /\ Tabling(r)' /\ q # r => jobs'[q].table # jobs'[r].table
    BY <1>5 DEF IInv, TablesOK, Tabling, Idle
  <2>5. \A n \in Made : disk'[sidecar_path(n)] \in {disk[sidecar_path(n)], Torn}
    BY <1>3, <1>4 DEF Watched, Sidecars
  <2>6. \A n \in Made : SideOK(n, disk'[sidecar_path(n)])
    BY <2>5 DEF IInv, TablesOK, SideOK
  <2> QED BY <2>2, <2>3, <2>4, <2>6 DEF TablesOK
<1> QED BY <1>5, <1>7, <1>8, <1>9, <1>10, <1>11 DEF IInv

\* A killed process writes no more.
LEMMA CrashKeeps ==
  ASSUME IInv, NEW p \in Procs, Crash(p)
  PROVE  IInv'
<1>1. /\ left' = [left EXCEPT !["crash"] = @ - 1] /\ Goto(p, Idle) /\ UNCHANGED <<overtaken, saw>>
      /\ UNCHANGED disk \/ \E path \in Written(jobs[p]) : Put(path, Torn)
  BY DEF Crash, Spend
<1>2. LeftKept BY <1>1, SpendKeeps DEF IInv, LeftKept
<1>3. CASE UNCHANGED disk BY <1>1, <1>2, <1>3, IdleOK, JobOnly DEF Idle
<1>4. CASE \E path \in Written(jobs[p]) : Put(path, Torn) BY <1>1, <1>2, <1>4, TornKeeps
<1> QED BY <1>1, <1>3, <1>4

-----------------------------------------------------------------------------
(* The invariant.                                                          *)

\* At first nothing has been written.
LEMMA Initially == Init => IInv
<1> SUFFICES ASSUME Init PROVE IInv OBVIOUS
<1>1. /\ left \in Budgets /\ jobs = [p \in Procs |-> Idle] /\ saw = [q \in Requests |-> None]
      /\ DOMAIN disk = Paths /\ disk["contract"] \in left.drafts
      /\ \A path \in Watched \ {"contract"} : disk[path] = None
  <2>1. PICK d \in left.drafts, l \in Logos, e \in Envelopes : disk = AtFirst(d, l, e) BY DEF Init
  <2>2. "contract" \in Paths /\ Watched \subseteq Paths BY PathsDiffer DEF Watched, Named
  <2>3. DOMAIN disk = Paths BY <2>1 DEF AtFirst
  <2>4. disk["contract"] = d BY <2>1, <2>2, PathsDiffer DEF AtFirst, Named
  <2>5. ASSUME NEW path \in Watched \ {"contract"} PROVE disk[path] = None
    <3>1. path \notin {RequestPath(q) : q \in Requests} BY PathsDiffer DEF Watched, Named
    <3>2. path \notin {"contract", "logo", "env.json", "step", "env.json.provenance"}
      BY <2>5, PathsDiffer DEF Watched, Named, Made
    <3> QED BY <2>1, <2>2, <3>1, <3>2 DEF AtFirst
  <2> QED BY <2>3, <2>4, <2>5 DEF Init
<1>2. Shape BY <1>1, DraftsAssumption DEF Shape, DraftsAssumption, Present
<1>3. JobsOK BY <1>1, IdleOK DEF JobsOK
<1>4. disk["manifest.json"] = None /\ disk["sim-response.json"] = None BY <1>1 DEF Watched
<1>5. \A path \in Sidecars \union Responses : disk[path] = None
  BY <1>1, PathsDiffer DEF Watched, Named
<1>6. BundleOK /\ SolutionOK BY <1>4 DEF BundleOK, ManifestOK, SolutionOK
<1>7. AnswersOK BY <1>5 DEF AnswersOK, Answered, Responses
<1>8. \A p \in Procs : jobs[p].op = "idle" BY <1>1 DEF Idle
<1>9. TablesOK BY <1>5, <1>8 DEF TablesOK, SideOK, Tabling, Sidecars
<1> QED BY <1>2, <1>3, <1>6, <1>7, <1>9 DEF IInv

\* Each step keeps the invariant.
LEMMA Inductive == IInv /\ [Next]_vars => IInv'
<1> SUFFICES ASSUME IInv, [Next]_vars PROVE IInv' OBVIOUS
<1>1. CASE UNCHANGED vars
  <2>1. DOMAIN disk' = Paths /\ Kept(Watched) /\ LeftKept
    BY <1>1 DEF vars, IInv, Shape, Kept, LeftKept
  <2> QED BY <1>1, <2>1, OthersElsewhere DEF vars
<1>2. CASE Around
  BY <1>2, EditKeeps, MechExportsKeeps, SimAnswersKeeps, AskKeeps, SisterAnswersKeeps, DamageKeeps DEF Around
<1>3. ASSUME NEW p \in Procs, Wire(p) PROVE IInv'
  <2>1. CASE \E png, author \in BOOLEAN : BeginExport(p, png, author) BY <2>1, BeginExportKeeps
  <2>2. CASE WriteArtifact(p) BY <2>2, WriteArtifactKeeps
  <2>3. CASE WriteManifest(p) BY <2>3, WriteManifestKeeps
  <2>4. CASE Judge(p) BY <2>4, JudgeKeeps
  <2>5. CASE write_report(p) BY <2>5, write_reportKeeps
  <2>6. CASE cmd_continuity(p) \/ cmd_crimp(p) \/ cmd_formboard(p)
    BY <2>6, BeginTableKeeps DEF cmd_continuity, cmd_crimp, cmd_formboard, Made
  <2>7. CASE write_continuity_table(p) \/ write_crimp_table(p) \/ write_formboard(p)
    BY <2>7, WriteTableKeeps DEF write_continuity_table, write_crimp_table, write_formboard, Made
  <2>8. CASE _with_envelope(p) BY <2>8, WithEnvelopeKeeps
  <2>9. CASE BeginSimRequest(p) \/ WriteBrief(p) \/ write_sim_request(p) BY <2>9, SimRequestKeeps
  <2>10. CASE \E q \in Requests, g \in Payloads : BeginRespond(p, q, g) BY <2>10, BeginRespondKeeps
  <2>11. CASE ReadReports(p) BY <2>11, ReadReportsKeeps
  <2>12. CASE ReadLogs(p) BY <2>12, ReadLogsKeeps
  <2>13. CASE HashArtifacts(p) BY <2>13, HashArtifactsKeeps
  <2>14. CASE respond(p) BY <2>14, respondKeeps
  <2>15. CASE Crash(p) BY <2>15, CrashKeeps
  <2> QED BY <1>3, <2>1, <2>2, <2>3, <2>4, <2>5, <2>6, <2>7, <2>8, <2>9, <2>10, <2>11, <2>12,
             <2>13, <2>14, <2>15 DEF Wire
<1> QED BY <1>1, <1>2, <1>3 DEF Next

\* So it always holds.
LEMMA Always == Spec => []IInv
BY Initially, Inductive, PTL DEF Spec

-----------------------------------------------------------------------------
(* What follows.                                                           *)

\* Whatever the contracts, and whoever exports, edits or is killed when: a
\* bundle whose manifest passes is a whole bundle of the present contract.
THEOREM BundlesAreWhole == Spec => []PassingBundleIsOneContract
<1>1. IInv => PassingBundleIsOneContract
  <2> SUFFICES ASSUME IInv, Verdict(_check_manifest(Present)) = "pass"
               PROVE  LET files == disk["manifest.json"].files
                      IN /\ {"bom.json", "provenance.json"} \subseteq {f.path : f \in files}
                         /\ \A f \in files : disk[f.path] = Projection(f.path, Present)
    BY DEF PassingBundleIsOneContract
  <2> DEFINE manifest == disk["manifest.json"]
             broken == \/ manifest.contract_sha256 # Present
                       \/ \E f \in manifest.files : disk[f.path] # f.sha256
             status == IF manifest \in {None, Torn} THEN "unknown" ELSE Status(broken, FALSE)
  <2>1. Check("manifest_integrity", <<>>, status) \in _check_manifest(Present) BY DEF _check_manifest
  <2>2. \A k \in _check_manifest(Present) : k.status = "pass" BY DEF Verdict
  <2>3. status = "pass"
    <3> HIDE DEF status
    <3> QED BY <2>1, <2>2 DEF Check
  <2>4. manifest \notin {None, Torn} /\ ~broken BY <2>3 DEF Status
  <2>5. /\ \A n \in Needed : \E f \in manifest.files : f.path = n
        /\ \A f \in manifest.files : f.sha256 = Projection(f.path, manifest.contract_sha256)
    BY <2>4 DEF IInv, BundleOK, ManifestOK
  <2> QED BY <2>4, <2>5 DEF Needed
<1> QED BY <1>1, Always, PTL

\* What the inbox calls answered was answered with the bytes there are now.
THEOREM AnswersWereSeen == Spec => []AnsweredWasSeen
<1>1. IInv => AnsweredWasSeen
  <2> DEFINE states == inbox("wire", Requests, disk).states
             mine == {r \in _load_requests(Requests, disk) : disk[RequestPath(r)].target_agent = "wire"}
  <2> SUFFICES ASSUME IInv, NEW q \in DOMAIN states, states[q] = "answered",
                      NEW path \in DOMAIN saw[q].inputs \intersect DOMAIN disk[RequestPath(q)].inputs
               PROVE  disk[path] = saw[q].inputs[path]
    BY DEF AnsweredWasSeen
  <2>1. states = [r \in mine |-> _entry(r, "wire", Requests, disk)] BY DEF inbox
  <2>2. q \in Requests /\ _entry(q, "wire", Requests, disk) = "answered" BY <2>1 DEF _load_requests
  <2> DEFINE request == disk[RequestPath(q)]
             answer == disk[ResponsePath(q)]
             response == IF q \in _load_responses(Requests, disk) /\ answer.responder = "wire"
                           THEN answer ELSE None
  <2>3. _stale_inputs(request, response, disk) = {} /\ response # None
    BY <2>2 DEF _entry
  <2>4. response = answer /\ q \in _load_responses(Requests, disk) /\ answer.responder = "wire" BY <2>3
  <2>5. Answered(q) BY <2>3, <2>4 DEF Answered, _load_responses, UXResponseOK
  <2>6. saw[q].inputs = answer.input_hashes BY <2>2, <2>5 DEF IInv, AnswersOK
  <2>7. path \in DOMAIN answer.input_hashes => answer.input_hashes[path] = disk[path]
    BY <2>3, <2>4 DEF _stale_inputs
  <2> QED BY <2>6, <2>7
<1> QED BY <1>1, Always, PTL

\* A table whose sidecar passes is of the present contract, unless an edit or
\* another export of it overtook the process that wrote it.
THEOREM TablesAreCurrent == Spec => []EnvelopePassMeansProjected
<1>1. IInv => EnvelopePassMeansProjected
  <2> SUFFICES ASSUME IInv, NEW name \in Made, ~overtaken,
                      check_envelope(name, "wire", None, disk, decisions) = "pass"
               PROVE  disk[name] = Projection(name, Present)
    BY DEF EnvelopePassMeansProjected
  <2>1. PICK side : side = disk[sidecar_path(name)] OBVIOUS
  <2>2. /\ side \notin {None, Torn}
        /\ side.artifact = [name |-> name, sha256 |-> disk[name]]
        /\ \A s \in side.sources : disk[s.path] # None => disk[s.path] = s.sha256
        /\ \A s \in side.sources : disk[s.path] # None
    BY <2>1 DEF check_envelope
  <2>3. PICK c : /\ side.sources = {[path |-> "contract", sha256 |-> c]}
                 /\ side.artifact.sha256 = Projection(name, c)
    BY <2>1, <2>2 DEF IInv, TablesOK, SideOK
  <2>4. c = Present BY <2>2, <2>3 DEF Present
  <2>5. side.artifact.sha256 = disk[name] BY <2>2
  <2> QED BY <2>3, <2>4, <2>5
<1> QED BY <1>1, Always, PTL

\* Findings that amount to a pass all pass, and there are some.
LEMMA PassingFindings ==
  ASSUME NEW findings, pdn_check(findings) = "pass"
  PROVE  findings # {} /\ \A f \in findings : f.status = "pass"
<1> DEFINE statuses == {f.status : f \in findings}
<1>1. statuses = {"pass"} BY DEF pdn_check
<1> QED BY <1>1

\* A simulation answer that passes is an answer to the present contract.
THEOREM SimulationsAreCurrent == Spec => []SimPassIsCurrent
<1>1. IInv => SimPassIsCurrent
  <2> SUFFICES ASSUME IInv, Text(Present).simulation # None, pdn_check(Answer(Present)) = "pass"
               PROVE  /\ disk["sim-report.json"].brief = Projection("sim.json", Present)
                      /\ \A k \in disk["sim-report.json"].checks : k.kind = "pdn" => k.verdict = "pass"
    BY DEF SimPassIsCurrent
  <2>1. PICK c, brief, path, r, q, found, findings :
          /\ c = Text(Present) /\ brief = Projection("sim.json", Present)
          /\ path = resolve_response(c) /\ r = disk[path] /\ q = disk["sim-request.json"]
          /\ found = _report_findings(disk[r.report_path], r)
          /\ findings = Answer(Present)
    OBVIOUS
  <2>2. findings # {} /\ \A f \in findings : f.status = "pass" BY <2>1, PassingFindings
  <2>3. c.simulation # None /\ path \in {None, "sim-response.json"}
    BY <2>1, DraftsAssumption DEF DraftsAssumption, resolve_response, IInv, Shape
  <2>4. \A subject : /\ ~(findings = Finding(subject, "unknown"))
                     /\ ~(findings = Finding(subject, "fail"))
    <3>1. ASSUME NEW subject, NEW status, findings = Finding(subject, status) PROVE status = "pass"
      <4>1. [subject |-> subject, status |-> status] \in findings BY <3>1 DEF Finding
      <4> QED BY <2>2, <4>1
    <3> QED BY <3>1
  <2>5. findings = pdn_findings(c, brief, "sim-request.json", disk, None) BY <2>1 DEF Answer
  <2>6. /\ path # None /\ r # None /\ ~Stale(brief, r) /\ disk[r.report_path] = r.sha256
        /\ found \subseteq findings
    BY <2>1, <2>3, <2>4, <2>5 DEF pdn_findings
  <2>7. r = disk["sim-response.json"] BY <2>1, <2>3, <2>6
  <2>8. r.report_path = "sim-report.json" /\ r.sha256.brief = r.brief_sha256
    BY <2>6, <2>7 DEF IInv, SolutionOK
  <2>9. r.brief_sha256 = brief BY <2>6 DEF Stale, expected_request
  <2>10. \A k \in disk["sim-report.json"].checks : k.kind = "pdn" => k.verdict = "pass"
    <3> DEFINE report == disk["sim-report.json"]
               own == {k \in report.checks : k.kind = "pdn"}
    <3>1. found = _report_findings(report, r) BY <2>1, <2>8
    <3>2. \A f \in found : f.status = "pass" BY <2>2, <2>6
    <3>3. ~(found = Finding("report", "unknown")) /\ ~(found = Finding("report", "fail"))
      <4>1. \A status : [subject |-> "report", status |-> status] \in Finding("report", status)
        BY DEF Finding
      <4>2. \A status : [subject |-> "report", status |-> status].status = status OBVIOUS
      <4> QED BY <3>2, <4>1, <4>2
    <3>4. found = {[subject |-> k.id, status |-> k.verdict] : k \in own}
      BY <3>1, <3>3 DEF _report_findings
    <3>5. ASSUME NEW k \in own PROVE k.verdict = "pass"
      <4>1. [subject |-> k.id, status |-> k.verdict] \in found BY <3>4
      <4> QED BY <3>2, <4>1
    <3> QED BY <3>5
  <2> QED BY <2>1, <2>6, <2>8, <2>9, <2>10
<1> QED BY <1>1, Always, PTL
-----------------------------------------------------------------------------
(* Answers of done.  A report holds the checks of its contract, a response *)
(* what the report made of them and whether its dependencies were there;   *)
(* what is answered stays answered (EInv).                                 *)

\* The dependencies of a request have answers.
Resolved(q) == \A d \in DependsOn[q] : d \in Requests /\ disk[ResponsePath(d)] # None

\* A contract that passes its own gates, if there is one, and verdicts of all
\* gates it owes.
Rests(basis, verdicts) ==
  basis # None => /\ Verdict(OwnChecks[basis]) = "pass"
                  /\ Owed(basis) \subseteq {v.gate : v \in verdicts}

\* Verdicts that all pass are of such a contract.
Sound(basis, verdicts) == (\A v \in verdicts : v.verdict = "pass") => Rests(basis, verdicts)

\* Checks of a contract hold its own, and each gate it owes.
Complete(d, checks) ==
  /\ d \in Drafts /\ OwnChecks[d] \subseteq checks
  /\ Owed(d) \subseteq {k.gate : k \in checks}

Earned(job) ==
  /\ job.op \in {"export", "judge"} => job.contract \in Drafts
  /\ job.op = "report" => Complete(job.contract, job.checks)
  /\ job.op \in {"respond", "refs", "heads"} =>
       "unanswered" \in DOMAIN job /\ (job.unanswered = {} => Resolved(job.request))
  /\ job.op \in {"refs", "heads"} => Sound(job.basis, job.verdicts)
  /\ job.op = "answer" =>
       /\ job.answer # None
       /\ job.answer.status = "done" =>
            Rests(job.basis, job.answer.gate_verdicts) /\ Resolved(job.answer.request)

AsksOK == \A q \in Requests : \E s \in Requests :
            /\ disk[RequestPath(q)].id = s
            /\ disk[RequestPath(q)].depends_on = DependsOn[s]
ReportOK == LET report == disk["design-report.json"]
            IN report \notin {None, Torn} => Complete(report.contract_sha256, report.checks)
EarnedOK == \A p \in Procs : Earned(jobs[p])
DoneOK == \A q \in Requests : Answered(q) /\ disk[ResponsePath(q)].status = "done"
                  => Rests(saw[q].basis, disk[ResponsePath(q)].gate_verdicts) /\ Resolved(q)

EInv == AsksOK /\ ReportOK /\ EarnedOK /\ DoneOK

\* What a check may say.
Three == {"pass", "fail", "unknown"}
Said(checks) == \A k \in checks : k.status \in Three

\* So do all gates of a contract.
LEMMA GatesSay ==
  ASSUME NEW c, NEW files
  PROVE  Said(run_gates(c, files, {}))
<1> USE DEF Said, Three, Status, Check
<1>1. Said(_check_connectivity(c)) BY DEF _check_connectivity
<1>2. Said(_check_cavity_occupancy(c)) BY DEF _check_cavity_occupancy
<1>3. Said(_check_splice_integrity(c))
  <2> SUFFICES ASSUME NEW k \in _check_splice_integrity(c) PROVE k.status \in Three OBVIOUS
  <2>1. PICK s \in c.splices, status \in Three : k = Check("splice_integrity", <<s.id>>, status)
    BY DEF _check_splice_integrity
  <2> QED BY <2>1
<1>4. Said(_check_netlist_coverage(c)) BY DEF _check_netlist_coverage
<1>5. Said(_check_shielding_pairing(c)) BY DEF _check_shielding_pairing
<1>6. Said(_ampacity_details(c))
  <2>1. \A w : _ampacity(c, w) \in Three BY DEF _ampacity
  <2> QED BY <2>1 DEF _ampacity_details
<1>7. Said(_check_voltage_drop(c))
  <2>1. \A w : _voltage_drop(c, w) \in Three BY DEF _voltage_drop
  <2> QED BY <2>1 DEF _check_voltage_drop
<1>8. Said(_check_insulation_rating(c)) BY DEF _check_insulation_rating
<1>9. Said(_check_bend_radius(c))
  <2> SUFFICES ASSUME NEW k \in _check_bend_radius(c) PROVE k.status \in Three OBVIOUS
  <2>1. PICK subject, status : status \in Three /\ k = Check("bend_radius", subject, status)
    BY DEF _check_bend_radius
  <2> QED BY <2>1
<1>10. Said(_check_segregation(c)) BY DEF _check_segregation
<1>11. Said(_check_terminal_compatibility(c)) BY DEF _check_terminal_compatibility
<1>12. Said(_check_crimp_conditions(c))
  <2>1. \A f \in crimp_findings(c) : f[3] \in Three BY DEF crimp_findings
  <2> QED BY <2>1 DEF _check_crimp_conditions
<1>13. Said(_check_connector_rating(c))
  <2> SUFFICES ASSUME NEW k \in _check_connector_rating(c) PROVE k.status \in Three OBVIOUS
  <2>1. PICK subject, status : status \in Three /\ k = Check("connector_rating", subject, status)
    BY DEF _check_connector_rating
  <2> QED BY <2>1
<1>14. Said(_check_housing_compatibility(c)) BY DEF _check_housing_compatibility
<1>15. Said(_check_anchor_resolution(c)) BY DEF _check_anchor_resolution
<1>16. Said(_check_route_geometry(c)) BY DEF _check_route_geometry
<1>17. Said(_check_route_keepout(c)) BY DEF _check_route_keepout
<1>18. Said(_check_route_fit(c)) BY DEF _check_route_fit
<1>19. Said(_check_import_freshness(c, files)) BY DEF _check_import_freshness
<1>20. Said(_check_import_provenance(c, files))
  <2>1. \A artifact, pinned : check_envelope(artifact, "mech", pinned, files, None) \in Three
    BY DEF check_envelope
  <2> QED BY <2>1 DEF _check_import_provenance
<1> HIDE DEF Three, Status, Check
<1> QED BY <1>1, <1>2, <1>3, <1>4, <1>5, <1>6, <1>7, <1>8, <1>9, <1>10, <1>11, <1>12, <1>13,
           <1>14, <1>15, <1>16, <1>17, <1>18, <1>19, <1>20 DEF run_gates

\* Checks that hold a contract's own, and whose verdicts all pass, are of one
\* that passes its own gates.
LEMMA VerdictsSound ==
  ASSUME NEW report, Complete(report.contract_sha256, report.checks)
  PROVE  Sound(report.contract_sha256, _report_verdicts(report))
<1>1. PICK d \in Drafts : d = report.contract_sha256 BY DEF Complete
<1>2. SUFFICES ASSUME \A v \in _report_verdicts(report) : v.verdict = "pass"
               PROVE  /\ Verdict(OwnChecks[d]) = "pass"
                      /\ Owed(d) \subseteq {v.gate : v \in _report_verdicts(report)}
  BY <1>1 DEF Sound, Rests
<1>3. ASSUME NEW k \in OwnChecks[d] PROVE k.status = "pass"
  <2>1. k \in report.checks BY <1>1, <1>3 DEF Complete
  <2>2. k.status \in Three
    <3>1. OwnChecks[d] \subseteq run_gates(Text(d), [p \in Paths |-> None], {}) BY DEF OwnChecks
    <3> QED BY <1>3, <3>1, GatesSay DEF Said
  <2> DEFINE statuses == {l.status : l \in {m \in report.checks : m.gate = k.gate}}
             worst == IF "fail" \in statuses THEN "fail" ELSE IF "unknown" \in statuses THEN "unknown" ELSE "pass"
             verdict == [gate |-> k.gate, verdict |-> worst]
  <2>3. verdict \in _report_verdicts(report) BY <2>1 DEF _report_verdicts
  <2>4. worst = "pass"
    <3> HIDE DEF worst
    <3> QED BY <1>2, <2>3
  <2>5. "fail" \notin statuses /\ "unknown" \notin statuses
    <3> HIDE DEF statuses
    <3> QED BY <2>4
  <2>6. k.status \in statuses BY <2>1
  <2> QED BY <2>2, <2>5, <2>6 DEF Three
<1>4. Verdict(OwnChecks[d]) = "pass" BY <1>3 DEF Verdict
<1>5. ASSUME NEW g \in Owed(d) PROVE g \in {v.gate : v \in _report_verdicts(report)}
  <2>1. g \in {k.gate : k \in report.checks} BY <1>1, <1>5 DEF Complete
  <2> DEFINE worst(h) == LET statuses == {k.status : k \in {l \in report.checks : l.gate = h}}
                         IN IF "fail" \in statuses THEN "fail"
                            ELSE IF "unknown" \in statuses THEN "unknown" ELSE "pass"
  <2>2. _report_verdicts(report) = {[gate |-> h, verdict |-> worst(h)] : h \in {k.gate : k \in report.checks}}
    BY DEF _report_verdicts
  <2> HIDE DEF worst
  <2>3. [gate |-> g, verdict |-> worst(g)] \in _report_verdicts(report) BY <2>1, <2>2
  <2> QED BY <2>3
<1> QED BY <1>4, <1>5

\* The files that requests, reports and answers are in.
Asked == {RequestPath(q) : q \in Requests}
Answering == {"design-report.json"} \union Asked \union Responses

\* What is answered stays answered.
StaysAnswered == \A q \in Requests : disk[ResponsePath(q)] # None => disk'[ResponsePath(q)] # None

\* What was earned stays earned.
LEMMA EarnedStays ==
  ASSUME StaysAnswered, NEW job, Earned(job)
  PROVE  Earned(job)'
<1>1. \A q : Resolved(q) => Resolved(q)' BY DEF Resolved, StaysAnswered
<1>2. \A basis, verdicts : Rests(basis, verdicts)' = Rests(basis, verdicts) BY DEF Rests
<1>3. \A basis, verdicts : Sound(basis, verdicts)' = Sound(basis, verdicts) BY DEF Sound, Rests
<1>4. \A d, checks : Complete(d, checks)' = Complete(d, checks) BY DEF Complete
<1> QED BY <1>1, <1>2, <1>3, <1>4 DEF Earned

\* A process goes on with what it has earned.
LEMMA GoesOn ==
  ASSUME IInv, EInv, NEW p \in Procs, NEW job, Goto(p, job), Earned(job), StaysAnswered,
         AsksOK', ReportOK', DoneOK'
  PROVE  EInv'
<1>1. \A q \in Procs : jobs'[q] = IF q = p THEN job ELSE jobs[q] BY DEF IInv, Shape, Goto
<1>2. ASSUME NEW q \in Procs PROVE Earned(jobs[q])'
  <2>1. PICK next : next = jobs'[q] OBVIOUS
  <2>2. Earned(next) BY <1>1, <2>1 DEF EInv, EarnedOK
  <2>3. Earned(next)' BY <2>2, EarnedStays
  <2> QED BY <2>1, <2>3 DEF Earned
<1> QED BY <1>2 DEF EInv, EarnedOK

\* Files elsewhere, and nothing is answered.
LEMMA KeptAnswering ==
  ASSUME EInv, Kept(Answering), UNCHANGED saw
  PROVE  StaysAnswered /\ AsksOK' /\ ReportOK' /\ DoneOK'
<1>1. /\ \A q \in Requests : /\ disk'[RequestPath(q)] = disk[RequestPath(q)]
                             /\ disk'[ResponsePath(q)] = disk[ResponsePath(q)]
      /\ disk'["design-report.json"] = disk["design-report.json"]
  BY DEF Kept, Answering, Asked, Responses
<1>2. StaysAnswered BY <1>1 DEF StaysAnswered
<1>3. AsksOK' BY <1>1 DEF EInv, AsksOK
<1>4. ReportOK' BY <1>1 DEF EInv, ReportOK, Complete
<1>5. DoneOK' BY <1>1 DEF EInv, DoneOK, Answered, Rests, Resolved
<1> QED BY <1>2, <1>3, <1>4, <1>5

\* A process that writes elsewhere.
LEMMA EElsewhere ==
  ASSUME IInv, EInv, NEW p \in Procs, NEW job, Goto(p, job), Earned(job), Kept(Answering), UNCHANGED saw
  PROVE  EInv'
BY KeptAnswering, GoesOn

\* Another's step elsewhere.
LEMMA EOthers ==
  ASSUME IInv, EInv, UNCHANGED <<jobs, saw>>, StaysAnswered, AsksOK', ReportOK', DoneOK'
  PROVE  EInv'
<1>1. ASSUME NEW q \in Procs PROVE Earned(jobs[q])'
  <2>1. PICK next : next = jobs[q] OBVIOUS
  <2>2. Earned(next)' BY <2>1, EarnedStays DEF EInv, EarnedOK
  <2> QED BY <2>1, <2>2 DEF Earned
<1> QED BY <1>1 DEF EInv, EarnedOK

\* Most files are elsewhere.
LEMMA AnsweringPaths ==
  /\ Answering \subseteq Paths
  /\ ((Named \union Sidecars) \ {"design-report.json"}) \intersect Answering = {}
BY PathsDiffer DEF Answering, Asked, Named

LEMMA WrittenAway ==
  ASSUME IInv, NEW path \in (Named \union Sidecars) \ {"design-report.json"}, NEW v, Put(path, v)
  PROVE  Kept(Answering)
<1>1. path \in Paths BY PathsDiffer
<1> QED BY <1>1, PutElse, AnsweringPaths DEF IInv, Kept

\* Most jobs claim nothing.
LEMMA PlainEarned ==
  ASSUME NEW job, job.op \in {"idle", "table", "envelope", "brief", "simrequest"}
  PROVE  Earned(job)
BY DEF Earned

LEMMA IdleEarned == Earned(Idle)
BY PlainEarned DEF Idle

\* What one process is at.
LEMMA JobEarned ==
  ASSUME EInv, NEW p \in Procs PROVE Earned(jobs[p])
BY DEF EInv, EarnedOK

\* Exports: their contract is one of the drafts.
LEMMA EExport ==
  ASSUME IInv, EInv, NEW p \in Procs,
         \/ \E png, author \in BOOLEAN : BeginExport(p, png, author)
         \/ WriteArtifact(p) \/ WriteManifest(p)
  PROVE  EInv'
<1>1. ASSUME NEW png \in BOOLEAN, NEW author \in BOOLEAN, BeginExport(p, png, author) PROVE EInv'
  <2>1. PICK job : Goto(p, job) /\ job.op = "export" /\ job.contract = Present /\ UNCHANGED <<disk, saw>>
    <3> DEFINE job == [op |-> "export", contract |-> Present, author |-> author, files |-> {},
            todo |-> IF png THEN <<"bom.json", "harness-diagram.png", "provenance.json">>
                            ELSE <<"bom.json", "provenance.json">>]
    <3>1. job.op = "export" /\ job.contract = Present OBVIOUS
    <3>2. Goto(p, job) /\ UNCHANGED <<disk, saw>> BY <1>1 DEF BeginExport, Begin, Goto
    <3> HIDE DEF job
    <3> QED BY <3>1, <3>2
  <2>2. Earned(job) BY <2>1 DEF Earned, IInv, Shape
  <2>3. Kept(Answering) BY <2>1 DEF Kept
  <2> QED BY <2>1, <2>2, <2>3, EElsewhere
<1>2. CASE WriteArtifact(p)
  <2>1. PICK name, bytes, todo, files :
          /\ jobs[p].op = "export" /\ jobs[p].todo # <<>> /\ name = Head(jobs[p].todo)
          /\ Put(name, bytes) /\ Goto(p, [jobs[p] EXCEPT !.todo = todo, !.files = files]) /\ UNCHANGED saw
    BY <1>2 DEF WriteArtifact, At
  <2>2. ExportOK(jobs[p]) BY <2>1 DEF IInv, JobsOK, JobOK
  <2>3. name \in Bundle BY <2>1, <2>2, HeadTailProperties DEF ExportOK
  <2>4. PICK job : job = [jobs[p] EXCEPT !.todo = todo, !.files = files] OBVIOUS
  <2>5. job.op = "export" /\ job.contract = jobs[p].contract BY <2>1, <2>2, <2>4 DEF ExportOK
  <2>6. Earned(job) BY <2>1, <2>5, JobEarned DEF Earned
  <2>7. Kept(Answering) BY <2>1, <2>3, WrittenAway DEF Bundle, Named
  <2> QED BY <2>1, <2>4, <2>6, <2>7, EElsewhere
<1>3. CASE WriteManifest(p)
  <2> DEFINE next == IF jobs[p].author THEN [op |-> "judge", contract |-> jobs[p].contract] ELSE Idle
  <2>1. PICK manifest :
          jobs[p].op = "export" /\ Put("manifest.json", manifest) /\ Goto(p, next) /\ UNCHANGED saw
    BY <1>3 DEF WriteManifest, At
  <2>2. Earned(next)
    <3>1. Earned(jobs[p]) BY JobEarned
    <3> QED BY <2>1, <3>1, IdleEarned DEF Earned
  <2>3. Kept(Answering) BY <2>1, WrittenAway DEF Named
  <2> HIDE DEF next
  <2> QED BY <2>1, <2>2, <2>3, EElsewhere
<1> QED BY <1>1, <1>2, <1>3

\* Whatever the simulation answers, there is a finding for a contract with one.
LEMMA AnswersSay ==
  ASSUME NEW d \in Drafts, Text(d).simulation # None
  PROVE  Answer(d) # {}
<1>1. \A subject, status : Finding(subject, status) # {} BY DEF Finding
<1> QED BY <1>1 DEF Answer, pdn_findings

\* What is judged is each gate that the contract owes.
LEMMA JudgedAll ==
  ASSUME NEW d \in Drafts
  PROVE  Owed(d) \subseteq {k.gate : k \in Judged(d)}
<1> SUFFICES ASSUME NEW g \in Owed(d) PROVE \E k \in Judged(d) : k.gate = g OBVIOUS
<1>1. CASE \E k \in OwnChecks[d] : k.gate = g BY <1>1 DEF Judged
<1>2. CASE g = "manifest_integrity"
  <2>1. \E k \in _check_manifest(d) : k.gate = g BY <1>2 DEF _check_manifest, Check
  <2> QED BY <2>1 DEF Judged
<1>3. ASSUME NEW s \in Elems(Text(d).imported_sources), s.sha256 # None, g = "import_freshness"
      PROVE  \E k \in Judged(d) : k.gate = g
  <2> DEFINE status(t) == IF disk[t.ref] = None THEN "unknown" ELSE Status(disk[t.ref] # t.sha256, FALSE)
  <2>1. _check_import_freshness(Text(d), disk) =
          {Check("import_freshness", <<t.id>>, status(t)) :
             t \in {u \in Elems(Text(d).imported_sources) : u.sha256 # None}}
    BY DEF _check_import_freshness
  <2> HIDE DEF status
  <2>2. Check("import_freshness", <<s.id>>, status(s)) \in _check_import_freshness(Text(d), disk)
    BY <1>3, <2>1
  <2>3. Check("import_freshness", <<s.id>>, status(s)).gate = g BY <1>3 DEF Check
  <2> QED BY <2>2, <2>3 DEF Judged
<1>4. ASSUME NEW s \in MechSources(Text(d)), s.sha256 # None, g = "import_provenance"
      PROVE  \E k \in Judged(d) : k.gate = g
  <2> DEFINE status(t) == check_envelope(t.ref, "mech", t.sha256, disk, None)
  <2>1. _check_import_provenance(Text(d), disk) =
          {Check("import_provenance", <<t.id>>, status(t)) : t \in {u \in MechSources(Text(d)) : u.sha256 # None}}
    BY DEF _check_import_provenance
  <2> HIDE DEF status
  <2>2. Check("import_provenance", <<s.id>>, status(s)) \in _check_import_provenance(Text(d), disk)
    BY <1>4, <2>1
  <2>3. Check("import_provenance", <<s.id>>, status(s)).gate = g BY <1>4 DEF Check
  <2> QED BY <2>2, <2>3 DEF Judged
<1>5. CASE Text(d).simulation # None /\ g = "sim_pdn"
  <2>1. PICK f \in Answer(d) : TRUE BY <1>5, AnswersSay
  <2>2. Check("sim_pdn", <<f.subject>>, f.status) \in Judged(d) BY <2>1 DEF Judged
  <2>3. Check("sim_pdn", <<f.subject>>, f.status).gate = g BY <1>5 DEF Check
  <2> QED BY <2>2, <2>3
<1> QED BY <1>1, <1>2, <1>3, <1>4, <1>5 DEF Owed

\* The report holds what was judged.
LEMMA EReport ==
  ASSUME IInv, EInv, NEW p \in Procs, Judge(p) \/ write_report(p)
  PROVE  EInv'
<1>1. CASE Judge(p)
  <2> DEFINE next == [op |-> "report", contract |-> jobs[p].contract, checks |-> Judged(jobs[p].contract)]
  <2>1. jobs[p].op = "judge" /\ Goto(p, next) /\ UNCHANGED <<disk, saw>> BY <1>1 DEF Judge, At
  <2>2. jobs[p].contract \in Drafts BY <2>1, JobEarned DEF Earned
  <2>3. next.op = "report" /\ Complete(next.contract, next.checks)
    BY <2>2, JudgedAll DEF Complete, Judged
  <2> HIDE DEF next
  <2>4. Earned(next) BY <2>3 DEF Earned
  <2>5. Kept(Answering) BY <2>1 DEF Kept
  <2> QED BY <2>1, <2>4, <2>5, EElsewhere
<1>2. CASE write_report(p)
  <2> DEFINE report == build_report(jobs[p].contract, jobs[p].checks)
             built == [key \in DOMAIN report \union {"vision_points"} |->
                         IF key = "vision_points" THEN vision_points ELSE report[key]]
  <2>1. jobs[p].op = "report" /\ Put("design-report.json", built) /\ Goto(p, Idle) /\ UNCHANGED saw
    BY <1>2 DEF write_report, At
  <2>2. built.contract_sha256 = jobs[p].contract /\ built.checks = jobs[p].checks
    <3>1. PICK d, checks : d = jobs[p].contract /\ checks = jobs[p].checks OBVIOUS
    <3>2. PICK verdict, elements, sources :
            build_report(d, checks) = [contract_sha256 |-> d, verdict |-> verdict, checks |-> checks,
                                       elements |-> elements, imported_sources |-> sources]
      BY Zenon DEF build_report
    <3>3. /\ {"contract_sha256", "checks"} \subseteq DOMAIN report
          /\ report.contract_sha256 = d /\ report.checks = checks
      BY <3>1, <3>2
    <3> HIDE DEF report
    <3> QED BY <3>1, <3>3
  <2> HIDE DEF built, report
  <2>3. Complete(built.contract_sha256, built.checks) BY <2>1, <2>2, JobEarned DEF Earned
  <2>4. /\ "design-report.json" \in Paths /\ \A q \in Requests : RequestPath(q) # "design-report.json"
        /\ \A q \in Requests : ResponsePath(q) # "design-report.json"
        /\ \A q \in Requests : RequestPath(q) \in Paths /\ ResponsePath(q) \in Paths
    BY PathsDiffer DEF Named, Responses
  <2>5. /\ disk'["design-report.json"] = built
        /\ \A q \in Requests : /\ disk'[RequestPath(q)] = disk[RequestPath(q)]
                               /\ disk'[ResponsePath(q)] = disk[ResponsePath(q)]
    BY <2>1, <2>4, PutElse DEF IInv
  <2>6. StaysAnswered BY <2>5 DEF StaysAnswered
  <2>7. AsksOK' BY <2>5 DEF EInv, AsksOK
  <2>8. ReportOK' BY <2>3, <2>5 DEF ReportOK, Complete
  <2>9. DoneOK' BY <2>1, <2>5 DEF EInv, DoneOK, Answered, Rests, Resolved
  <2> QED BY <2>1, <2>6, <2>7, <2>8, <2>9, IdleEarned, GoesOn
<1> QED BY <1>1, <1>2

\* Tables and the simulation's request claim nothing.
LEMMA ETables ==
  ASSUME IInv, EInv, NEW p \in Procs,
         \/ \E name \in Made : BeginTable(p, name) \/ WriteTable(p, name)
         \/ _with_envelope(p)
         \/ BeginSimRequest(p) \/ WriteBrief(p) \/ write_sim_request(p)
  PROVE  EInv'
<1>1. ASSUME NEW name \in Made, BeginTable(p, name) PROVE EInv'
  <2>1. PICK job : Goto(p, job) /\ job.op = "table" /\ UNCHANGED <<disk, saw>>
    <3> DEFINE job == [op |-> "table", table |-> name, contract |-> Present]
    <3>1. job.op = "table" OBVIOUS
    <3>2. Goto(p, job) /\ UNCHANGED <<disk, saw>> BY <1>1 DEF BeginTable, Begin, Goto
    <3> HIDE DEF job
    <3> QED BY <3>1, <3>2
  <2> QED BY <2>1, PlainEarned, EElsewhere DEF Kept
<1>2. ASSUME NEW name \in Made, WriteTable(p, name) PROVE EInv'
  <2>1. PICK job, v : Goto(p, job) /\ job.op = "envelope" /\ Put(name, v) /\ UNCHANGED saw
    <3> DEFINE job == [op |-> "envelope", table |-> name]
    <3>1. job.op = "envelope" OBVIOUS
    <3>2. Goto(p, job) /\ Put(name, Projection(name, jobs[p].contract)) /\ UNCHANGED saw
      BY <1>2 DEF WriteTable
    <3> HIDE DEF job
    <3> QED BY <3>1, <3>2
  <2>2. Kept(Answering) BY <2>1, WrittenAway DEF Named, Made
  <2> QED BY <2>1, <2>2, PlainEarned, EElsewhere
<1>3. CASE _with_envelope(p)
  <2>1. PICK name, side :
          /\ jobs[p].op = "envelope" /\ name = jobs[p].table /\ Goto(p, Idle) /\ UNCHANGED saw
          /\ UNCHANGED disk \/ Put(sidecar_path(name), side)
    BY <1>3 DEF _with_envelope, At
  <2>2. name \in Made BY <2>1 DEF IInv, JobsOK, JobOK
  <2>3. sidecar_path(name) \in (Named \union Sidecars) \ {"design-report.json"}
    BY <2>2, PathsDiffer DEF Sidecars, Named
  <2>4. Kept(Answering)
    <3>1. CASE UNCHANGED disk BY <3>1 DEF Kept
    <3>2. CASE Put(sidecar_path(name), side) BY <2>3, <3>2, WrittenAway
    <3> QED BY <2>1, <3>1, <3>2
  <2> QED BY <2>1, <2>4, IdleEarned, EElsewhere
<1>4. CASE BeginSimRequest(p)
  <2>1. PICK job : Goto(p, job) /\ job.op = "brief" /\ UNCHANGED <<disk, saw>>
    <3> DEFINE job == [op |-> "brief", contract |-> Present]
    <3>1. job.op = "brief" OBVIOUS
    <3>2. Goto(p, job) /\ UNCHANGED <<disk, saw>> BY <1>4 DEF BeginSimRequest, Begin, Goto
    <3> HIDE DEF job
    <3> QED BY <3>1, <3>2
  <2> QED BY <2>1, PlainEarned, EElsewhere DEF Kept
<1>5. CASE WriteBrief(p)
  <2>1. PICK job, v : Goto(p, job) /\ job.op = "simrequest" /\ Put("sim.json", v) /\ UNCHANGED saw
    <3> DEFINE job == [op |-> "simrequest", contract |-> jobs[p].contract]
    <3>1. job.op = "simrequest" OBVIOUS
    <3>2. Goto(p, job) /\ Put("sim.json", Projection("sim.json", jobs[p].contract)) /\ UNCHANGED saw
      BY <1>5 DEF WriteBrief
    <3> HIDE DEF job
    <3> QED BY <3>1, <3>2
  <2>2. Kept(Answering) BY <2>1, WrittenAway DEF Named
  <2> QED BY <2>1, <2>2, PlainEarned, EElsewhere
<1>6. CASE write_sim_request(p)
  <2>1. PICK v : Goto(p, Idle) /\ Put("sim-request.json", v) /\ UNCHANGED saw
    BY <1>6 DEF write_sim_request
  <2>2. Kept(Answering) BY <2>1, WrittenAway DEF Named
  <2> QED BY <2>1, <2>2, IdleEarned, EElsewhere
<1> QED BY <1>1, <1>2, <1>3, <1>4, <1>5, <1>6

\* A response whose request's dependencies are all there has them.
LEMMA EBeginRespond ==
  ASSUME IInv, EInv, NEW p \in Procs, NEW q \in Requests, NEW given, BeginRespond(p, q, given)
  PROVE  EInv'
<1>1. PICK job :
        /\ Goto(p, job) /\ UNCHANGED <<disk, saw>>
        /\ job.op = "respond" /\ job.request = q /\ "unanswered" \in DOMAIN job
        /\ job.unanswered = Unanswered(disk[RequestPath(q)], Requests, disk)
        /\ q \in _load_requests(Requests, disk)
  <2> DEFINE request == disk[RequestPath(q)]
             job == [op |-> "respond", request |-> q, given |-> given, verdicts |-> {}, basis |-> None,
               stale |-> _stale_inputs(request, None, disk),
               unanswered |-> Unanswered(request, Requests, disk),
               hashes |-> [i \in {j \in DOMAIN request.inputs : disk[j] # None} |-> disk[i]]]
  <2>1. /\ job.op = "respond" /\ job.request = q /\ "unanswered" \in DOMAIN job
        /\ job.unanswered = Unanswered(disk[RequestPath(q)], Requests, disk)
    OBVIOUS
  <2>2. Goto(p, job) /\ UNCHANGED <<disk, saw>> /\ q \in _load_requests(Requests, disk)
    BY DEF BeginRespond, Begin, Goto
  <2> HIDE DEF job
  <2> QED BY <2>1, <2>2
<1>2. disk[RequestPath(q)].depends_on = DependsOn[q]
  <2>1. disk[RequestPath(q)].id = q BY <1>1 DEF _load_requests
  <2> QED BY <2>1 DEF EInv, AsksOK
<1>3. job.unanswered = {} => Resolved(q)
  BY <1>1, <1>2 DEF Unanswered, _load_responses, UXResponseOK, Resolved
<1>4. Earned(job) BY <1>1, <1>3 DEF Earned
<1>5. Kept(Answering) BY <1>1 DEF Kept
<1> QED BY <1>1, <1>4, <1>5, EElsewhere

\* Its verdicts are the report's, or its own without a basis.
LEMMA EReadReports ==
  ASSUME IInv, EInv, NEW p \in Procs, ReadReports(p)
  PROVE  EInv'
<1>1. PICK verdicts, basis :
        /\ jobs[p].op = "respond" /\ UNCHANGED <<disk, saw>>
        /\ Sound(basis, verdicts)
        /\ \/ Goto(p, Idle)
           \/ Goto(p, [jobs[p] EXCEPT !.op = "refs", !.verdicts = verdicts, !.basis = basis])
  <2> DEFINE report == disk["design-report.json"]
             use == jobs[p].given.report
             next(verdicts, basis) == [jobs[p] EXCEPT !.op = "refs", !.verdicts = verdicts, !.basis = basis]
  <2>1. /\ jobs[p].op = "respond" /\ UNCHANGED <<disk, saw>>
        /\ Goto(p, IF use /\ report \in {None, Torn} THEN Idle
                     ELSE next(IF use THEN _report_verdicts(report) ELSE Own,
                               IF use THEN report.contract_sha256 ELSE None))
    BY DEF ReadReports, At
  <2>2. Sound(None, Own) BY DEF Sound, Rests
  <2>3. CASE use /\ report \in {None, Torn}
    <3> HIDE DEF next
    <3>1. Goto(p, Idle) BY <2>1, <2>3
    <3> QED BY <2>1, <2>2, <3>1
  <2>4. CASE use /\ report \notin {None, Torn}
    <3>1. Sound(report.contract_sha256, _report_verdicts(report))
      BY <2>4, VerdictsSound DEF EInv, ReportOK
    <3>2. Goto(p, next(_report_verdicts(report), report.contract_sha256))
      <4> HIDE DEF next
      <4> QED BY <2>1, <2>4
    <3> HIDE DEF report
    <3> QED BY <2>1, <3>1, <3>2
  <2>5. CASE ~use
    <3>1. Goto(p, next(Own, None))
      <4> HIDE DEF next
      <4> QED BY <2>1, <2>5
    <3> QED BY <2>1, <2>2, <3>1
  <2> HIDE DEF next, use, report
  <2> QED BY <2>3, <2>4, <2>5
<1>2. PICK job : job = [jobs[p] EXCEPT !.op = "refs", !.verdicts = verdicts, !.basis = basis] OBVIOUS
<1>3. {"op", "request", "verdicts", "basis"} \subseteq DOMAIN jobs[p]
  BY <1>1 DEF IInv, JobsOK, JobOK
<1>4. Earned(jobs[p]) BY JobEarned
<1>5. "unanswered" \in DOMAIN jobs[p] /\ (jobs[p].unanswered = {} => Resolved(jobs[p].request))
  BY <1>1, <1>4 DEF Earned
<1>6. /\ job.op = "refs" /\ job.verdicts = verdicts /\ job.basis = basis
      /\ job.request = jobs[p].request /\ job.unanswered = jobs[p].unanswered
      /\ "unanswered" \in DOMAIN job
  BY <1>2, <1>3, <1>5
<1>7. Earned(job) BY <1>1, <1>5, <1>6 DEF Earned
<1>8. Kept(Answering) BY <1>1 DEF Kept
<1>9. CASE Goto(p, Idle) BY <1>1, <1>8, <1>9, IdleEarned, EElsewhere
<1>10. CASE Goto(p, job) BY <1>1, <1>7, <1>8, <1>10, EElsewhere
<1> QED BY <1>1, <1>2, <1>9, <1>10

\* Looking references up changes neither.
LEMMA EReadLogs ==
  ASSUME IInv, EInv, NEW p \in Procs, ReadLogs(p)
  PROVE  EInv'
<1>1. PICK job : job = [jobs[p] EXCEPT !.op = "heads"] OBVIOUS
<1>2. /\ jobs[p].op = "refs" /\ UNCHANGED <<disk, saw>>
      /\ Goto(p, Idle) \/ Goto(p, job)
  BY <1>1 DEF ReadLogs, At
<1>3. {"op", "request", "verdicts", "basis"} \subseteq DOMAIN jobs[p]
  BY <1>2 DEF IInv, JobsOK, JobOK
<1>4. Earned(jobs[p]) BY JobEarned
<1>5. /\ "unanswered" \in DOMAIN jobs[p] /\ (jobs[p].unanswered = {} => Resolved(jobs[p].request))
      /\ Sound(jobs[p].basis, jobs[p].verdicts)
  BY <1>2, <1>4 DEF Earned
<1>6. /\ job.op = "heads" /\ job.verdicts = jobs[p].verdicts /\ job.basis = jobs[p].basis
      /\ job.request = jobs[p].request /\ job.unanswered = jobs[p].unanswered
      /\ "unanswered" \in DOMAIN job
  BY <1>1, <1>3, <1>5
<1>7. Earned(job) BY <1>5, <1>6 DEF Earned
<1>8. Kept(Answering) BY <1>2 DEF Kept
<1>9. CASE Goto(p, Idle) BY <1>2, <1>8, <1>9, IdleEarned, EElsewhere
<1>10. CASE Goto(p, job) BY <1>2, <1>7, <1>8, <1>10, EElsewhere
<1> QED BY <1>2, <1>9, <1>10

\* done is refused unless the verdicts pass and the dependencies were there.
LEMMA EHashArtifacts ==
  ASSUME IInv, EInv, NEW p \in Procs, HashArtifacts(p)
  PROVE  EInv'
<1>1. PICK answer :
        /\ jobs[p].op = "heads" /\ UNCHANGED <<disk, saw>>
        /\ answer.request = jobs[p].request /\ answer.gate_verdicts = jobs[p].verdicts
        /\ \/ Goto(p, Idle)
           \/ /\ Goto(p, [op |-> "answer", answer |-> answer, basis |-> jobs[p].basis])
              /\ UXResponseOK(answer)
              /\ answer.status = "done" => jobs[p].unanswered = {}
  <2> DEFINE job == jobs[p]
             given == job.given
             answer == [request |-> job.request, responder |-> "wire", status |-> given.status,
                        reason |-> TRUE, input_hashes |-> job.hashes, gate_verdicts |-> job.verdicts,
                        artifacts |-> {Pin(a, disk) : a \in given.artifacts}]
             broken == IF decisions.broken THEN {"decision"} ELSE {}
             refused == \/ ~UXResponseOK(answer)
                        \/ \E a \in given.artifacts : disk[a] = None
                        \/ /\ given.status = "done"
                           /\ DoneRefused(job.stale, job.unanswered, job.verdicts, given.artifacts,
                                          given.refs, broken)
  <2>1. /\ answer.request = job.request /\ answer.gate_verdicts = job.verdicts
        /\ answer.status = given.status
    OBVIOUS
  <2>2. /\ jobs[p].op = "heads" /\ UNCHANGED <<disk, saw>>
        /\ Goto(p, IF refused THEN Idle ELSE [op |-> "answer", answer |-> answer, basis |-> job.basis])
    BY DEF HashArtifacts, At
  <2>3. ~refused => UXResponseOK(answer) /\ (given.status = "done" => job.unanswered = {})
    BY DEF DoneRefused
  <2> HIDE DEF answer, refused
  <2>4. CASE refused BY <2>1, <2>2, <2>4
  <2>5. CASE ~refused BY <2>1, <2>2, <2>3, <2>5
  <2> QED BY <2>4, <2>5
<1> DEFINE job == [op |-> "answer", answer |-> answer, basis |-> jobs[p].basis]
<1>2. job.op = "answer" /\ job.answer = answer /\ job.basis = jobs[p].basis OBVIOUS
<1> HIDE DEF job
<1>3. Kept(Answering) BY <1>1 DEF Kept
<1>4. CASE Goto(p, Idle) BY <1>1, <1>3, <1>4, IdleEarned, EElsewhere
<1>5. CASE Goto(p, job) /\ UXResponseOK(answer) /\ (answer.status = "done" => jobs[p].unanswered = {})
  <2>1. Earned(jobs[p]) BY JobEarned
  <2>2. /\ jobs[p].unanswered = {} => Resolved(jobs[p].request)
        /\ Sound(jobs[p].basis, jobs[p].verdicts)
    BY <1>1, <2>1 DEF Earned
  <2>3. answer # None /\ (answer.status = "done" => \A v \in answer.gate_verdicts : v.verdict = "pass")
    BY <1>5 DEF UXResponseOK
  <2>4. answer.status = "done" => Rests(jobs[p].basis, answer.gate_verdicts)
    BY <1>1, <2>2, <2>3 DEF Sound
  <2>5. answer.status = "done" => Resolved(answer.request) BY <1>1, <1>5, <2>2
  <2>6. Earned(job) BY <1>2, <2>3, <2>4, <2>5 DEF Earned
  <2> QED BY <1>1, <1>3, <1>5, <2>6, EElsewhere
<1> QED BY <1>1, <1>4, <1>5 DEF job

\* One answer is written, or left torn: the others and the requests stay.
LEMMA AnswerWritten ==
  ASSUME IInv, EInv, NEW q \in Requests, NEW v, v # None, Put(ResponsePath(q), v)
  PROVE  /\ disk'[ResponsePath(q)] = v
         /\ \A r \in Requests : r # q => disk'[ResponsePath(r)] = disk[ResponsePath(r)]
         /\ StaysAnswered /\ AsksOK' /\ ReportOK'
<1>1. /\ DOMAIN disk' = Paths /\ disk'[ResponsePath(q)] = v
      /\ Kept({ResponsePath(r) : r \in Requests \ {q}})
  BY ResponseWritten
<1>2. \A r \in Requests : r # q => disk'[ResponsePath(r)] = disk[ResponsePath(r)] BY <1>1 DEF Kept
<1>3. /\ ResponsePath(q) \in Paths /\ "design-report.json" \in Paths
      /\ ResponsePath(q) # "design-report.json"
      /\ \A r \in Requests : RequestPath(r) \in Paths /\ RequestPath(r) # ResponsePath(q)
  BY PathsDiffer DEF Responses, Named
<1>4. /\ \A r \in Requests : disk'[RequestPath(r)] = disk[RequestPath(r)]
      /\ disk'["design-report.json"] = disk["design-report.json"]
  BY <1>3, PutElse DEF IInv
<1>5. StaysAnswered BY <1>1, <1>2 DEF StaysAnswered
<1>6. AsksOK' BY <1>4 DEF EInv, AsksOK
<1>7. ReportOK' BY <1>4 DEF EInv, ReportOK, Complete
<1> QED BY <1>1, <1>2, <1>5, <1>6, <1>7

\* An answer of done is what was earned.
LEMMA Erespond ==
  ASSUME IInv, EInv, NEW p \in Procs, respond(p)
  PROVE  EInv'
<1>1. PICK answer, q, seen :
        /\ jobs[p].op = "answer" /\ answer = jobs[p].answer /\ q = answer.request
        /\ seen.basis = jobs[p].basis
        /\ Put(ResponsePath(q), answer) /\ saw' = [saw EXCEPT ![q] = seen]
        /\ Goto(p, Idle)
  <2> DEFINE given == [basis |-> jobs[p].basis, inputs |-> jobs[p].answer.input_hashes]
  <2>1. given.basis = jobs[p].basis OBVIOUS
  <2> QED BY <2>1 DEF respond, At
<1>2. q \in Requests BY <1>1 DEF IInv, JobsOK, JobOK
<1>3. Earned(jobs[p]) BY JobEarned
<1>4. answer # None /\ (answer.status = "done" => Rests(jobs[p].basis, answer.gate_verdicts) /\ Resolved(q))
  BY <1>1, <1>3 DEF Earned
<1>5. /\ disk'[ResponsePath(q)] = answer
      /\ \A r \in Requests : r # q => disk'[ResponsePath(r)] = disk[ResponsePath(r)]
      /\ StaysAnswered /\ AsksOK' /\ ReportOK'
  BY <1>1, <1>2, <1>4, AnswerWritten
<1>6. saw'[q] = seen /\ \A r \in Requests : r # q => saw'[r] = saw[r]
  BY <1>1, <1>2 DEF IInv, Shape
<1>7. ASSUME NEW r \in Requests, Answered(r)', disk'[ResponsePath(r)].status = "done"
      PROVE  Rests(saw[r].basis, disk[ResponsePath(r)].gate_verdicts)' /\ Resolved(r)'
  <2>1. Rests(saw'[r].basis, disk'[ResponsePath(r)].gate_verdicts) /\ Resolved(r)
    <3>1. CASE r = q BY <1>1, <1>4, <1>5, <1>6, <1>7, <3>1
    <3>2. CASE r # q
      <4>1. /\ Answered(r) /\ disk[ResponsePath(r)].status = "done" /\ saw'[r] = saw[r]
            /\ disk'[ResponsePath(r)] = disk[ResponsePath(r)]
        BY <1>5, <1>6, <1>7, <3>2 DEF Answered
      <4> QED BY <4>1 DEF EInv, DoneOK
    <3> QED BY <3>1, <3>2
  <2>2. Resolved(r)' BY <1>5, <2>1 DEF Resolved, StaysAnswered
  <2>3. Rests(saw[r].basis, disk[ResponsePath(r)].gate_verdicts)' BY <2>1 DEF Rests
  <2> QED BY <2>2, <2>3
<1>8. DoneOK' BY <1>7 DEF DoneOK
<1> QED BY <1>1, <1>5, <1>8, IdleEarned, GoesOn

\* What is left torn is no report and no answer.
LEMMA ECrash ==
  ASSUME IInv, EInv, NEW p \in Procs, Crash(p)
  PROVE  EInv'
<1>1. /\ Goto(p, Idle) /\ UNCHANGED saw
      /\ UNCHANGED disk \/ \E path \in Written(jobs[p]) : Put(path, Torn)
  BY DEF Crash
<1>2. CASE UNCHANGED disk BY <1>1, <1>2, IdleEarned, EElsewhere DEF Kept
<1>3. ASSUME NEW path \in Written(jobs[p]), Put(path, Torn) PROVE EInv'
  <2>1. path \in Named \union Sidecars \union Responses
    BY WrittenIs DEF Bundle, Named
  <2>2. CASE path \in Responses
    <3>1. PICK q \in Requests : path = ResponsePath(q) BY <2>2 DEF Responses
    <3>2. /\ disk'[ResponsePath(q)] = Torn
          /\ \A r \in Requests : r # q => disk'[ResponsePath(r)] = disk[ResponsePath(r)]
          /\ StaysAnswered /\ AsksOK' /\ ReportOK'
      BY <1>3, <3>1, TornAssumption, AnswerWritten DEF TornAssumption
    <3>3. ASSUME NEW r \in Requests, Answered(r)', disk'[ResponsePath(r)].status = "done"
          PROVE  Rests(saw[r].basis, disk[ResponsePath(r)].gate_verdicts)' /\ Resolved(r)'
      <4>1. r # q BY <3>2, <3>3 DEF Answered
      <4>2. /\ Answered(r) /\ disk[ResponsePath(r)].status = "done"
            /\ disk'[ResponsePath(r)] = disk[ResponsePath(r)]
        BY <3>2, <3>3, <4>1 DEF Answered
      <4>3. Rests(saw[r].basis, disk[ResponsePath(r)].gate_verdicts) /\ Resolved(r) BY <4>2 DEF EInv, DoneOK
      <4> QED BY <1>1, <3>2, <4>2, <4>3 DEF Rests, Resolved, StaysAnswered
    <3>4. DoneOK' BY <3>3 DEF DoneOK
    <3> QED BY <1>1, <3>2, <3>4, IdleEarned, GoesOn
  <2>3. CASE path = "design-report.json"
    <3>1. /\ "design-report.json" \in Paths
          /\ \A q \in Requests : /\ RequestPath(q) \in Paths \ {"design-report.json"}
                                 /\ ResponsePath(q) \in Paths \ {"design-report.json"}
      BY PathsDiffer DEF Named, Responses
    <3>2. /\ disk'["design-report.json"] = Torn
          /\ \A q \in Requests : /\ disk'[RequestPath(q)] = disk[RequestPath(q)]
                                 /\ disk'[ResponsePath(q)] = disk[ResponsePath(q)]
      BY <1>3, <2>3, <3>1, PutElse DEF IInv
    <3>3. StaysAnswered BY <3>2 DEF StaysAnswered
    <3>4. AsksOK' BY <3>2 DEF EInv, AsksOK
    <3>5. ReportOK' BY <3>2 DEF ReportOK
    <3>6. DoneOK' BY <1>1, <3>2 DEF EInv, DoneOK, Answered, Rests, Resolved
    <3> QED BY <1>1, <3>3, <3>4, <3>5, <3>6, IdleEarned, GoesOn
  <2>4. CASE path \in (Named \union Sidecars) \ {"design-report.json"}
    <3>1. Kept(Answering) BY <1>3, <2>4, WrittenAway
    <3> QED BY <1>1, <3>1, IdleEarned, EElsewhere
  <2> QED BY <2>1, <2>2, <2>3, <2>4
<1> QED BY <1>1, <1>2, <1>3

\* The world around asks anew and answers, but takes no answer back.
LEMMA EAround ==
  ASSUME IInv, EInv, Around
  PROVE  EInv'
<1>1. ASSUME NEW d \in left.drafts, Edit(d) PROVE EInv'
  <2>1. Put("contract", d) /\ UNCHANGED <<jobs, saw>> BY <1>1 DEF Edit
  <2>2. Kept(Answering) BY <2>1, WrittenAway DEF Named
  <2> QED BY <2>1, <2>2, KeptAnswering, EOthers
<1>2. ASSUME NEW e \in Envelopes, MechExports(e) PROVE EInv'
  <2>1. PICK side : /\ UNCHANGED <<jobs, saw>>
                    /\ disk' = [disk EXCEPT !["env.json"] = e, !["step"] = e, !["env.json.provenance"] = side]
    BY <1>2 DEF MechExports
  <2>2. {"env.json", "step", "env.json.provenance"} \intersect Answering = {}
    BY AnsweringPaths DEF Named
  <2>3. Kept(Answering) BY <2>1, <2>2, AnsweringPaths DEF Kept, IInv, Shape
  <2> QED BY <2>1, <2>3, KeptAnswering, EOthers
<1>3. ASSUME NEW s \in SimReports, SimAnswers(s) PROVE EInv'
  <2>1. PICK report, response, side :
          /\ UNCHANGED <<jobs, saw>>
          /\ disk' = [disk EXCEPT !["sim-report.json"] = report, !["sim-response.json"] = response,
                                  !["sim-response.json.provenance"] = side]
    BY <1>3 DEF SimAnswers
  <2>2. {"sim-report.json", "sim-response.json", "sim-response.json.provenance"} \intersect Answering = {}
    BY AnsweringPaths DEF Named
  <2>3. Kept(Answering) BY <2>1, <2>2, AnsweringPaths DEF Kept, IInv, Shape
  <2> QED BY <2>1, <2>3, KeptAnswering, EOthers
<1>4. ASSUME NEW q \in Requests, Ask(q) PROVE EInv'
  <2>1. PICK request : /\ Put(RequestPath(q), request) /\ UNCHANGED <<jobs, saw>>
                       /\ request.id = q /\ request.depends_on = DependsOn[q]
    <3> DEFINE request == Request(q, disk[RequestPath(q)].target_agent, Present)
    <3>1. request.id = q /\ request.depends_on = DependsOn[q] BY DEF Request
    <3>2. Put(RequestPath(q), request) /\ UNCHANGED <<jobs, saw>> BY <1>4 DEF Ask
    <3> HIDE DEF request
    <3> QED BY <3>1, <3>2
  <2>2. /\ RequestPath(q) \in Paths /\ RequestPath(q) # "design-report.json"
        /\ \A r \in Requests : ResponsePath(r) # RequestPath(q)
        /\ \A r \in Requests : RequestPath(r) \in Paths /\ ResponsePath(r) \in Paths
        /\ "design-report.json" \in Paths
    BY PathsDiffer DEF Named, Responses
  <2>3. /\ disk'[RequestPath(q)] = request /\ disk'["design-report.json"] = disk["design-report.json"]
        /\ \A r \in Requests : /\ disk'[RequestPath(r)] \in {request, disk[RequestPath(r)]}
                               /\ disk'[ResponsePath(r)] = disk[ResponsePath(r)]
    BY <2>1, <2>2, PutElse DEF IInv
  <2>4. StaysAnswered BY <2>3 DEF StaysAnswered
  <2>5. AsksOK' BY <2>1, <2>3 DEF EInv, AsksOK
  <2>6. ReportOK' BY <2>3 DEF EInv, ReportOK, Complete
  <2>7. DoneOK' BY <2>1, <2>3 DEF EInv, DoneOK, Answered, Rests, Resolved
  <2> QED BY <2>1, <2>4, <2>5, <2>6, <2>7, EOthers
<1>5. ASSUME NEW q \in Requests, SisterAnswers(q) PROVE EInv'
  <2>1. PICK answer : /\ Put(ResponsePath(q), answer) /\ UNCHANGED <<jobs, saw>>
                      /\ answer # None /\ answer.status = "accepted"
    <3> DEFINE answer == [request |-> q, responder |-> "circuit", status |-> "accepted",
                          reason |-> FALSE, gate_verdicts |-> {}, artifacts |-> {},
                          input_hashes |-> disk[RequestPath(q)].inputs]
    <3>1. answer.status = "accepted" OBVIOUS
    <3>2. Put(ResponsePath(q), answer) /\ UNCHANGED <<jobs, saw>> /\ answer # None
      BY <1>5 DEF SisterAnswers, UXResponseOK
    <3> HIDE DEF answer
    <3> QED BY <3>1, <3>2
  <2>2. /\ disk'[ResponsePath(q)] = answer
        /\ \A r \in Requests : r # q => disk'[ResponsePath(r)] = disk[ResponsePath(r)]
        /\ StaysAnswered /\ AsksOK' /\ ReportOK'
    BY <2>1, AnswerWritten
  <2>3. ASSUME NEW r \in Requests, Answered(r)', disk'[ResponsePath(r)].status = "done"
        PROVE  Rests(saw[r].basis, disk[ResponsePath(r)].gate_verdicts)' /\ Resolved(r)'
    <3>1. r # q BY <2>1, <2>2, <2>3
    <3>2. /\ Answered(r) /\ disk[ResponsePath(r)].status = "done"
          /\ disk'[ResponsePath(r)] = disk[ResponsePath(r)]
      BY <2>2, <2>3, <3>1 DEF Answered
    <3>3. Rests(saw[r].basis, disk[ResponsePath(r)].gate_verdicts) /\ Resolved(r) BY <3>2 DEF EInv, DoneOK
    <3> QED BY <2>1, <2>2, <3>2, <3>3 DEF Rests, Resolved, StaysAnswered
  <2>4. DoneOK' BY <2>3 DEF DoneOK
  <2> QED BY <2>1, <2>2, <2>4, EOthers
<1>6. CASE Damage
  BY <1>6, KeptAnswering, EOthers DEF Damage, Kept
<1> QED BY <1>1, <1>2, <1>3, <1>4, <1>5, <1>6 DEF Around

\* At first there are requests, and neither report nor answers.
LEMMA EInitially == Init => EInv
<1> SUFFICES ASSUME Init PROVE EInv OBVIOUS
<1>1. PICK d \in left.drafts, l \in Logos, e \in Envelopes : disk = AtFirst(d, l, e) BY DEF Init
<1>2. disk["design-report.json"] = None
  <2>1. "design-report.json" \in Paths /\ \A q \in Requests : RequestPath(q) # "design-report.json"
    BY PathsDiffer DEF Named
  <2> QED BY <1>1, <2>1 DEF AtFirst
<1>3. ASSUME NEW q \in Requests PROVE disk[ResponsePath(q)] = None
  <2>1. /\ ResponsePath(q) \in Paths /\ ResponsePath(q) \notin Named
        /\ \A r \in Requests : RequestPath(r) # ResponsePath(q)
    BY PathsDiffer DEF Responses
  <2> QED BY <1>1, <2>1 DEF AtFirst, Named
<1>4. ASSUME NEW q \in Requests
      PROVE  \E s \in Requests : /\ disk[RequestPath(q)].id = s
                                 /\ disk[RequestPath(q)].depends_on = DependsOn[s]
  <2>1. RequestPath(q) \in Paths /\ RequestPath(q) \notin Named BY PathsDiffer
  <2>2. disk[RequestPath(q)] = RequestAt(RequestPath(q), d) BY <1>1, <2>1 DEF AtFirst, Named
  <2>3. PICK s \in Requests : RequestAt(RequestPath(q), d) = Request(s, Target[s], d) BY DEF RequestAt
  <2> QED BY <2>2, <2>3 DEF Request
<1>5. \A p \in Procs : Earned(jobs[p]) BY IdleEarned DEF Init
<1>6. AsksOK /\ ReportOK /\ DoneOK BY <1>2, <1>3, <1>4 DEF AsksOK, ReportOK, DoneOK, Answered
<1> QED BY <1>5, <1>6 DEF EInv, EarnedOK

\* Each step keeps what was earned.
LEMMA EInductive == IInv /\ EInv /\ [Next]_vars => EInv'
<1> SUFFICES ASSUME IInv, EInv, [Next]_vars PROVE EInv' OBVIOUS
<1>1. CASE UNCHANGED vars BY <1>1, KeptAnswering, EOthers DEF vars, Kept
<1>2. CASE Around BY <1>2, EAround
<1>3. ASSUME NEW p \in Procs, Wire(p) PROVE EInv'
  <2>1. CASE \E png, author \in BOOLEAN : BeginExport(p, png, author) BY <2>1, EExport
  <2>2. CASE WriteArtifact(p) \/ WriteManifest(p) BY <2>2, EExport
  <2>3. CASE Judge(p) \/ write_report(p) BY <2>3, EReport
  <2>4. CASE cmd_continuity(p) \/ cmd_crimp(p) \/ cmd_formboard(p)
    BY <2>4, ETables DEF cmd_continuity, cmd_crimp, cmd_formboard, Made
  <2>5. CASE write_continuity_table(p) \/ write_crimp_table(p) \/ write_formboard(p)
    BY <2>5, ETables DEF write_continuity_table, write_crimp_table, write_formboard, Made
  <2>6. CASE _with_envelope(p) BY <2>6, ETables
  <2>7. CASE BeginSimRequest(p) \/ WriteBrief(p) \/ write_sim_request(p) BY <2>7, ETables
  <2>8. CASE \E q \in Requests, g \in Payloads : BeginRespond(p, q, g) BY <2>8, EBeginRespond
  <2>9. CASE ReadReports(p) BY <2>9, EReadReports
  <2>10. CASE ReadLogs(p) BY <2>10, EReadLogs
  <2>11. CASE HashArtifacts(p) BY <2>11, EHashArtifacts
  <2>12. CASE respond(p) BY <2>12, Erespond
  <2>13. CASE Crash(p) BY <2>13, ECrash
  <2> QED BY <1>3, <2>1, <2>2, <2>3, <2>4, <2>5, <2>6, <2>7, <2>8, <2>9, <2>10, <2>11, <2>12, <2>13 DEF Wire
<1> QED BY <1>1, <1>2, <1>3 DEF Next

\* Whatever the contracts, payloads and requests: wire's answer of done, when
\* it was given with a report, passes every gate that the report's contract
\* owes, which passes its own gates now as then, and it follows the answers to
\* all that the request depends on.  An answer without a report carries what
\* its author says (respond, _report_verdicts, _load_responses).
THEOREM DonesAreEarned == Spec => []DoneIsEarned
<1>1. Spec => []EInv
  <2>1. Spec => []IInv BY Always
  <2> QED BY <2>1, EInitially, EInductive, PTL DEF Spec
<1>2. EInv => DoneIsEarned
  <2> SUFFICES ASSUME EInv, NEW q \in _load_responses(Requests, disk),
                      disk[ResponsePath(q)].responder = "wire", disk[ResponsePath(q)].status = "done"
               PROVE  /\ saw[q].basis # None =>
                           /\ Verdict(OwnChecks[saw[q].basis]) = "pass"
                           /\ \A g \in Owed(saw[q].basis) :
                                \E v \in disk[ResponsePath(q)].gate_verdicts : v.gate = g /\ v.verdict = "pass"
                      /\ \A d \in DependsOn[q] : disk[ResponsePath(d)] # None
    BY DEF DoneIsEarned
  <2>1. /\ q \in Requests /\ Answered(q)
        /\ \A v \in disk[ResponsePath(q)].gate_verdicts : v.verdict = "pass"
    BY DEF _load_responses, UXResponseOK, Answered
  <2>2. Rests(saw[q].basis, disk[ResponsePath(q)].gate_verdicts) /\ Resolved(q) BY <2>1 DEF EInv, DoneOK
  <2> QED BY <2>1, <2>2 DEF Rests, Resolved
<1> QED BY <1>1, <1>2, PTL

=============================================================================
