--------------------------- MODULE Sisters_proofs ----------------------------
(***************************************************************************)
(* Proofs about Sisters, for any plugins, recorders, requests and damage.  *)
(* What a recorder checked may be out of date when it appends.  But a log  *)
(* only grows until it is moved aside, every record has its own place for  *)
(* an event id, and times only go up: what was true of the logs when a     *)
(* request was checked can be read from them later, as what they hold up   *)
(* to that time or what was moved aside.                                   *)
(***************************************************************************)
EXTENDS Sisters, SequenceTheorems, FiniteSetTheorems, TLAPS

(* Sequences and records.                                                  *)

\* A sequence, whatever it holds.
IsSeq(s) == s \in Seq({s[i] : i \in DOMAIN s})

LEMMA SeqDomain ==
  ASSUME NEW s, IsSeq(s)
  PROVE  Len(s) \in Nat /\ DOMAIN s = 1..Len(s)
BY LenProperties DEF IsSeq

LEMMA SeqAppend ==
  ASSUME NEW s, IsSeq(s), NEW r, NEW t, t = Append(s, r)
  PROVE  /\ IsSeq(t) /\ Len(t) = Len(s) + 1 /\ DOMAIN t = 1..(Len(s) + 1)
         /\ t[Len(s) + 1] = r /\ \A i \in DOMAIN s : t[i] = s[i]
<1> DEFINE S == {s[i] : i \in DOMAIN s} \union {r}
<1>1. Len(s) \in Nat /\ DOMAIN s = 1..Len(s) BY SeqDomain
<1>2. s \in Seq(S)
  <2>1. s \in [1..Len(s) -> S] BY <1>1 DEF IsSeq
  <2> QED BY <1>1, <2>1, SeqDef
<1>3. /\ t \in Seq(S) /\ Len(t) = Len(s) + 1 /\ t[Len(s) + 1] = r
      /\ \A i \in 1..Len(s) : t[i] = s[i]
  BY <1>2, AppendProperties
<1>4. DOMAIN t = 1..(Len(s) + 1) BY <1>3, LenProperties
<1>5. t = [i \in DOMAIN t |-> t[i]] BY <1>3, <1>4, LenProperties
<1>6. t \in [1..(Len(s) + 1) -> {t[i] : i \in DOMAIN t}] BY <1>4, <1>5
<1>7. Len(s) + 1 \in Nat BY <1>1
<1>8. t \in UNION {[1..n -> {t[i] : i \in DOMAIN t}] : n \in Nat} BY <1>6, <1>7
<1>9. IsSeq(t) BY <1>8, SeqDef DEF IsSeq
<1> QED BY <1>1, <1>3, <1>4, <1>9

LEMMA SeqExtends ==
  ASSUME NEW s, NEW r, NEW t, IsSeq(s) /\ t = Append(s, r)
  PROVE  IsSeq(t) /\ DOMAIN s \subseteq DOMAIN t /\ \A i \in DOMAIN s : t[i] = s[i]
<1>1. Len(s) \in Nat /\ DOMAIN s = 1..Len(s) BY SeqDomain
<1>2. DOMAIN t = 1..(Len(s) + 1) BY SeqAppend
<1>3. \A i \in DOMAIN s : t[i] = s[i] BY SeqAppend
<1>4. IsSeq(t) BY SeqAppend
<1> QED BY <1>1, <1>2, <1>3, <1>4

\* What a record takes from its envelope, and what from its body.
LEMMA WithFields ==
  ASSUME NEW first, NEW second
  PROVE  /\ DOMAIN With(first, second) = DOMAIN first \union DOMAIN second
         /\ \A f \in DOMAIN first : With(first, second)[f] = first[f]
         /\ \A f \in DOMAIN second : f \notin DOMAIN first => With(first, second)[f] = second[f]
BY DEF With

-----------------------------------------------------------------------------
(* What is read of an import, and what a session is told of it.            *)

\* What fits is all of the lines or fills the room.
LEMMA FitsFill ==
  ASSUME NEW all, NEW room \in Nat, NEW some \in Fits(all, room)
  PROVE  /\ Cardinality(some) \in Nat /\ Cardinality(some) <= room
         /\ some = all \/ Cardinality(some) = room
<1>1. CASE IsFiniteSet(all) /\ Cardinality(all) <= room
  <2>1. some = all BY <1>1 DEF Fits
  <2> QED BY <1>1, <2>1, FS_CardinalityType
<1>2. CASE ~(IsFiniteSet(all) /\ Cardinality(all) <= room)
  BY <1>2 DEF Fits
<1> QED BY <1>1, <1>2

\* An unanswered import is among the reads of the digest.
LEMMA ReadIsUnread ==
  ASSUME NEW log, NEW ref \in ReadProblems(log)
  PROVE  \E u \in Unread(log) : u.ref = ref
<1>1. PICK read \in In(log["upstream_read"]) :
        ref \in read.refs /\ ~acknowledged(log, ref, read.recorded_at)
  BY DEF ReadProblems
<1>2. PICK i \in DOMAIN log["upstream_read"] : read = log["upstream_read"][i]
  BY <1>1 DEF In
<1>3. PICK u : u = [by |-> read.event_id, ref |-> ref] OBVIOUS
<1>4. u \in {[by |-> read.event_id, ref |-> r] :
               r \in {e \in read.refs : ~acknowledged(log, e, read.recorded_at)}}
  BY <1>1, <1>3
<1>5. u \in Unread(log) BY <1>2, <1>4 DEF Unread
<1> QED BY <1>3, <1>5

\* The briefing names what the Stop hook will ask for, or is full
\* (BriefingNamesDemands).
LEMMA BriefingAnswers == BriefingNamesDemands
<1> DEFINE d == digest(ws, Songs, files)
           room == limit - IF d.broken = {} THEN 0 ELSE 1
           reads == {u.is : u \in {v \in d.unread : v.reader = Me}}
           waiting == {s.path : s \in {t \in d.songs : t.to = Me /\ ~t.received}}
           worries == {o \in d.open_concerns : o.about = Me}
<1> SUFFICES ASSUME ws[Me].broken = {}, NEW briefing \in recall(ws, Songs, files, Me)
             PROVE  \/ /\ ReadProblems(ws[Me].log) \subseteq {r.ref : r \in briefing.reads}
                       /\ SongProblems(ws[Me].log) \subseteq briefing.songs
                    \/ LinesOf(briefing) = limit
  BY DEF BriefingNamesDemands
<1>1. room \in Nat /\ limit = room + IF d.broken = {} THEN 0 ELSE 1
  BY LimitAssumption
<1>17. recall(ws, Songs, files, Me) =
         UNION {UNION {{[broken |-> d.broken, concerns |-> c, reads |-> r, songs |-> s] :
                          s \in Fits(waiting, room - Cardinality(c) - Cardinality(r))} :
                        r \in Fits(reads, room - Cardinality(c))} :
                  c \in Fits(worries, room)}
  BY DEF recall
<1>2. PICK c \in Fits(worries, room) : \E r \in Fits(reads, room - Cardinality(c)) :
        \E s \in Fits(waiting, room - Cardinality(c) - Cardinality(r)) :
          briefing = [broken |-> d.broken, concerns |-> c, reads |-> r, songs |-> s]
  <2> HIDE DEF d, room, reads, waiting, worries
  <2>1. PICK c \in Fits(worries, room) :
          briefing \in UNION {{[broken |-> d.broken, concerns |-> c, reads |-> r, songs |-> s] :
                                 s \in Fits(waiting, room - Cardinality(c) - Cardinality(r))} :
                               r \in Fits(reads, room - Cardinality(c))}
    BY <1>17
  <2>2. PICK r \in Fits(reads, room - Cardinality(c)) :
          briefing \in {[broken |-> d.broken, concerns |-> c, reads |-> r, songs |-> s] :
                          s \in Fits(waiting, room - Cardinality(c) - Cardinality(r))}
    BY <2>1
  <2>3. PICK s \in Fits(waiting, room - Cardinality(c) - Cardinality(r)) :
          briefing = [broken |-> d.broken, concerns |-> c, reads |-> r, songs |-> s]
    BY <2>2
  <2> QED BY <2>3
<1>3. PICK r \in Fits(reads, room - Cardinality(c)) :
        \E s \in Fits(waiting, room - Cardinality(c) - Cardinality(r)) :
          briefing = [broken |-> d.broken, concerns |-> c, reads |-> r, songs |-> s]
  BY <1>2
<1>4. PICK s \in Fits(waiting, room - Cardinality(c) - Cardinality(r)) :
        briefing = [broken |-> d.broken, concerns |-> c, reads |-> r, songs |-> s]
  BY <1>3
<1>5. briefing.broken = d.broken /\ briefing.concerns = c /\ briefing.reads = r /\ briefing.songs = s
  BY <1>4
<1>6. PICK all : all = [worries |-> worries, reads |-> reads, waiting |-> waiting] OBVIOUS
<1>7. all.worries = worries /\ all.reads = reads /\ all.waiting = waiting BY <1>6
<1>8. PICK m : m = room OBVIOUS
<1>9. m \in Nat /\ limit = m + IF briefing.broken = {} THEN 0 ELSE 1 BY <1>1, <1>5, <1>8
<1>10. Cardinality(c) \in Nat /\ Cardinality(c) <= m
  <2>1. c \in Fits(all.worries, m) BY <1>2, <1>7, <1>8
  <2> QED BY <1>9, <2>1, FitsFill
<1>11. /\ Cardinality(r) \in Nat /\ Cardinality(r) <= m - Cardinality(c)
       /\ r = all.reads \/ Cardinality(r) = m - Cardinality(c)
  <2>1. r \in Fits(all.reads, m - Cardinality(c)) BY <1>3, <1>7, <1>8
  <2>2. m - Cardinality(c) \in Nat BY <1>9, <1>10
  <2> QED BY <2>1, <2>2, FitsFill
<1>12. /\ Cardinality(s) \in Nat /\ Cardinality(s) <= m - Cardinality(c) - Cardinality(r)
       /\ s = all.waiting \/ Cardinality(s) = m - Cardinality(c) - Cardinality(r)
  <2>1. s \in Fits(all.waiting, m - Cardinality(c) - Cardinality(r)) BY <1>4, <1>7, <1>8
  <2>2. m - Cardinality(c) - Cardinality(r) \in Nat BY <1>9, <1>10, <1>11
  <2> QED BY <2>1, <2>2, FitsFill
<1>13. ASSUME r # all.reads \/ s # all.waiting PROVE LinesOf(briefing) = limit
  <2>1. Cardinality(c) + Cardinality(r) + Cardinality(s) = m
    BY <1>9, <1>10, <1>11, <1>12, <1>13
  <2> QED BY <1>5, <1>9, <1>10, <1>11, <1>12, <2>1 DEF LinesOf
<1>14. ASSUME NEW ref \in ReadProblems(ws[Me].log) PROVE \E u \in reads : u.ref = ref
  <2>1. PICK u \in Unread(ws[Me].log) : u.ref = ref BY ReadIsUnread
  <2>2. PICK v : v = [reader |-> Me, is |-> u] OBVIOUS
  <2>3. v.reader = Me /\ v.is = u BY <2>2
  <2>4. v \in {[reader |-> Me, is |-> e] : e \in Unread(ws[Me].log)} BY <2>2
  <2>5. Me \in {p \in Plugins : ws[p].broken = {}} BY MeAssumption
  <2>6. d.unread = UNION {{[reader |-> p, is |-> e] : e \in Unread(ws[p].log)} :
                           p \in {q \in Plugins : ws[q].broken = {}}}
    BY DEF digest
  <2>7. v \in d.unread BY <2>4, <2>5, <2>6
  <2> QED BY <2>1, <2>3, <2>7
<1>15. ASSUME NEW song \in SongProblems(ws[Me].log) PROVE song \in waiting
  <2>1. PICK v : v = [path |-> song, to |-> files[song].to,
                      received |-> files[song].to \in Plugins
                                     /\ received(ws[files[song].to].log, song, files[song])]
    OBVIOUS
  <2>2. /\ song \in song_deliveries(Songs, files) /\ files[song].to = Me
        /\ ~received(ws[Me].log, song, files[song])
    BY DEF SongProblems
  <2>3. v.path = song /\ v.to = Me /\ ~v.received BY <2>1, <2>2
  <2>4. d.songs = {[path |-> s1, to |-> files[s1].to,
                    received |-> files[s1].to \in Plugins
                                   /\ received(ws[files[s1].to].log, s1, files[s1])] :
                     s1 \in song_deliveries(Songs, files)}
    BY DEF digest
  <2>5. v \in d.songs BY <2>1, <2>2, <2>4
  <2> QED BY <2>3, <2>5
<1>16. ASSUME r = all.reads, s = all.waiting
       PROVE  /\ ReadProblems(ws[Me].log) \subseteq {u.ref : u \in briefing.reads}
              /\ SongProblems(ws[Me].log) \subseteq briefing.songs
  <2> HIDE DEF d, reads, waiting
  <2> QED BY <1>5, <1>7, <1>14, <1>15, <1>16
<1> QED BY <1>13, <1>16

-----------------------------------------------------------------------------
(* What every step keeps: the shape of the state, and what it does to the  *)
(* logs and to the requests that were checked.                             *)

Log(p, k) == ws[p].log[k]
Gone(p, k) == ws[p].aside[k]

LeftShape ==
  /\ {"requests", "imports", "advisories"} \subseteq DOMAIN left
  /\ \E b \in Budgets : left.requests = b.requests /\ left.advisories = b.advisories

WsShape ==
  /\ DOMAIN ws = Plugins
  /\ \A p \in Plugins : /\ DOMAIN ws[p] = {"log", "broken", "aside"}
                        /\ DOMAIN ws[p].log = Kinds /\ DOMAIN ws[p].aside = Kinds
                        /\ \A k \in Kinds : IsSeq(Log(p, k)) /\ Gone(p, k) \in Nat

\* Each record is at its own place and time, and was valid.
RecordOK(p, k, i) ==
  LET r == Log(p, k)[i]
  IN /\ r.event_id = <<p, k, Gone(p, k) + i>> /\ r.plugin = p /\ r.kind = k
     /\ "recorded_at" \in DOMAIN r /\ r.recorded_at \in Nat /\ r.recorded_at <= clock
     /\ r.checked \in Nat /\ r.checked < r.recorded_at
     /\ ~record_errors(k, r)

InOrder(p, k) ==
  \A i, j \in DOMAIN Log(p, k) : i < j => Log(p, k)[i].recorded_at < Log(p, k)[j].recorded_at

\* A request that was found good waits to be hashed or appended.
Waits(job) == job.op \in {"append", "hash"}

JobOK(job) ==
  Waits(job) =>
    /\ DOMAIN job = {"op", "plugin", "body", "checked"}
    /\ job.plugin \in Plugins /\ Requested(job.body)
    /\ job.body.kind = "upstream_read" => "refs" \in DOMAIN job.body
    /\ job.checked \in Nat /\ job.checked <= clock

\* A review to be recorded beside its advisory.
MirrorOK(job) == job.op = "mirror" => Requested(job.body) /\ job.body.kind = "vision_review"

Shape ==
  /\ WsShape /\ LeftShape /\ DOMAIN jobs = Procs /\ clock \in Nat
  /\ \A pr \in Procs : MirrorOK(jobs[pr])

Base ==
  /\ Shape
  /\ \A p \in Plugins, k \in Kinds : \A i \in DOMAIN Log(p, k) : RecordOK(p, k, i)
  /\ \A p \in Plugins, k \in Kinds : InOrder(p, k)
  /\ \A pr \in Procs : JobOK(jobs[pr])

\* A request found good just now.
FoundGood(job) ==
  /\ DOMAIN job = {"op", "plugin", "body", "checked"} /\ Waits(job)
  /\ job.plugin \in Plugins /\ Requested(job.body) /\ job.checked = clock
  /\ job.body.kind \in ImpressionKinds =>
       /\ ~upstream_resolution_errors(job.body, ws)
       /\ ~reraise_errors(job.body, job.plugin, ws)
  /\ job.body.kind = "insight_status" => ~insight_write_errors(job.body, ws)
  /\ job.body.kind = "upstream_read" =>
       /\ "refs" \in DOMAIN job.body
       /\ \E content, producer : job.body.refs = impressions_for_artifact(content, producer).refs

\* The artifact of a read was hashed.
WasHashed(old, job) ==
  /\ old.op = "hash" /\ Waits(job) /\ DOMAIN job = DOMAIN old
  /\ job.plugin = old.plugin /\ job.checked = old.checked
  /\ DOMAIN job.body = DOMAIN old.body
  /\ \A f \in DOMAIN old.body : f # "artifact" => job.body[f] = old.body[f]

\* A stop hook reads the logs as they are.
Look(job) == job.op = "stop" => job = [op |-> "stop", own |-> ws[Me], at |-> clock]

\* A step that leaves the logs alone.
Quiet ==
  /\ \A p \in Plugins, k \in Kinds : Log(p, k)' = Log(p, k) /\ Gone(p, k)' = Gone(p, k)
  /\ clock <= clock'
  /\ \A pr \in Procs :
       \/ jobs'[pr] = jobs[pr]
       \/ ~Waits(jobs'[pr]) /\ Look(jobs'[pr])
       \/ FoundGood(jobs'[pr]) \/ WasHashed(jobs[pr], jobs'[pr])

\* A step that adds r to log k of p.
Logged(p, k, r) ==
  /\ p \in Plugins /\ k \in Kinds
  /\ \A q \in Plugins, j \in Kinds :
       /\ Log(q, j)' = IF q = p /\ j = k THEN Append(Log(p, k), r) ELSE Log(q, j)
       /\ Gone(q, j)' = Gone(q, j)
  /\ clock' = clock + 1
  /\ \E pr \in Procs :
       /\ jobs[pr].op = "append" /\ jobs[pr].plugin = p /\ jobs[pr].body.kind = k
       /\ r = With([event_id |-> <<p, k, Gone(p, k) + Len(Log(p, k)) + 1>>, plugin |-> p,
                    sequence |-> Len(Log(p, k)) + 1, recorded_at |-> clock + 1,
                    checked |-> jobs[pr].checked], jobs[pr].body)
       /\ ~record_errors(k, r)
       /\ \A o \in Procs : jobs'[o] = IF o = pr THEN Idle ELSE jobs[o]

\* A step that begins log k of p anew.
Moved(p, k) ==
  /\ p \in Plugins /\ k \in Kinds
  /\ \A q \in Plugins, j \in Kinds :
       /\ Log(q, j)' = IF q = p /\ j = k THEN <<>> ELSE Log(q, j)
       /\ Gone(q, j)' = IF q = p /\ j = k THEN Gone(p, k) + Len(Log(p, k)) ELSE Gone(q, j)
  /\ jobs' = jobs /\ clock' = clock

\* Spending leaves the requests of the budget.
LEMMA SpendKeeps ==
  ASSUME LeftShape, NEW what, what \notin {"requests", "imports", "advisories"}, Spend(what)
  PROVE  LeftShape'
BY DEF Spend, LeftShape

\* A job that starts.
LEMMA Starts ==
  ASSUME Base, NEW pr \in Procs, NEW job, Start(pr, job)
  PROVE  /\ LeftShape' /\ DOMAIN jobs' = Procs
         /\ jobs'[pr] = job /\ \A o \in Procs \ {pr} : jobs'[o] = jobs[o]
<1>1. Spend("jobs") BY DEF Start
<1>2. LeftShape' BY <1>1, SpendKeeps DEF Base, Shape
<1> QED BY <1>2 DEF Start, Base, Shape

\* Whatever leaves the workspace and its time alone, but for what is found good.
LEMMA QuietStart ==
  ASSUME Base, NEW pr \in Procs, NEW job, Start(pr, job), UNCHANGED <<ws, clock>>,
         Waits(job) => FoundGood(job), MirrorOK(job), Look(job)
  PROVE  Shape' /\ Quiet
<1>1. WsShape' BY DEF Base, Shape, WsShape, Log, Gone
<1>2. Quiet BY Starts DEF Quiet, Log, Gone, Base, Shape
<1>3. \A o \in Procs : MirrorOK(jobs'[o]) BY Starts DEF Base, Shape
<1> QED BY <1>1, <1>2, <1>3, Starts DEF Base, Shape, MirrorOK

\* What the budget asks to record.
LEMMA Requests ==
  ASSUME LeftShape
  PROVE  /\ \A p \in Plugins : \A q \in left.requests[p] : Requested(q)
         /\ \A q \in left.advisories : Requested(q) /\ q.kind = "vision_review"
BY BudgetsAssumption DEF LeftShape

\* They are the same but for a field.
SameBut(d, q, f) == DOMAIN d = DOMAIN q /\ \A g \in DOMAIN q : g # f => d[g] = q[g]

\* A request with one of its fields hashed is requested still.
LEMMA StillRequested ==
  ASSUME NEW q, Requested(q), NEW d, NEW f, f # "kind", SameBut(d, q, f)
  PROVE  Requested(d) /\ d.kind = q.kind
BY DEF Requested, Fields, SameBut

\* A request that may wait.
LEMMA Good ==
  ASSUME NEW p \in Plugins, NEW d, Requested(d),
         d.kind \in ImpressionKinds => ~_context_errors(p, d),
         d.kind = "insight_status" => ~insight_write_errors(d, ws),
         d.kind # "upstream_read"
  PROVE  /\ FoundGood([op |-> "append", plugin |-> p, body |-> d, checked |-> clock])
         /\ MirrorOK([op |-> "append", plugin |-> p, body |-> d, checked |-> clock])
         /\ Look([op |-> "append", plugin |-> p, body |-> d, checked |-> clock])
BY DEF FoundGood, Waits, MirrorOK, Look, _context_errors

\* A recorder that found its request good.
LEMMA CheckedCase ==
  ASSUME Base, NEW pr \in Procs, NEW p \in Plugins, NEW d, Checked(pr, p, d), Requested(d),
         d.kind \in ImpressionKinds => ~_context_errors(p, d),
         d.kind = "insight_status" => ~insight_write_errors(d, ws),
         d.kind # "upstream_read"
  PROVE  Shape' /\ Quiet
<1>1. PICK job : job = [op |-> "append", plugin |-> p, body |-> d, checked |-> clock] OBVIOUS
<1>2. FoundGood(job) /\ MirrorOK(job) /\ Look(job) BY <1>1, Good
<1>3. Start(pr, job) /\ UNCHANGED <<ws, clock>> BY <1>1 DEF Checked
<1> QED BY <1>2, <1>3, QuietStart

LEMMA ReadCase ==
  ASSUME Base, NEW pr \in Procs, NEW p \in Plugins, NEW q, record_read(pr, p, q),
         "kind" \in DOMAIN q
  PROVE  Shape' /\ Quiet
<1>1. q.kind = "upstream_read" BY DEF record_read
<1>2. PICK content, producer : content = files[q.artifact] /\ producer = q.producer OBVIOUS
<1>3. PICK found : found = impressions_for_artifact(content, producer) OBVIOUS
<1>4. DOMAIN found = {"refs", "unresolved"} BY <1>3 DEF impressions_for_artifact
<1>5. PICK body : body = With(found, q) OBVIOUS
<1>6. "refs" \in DOMAIN body /\ "kind" \in DOMAIN body /\ body.refs = found.refs /\ body.kind = q.kind
  BY <1>4, <1>5 DEF With
<1>7. Requested(body) BY <1>1, <1>6 DEF Requested, Fields, Kinds, ImpressionKinds
<1>8. PICK job : job = [op |-> "hash", plugin |-> p, checked |-> clock, body |-> body] OBVIOUS
<1>9. FoundGood(job) /\ MirrorOK(job) /\ Look(job)
  BY <1>1, <1>3, <1>6, <1>7, <1>8 DEF FoundGood, Waits, MirrorOK, Look, ImpressionKinds
<1>10. Start(pr, job) /\ UNCHANGED <<ws, clock>>
  BY <1>2, <1>3, <1>5, <1>8 DEF record_read
<1> QED BY <1>9, <1>10, QuietStart

\* One recorder for each kind.
LEMMA RecordCase ==
  ASSUME Base, NEW pr \in Procs, NEW p \in Plugins, NEW q, Requested(q), cmd_record(pr, p, q)
  PROVE  Shape' /\ Quiet
<1>1. CASE record_impression(pr, p, q)
  <2>1. PICK v : v = Hashed(q.artifacts) OBVIOUS
  <2>2. PICK d, f : d = [q EXCEPT !.artifacts = v] /\ f = "artifacts" OBVIOUS
  <2>3. SameBut(d, q, f) /\ f # "kind" BY <2>2 DEF SameBut
  <2>4. q.kind = "stage_impression" /\ ~_context_errors(p, d) /\ Checked(pr, p, d)
    BY <1>1, <2>1, <2>2 DEF record_impression
  <2>5. Requested(d) /\ d.kind = q.kind BY <2>3, StillRequested
  <2> QED BY <2>4, <2>5, CheckedCase
<1>2. CASE record_vision_review(pr, p, q)
  <2>1. PICK d : d = Looked(q) OBVIOUS
  <2>2. PICK v : v = IF q.image_path = None THEN None ELSE files[q.image_path] OBVIOUS
  <2>3. PICK f : f = "image_sha256" OBVIOUS
  <2>6. SameBut(d, q, f) /\ f # "kind" BY <2>1, <2>2, <2>3 DEF Looked, SameBut
  <2>4. q.kind = "vision_review" /\ ~_context_errors(p, d) /\ Checked(pr, p, d)
    BY <1>2, <2>1 DEF record_vision_review, Reviewable
  <2>5. Requested(d) /\ d.kind = q.kind BY <2>6, StillRequested
  <2> QED BY <2>4, <2>5, CheckedCase
<1>3. CASE record_decision(pr, p, q)
  <2>1. PICK v : v = _hash_evidence(q.evidence) OBVIOUS
  <2>2. PICK d, f : d = [q EXCEPT !.evidence = v] /\ f = "evidence" OBVIOUS
  <2>7. SameBut(d, q, f) /\ f # "kind" BY <2>2 DEF SameBut
  <2>3. q.kind = "decision" /\ Checked(pr, p, d) BY <1>3, <2>1, <2>2 DEF record_decision
  <2>4. Requested(d) /\ d.kind = q.kind BY <2>7, StillRequested
  <2> QED BY <2>3, <2>4, CheckedCase DEF ImpressionKinds
<1>4. CASE record_insight(pr, p, q)
  <2>1. PICK v : v = _hash_evidence(q.evidence) OBVIOUS
  <2>2. PICK d, f : d = [q EXCEPT !.evidence = v] /\ f = "evidence" OBVIOUS
  <2>7. SameBut(d, q, f) /\ f # "kind" BY <2>2 DEF SameBut
  <2>3. q.kind = "insight_status" /\ ~insight_write_errors(q, ws) /\ Checked(pr, p, d)
    BY <1>4, <2>1, <2>2 DEF record_insight
  <2>4. Requested(d) /\ d.kind = q.kind BY <2>7, StillRequested
  <2>5. d.insight = q.insight /\ d.status = q.status
    BY <2>2, <2>3 DEF Requested, Fields, ImpressionKinds
  <2>6. ~insight_write_errors(d, ws) BY <2>3, <2>5 DEF insight_write_errors
  <2> QED BY <2>3, <2>4, <2>6, CheckedCase DEF ImpressionKinds
<1>5. CASE record_song_receipt(pr, p, q)
  <2>1. PICK v : v = [path |-> q.delivery, sha256 |-> files[q.delivery]] OBVIOUS
  <2>2. PICK d, f : d = [q EXCEPT !.delivery = v] /\ f = "delivery" OBVIOUS
  <2>7. SameBut(d, q, f) /\ f # "kind" BY <2>2 DEF SameBut
  <2>3. q.kind = "song_receipt" /\ Checked(pr, p, d) BY <1>5, <2>1, <2>2 DEF record_song_receipt
  <2>4. Requested(d) /\ d.kind = q.kind BY <2>7, StillRequested
  <2> QED BY <2>3, <2>4, CheckedCase DEF ImpressionKinds
<1>6. CASE record_read(pr, p, q) BY <1>6, ReadCase DEF Requested
<1> QED BY <1>1, <1>2, <1>3, <1>4, <1>5, <1>6 DEF cmd_record

\* What changes neither the logs nor a request.
LEMMA QuietStep ==
  ASSUME Base, LeftShape', clock' \in Nat, clock <= clock', DOMAIN jobs' = Procs,
         DOMAIN ws' = Plugins,
         \A p \in Plugins : DOMAIN ws'[p] = {"log", "broken", "aside"} /\ ws'[p].log = ws[p].log /\ ws'[p].aside = ws[p].aside,
         \A pr \in Procs : \/ jobs'[pr] = jobs[pr]
                           \/ ~Waits(jobs'[pr]) /\ MirrorOK(jobs'[pr]) /\ Look(jobs'[pr])
  PROVE  Shape' /\ Quiet
<1>1. WsShape' BY DEF Base, Shape, WsShape, Log, Gone
<1>2. Quiet BY DEF Quiet, Log, Gone
<1>3. \A pr \in Procs : MirrorOK(jobs'[pr]) BY DEF Base, Shape
<1> QED BY <1>1, <1>2, <1>3 DEF Shape, MirrorOK

LEMMA SameWs ==
  ASSUME Base, UNCHANGED ws
  PROVE  /\ DOMAIN ws' = Plugins
         /\ \A p \in Plugins : DOMAIN ws'[p] = {"log", "broken", "aside"} /\ ws'[p].log = ws[p].log /\ ws'[p].aside = ws[p].aside
BY DEF Base, Shape, WsShape

\* A job that ends or does something else.
LEMMA GotoCase ==
  ASSUME Base, NEW pr \in Procs, NEW job, Goto(pr, job), ~Waits(job), MirrorOK(job), Look(job),
         LeftShape', UNCHANGED ws, clock' \in Nat, clock <= clock'
  PROVE  Shape' /\ Quiet
<1>1. /\ DOMAIN jobs' = Procs
      /\ \A o \in Procs : jobs'[o] = jobs[o] \/ (~Waits(jobs'[o]) /\ MirrorOK(jobs'[o]) /\ Look(jobs'[o]))
  BY DEF Goto, Base, Shape
<1> QED BY <1>1, SameWs, QuietStep

LEMMA ImportCase ==
  ASSUME Base, NEW pr \in Procs, NEW path, NEW kind, _record_import_read(pr, path, kind)
  PROVE  Shape' /\ Quiet
<1>1. PICK q : q = [kind |-> "upstream_read", artifact |-> path,
                    producer |-> IF kind = "circuit-json" THEN "circuit" ELSE "mech"]
  OBVIOUS
<1>2. record_read(pr, Me, q) BY <1>1 DEF _record_import_read
<1>3. "kind" \in DOMAIN q BY <1>1
<1> QED BY <1>2, <1>3, MeAssumption, ReadCase

LEMMA ReviewCase ==
  ASSUME Base, NEW pr \in Procs, NEW q \in left.advisories, NEW vrp_json,
         cmd_review_record(pr, q, vrp_json)
  PROVE  Shape' /\ Quiet
<1>1. PICK job : job = IF vrp_json THEN [op |-> "mirror", body |-> q] ELSE Idle OBVIOUS
<1>2. Requested(q) /\ q.kind = "vision_review" BY Requests DEF Base, Shape
<1>3. ~Waits(job) /\ MirrorOK(job) /\ Look(job) BY <1>1, <1>2 DEF Waits, MirrorOK, Look, Idle
<1>4. Start(pr, job) /\ UNCHANGED <<ws, clock>> BY <1>1 DEF cmd_review_record
<1> QED BY <1>3, <1>4, QuietStart

LEMMA MirrorCase ==
  ASSUME Base, NEW pr \in Procs, _log_vision_review(pr)
  PROVE  Shape' /\ Quiet
<1>1. PICK b : b = jobs[pr].body OBVIOUS
<1>2. Requested(b) /\ b.kind = "vision_review"
  BY <1>1 DEF Base, Shape, MirrorOK, _log_vision_review, At
<1>3. PICK detail : detail = files[review_record_path(b.image_path)] OBVIOUS
<1>4. PICK q1, f1 : q1 = [b EXCEPT !.image_path = detail.image_path] /\ f1 = "image_path" OBVIOUS
<1>5. PICK q2, f2 : q2 = [q1 EXCEPT !.impression = detail.impression] /\ f2 = "impression" OBVIOUS
<1>6. PICK q, f3 : q = [q2 EXCEPT !.findings = detail.findings] /\ f3 = "findings" OBVIOUS
<1>7. PICK v : v = IF q.image_path = None THEN None ELSE files[q.image_path] OBVIOUS
<1>8. PICK d, f4 : d = [q EXCEPT !.image_sha256 = v] /\ f4 = "image_sha256" OBVIOUS
<1>9. SameBut(q1, b, f1) /\ f1 # "kind" BY <1>4 DEF SameBut
<1>10. SameBut(q2, q1, f2) /\ f2 # "kind" BY <1>5 DEF SameBut
<1>11. SameBut(q, q2, f3) /\ f3 # "kind" BY <1>6 DEF SameBut
<1>12. SameBut(d, q, f4) /\ f4 # "kind" BY <1>8 DEF SameBut
<1>13. Requested(q1) /\ q1.kind = "vision_review" BY <1>2, <1>9, StillRequested
<1>14. Requested(q2) /\ q2.kind = "vision_review" BY <1>10, <1>13, StillRequested
<1>15. Requested(q) /\ q.kind = "vision_review" BY <1>11, <1>14, StillRequested
<1>16. Requested(d) /\ d.kind = "vision_review" BY <1>12, <1>15, StillRequested
<1>17. d = Looked(q) BY <1>7, <1>8 DEF Looked
<1>18. PICK job : job = IF Reviewable(Me, q)
                         THEN [op |-> "append", plugin |-> Me, body |-> d, checked |-> clock]
                         ELSE Idle
  OBVIOUS
<1>19. q = [b EXCEPT !.image_path = detail.image_path,
                     !.impression = detail.impression, !.findings = detail.findings]
  BY <1>4, <1>5, <1>6
<1>20. Goto(pr, job) /\ UNCHANGED <<ws, clock, left>>
  BY <1>1, <1>3, <1>17, <1>18, <1>19 DEF _log_vision_review
<1>21. (Waits(job) => FoundGood(job)) /\ MirrorOK(job) /\ Look(job)
  <2>1. CASE Reviewable(Me, q)
    <3>1. ~_context_errors(Me, d) BY <1>17, <2>1 DEF Reviewable
    <3> QED BY <1>16, <1>18, <2>1, <3>1, MeAssumption, Good
  <2>2. CASE ~Reviewable(Me, q) BY <1>18, <2>2 DEF Idle, Waits, MirrorOK, Look
  <2> QED BY <2>1, <2>2
<1>22. jobs' = [jobs EXCEPT ![pr] = job] BY <1>20 DEF Goto
<1>23. WsShape' /\ LeftShape' /\ DOMAIN jobs' = Procs /\ clock' \in Nat
  BY <1>20, <1>22 DEF Base, Shape, WsShape, Log, Gone, LeftShape
<1>24. \A o \in Procs : jobs'[o] = IF o = pr THEN job ELSE jobs[o]
  BY <1>22 DEF Base, Shape
<1>25. Quiet BY <1>20, <1>21, <1>24 DEF Quiet, Log, Gone, Base, Shape
<1>26. \A o \in Procs : MirrorOK(jobs'[o]) BY <1>21, <1>24 DEF Base, Shape
<1> QED BY <1>23, <1>25, <1>26 DEF Shape, MirrorOK

LEMMA HashCase ==
  ASSUME Base, NEW pr \in Procs, HashRead(pr)
  PROVE  Shape' /\ Quiet
<1>1. PICK old : old = jobs[pr] OBVIOUS
<1>2. PICK h : h = [path |-> old.body.artifact, sha256 |-> files[old.body.artifact]] OBVIOUS
<1>3. PICK job : job = [old EXCEPT !.op = "append", !.body.artifact = h] OBVIOUS
<1>4. jobs' = [jobs EXCEPT ![pr] = job] /\ old.op = "hash" /\ UNCHANGED <<ws, clock, left>>
  BY <1>1, <1>2, <1>3 DEF HashRead, Goto, At
<1>5. DOMAIN old = {"op", "plugin", "body", "checked"}
  BY <1>1, <1>4 DEF Base, JobOK, Waits
<1>6. WasHashed(old, job)
  BY <1>3, <1>4, <1>5 DEF WasHashed, Waits
<1>7. MirrorOK(job) BY <1>3, <1>5 DEF MirrorOK
<1>8. \A o \in Procs : jobs'[o] = IF o = pr THEN job ELSE jobs[o] BY <1>4 DEF Base, Shape
<1>9. WsShape' /\ LeftShape' /\ DOMAIN jobs' = Procs /\ clock' \in Nat
  BY <1>4 DEF Base, Shape, WsShape, Log, Gone, LeftShape
<1>10. Quiet BY <1>1, <1>4, <1>6, <1>8 DEF Quiet, Log, Gone, Base, Shape
<1>11. \A o \in Procs : MirrorOK(jobs'[o]) BY <1>7, <1>8 DEF Base, Shape
<1> QED BY <1>9, <1>10, <1>11 DEF Shape, MirrorOK

\* What the session owes for a record.
Owed(p, k, r) ==
  IF p = Me /\ k = "upstream_read"
    THEN {[what |-> "read", is |-> x, at |-> clock + 1] : x \in r.refs} ELSE {}

\* A valid record is added to a log that is whole.
LEMMA AppendCase ==
  ASSUME Base, NEW pr \in Procs, _append(pr)
  PROVE  /\ Shape'
         /\ \/ Quiet /\ debts' = debts
            \/ \E p, k, r : Logged(p, k, r) /\ debts' = debts \union Owed(p, k, r)
<1>1. PICK p, k : p = jobs[pr].plugin /\ k = jobs[pr].body.kind OBVIOUS
<1>2. PICK r : r = With([event_id |-> <<p, k, Gone(p, k) + Len(Log(p, k)) + 1>>, plugin |-> p,
                         sequence |-> Len(Log(p, k)) + 1, recorded_at |-> clock + 1,
                         checked |-> jobs[pr].checked], jobs[pr].body)
  OBVIOUS
<1>3. jobs[pr].op = "append" /\ Goto(pr, Idle) /\ UNCHANGED left BY DEF _append, At
<1>4. p \in Plugins /\ k \in Kinds BY <1>1, <1>3 DEF Base, JobOK, Waits, Requested
<1>5. LeftShape' BY <1>3 DEF Base, Shape, LeftShape
<1>6. ~Waits(Idle) /\ MirrorOK(Idle) /\ Look(Idle) BY DEF Waits, MirrorOK, Look, Idle
<1>7. CASE k \in ws[p].broken \/ record_errors(k, r)
  <2>1. UNCHANGED <<ws, clock>> BY <1>1, <1>2, <1>7 DEF _append, Log, Gone
  <2>2. clock' \in Nat /\ clock <= clock' BY <2>1 DEF Base, Shape
  <2>3. debts' = debts BY <1>1, <1>2, <1>7 DEF _append, Log, Gone
  <2> QED BY <1>3, <1>5, <1>6, <2>1, <2>2, <2>3, GotoCase
<1>8. CASE ~(k \in ws[p].broken \/ record_errors(k, r))
  <2>1. ws' = [ws EXCEPT ![p].log[k] = Append(@, r)] /\ clock' = clock + 1
    BY <1>1, <1>2, <1>8 DEF _append, Log, Gone
  <2>2. \A q \in Plugins, j \in Kinds :
          /\ Log(q, j)' = IF q = p /\ j = k THEN Append(Log(p, k), r) ELSE Log(q, j)
          /\ Gone(q, j)' = Gone(q, j)
    BY <1>4, <2>1 DEF Base, Shape, WsShape, Log, Gone
  <2>3. \A o \in Procs : jobs'[o] = IF o = pr THEN Idle ELSE jobs[o]
    BY <1>3 DEF Goto, Base, Shape
  <2>4. ~record_errors(k, r) BY <1>8
  <2>5. Logged(p, k, r) BY <1>1, <1>2, <1>3, <1>4, <2>1, <2>2, <2>3, <2>4 DEF Logged
  <2>6. DOMAIN ws' = Plugins
        /\ \A q \in Plugins : /\ DOMAIN ws'[q] = {"log", "broken", "aside"}
                              /\ DOMAIN ws'[q].log = Kinds /\ DOMAIN ws'[q].aside = Kinds
    BY <1>4, <2>1 DEF Base, Shape, WsShape
  <2>7. ASSUME NEW q \in Plugins, NEW j \in Kinds PROVE IsSeq(Log(q, j)') /\ Gone(q, j)' \in Nat
    <3>1. IsSeq(Log(q, j)) /\ Gone(q, j) \in Nat BY DEF Base, Shape, WsShape
    <3>2. PICK s, t : s = Log(q, j) /\ t = Log(q, j)' OBVIOUS
    <3>3. t = IF q = p /\ j = k THEN Append(s, r) ELSE s BY <2>2, <3>2
    <3>4. IsSeq(t) BY <3>1, <3>2, <3>3, SeqAppend
    <3> QED BY <2>2, <3>1, <3>2, <3>4
  <2>8. WsShape' BY <2>6, <2>7 DEF WsShape, Log, Gone
  <2>9. DOMAIN jobs' = Procs BY <1>3 DEF Goto, Base, Shape
  <2>10. \A o \in Procs : MirrorOK(jobs'[o]) BY <1>6, <2>3 DEF Base, Shape
  <2>11. clock' \in Nat BY <2>1 DEF Base, Shape
  <2>12. debts' = debts \union Owed(p, k, r) BY <1>1, <1>2, <1>8 DEF _append, Log, Gone, Owe, Owed
  <2> QED BY <1>5, <2>5, <2>8, <2>9, <2>10, <2>11, <2>12 DEF Shape, MirrorOK
<1> QED BY <1>7, <1>8

\* The world around leaves the jobs alone.
LEMMA WorldCase ==
  ASSUME Base, jobs' = jobs, LeftShape', clock' \in {clock, clock + 1},
         DOMAIN ws' = Plugins,
         \A p \in Plugins : DOMAIN ws'[p] = {"log", "broken", "aside"} /\ ws'[p].log = ws[p].log /\ ws'[p].aside = ws[p].aside
  PROVE  Shape' /\ Quiet
<1>1. clock' \in Nat /\ clock <= clock' BY DEF Base, Shape
<1>2. DOMAIN jobs' = Procs /\ \A pr \in Procs : jobs'[pr] = jobs[pr] BY DEF Base, Shape
<1> QED BY <1>1, <1>2, QuietStep

LEMMA Ticks ==
  ASSUME Base, clock' = clock \/ clock' = clock + 1
  PROVE  clock' \in Nat /\ clock <= clock'
BY DEF Base, Shape

\* Everything else: observations, the hooks of the session, the world around.
LEMMA OtherCases ==
  ASSUME Base,
         \/ \E pr \in Procs : \/ ViewImage(pr, "png") \/ AskVision(pr, "Is J1 readable?")
                              \/ \E whole \in BOOLEAN : \/ record_image_observation(pr, whole)
                                                        \/ record_vision_tool_event(pr, whole)
                              \/ StopRead(pr) \/ stop(pr)
         \/ session_start
         \/ \E path \in DOMAIN left.contents : \E c \in left.contents[path] : Write(path, c)
         \/ \E p \in Plugins : \E k \in Kinds : Damage(p, k)
  PROVE  Shape' /\ Quiet
<1>1. LeftShape BY DEF Base, Shape
<1>2. LeftShape' \/ ~UNCHANGED left BY <1>1 DEF LeftShape
<1>3. \A what \in {"kill", "session", "stop", "write", "damage"} : Spend(what) => LeftShape'
  BY <1>1, SpendKeeps
<1>4. ~Waits(Idle) /\ MirrorOK(Idle) /\ Look(Idle) BY DEF Waits, MirrorOK, Look, Idle
<1>5. ASSUME NEW pr \in Procs, ViewImage(pr, "png") PROVE Shape' /\ Quiet
  <2>1. PICK job : job = [op |-> "image", image |-> "png", sequence |-> next_sequence(observed.images)]
    OBVIOUS
  <2>2. Start(pr, job) /\ UNCHANGED <<ws, clock>> BY <1>5, <2>1 DEF ViewImage
  <2>3. ~Waits(job) /\ MirrorOK(job) /\ Look(job) BY <2>1 DEF Waits, MirrorOK, Look
  <2> QED BY <2>2, <2>3, QuietStart
<1>6. ASSUME NEW pr \in Procs, AskVision(pr, "Is J1 readable?") PROVE Shape' /\ Quiet
  <2>1. PICK job : job = [op |-> "event", question |-> "Is J1 readable?",
                          sequence |-> next_sequence(observed.events)]
    OBVIOUS
  <2>2. Start(pr, job) /\ UNCHANGED <<ws, clock>> BY <1>6, <2>1 DEF AskVision
  <2>3. ~Waits(job) /\ MirrorOK(job) /\ Look(job) BY <2>1 DEF Waits, MirrorOK, Look
  <2> QED BY <2>2, <2>3, QuietStart
<1>7. ASSUME NEW pr \in Procs, NEW whole \in BOOLEAN,
             record_image_observation(pr, whole) \/ record_vision_tool_event(pr, whole)
      PROVE  Shape' /\ Quiet
  <2>1. Goto(pr, Idle) /\ clock' = clock + 1 /\ UNCHANGED ws
    BY <1>7 DEF record_image_observation, record_vision_tool_event
  <2>2. UNCHANGED left \/ Spend("kill")
    BY <1>7 DEF record_image_observation, record_vision_tool_event
  <2>3. LeftShape' BY <1>2, <1>3, <2>2
  <2>4. clock' \in Nat /\ clock <= clock' BY <2>1, Ticks
  <2> QED BY <1>4, <2>1, <2>3, <2>4, GotoCase
<1>8. ASSUME NEW pr \in Procs, StopRead(pr) PROVE Shape' /\ Quiet
  <2>1. PICK job : job = [op |-> "stop", own |-> ws[Me], at |-> clock] OBVIOUS
  <2>2. Goto(pr, job) /\ UNCHANGED <<ws, clock>> /\ Spend("stop") BY <1>8, <2>1 DEF StopRead
  <2>3. ~Waits(job) /\ MirrorOK(job) /\ Look(job) BY <2>1 DEF Waits, MirrorOK, Look
  <2>4. clock' \in Nat /\ clock <= clock' BY <2>2, Ticks
  <2> QED BY <1>3, <2>2, <2>3, <2>4, GotoCase
<1>9. ASSUME NEW pr \in Procs, stop(pr) PROVE Shape' /\ Quiet
  <2>1. Goto(pr, Idle) /\ UNCHANGED <<ws, clock, left>> BY <1>9 DEF stop
  <2>2. clock' \in Nat /\ clock <= clock' BY <2>1, Ticks
  <2> QED BY <1>2, <1>4, <2>1, <2>2, GotoCase
<1>11. ASSUME session_start PROVE Shape' /\ Quiet
  <2>1. UNCHANGED <<ws, jobs>> /\ clock' = clock + 1 /\ LeftShape' BY <1>3, <1>11 DEF session_start
  <2> QED BY <1>3, <2>1, SameWs, WorldCase
<1>12. ASSUME NEW path, NEW c, Write(path, c) PROVE Shape' /\ Quiet
  <2>1. UNCHANGED <<ws, jobs>> /\ clock' = clock + 1 /\ LeftShape' BY <1>3, <1>12 DEF Write
  <2> QED BY <1>3, <2>1, SameWs, WorldCase
<1>13. ASSUME NEW p \in Plugins, NEW k \in Kinds, Damage(p, k) PROVE Shape' /\ Quiet
  <2>1. UNCHANGED <<jobs, clock>> /\ LeftShape' BY <1>3, <1>13 DEF Damage
  <2>3. DOMAIN ws = Plugins /\ \A q \in Plugins : DOMAIN ws[q] = {"log", "broken", "aside"}
    BY DEF Base, Shape, WsShape
  <2>4. PICK broken : ws' = [ws EXCEPT ![p].broken = broken] BY <1>13 DEF Damage
  <2>2. /\ DOMAIN ws' = Plugins
        /\ \A q \in Plugins : /\ DOMAIN ws'[q] = {"log", "broken", "aside"}
                              /\ ws'[q].log = ws[q].log /\ ws'[q].aside = ws[q].aside
    BY <2>3, <2>4
  <2> QED BY <1>3, <2>1, <2>2, WorldCase
<1> QED BY <1>5, <1>6, <1>7, <1>8, <1>9, <1>11, <1>12, <1>13

\* A log that is begun anew.
LEMMA MoveCase ==
  ASSUME Base, NEW p \in Plugins, NEW k \in Kinds, MoveAside(p, k)
  PROVE  Shape' /\ Moved(p, k)
<1>1. UNCHANGED <<jobs, clock, left>> BY DEF MoveAside
<1>2. PICK n : n = Len(Log(p, k)) OBVIOUS
<1>3. IsSeq(Log(p, k)) /\ Gone(p, k) \in Nat BY DEF Base, Shape, WsShape
<1>4. n \in Nat BY <1>2, <1>3, SeqDomain
<1>5. ws' = [ws EXCEPT ![p].broken = @ \ {k}, ![p].log[k] = <<>>, ![p].aside[k] = @ + n]
  BY <1>2 DEF MoveAside, Log
<1>6. /\ DOMAIN ws' = Plugins
      /\ \A q \in Plugins : /\ DOMAIN ws'[q] = {"log", "broken", "aside"}
                            /\ DOMAIN ws'[q].log = Kinds /\ DOMAIN ws'[q].aside = Kinds
  BY <1>5 DEF Base, Shape, WsShape
<1>7. \A q \in Plugins, j \in Kinds :
        /\ Log(q, j)' = IF q = p /\ j = k THEN <<>> ELSE Log(q, j)
        /\ Gone(q, j)' = IF q = p /\ j = k THEN Gone(p, k) + n ELSE Gone(q, j)
  BY <1>5 DEF Base, Shape, WsShape, Log, Gone
<1>8. IsSeq(<<>>) BY DEF IsSeq
<1>9. Gone(p, k) + n \in Nat BY <1>3, <1>4
<1>10. \A q \in Plugins, j \in Kinds : IsSeq(Log(q, j)') /\ Gone(q, j)' \in Nat
  <2>1. SUFFICES ASSUME NEW q \in Plugins, NEW j \in Kinds
                 PROVE  IsSeq(Log(q, j)') /\ Gone(q, j)' \in Nat
    OBVIOUS
  <2>2. CASE q = p /\ j = k BY <1>7, <1>8, <1>9, <2>2
  <2>3. CASE ~(q = p /\ j = k) BY <1>7, <2>3 DEF Base, Shape, WsShape
  <2> QED BY <2>2, <2>3
<1>11. WsShape' BY <1>6, <1>10 DEF WsShape, Log, Gone
<1>12. Shape' BY <1>1, <1>11 DEF Base, Shape, LeftShape, MirrorOK
<1> QED BY <1>1, <1>2, <1>7, <1>12 DEF Moved

LEMMA StepCases ==
  ASSUME Base, [Next]_vars
  PROVE  /\ Shape'
         /\ \/ Quiet
            \/ \E p, k, r : Logged(p, k, r)
            \/ \E p \in Plugins : \E k \in Kinds : MoveAside(p, k) /\ Moved(p, k)
<1>1. CASE UNCHANGED vars
  <2>1. UNCHANGED <<ws, jobs, clock, left>> BY <1>1 DEF vars
  <2>2. LeftShape' /\ clock' \in Nat /\ clock <= clock' /\ DOMAIN jobs' = Procs
    BY <2>1 DEF Base, Shape, LeftShape
  <2> QED BY <2>1, <2>2, SameWs, QuietStep
<1>2. ASSUME NEW pr \in Procs, NEW p \in Plugins, NEW q \in left.requests[p], cmd_record(pr, p, q)
      PROVE  Shape' /\ Quiet
  <2>1. Requested(q) BY Requests DEF Base, Shape
  <2> QED BY <1>2, <2>1, RecordCase
<1>3. ASSUME NEW pr \in Procs, NEW i \in left.imports, _record_import_read(pr, i.path, i.kind)
      PROVE  Shape' /\ Quiet
  <2>1. PICK path, kind : path = i.path /\ kind = i.kind OBVIOUS
  <2> QED BY <1>3, <2>1, ImportCase
<1>4. ASSUME NEW pr \in Procs, NEW q \in left.advisories, NEW vrp_json \in BOOLEAN,
             cmd_review_record(pr, q, vrp_json)
      PROVE  Shape' /\ Quiet
  BY <1>4, ReviewCase
<1>5. ASSUME Next
      PROVE  /\ Shape'
             /\ \/ Quiet
                \/ \E p, k, r : Logged(p, k, r)
                \/ \E p \in Plugins : \E k \in Kinds : MoveAside(p, k) /\ Moved(p, k)
  BY <1>2, <1>3, <1>4, <1>5, MirrorCase, HashCase, AppendCase, OtherCases, MoveCase DEF Next
<1> QED BY <1>1, <1>5

-----------------------------------------------------------------------------
(* Base is inductive.                                                      *)

Envelope == {"event_id", "plugin", "sequence", "recorded_at", "checked"}

\* Where a record that is added comes from.
From(pr, p, k, r) ==
  /\ Waits(jobs[pr]) /\ jobs[pr].plugin = p /\ jobs[pr].body.kind = k
  /\ jobs[pr].checked = r.checked /\ Requested(jobs[pr].body)
  /\ \A f \in DOMAIN jobs[pr].body \ Envelope : r[f] = jobs[pr].body[f]

LEMMA LoggedFields ==
  ASSUME Base, NEW p, NEW k, NEW r, Logged(p, k, r)
  PROVE  /\ r.event_id = <<p, k, Gone(p, k) + Len(Log(p, k)) + 1>> /\ r.plugin = p /\ r.kind = k
         /\ "recorded_at" \in DOMAIN r /\ r.recorded_at = clock + 1
         /\ r.checked \in Nat /\ r.checked <= clock
         /\ ~record_errors(k, r)
         /\ \E pr \in Procs : From(pr, p, k, r)
<1>1. PICK pr \in Procs :
        /\ jobs[pr].op = "append" /\ jobs[pr].plugin = p /\ jobs[pr].body.kind = k
        /\ r = With([event_id |-> <<p, k, Gone(p, k) + Len(Log(p, k)) + 1>>, plugin |-> p,
                     sequence |-> Len(Log(p, k)) + 1, recorded_at |-> clock + 1,
                     checked |-> jobs[pr].checked], jobs[pr].body)
        /\ ~record_errors(k, r)
  BY DEF Logged
<1>2. PICK job, body : job = jobs[pr] /\ body = jobs[pr].body OBVIOUS
<1>3. /\ Waits(job) /\ Requested(body) /\ job.checked \in Nat /\ job.checked <= clock
  BY <1>1, <1>2 DEF Base, JobOK, Waits
<1>4. PICK e : e = [event_id |-> <<p, k, Gone(p, k) + Len(Log(p, k)) + 1>>, plugin |-> p,
                    sequence |-> Len(Log(p, k)) + 1, recorded_at |-> clock + 1,
                    checked |-> job.checked]
  OBVIOUS
<1>5. r = With(e, body) BY <1>1, <1>2, <1>4
<1>6. DOMAIN e = Envelope BY <1>4 DEF Envelope
<1>7. /\ r.event_id = e.event_id /\ r.plugin = e.plugin /\ r.recorded_at = e.recorded_at
      /\ r.checked = e.checked /\ "recorded_at" \in DOMAIN r
  BY <1>5, <1>6 DEF With, Envelope
<1>8. \A f \in DOMAIN body \ Envelope : r[f] = body[f] BY <1>5, <1>6 DEF With
<1>9. "kind" \in DOMAIN body \ Envelope BY <1>3 DEF Requested, Envelope
<1>10. r.kind = body.kind BY <1>8, <1>9
<1>11. From(pr, p, k, r) BY <1>1, <1>2, <1>3, <1>4, <1>7, <1>8 DEF From
<1> QED BY <1>1, <1>2, <1>3, <1>4, <1>7, <1>10, <1>11

\* What the logs hold after a record is added.
LEMMA LogAfter ==
  ASSUME Base, NEW p, NEW k, NEW r, Logged(p, k, r), NEW q \in Plugins, NEW j \in Kinds
  PROVE  /\ Len(Log(q, j)) \in Nat /\ DOMAIN Log(q, j) = 1..Len(Log(q, j))
         /\ DOMAIN Log(q, j)' = IF q = p /\ j = k THEN 1..(Len(Log(p, k)) + 1) ELSE DOMAIN Log(q, j)
         /\ \A i \in DOMAIN Log(q, j) : Log(q, j)'[i] = Log(q, j)[i]
         /\ q = p /\ j = k => Log(q, j)'[Len(Log(p, k)) + 1] = r
         /\ Gone(q, j)' = Gone(q, j) /\ Gone(q, j) \in Nat
<1>7. Gone(q, j)' = Gone(q, j) /\ Gone(q, j) \in Nat BY DEF Logged, Base, Shape, WsShape
<1>1. IsSeq(Log(q, j)) BY DEF Base, Shape, WsShape
<1>2. PICK s, t : s = Log(q, j) /\ t = Log(q, j)' OBVIOUS
<1>3. t = IF q = p /\ j = k THEN Append(s, r) ELSE s BY <1>2 DEF Logged
<1>4. Len(s) \in Nat /\ DOMAIN s = 1..Len(s) BY <1>1, <1>2, SeqDomain
<1>5. CASE q = p /\ j = k
  <2>1. t = Append(s, r) /\ IsSeq(s) BY <1>1, <1>2, <1>3, <1>5
  <2>2. DOMAIN t = 1..(Len(s) + 1) /\ t[Len(s) + 1] = r /\ \A i \in DOMAIN s : t[i] = s[i]
    BY <2>1, SeqAppend
  <2> QED BY <1>2, <1>4, <1>5, <1>7, <2>2
<1>6. CASE ~(q = p /\ j = k) BY <1>2, <1>3, <1>4, <1>6, <1>7
<1> QED BY <1>5, <1>6

LEMMA BaseInit == Init => Base
<1> SUFFICES ASSUME Init PROVE Base OBVIOUS
<1>1. \A p \in Plugins, k \in Kinds : Log(p, k) = <<>> BY DEF Init, Log
<1>2. IsSeq(<<>>) BY DEF IsSeq
<1>3. WsShape BY <1>1, <1>2 DEF Init, WsShape, Log, Gone
<1>4. LeftShape BY BudgetsAssumption DEF Init, LeftShape
<1>5. DOMAIN jobs = Procs /\ clock \in Nat /\ \A pr \in Procs : jobs[pr] = Idle
  BY DEF Init
<1>6. MirrorOK(Idle) /\ JobOK(Idle) BY DEF MirrorOK, JobOK, Waits, Idle
<1>7. \A p \in Plugins, k \in Kinds : DOMAIN Log(p, k) = {} BY <1>1
<1> QED BY <1>3, <1>4, <1>5, <1>6, <1>7 DEF Base, Shape, InOrder

LEMMA BaseInductive == Base /\ [Next]_vars => Base'
<1> SUFFICES ASSUME Base, [Next]_vars PROVE Base' OBVIOUS
<1>1. Shape' BY StepCases
<1>2. clock \in Nat BY DEF Base, Shape
<1>3. ASSUME Quiet PROVE Base'
  <2>1. \A p \in Plugins, k \in Kinds : Log(p, k)' = Log(p, k) /\ Gone(p, k)' = Gone(p, k)
    BY <1>3 DEF Quiet
  <2>5. clock <= clock' /\ clock' \in Nat BY <1>1, <1>3 DEF Quiet, Shape
  <2>2. ASSUME NEW p \in Plugins, NEW k \in Kinds, NEW i \in DOMAIN Log(p, k)'
        PROVE  RecordOK(p, k, i)'
    <3>1. RecordOK(p, k, i) BY <2>1 DEF Base
    <3> QED BY <1>2, <2>1, <2>5, <3>1 DEF RecordOK
  <2>3. \A p \in Plugins, k \in Kinds : InOrder(p, k)' BY <2>1 DEF Base, InOrder
  <2>4. ASSUME NEW pr \in Procs PROVE JobOK(jobs[pr])'
    <3>1. JobOK(jobs[pr]) BY DEF Base
    <3>2. CASE jobs'[pr] = jobs[pr] BY <1>2, <2>5, <3>1, <3>2 DEF JobOK
    <3>3. CASE ~Waits(jobs'[pr]) BY <3>3 DEF JobOK, Waits
    <3>4. CASE FoundGood(jobs'[pr]) BY <1>2, <2>5, <3>4 DEF JobOK, FoundGood
    <3>5. CASE WasHashed(jobs[pr], jobs'[pr])
      <4>1. PICK old, job : old = jobs[pr] /\ job = jobs'[pr] OBVIOUS
      <4>2. WasHashed(old, job) /\ Waits(old) BY <3>5, <4>1 DEF WasHashed, Waits
      <4>3. JobOK(old) BY <3>1, <4>1
      <4>4. PICK f : f = "artifact" OBVIOUS
      <4>5. Requested(old.body) BY <4>2, <4>3 DEF JobOK
      <4>6. SameBut(job.body, old.body, f) /\ f # "kind" BY <4>2, <4>4 DEF WasHashed, SameBut
      <4>7. Requested(job.body) /\ job.body.kind = old.body.kind
        BY <4>5, <4>6, StillRequested
      <4>8. JobOK(job) BY <4>2, <4>3, <4>7 DEF JobOK, WasHashed
      <4>9. job.checked \in Nat /\ job.checked <= clock BY <4>2, <4>8 DEF JobOK, WasHashed
      <4>10. job.checked <= clock' BY <1>2, <2>5, <4>9
      <4> QED BY <4>1, <4>8, <4>10 DEF JobOK
    <3> QED BY <1>3, <3>2, <3>3, <3>4, <3>5 DEF Quiet
  <2> QED BY <1>1, <2>2, <2>3, <2>4 DEF Base
<1>4. ASSUME NEW p, NEW k, NEW r, Logged(p, k, r) PROVE Base'
  <2>1. /\ r.event_id = <<p, k, Gone(p, k) + Len(Log(p, k)) + 1>> /\ r.plugin = p /\ r.kind = k
        /\ "recorded_at" \in DOMAIN r /\ r.recorded_at = clock + 1
        /\ r.checked \in Nat /\ r.checked <= clock
        /\ ~record_errors(k, r)
    BY <1>4, LoggedFields
  <2>2. p \in Plugins /\ k \in Kinds /\ clock' = clock + 1 BY <1>4 DEF Logged
  <2>3. ASSUME NEW q \in Plugins, NEW j \in Kinds, NEW i \in DOMAIN Log(q, j)'
        PROVE  RecordOK(q, j, i)'
    <3>1. CASE i \in DOMAIN Log(q, j)
      <4>1. RecordOK(q, j, i) /\ Log(q, j)'[i] = Log(q, j)[i] /\ Gone(q, j)' = Gone(q, j)
        BY <1>4, <3>1, LogAfter DEF Base
      <4> QED BY <1>2, <2>2, <4>1 DEF RecordOK
    <3>2. CASE i \notin DOMAIN Log(q, j)
      <4>1. /\ q = p /\ j = k /\ i = Len(Log(p, k)) + 1 /\ Log(q, j)'[i] = r
            /\ Gone(q, j)' = Gone(q, j) /\ Gone(q, j) \in Nat /\ Len(Log(q, j)) \in Nat
        BY <1>4, <3>2, LogAfter
      <4>2. Gone(p, k) + Len(Log(p, k)) + 1 = Gone(q, j)' + i BY <4>1
      <4> QED BY <1>2, <2>1, <2>2, <4>1, <4>2 DEF RecordOK
    <3> QED BY <3>1, <3>2
  <2>4. ASSUME NEW q \in Plugins, NEW j \in Kinds PROVE InOrder(q, j)'
    <3>1. PICK s, t, n : s = Log(q, j) /\ t = Log(q, j)' /\ n = Len(Log(q, j)) OBVIOUS
    <3>2. /\ n \in Nat /\ DOMAIN s = 1..n
          /\ DOMAIN t = 1..n \/ (DOMAIN t = 1..(n + 1) /\ t[n + 1] = r)
          /\ \A i \in 1..n : t[i] = s[i]
      BY <1>4, <3>1, LogAfter
    <3>3. \A i \in 1..n : s[i].recorded_at \in Nat /\ s[i].recorded_at <= clock
      BY <3>1, <3>2 DEF Base, RecordOK
    <3>4. \A i, l \in 1..n : i < l => s[i].recorded_at < s[l].recorded_at
      BY <3>1, <3>2 DEF Base, InOrder
    <3>5. ASSUME NEW i \in DOMAIN t, NEW l \in DOMAIN t, i < l
          PROVE  t[i].recorded_at < t[l].recorded_at
      <4>1. i \in 1..n /\ t[i] = s[i] BY <3>2, <3>5
      <4>2. CASE l \in 1..n BY <3>2, <3>4, <3>5, <4>1, <4>2
      <4>3. CASE l \notin 1..n
        <5>1. t[l] = r BY <3>2, <4>3
        <5> QED BY <1>2, <2>1, <3>3, <4>1, <5>1
      <4> QED BY <4>2, <4>3
    <3> QED BY <3>1, <3>5 DEF InOrder
  <2>5. ASSUME NEW pr \in Procs PROVE JobOK(jobs[pr])'
    <3>1. JobOK(jobs[pr]) BY DEF Base
    <3>2. jobs'[pr] = jobs[pr] \/ jobs'[pr] = Idle BY <1>4 DEF Logged
    <3>3. CASE jobs'[pr] = jobs[pr] BY <1>2, <2>2, <3>1, <3>3 DEF JobOK
    <3>4. CASE jobs'[pr] = Idle BY <3>4 DEF JobOK, Waits, Idle
    <3> QED BY <3>2, <3>3, <3>4
  <2> QED BY <1>1, <2>3, <2>4, <2>5 DEF Base
<1>5. ASSUME NEW p \in Plugins, NEW k \in Kinds, Moved(p, k) PROVE Base'
  <2>1. jobs' = jobs /\ clock' = clock BY <1>5 DEF Moved
  <2>2. \A pr \in Procs : JobOK(jobs[pr])' BY <2>1 DEF Base, JobOK
  <2>3. ASSUME NEW q \in Plugins, NEW j \in Kinds
        PROVE  InOrder(q, j)' /\ \A i \in DOMAIN Log(q, j)' : RecordOK(q, j, i)'
    <3>1. CASE q = p /\ j = k
      <4>1. Log(q, j)' = <<>> BY <1>5, <3>1 DEF Moved
      <4>2. DOMAIN Log(q, j)' = {} BY <4>1
      <4> QED BY <4>2 DEF InOrder
    <3>2. CASE ~(q = p /\ j = k)
      <4>1. Log(q, j)' = Log(q, j) /\ Gone(q, j)' = Gone(q, j) BY <1>5, <3>2 DEF Moved
      <4>2. InOrder(q, j)' BY <4>1 DEF Base, InOrder
      <4>3. \A i \in DOMAIN Log(q, j) : RecordOK(q, j, i) BY DEF Base
      <4> QED BY <2>1, <4>1, <4>2, <4>3 DEF RecordOK
    <3> QED BY <3>1, <3>2
  <2> QED BY <1>1, <2>2, <2>3 DEF Base
<1> QED BY <1>3, <1>4, <1>5, StepCases

\* However many record at once, and whatever is damaged and begun anew: every log
\* is the records that were appended to it since, in the order of their times,
\* each with its own place for an event id, and what a recorder carries to its
\* log is a record that was checked before (_append).
THEOREM BaseHolds == Spec => []Base
<1>1. Init => Base BY BaseInit
<1>2. Base /\ [Next]_vars => Base' BY BaseInductive
<1> QED BY <1>1, <1>2, PTL DEF Spec

-----------------------------------------------------------------------------
(* What a check found goes on being true of what the logs held then.       *)

\* The impression that a reference means is in its author's logs, or was moved
\* aside with one of them.
Exists(ref) ==
  /\ ref.system \in Plugins
  /\ MovedAside(ref) \/ \E r \in Impressions(ws, ref.system) : r.event_id = ref.event_id

\* No log of statuses was moved aside.
StatusesKept == \A p \in Plugins : Gone(p, "insight_status") = 0

\* Nothing that was disputed by time t is repeated.
NoRepeat(rec, p, t) ==
  \A q \in Plugins : \A o \in Impressions(ws, q) : \A u \in o.upstream :
    o.recorded_at <= t /\ u.disposition = "disputed" /\ u.system = p =>
      \A r \in Impressions(ws, p) : r.event_id = u.event_id =>
        \A c \in rec.facets.concerns : \A d \in r.facets.concerns :
          /\ AtLeast(c.text, d.text, 3, 5) /\ c.about = d.about
          /\ u.concern_ids = {} \/ d.id \in u.concern_ids
          => _artifact_set(rec) # _artifact_set(r)

\* The statuses of an insight by time t, and the one that counts.
StatusesBy(i, ref, t) ==
  {<<i, n>> : n \in {m \in DOMAIN Log(PluginOrder[i], "insight_status") :
                       /\ Log(PluginOrder[i], "insight_status")[m].insight = ref
                       /\ Log(PluginOrder[i], "insight_status")[m].recorded_at <= t}}
HistoryAt(ref, t) == UNION {StatusesBy(i, ref, t) : i \in DOMAIN PluginOrder}
StatusOf(place) == Log(PluginOrder[place[1]], "insight_status")[place[2]].status
StatusAt(ref, t) ==
  IF HistoryAt(ref, t) = {} THEN "proposed" ELSE StatusOf(LastOf(HistoryAt(ref, t)))

\* What the check of a request at time t leaves behind.
Sound(rec, k, p, t) ==
  /\ k \in ImpressionKinds => (\A u \in rec.upstream : Exists(u)) /\ NoRepeat(rec, p, t)
  /\ k = "upstream_read" => \A ref \in rec.refs : Exists(ref)
  /\ k = "insight_status" /\ StatusesKept =>
       rec.status \in INSIGHT_TRANSITIONS[StatusAt(rec.insight, t)]

SoundInv ==
  /\ \A p \in Plugins, k \in Kinds : \A i \in DOMAIN Log(p, k) :
       Sound(Log(p, k)[i], k, p, Log(p, k)[i].checked)
  /\ \A pr \in Procs : Waits(jobs[pr]) =>
       Sound(jobs[pr].body, jobs[pr].body.kind, jobs[pr].plugin, jobs[pr].checked)

\* An impression is a record of one of two logs.
LEMMA InImpressions ==
  ASSUME NEW q, NEW o
  PROVE  o \in Impressions(ws, q)
           <=> \E k \in ImpressionKinds : \E i \in DOMAIN Log(q, k) : o = Log(q, k)[i]
BY DEF Impressions, Of, Log

LEMMA OldImpressions ==
  ASSUME Base, NEW q \in Plugins, NEW o \in Impressions(ws, q)
  PROVE  /\ o.recorded_at \in Nat /\ o.recorded_at <= clock /\ o.checked \in Nat
         /\ o.checked < o.recorded_at
         /\ \E k \in ImpressionKinds : \E i \in DOMAIN Log(q, k) :
              o = Log(q, k)[i] /\ o.event_id = <<q, k, Gone(q, k) + i>>
<1>1. PICK k \in ImpressionKinds : \E i \in DOMAIN Log(q, k) : o = Log(q, k)[i] BY InImpressions
<1>2. PICK i \in DOMAIN Log(q, k) : o = Log(q, k)[i] BY <1>1
<1>3. k \in Kinds BY DEF ImpressionKinds, Kinds
<1>4. RecordOK(q, k, i) BY <1>3 DEF Base
<1> QED BY <1>2, <1>4 DEF RecordOK

\* A number beyond those moved aside.
Beyond(q, id) == \E k \in ImpressionKinds : \E n \in Nat : n > Gone(q, k) /\ id = <<q, k, n>>

LEMMA OldAreBeyond ==
  ASSUME Base, NEW q \in Plugins, NEW o \in Impressions(ws, q)
  PROVE  Beyond(q, o.event_id)
<1>1. PICK k \in ImpressionKinds : \E i \in DOMAIN Log(q, k) : o.event_id = <<q, k, Gone(q, k) + i>>
  BY OldImpressions
<1>2. PICK i \in DOMAIN Log(q, k) : o.event_id = <<q, k, Gone(q, k) + i>> BY <1>1
<1>3. k \in Kinds BY DEF ImpressionKinds, Kinds
<1>4. PICK s : s = Log(q, k) OBVIOUS
<1>5. IsSeq(s) /\ Gone(q, k) \in Nat BY <1>3, <1>4 DEF Base, Shape, WsShape
<1>6. i \in 1..Len(s) /\ Len(s) \in Nat BY <1>2, <1>4, <1>5, SeqDomain
<1>7. PICK n : n = Gone(q, k) + i OBVIOUS
<1>8. n \in Nat /\ n > Gone(q, k) BY <1>5, <1>6, <1>7
<1> QED BY <1>2, <1>7, <1>8 DEF Beyond

\* What is still there was not moved aside.
LEMMA BeyondIsNotMoved ==
  ASSUME Base, NEW ref, ref.system \in Plugins, Beyond(ref.system, ref.event_id)
  PROVE  ~MovedAside(ref)
<1>1. PICK q : q = ref.system OBVIOUS
<1>2. PICK k \in ImpressionKinds : \E n \in Nat : n > Gone(q, k) /\ ref.event_id = <<q, k, n>>
  BY <1>1 DEF Beyond
<1>3. PICK n \in Nat : n > Gone(q, k) /\ ref.event_id = <<q, k, n>> BY <1>2
<1>4. ASSUME NEW j \in ImpressionKinds, NEW m \in 1..Gone(q, j), ref.event_id = <<q, j, m>> PROVE FALSE
  <2>1. j = k /\ m = n BY <1>3, <1>4
  <2>2. k \in Kinds BY DEF ImpressionKinds, Kinds
  <2>3. Gone(q, k) \in Nat BY <1>1, <2>2 DEF Base, Shape, WsShape
  <2> QED BY <1>3, <1>4, <2>1, <2>3
<1> QED BY <1>1, <1>4 DEF MovedAside, Gone

\* An impression that is added has a time and an event id of its own.
LEMMA NewImpressions ==
  ASSUME Base, [Next]_vars, NEW q \in Plugins, NEW o \in Impressions(ws, q)', o \notin Impressions(ws, q)
  PROVE  /\ o.recorded_at = clock + 1 /\ Beyond(q, o.event_id)
         /\ \A e \in Impressions(ws, q) : o.event_id # e.event_id
<1>1. PICK k \in ImpressionKinds : \E i \in DOMAIN Log(q, k)' : o = Log(q, k)'[i]
  BY DEF Impressions, Of, Log
<1>2. PICK i \in DOMAIN Log(q, k)' : o = Log(q, k)'[i] BY <1>1
<1>3. k \in Kinds BY DEF ImpressionKinds, Kinds
<1>4. Log(q, k)' # Log(q, k) BY <1>2, InImpressions
<1>5. ~Quiet BY <1>3, <1>4 DEF Quiet
<1>6. ASSUME NEW p \in Plugins, NEW j \in Kinds, Moved(p, j) PROVE FALSE
  <2>1. Log(q, k)' = <<>> BY <1>3, <1>4, <1>6 DEF Moved
  <2>2. DOMAIN Log(q, k)' = {} BY <2>1
  <2> QED BY <1>2, <2>2
<1>7. PICK p, j, r : Logged(p, j, r) BY <1>5, <1>6, StepCases
<1>8. i \notin DOMAIN Log(q, k)
  <2>1. ASSUME i \in DOMAIN Log(q, k) PROVE FALSE
    <3>1. o = Log(q, k)[i] BY <1>2, <1>3, <1>7, <2>1, LogAfter
    <3> QED BY <2>1, <3>1, InImpressions
  <2> QED BY <2>1
<1>9. q = p /\ k = j /\ o = r BY <1>2, <1>3, <1>7, <1>8, LogAfter
<1>10. PICK n, g : n = Len(Log(p, j)) /\ g = Gone(p, j) OBVIOUS
<1>11. r.recorded_at = clock + 1 /\ r.event_id = <<p, j, g + n + 1>> BY <1>7, <1>10, LoggedFields
<1>12. n \in Nat /\ g \in Nat /\ DOMAIN Log(p, j) = 1..n BY <1>3, <1>7, <1>9, <1>10, LogAfter
<1>13. ASSUME NEW e \in Impressions(ws, q), o.event_id = e.event_id PROVE FALSE
  <2>1. PICK l \in ImpressionKinds : \E h \in DOMAIN Log(q, l) : e.event_id = <<q, l, Gone(q, l) + h>>
    BY OldImpressions
  <2>2. PICK h \in DOMAIN Log(q, l) : e.event_id = <<q, l, Gone(q, l) + h>> BY <2>1
  <2>3. l = j /\ Gone(q, l) + h = g + n + 1 BY <1>9, <1>11, <1>13, <2>2
  <2>4. h \in 1..n BY <1>9, <1>12, <2>2, <2>3
  <2> QED BY <1>9, <1>10, <1>12, <2>3, <2>4
<1>14. PICK m : m = g + n + 1 OBVIOUS
<1>15. m \in Nat /\ m > g BY <1>12, <1>14
<1>16. Beyond(q, o.event_id) BY <1>9, <1>10, <1>11, <1>14, <1>15 DEF Beyond
<1> QED BY <1>9, <1>11, <1>13, <1>16

\* An impression stays until it is moved aside.
LEMMA ImpressionsStay ==
  ASSUME Base, [Next]_vars, NEW q \in Plugins, NEW o \in Impressions(ws, q)
  PROVE  \/ o \in Impressions(ws, q)'
         \/ \E k \in ImpressionKinds : \E n \in 1..Gone(q, k)' : o.event_id = <<q, k, n>>
<1>1. PICK k \in ImpressionKinds : \E i \in DOMAIN Log(q, k) :
        o = Log(q, k)[i] /\ o.event_id = <<q, k, Gone(q, k) + i>>
  BY OldImpressions
<1>2. PICK i \in DOMAIN Log(q, k) : o = Log(q, k)[i] /\ o.event_id = <<q, k, Gone(q, k) + i>> BY <1>1
<1>3. k \in Kinds BY DEF ImpressionKinds, Kinds
<1>4. i \in DOMAIN Log(q, k)' /\ Log(q, k)'[i] = o => o \in Impressions(ws, q)'
  BY DEF Impressions, Of, Log
<1>5. CASE Quiet
  <2>1. Log(q, k)' = Log(q, k) BY <1>3, <1>5 DEF Quiet
  <2> QED BY <1>2, <1>4, <2>1
<1>6. ASSUME NEW p, NEW j, NEW r, Logged(p, j, r) PROVE o \in Impressions(ws, q)'
  <2>1. i \in DOMAIN Log(q, k)' /\ Log(q, k)'[i] = o BY <1>2, <1>3, <1>6, LogAfter
  <2> QED BY <1>4, <2>1
<1>7. ASSUME NEW p \in Plugins, NEW j \in Kinds, Moved(p, j)
      PROVE  \/ o \in Impressions(ws, q)'
             \/ \E l \in ImpressionKinds : \E n \in 1..Gone(q, l)' : o.event_id = <<q, l, n>>
  <2>1. CASE q = p /\ k = j
    <3>1. PICK s : s = Log(q, k) OBVIOUS
    <3>2. IsSeq(s) /\ Gone(q, k) \in Nat BY <1>3, <3>1 DEF Base, Shape, WsShape
    <3>3. i \in 1..Len(s) /\ Len(s) \in Nat BY <1>2, <3>1, <3>2, SeqDomain
    <3>4. Gone(q, k)' = Gone(q, k) + Len(s) BY <1>7, <2>1, <3>1 DEF Moved
    <3>5. PICK n : n = Gone(q, k) + i OBVIOUS
    <3>6. n \in 1..Gone(q, k)' BY <3>2, <3>3, <3>4, <3>5
    <3> QED BY <1>2, <3>5, <3>6
  <2>2. CASE ~(q = p /\ k = j)
    <3>1. Log(q, k)' = Log(q, k) BY <1>3, <1>7, <2>2 DEF Moved
    <3> QED BY <1>2, <1>4, <3>1
  <2> QED BY <2>1, <2>2
<1> QED BY <1>5, <1>6, <1>7, StepCases

\* More and more is moved aside.
LEMMA GoneGrows ==
  ASSUME Base, [Next]_vars, NEW q \in Plugins, NEW k \in Kinds
  PROVE  Gone(q, k) \in Nat /\ Gone(q, k)' \in Nat /\ Gone(q, k) <= Gone(q, k)'
<1>1. Gone(q, k) \in Nat /\ IsSeq(Log(q, k)) BY DEF Base, Shape, WsShape
<1>2. Gone(q, k)' \in Nat BY StepCases DEF Shape, WsShape
<1>3. PICK s : s = Log(q, k) OBVIOUS
<1>4. Len(s) \in Nat BY <1>1, <1>3, SeqDomain
<1>5. Quiet => Gone(q, k)' = Gone(q, k) BY DEF Quiet
<1>6. (\E p, j, r : Logged(p, j, r)) => Gone(q, k)' = Gone(q, k) BY DEF Logged
<1>7. ASSUME NEW p \in Plugins, NEW j \in Kinds, Moved(p, j)
      PROVE  Gone(q, k)' = Gone(q, k) \/ Gone(q, k)' = Gone(q, k) + Len(s)
  BY <1>3, <1>7 DEF Moved
<1> QED BY <1>1, <1>2, <1>4, <1>5, <1>6, <1>7, StepCases

\* What exists does not go away, but may be moved aside.
LEMMA ExistsKept ==
  ASSUME Base, [Next]_vars, NEW ref, Exists(ref)
  PROVE  Exists(ref)'
<1>1. PICK q : q = ref.system OBVIOUS
<1>2. q \in Plugins BY <1>1 DEF Exists
<1>3. MovedAside(ref) => MovedAside(ref)'
  <2>1. \A k \in ImpressionKinds :
          Gone(q, k) \in Nat /\ Gone(q, k)' \in Nat /\ Gone(q, k) <= Gone(q, k)'
    BY <1>2, GoneGrows DEF ImpressionKinds, Kinds
  <2>2. ASSUME NEW k \in ImpressionKinds, NEW n \in 1..Gone(q, k) PROVE n \in 1..Gone(q, k)'
    BY <2>1, <2>2
  <2> QED BY <1>1, <2>2 DEF MovedAside, Gone
<1>4. ASSUME NEW r \in Impressions(ws, q), r.event_id = ref.event_id PROVE Exists(ref)'
  <2>1. \/ r \in Impressions(ws, q)'
        \/ \E k \in ImpressionKinds : \E n \in 1..Gone(q, k)' : r.event_id = <<q, k, n>>
    BY <1>2, ImpressionsStay
  <2> QED BY <1>1, <1>2, <1>4, <2>1 DEF Exists, MovedAside, Gone
<1> QED BY <1>1, <1>2, <1>3, <1>4 DEF Exists

\* The disputes by a time that has passed are still the same, or fewer.
LEMMA NoRepeatKept ==
  ASSUME Base, SoundInv, [Next]_vars, NEW rec, NEW p \in Plugins, NEW t \in Nat, t <= clock,
         NoRepeat(rec, p, t)
  PROVE  NoRepeat(rec, p, t)'
<1> SUFFICES ASSUME NEW q \in Plugins, NEW o \in Impressions(ws, q)', NEW u \in o.upstream,
                    o.recorded_at <= t, u.disposition = "disputed", u.system = p,
                    NEW r \in Impressions(ws, p)', r.event_id = u.event_id,
                    NEW c \in rec.facets.concerns, NEW d \in r.facets.concerns,
                    AtLeast(c.text, d.text, 3, 5), c.about = d.about,
                    u.concern_ids = {} \/ d.id \in u.concern_ids
             PROVE  _artifact_set(rec) # _artifact_set(r)
  BY DEF NoRepeat
<1>1. clock \in Nat BY DEF Base, Shape
<1>2. o \in Impressions(ws, q) BY <1>1, NewImpressions
<1>3. PICK k \in ImpressionKinds : \E i \in DOMAIN Log(q, k) : o = Log(q, k)[i]
  BY <1>2, InImpressions
<1>4. Exists(u) BY <1>3 DEF SoundInv, Sound, ImpressionKinds, Kinds
<1>5. ASSUME r \notin Impressions(ws, p) PROVE FALSE
  <2>1. Beyond(p, r.event_id) /\ \A e \in Impressions(ws, p) : r.event_id # e.event_id
    BY <1>5, NewImpressions
  <2>2. ~MovedAside(u) BY <2>1, BeyondIsNotMoved
  <2> QED BY <1>4, <2>1, <2>2 DEF Exists
<1> QED BY <1>2, <1>5 DEF NoRepeat

\* A set of numbers up to n has a last one: its members from p on are finite
\* sets, and a smallest of them in the order of inclusion is a singleton.
LEMMA HasLast ==
  ASSUME NEW n \in Nat, NEW S, S \subseteq 1..n, S # {}
  PROVE  \E p \in S : \A q \in S : q <= p
<1> DEFINE Since(p) == {q \in S : p <= q}
           Tails == {Since(p) : p \in S}
<1>9. IsFiniteSet(1..n) BY FS_Interval
<1>1. IsFiniteSet(S) BY <1>9, FS_Subset
<1>2. \A p \in S : Since(p) \subseteq S /\ IsFiniteSet(Since(p)) BY <1>1, FS_Subset
<1>3. Tails \subseteq FiniteSubsetsOf(S) BY <1>2 DEF FiniteSubsetsOf
<1>4. Tails # {} OBVIOUS
<1>5. IsWellFoundedOn(StrictSubsetOrdering(S), FiniteSubsetsOf(S))
  BY FS_StrictSubsetOrderingWellFounded
<1> HIDE DEF Tails
<1>6. PICK x \in Tails : \A y \in Tails : <<y, x>> \notin StrictSubsetOrdering(S)
  BY <1>3, <1>4, <1>5, WFMin
<1> USE DEF Tails
<1>7. PICK p \in S : x = Since(p) BY <1>6
<1>8. ASSUME NEW q \in S, ~(q <= p) PROVE FALSE
  <2>1. PICK y : y = Since(q) OBVIOUS
  <2>2. p \in Since(p) /\ p \notin Since(q) /\ \A z \in Since(q) : z \in Since(p)
    <3>1. p \in Nat /\ q \in Nat /\ \A z \in S : z \in Nat OBVIOUS
    <3> QED BY <1>8, <3>1
  <2>3. y \in Tails BY <2>1
  <2>4. <<y, x>> \in StrictSubsetOrdering(S) BY <1>7, <2>1, <2>2 DEF StrictSubsetOrdering
  <2> HIDE DEF Tails
  <2> QED BY <1>6, <2>3, <2>4
<1> QED BY <1>8

\* Of some places in n lists there is a last one.
LEMMA LastPlace ==
  ASSUME NEW S, S # {}, NEW n \in Nat, NEW len,
         \A a \in S : a[1] \in 1..n /\ len[a[1]] \in Nat /\ a[2] \in 1..len[a[1]]
  PROVE  /\ LastOf(S) \in S
         /\ \A b \in S : \/ b[1] < LastOf(S)[1]
                         \/ b[1] = LastOf(S)[1] /\ b[2] <= LastOf(S)[2]
<1> DEFINE Lists == {a[1] : a \in S}
<1>1. Lists \subseteq 1..n /\ Lists # {} OBVIOUS
<1>2. PICK i \in Lists : \A j \in Lists : j <= i BY <1>1, HasLast
<1> DEFINE Places == {a[2] : a \in {b \in S : b[1] = i}}
<1>3. PICK m \in Nat : m = len[i] BY <1>2
<1>4. Places \subseteq 1..m /\ Places # {} BY <1>2, <1>3
<1>5. PICK h \in Places : \A j \in Places : j <= h BY <1>3, <1>4, HasLast
<1>6. PICK a \in S : a[1] = i /\ a[2] = h BY <1>5
<1>7. ASSUME NEW b \in S PROVE b[1] < a[1] \/ (b[1] = a[1] /\ b[2] <= a[2])
  <2>1. b[1] <= i /\ b[1] \in Nat /\ i \in Nat BY <1>1, <1>2
  <2>2. b[1] = i => b[2] <= h BY <1>5
  <2> QED BY <1>6, <2>1, <2>2
<1> QED BY <1>6, <1>7 DEF LastOf

\* The places of an insight's statuses, and the last of them.
LEMMA Places ==
  ASSUME Base, NEW ref, NEW t
  PROVE  /\ \A a : a \in HistoryAt(ref, t) <=>
               \E i \in DOMAIN PluginOrder :
                 \E n \in DOMAIN Log(PluginOrder[i], "insight_status") :
                   /\ a = <<i, n>> /\ Log(PluginOrder[i], "insight_status")[n].insight = ref
                   /\ Log(PluginOrder[i], "insight_status")[n].recorded_at <= t
         /\ HistoryAt(ref, t) # {} =>
              /\ LastOf(HistoryAt(ref, t)) \in HistoryAt(ref, t)
              /\ \A b \in HistoryAt(ref, t) :
                   \/ b[1] < LastOf(HistoryAt(ref, t))[1]
                   \/ b[1] = LastOf(HistoryAt(ref, t))[1] /\ b[2] <= LastOf(HistoryAt(ref, t))[2]
<1>1. \A a : a \in HistoryAt(ref, t) <=>
        \E i \in DOMAIN PluginOrder :
          \E n \in DOMAIN Log(PluginOrder[i], "insight_status") :
            /\ a = <<i, n>> /\ Log(PluginOrder[i], "insight_status")[n].insight = ref
            /\ Log(PluginOrder[i], "insight_status")[n].recorded_at <= t
  BY DEF HistoryAt, StatusesBy
<1>2. PICK S, len, m : /\ S = HistoryAt(ref, t) /\ m = Len(PluginOrder)
                       /\ len = [i \in DOMAIN PluginOrder |-> Len(Log(PluginOrder[i], "insight_status"))]
  OBVIOUS
<1>3. m \in Nat /\ DOMAIN PluginOrder = 1..m BY <1>2, OrderAssumption, LenProperties
<1>4. ASSUME NEW a \in S
      PROVE  a[1] \in 1..m /\ len[a[1]] \in Nat /\ a[2] \in 1..len[a[1]]
  <2>1. PICK i \in DOMAIN PluginOrder :
          \E n \in DOMAIN Log(PluginOrder[i], "insight_status") : a = <<i, n>>
    BY <1>1, <1>2
  <2>2. PICK n \in DOMAIN Log(PluginOrder[i], "insight_status") : a = <<i, n>> BY <2>1
  <2>3. PluginOrder[i] \in Plugins /\ "insight_status" \in Kinds BY DEF Plugins, Kinds
  <2>4. PICK s : s = Log(PluginOrder[i], "insight_status") OBVIOUS
  <2>5. IsSeq(s) BY <2>3, <2>4 DEF Base, Shape, WsShape
  <2>6. Len(s) \in Nat /\ DOMAIN s = 1..Len(s) BY <2>5, SeqDomain
  <2>7. len[i] = Len(s) BY <1>2, <2>4
  <2> QED BY <1>3, <2>2, <2>4, <2>6, <2>7
<1>5. S # {} => /\ LastOf(S) \in S
                /\ \A b \in S : \/ b[1] < LastOf(S)[1]
                                \/ b[1] = LastOf(S)[1] /\ b[2] <= LastOf(S)[2]
  BY <1>3, <1>4, LastPlace
<1> QED BY <1>1, <1>2, <1>5

\* A record stays the same while it is in its log.
LEMMA SameRecords ==
  ASSUME Base, [Next]_vars, NEW q \in Plugins, NEW k \in Kinds,
         NEW i, i \in DOMAIN Log(q, k), i \in DOMAIN Log(q, k)'
  PROVE  Log(q, k)'[i] = Log(q, k)[i]
<1>1. CASE Quiet BY <1>1 DEF Quiet
<1>2. ASSUME NEW p, NEW j, NEW r, Logged(p, j, r) PROVE Log(q, k)'[i] = Log(q, k)[i]
  BY <1>2, LogAfter
<1>3. ASSUME NEW p \in Plugins, NEW j \in Kinds, Moved(p, j) PROVE Log(q, k)'[i] = Log(q, k)[i]
  <2>1. Log(q, k)' = <<>> \/ Log(q, k)' = Log(q, k) BY <1>3 DEF Moved
  <2>2. DOMAIN <<>> = {} OBVIOUS
  <2> QED BY <2>1, <2>2
<1> QED BY <1>1, <1>2, <1>3, StepCases

\* A log only grows unless it is moved aside.
LEMMA LogsGrow ==
  ASSUME Base, [Next]_vars, NEW q \in Plugins, NEW k \in Kinds, Gone(q, k)' = Gone(q, k)
  PROVE  /\ DOMAIN Log(q, k) \subseteq DOMAIN Log(q, k)'
         /\ \A i \in DOMAIN Log(q, k) : Log(q, k)'[i] = Log(q, k)[i]
<1>1. CASE Quiet BY <1>1 DEF Quiet
<1>2. ASSUME NEW p, NEW j, NEW r, Logged(p, j, r) PROVE DOMAIN Log(q, k) \subseteq DOMAIN Log(q, k)'
  BY <1>2, LogAfter
<1>3. ASSUME NEW p \in Plugins, NEW j \in Kinds, Moved(p, j)
      PROVE  DOMAIN Log(q, k) \subseteq DOMAIN Log(q, k)'
  <2>1. CASE q = p /\ k = j
    <3>1. PICK s : s = Log(q, k) OBVIOUS
    <3>2. IsSeq(s) /\ Gone(q, k) \in Nat BY <3>1 DEF Base, Shape, WsShape
    <3>3. DOMAIN s = 1..Len(s) /\ Len(s) \in Nat BY <3>2, SeqDomain
    <3>4. Gone(q, k)' = Gone(q, k) + Len(s) BY <1>3, <2>1, <3>1 DEF Moved
    <3>5. Len(s) = 0 BY <3>2, <3>3, <3>4
    <3>6. DOMAIN s = {} BY <3>3, <3>5
    <3> QED BY <3>1, <3>6
  <2>2. CASE ~(q = p /\ k = j) BY <1>3, <2>2 DEF Moved
  <2> QED BY <2>1, <2>2
<1>4. DOMAIN Log(q, k) \subseteq DOMAIN Log(q, k)' BY <1>1, <1>2, <1>3, StepCases
<1> QED BY <1>4, SameRecords

\* A record that was not there has the time of the step.
LEMMA NewAreLater ==
  ASSUME Base, [Next]_vars, NEW q \in Plugins, NEW k \in Kinds,
         NEW i, i \in DOMAIN Log(q, k)', i \notin DOMAIN Log(q, k)
  PROVE  /\ Log(q, k)'[i].recorded_at = clock + 1 /\ clock' = clock + 1
         /\ \E p, j, r : Logged(p, j, r)
<1>1. ~Quiet BY DEF Quiet
<1>6. ASSUME NEW p \in Plugins, NEW j \in Kinds, Moved(p, j) PROVE FALSE
  <2>1. Log(q, k)' = <<>> \/ Log(q, k)' = Log(q, k) BY <1>6 DEF Moved
  <2>2. DOMAIN <<>> = {} OBVIOUS
  <2> QED BY <2>1, <2>2
<1>2. PICK p, j, r : Logged(p, j, r) BY <1>1, <1>6, StepCases
<1>3. q = p /\ k = j /\ Log(q, k)'[i] = r BY <1>2, LogAfter
<1>4. r.recorded_at = clock + 1 BY <1>2, LoggedFields
<1>5. clock' = clock + 1 BY <1>2 DEF Logged
<1> QED BY <1>2, <1>3, <1>4, <1>5

\* What counted at a time that has passed still did.
LEMMA StatusKept ==
  ASSUME Base, [Next]_vars, NEW ref, NEW t \in Nat, t <= clock, StatusesKept'
  PROVE  StatusAt(ref, t)' = StatusAt(ref, t)
<1>1. clock \in Nat /\ "insight_status" \in Kinds BY DEF Base, Shape, Kinds
<1>2. \A i \in DOMAIN PluginOrder : PluginOrder[i] \in Plugins BY DEF Plugins
<1>3. ASSUME NEW i \in DOMAIN PluginOrder
      PROVE  /\ DOMAIN Log(PluginOrder[i], "insight_status") \subseteq
                  DOMAIN Log(PluginOrder[i], "insight_status")'
             /\ \A n \in DOMAIN Log(PluginOrder[i], "insight_status") :
                  Log(PluginOrder[i], "insight_status")'[n] = Log(PluginOrder[i], "insight_status")[n]
             /\ \A n \in DOMAIN Log(PluginOrder[i], "insight_status")' :
                  Log(PluginOrder[i], "insight_status")'[n].recorded_at <= t =>
                    n \in DOMAIN Log(PluginOrder[i], "insight_status")
  <2>1. PICK q, j : q = PluginOrder[i] /\ j = "insight_status" OBVIOUS
  <2>2. q \in Plugins /\ j \in Kinds BY <1>1, <1>2, <2>1
  <2>3. Gone(q, j)' = 0 BY <2>1, <2>2 DEF StatusesKept
  <2>4. Gone(q, j)' = Gone(q, j) BY <2>2, <2>3, GoneGrows
  <2>5. /\ DOMAIN Log(q, j) \subseteq DOMAIN Log(q, j)'
        /\ \A n \in DOMAIN Log(q, j) : Log(q, j)'[n] = Log(q, j)[n]
    BY <2>2, <2>4, LogsGrow
  <2>6. \A n \in DOMAIN Log(q, j)' : Log(q, j)'[n].recorded_at <= t => n \in DOMAIN Log(q, j)
    BY <1>1, <2>2, NewAreLater
  <2> QED BY <2>1, <2>5, <2>6
<1>4. ASSUME NEW i \in DOMAIN PluginOrder PROVE StatusesBy(i, ref, t)' = StatusesBy(i, ref, t)
  BY <1>3 DEF StatusesBy
<1>5. HistoryAt(ref, t)' = HistoryAt(ref, t) BY <1>4 DEF HistoryAt
<1>6. CASE HistoryAt(ref, t) = {} BY <1>5, <1>6 DEF StatusAt
<1>7. CASE HistoryAt(ref, t) # {}
  <2>1. PICK last : last = LastOf(HistoryAt(ref, t)) OBVIOUS
  <2>2. last \in HistoryAt(ref, t) BY <1>7, <2>1, Places
  <2>3. PICK i \in DOMAIN PluginOrder :
          \E n \in DOMAIN Log(PluginOrder[i], "insight_status") : last = <<i, n>>
    BY <2>2, Places
  <2>4. PICK n \in DOMAIN Log(PluginOrder[i], "insight_status") : last = <<i, n>> BY <2>3
  <2>5. StatusOf(last)' = StatusOf(last) BY <1>3, <2>4 DEF StatusOf
  <2> QED BY <1>5, <1>7, <2>1, <2>5 DEF StatusAt
<1> QED BY <1>6, <1>7

\* The statuses so far are those by now.
LEMMA CurrentIsNow ==
  ASSUME Base, NEW ref
  PROVE  current(ws, ref) = StatusAt(ref, clock)
<1>1. ASSUME NEW i \in DOMAIN PluginOrder PROVE StatusesIn(ws, i, ref) = StatusesBy(i, ref, clock)
  <2>1. PluginOrder[i] \in Plugins /\ "insight_status" \in Kinds BY DEF Plugins, Kinds
  <2>2. \A n \in DOMAIN Log(PluginOrder[i], "insight_status") :
          Log(PluginOrder[i], "insight_status")[n].recorded_at <= clock
    BY <2>1 DEF Base, RecordOK
  <2> QED BY <2>2 DEF StatusesIn, StatusesBy, Log
<1>2. insight_history(ws, ref) = HistoryAt(ref, clock) BY <1>1 DEF insight_history, HistoryAt
<1> QED BY <1>2 DEF current, StatusAt, StatusOf, Log

\* Whoever repeats a dispute is told so.
LEMMA ToldSo ==
  ASSUME NEW draft, NEW p, ~reraise_errors(draft, p, ws)
  PROVE  NoRepeat(draft, p, clock)
<1> SUFFICES ASSUME NEW q \in Plugins, NEW o \in Impressions(ws, q), NEW u \in o.upstream,
                    u.disposition = "disputed", u.system = p,
                    NEW r \in Impressions(ws, p), r.event_id = u.event_id,
                    NEW c \in draft.facets.concerns, NEW d \in r.facets.concerns,
                    AtLeast(c.text, d.text, 3, 5), c.about = d.about,
                    u.concern_ids = {} \/ d.id \in u.concern_ids,
                    _artifact_set(draft) = _artifact_set(r)
             PROVE  FALSE
  BY DEF NoRepeat
<1>1. PICK e : e = [system |-> q, record |-> o] OBVIOUS
<1>2. e \in impression_index(ws) /\ e.record = o BY <1>1 DEF impression_index
<1> DEFINE disputes == {v \in UNION {x.record.upstream : x \in impression_index(ws)} :
                          v.system = p /\ v.disposition = "disputed"}
<1>3. u \in disputes BY <1>2
<1>4. PICK x : x = [earlier |-> r, concern |-> d] OBVIOUS
<1>5. x.earlier = r /\ x.concern = d BY <1>4
<1>6. x \in Disputed(p, ws) BY <1>3, <1>4 DEF Disputed
<1> QED BY <1>5, <1>6 DEF reraise_errors

\* What is found for an artifact can be found by whoever reads of it.
LEMMA FoundExists ==
  ASSUME NEW content, NEW producer, NEW ref \in impressions_for_artifact(content, producer).refs
  PROVE  Exists(ref)
<1>1. CASE ref \in {c \in Cites(content) : resolve_ref(ws, c.system, c.event_id) # {}}
  BY <1>1 DEF resolve_ref, Exists
<1>2. CASE ref \in BoundTo(content, producer) BY <1>2 DEF BoundTo, Exists
<1> QED BY <1>1, <1>2 DEF impressions_for_artifact

\* A request that was found good is sound.
LEMMA SoundNow ==
  ASSUME Base, NEW job, FoundGood(job)
  PROVE  Sound(job.body, job.body.kind, job.plugin, clock)
<1>1. PICK body, p : body = job.body /\ p = job.plugin OBVIOUS
<1>2. ASSUME body.kind \in ImpressionKinds
      PROVE  (\A u \in body.upstream : Exists(u)) /\ NoRepeat(body, p, clock)
  <2>1. ~upstream_resolution_errors(body, ws) /\ ~reraise_errors(body, p, ws)
    BY <1>1, <1>2 DEF FoundGood
  <2>2. \A u \in body.upstream : resolve_ref(ws, u.system, u.event_id) # {}
    BY <2>1 DEF upstream_resolution_errors
  <2>3. \A u \in body.upstream : Exists(u) BY <2>2 DEF resolve_ref, Exists
  <2> QED BY <2>1, <2>3, ToldSo
<1>3. ASSUME body.kind = "upstream_read" PROVE \A ref \in body.refs : Exists(ref)
  BY <1>1, <1>3, FoundExists DEF FoundGood
<1>4. ASSUME body.kind = "insight_status"
      PROVE  body.status \in INSIGHT_TRANSITIONS[StatusAt(body.insight, clock)]
  <2>1. body.status \in INSIGHT_TRANSITIONS[current(ws, body.insight)]
    BY <1>1, <1>4 DEF FoundGood, insight_write_errors
  <2> QED BY <2>1, CurrentIsNow
<1> QED BY <1>1, <1>2, <1>3, <1>4 DEF Sound

\* What is kept was kept before.
LEMMA KeptBefore ==
  ASSUME Base, [Next]_vars, StatusesKept'
  PROVE  StatusesKept
<1>1. "insight_status" \in Kinds BY DEF Kinds
<1>2. ASSUME NEW p \in Plugins PROVE Gone(p, "insight_status") = 0
  <2>1. Gone(p, "insight_status")' = 0 BY DEF StatusesKept
  <2> QED BY <1>1, <2>1, GoneGrows
<1> QED BY <1>2 DEF StatusesKept

\* What is sound stays so.
LEMMA SoundKept ==
  ASSUME Base, SoundInv, [Next]_vars, NEW rec, NEW k, NEW p \in Plugins, NEW t \in Nat, t <= clock,
         Sound(rec, k, p, t)
  PROVE  Sound(rec, k, p, t)'
<1>1. ASSUME k \in ImpressionKinds
      PROVE  (\A u \in rec.upstream : Exists(u)') /\ NoRepeat(rec, p, t)'
  <2>1. \A u \in rec.upstream : Exists(u) BY <1>1 DEF Sound
  <2>2. NoRepeat(rec, p, t) BY <1>1 DEF Sound
  <2>3. \A u \in rec.upstream : Exists(u)' BY <2>1, ExistsKept
  <2>4. NoRepeat(rec, p, t)' BY <2>2, NoRepeatKept
  <2> QED BY <2>3, <2>4
<1>2. ASSUME k = "upstream_read" PROVE \A ref \in rec.refs : Exists(ref)'
  <2>1. \A ref \in rec.refs : Exists(ref) BY <1>2 DEF Sound
  <2> QED BY <2>1, ExistsKept
<1>3. ASSUME k = "insight_status", StatusesKept'
      PROVE  rec.status \in INSIGHT_TRANSITIONS[StatusAt(rec.insight, t)']
  <2>1. PICK ref : ref = rec.insight OBVIOUS
  <2>2. StatusAt(ref, t)' = StatusAt(ref, t) BY <1>3, StatusKept
  <2>3. StatusesKept BY <1>3, KeptBefore
  <2> QED BY <1>3, <2>1, <2>2, <2>3 DEF Sound
<1> QED BY <1>1, <1>2, <1>3 DEF Sound

\* Whatever else a record has does not matter.
Looks(rec, k) ==
  IF k \in ImpressionKinds THEN <<rec.upstream, rec.facets, rec.artifacts, rec.image_sha256>>
  ELSE IF k = "upstream_read" THEN <<rec.refs>>
  ELSE IF k = "insight_status" THEN <<rec.insight, rec.status>> ELSE <<>>

LEMMA SoundSame ==
  ASSUME NEW rec, NEW k, NEW p, NEW t, Sound(rec, k, p, t), NEW other, Looks(other, k) = Looks(rec, k)
  PROVE  Sound(other, k, p, t)
<1>1. CASE k \in ImpressionKinds
  <2>1. /\ other.upstream = rec.upstream /\ other.facets = rec.facets
        /\ other.artifacts = rec.artifacts /\ other.image_sha256 = rec.image_sha256
    BY <1>1 DEF Looks
  <2>2. _artifact_set(other) = _artifact_set(rec) BY <2>1 DEF _artifact_set
  <2>3. NoRepeat(other, p, t) BY <1>1, <2>1, <2>2 DEF Sound, NoRepeat
  <2>4. k # "upstream_read" /\ k # "insight_status" BY <1>1 DEF ImpressionKinds
  <2> QED BY <1>1, <2>1, <2>3, <2>4 DEF Sound
<1>2. CASE k \notin ImpressionKinds
  <2>1. k = "upstream_read" => other.refs = rec.refs BY <1>2 DEF Looks
  <2>2. k = "insight_status" => other.insight = rec.insight /\ other.status = rec.status
    BY <1>2 DEF Looks
  <2> QED BY <1>2, <2>1, <2>2 DEF Sound
<1> QED BY <1>1, <1>2

LEMMA LooksSame ==
  ASSUME NEW body, Requested(body), NEW other,
         body.kind = "upstream_read" => "refs" \in DOMAIN body,
         \A f \in DOMAIN body \ (Envelope \union {"artifact"}) : other[f] = body[f]
  PROVE  Looks(other, body.kind) = Looks(body, body.kind)
<1>1. CASE body.kind \in ImpressionKinds
  <2>1. {"artifacts", "image_sha256", "facets", "upstream"} \subseteq DOMAIN body
    BY <1>1 DEF Requested, Fields, ImpressionKinds
  <2> QED BY <1>1, <2>1 DEF Looks, Envelope
<1>2. CASE body.kind \notin ImpressionKinds
  <2>1. CASE body.kind = "upstream_read" BY <1>2, <2>1 DEF Looks, Envelope
  <2>2. CASE body.kind = "insight_status"
    <3>1. {"insight", "status"} \subseteq DOMAIN body BY <1>2, <2>2 DEF Requested, Fields
    <3> QED BY <1>2, <2>2, <3>1 DEF Looks, Envelope
  <2>3. CASE body.kind \notin {"upstream_read", "insight_status"} BY <1>2, <2>3 DEF Looks
  <2> QED BY <2>1, <2>2, <2>3
<1> QED BY <1>1, <1>2

\* A record that is added was sound while it waited.
LEMMA AddedIsSound ==
  ASSUME Base, SoundInv, NEW p, NEW k, NEW r, Logged(p, k, r)
  PROVE  Sound(r, k, p, r.checked)
<1>1. PICK pr \in Procs : From(pr, p, k, r) BY LoggedFields
<1>2. PICK body, t : body = jobs[pr].body /\ t = r.checked OBVIOUS
<1>3. /\ Waits(jobs[pr]) /\ jobs[pr].plugin = p /\ body.kind = k /\ jobs[pr].checked = t
      /\ Requested(body) /\ \A f \in DOMAIN body \ Envelope : r[f] = body[f]
  BY <1>1, <1>2 DEF From
<1>4. body.kind = "upstream_read" => "refs" \in DOMAIN body BY <1>2, <1>3 DEF Base, JobOK
<1>5. \A f \in DOMAIN body \ (Envelope \union {"artifact"}) : r[f] = body[f] BY <1>3
<1>6. Looks(r, k) = Looks(body, k) BY <1>3, <1>4, <1>5, LooksSame
<1>7. Sound(body, k, p, t) BY <1>2, <1>3 DEF SoundInv
<1> QED BY <1>2, <1>6, <1>7, SoundSame

LEMMA SoundInit == Init => SoundInv
<1> SUFFICES ASSUME Init PROVE SoundInv OBVIOUS
<1>1. \A p \in Plugins, k \in Kinds : Log(p, k) = <<>> BY DEF Init, Log
<1>2. \A p \in Plugins, k \in Kinds : DOMAIN Log(p, k) = {} BY <1>1
<1>3. \A pr \in Procs : ~Waits(jobs[pr]) BY DEF Init, Idle, Waits
<1> QED BY <1>2, <1>3 DEF SoundInv

LEMMA SoundInductive == Base /\ SoundInv /\ [Next]_vars => SoundInv'
<1> SUFFICES ASSUME Base, SoundInv, [Next]_vars PROVE SoundInv' OBVIOUS
<1>1. clock \in Nat BY DEF Base, Shape
<1>2. ASSUME NEW p \in Plugins, NEW k \in Kinds, NEW i \in DOMAIN Log(p, k)
      PROVE  Sound(Log(p, k)[i], k, p, Log(p, k)[i].checked)'
               \/ Log(p, k)'[i] # Log(p, k)[i]
  <2>1. PICK r, t : r = Log(p, k)[i] /\ t = r.checked OBVIOUS
  <2>2. t \in Nat /\ t <= clock BY <1>1, <2>1 DEF Base, RecordOK
  <2>3. Sound(r, k, p, t) BY <2>1 DEF SoundInv
  <2>4. Sound(r, k, p, t)' BY <2>2, <2>3, SoundKept
  <2> QED BY <2>1, <2>4
<1>3. ASSUME NEW pr \in Procs, jobs'[pr] = jobs[pr], Waits(jobs[pr])
      PROVE  Sound(jobs[pr].body, jobs[pr].body.kind, jobs[pr].plugin, jobs[pr].checked)'
  <2>1. PICK body, k, p, t : /\ body = jobs[pr].body /\ k = jobs[pr].body.kind
                             /\ p = jobs[pr].plugin /\ t = jobs[pr].checked
    OBVIOUS
  <2>2. p \in Plugins /\ t \in Nat /\ t <= clock BY <1>3, <2>1 DEF Base, JobOK
  <2>3. Sound(body, k, p, t) BY <1>3, <2>1 DEF SoundInv
  <2>4. Sound(body, k, p, t)' BY <2>2, <2>3, SoundKept
  <2> QED BY <1>3, <2>1, <2>4
<1>4. CASE Quiet
  <2>1. ASSUME NEW p \in Plugins, NEW k \in Kinds, NEW i \in DOMAIN Log(p, k)'
        PROVE  Sound(Log(p, k)[i], k, p, Log(p, k)[i].checked)'
    BY <1>2, <1>4 DEF Quiet
  <2>2. ASSUME NEW pr \in Procs, Waits(jobs'[pr])
        PROVE  Sound(jobs[pr].body, jobs[pr].body.kind, jobs[pr].plugin, jobs[pr].checked)'
    <3>1. CASE jobs'[pr] = jobs[pr] BY <1>3, <2>2, <3>1
    <3>2. PICK job, body, k, p, t :
            /\ job = jobs'[pr] /\ body = jobs'[pr].body /\ k = jobs'[pr].body.kind
            /\ p = jobs'[pr].plugin /\ t = jobs'[pr].checked
      OBVIOUS
    <3>3. CASE FoundGood(jobs'[pr])
      <4>1. FoundGood(job) BY <3>2, <3>3
      <4>2. Sound(body, k, p, clock) BY <3>2, <4>1, SoundNow
      <4>3. t = clock /\ p \in Plugins BY <3>2, <4>1 DEF FoundGood
      <4>4. Sound(body, k, p, t)' BY <1>1, <4>2, <4>3, SoundKept
      <4> QED BY <3>2, <4>4
    <3>4. CASE WasHashed(jobs[pr], jobs'[pr])
      <4>1. PICK old : old = jobs[pr] OBVIOUS
      <4>2. WasHashed(old, job) /\ Waits(old) BY <3>2, <3>4, <4>1 DEF WasHashed, Waits
      <4>3. /\ old.plugin \in Plugins /\ Requested(old.body)
            /\ old.body.kind = "upstream_read" => "refs" \in DOMAIN old.body
            /\ old.checked \in Nat /\ old.checked <= clock
        BY <4>1, <4>2 DEF Base, JobOK
      <4>4. /\ p = old.plugin /\ t = old.checked
            /\ \A f \in DOMAIN old.body : f # "artifact" => body[f] = old.body[f]
        BY <3>2, <4>2 DEF WasHashed
      <4>5. "kind" \in DOMAIN old.body BY <4>3 DEF Requested
      <4>6. k = old.body.kind BY <3>2, <4>4, <4>5
      <4>7. Looks(body, k) = Looks(old.body, k) BY <4>3, <4>4, <4>6, LooksSame
      <4>8. Sound(old.body, k, p, t) BY <4>1, <4>2, <4>4, <4>6 DEF SoundInv
      <4>9. Sound(body, k, p, t) BY <4>7, <4>8, SoundSame
      <4>10. Sound(body, k, p, t)' BY <4>3, <4>4, <4>9, SoundKept
      <4> QED BY <3>2, <4>10
    <3> QED BY <1>4, <2>2, <3>1, <3>3, <3>4 DEF Quiet
  <2> QED BY <2>1, <2>2 DEF SoundInv, Waits
<1>5. ASSUME NEW p, NEW k, NEW r, Logged(p, k, r) PROVE SoundInv'
  <2>1. r.checked \in Nat /\ r.checked <= clock /\ p \in Plugins BY <1>5, LoggedFields DEF Logged
  <2>2. PICK t : t = r.checked OBVIOUS
  <2>3. Sound(r, k, p, t) BY <1>5, <2>2, AddedIsSound
  <2>4. Sound(r, k, p, t)' BY <2>1, <2>2, <2>3, SoundKept
  <2>5. ASSUME NEW q \in Plugins, NEW j \in Kinds, NEW i \in DOMAIN Log(q, j)'
        PROVE  Sound(Log(q, j)[i], j, q, Log(q, j)[i].checked)'
    <3>1. CASE i \in DOMAIN Log(q, j)
      <4>1. Log(q, j)'[i] = Log(q, j)[i] BY <1>5, <3>1, LogAfter
      <4> QED BY <1>2, <3>1, <4>1
    <3>2. CASE i \notin DOMAIN Log(q, j)
      <4>1. q = p /\ j = k /\ Log(q, j)'[i] = r BY <1>5, <3>2, LogAfter
      <4> QED BY <2>2, <2>4, <4>1
    <3> QED BY <3>1, <3>2
  <2>6. ASSUME NEW pr \in Procs, Waits(jobs'[pr])
        PROVE  Sound(jobs[pr].body, jobs[pr].body.kind, jobs[pr].plugin, jobs[pr].checked)'
    <3>1. jobs'[pr] = jobs[pr] \/ jobs'[pr] = Idle BY <1>5 DEF Logged
    <3>2. jobs'[pr] = jobs[pr] BY <2>6, <3>1 DEF Waits, Idle
    <3> QED BY <1>3, <2>6, <3>2
  <2> QED BY <2>5, <2>6 DEF SoundInv, Waits
<1>6. ASSUME NEW p \in Plugins, NEW k \in Kinds, Moved(p, k) PROVE SoundInv'
  <2>1. jobs' = jobs BY <1>6 DEF Moved
  <2>2. ASSUME NEW pr \in Procs, Waits(jobs'[pr])
        PROVE  Sound(jobs[pr].body, jobs[pr].body.kind, jobs[pr].plugin, jobs[pr].checked)'
    BY <1>3, <2>1, <2>2
  <2>3. ASSUME NEW q \in Plugins, NEW j \in Kinds, NEW i \in DOMAIN Log(q, j)'
        PROVE  Sound(Log(q, j)[i], j, q, Log(q, j)[i].checked)'
    <3>1. Log(q, j)' = <<>> \/ Log(q, j)' = Log(q, j) BY <1>6 DEF Moved
    <3>2. DOMAIN <<>> = {} OBVIOUS
    <3>3. Log(q, j)' = Log(q, j) BY <3>1, <3>2
    <3> QED BY <1>2, <3>3
  <2> QED BY <2>2, <2>3 DEF SoundInv, Waits
<1> QED BY <1>4, <1>5, <1>6, StepCases

\* What a check found is true for ever of what the logs held at its time.
THEOREM ChecksHold == Spec => [](Base /\ SoundInv)
<1>1. Init => Base /\ SoundInv BY BaseInit, SoundInit
<1>2. Base /\ SoundInv /\ [Next]_vars => (Base /\ SoundInv)' BY BaseInductive, SoundInductive
<1> QED BY <1>1, <1>2, PTL DEF Spec

-----------------------------------------------------------------------------
(* The theorems about what is read, disputed and briefed.                  *)

\* What the Stop hook wants answered can be cited when its author's logs are
\* whole, but for what the author moved aside: a reference that a read lists was
\* found when it was listed, an impression stays in its log until that is moved
\* aside, and no later one has its event id (DemandsResolve).
THEOREM DemandsCanBeAnswered == Spec => []DemandsResolve
<1>1. ASSUME Base, SoundInv PROVE DemandsResolve
  <2> SUFFICES ASSUME NEW ref \in ReadProblems(ws[Me].log)
               PROVE  /\ ref.system \in Plugins
                      /\ ws[ref.system].broken = {} =>
                           (resolve_ref(ws, ref.system, ref.event_id) = {} <=> MovedAside(ref))
    BY DEF DemandsResolve
  <2>1. PICK r \in In(ws[Me].log["upstream_read"]) : ref \in r.refs BY DEF ReadProblems
  <2>2. PICK i \in DOMAIN Log(Me, "upstream_read") : r = Log(Me, "upstream_read")[i]
    BY <2>1 DEF In, Log
  <2>3. Sound(r, "upstream_read", Me, r.checked)
    BY <1>1, <2>2, MeAssumption DEF SoundInv, Kinds
  <2>4. Exists(ref) BY <2>1, <2>3 DEF Sound
  <2>5. ref.system \in Plugins BY <2>4 DEF Exists
  <2>6. ASSUME NEW e \in Impressions(ws, ref.system), e.event_id = ref.event_id PROVE ~MovedAside(ref)
    <3>1. Beyond(ref.system, e.event_id) BY <1>1, <2>5, OldAreBeyond
    <3>2. Beyond(ref.system, ref.event_id) BY <2>6, <3>1
    <3> QED BY <1>1, <2>5, <3>2, BeyondIsNotMoved
  <2>7. ASSUME ws[ref.system].broken = {}
        PROVE  resolve_ref(ws, ref.system, ref.event_id) = {} <=> MovedAside(ref)
    <3>1. resolve_ref(ws, ref.system, ref.event_id)
            = {e \in Impressions(ws, ref.system) : e.event_id = ref.event_id}
      BY <2>5, <2>7 DEF resolve_ref
    <3> QED BY <2>4, <2>6, <3>1 DEF Exists
  <2> QED BY <2>5, <2>7
<1>2. Base /\ SoundInv => DemandsResolve BY <1>1
<1> QED BY <1>2, ChecksHold, PTL

\* A concern that had been disputed when an impression was checked is not in it
\* while the artifacts are the same (DisputesHold).
THEOREM DisputesStand == Spec => []DisputesHold
<1>1. ASSUME Base, SoundInv PROVE DisputesHold
  <2> SUFFICES ASSUME NEW e \in impression_index(ws), NEW c \in e.record.facets.concerns,
                      NEW o \in impression_index(ws), NEW u \in o.record.upstream,
                      u.disposition = "disputed" /\ u.system = e.system
                        /\ o.record.recorded_at <= e.record.checked,
                      NEW r \in {i \in Impressions(ws, e.system) : i.event_id = u.event_id},
                      NEW d \in r.facets.concerns,
                      /\ AtLeast(c.text, d.text, 3, 5) /\ c.about = d.about
                      /\ u.concern_ids = {} \/ d.id \in u.concern_ids
               PROVE  _artifact_set(e.record) # _artifact_set(r)
    BY DEF DisputesHold
  <2>1. PICK p \in Plugins : \E x \in Impressions(ws, p) : e = [system |-> p, record |-> x]
    BY DEF impression_index
  <2>2. PICK x \in Impressions(ws, p) : e = [system |-> p, record |-> x] BY <2>1
  <2>3. e.system = p /\ e.record = x BY <2>2
  <2>4. PICK q \in Plugins : \E y \in Impressions(ws, q) : o = [system |-> q, record |-> y]
    BY DEF impression_index
  <2>5. PICK y \in Impressions(ws, q) : o = [system |-> q, record |-> y] BY <2>4
  <2>6. o.record = y BY <2>5
  <2>7. PICK k \in ImpressionKinds : \E i \in DOMAIN Log(p, k) : x = Log(p, k)[i]
    BY InImpressions
  <2>8. k \in Kinds BY DEF ImpressionKinds, Kinds
  <2>9. Sound(x, k, p, x.checked) BY <1>1, <2>7, <2>8 DEF SoundInv
  <2>10. NoRepeat(x, p, x.checked) BY <2>9 DEF Sound
  <2> QED BY <2>3, <2>6, <2>10 DEF NoRepeat
<1>2. Base /\ SoundInv => DisputesHold BY <1>1
<1> QED BY <1>2, ChecksHold, PTL

\* What the Stop hook would ask for, the briefing of the session names, unless
\* it is as long as it may be (BriefingNamesDemands).
THEOREM BriefingIsComplete == Spec => []BriefingNamesDemands
<1>1. BriefingNamesDemands BY BriefingAnswers
<1> QED BY <1>1, PTL

-----------------------------------------------------------------------------
(* What becomes of an insight.                                             *)

AllStatuses == UNION {Of(ws, p, "insight_status") : p \in Plugins}

\* One plugin moves it, and sees each status before it records the next.
Alone(ref) ==
  \A a, b \in Statuses(ref) : /\ a.plugin = b.plugin
                              /\ a.recorded_at < b.recorded_at => a.recorded_at <= b.checked

\* Nothing follows a rejection or replacement, as long as every status is kept.
FinalInv ==
  StatusesKept =>
    \A a \in AllStatuses : a.status \in {"rejected", "superseded"} /\ Alone(a.insight) =>
      \A b \in Statuses(a.insight) : b.recorded_at <= a.recorded_at

LEMMA StatusRecord ==
  ASSUME Base, NEW a \in AllStatuses
  PROVE  /\ a.recorded_at \in Nat /\ a.recorded_at <= clock
         /\ a.checked \in Nat /\ a.checked < a.recorded_at
         /\ a.status \in {"tried", "adopted", "rejected", "deferred", "superseded"}
         /\ a.status = "adopted" => "pass" \in a.gate_verdicts
         /\ \E p \in Plugins : \E n \in DOMAIN Log(p, "insight_status") :
              a = Log(p, "insight_status")[n] /\ a.plugin = p
<1>1. PICK p \in Plugins : a \in Of(ws, p, "insight_status") BY DEF AllStatuses
<1>2. PICK n \in DOMAIN Log(p, "insight_status") : a = Log(p, "insight_status")[n]
  BY <1>1 DEF Of, Log
<1>3. RecordOK(p, "insight_status", n) BY DEF Base, Kinds
<1>4. ~record_errors("insight_status", a) BY <1>2, <1>3 DEF RecordOK
<1>5. ~insight_status_errors(a) BY <1>4 DEF record_errors
<1>6. /\ a.status \in {"tried", "adopted", "rejected", "deferred", "superseded"}
      /\ a.status = "adopted" => "pass" \in a.gate_verdicts
  BY <1>5 DEF insight_status_errors
<1> QED BY <1>2, <1>3, <1>6 DEF RecordOK

LEMMA IsStatus ==
  ASSUME NEW p \in Plugins, NEW n \in DOMAIN Log(p, "insight_status")
  PROVE  Log(p, "insight_status")[n] \in AllStatuses
BY DEF AllStatuses, Of, Log

\* Of one plugin's statuses, the last by time t is the latest.
LEMMA LatestCounts ==
  ASSUME Base, NEW ref, NEW t \in Nat, \A a, b \in Statuses(ref) : a.plugin = b.plugin,
         NEW a \in Statuses(ref), a.recorded_at <= t
  PROVE  \E l \in Statuses(ref) :
           /\ l.recorded_at <= t /\ l.status = StatusAt(ref, t)
           /\ \A c \in Statuses(ref) : c.recorded_at <= t => c.recorded_at <= l.recorded_at
<1>1. ASSUME NEW c \in Statuses(ref)
      PROVE  \E i \in DOMAIN PluginOrder : \E n \in DOMAIN Log(PluginOrder[i], "insight_status") :
               c = Log(PluginOrder[i], "insight_status")[n] /\ c.plugin = PluginOrder[i]
  <2>1. c \in AllStatuses BY DEF Statuses, AllStatuses
  <2>2. PICK p \in Plugins : \E n \in DOMAIN Log(p, "insight_status") :
          c = Log(p, "insight_status")[n] /\ c.plugin = p
    BY <2>1, StatusRecord
  <2> QED BY <2>2 DEF Plugins
<1>2. HistoryAt(ref, t) # {}
  <2>1. PICK i \in DOMAIN PluginOrder : \E n \in DOMAIN Log(PluginOrder[i], "insight_status") :
          a = Log(PluginOrder[i], "insight_status")[n]
    BY <1>1
  <2>2. PICK n \in DOMAIN Log(PluginOrder[i], "insight_status") :
          a = Log(PluginOrder[i], "insight_status")[n]
    BY <2>1
  <2>3. a.insight = ref BY DEF Statuses
  <2>4. <<i, n>> \in HistoryAt(ref, t) BY <2>2, <2>3, Places
  <2> QED BY <2>4
<1>3. PICK last : last = LastOf(HistoryAt(ref, t)) OBVIOUS
<1>4. /\ last \in HistoryAt(ref, t)
      /\ \A b \in HistoryAt(ref, t) : b[1] < last[1] \/ (b[1] = last[1] /\ b[2] <= last[2])
  BY <1>2, <1>3, Places
<1>5. PICK i \in DOMAIN PluginOrder : \E n \in DOMAIN Log(PluginOrder[i], "insight_status") :
        /\ last = <<i, n>> /\ Log(PluginOrder[i], "insight_status")[n].insight = ref
        /\ Log(PluginOrder[i], "insight_status")[n].recorded_at <= t
  BY <1>4, Places
<1>6. PICK n \in DOMAIN Log(PluginOrder[i], "insight_status") :
        /\ last = <<i, n>> /\ Log(PluginOrder[i], "insight_status")[n].insight = ref
        /\ Log(PluginOrder[i], "insight_status")[n].recorded_at <= t
  BY <1>5
<1>7. PICK p, s, l : p = PluginOrder[i] /\ s = Log(p, "insight_status") /\ l = s[n] OBVIOUS
<1>8. p \in Plugins /\ "insight_status" \in Kinds BY <1>7 DEF Plugins, Kinds
<1>9. IsSeq(s) BY <1>7, <1>8 DEF Base, Shape, WsShape
<1>10. Len(s) \in Nat /\ DOMAIN s = 1..Len(s) BY <1>9, SeqDomain
<1>11. l \in Statuses(ref)
  <2>1. l \in AllStatuses BY <1>6, <1>7, <1>8, IsStatus
  <2> QED BY <1>6, <1>7, <2>1 DEF Statuses, AllStatuses
<1>12. RecordOK(p, "insight_status", n) BY <1>6, <1>7, <1>8 DEF Base
<1>13. l.plugin = p /\ l.recorded_at \in Nat BY <1>6, <1>7, <1>12 DEF RecordOK
<1>14. l.status = StatusAt(ref, t) BY <1>2, <1>3, <1>6, <1>7 DEF StatusAt, StatusOf
<1>15. ASSUME NEW c \in Statuses(ref), c.recorded_at <= t PROVE c.recorded_at <= l.recorded_at
  <2>1. c.plugin = p BY <1>11, <1>13
  <2>2. PICK j \in DOMAIN PluginOrder : \E m \in DOMAIN Log(PluginOrder[j], "insight_status") :
          c = Log(PluginOrder[j], "insight_status")[m] /\ c.plugin = PluginOrder[j]
    BY <1>1
  <2>3. PICK m \in DOMAIN s : c = s[m] BY <1>7, <2>1, <2>2
  <2>4. c.insight = ref BY DEF Statuses
  <2>5. <<i, m>> \in HistoryAt(ref, t) BY <1>7, <1>15, <2>3, <2>4, Places
  <2>6. PICK b : b = <<i, m>> OBVIOUS
  <2>7. b[1] < last[1] \/ (b[1] = last[1] /\ b[2] <= last[2]) BY <1>4, <2>5, <2>6
  <2>8. i \in Nat BY OrderAssumption, LenProperties
  <2>9. m <= n BY <1>6, <2>6, <2>7, <2>8
  <2>10. CASE m = n BY <1>7, <1>13, <2>3, <2>10
  <2>11. CASE m < n
    <3>1. InOrder(p, "insight_status") BY <1>8 DEF Base
    <3>2. s[m].recorded_at < s[n].recorded_at BY <1>6, <1>7, <2>3, <2>11, <3>1 DEF InOrder
    <3>3. RecordOK(p, "insight_status", m) BY <1>7, <1>8, <2>3 DEF Base
    <3>4. s[m].recorded_at \in Nat BY <1>7, <3>3 DEF RecordOK
    <3> QED BY <1>7, <1>13, <2>3, <3>2, <3>4
  <2> QED BY <1>6, <1>7, <1>10, <2>3, <2>9, <2>10, <2>11
<1> QED BY <1>6, <1>7, <1>11, <1>14, <1>15

\* Nothing came before.
LEMMA NothingYet ==
  ASSUME Base, NEW ref, NEW t \in Nat, \A a \in Statuses(ref) : ~(a.recorded_at <= t)
  PROVE  StatusAt(ref, t) = "proposed"
<1>1. ASSUME NEW place \in HistoryAt(ref, t) PROVE FALSE
  <2>1. PICK i \in DOMAIN PluginOrder : \E n \in DOMAIN Log(PluginOrder[i], "insight_status") :
          /\ Log(PluginOrder[i], "insight_status")[n].insight = ref
          /\ Log(PluginOrder[i], "insight_status")[n].recorded_at <= t
    BY Places
  <2>2. PICK n \in DOMAIN Log(PluginOrder[i], "insight_status") :
          /\ Log(PluginOrder[i], "insight_status")[n].insight = ref
          /\ Log(PluginOrder[i], "insight_status")[n].recorded_at <= t
    BY <2>1
  <2>3. PluginOrder[i] \in Plugins BY DEF Plugins
  <2>4. Log(PluginOrder[i], "insight_status")[n] \in Statuses(ref)
    BY <2>2, <2>3, IsStatus DEF Statuses, AllStatuses
  <2> QED BY <2>2, <2>4
<1> QED BY <1>1 DEF StatusAt

\* What a step that moves none aside does to the statuses.
LEMMA StatusesAfter ==
  ASSUME Base, [Next]_vars, StatusesKept'
  PROVE  \/ AllStatuses' = AllStatuses
         \/ \E p, r : Logged(p, "insight_status", r) /\ AllStatuses' = AllStatuses \union {r}
<1>1. "insight_status" \in Kinds BY DEF Kinds
<1>2. CASE Quiet
  <2>1. \A p \in Plugins : Log(p, "insight_status")' = Log(p, "insight_status")
    BY <1>1, <1>2 DEF Quiet
  <2>2. \A p \in Plugins : ws'[p].log["insight_status"] = ws[p].log["insight_status"]
    BY <2>1 DEF Log
  <2> QED BY <2>2 DEF AllStatuses, Of
<1>3. ASSUME NEW p, NEW k, NEW r, Logged(p, k, r)
      PROVE  \/ AllStatuses' = AllStatuses
             \/ k = "insight_status" /\ AllStatuses' = AllStatuses \union {r}
  <2>1. CASE k # "insight_status"
    <3>1. \A q \in Plugins : Log(q, "insight_status")' = Log(q, "insight_status")
      BY <1>1, <1>3, <2>1 DEF Logged
    <3>2. \A q \in Plugins : ws'[q].log["insight_status"] = ws[q].log["insight_status"]
      BY <3>1 DEF Log
    <3> QED BY <3>2 DEF AllStatuses, Of
  <2>2. CASE k = "insight_status"
    <3>1. p \in Plugins BY <1>3 DEF Logged
    <3>2. ASSUME NEW a \in AllStatuses PROVE a \in AllStatuses'
      <4>1. PICK q \in Plugins : \E n \in DOMAIN Log(q, "insight_status") :
              a = Log(q, "insight_status")[n]
        BY StatusRecord
      <4>2. PICK n \in DOMAIN Log(q, "insight_status") : a = Log(q, "insight_status")[n] BY <4>1
      <4>3. n \in DOMAIN Log(q, "insight_status")' /\ Log(q, "insight_status")'[n] = a
        BY <1>1, <1>3, <4>2, LogAfter
      <4> QED BY <4>3 DEF AllStatuses, Of, Log
    <3>3. r \in AllStatuses'
      <4>1. PICK m : m = Len(Log(p, k)) + 1 OBVIOUS
      <4>2. m \in DOMAIN Log(p, k)' /\ Log(p, k)'[m] = r
        BY <1>1, <1>3, <2>2, <3>1, <4>1, LogAfter
      <4> QED BY <2>2, <3>1, <4>2 DEF AllStatuses, Of, Log
    <3>4. ASSUME NEW a \in AllStatuses' PROVE a \in AllStatuses \/ a = r
      <4>1. PICK q \in Plugins : \E n \in DOMAIN Log(q, "insight_status")' :
              a = Log(q, "insight_status")'[n]
        BY DEF AllStatuses, Of, Log
      <4>2. PICK n \in DOMAIN Log(q, "insight_status")' : a = Log(q, "insight_status")'[n] BY <4>1
      <4>3. CASE n \in DOMAIN Log(q, "insight_status")
        <5>1. a = Log(q, "insight_status")[n] BY <1>1, <1>3, <4>2, <4>3, LogAfter
        <5> QED BY <4>3, <5>1, IsStatus
      <4>4. CASE n \notin DOMAIN Log(q, "insight_status")
        BY <1>1, <1>3, <4>2, <4>4, LogAfter
      <4> QED BY <4>3, <4>4
    <3> QED BY <2>2, <3>2, <3>3, <3>4
  <2> QED BY <2>1, <2>2
<1>4. ASSUME NEW p \in Plugins, NEW k \in Kinds, Moved(p, k) PROVE AllStatuses' = AllStatuses
  <2>1. ASSUME NEW q \in Plugins
        PROVE  Of(ws, q, "insight_status")' = Of(ws, q, "insight_status")
    <3>1. Gone(q, "insight_status")' = 0 BY DEF StatusesKept
    <3>2. Gone(q, "insight_status")' = Gone(q, "insight_status") BY <1>1, <3>1, GoneGrows
    <3>3. DOMAIN Log(q, "insight_status") \subseteq DOMAIN Log(q, "insight_status")'
      BY <1>1, <3>2, LogsGrow
    <3>4. Log(q, "insight_status")' = <<>> \/ Log(q, "insight_status")' = Log(q, "insight_status")
      BY <1>1, <1>4 DEF Moved
    <3>5. DOMAIN <<>> = {} OBVIOUS
    <3>6. CASE Log(q, "insight_status")' = Log(q, "insight_status") BY <3>6 DEF Of, Log
    <3>7. CASE Log(q, "insight_status")' = <<>>
      <4>1. DOMAIN Log(q, "insight_status") = {} /\ DOMAIN Log(q, "insight_status")' = {}
        BY <3>3, <3>5, <3>7
      <4> QED BY <4>1 DEF Of, Log
    <3> QED BY <3>4, <3>6, <3>7
  <2> QED BY <2>1 DEF AllStatuses
<1> QED BY <1>2, <1>3, <1>4, StepCases

LEMMA InStatuses ==
  ASSUME NEW ref, NEW a
  PROVE  a \in Statuses(ref) <=> a \in AllStatuses /\ a.insight = ref
BY DEF Statuses, AllStatuses

LEMMA FinalInit == Init => FinalInv
<1> SUFFICES ASSUME Init PROVE FinalInv OBVIOUS
<1>1. \A p \in Plugins : ws[p].log["insight_status"] = <<>> BY DEF Init, Kinds
<1>2. \A p \in Plugins : DOMAIN ws[p].log["insight_status"] = {} BY <1>1
<1>3. AllStatuses = {} BY <1>2 DEF AllStatuses, Of
<1> QED BY <1>3 DEF FinalInv

LEMMA FinalInductive == Base /\ SoundInv /\ FinalInv /\ [Next]_vars => FinalInv'
<1> SUFFICES ASSUME Base, SoundInv, FinalInv, [Next]_vars, StatusesKept',
                    NEW a \in AllStatuses', a.status \in {"rejected", "superseded"}, Alone(a.insight)',
                    NEW b \in Statuses(a.insight)'
             PROVE  b.recorded_at <= a.recorded_at
  BY DEF FinalInv
<1>1. clock \in Nat BY DEF Base, Shape
<1>10. StatusesKept BY KeptBefore
<1>2. PICK ref : ref = a.insight OBVIOUS
<1>3. b \in AllStatuses' /\ b.insight = ref BY <1>2 DEF Statuses, AllStatuses
<1>4. \A x \in AllStatuses' : x.insight = ref => x \in Statuses(ref)'
  BY DEF Statuses, AllStatuses
<1>5. \A x, y \in AllStatuses' : x.insight = ref /\ y.insight = ref =>
        /\ x.plugin = y.plugin
        /\ x.recorded_at < y.recorded_at => x.recorded_at <= y.checked
  BY <1>2, <1>4 DEF Alone
<1>6. AllStatuses \subseteq AllStatuses' BY StatusesAfter
<1>7. /\ \A x \in Statuses(ref) : x \in AllStatuses' /\ x.insight = ref
      /\ Alone(ref)
  BY <1>5, <1>6, InStatuses DEF Alone
<1>8. CASE a \in AllStatuses /\ b \in AllStatuses
  BY <1>2, <1>3, <1>7, <1>8, <1>10, InStatuses DEF FinalInv
<1>9. CASE ~(a \in AllStatuses /\ b \in AllStatuses)
  <2>1. PICK p, r : Logged(p, "insight_status", r) /\ AllStatuses' = AllStatuses \union {r}
    BY <1>3, <1>9, StatusesAfter
  <2>2. r.recorded_at = clock + 1 /\ r.checked \in Nat /\ r.checked <= clock BY <2>1, LoggedFields
  <2>3. \A x \in AllStatuses : x.recorded_at \in Nat /\ x.recorded_at <= clock BY StatusRecord
  <2>4. CASE a = r BY <1>1, <1>3, <2>1, <2>2, <2>3, <2>4
  <2>5. CASE a # r
    <3>1. a \in AllStatuses /\ b = r BY <1>3, <1>9, <2>1, <2>5
    <3>2. a.recorded_at < b.recorded_at BY <1>1, <2>2, <2>3, <3>1
    <3>3. a.recorded_at <= r.checked BY <1>2, <1>3, <1>5, <3>1, <3>2
    <3>4. a \in Statuses(ref) BY <1>2, <3>1, InStatuses
    <3>5. PICK t : t = r.checked OBVIOUS
    <3>6. t \in Nat /\ a.recorded_at <= t /\ \A x, y \in Statuses(ref) : x.plugin = y.plugin
      BY <1>7, <2>2, <3>3, <3>5 DEF Alone
    <3>7. PICK l \in Statuses(ref) :
            /\ l.recorded_at <= t /\ l.status = StatusAt(ref, t)
            /\ \A c \in Statuses(ref) : c.recorded_at <= t => c.recorded_at <= l.recorded_at
      BY <3>4, <3>6, LatestCounts
    <3>8. a.recorded_at <= l.recorded_at /\ l \in AllStatuses
      BY <3>4, <3>6, <3>7, InStatuses
    <3>9. l.recorded_at <= a.recorded_at BY <1>2, <1>7, <1>10, <3>1, <3>7 DEF FinalInv
    <3>10. l.recorded_at = a.recorded_at BY <2>3, <3>1, <3>8, <3>9
    <3>11. l.plugin = a.plugin BY <1>7, <3>4, <3>7 DEF Alone
    <3>12. l = a
      <4>1. PICK q \in Plugins : \E n \in DOMAIN Log(q, "insight_status") :
              l = Log(q, "insight_status")[n] /\ l.plugin = q
        BY <3>8, StatusRecord
      <4>2. PICK n \in DOMAIN Log(q, "insight_status") : l = Log(q, "insight_status")[n]
        BY <4>1
      <4>3. PICK m \in DOMAIN Log(q, "insight_status") : a = Log(q, "insight_status")[m]
        BY <3>1, <3>11, <4>1, StatusRecord
      <4>4. "insight_status" \in Kinds BY DEF Kinds
      <4>5. InOrder(q, "insight_status") BY <4>4 DEF Base
      <4>6. PICK s : s = Log(q, "insight_status") OBVIOUS
      <4>7. IsSeq(s) BY <4>4, <4>6 DEF Base, Shape, WsShape
      <4>8. DOMAIN s = 1..Len(s) /\ Len(s) \in Nat BY <4>7, SeqDomain
      <4>9. ~(n < m) /\ ~(m < n) BY <2>3, <3>1, <3>8, <3>10, <4>2, <4>3, <4>5 DEF InOrder
      <4> QED BY <4>2, <4>3, <4>6, <4>8, <4>9
    <3>13. Sound(r, "insight_status", p, r.checked) BY <2>1, AddedIsSound
    <3>14. r.status \in INSIGHT_TRANSITIONS[a.status]
      BY <1>3, <1>10, <3>1, <3>5, <3>7, <3>12, <3>13 DEF Sound
    <3> QED BY <3>14 DEF INSIGHT_TRANSITIONS
  <2> QED BY <2>4, <2>5
<1> QED BY <1>8, <1>9

\* A step that is seen follows what the one before it allows.
LEMMA FollowsTrial ==
  ASSUME Base, SoundInv, StatusesKept,
         NEW a \in AllStatuses, a.status = "adopted", Alone(a.insight)
  PROVE  \E b \in Statuses(a.insight) :
           /\ b.status = "tried" /\ b.recorded_at < a.recorded_at
           /\ ~\E c \in Statuses(a.insight) : /\ b.recorded_at < c.recorded_at
                                              /\ c.recorded_at < a.recorded_at
<1>1. PICK ref, t : ref = a.insight /\ t = a.checked OBVIOUS
<1>2. PICK p \in Plugins : \E n \in DOMAIN Log(p, "insight_status") : a = Log(p, "insight_status")[n]
  BY StatusRecord
<1>3. t \in Nat /\ t < a.recorded_at /\ a.recorded_at \in Nat BY <1>1, StatusRecord
<1>4. "insight_status" \in Kinds BY DEF Kinds
<1>5. Sound(a, "insight_status", p, a.checked) BY <1>2, <1>4 DEF SoundInv
<1>6. "adopted" \in INSIGHT_TRANSITIONS[StatusAt(ref, t)] BY <1>1, <1>5 DEF Sound
<1>7. \A x, y \in Statuses(ref) : x.plugin = y.plugin BY <1>1 DEF Alone
<1>8. CASE \A x \in Statuses(ref) : ~(x.recorded_at <= t)
  <2>1. StatusAt(ref, t) = "proposed" BY <1>3, <1>8, NothingYet
  <2> QED BY <1>6, <2>1 DEF INSIGHT_TRANSITIONS
<1>9. ASSUME NEW x \in Statuses(ref), x.recorded_at <= t
      PROVE  \E b \in Statuses(ref) :
               /\ b.status = "tried" /\ b.recorded_at < a.recorded_at
               /\ ~\E c \in Statuses(ref) : b.recorded_at < c.recorded_at /\ c.recorded_at < a.recorded_at
  <2>1. PICK l \in Statuses(ref) :
          /\ l.recorded_at <= t /\ l.status = StatusAt(ref, t)
          /\ \A c \in Statuses(ref) : c.recorded_at <= t => c.recorded_at <= l.recorded_at
    BY <1>3, <1>7, <1>9, LatestCounts
  <2>2. l \in AllStatuses BY <2>1, InStatuses
  <2>3. l.status \in {"tried", "adopted", "rejected", "deferred", "superseded"} /\ l.recorded_at \in Nat
    BY <2>2, StatusRecord
  <2>4. l.status = "tried" BY <1>6, <2>1, <2>3 DEF INSIGHT_TRANSITIONS
  <2>5. ASSUME NEW c \in Statuses(ref), l.recorded_at < c.recorded_at, c.recorded_at < a.recorded_at
        PROVE  FALSE
    <3>1. a \in Statuses(ref) BY <1>1, InStatuses
    <3>2. c.recorded_at <= t BY <1>1, <2>5, <3>1 DEF Alone
    <3>3. c.recorded_at <= l.recorded_at BY <2>1, <3>2
    <3>4. c.recorded_at \in Nat BY InStatuses, StatusRecord
    <3> QED BY <2>3, <2>5, <3>3, <3>4
  <2> QED BY <1>3, <2>1, <2>3, <2>4, <2>5
<1> QED BY <1>1, <1>8, <1>9

\* What one plugin makes of an insight, each step checked after the other was
\* recorded, is a legal history as long as no log of statuses is moved aside
\* (LegalHistory).
THEOREM HistoryIsLegal == Spec => []LegalHistory
<1>1. ASSUME Base, SoundInv, FinalInv PROVE LegalHistory
  <2> SUFFICES ASSUME StatusesKept, NEW ref, Alone(ref), NEW a \in Statuses(ref)
               PROVE  /\ a.status = "adopted" =>
                           /\ "pass" \in a.gate_verdicts
                           /\ \E b \in Statuses(ref) :
                                /\ b.status = "tried" /\ b.recorded_at < a.recorded_at
                                /\ ~\E c \in Statuses(ref) : /\ b.recorded_at < c.recorded_at
                                                             /\ c.recorded_at < a.recorded_at
                      /\ a.status \in {"rejected", "superseded"} =>
                           \A b \in Statuses(ref) : b.recorded_at <= a.recorded_at
    BY DEF LegalHistory, Alone, StatusesKept, Gone
  <2>1. a \in AllStatuses /\ a.insight = ref BY InStatuses
  <2>2. a.status = "adopted" => "pass" \in a.gate_verdicts BY <1>1, <2>1, StatusRecord
  <2>3. a.status \in {"rejected", "superseded"} => \A b \in Statuses(ref) : b.recorded_at <= a.recorded_at
    BY <1>1, <2>1 DEF FinalInv
  <2>4. a.status = "adopted" =>
          \E b \in Statuses(ref) :
            /\ b.status = "tried" /\ b.recorded_at < a.recorded_at
            /\ ~\E c \in Statuses(ref) : b.recorded_at < c.recorded_at /\ c.recorded_at < a.recorded_at
    BY <1>1, <2>1, FollowsTrial
  <2> QED BY <2>2, <2>3, <2>4
<1>2. Base /\ SoundInv /\ FinalInv => LegalHistory BY <1>1
<1>3. Init => Base /\ SoundInv /\ FinalInv BY BaseInit, SoundInit, FinalInit
<1>4. Base /\ SoundInv /\ FinalInv /\ [Next]_vars => (Base /\ SoundInv /\ FinalInv)'
  BY BaseInductive, SoundInductive, FinalInductive
<1> QED BY <1>2, <1>3, <1>4, PTL DEF Spec

-----------------------------------------------------------------------------
(* What becomes of a concern.                                              *)

\* The last of some answers is one of them.
LEMMA LastSaidIsSaid ==
  ASSUME NEW w, NEW owner, \A k \in ImpressionKinds : IsSeq(w[owner].log[k]),
         NEW system, NEW event, NEW concern, NEW said, said # {},
         said \subseteq Answers(w, owner, system, event, concern)
  PROVE  \E a \in said : LastSaid(said) = a.is
<1> DEFINE log(k) == w[owner].log[<<"stage_impression", "vision_review">>[k]]
<1>1. PICK len : len = [k \in 1..2 |-> Len(log(k))] OBVIOUS
<1>2. ASSUME NEW k \in 1..2 PROVE len[k] \in Nat /\ DOMAIN log(k) = 1..len[k]
  <2>1. PICK s : s = log(k) OBVIOUS
  <2>2. IsSeq(s) BY <2>1 DEF ImpressionKinds
  <2> QED BY <1>1, <2>1, <2>2, SeqDomain
<1>3. ASSUME NEW a \in said
      PROVE  a.at[1] \in 1..2 /\ len[a.at[1]] \in Nat /\ a.at[2] \in 1..len[a.at[1]]
  <2>1. PICK k \in 1..2 : \E n \in DOMAIN log(k) : \E d : a = [at |-> <<k, n>>, is |-> d]
    BY DEF Answers
  <2>2. PICK n \in DOMAIN log(k) : \E d : a = [at |-> <<k, n>>, is |-> d] BY <2>1
  <2>3. a.at = <<k, n>> BY <2>2
  <2> QED BY <1>2, <2>2, <2>3
<1>4. PICK S : S = {b.at : b \in said} OBVIOUS
<1>5. S # {} /\ 2 \in Nat BY <1>4
<1>6. \A p \in S : p[1] \in 1..2 /\ len[p[1]] \in Nat /\ p[2] \in 1..len[p[1]] BY <1>3, <1>4
<1>7. LastOf(S) \in S BY <1>5, <1>6, LastPlace
<1>8. PICK a \in said : a.at = LastOf(S) BY <1>4, <1>7
<1>9. PICK last : last = CHOOSE b \in said : b.at = LastOf(S) OBVIOUS
<1>10. last \in said BY <1>8, <1>9
<1>11. LastSaid(said) = last.is BY <1>4, <1>9 DEF LastSaid
<1> QED BY <1>10, <1>11

\* The logs of a plugin only grow while none of them is moved aside.
LEMMA OwnLogsGrow ==
  ASSUME Base, [Next]_vars, NEW q \in Plugins, ~\E k \in Kinds : MoveAside(q, k),
         NEW j \in Kinds
  PROVE  /\ DOMAIN ws[q].log[j] \subseteq DOMAIN ws'[q].log[j]
         /\ \A i \in DOMAIN ws[q].log[j] : ws'[q].log[j][i] = ws[q].log[j][i]
<1>1. ASSUME NEW p \in Plugins, NEW k \in Kinds, MoveAside(p, k), Moved(p, k)
      PROVE  Gone(q, j)' = Gone(q, j)
  <2>1. p # q BY <1>1
  <2> QED BY <1>1, <2>1 DEF Moved
<1>2. Quiet => Gone(q, j)' = Gone(q, j) BY DEF Quiet
<1>3. (\E p, k, r : Logged(p, k, r)) => Gone(q, j)' = Gone(q, j) BY DEF Logged
<1>4. Gone(q, j)' = Gone(q, j) BY <1>1, <1>2, <1>3, StepCases
<1> QED BY <1>4, LogsGrow DEF Log

LEMMA AnswersStay ==
  ASSUME Base, [Next]_vars, NEW e \in impression_index(ws), NEW c \in e.record.facets.concerns,
         concern_status(ws, e.system, e.record, c) \in {"adopted", "disputed", "decided"},
         ~\E k \in Kinds : MoveAside(OwnerOf(e.system, c), k)
  PROVE  concern_status(ws', e.system, e.record, c) \in {"adopted", "disputed", "decided"}
<1>1. PICK system, record, owner, event :
        /\ system = e.system /\ record = e.record /\ owner = OwnerOf(e.system, c)
        /\ event = e.record.event_id
  OBVIOUS
<1> DEFINE firm(w) == {a \in Answers(w, owner, system, event, c) : a.is \in {"adopted", "disputed"}}
<1>2. owner \in Plugins BY <1>1 DEF concern_status
<1>3. ImpressionKinds \subseteq Kinds /\ "decision" \in Kinds BY DEF ImpressionKinds, Kinds
<1>6. ~\E k \in Kinds : MoveAside(owner, k) BY <1>1
<1>4. CASE Decided(ws, owner, system, event)
  <2>1. Decided(ws', owner, system, event)
    <3>1. PICK d \in Of(ws, owner, "decision") :
            [system |-> system, event_id |-> event] \in d.impression_refs
      BY <1>4 DEF Decided
    <3>2. d \in Of(ws', owner, "decision") BY <1>2, <1>3, <1>6, <3>1, OwnLogsGrow DEF Of
    <3> QED BY <3>1, <3>2 DEF Decided
  <2>2. concern_status(ws', system, record, c) = "decided" BY <1>1, <1>2, <2>1 DEF concern_status
  <2> QED BY <1>1, <2>2
<1>5. CASE ~Decided(ws, owner, system, event)
  <2>1. firm(ws) # {} BY <1>1, <1>2, <1>5 DEF concern_status
  <2>2. Answers(ws, owner, system, event, c) \subseteq Answers(ws', owner, system, event, c)
    <3> DEFINE log(w, k) == w[owner].log[<<"stage_impression", "vision_review">>[k]]
    <3>1. ASSUME NEW k \in 1..2
          PROVE  /\ DOMAIN log(ws, k) \subseteq DOMAIN log(ws', k)
                 /\ \A n \in DOMAIN log(ws, k) : log(ws', k)[n] = log(ws, k)[n]
      <4>1. PICK kind : kind = <<"stage_impression", "vision_review">>[k] OBVIOUS
      <4>2. kind \in Kinds BY <4>1 DEF Kinds
      <4> QED BY <1>2, <1>6, <4>1, <4>2, OwnLogsGrow
    <3> QED BY <3>1 DEF Answers
  <2>3. firm(ws') # {} BY <2>1, <2>2
  <2>4. Shape' BY StepCases
  <2>5. \A k \in ImpressionKinds : IsSeq(ws'[owner].log[k])
    BY <1>2, <1>3, <2>4 DEF Shape, WsShape, Log
  <2>6. PICK w, said : w = ws' /\ said = firm(ws') OBVIOUS
  <2>7. said \subseteq Answers(w, owner, system, event, c) /\ said # {} BY <2>3, <2>6
  <2>8. \A k \in ImpressionKinds : IsSeq(w[owner].log[k]) BY <2>5, <2>6
  <2>9. \E a \in said : LastSaid(said) = a.is BY <2>7, <2>8, LastSaidIsSaid
  <2>10. LastSaid(firm(ws')) \in {"adopted", "disputed"} BY <2>6, <2>9
  <2>11. concern_status(ws', system, record, c) \in {"adopted", "disputed", "decided"}
    BY <1>1, <1>2, <2>3, <2>10 DEF concern_status
  <2> QED BY <1>1, <2>11
<1> QED BY <1>4, <1>5

\* A concern that its owner adopted, disputed or decided on is never open again
\* unless a log of the owner is moved aside (ConcernsStayAnswered).
THEOREM ConcernsAreSettledOnce == Spec => ConcernsStayAnswered
<1> DEFINE Stay == \A e \in impression_index(ws) : \A c \in e.record.facets.concerns :
               concern_status(ws, e.system, e.record, c) \in {"adopted", "disputed", "decided"} =>
                 \/ \E k \in Kinds : MoveAside(OwnerOf(e.system, c), k)
                 \/ concern_status(ws', e.system, e.record, c) \in {"adopted", "disputed", "decided"}
<1>1. ASSUME Base, [Next]_vars PROVE Stay
  BY <1>1, AnswersStay
<1>2. Base /\ [Next]_vars => Stay BY <1>1
<1>3. Spec => [][Stay]_vars
  <2> HIDE DEF Stay
  <2>1. Spec => []Base BY BaseHolds
  <2> QED BY <1>2, <2>1, PTL DEF Spec
<1> QED BY <1>3 DEF ConcernsStayAnswered

-----------------------------------------------------------------------------
(* What the session owes.                                                  *)

\* A line that says who was asked or what was looked at, and when.
SaidAt(lines, i, d) == "recorded_at" \in DOMAIN lines[i] /\ lines[i].recorded_at = d.at
Asked(lines, d) == \E i \in DOMAIN lines : SaidAt(lines, i, d) /\ lines[i].event_id = d.is
Viewed(lines, d) == \E i \in DOMAIN lines : SaidAt(lines, i, d) /\ lines[i].image_sha256 = d.is

\* Every debt is in a log that was not moved aside, or in the observations when
\* no hook was killed.
DebtOK(d) ==
  /\ d.at \in Nat /\ d.what \in {"read", "song", "event", "image"}
  /\ d.what = "read" /\ NoneAside(Me) =>
       \E i \in DOMAIN Log(Me, "upstream_read") :
         /\ d.is \in Log(Me, "upstream_read")[i].refs
         /\ Log(Me, "upstream_read")[i].recorded_at = d.at
  /\ d.what = "song" =>
       /\ d.is.path \in Songs /\ d.is.sha256 # None /\ d.is.sha256.to = Me
       /\ ~song_delivery_errors(d.is.sha256)
  /\ d.what = "event" /\ ~torn => Asked(observed.events.lines, d)
  /\ d.what = "image" /\ ~torn => Viewed(observed.images.lines, d)

\* What a stop hook read is what the logs held at its time.
SnapOK(job) ==
  job.op = "stop" =>
    /\ job.at \in Nat /\ job.at <= clock
    /\ NoneAside(Me) => \A k \in Kinds :
         /\ DOMAIN job.own.log[k] \subseteq DOMAIN Log(Me, k)
         /\ \A i \in DOMAIN job.own.log[k] : job.own.log[k][i] = Log(Me, k)[i]
         /\ \A i \in DOMAIN Log(Me, k) :
              Log(Me, k)[i].recorded_at <= job.at => i \in DOMAIN job.own.log[k]

\* Lines are whole unless a hook was killed.
ObservedOK ==
  /\ DOMAIN observed = {"images", "events"}
  /\ ~torn => \A x \in {"images", "events"} : IsSeq(observed[x].lines) /\ ~observed[x].open

\* No two records have the same time.
TimesUnique ==
  \A p, q \in Plugins, k, j \in Kinds : \A i \in DOMAIN Log(p, k), l \in DOMAIN Log(q, j) :
    Log(p, k)[i].recorded_at = Log(q, j)[l].recorded_at => p = q /\ k = j /\ i = l

HookInv ==
  /\ ObservedOK /\ TimesUnique
  /\ \A d \in debts : DebtOK(d)
  /\ \A pr \in Procs : SnapOK(jobs[pr])

LEMMA HookInit == Init => HookInv
<1> SUFFICES ASSUME Init PROVE HookInv OBVIOUS
<1>1. ObservedOK
  <2>1. IsSeq(<<>>) BY DEF IsSeq
  <2> QED BY <2>1 DEF Init, ObservedOK, Empty
<1>2. \A p \in Plugins, k \in Kinds : Log(p, k) = <<>> BY DEF Init, Log
<1>3. \A p \in Plugins, k \in Kinds : DOMAIN Log(p, k) = {} BY <1>2
<1>4. TimesUnique BY <1>3 DEF TimesUnique
<1>5. \A pr \in Procs : SnapOK(jobs[pr]) BY DEF Init, SnapOK, Idle
<1> QED BY <1>1, <1>4, <1>5 DEF HookInv, Init

\* What the steps do to what is owed and observed.
LEMMA OwedCases ==
  ASSUME [Next]_vars
  PROVE  \/ UNCHANGED <<debts, observed, torn>>
         \/ \E pr \in Procs : _append(pr)
         \/ \E path, content : Write(path, content)
         \/ \E pr \in Procs, whole \in BOOLEAN : record_image_observation(pr, whole)
         \/ \E pr \in Procs, whole \in BOOLEAN : record_vision_tool_event(pr, whole)
<1>1. CASE UNCHANGED vars BY <1>1 DEF vars
<1>2. ASSUME NEW pr, NEW p, NEW q, cmd_record(pr, p, q) PROVE UNCHANGED <<debts, observed, torn>>
  BY <1>2 DEF cmd_record, record_impression, record_vision_review, record_decision,
              record_insight, record_song_receipt, record_read, Checked
<1>3. ASSUME NEW pr, NEW path, NEW kind, _record_import_read(pr, path, kind)
      PROVE  UNCHANGED <<debts, observed, torn>>
  BY <1>3 DEF _record_import_read, record_read
<1>4. ASSUME NEW pr, NEW q, NEW vrp_json, cmd_review_record(pr, q, vrp_json)
      PROVE  UNCHANGED <<debts, observed, torn>>
  BY <1>4 DEF cmd_review_record
<1>5. ASSUME NEW pr, _log_vision_review(pr) \/ HashRead(pr) \/ ViewImage(pr, "png")
                       \/ AskVision(pr, "Is J1 readable?") \/ StopRead(pr) \/ stop(pr)
      PROVE  UNCHANGED <<debts, observed, torn>>
  BY <1>5 DEF _log_vision_review, HashRead, ViewImage, AskVision, StopRead, stop
<1>6. ASSUME session_start \/ (\E p \in Plugins : \E k \in Kinds : Damage(p, k))
               \/ (\E p \in Plugins : \E k \in Kinds : MoveAside(p, k))
      PROVE  UNCHANGED <<debts, observed, torn>>
  BY <1>6 DEF session_start, Damage, MoveAside
<1>7. CASE Next BY <1>2, <1>3, <1>4, <1>5, <1>6, <1>7 DEF Next
<1> QED BY <1>1, <1>7

\* Which steps a stop hook takes.
LEMMA StopEnds ==
  ASSUME Base, [Next]_vars, NEW pr \in Procs, jobs[pr].op = "stop", jobs'[pr] = Idle
  PROVE  stop(pr)
<1> DEFINE Moves(o) == jobs[o].op # "stop" /\ \E job : jobs' = [jobs EXCEPT ![o] = job]
<1>1. ASSUME NEW o \in Procs, Moves(o) PROVE FALSE
  <2>1. PICK job : jobs' = [jobs EXCEPT ![o] = job] BY <1>1
  <2>2. jobs'[pr] = jobs[pr] BY <1>1, <2>1 DEF Base, Shape
  <2> QED BY <2>2 DEF Idle
<1>2. ASSUME UNCHANGED jobs PROVE FALSE BY <1>2 DEF Idle
<1>3. ASSUME NEW o, NEW job, Start(o, job) PROVE Moves(o) BY <1>3 DEF Start, Idle
<1>4. ASSUME NEW o, NEW p, NEW q, cmd_record(o, p, q) PROVE Moves(o)
  <2>1. \E job : Start(o, job)
    BY <1>4 DEF cmd_record, record_impression, record_vision_review, record_decision,
                record_insight, record_song_receipt, record_read, Checked
  <2> QED BY <1>3, <2>1
<1>5. ASSUME NEW o, NEW path, NEW kind, _record_import_read(o, path, kind) PROVE Moves(o)
  <2>1. \E job : Start(o, job) BY <1>5 DEF _record_import_read, record_read
  <2> QED BY <1>3, <2>1
<1>6. ASSUME NEW o, NEW q, NEW vrp_json, cmd_review_record(o, q, vrp_json) PROVE Moves(o)
  <2>1. \E job : Start(o, job) BY <1>6 DEF cmd_review_record
  <2> QED BY <1>3, <2>1
<1>7. ASSUME NEW o, ViewImage(o, "png") \/ AskVision(o, "Is J1 readable?") PROVE Moves(o)
  <2>1. \E job : Start(o, job) BY <1>7 DEF ViewImage, AskVision
  <2> QED BY <1>3, <2>1
<1>8. ASSUME NEW o, _log_vision_review(o) \/ HashRead(o) \/ _append(o) \/ StopRead(o)
                      \/ \E whole \in BOOLEAN : \/ record_image_observation(o, whole)
                                                \/ record_vision_tool_event(o, whole)
      PROVE  Moves(o)
  <2>1. jobs[o].op # "stop"
    <3>1. StopRead(o) => jobs[o] = Idle BY DEF StopRead
    <3>2. _log_vision_review(o) => jobs[o].op = "mirror" BY DEF _log_vision_review, At
    <3>3. HashRead(o) => jobs[o].op = "hash" BY DEF HashRead, At
    <3>4. _append(o) => jobs[o].op = "append" BY DEF _append, At
    <3>5. \A whole \in BOOLEAN : record_image_observation(o, whole) => jobs[o].op = "image"
      BY DEF record_image_observation, At
    <3>6. \A whole \in BOOLEAN : record_vision_tool_event(o, whole) => jobs[o].op = "event"
      BY DEF record_vision_tool_event, At
    <3>7. Idle.op # "stop" BY DEF Idle
    <3> QED BY <1>8, <3>1, <3>2, <3>3, <3>4, <3>5, <3>6, <3>7
  <2>2. \E job : Goto(o, job)
    <3>1. _log_vision_review(o) => \E job : Goto(o, job) BY DEF _log_vision_review
    <3>2. HashRead(o) => \E job : Goto(o, job) BY DEF HashRead
    <3>3. _append(o) => Goto(o, Idle) BY DEF _append
    <3>4. StopRead(o) => \E job : Goto(o, job) BY DEF StopRead
    <3>5. \A whole \in BOOLEAN : record_image_observation(o, whole) => Goto(o, Idle)
      BY DEF record_image_observation
    <3>6. \A whole \in BOOLEAN : record_vision_tool_event(o, whole) => Goto(o, Idle)
      BY DEF record_vision_tool_event
    <3> QED BY <1>8, <3>1, <3>2, <3>3, <3>4, <3>5, <3>6
  <2> QED BY <2>1, <2>2 DEF Goto
<1>9. ASSUME NEW o \in Procs, stop(o) PROVE o = pr
  BY <1>9 DEF stop, Goto, Base, Shape, Idle
<1>10. ASSUME session_start \/ (\E path, c : Write(path, c))
                \/ (\E p \in Plugins : \E k \in Kinds : Damage(p, k))
                \/ (\E p \in Plugins : \E k \in Kinds : MoveAside(p, k))
       PROVE  UNCHANGED jobs
  BY <1>10 DEF session_start, Write, Damage, MoveAside
<1>11. CASE Next
  <2> HIDE DEF Moves
  <2> QED BY <1>1, <1>2, <1>4, <1>5, <1>6, <1>7, <1>8, <1>9, <1>10, <1>11 DEF Next
<1>12. CASE UNCHANGED vars BY <1>2, <1>12 DEF vars
<1> QED BY <1>11, <1>12

\* Unless a hook was killed, what was observed stays so.
LEMMA LinesGrow ==
  ASSUME ObservedOK, [Next]_vars
  PROVE  /\ ObservedOK'
         /\ ~torn' => ~torn /\ \A x \in {"images", "events"} :
              /\ DOMAIN observed[x].lines \subseteq DOMAIN observed'[x].lines
              /\ \A i \in DOMAIN observed[x].lines : observed'[x].lines[i] = observed[x].lines[i]
<1>1. CASE UNCHANGED <<observed, torn>> BY <1>1 DEF ObservedOK
<1>2. ASSUME NEW x \in {"images", "events"}, NEW record, NEW whole \in BOOLEAN,
             NEW new, new = Line(observed[x], record, whole),
             observed' = [observed EXCEPT ![x] = new], torn' = (torn \/ ~whole)
      PROVE  /\ ObservedOK'
             /\ ~torn' => ~torn /\ \A y \in {"images", "events"} :
                  /\ DOMAIN observed[y].lines \subseteq DOMAIN observed'[y].lines
                  /\ \A i \in DOMAIN observed[y].lines : observed'[y].lines[i] = observed[y].lines[i]
  <2>1. DOMAIN observed = {"images", "events"} /\ DOMAIN observed' = {"images", "events"}
    BY <1>2 DEF ObservedOK
  <2>2. observed'[x] = new /\ \A y \in {"images", "events"} : y # x => observed'[y] = observed[y]
    BY <1>2, <2>1
  <2>3. CASE torn' BY <2>1, <2>3 DEF ObservedOK
  <2>4. CASE ~torn'
    <3>1. ~torn /\ whole = TRUE BY <1>2, <2>4
    <3>2. PICK log : log = observed[x] OBVIOUS
    <3>3. IsSeq(log.lines) /\ ~log.open BY <3>1, <3>2 DEF ObservedOK
    <3>4. PICK s, t : s = log.lines /\ t = new.lines OBVIOUS
    <3>12. new = Line(log, record, TRUE) BY <1>2, <3>1, <3>2
    <3>13. new = [lines |-> Append(log.lines, record), open |-> ~TRUE] BY <3>3, <3>12 DEF Line
    <3>14. ~new.open BY <3>13
    <3>7. IsSeq(s) /\ t = Append(s, record) BY <3>3, <3>4, <3>13
    <3>8. IsSeq(t) BY <3>7, SeqExtends
    <3>9. DOMAIN s \subseteq DOMAIN t BY <3>7, SeqExtends
    <3>10. \A i \in DOMAIN s : t[i] = s[i] BY <3>7, SeqExtends
    <3>5. /\ IsSeq(new.lines) /\ ~new.open /\ DOMAIN log.lines \subseteq DOMAIN new.lines
          /\ \A i \in DOMAIN log.lines : new.lines[i] = log.lines[i]
      BY <3>4, <3>8, <3>9, <3>10, <3>14
    <3>6. \A y \in {"images", "events"} : IsSeq(observed'[y].lines) /\ ~observed'[y].open
      BY <2>2, <3>1, <3>5 DEF ObservedOK
    <3> QED BY <2>1, <2>2, <3>1, <3>2, <3>5, <3>6 DEF ObservedOK
  <2> QED BY <2>3, <2>4
<1>3. ASSUME NEW pr, NEW whole \in BOOLEAN, record_image_observation(pr, whole)
      PROVE  \E record : /\ observed' = [observed EXCEPT !.images = Line(@, record, whole)]
                         /\ torn' = (torn \/ ~whole)
  BY <1>3 DEF record_image_observation
<1>4. ASSUME NEW pr, NEW whole \in BOOLEAN, record_vision_tool_event(pr, whole)
      PROVE  \E record : /\ observed' = [observed EXCEPT !.events = Line(@, record, whole)]
                         /\ torn' = (torn \/ ~whole)
  BY <1>4 DEF record_vision_tool_event
<1>5. ASSUME NEW pr \in Procs, _append(pr) PROVE UNCHANGED <<observed, torn>> BY <1>5 DEF _append
<1>6. ASSUME NEW path, NEW content, Write(path, content) PROVE UNCHANGED <<observed, torn>>
  BY <1>6 DEF Write
<1>7. ASSUME NEW pr, NEW whole \in BOOLEAN, record_image_observation(pr, whole)
      PROVE  /\ ObservedOK'
             /\ ~torn' => ~torn /\ \A y \in {"images", "events"} :
                  /\ DOMAIN observed[y].lines \subseteq DOMAIN observed'[y].lines
                  /\ \A i \in DOMAIN observed[y].lines : observed'[y].lines[i] = observed[y].lines[i]
  <2>1. PICK record : /\ observed' = [observed EXCEPT !.images = Line(@, record, whole)]
                      /\ torn' = (torn \/ ~whole)
    BY <1>3, <1>7
  <2>2. PICK x, new : x = "images" /\ new = Line(observed.images, record, whole) OBVIOUS
  <2>3. observed' = [observed EXCEPT ![x] = new] BY <2>1, <2>2
  <2> QED BY <1>2, <2>1, <2>2, <2>3
<1>8. ASSUME NEW pr, NEW whole \in BOOLEAN, record_vision_tool_event(pr, whole)
      PROVE  /\ ObservedOK'
             /\ ~torn' => ~torn /\ \A y \in {"images", "events"} :
                  /\ DOMAIN observed[y].lines \subseteq DOMAIN observed'[y].lines
                  /\ \A i \in DOMAIN observed[y].lines : observed'[y].lines[i] = observed[y].lines[i]
  <2>1. PICK record : /\ observed' = [observed EXCEPT !.events = Line(@, record, whole)]
                      /\ torn' = (torn \/ ~whole)
    BY <1>4, <1>8
  <2>2. PICK x, new : x = "events" /\ new = Line(observed.events, record, whole) OBVIOUS
  <2>3. observed' = [observed EXCEPT ![x] = new] BY <2>1, <2>2
  <2> QED BY <1>2, <2>1, <2>2, <2>3
<1> QED BY <1>1, <1>5, <1>6, <1>7, <1>8, OwedCases

\* While none of this plugin's logs is moved aside, they grow.
LEMMA OwnKept ==
  ASSUME Base, [Next]_vars, NoneAside(Me)'
  PROVE  /\ NoneAside(Me)
         /\ \A k \in Kinds : /\ DOMAIN Log(Me, k) \subseteq DOMAIN Log(Me, k)'
                            /\ \A i \in DOMAIN Log(Me, k) : Log(Me, k)'[i] = Log(Me, k)[i]
<1>1. ASSUME NEW k \in Kinds PROVE Gone(Me, k) = 0 /\ Gone(Me, k)' = 0
  <2>1. Gone(Me, k)' = 0 BY DEF NoneAside, Gone
  <2> QED BY <2>1, GoneGrows, MeAssumption
<1>2. NoneAside(Me) BY <1>1 DEF NoneAside, Gone
<1> QED BY <1>1, <1>2, LogsGrow, MeAssumption

\* An old debt is still backed.
LEMMA DebtKept ==
  ASSUME Base, ObservedOK, [Next]_vars, NEW d, DebtOK(d)
  PROVE  DebtOK(d)'
<1>1. ASSUME NoneAside(Me)', NEW i \in DOMAIN Log(Me, "upstream_read")
      PROVE  i \in DOMAIN Log(Me, "upstream_read")'
             /\ Log(Me, "upstream_read")'[i] = Log(Me, "upstream_read")[i]
  BY <1>1, OwnKept DEF Kinds
<1>2. d.what = "event" /\ ~torn' => Asked(observed'.events.lines, d)
  BY LinesGrow DEF DebtOK, Asked, SaidAt
<1>3. d.what = "image" /\ ~torn' => Viewed(observed'.images.lines, d)
  BY LinesGrow DEF DebtOK, Viewed, SaidAt
<1>4. d.what = "read" /\ NoneAside(Me)' =>
        \E i \in DOMAIN Log(Me, "upstream_read")' :
          /\ d.is \in Log(Me, "upstream_read")'[i].refs
          /\ Log(Me, "upstream_read")'[i].recorded_at = d.at
  BY <1>1, OwnKept DEF DebtOK
<1> QED BY <1>2, <1>3, <1>4 DEF DebtOK

\* The snapshot of a stop hook stays what the logs held at its time.
LEMMA SnapKept ==
  ASSUME Base, [Next]_vars, NEW pr \in Procs, SnapOK(jobs[pr])
  PROVE  SnapOK(jobs[pr])'
<1>1. clock \in Nat /\ clock' \in Nat BY StepCases DEF Base, Shape
<1>2. clock <= clock' BY <1>1, StepCases DEF Quiet, Logged, Moved
<1>3. CASE jobs'[pr] = jobs[pr]
  <2>1. PICK job : job = jobs[pr] OBVIOUS
  <2> SUFFICES ASSUME job.op = "stop"
               PROVE  /\ job.at \in Nat /\ job.at <= clock'
                      /\ NoneAside(Me)' => \A k \in Kinds :
                           /\ DOMAIN job.own.log[k] \subseteq DOMAIN Log(Me, k)'
                           /\ \A i \in DOMAIN job.own.log[k] : job.own.log[k][i] = Log(Me, k)'[i]
                           /\ \A i \in DOMAIN Log(Me, k)' :
                                Log(Me, k)'[i].recorded_at <= job.at => i \in DOMAIN job.own.log[k]
    BY <1>3, <2>1 DEF SnapOK
  <2>2. SnapOK(job) BY <2>1
  <2>3. job.at \in Nat /\ job.at <= clock BY <2>2 DEF SnapOK
  <2>4. ASSUME NoneAside(Me)', NEW k \in Kinds
        PROVE  /\ DOMAIN job.own.log[k] \subseteq DOMAIN Log(Me, k)'
               /\ \A i \in DOMAIN job.own.log[k] : job.own.log[k][i] = Log(Me, k)'[i]
    BY <2>2, <2>4, OwnKept DEF SnapOK
  <2>5. ASSUME NoneAside(Me)', NEW k \in Kinds, NEW i \in DOMAIN Log(Me, k)', Log(Me, k)'[i].recorded_at <= job.at
        PROVE  i \in DOMAIN job.own.log[k]
    <3>1. CASE i \in DOMAIN Log(Me, k)
      <4>1. Log(Me, k)'[i] = Log(Me, k)[i] /\ NoneAside(Me) BY <2>5, <3>1, OwnKept
      <4> QED BY <2>2, <2>5, <3>1, <4>1 DEF SnapOK
    <3>2. CASE i \notin DOMAIN Log(Me, k)
      <4>1. Log(Me, k)'[i].recorded_at = clock + 1 BY <3>2, NewAreLater, MeAssumption
      <4> QED BY <1>1, <2>3, <2>5, <4>1
    <3> QED BY <3>1, <3>2
  <2>6. job.at <= clock' BY <1>1, <1>2, <2>3
  <2> QED BY <2>3, <2>4, <2>5, <2>6
<1>4. CASE Quiet /\ Look(jobs'[pr])
  <2>1. PICK job : job = jobs'[pr] OBVIOUS
  <2>2. SUFFICES ASSUME job.op = "stop" PROVE SnapOK(jobs[pr])' BY <2>1 DEF SnapOK
  <2>3. job = [op |-> "stop", own |-> ws[Me], at |-> clock] BY <1>4, <2>1, <2>2 DEF Look
  <2>4. \A k \in Kinds : Log(Me, k)' = job.own.log[k]
    BY <1>4, <2>3, MeAssumption DEF Quiet, Log
  <2> QED BY <1>1, <1>2, <2>1, <2>3, <2>4 DEF SnapOK
<1>5. CASE jobs'[pr].op # "stop" BY <1>5 DEF SnapOK
<1>6. Quiet => jobs'[pr] = jobs[pr] \/ Look(jobs'[pr]) \/ jobs'[pr].op # "stop"
  BY DEF Quiet, FoundGood, WasHashed, Waits
<1>7. (\E p, k, r : Logged(p, k, r)) => jobs'[pr] = jobs[pr] \/ jobs'[pr].op # "stop"
  BY DEF Logged, Idle
<1>8. (\E p \in Plugins : \E k \in Kinds : Moved(p, k)) => jobs'[pr] = jobs[pr] BY DEF Moved
<1> QED BY <1>3, <1>4, <1>5, <1>6, <1>7, <1>8, StepCases

\* Times stay unique.
LEMMA TimesKept ==
  ASSUME Base, [Next]_vars, TimesUnique
  PROVE  TimesUnique'
<1>1. ASSUME NEW p \in Plugins, NEW q \in Plugins, NEW k \in Kinds, NEW j \in Kinds,
             NEW i \in DOMAIN Log(p, k)', NEW l \in DOMAIN Log(q, j)',
             Log(p, k)'[i].recorded_at = Log(q, j)'[l].recorded_at
      PROVE  p = q /\ k = j /\ i = l
  <2>1. clock \in Nat BY DEF Base, Shape
  <2>2. /\ i \in DOMAIN Log(p, k) => Log(p, k)'[i] = Log(p, k)[i] /\ RecordOK(p, k, i)
        /\ l \in DOMAIN Log(q, j) => Log(q, j)'[l] = Log(q, j)[l] /\ RecordOK(q, j, l)
    BY SameRecords DEF Base
  <2>3. /\ i \in DOMAIN Log(p, k) =>
             Log(p, k)'[i].recorded_at \in Nat /\ Log(p, k)'[i].recorded_at <= clock
        /\ l \in DOMAIN Log(q, j) =>
             Log(q, j)'[l].recorded_at \in Nat /\ Log(q, j)'[l].recorded_at <= clock
    BY <2>2 DEF RecordOK
  <2>4. /\ i \notin DOMAIN Log(p, k) => Log(p, k)'[i].recorded_at = clock + 1
        /\ l \notin DOMAIN Log(q, j) => Log(q, j)'[l].recorded_at = clock + 1
    BY NewAreLater
  <2>5. CASE i \in DOMAIN Log(p, k) /\ l \in DOMAIN Log(q, j)
    BY <1>1, <2>2, <2>5 DEF TimesUnique
  <2>6. CASE i \notin DOMAIN Log(p, k) /\ l \notin DOMAIN Log(q, j)
    <3>1. PICK s, t, r : Logged(s, t, r) BY <2>6, NewAreLater
    <3>2. p = s /\ k = t /\ q = s /\ j = t BY <2>6, <3>1, LogAfter
    <3>3. PICK n : n = Len(Log(s, t)) OBVIOUS
    <3>4. n \in Nat /\ DOMAIN Log(s, t) = 1..n /\ DOMAIN Log(s, t)' = 1..(n + 1)
      BY <3>1, <3>2, <3>3, LogAfter
    <3> QED BY <2>6, <3>2, <3>4
  <2> QED BY <1>1, <2>1, <2>3, <2>4, <2>5, <2>6
<1> QED BY <1>1 DEF TimesUnique

\* An observation that is written whole is there.
LEMMA LineThere ==
  ASSUME ObservedOK, NEW x \in {"images", "events"}, NEW record, NEW whole \in BOOLEAN,
         observed' = [observed EXCEPT ![x] = Line(@, record, whole)],
         torn' = (torn \/ ~whole), ~torn'
  PROVE  \E i \in DOMAIN observed'[x].lines : observed'[x].lines[i] = record
<1>1. whole = TRUE /\ ~torn OBVIOUS
<1>2. PICK log, new : log = observed[x] /\ new = Line(log, record, whole) OBVIOUS
<1>3. IsSeq(log.lines) /\ ~log.open BY <1>1, <1>2 DEF ObservedOK
<1>4. observed'[x] = new BY <1>2 DEF ObservedOK
<1>5. new = Line(log, record, TRUE) BY <1>1, <1>2
<1>6. new = [lines |-> Append(log.lines, record), open |-> ~TRUE] BY <1>3, <1>5 DEF Line
<1>7. PICK s, t : s = log.lines /\ t = new.lines OBVIOUS
<1>8. IsSeq(s) /\ t = Append(s, record) BY <1>3, <1>6, <1>7
<1>9. t[Len(s) + 1] = record BY <1>8, SeqAppend
<1>10. DOMAIN t = 1..(Len(s) + 1) BY <1>8, SeqAppend
<1>11. Len(s) \in Nat BY <1>8, SeqDomain
<1>12. Len(s) + 1 \in DOMAIN t BY <1>10, <1>11
<1> QED BY <1>4, <1>7, <1>9, <1>12

\* What the session comes to owe is in a log or in the observations.
LEMMA NewDebts ==
  ASSUME Base, ObservedOK, [Next]_vars, NEW d \in debts', d \notin debts
  PROVE  DebtOK(d)'
<1>1. clock + 1 \in Nat BY DEF Base, Shape
<1>2. ASSUME NEW pr \in Procs, _append(pr) PROVE DebtOK(d)'
  <2>1. PICK p, k, r : Logged(p, k, r) /\ debts' = debts \union Owed(p, k, r)
    BY <1>2, AppendCase
  <2>2. p = Me /\ k = "upstream_read" BY <2>1 DEF Owed
  <2>3. PICK x \in r.refs : d = [what |-> "read", is |-> x, at |-> clock + 1]
    BY <2>1 DEF Owed
  <2>4. r.recorded_at = clock + 1 BY <2>1, LoggedFields
  <2>5. PICK n : n = Len(Log(Me, "upstream_read")) OBVIOUS
  <2>6. "upstream_read" \in Kinds BY DEF Kinds
  <2>7. /\ n \in Nat /\ DOMAIN Log(Me, "upstream_read")' = 1..(n + 1)
        /\ Log(Me, "upstream_read")'[n + 1] = r
    BY <2>1, <2>2, <2>5, <2>6, LogAfter, MeAssumption
  <2>8. n + 1 \in DOMAIN Log(Me, "upstream_read")' BY <2>7
  <2>9. d.what = "read" /\ d.is = x /\ d.at = clock + 1 BY <2>3
  <2> QED BY <1>1, <2>4, <2>7, <2>8, <2>9 DEF DebtOK
<1>3. ASSUME NEW path, NEW content, Write(path, content) PROVE DebtOK(d)'
  <2>1. /\ path \in Songs /\ content # None /\ content.to = Me /\ ~song_delivery_errors(content)
        /\ d = [what |-> "song", is |-> [path |-> path, sha256 |-> content], at |-> clock + 1]
    BY <1>3 DEF Write, Owe
  <2> QED BY <1>1, <2>1 DEF DebtOK
<1>4. ASSUME NEW pr, NEW whole \in BOOLEAN, record_image_observation(pr, whole)
      PROVE  DebtOK(d)'
  <2>1. PICK sha, id : sha = files[jobs[pr].image] /\ id = <<"image", jobs[pr].sequence, sha>> OBVIOUS
  <2>2. PICK record : record = [event_id |-> id, image_sha256 |-> sha, recorded_at |-> clock + 1]
    OBVIOUS
  <2>3. d = [what |-> "image", is |-> sha, at |-> clock + 1]
    BY <1>4, <2>1 DEF record_image_observation, Owe
  <2>4. /\ observed' = [observed EXCEPT !.images = Line(@, record, whole)]
        /\ torn' = (torn \/ ~whole)
    BY <1>4, <2>1, <2>2 DEF record_image_observation
  <2>5. ASSUME ~torn' PROVE Viewed(observed'.images.lines, d)
    <3>1. PICK x : x = "images" OBVIOUS
    <3>2. PICK i \in DOMAIN observed'[x].lines : observed'[x].lines[i] = record
      BY <2>4, <2>5, <3>1, LineThere
    <3> QED BY <2>2, <2>3, <3>1, <3>2 DEF Viewed, SaidAt
  <2>6. d.what = "image" /\ d.at = clock + 1 BY <2>3
  <2> QED BY <1>1, <2>5, <2>6 DEF DebtOK
<1>5. ASSUME NEW pr, NEW whole \in BOOLEAN, record_vision_tool_event(pr, whole)
      PROVE  DebtOK(d)'
  <2>1. PICK id : id = <<"event", jobs[pr].sequence, jobs[pr].question>> OBVIOUS
  <2>2. PICK record : record = [event_id |-> id, recorded_at |-> clock + 1] OBVIOUS
  <2>3. d = [what |-> "event", is |-> id, at |-> clock + 1]
    BY <1>5, <2>1 DEF record_vision_tool_event, Owe
  <2>4. /\ observed' = [observed EXCEPT !.events = Line(@, record, whole)]
        /\ torn' = (torn \/ ~whole)
    BY <1>5, <2>1, <2>2 DEF record_vision_tool_event
  <2>5. ASSUME ~torn' PROVE Asked(observed'.events.lines, d)
    <3>1. PICK x : x = "events" OBVIOUS
    <3>2. PICK i \in DOMAIN observed'[x].lines : observed'[x].lines[i] = record
      BY <2>4, <2>5, <3>1, LineThere
    <3> QED BY <2>2, <2>3, <3>1, <3>2 DEF Asked, SaidAt
  <2>6. d.what = "event" /\ d.at = clock + 1 BY <2>3
  <2> QED BY <1>1, <2>5, <2>6 DEF DebtOK
<1> QED BY <1>2, <1>3, <1>4, <1>5, OwedCases

LEMMA HookInductive == Base /\ HookInv /\ [Next]_vars => HookInv'
<1> SUFFICES ASSUME Base, HookInv, [Next]_vars PROVE HookInv' OBVIOUS
<1>1. ObservedOK' BY LinesGrow DEF HookInv
<1>2. TimesUnique' BY TimesKept DEF HookInv
<1>3. ASSUME NEW d \in debts' PROVE DebtOK(d)'
  BY <1>3, DebtKept, NewDebts DEF HookInv
<1>4. ASSUME NEW pr \in Procs PROVE SnapOK(jobs[pr])'
  BY <1>4, SnapKept DEF HookInv
<1> QED BY <1>1, <1>2, <1>3, <1>4 DEF HookInv

\* A set of numbers up to n has a first one.
LEMMA HasFirst ==
  ASSUME NEW n \in Nat, NEW S, S \subseteq 1..n, S # {}
  PROVE  \E p \in S : \A q \in S : p <= q
<1> DEFINE Mirrored == {n + 1 - p : p \in S}
<1>1. Mirrored \subseteq 1..n /\ Mirrored # {}
  <2>1. ASSUME NEW p \in S PROVE n + 1 - p \in 1..n
    <3>1. p \in 1..n OBVIOUS
    <3> QED BY <3>1
  <2> QED BY <2>1
<1>2. PICK m \in Mirrored : \A q \in Mirrored : q <= m BY <1>1, HasLast
<1>3. PICK p \in S : m = n + 1 - p BY <1>2
<1>4. ASSUME NEW q \in S PROVE p <= q
  <2>1. n + 1 - q <= m BY <1>2
  <2>2. p \in Nat /\ q \in Nat BY <1>3
  <2> QED BY <1>3, <2>1, <2>2
<1> QED BY <1>4

\* What a stop hook that passes found answered is answered.
LEMMA PassSettles ==
  ASSUME Base, HookInv, NEW pr \in Procs, stop(pr), status'.verdict = "pass", ~torn, NoneAside(Me),
         NEW d \in debts, since <= d.at, d.at <= jobs[pr].at
  PROVE  Settled(d)
<1>1. PICK job, log : job = jobs[pr] /\ log = job.own.log OBVIOUS
<1>2. job.op = "stop" BY <1>1 DEF stop, At
<1>3. /\ ReadProblems(log) = {} /\ SongProblems(log) = {} /\ VisionProblems(log) = {}
  BY <1>1 DEF stop, problems_for
<1>4. SnapOK(job) /\ DebtOK(d) BY <1>1 DEF HookInv
<1>5. ASSUME NEW k \in Kinds
      PROVE  /\ DOMAIN log[k] \subseteq DOMAIN Log(Me, k)
             /\ \A i \in DOMAIN log[k] : log[k][i] = Log(Me, k)[i]
             /\ \A i \in DOMAIN Log(Me, k) : Log(Me, k)[i].recorded_at <= job.at => i \in DOMAIN log[k]
  BY <1>1, <1>2, <1>4 DEF SnapOK
<1>6. "upstream_read" \in Kinds /\ "vision_review" \in Kinds /\ "song_receipt" \in Kinds
      /\ ImpressionKinds \subseteq Kinds /\ "upstream_read" \notin ImpressionKinds
  BY DEF Kinds, ImpressionKinds
<1>7. In(log["vision_review"]) \subseteq In(Log(Me, "vision_review")) BY <1>5, <1>6 DEF In
<1>8. CASE d.what = "read"
  <2>1. PICK i \in DOMAIN Log(Me, "upstream_read") :
          /\ d.is \in Log(Me, "upstream_read")[i].refs
          /\ Log(Me, "upstream_read")[i].recorded_at = d.at
    BY <1>4, <1>8 DEF DebtOK
  <2>2. i \in DOMAIN log["upstream_read"] /\ log["upstream_read"][i] = Log(Me, "upstream_read")[i]
    BY <1>1, <1>5, <1>6, <2>1
  <2>3. RecordOK(Me, "upstream_read", i) BY <1>6, MeAssumption DEF Base
  <2>4. PICK r : r = log["upstream_read"][i] OBVIOUS
  <2>5. "recorded_at" \in DOMAIN r /\ r.recorded_at = d.at /\ d.is \in r.refs
    BY <2>1, <2>2, <2>3, <2>4 DEF RecordOK
  <2>6. r \in In(log["upstream_read"]) BY <2>2, <2>4, <2>5 DEF In, _in_session
  <2>7. acknowledged(log, d.is, d.at) BY <1>3, <2>5, <2>6 DEF ReadProblems
  <2>8. PICK k \in ImpressionKinds : \E n \in DOMAIN log[k] :
          /\ log[k][n].recorded_at >= d.at
          /\ \E e \in log[k][n].upstream : e.system = d.is.system /\ e.event_id = d.is.event_id
    BY <2>7 DEF acknowledged
  <2>9. PICK n \in DOMAIN log[k] :
          /\ log[k][n].recorded_at >= d.at
          /\ \E e \in log[k][n].upstream : e.system = d.is.system /\ e.event_id = d.is.event_id
    BY <2>8
  <2>10. n \in DOMAIN Log(Me, k) /\ log[k][n] = Log(Me, k)[n] BY <1>5, <1>6
  <2>11. PICK o : o = Log(Me, k)[n] OBVIOUS
  <2>12. o.recorded_at # d.at
    BY <1>6, <2>1, <2>10, <2>11, MeAssumption DEF HookInv, TimesUnique
  <2>13. o.recorded_at \in Nat BY <1>6, <2>10, <2>11, MeAssumption DEF Base, RecordOK
  <2>14. o.recorded_at >= d.at BY <2>9, <2>10, <2>11
  <2>15. o.recorded_at > d.at BY <1>4, <2>12, <2>13, <2>14 DEF DebtOK
  <2>16. o \in Impressions(ws, Me) BY <2>10, <2>11, InImpressions
  <2>17. \E e \in o.upstream : e.system = d.is.system /\ e.event_id = d.is.event_id
    BY <2>9, <2>10, <2>11
  <2> QED BY <1>8, <2>15, <2>16, <2>17 DEF Settled
<1>9. CASE d.what = "song"
  <2>1. PICK path, song : path = d.is.path /\ song = d.is.sha256 OBVIOUS
  <2>2. path \in Songs /\ song # None /\ song.to = Me /\ ~song_delivery_errors(song)
    BY <1>4, <1>9, <2>1 DEF DebtOK
  <2>3. ASSUME files[path] = song PROVE received(ws[Me].log, path, song)
    <3>1. path \in song_deliveries(Songs, files) BY <2>2, <2>3 DEF song_deliveries
    <3>2. received(log, path, song) BY <1>3, <2>2, <2>3, <3>1 DEF SongProblems
    <3> QED BY <1>5, <1>6, <3>2 DEF received, Log
  <2> QED BY <1>9, <2>1, <2>3 DEF Settled
<1>10. CASE d.what = "event"
  <2>1. PICK i \in DOMAIN observed.events.lines :
          SaidAt(observed.events.lines, i, d) /\ observed.events.lines[i].event_id = d.is
    BY <1>4, <1>10 DEF DebtOK, Asked
  <2>2. PICK e : e = observed.events.lines[i] OBVIOUS
  <2>3. e \in In(observed.events.lines) /\ e.event_id = d.is
    BY <2>1, <2>2 DEF In, _in_session, SaidAt
  <2>4. \E r \in In(log["vision_review"]) : r.source_event_id = d.is
    BY <1>3, <2>3 DEF VisionProblems
  <2>5. \E r \in In(Log(Me, "vision_review")) : r.source_event_id = d.is BY <1>7, <2>4
  <2> QED BY <1>10, <2>5 DEF Settled, Log
<1>11. CASE d.what = "image"
  <2>1. PICK lines : lines = observed.images.lines OBVIOUS
  <2>2. IsSeq(lines) BY <2>1 DEF HookInv, ObservedOK
  <2>3. PICK n \in Nat : DOMAIN lines = 1..n BY <2>2, SeqDomain
  <2>4. PICK i \in DOMAIN lines : SaidAt(lines, i, d) /\ lines[i].image_sha256 = d.is
    BY <1>4, <1>11, <2>1 DEF DebtOK, Viewed
  <2> DEFINE Views == {j \in DOMAIN lines : _in_session(lines[j]) /\ lines[j].image_sha256 = d.is}
  <2>5. i \in Views BY <2>4 DEF _in_session, SaidAt
  <2>6. Views \subseteq 1..n /\ Views # {} BY <2>3, <2>5
  <2>7. PICK j \in Views : \A m \in Views : j <= m
    <3> HIDE DEF Views
    <3> QED BY <2>6, HasFirst
  <2>8. ASSUME NEW m \in 1..(j - 1), _in_session(lines[m]), lines[m].image_sha256 = lines[j].image_sha256
        PROVE  FALSE
    <3>1. j \in 1..n BY <2>6, <2>7
    <3>2. m \in 1..n /\ m < j BY <3>1
    <3>3. m \in Views BY <2>3, <2>7, <2>8, <3>2
    <3>4. j <= m BY <2>7, <3>3
    <3> QED BY <3>1, <3>2, <3>4
  <2>9. PICK o : o = lines[j] OBVIOUS
  <2>10. o \in FirstViews(lines) /\ o \in In(lines) /\ o.image_sha256 = d.is
    BY <2>7, <2>8, <2>9 DEF FirstViews, In
  <2>11. \E r \in In(log["vision_review"]) : r.image_sha256 = d.is \/ r.source_event_id = o.event_id
    BY <1>3, <2>1, <2>10 DEF VisionProblems
  <2>12. \E r \in In(Log(Me, "vision_review")) :
           r.image_sha256 = d.is \/ r.source_event_id = o.event_id
    BY <1>7, <2>11
  <2> QED BY <1>11, <2>1, <2>10, <2>12 DEF Settled, Log
<1> QED BY <1>4, <1>8, <1>9, <1>10, <1>11 DEF DebtOK

\* A pass of the Stop hook leaves nothing open of what the session owed when
\* the hook read its logs, whatever happens while it runs, unless a hook was
\* killed or a log of the plugin moved aside (PassMeansSettled).
THEOREM PassLeavesNothing == Spec => PassMeansSettled
<1> DEFINE Nothing == \A pr \in Procs :
       At(pr, "stop") /\ jobs'[pr] = Idle /\ status'.verdict = "pass" /\ ~torn /\ NoneAside(Me) =>
         \A d \in debts : since <= d.at /\ d.at <= jobs[pr].at => Settled(d)
<1>1. Base /\ HookInv /\ [Next]_vars => Nothing
  BY StopEnds, PassSettles DEF At
<1>2. Spec => [][Nothing]_vars
  <2> HIDE DEF Nothing
  <2>1. Spec => []Base BY BaseHolds
  <2> QED BY <1>1, <2>1, HookInit, HookInductive, PTL DEF Spec
<1> QED BY <1>2 DEF PassMeansSettled

=============================================================================
