---------------------------- MODULE Hooks_proofs ----------------------------
(***************************************************************************)
(* Theorems about Hooks, for any processes, events, profiles, images and   *)
(* bounds: no profile that agents need is ever half written, no image runs *)
(* that nobody verified, except where verification was skipped, and the    *)
(* images of the user's messages are kept.  What a process decides it acts *)
(* on later, so IInv keeps of each process what it has decided (JobOK),    *)
(* and AInv what each has read and seen of the images (CollectOK).         *)
(***************************************************************************)
EXTENDS Hooks, SequenceTheorems, FiniteSetTheorems, TLAPS

\* An image may be pulled.
Cleared(ref, unchecked) == unchecked \/ Attested(ref)

Launching == {"verify", "inspect", "pull", "run"}
Providing == {"look", "write"}

\* What a process has decided.
JobOK(job, images_there) ==
  /\ "op" \in DOMAIN job
  /\ job.op \in Providing =>
       /\ {"op", "names", "template"} \subseteq DOMAIN job
       /\ job.names \in Seq(Needed) /\ job.names # <<>> /\ job.template # "half"
  /\ job.op \in Launching => {"op", "pin", "prewarm", "unchecked"} \subseteq DOMAIN job
  /\ job.op = "pull" \/ (job.op = "inspect" /\ job.prewarm) => Cleared(job.pin.ref, job.unchecked)
  /\ job.op = "run" => job.pin.ref \in images_there

JobsOK == DOMAIN at = Runners /\ \A h \in Runners : JobOK(at[h], local)

PlanOK == /\ {"store", "inline"} \subseteq DOMAIN plan
          /\ DOMAIN plan.store \intersect Needed = {} /\ plan.inline # "half"

StoreOK == Needed \subseteq DOMAIN store /\ ProfilesAreWhole

ImagesOK ==
  /\ \A ref \in local : \E p \in pulls : p.ref = ref
  /\ \A p \in pulls : Cleared(p.ref, p.unchecked)
  /\ \A l \in launched : l.image \in local

IInv == JobsOK /\ PlanOK /\ StoreOK /\ ImagesOK

-----------------------------------------------------------------------------
\* A process at rest has decided nothing.
LEMMA WaitingOK == ASSUME NEW S PROVE JobOK(Waiting, S)
BY DEF JobOK, Waiting, Launching, Providing

\* A process is at something else.
LEMMA JobGiven ==
  ASSUME JobsOK, NEW h \in Runners, NEW job, Become(h, job), JobOK(job, local'), local \subseteq local'
  PROVE  JobsOK'
<1>1. DOMAIN at' = Runners /\ \A o \in Runners : at'[o] = IF o = h THEN job ELSE at[o]
  BY DEF JobsOK, Become
<1>2. \A o \in Runners : JobOK(at'[o], local') BY <1>1 DEF JobsOK, JobOK
<1> QED BY <1>1, <1>2 DEF JobsOK

\* A budget is spent.
LEMMA PlanKept == ASSUME PlanOK, NEW what \in {"kill", "attach", "edit", "hand", "intake", "profiles", "launch"},
                         Use(what)
                  PROVE  PlanOK' /\ plan'.store = plan.store
BY DEF PlanOK, Use

\* Most steps concern no profile and no image.
LEMMA JobOnly ==
  ASSUME IInv, NEW h \in Runners, NEW job, Become(h, job), JobOK(job, local),
         UNCHANGED <<store, images>>, PlanOK'
  PROVE  IInv'
<1>1. JobsOK' BY JobGiven DEF IInv, images
<1>2. StoreOK' /\ ImagesOK' BY DEF IInv, StoreOK, ProfilesAreWhole, ImagesOK, images
<1> QED BY <1>1, <1>2 DEF IInv

\* A job that is neither provides nor launches has decided nothing.
LEMMA OtherOK ==
  ASSUME NEW job, "op" \in DOMAIN job, job.op \notin Launching \union Providing, NEW S
  PROVE  JobOK(job, S)
BY DEF JobOK, Launching, Providing

\* The intake's job goes on to another step of it.
LEMMA Onwards ==
  ASSUME IInv, NEW h \in Runners, NEW op, op \notin Launching \union Providing
  PROVE  JobOK([at[h] EXCEPT !.op = op], local)
<1>1. PICK job : job = [at[h] EXCEPT !.op = op] OBVIOUS
<1>2. "op" \in DOMAIN at[h] BY DEF IInv, JobsOK, JobOK
<1>3. "op" \in DOMAIN job /\ job.op = op BY <1>1, <1>2
<1> QED BY <1>1, <1>3, OtherOK

-----------------------------------------------------------------------------
(* The intake.                                                             *)

\* The intake's steps decide nothing about profiles or images.
LEMMA IntakeKeeps ==
  ASSUME IInv, NEW h \in Runners,
         \/ Kill(h) \/ BeginIntake(h) \/ ReadPending(h) \/ ListScanned(h) \/ Extract(h) \/ Fill(h)
         \/ \E n, cut : AppendManifest(h, n, cut)
         \/ AppendMarker(h)
  PROVE  IInv'
<1>0. UNCHANGED plan => PlanOK' BY DEF IInv, PlanOK
<1>1. CASE Kill(h)
  BY <1>1, WaitingOK, PlanKept, JobOnly DEF Kill, IInv
<1>2. CASE BeginIntake(h)
  <2>1. PICK job : /\ job = [op |-> "pending", processed |-> processed, seen |-> _load_manifest]
                   /\ Begin(h, "intake", job) /\ UNCHANGED <<store, images>>
    BY <1>2 DEF BeginIntake
  <2>2. JobOK(job, local)
    <3>1. "op" \in DOMAIN job /\ job.op = "pending" BY <2>1
    <3> QED BY <3>1, OtherOK DEF Launching, Providing
  <2> QED BY <2>1, <2>2, PlanKept, JobOnly DEF Begin, IInv
<1>3. CASE ReadPending(h)
  <2>1. PICK read, todo, job :
          /\ job = [op |-> "scan", processed |-> at[h].processed, seen |-> at[h].seen,
                    read |-> read, records |-> <<>>, todo |-> todo]
          /\ Become(h, job) /\ UNCHANGED <<store, images, plan>>
    BY <1>3 DEF ReadPending
  <2>2. JobOK(job, local)
    <3>1. "op" \in DOMAIN job /\ job.op = "scan" BY <2>1
    <3> QED BY <3>1, OtherOK DEF Launching, Providing
  <2> QED BY <1>0, <2>1, <2>2, JobOnly
<1>4. CASE ListScanned(h)
  <2>1. CASE Listed(h) = {} BY <1>0, <1>4, <2>1, WaitingOK, JobOnly DEF ListScanned
  <2>2. CASE Listed(h) # {}
    <3>1. PICK job :
            /\ job = [op |-> "extract", processed |-> at[h].processed, seen |-> at[h].seen,
                      read |-> at[h].read, records |-> <<>>, todo |-> at[h].todo, scanned |-> Listed(h),
                      half |-> FALSE]
            /\ Become(h, job) /\ UNCHANGED <<store, images, plan>>
      BY <1>4, <2>2 DEF ListScanned
    <3>2. JobOK(job, local)
      <4>1. "op" \in DOMAIN job /\ job.op = "extract" BY <3>1
      <4> QED BY <4>1, OtherOK DEF Launching, Providing
    <3> QED BY <1>0, <3>1, <3>2, JobOnly
  <2> QED BY <2>1, <2>2
<1>5. ASSUME NEW record PROVE JobOK(Recorded(h, record), local)
  <2>1. PICK todo, records, seen :
          Recorded(h, record) = [at[h] EXCEPT !.op = "extract", !.todo = todo, !.records = records, !.seen = seen]
    BY DEF Recorded
  <2>2. "op" \in DOMAIN at[h] BY DEF IInv, JobsOK, JobOK
  <2>3. PICK job : job = Recorded(h, record) OBVIOUS
  <2>4. "op" \in DOMAIN job /\ job.op = "extract" BY <2>1, <2>2, <2>3
  <2> QED BY <2>3, <2>4, OtherOK DEF Launching, Providing
<1>6. CASE Extract(h)
  BY <1>0, <1>5, <1>6, Onwards, JobOnly DEF Extract, Launching, Providing
<1>7. CASE Fill(h)
  BY <1>0, <1>5, <1>7, JobOnly DEF Fill
<1>8. ASSUME NEW n, NEW cut, AppendManifest(h, n, cut) PROVE IInv'
  <2>0. at[h].op = "extract" /\ UNCHANGED <<store, images, plan>> BY <1>8 DEF AppendManifest, Is
  <2>1. CASE n = Len(at[h].records)
    <3>1. Become(h, [at[h] EXCEPT !.op = "mark"]) BY <1>8, <2>1 DEF AppendManifest
    <3> QED BY <1>0, <2>0, <3>1, Onwards, JobOnly DEF Launching, Providing
  <2>2. CASE n # Len(at[h].records)
    <3>1. PICK rest, job : /\ rest = SubSeq(at[h].records, n + 1, Len(at[h].records))
                           /\ job = [at[h] EXCEPT !.records = rest, !.half = cut] /\ Become(h, job)
      BY <1>8, <2>2 DEF AppendManifest
    <3>2. "op" \in DOMAIN at[h] BY DEF IInv, JobsOK, JobOK
    <3>3. "op" \in DOMAIN job /\ job.op = "extract" BY <2>0, <3>1, <3>2
    <3>4. JobOK(job, local) BY <3>3, OtherOK DEF Launching, Providing
    <3> QED BY <1>0, <2>0, <3>1, <3>4, JobOnly
  <2> QED BY <2>1, <2>2
<1>9. CASE AppendMarker(h)
  BY <1>0, <1>9, WaitingOK, JobOnly DEF AppendMarker
<1> QED BY <1>1, <1>2, <1>3, <1>4, <1>6, <1>7, <1>8, <1>9

\* Events arrive without the hooks.
LEMMA AttachKeeps == ASSUME IInv, NEW e, Attach(e) PROVE IInv'
<1>1. PlanOK' BY PlanKept DEF Attach, IInv, PlanOK
<1>2. JobsOK' /\ StoreOK' /\ ImagesOK'
  BY DEF Attach, IInv, JobsOK, JobOK, Cleared, StoreOK, ProfilesAreWhole, ImagesOK, images
<1> QED BY <1>1, <1>2 DEF IInv

-----------------------------------------------------------------------------
(* The profiles.                                                           *)

\* An editor's profiles are others.
LEMMA EditKeeps == ASSUME IInv, NEW n \in DOMAIN plan.store, EditProfile(n) PROVE IInv'
<1>1. PlanOK' BY PlanKept DEF EditProfile, IInv, PlanOK
<1>2. n \notin Needed BY DEF IInv, PlanOK
<1>3. StoreOK' BY <1>2 DEF EditProfile, IInv, StoreOK, ProfilesAreWhole
<1>4. JobsOK' /\ ImagesOK'
  BY DEF EditProfile, IInv, JobsOK, JobOK, Cleared, ImagesOK, images
<1> QED BY <1>1, <1>3, <1>4 DEF IInv

\* A template is never a profile that is being written.
LEMMA TemplatesAreWhole == ASSUME PlanOK PROVE _template # "half"
<1>1. \A n : _read_profile(n) # "half" BY PlansAssumption DEF _read_profile, PlansAssumption
<1>2. _settings.llm # "half"
  BY PlansAssumption DEF _settings, PlansAssumption, PlanOK
<1> QED BY <1>1, <1>2 DEF _template

\* What a hook will provide.
LEMMA LookOK ==
  ASSUME NEW names \in Seq(Needed), names # <<>>, NEW template, template # "half", NEW S
  PROVE  JobOK([op |-> "look", names |-> names, template |-> template], S)
<1>1. PICK job : job = [op |-> "look", names |-> names, template |-> template] OBVIOUS
<1>2. /\ {"op", "names", "template"} \subseteq DOMAIN job
      /\ job.op = "look" /\ job.names = names /\ job.template = template
  BY <1>1
<1> QED BY <1>1, <1>2 DEF JobOK, Launching, Providing

\* Both profile hooks begin with a template that is whole.
LEMMA BeginProfilesKeeps ==
  ASSUME IInv, NEW h \in Runners, BeginLLMProfiles(h) \/ BeginAgentProfile(h) PROVE IInv'
<1>1. Lanes \in Seq(Needed) /\ Lanes # <<>> /\ <<AgentProfile>> \in Seq(Needed) /\ <<AgentProfile>> # <<>>
  <2>1. \A x \in Range(Lanes) : x \in Needed BY DEF Needed
  <2>2. Lanes \in Seq(Needed) BY <2>1, PlansAssumption, SeqDef DEF PlansAssumption
  <2>3. AgentProfile \in Needed BY DEF Needed
  <2> QED BY <2>2, <2>3, PlansAssumption DEF PlansAssumption
<1>2. CASE BeginLLMProfiles(h)
  <2>1. PICK t : t = _template /\ t # "half" BY TemplatesAreWhole DEF IInv
  <2>2. PICK job : /\ job = IF t = Absent THEN Waiting ELSE [op |-> "look", names |-> Lanes, template |-> t]
                   /\ Begin(h, "profiles", job) /\ UNCHANGED <<store, images>>
    BY <1>2, <2>1 DEF BeginLLMProfiles
  <2>3. JobOK(job, local) BY <1>1, <2>1, <2>2, WaitingOK, LookOK
  <2> QED BY <2>2, <2>3, PlanKept, JobOnly DEF Begin, IInv
<1>3. CASE BeginAgentProfile(h)
  <2>1. PICK job : /\ job = [op |-> "look", names |-> <<AgentProfile>>, template |-> "agent"]
                   /\ Begin(h, "profiles", job) /\ UNCHANGED <<store, images>>
    BY <1>3 DEF BeginAgentProfile
  <2>2. JobOK(job, local) BY <1>1, <2>1, LookOK
  <2> QED BY <2>1, <2>2, PlanKept, JobOnly DEF Begin, IInv
<1> QED BY <1>2, <1>3

\* The hook goes on to the next name.
LEMMA OnwardOK ==
  ASSUME IInv, NEW h \in Runners, at[h].op \in Providing
  PROVE  /\ JobOK(Onward(h), local) /\ JobOK([at[h] EXCEPT !.op = "write"], local)
         /\ Head(at[h].names) \in Needed /\ at[h].template # "half"
<1>1. /\ {"op", "names", "template"} \subseteq DOMAIN at[h]
      /\ at[h].names \in Seq(Needed) /\ at[h].names # <<>> /\ at[h].template # "half"
  BY DEF IInv, JobsOK, JobOK
<1>2. PICK rest : rest = Tail(at[h].names) OBVIOUS
<1>3. /\ Head(at[h].names) \in Needed /\ rest \in Seq(Needed)
      /\ Len(at[h].names) # 1 => rest # <<>>
  <2>1. /\ Len(at[h].names) \in Nat /\ Len(at[h].names) > 0
        /\ rest \in Seq(Needed) /\ Len(rest) = Len(at[h].names) - 1
    BY <1>1, <1>2, HeadTailProperties, LenProperties
  <2>2. Head(at[h].names) \in Needed BY <1>1, HeadTailProperties
  <2>3. ASSUME Len(at[h].names) # 1 PROVE rest # <<>>
    <3>1. PICK l, m : l \in Nat /\ l = Len(at[h].names) /\ m = Len(rest) BY <2>1
    <3>2. m # 0 BY <2>1, <2>3, <3>1
    <3>3. Len(<<>>) = 0 BY EmptySeq
    <3> QED BY <3>1, <3>2, <3>3
  <2> QED BY <2>1, <2>2, <2>3
<1>4. JobOK([at[h] EXCEPT !.op = "write"], local)
  <2>1. PICK job : job = [at[h] EXCEPT !.op = "write"] OBVIOUS
  <2>2. /\ {"op", "names", "template"} \subseteq DOMAIN job
        /\ job.op = "write" /\ job.names = at[h].names /\ job.template = at[h].template
    BY <1>1, <2>1
  <2> QED BY <1>1, <2>1, <2>2 DEF JobOK, Launching, Providing
<1>5. JobOK(Onward(h), local)
  <2>1. CASE Len(at[h].names) = 1 BY <2>1, WaitingOK DEF Onward
  <2>2. CASE Len(at[h].names) # 1
    <3>1. PICK job : job = [at[h] EXCEPT !.op = "look", !.names = rest] OBVIOUS
    <3>2. /\ {"op", "names", "template"} \subseteq DOMAIN job
          /\ job.op = "look" /\ job.names = rest /\ job.template = at[h].template
      BY <1>1, <3>1
    <3>3. Onward(h) = job BY <1>2, <2>2, <3>1 DEF Onward
    <3> QED BY <1>1, <1>3, <2>2, <3>2, <3>3 DEF JobOK, Launching, Providing
  <2> QED BY <2>1, <2>2
<1> QED BY <1>1, <1>3, <1>4, <1>5

\* A profile that is missing is looked for, and written whole.
LEMMA ProvideKeeps ==
  ASSUME IInv, NEW h \in Runners, Look(h) \/ _atomic_write(h) PROVE IInv'
<1>0. UNCHANGED plan => PlanOK' BY DEF IInv, PlanOK
<1>1. CASE Look(h)
  <2>1. at[h].op \in Providing BY <1>1 DEF Look, Is, Providing
  <2>2. JobOK(Onward(h), local) /\ JobOK([at[h] EXCEPT !.op = "write"], local) BY <2>1, OnwardOK
  <2> QED BY <1>0, <1>1, <2>2, JobOnly DEF Look
<1>2. CASE _atomic_write(h)
  <2>1. at[h].op \in Providing BY <1>2 DEF _atomic_write, Is, Providing
  <2>2. /\ JobOK(Onward(h), local) /\ Head(at[h].names) \in Needed /\ at[h].template # "half"
    BY <2>1, OnwardOK
  <2>3. StoreOK' BY <1>2, <2>2 DEF _atomic_write, IInv, StoreOK, ProfilesAreWhole
  <2>4. ImagesOK' /\ local' = local BY <1>2 DEF _atomic_write, IInv, ImagesOK, images
  <2>5. JobsOK' BY <1>2, <2>2, <2>4, JobGiven DEF _atomic_write, IInv
  <2> QED BY <1>0, <1>2, <2>3, <2>4, <2>5 DEF _atomic_write, IInv
<1> QED BY <1>1, <1>2

-----------------------------------------------------------------------------
(* The launcher.                                                           *)

\* A launcher begins unverified.
LEMMA BeginLaunchKeeps ==
  ASSUME IInv, NEW h \in Runners, NEW mode, NEW prewarm \in BOOLEAN, NEW warn, BeginLaunch(h, mode, prewarm, warn)
  PROVE  IInv'
<1>1. PICK pin, override, job :
        /\ job = IF pin = Absent THEN Waiting
                   ELSE [op |-> IF prewarm THEN "verify" ELSE "inspect", pin |-> pin, mode |-> mode,
                         prewarm |-> prewarm, warn |-> warn, override |-> override, unchecked |-> FALSE]
        /\ Begin(h, "launch", job) /\ UNCHANGED <<store, images>>
  BY DEF BeginLaunch
<1>2. JobOK(job, local)
  <2>1. CASE pin = Absent BY <1>1, <2>1, WaitingOK
  <2>2. CASE pin # Absent
    <3>1. /\ {"op", "pin", "prewarm", "unchecked"} \subseteq DOMAIN job
          /\ job.op = (IF prewarm THEN "verify" ELSE "inspect") /\ job.prewarm = prewarm
      BY <1>1, <2>2
    <3> QED BY <3>1 DEF JobOK, Launching, Providing
  <2> QED BY <2>1, <2>2
<1> QED BY <1>1, <1>2, PlanKept, JobOnly DEF Begin, IInv

\* What passes is attested, or was not asked to be.
LEMMA VerifyKeeps ==
  ASSUME IInv, NEW h \in Runners, NEW auth \in BOOLEAN, _verify_attestation(h, auth)
  PROVE  IInv'
<1>0. PlanOK' /\ at[h].op = "verify" /\ UNCHANGED <<store, images>>
  BY DEF _verify_attestation, Is, IInv, PlanOK
<1>1. {"op", "pin", "prewarm", "unchecked"} \subseteq DOMAIN at[h]
  BY <1>0 DEF IInv, JobsOK, JobOK, Launching
<1>2. PICK op, skipped, job :
        /\ skipped \in BOOLEAN /\ op \in {"inspect", "pull"} /\ (skipped \/ Attested(at[h].pin.ref))
        /\ job = [at[h] EXCEPT !.op = op, !.unchecked = skipped]
        /\ (Become(h, job) \/ Become(h, Waiting))
  <2> DEFINE late == at[h].mode = "off" \/ (at[h].mode = "auto" /\ Reason(at[h], auth))
             sound == ~Reason(at[h], auth) /\ Attested(at[h].pin.ref)
             to == IF at[h].prewarm THEN "inspect" ELSE "pull"
  <2>1. Become(h, IF ~(late \/ sound) THEN Waiting ELSE [at[h] EXCEPT !.op = to, !.unchecked = late])
    BY DEF _verify_attestation
  <2>2. late \in BOOLEAN /\ to \in {"inspect", "pull"} OBVIOUS
  <2>3. CASE late \/ sound
    <3>1. late \/ Attested(at[h].pin.ref) BY <2>3
    <3> HIDE DEF late, sound, to
    <3>2. Become(h, [at[h] EXCEPT !.op = to, !.unchecked = late]) BY <2>1, <2>3
    <3> QED BY <2>2, <3>1, <3>2
  <2>4. CASE ~(late \/ sound)
    <3> HIDE DEF late, sound, to
    <3>1. Become(h, Waiting) BY <2>1, <2>4
    <3> QED BY <3>1
  <2> QED BY <2>3, <2>4
<1>3. CASE Become(h, Waiting) BY <1>0, <1>3, WaitingOK, JobOnly
<1>4. CASE Become(h, job)
  <2>1. /\ {"op", "pin", "prewarm", "unchecked"} \subseteq DOMAIN job
        /\ job.op = op /\ job.pin = at[h].pin /\ job.unchecked = skipped
    BY <1>1, <1>2
  <2>2. Cleared(job.pin.ref, job.unchecked) BY <1>2, <2>1 DEF Cleared
  <2>3. JobOK(job, local) BY <1>2, <2>1, <2>2 DEF JobOK, Launching, Providing
  <2> QED BY <1>0, <1>4, <2>3, JobOnly
<1> QED BY <1>2, <1>3, <1>4

\* An image that is there is run; another is verified, or was before.
LEMMA InspectKeeps == ASSUME IInv, NEW h \in Runners, _run_timed(h) \/ Inspect(h) PROVE IInv'
<1>0. PlanOK' /\ UNCHANGED <<store, images>>
  BY DEF _run_timed, Inspect, IInv, PlanOK
<1>1. CASE _run_timed(h) BY <1>0, <1>1, WaitingOK, JobOnly DEF _run_timed
<1>2. CASE Inspect(h)
  <2>1. /\ {"op", "pin", "prewarm", "unchecked"} \subseteq DOMAIN at[h]
        /\ at[h].prewarm => Cleared(at[h].pin.ref, at[h].unchecked)
    BY <1>2 DEF IInv, JobsOK, JobOK, Inspect, Is, Launching
  <2>2. PICK op, job : /\ op = "run" => at[h].pin.ref \in local
                       /\ op = "pull" => at[h].prewarm
                       /\ op \in {"run", "pull", "verify"}
                       /\ job = [at[h] EXCEPT !.op = op]
                       /\ (Become(h, job) \/ Become(h, Waiting))
    <3>1. CASE at[h].pin.ref \in local BY <1>2, <3>1 DEF Inspect, Ready
    <3>2. CASE at[h].pin.ref \notin local /\ at[h].warn
      <4>1. Become(h, Waiting) BY <1>2, <3>2 DEF Inspect
      <4> QED BY <4>1
    <3>3. CASE at[h].pin.ref \notin local /\ ~at[h].warn
      <4>1. PICK op : op = IF at[h].prewarm THEN "pull" ELSE "verify" OBVIOUS
      <4>2. Become(h, [at[h] EXCEPT !.op = op]) BY <1>2, <3>3, <4>1 DEF Inspect
      <4>3. (op = "pull" => at[h].prewarm) /\ op \in {"pull", "verify"} BY <4>1
      <4> QED BY <4>2, <4>3
    <3> QED BY <3>1, <3>2, <3>3
  <2>3. CASE Become(h, Waiting) BY <1>0, <2>3, WaitingOK, JobOnly
  <2>4. CASE Become(h, job)
    <3>1. /\ {"op", "pin", "prewarm", "unchecked"} \subseteq DOMAIN job
          /\ job.op = op /\ job.pin = at[h].pin /\ job.unchecked = at[h].unchecked
      BY <2>1, <2>2
    <3>2. JobOK(job, local) BY <2>1, <2>2, <3>1 DEF JobOK, Launching, Providing
    <3> QED BY <1>0, <2>4, <3>2, JobOnly
  <2> QED BY <2>2, <2>3, <2>4
<1> QED BY <1>1, <1>2

\* What comes was cleared, or is somebody's who need not check.
LEMMA Pulled ==
  ASSUME ImagesOK, NEW ref, NEW unchecked, Cleared(ref, unchecked), local' = local \union {ref},
         NEW pull, pull.ref = ref, pull.unchecked = unchecked, pulls' = pulls \union {pull}, launched' = launched
  PROVE  ImagesOK' /\ local \subseteq local'
BY DEF ImagesOK, Cleared

\* An image comes.
LEMMA PullKeeps == ASSUME IInv, NEW h \in Runners, NEW intime, Pull(h, intime) PROVE IInv'
<1>1. PlanOK' /\ StoreOK' BY DEF Pull, IInv, PlanOK, StoreOK, ProfilesAreWhole
<1>2. /\ {"op", "pin", "prewarm", "unchecked"} \subseteq DOMAIN at[h]
      /\ Cleared(at[h].pin.ref, at[h].unchecked)
  BY DEF IInv, JobsOK, JobOK, Pull, Is, Launching
<1>3. PICK ref, unchecked, pull :
        /\ ref = at[h].pin.ref /\ unchecked = at[h].unchecked
        /\ pull = [ref |-> ref, unchecked |-> unchecked]
  OBVIOUS
<1>4. pull.ref = ref /\ pull.unchecked = unchecked BY <1>3
<1>5. ImagesOK' /\ local \subseteq local' /\ ref \in local'
  BY <1>2, <1>3, <1>4, Pulled DEF Pull, IInv
<1>6. JobOK(IF intime THEN Ready(h) ELSE Waiting, local')
  <2>1. CASE ~intime \/ at[h].prewarm BY <2>1, WaitingOK DEF Ready
  <2>2. CASE intime /\ ~at[h].prewarm
    <3>1. PICK job : job = [at[h] EXCEPT !.op = "run"] OBVIOUS
    <3>2. /\ {"op", "pin", "prewarm", "unchecked"} \subseteq DOMAIN job
          /\ job.op = "run" /\ job.pin = at[h].pin
      BY <1>2, <3>1
    <3>3. JobOK(job, local') BY <1>3, <1>5, <3>2 DEF JobOK, Launching, Providing
    <3> QED BY <2>2, <3>1, <3>3 DEF Ready
  <2> QED BY <2>1, <2>2
<1>7. JobsOK' BY <1>5, <1>6, JobGiven DEF Pull, IInv
<1> QED BY <1>1, <1>5, <1>7 DEF IInv

\* Whoever pulls by hand need not check.
LEMMA PullByHandKeeps == ASSUME IInv, NEW ref, PullByHand(ref) PROVE IInv'
<1>1. PlanOK' /\ StoreOK' BY PlanKept DEF PullByHand, IInv, StoreOK, ProfilesAreWhole
<1>2. PICK pull : pull = [ref |-> ref, unchecked |-> TRUE] OBVIOUS
<1>3. pull.ref = ref /\ pull.unchecked = TRUE BY <1>2
<1>4. ImagesOK' /\ local \subseteq local' BY <1>2, <1>3, Pulled DEF PullByHand, IInv, Cleared
<1>5. JobsOK' BY <1>4 DEF PullByHand, IInv, JobsOK, JobOK
<1> QED BY <1>1, <1>4, <1>5 DEF IInv

\* What is run is there.
LEMMA RunKeeps == ASSUME IInv, NEW h \in Runners, Run(h) PROVE IInv'
<1>1. PlanOK' /\ StoreOK' BY DEF Run, IInv, PlanOK, StoreOK, ProfilesAreWhole
<1>2. at[h].pin.ref \in local BY DEF IInv, JobsOK, JobOK, Run, Is
<1>3. PICK run : run = [image |-> at[h].pin.ref, source |-> resolve_source] OBVIOUS
<1>4. run.image = at[h].pin.ref /\ launched' = launched \union {run} BY <1>3 DEF Run
<1>5. ImagesOK' BY <1>2, <1>4 DEF Run, IInv, ImagesOK
<1>6. JobsOK' BY WaitingOK, JobGiven DEF Run, IInv
<1> QED BY <1>1, <1>5, <1>6 DEF IInv

-----------------------------------------------------------------------------
(* The invariant.                                                          *)

\* At first there is no profile that agents need, and no image.
LEMMA Initially == HooksInit => IInv
<1> SUFFICES ASSUME HooksInit PROVE IInv OBVIOUS
<1>1. PlanOK BY PlansAssumption DEF HooksInit, PlansAssumption, PlanOK
<1>2. JobsOK BY WaitingOK DEF HooksInit, JobsOK
<1>3. StoreOK
  <2>1. \A n \in Needed : n \in DOMAIN store /\ store[n] = Absent
    BY <1>1 DEF HooksInit, PlanOK
  <2> QED BY <2>1, PlansAssumption DEF StoreOK, ProfilesAreWhole, PlansAssumption
<1>4. ImagesOK BY DEF HooksInit, ImagesOK
<1> QED BY <1>1, <1>2, <1>3, <1>4 DEF IInv

\* Each step keeps the invariant.
LEMMA Inductive == IInv /\ [HooksNext]_hookVars => IInv'
<1> SUFFICES ASSUME IInv, [HooksNext]_hookVars PROVE IInv' OBVIOUS
<1>1. CASE UNCHANGED hookVars
  BY <1>1 DEF hookVars, attachments, images, IInv, JobsOK, JobOK, Cleared, PlanOK, StoreOK, ProfilesAreWhole, ImagesOK
<1>2. ASSUME NEW h \in Runners,
             \/ Kill(h) \/ BeginIntake(h) \/ ReadPending(h) \/ ListScanned(h) \/ Extract(h) \/ Fill(h)
             \/ \E n \in Lines, cut \in BOOLEAN : AppendManifest(h, n, cut)
             \/ AppendMarker(h)
      PROVE  IInv'
  BY <1>2, IntakeKeeps
<1>3. ASSUME NEW h \in Runners,
             BeginLLMProfiles(h) \/ BeginAgentProfile(h) \/ Look(h) \/ _atomic_write(h)
      PROVE  IInv'
  BY <1>3, BeginProfilesKeeps, ProvideKeeps
<1>4. ASSUME NEW h \in Runners,
             \/ \E mode \in {"auto", "require", "off"} : \E prewarm, warn \in BOOLEAN :
                  BeginLaunch(h, mode, prewarm, warn)
             \/ _run_timed(h) \/ Inspect(h) \/ Run(h)
             \/ \E auth, intime \in BOOLEAN : _verify_attestation(h, auth) \/ Pull(h, intime)
      PROVE  IInv'
  BY <1>4, BeginLaunchKeeps, InspectKeeps, RunKeeps, VerifyKeeps, PullKeeps
<1>5. CASE \/ \E e \in Events : Attach(e)
           \/ \E n \in DOMAIN plan.store : EditProfile(n)
           \/ \E ref \in plan.refs : PullByHand(ref)
  BY <1>5, AttachKeeps, EditKeeps, PullByHandKeeps
<1> QED BY <1>1, <1>2, <1>3, <1>4, <1>5 DEF HooksNext

\* So it always holds.
LEMMA Always == HooksSpec => []IInv
BY Initially, Inductive, PTL DEF HooksSpec

-----------------------------------------------------------------------------
\* However many hooks run, and whenever they are killed or the profile they
\* clone is edited: an agent finds its profile whole or not at all
\* (_atomic_write, _template).
THEOREM ProfilesAreNeverHalf == HooksSpec => []ProfilesAreWhole
<1>1. IInv => ProfilesAreWhole BY DEF IInv, StoreOK
<1> QED BY <1>1, Always, PTL

\* Whatever the locks, modes and delays: an image that was run is attested, or
\* somebody pulled it who did not have to check (_ensure_image).
THEOREM RunsAreAttested == HooksSpec => []ImagesAreAttested
<1>1. IInv => ImagesAreAttested BY DEF IInv, ImagesOK, Cleared, ImagesAreAttested
<1> QED BY <1>1, Always, PTL

-----------------------------------------------------------------------------
(* The list of images.                                                     *)

\* A set of numbers up to n has a first one: its members up to p are finite
\* sets, and a smallest of them in the order of inclusion is a singleton.
LEMMA HasFirst ==
  ASSUME NEW n \in Nat, NEW S, S \subseteq 1..n, S # {}
  PROVE  \E p \in S : \A q \in S : p <= q
<1> DEFINE To(p) == {q \in S : q <= p}
           Heads == {To(p) : p \in S}
<1>1. Heads \subseteq FiniteSubsetsOf(S)
  <2>1. IsFiniteSet(1..n) BY FS_Interval
  <2>2. \A p \in S : To(p) \subseteq S /\ IsFiniteSet(To(p)) BY <2>1, FS_Subset
  <2> QED BY <2>2 DEF FiniteSubsetsOf
<1>2. Heads # {} OBVIOUS
<1>3. IsWellFoundedOn(StrictSubsetOrdering(S), FiniteSubsetsOf(S))
  BY FS_StrictSubsetOrderingWellFounded
<1> HIDE DEF Heads
<1>4. PICK x \in Heads : \A y \in Heads : <<y, x>> \notin StrictSubsetOrdering(S)
  BY <1>1, <1>2, <1>3, WFMin
<1> USE DEF Heads
<1>5. PICK p \in S : x = To(p) BY <1>4
<1>6. ASSUME NEW q \in S, ~(p <= q) PROVE FALSE
  <2>1. PICK y : y = To(q) OBVIOUS
  <2>2. p \in To(p) /\ p \notin To(q) /\ \A z \in To(q) : z \in To(p)
    <3>1. p \in 1..n /\ q \in 1..n /\ \A z \in S : z \in 1..n OBVIOUS
    <3> QED BY <1>6, <3>1
  <2>3. y \in Heads BY <2>1
  <2>4. <<y, x>> \in StrictSubsetOrdering(S) BY <1>5, <2>1, <2>2 DEF StrictSubsetOrdering
  <2> HIDE DEF Heads
  <2> QED BY <1>4, <2>3, <2>4
<1> QED BY <1>6

\* What FlattenSeq has after each of n sequences.
Flat(n, seqs, f) == f = [i \in 1..n |-> IF i = 1 THEN seqs[i] ELSE f[i - 1] \o seqs[i]]

\* There is such a function: a least n without one would have one.
LEMMA FlatExists ==
  ASSUME NEW n \in Nat \ {0}, NEW seqs
  PROVE  \E f : Flat(n, seqs, f)
<1>1. \E f : Flat(1, seqs, f)
  <2>1. Flat(1, seqs, [i \in 1..1 |-> seqs[1]]) BY DEF Flat
  <2> QED BY <2>1
<1>2. ASSUME NEW k \in Nat \ {0}, NEW f, Flat(k, seqs, f) PROVE \E g : Flat(k + 1, seqs, g)
  <2>0. PICK e : e = f[k] \o seqs[k + 1] OBVIOUS
  <2>1. PICK g : g = [i \in 1..(k + 1) |-> IF i <= k THEN f[i] ELSE e] OBVIOUS
  <2>2. \A i \in 1..k : f[i] = IF i = 1 THEN seqs[i] ELSE f[i - 1] \o seqs[i] BY <1>2 DEF Flat
  <2>3. \A i \in 1..k : g[i] = f[i] BY <2>1
  <2>4. ASSUME NEW i \in 1..(k + 1)
        PROVE  g[i] = IF i = 1 THEN seqs[i] ELSE g[i - 1] \o seqs[i]
    <3>1. CASE i <= k
      <4>1. i \in 1..k /\ (i # 1 => i - 1 \in 1..k) BY <3>1
      <4> QED BY <2>2, <2>3, <4>1
    <3>2. CASE i = k + 1
      <4>0. g[i] = e BY <2>1, <3>2
      <4>1. g[i] = f[k] \o seqs[k + 1] BY <2>0, <4>0
      <4>2. i # 1 /\ i - 1 = k /\ k \in 1..k BY <3>2
      <4>3. g[i - 1] = f[k] BY <2>3, <4>2
      <4> QED BY <3>2, <4>1, <4>2, <4>3
    <3> QED BY <3>1, <3>2
  <2>5. g = [i \in 1..(k + 1) |-> g[i]] BY <2>1
  <2>6. Flat(k + 1, seqs, g) BY <2>4, <2>5 DEF Flat
  <2> QED BY <2>6
<1>3. ASSUME ~ \E f : Flat(n, seqs, f) PROVE FALSE
  <2> DEFINE Lost == {k \in 1..n : ~ \E f : Flat(k, seqs, f)}
  <2>1. n \in Lost BY <1>3
  <2>2. PICK k \in Lost : \A j \in Lost : k <= j
    <3>1. Lost \subseteq 1..n /\ Lost # {} BY <2>1
    <3> HIDE DEF Lost
    <3> QED BY <3>1, HasFirst
  <2>3. k \in 1..n /\ k # 1 /\ ~ \E f : Flat(k, seqs, f) BY <1>1, <2>2
  <2>4. k - 1 \in Nat \ {0} /\ (k - 1) + 1 = k /\ k - 1 \in 1..n BY <2>3
  <2>5. k - 1 \notin Lost BY <2>2, <2>4
  <2>6. PICK f : Flat(k - 1, seqs, f) BY <2>4, <2>5
  <2>7. \E g : Flat((k - 1) + 1, seqs, g) BY <1>2, <2>4, <2>6
  <2> QED BY <2>3, <2>4, <2>7
<1> QED BY <1>3

\* A sequence has everything that others have.
HoldsAll(all, seqs) ==
  \A k \in DOMAIN seqs : \A j \in DOMAIN seqs[k] : \E m \in DOMAIN all : all[m] = seqs[k][j]

\* Nothing of the sequences is lost.
LEMMA FlattenHolds ==
  ASSUME NEW n \in Nat, NEW S, NEW seqs \in [1..n -> Seq(S)]
  PROVE  FlattenSeq(seqs) \in Seq(S) /\ HoldsAll(FlattenSeq(seqs), seqs)
<1>0. seqs \in Seq(Seq(S)) /\ Len(seqs) = n
  <2>1. seqs \in Seq(Seq(S)) BY SeqDef
  <2>2. Len(seqs) \in Nat /\ DOMAIN seqs = 1..Len(seqs) BY <2>1, LenProperties
  <2>3. DOMAIN seqs = 1..n OBVIOUS
  <2>4. Len(seqs) = n BY <2>2, <2>3
  <2> QED BY <2>1, <2>4
<1>1. CASE n = 0
  <2>1. seqs = <<>> BY <1>0, <1>1, EmptySeq
  <2>2. FlattenSeq(seqs) = seqs BY <1>0, <1>1 DEF FlattenSeq
  <2>3. FlattenSeq(seqs) \in Seq(S) BY <2>1, <2>2, EmptySeq
  <2>4. DOMAIN seqs = {} BY <1>1
  <2> QED BY <2>3, <2>4 DEF HoldsAll
<1>2. CASE n # 0
  <2>1. PICK f : Flat(n, seqs, f) /\ FlattenSeq(seqs) = f[n]
    <3>1. PICK f : f = CHOOSE g : Flat(n, seqs, g) OBVIOUS
    <3>2. Flat(n, seqs, f) BY <1>2, <3>1, FlatExists
    <3>3. FlattenSeq(seqs) = f[n] BY <1>0, <1>2, <3>1 DEF FlattenSeq, Flat
    <3> QED BY <3>2, <3>3
  <2>2. \A i \in 1..n : f[i] = IF i = 1 THEN seqs[i] ELSE f[i - 1] \o seqs[i] BY <2>1 DEF Flat
  <2> DEFINE Good(i) == /\ f[i] \in Seq(S)
                        /\ \A k \in 1..i : \A j \in DOMAIN seqs[k] :
                             \E m \in DOMAIN f[i] : f[i][m] = seqs[k][j]
             Bad == {i \in 1..n : ~Good(i)}
  <2>3. Good(1) BY <1>2, <2>2
  <2>4. ASSUME NEW i \in 1..n, i # 1, Good(i - 1) PROVE Good(i)
    <3>1. PICK a, b : a = f[i - 1] /\ b = seqs[i] OBVIOUS
    <3>2. a \in Seq(S) /\ b \in Seq(S) /\ f[i] = a \o b BY <2>2, <2>4, <3>1
    <3>3. PICK la, lb, c : la = Len(a) /\ lb = Len(b) /\ c = a \o b OBVIOUS
    <3>4. la \in Nat /\ lb \in Nat /\ DOMAIN a = 1..la /\ DOMAIN b = 1..lb BY <3>2, <3>3, LenProperties
    <3>5. /\ c \in Seq(S) /\ Len(c) = la + lb
          /\ \A m \in 1..(la + lb) : c[m] = IF m <= la THEN a[m] ELSE b[m - la]
      BY <3>2, <3>3, ConcatProperties
    <3>6. DOMAIN c = 1..(la + lb) BY <3>5, LenProperties
    <3>7. ASSUME NEW m \in DOMAIN a PROVE \E k \in DOMAIN c : c[k] = a[m]
      <4>1. m \in 1..(la + lb) /\ m <= la BY <3>4
      <4> QED BY <3>5, <3>6, <4>1
    <3>8. ASSUME NEW m \in DOMAIN b PROVE \E k \in DOMAIN c : c[k] = b[m]
      <4>1. la + m \in 1..(la + lb) /\ ~(la + m <= la) /\ (la + m) - la = m BY <3>4
      <4> QED BY <3>5, <3>6, <4>1
    <3>9. ASSUME NEW k \in 1..i, NEW j \in DOMAIN seqs[k]
          PROVE  \E m \in DOMAIN c : c[m] = seqs[k][j]
      <4>1. CASE k = i BY <3>1, <3>8, <4>1
      <4>2. CASE k # i
        <5>1. k \in 1..(i - 1) BY <4>2
        <5>2. PICK m \in DOMAIN a : a[m] = seqs[k][j] BY <2>4, <3>1, <5>1
        <5> QED BY <3>7, <5>2
      <4> QED BY <4>1, <4>2
    <3>10. f[i] = c BY <3>2, <3>3
    <3> QED BY <3>5, <3>9, <3>10
  <2>5. ASSUME Bad # {} PROVE FALSE
    <3>1. PICK i \in Bad : \A j \in Bad : i <= j
      <4>1. Bad \subseteq 1..n OBVIOUS
      <4> HIDE DEF Bad
      <4> QED BY <2>5, <4>1, HasFirst
    <3> HIDE DEF Good
    <3>2. i \in 1..n /\ ~Good(i) /\ i # 1 BY <2>3, <3>1
    <3>3. i - 1 \in 1..n /\ ~(i <= i - 1) BY <3>2
    <3>4. Good(i - 1) BY <3>1, <3>3
    <3> QED BY <2>4, <3>2, <3>4
  <2>6. Good(n)
    <3>1. n \in 1..n BY <1>2
    <3> HIDE DEF Good
    <3> QED BY <2>5, <3>1
  <2>7. DOMAIN seqs = 1..n OBVIOUS
  <2>8. f[n] \in Seq(S) /\ HoldsAll(f[n], seqs) BY <2>6, <2>7 DEF HoldsAll
  <2> QED BY <2>1, <2>8
<1> QED BY <1>1, <1>2

-----------------------------------------------------------------------------
(* What becomes of the images.                                             *)

\* The images of an event.
Images(e) == Range(Sent(e)) \ {Absent}

\* What the hook finds in a file.
Entries == [event_file : Events, sha256 : Shas \union {Absent}]

Named(entries) == {entries[i].sha256 : i \in DOMAIN entries}

Collecting == {"scan", "extract", "fill"}
Attaching == {"pending", "mark"} \union Collecting

\* What has been written to the manifest, readable or not.
Written == _load_manifest \union swallowed

\* What a hook that collects images has read is still to do, or to be written
\* to the manifest.
Left(job) == IF job.op \in Collecting THEN Named(job.todo) \union Named(job.records) ELSE {}

\* Or it is written.
ReadOK(job, written) ==
  job.op \in {"mark"} \union Collecting => \A e \in job.read : Images(e) \subseteq Left(job) \union written

\* What it has recorded it has seen.
CollectOK(job) ==
  /\ job.op \in {"pending"} \union Collecting => {"op", "processed", "seen"} \subseteq DOMAIN job
  /\ job.op \in Collecting =>
       /\ {"read", "records", "todo"} \subseteq DOMAIN job
       /\ job.todo \in Seq(Entries) /\ job.records \in Seq(Entries)
       /\ Named(job.records) \subseteq job.seen \union {Absent}
  /\ job.op = "scan" => job.records = <<>>
  /\ job.op \in {"extract", "fill"} =>
       {"scanned", "half"} \subseteq DOMAIN job /\ job.scanned \subseteq Events
  /\ job.op = "fill" => job.todo # <<>> /\ job.todo[1].sha256 \in Shas
  /\ job.op = "mark" => job.scanned \subseteq Events

\* What a process takes for recorded.
Seen(job) == IF job.op \in {"pending"} \union Collecting THEN job.seen ELSE {}

Filling(job, s) == job.op = "fill" /\ job.todo[1].sha256 = s

\* The file of an image is whole, or known not to be.
FileOK(s) == extracted[s] = "whole" \/ s \in spoiled \/ \E h \in Runners : Filling(at[h], s)

CollectInv == \A h \in Runners : CollectOK(at[h])
RecordedInv == \A h \in Runners : ReadOK(at[h], Written)
FilesInv == \A s \in Shas : s \in Written \/ (\E h \in Runners : s \in Seen(at[h])) => FileOK(s)
MarkedInv == processed \subseteq Events /\ \A e \in processed \ missed : Images(e) \subseteq Written

AInv == DOMAIN extracted = Shas /\ CollectInv /\ RecordedInv /\ FilesInv /\ MarkedInv

\* A process that goes on to other work.
LEMMA Taken ==
  ASSUME JobsOK, NEW h \in Runners, NEW job, Become(h, job)
  PROVE  DOMAIN at' = Runners /\ \A o \in Runners : at'[o] = IF o = h THEN job ELSE at[o]
BY DEF JobsOK, Become

\* What a list names, its head and its rest name.
LEMMA NamedRest ==
  ASSUME NEW S, NEW s \in Seq(S), s # <<>>
  PROVE  /\ Head(s) \in S /\ Tail(s) \in Seq(S) /\ s[1] = Head(s)
         /\ Named(s) = Named(Tail(s)) \union {Head(s).sha256}
<1>1. PICK n, t : n = Len(s) /\ t = Tail(s) OBVIOUS
<1>2. n \in Nat \ {0} /\ DOMAIN s = 1..n BY <1>1, EmptySeq, LenProperties
<1>3. t \in Seq(S) /\ Len(t) = n - 1 /\ \A i \in 1..Len(t) : t[i] = s[i + 1]
  BY <1>1, HeadTailProperties
<1>4. DOMAIN t = 1..(n - 1) BY <1>3, LenProperties
<1>5. Head(s) \in S /\ s[1] = Head(s) BY HeadTailProperties
<1>6. ASSUME NEW i \in DOMAIN s, i # 1 PROVE \E j \in DOMAIN t : t[j] = s[i]
  <2>1. i - 1 \in 1..(n - 1) /\ (i - 1) + 1 = i BY <1>2, <1>6
  <2> QED BY <1>3, <1>4, <2>1
<1>7. ASSUME NEW j \in DOMAIN t PROVE \E i \in DOMAIN s : s[i] = t[j]
  <2>1. j + 1 \in 1..n BY <1>2, <1>4
  <2> QED BY <1>2, <1>3, <1>4, <2>1
<1>8. 1 \in DOMAIN s BY <1>2
<1> QED BY <1>1, <1>3, <1>5, <1>6, <1>7, <1>8 DEF Named

\* One more entry names one more.
LEMMA NamedMore ==
  ASSUME NEW S, NEW s \in Seq(S), NEW e \in S
  PROVE  Append(s, e) \in Seq(S) /\ Named(Append(s, e)) = Named(s) \union {e.sha256}
<1>1. PICK n, t : n = Len(s) /\ t = Append(s, e) OBVIOUS
<1>2. n \in Nat /\ DOMAIN s = 1..n BY <1>1, LenProperties
<1>3. t \in Seq(S) /\ Len(t) = n + 1 /\ t[n + 1] = e /\ \A i \in 1..n : t[i] = s[i]
  BY <1>1, AppendProperties
<1>4. DOMAIN t = 1..(n + 1) BY <1>3, LenProperties
<1>5. \A i \in DOMAIN t : i \in DOMAIN s \/ i = n + 1 BY <1>2, <1>4
<1>6. n + 1 \in DOMAIN t /\ \A i \in DOMAIN s : i \in DOMAIN t BY <1>2, <1>4
<1> QED BY <1>1, <1>2, <1>3, <1>5, <1>6 DEF Named

\* What a step has to show when h goes on to job.
LEMMA StepKeeps ==
  ASSUME AInv, JobsOK, NEW h \in Runners, NEW job, Become(h, job), CollectOK(job),
         DOMAIN extracted' = Shas,
         manifest \subseteq manifest', swallowed \subseteq swallowed', spoiled \subseteq spoiled',
         ReadOK(job, Written'),
         \A s \in Shas : extracted[s] = "whole" => extracted'[s] = "whole" \/ Filling(job, s),
         \A s \in Shas : Filling(at[h], s) =>
           \/ extracted'[s] = "whole" \/ s \in spoiled' \/ Filling(job, s)
           \/ s \notin Written' /\ s \notin Seen(job)
                /\ \A o \in Runners : o # h => s \notin Seen(at[o]),
         \A s \in Shas : s \in Written' \/ s \in Seen(job) =>
           \/ s \in Written \/ extracted'[s] = "whole"
           \/ \E o \in Runners : s \in Seen(at[o]),
         processed' \subseteq Events,
         \A e \in processed' \ missed' : e \in processed \ missed \/ Images(e) \subseteq Written'
  PROVE  AInv'
<1>1. DOMAIN at' = Runners /\ \A o \in Runners : at'[o] = IF o = h THEN job ELSE at[o] BY Taken
<1>2. Written \subseteq Written' BY DEF Written, _load_manifest
<1>3. CollectInv' BY <1>1 DEF AInv, CollectInv
<1>4. RecordedInv' BY <1>1, <1>2 DEF AInv, RecordedInv, ReadOK
<1>5. MarkedInv' BY <1>2 DEF AInv, MarkedInv
<1>6. FilesInv'
  <2> SUFFICES ASSUME NEW s \in Shas, s \in Written' \/ \E o \in Runners : s \in Seen(at'[o])
               PROVE  FileOK(s)'
    BY DEF FilesInv
  <2>1. s \in Written \/ extracted'[s] = "whole" \/ \E o \in Runners : s \in Seen(at[o])
    BY <1>1
  <2>2. CASE extracted'[s] = "whole" BY <2>2 DEF FileOK
  <2>3. CASE FileOK(s)
    <3>1. CASE extracted[s] = "whole" BY <1>1, <3>1 DEF FileOK
    <3>2. CASE s \in spoiled BY <3>2 DEF FileOK
    <3>3. CASE \E o \in Runners : Filling(at[o], s)
      <4>1. PICK o \in Runners : Filling(at[o], s) BY <3>3
      <4>2. CASE o # h BY <1>1, <4>1, <4>2 DEF FileOK
      <4>3. CASE o = h
        <5>1. \/ extracted'[s] = "whole" \/ s \in spoiled' \/ Filling(job, s)
              \/ s \notin Written' /\ s \notin Seen(job)
                   /\ \A p \in Runners : p # h => s \notin Seen(at[p])
          BY <4>1, <4>3
        <5> QED BY <1>1, <5>1 DEF FileOK
      <4> QED BY <4>2, <4>3
    <3> QED BY <2>3, <3>1, <3>2, <3>3 DEF FileOK
  <2> QED BY <2>1, <2>2, <2>3 DEF AInv, FilesInv
<1> QED BY <1>3, <1>4, <1>5, <1>6 DEF AInv

\* A process that collects nothing has nothing to show.
LEMMA OthersCollectNothing ==
  ASSUME NEW job, job.op \notin Attaching
  PROVE  /\ CollectOK(job) /\ Seen(job) = {} /\ \A s : ~Filling(job, s)
         /\ \A written : ReadOK(job, written)
BY DEF CollectOK, Seen, Filling, ReadOK, Attaching, Collecting

\* Steps of the other hooks and of others.
LEMMA ElsewhereKeeps ==
  ASSUME AInv, UNCHANGED <<extracted, manifest, processed, missed, spoiled, swallowed>>,
         \A o \in Runners : at'[o] = at[o] \/ (at[o].op \notin Attaching /\ at'[o].op \notin Attaching)
  PROVE  AInv'
<1>1. ASSUME NEW o \in Runners
      PROVE  /\ CollectOK(at'[o]) /\ Seen(at'[o]) = Seen(at[o])
             /\ \A s : Filling(at'[o], s) <=> Filling(at[o], s)
             /\ ReadOK(at'[o], Written)
  BY OthersCollectNothing DEF AInv, CollectInv, RecordedInv
<1>2. Written' = Written BY DEF Written, _load_manifest
<1>3. CollectInv' /\ RecordedInv' /\ MarkedInv'
  BY <1>1, <1>2 DEF AInv, CollectInv, RecordedInv, MarkedInv
<1>4. FilesInv'
  <2>1. \A s : FileOK(s)' <=> FileOK(s) BY <1>1 DEF FileOK
  <2> QED BY <1>1, <1>2, <2>1 DEF AInv, FilesInv
<1> QED BY <1>3, <1>4 DEF AInv

-----------------------------------------------------------------------------
(* What the intake's steps do.                                             *)

\* The images that a file is found to have.
LEMMA ScanHolds ==
  ASSUME NEW e \in Events
  PROVE  /\ _scan_event_file(e) \in Seq(Entries)
         /\ arrived[e] = "whole" => Images(e) \subseteq Named(_scan_event_file(e))
<1>0. CASE arrived[e] # "whole"
  <2>1. _scan_event_file(e) = <<>> BY <1>0 DEF _scan_event_file
  <2> QED BY <1>0, <2>1, EmptySeq
<1>1. CASE arrived[e] = "whole"
  <2>1. PICK sent : sent = Sent(e) OBVIOUS
  <2>2. sent \in Seq(Range(sent)) BY <2>1, EventsAssumption DEF EventsAssumption
  <2>3. PICK n \in Nat : DOMAIN sent = 1..n BY <2>2, LenProperties
  <2>4. \A i \in DOMAIN sent : sent[i] \in Shas \union {Absent}
    <3>1. \A i \in DOMAIN sent : sent[i] \in Range(Sent(e)) BY <2>1 DEF Range
    <3>2. ASSUME NEW s \in Range(Sent(e)), s # Absent PROVE s \in Shas
      <4>1. Range(Sent(e)) \in {Range(Sent(d)) : d \in Events} OBVIOUS
      <4> QED BY <3>2, <4>1 DEF Shas
    <3> QED BY <3>1, <3>2
  <2>5. PICK found : found = [i \in DOMAIN sent |-> [event_file |-> e, sha256 |-> sent[i]]] OBVIOUS
  <2>6. ASSUME NEW i \in DOMAIN sent PROVE found[i] \in Entries /\ found[i].sha256 = sent[i]
    <3>1. PICK s \in Shas \union {Absent} : s = sent[i] BY <2>4
    <3>2. PICK r : r = [event_file |-> e, sha256 |-> s] OBVIOUS
    <3>3. r \in Entries /\ r.sha256 = s BY <3>2 DEF Entries
    <3> QED BY <2>5, <3>1, <3>2, <3>3
  <2>7. DOMAIN found = 1..n BY <2>3, <2>5
  <2>8. found \in Seq(Entries)
    <3>1. found \in [1..n -> Entries] BY <2>3, <2>5, <2>6
    <3> QED BY <3>1, SeqDef
  <2>9. Images(e) \subseteq Named(found)
    <3>1. \A s \in Images(e) : \E i \in DOMAIN sent : sent[i] = s BY <2>1 DEF Images, Range
    <3>2. DOMAIN found = DOMAIN sent BY <2>5
    <3> QED BY <2>6, <3>1, <3>2 DEF Named
  <2>10. _scan_event_file(e) = found BY <1>1, <2>1, <2>5 DEF _scan_event_file
  <2> QED BY <2>8, <2>9, <2>10
<1> QED BY <1>0, <1>1

\* Those of all the files that are whole are among what is to be done.
LEMMA PendingHolds ==
  ASSUME NEW h
  PROVE  /\ Pending(h) \in Seq(Entries)
         /\ \A e \in Listed(h) : arrived[e] = "whole" => Images(e) \subseteq Named(Pending(h))
<1>1. PICK seqs : seqs = [e \in 1..Newest |-> IF e \in Listed(h) THEN _scan_event_file(e) ELSE <<>>]
  OBVIOUS
<1>2. \A e \in 1..Newest : seqs[e] \in Seq(Entries)
  <2>1. <<>> \in Seq(Entries) BY EmptySeq
  <2> QED BY <1>1, <2>1, ScanHolds DEF Events
<1>3. seqs \in [1..Newest -> Seq(Entries)] BY <1>1, <1>2
<1>4. Newest \in Nat BY EventsAssumption DEF EventsAssumption
<1>5. PICK all : all = FlattenSeq(seqs) OBVIOUS
<1>6. all \in Seq(Entries) /\ HoldsAll(all, seqs)
  <2>1. FlattenSeq(seqs) \in Seq(Entries) /\ HoldsAll(FlattenSeq(seqs), seqs)
    BY <1>3, <1>4, FlattenHolds
  <2> QED BY <1>5, <2>1
<1>7. ASSUME NEW e \in Listed(h), arrived[e] = "whole", NEW s \in Images(e)
      PROVE  s \in Named(all)
  <2>1. e \in 1..Newest /\ e \in Events BY DEF Listed, Events
  <2>2. seqs[e] = _scan_event_file(e) BY <1>1, <2>1
  <2>3. PICK j \in DOMAIN seqs[e] : seqs[e][j].sha256 = s BY <1>7, <2>1, <2>2, ScanHolds DEF Named
  <2>4. PICK m \in DOMAIN all : all[m] = seqs[e][j]
    <3>1. e \in DOMAIN seqs BY <1>1, <2>1
    <3> QED BY <1>6, <3>1 DEF HoldsAll
  <2> QED BY <2>3, <2>4 DEF Named
<1>8. Pending(h) = all BY <1>1, <1>5 DEF Pending, Events
<1> QED BY <1>6, <1>7, <1>8

\* An entry that is done is recorded.
LEMMA RecordedOK ==
  ASSUME NEW h, CollectOK(at[h]), at[h].op \in {"extract", "fill"}, at[h].todo # <<>>,
         NEW job, job = Recorded(h, Head(at[h].todo))
  PROVE  /\ CollectOK(job) /\ job.op = "extract" /\ \A s : ~Filling(job, s)
         /\ Left(job) = Left(at[h]) /\ job.read = at[h].read
         /\ Seen(job) = Seen(at[h]) \union {Head(at[h].todo).sha256}
         /\ Head(at[h].todo) \in Entries /\ at[h].todo[1] = Head(at[h].todo)
<1>1. PICK old, todo, records, seen, entry :
        /\ old = at[h] /\ todo = old.todo /\ records = old.records /\ seen = old.seen
        /\ entry = Head(todo)
  OBVIOUS
<1>2. /\ {"op", "processed", "seen", "read", "records", "todo", "scanned", "half"} \subseteq DOMAIN old
      /\ todo \in Seq(Entries) /\ records \in Seq(Entries) /\ todo # <<>>
      /\ Named(records) \subseteq seen \union {Absent} /\ old.scanned \subseteq Events
  BY <1>1 DEF CollectOK, Collecting
<1>3. PICK rest, more, all :
        rest = Tail(todo) /\ more = Append(records, entry) /\ all = seen \union {entry.sha256}
  OBVIOUS
<1>4. /\ entry \in Entries /\ rest \in Seq(Entries) /\ todo[1] = entry
      /\ Named(todo) = Named(rest) \union {entry.sha256}
  BY <1>1, <1>2, <1>3, NamedRest
<1>5. more \in Seq(Entries) /\ Named(more) = Named(records) \union {entry.sha256}
  BY <1>2, <1>3, <1>4, NamedMore
<1>6. /\ DOMAIN job = DOMAIN old /\ job.op = "extract" /\ job.todo = rest /\ job.records = more
      /\ job.seen = all /\ job.read = old.read /\ job.scanned = old.scanned
  BY <1>1, <1>2, <1>3 DEF Recorded
<1>7. CollectOK(job) BY <1>2, <1>3, <1>4, <1>5, <1>6 DEF CollectOK, Collecting
<1>8. Seen(job) = all /\ Seen(old) = seen BY <1>1, <1>6 DEF Seen, Collecting
<1>9. Left(job) = Left(old) BY <1>1, <1>4, <1>5, <1>6 DEF Left, Collecting
<1> QED BY <1>1, <1>3, <1>4, <1>6, <1>7, <1>8, <1>9 DEF Filling

-----------------------------------------------------------------------------
(* The steps of the intake.                                                *)

\* A process at rest.
LEMMA AtRest ==
  /\ CollectOK(Waiting) /\ Waiting.op = "waiting" /\ Seen(Waiting) = {} /\ \A s : ~Filling(Waiting, s)
  /\ \A written : ReadOK(Waiting, written)
<1>1. Waiting.op = "waiting" BY DEF Waiting
<1> QED BY <1>1, OthersCollectNothing DEF Attaching, Collecting

\* The image that a killed hook was at is spoiled, or nobody knows of it.
LEMMA KillLoses ==
  ASSUME AInv, JobsOK, NEW h \in Runners, Kill(h) PROVE AInv'
<1>1. /\ Become(h, Waiting) /\ UNCHANGED <<extracted, manifest, processed, missed, swallowed>>
      /\ spoiled \subseteq spoiled'
  BY DEF Kill
<1>2. ASSUME NEW s \in Shas, Filling(at[h], s)
      PROVE  \/ s \in spoiled'
             \/ s \notin Written /\ \A o \in Runners : o # h => s \notin Seen(at[o])
  <2>1. at[h].op = "fill" /\ s = at[h].todo[1].sha256 BY <1>2 DEF Filling
  <2>2. CASE s \in Written \/ \E o \in Runners \ {h} : ~Is(o, "waiting")
    BY <2>1, <2>2 DEF Kill, Is, Written, _load_manifest
  <2>3. CASE ~(s \in Written \/ \E o \in Runners \ {h} : ~Is(o, "waiting"))
    <3>1. s \notin Written BY <2>3
    <3>2. ASSUME NEW o \in Runners, o # h PROVE s \notin Seen(at[o])
      <4>1. at[o].op = "waiting" BY <2>3, <3>2 DEF Is
      <4> QED BY <4>1, OthersCollectNothing DEF Attaching, Collecting
    <3> QED BY <3>1, <3>2
  <2> QED BY <2>2, <2>3
<1>3. Written' = Written BY <1>1 DEF Written, _load_manifest
<1>4. DOMAIN extracted = Shas /\ processed \subseteq Events BY DEF AInv, MarkedInv
<1> QED BY <1>1, <1>2, <1>3, <1>4, AtRest, StepKeeps

\* The steps that write nothing.
LEMMA QuietlyKeeps ==
  ASSUME AInv, JobsOK, NEW h \in Runners, NEW job, Become(h, job), CollectOK(job),
         UNCHANGED <<extracted, manifest, processed, missed, spoiled, swallowed>>,
         ReadOK(job, Written), \A s : ~Filling(at[h], s), Seen(job) \subseteq Seen(at[h]) \union Written
  PROVE  AInv'
<1>1. Written' = Written BY DEF Written, _load_manifest
<1>2. DOMAIN extracted = Shas /\ processed \subseteq Events BY DEF AInv, MarkedInv
<1> QED BY <1>1, <1>2, StepKeeps

\* A hook that begins knows what the manifest names.
LEMMA BeginIntakeKnows ==
  ASSUME AInv, JobsOK, NEW h \in Runners, BeginIntake(h) PROVE AInv'
<1>1. PICK known, job :
        /\ known = _load_manifest
        /\ job = [op |-> "pending", processed |-> processed, seen |-> known]
        /\ Become(h, job) /\ UNCHANGED attachments
  BY DEF BeginIntake, Begin
<1>2. DOMAIN job = {"op", "processed", "seen"} /\ job.op = "pending" /\ job.seen = known
  BY <1>1
<1>3. CollectOK(job) /\ Seen(job) = known /\ ReadOK(job, Written)
  BY <1>2 DEF CollectOK, Seen, ReadOK, Collecting
<1>4. \A s : ~Filling(at[h], s) BY DEF BeginIntake, Begin, Is, Filling
<1> QED BY <1>1, <1>2, <1>3, <1>4, QuietlyKeeps DEF attachments, Written

\* What it reads is to be done.
LEMMA ReadPendingReads ==
  ASSUME AInv, JobsOK, NEW h \in Runners, ReadPending(h) PROVE AInv'
<1>1. PICK read, todo, none, job :
        /\ read = {e \in Listed(h) : arrived[e] = "whole"} /\ todo = Pending(h) /\ none = <<>>
        /\ job = [op |-> "scan", processed |-> at[h].processed, seen |-> at[h].seen,
                  read |-> read, records |-> none, todo |-> todo]
        /\ Become(h, job) /\ UNCHANGED attachments
  BY DEF ReadPending
<1>2. /\ DOMAIN job = {"op", "processed", "seen", "read", "records", "todo"} /\ job.op = "scan"
      /\ job.seen = at[h].seen /\ job.read = read /\ job.records = none /\ job.todo = todo
  BY <1>1
<1>3. todo \in Seq(Entries) /\ \A e \in read : Images(e) \subseteq Named(todo)
  BY <1>1, PendingHolds
<1>4. none = <<>> /\ none \in Seq(Entries) /\ Named(none) = {} BY <1>1, EmptySeq DEF Named
<1>5. CollectOK(job) /\ ReadOK(job, Written)
  BY <1>2, <1>3, <1>4 DEF CollectOK, ReadOK, Left, Collecting
<1>6. Seen(job) = Seen(at[h]) BY <1>2 DEF ReadPending, Is, Seen, Collecting
<1>7. \A s : ~Filling(at[h], s) BY DEF ReadPending, Is, Filling
<1> QED BY <1>1, <1>2, <1>5, <1>6, <1>7, QuietlyKeeps DEF attachments

\* It marks only what it has listed.
LEMMA ListScannedLists ==
  ASSUME AInv, JobsOK, NEW h \in Runners, ListScanned(h) PROVE AInv'
<1>0. at[h].op = "scan" /\ UNCHANGED attachments /\ CollectOK(at[h])
  BY DEF ListScanned, Is, AInv, CollectInv
<1>1. \A s : ~Filling(at[h], s) BY <1>0 DEF Filling
<1>2. CASE Listed(h) = {}
  <2>1. Become(h, Waiting) BY <1>2 DEF ListScanned
  <2> QED BY <1>0, <1>1, <2>1, AtRest, QuietlyKeeps DEF attachments
<1>3. CASE Listed(h) # {}
  <2>1. PICK listed, none, job :
          /\ listed = Listed(h) /\ none = <<>>
          /\ job = [op |-> "extract", processed |-> at[h].processed, seen |-> at[h].seen,
                    read |-> at[h].read, records |-> none, todo |-> at[h].todo, scanned |-> listed,
                    half |-> FALSE]
          /\ Become(h, job)
    BY <1>3 DEF ListScanned
  <2>2. /\ DOMAIN job = {"op", "processed", "seen", "read", "records", "todo", "scanned", "half"}
        /\ job.op = "extract" /\ job.seen = at[h].seen /\ job.read = at[h].read
        /\ job.records = none /\ job.todo = at[h].todo /\ job.scanned = listed
    BY <2>1
  <2>3. none \in Seq(Entries) /\ Named(none) = {} BY <2>1, EmptySeq DEF Named
  <2>4. listed \subseteq Events BY <2>1 DEF Listed
  <2>5. CollectOK(job)
    <3>1. /\ {"op", "processed", "seen", "read", "records", "todo"} \subseteq DOMAIN at[h]
          /\ at[h].todo \in Seq(Entries) /\ at[h].records = none
      BY <1>0, <2>1 DEF CollectOK, Collecting
    <3> QED BY <2>2, <2>3, <2>4, <3>1 DEF CollectOK, Collecting
  <2>6. Seen(job) = Seen(at[h]) BY <1>0, <2>2 DEF Seen, Collecting
  <2>7. ReadOK(job, Written)
    <3>1. at[h].records = none BY <1>0, <2>1 DEF CollectOK
    <3>2. Left(job) = Left(at[h]) BY <1>0, <2>2, <3>1 DEF Left, Collecting
    <3> QED BY <1>0, <2>2, <3>2 DEF AInv, RecordedInv, ReadOK, Collecting
  <2>8. \A s : ~Filling(job, s) BY <2>2 DEF Filling
  <2> QED BY <1>0, <1>1, <2>1, <2>2, <2>5, <2>6, <2>7, QuietlyKeeps DEF attachments
<1> QED BY <1>2, <1>3

\* A file is emptied, or what needs none recorded.
LEMMA ExtractKeeps ==
  ASSUME AInv, JobsOK, NEW h \in Runners, Extract(h) PROVE AInv'
<1>0. /\ at[h].op = "extract" /\ at[h].todo # <<>> /\ CollectOK(at[h]) /\ \A s : ~Filling(at[h], s)
      /\ UNCHANGED <<manifest, processed, missed, spoiled, swallowed>>
  BY DEF Extract, Is, AInv, CollectInv, Filling
<1>1. PICK entry : entry = Head(at[h].todo) OBVIOUS
<1>2. entry \in Entries /\ at[h].todo[1] = entry
  BY <1>0, <1>1, RecordedOK
<1>3. CASE entry.sha256 \in at[h].seen \union {Absent}
  <2>1. PICK job : job = Recorded(h, entry) OBVIOUS
  <2>2. Become(h, job) /\ UNCHANGED extracted BY <1>1, <1>3, <2>1 DEF Extract
  <2>3. CollectOK(job) /\ job.op = "extract" /\ Seen(job) = Seen(at[h]) \union {entry.sha256}
    BY <1>0, <1>1, <2>1, RecordedOK
  <2>4. Absent \notin Shas BY DEF Shas
  <2>5. Seen(at[h]) = at[h].seen BY <1>0 DEF Seen, Collecting
  <2>6. Written' = Written BY <1>0 DEF Written, _load_manifest
  <2>7. DOMAIN extracted = Shas /\ processed \subseteq Events BY DEF AInv, MarkedInv
  <2>8. \A s \in Shas : s \in Seen(job) => s \in Seen(at[h]) BY <1>3, <2>3, <2>4, <2>5
  <2>9. ReadOK(job, Written)
    <3>1. Left(job) = Left(at[h]) /\ job.read = at[h].read BY <1>0, <1>1, <2>1, RecordedOK
    <3> QED BY <1>0, <2>3, <3>1 DEF AInv, RecordedInv, ReadOK, Collecting
  <2> QED BY <1>0, <2>2, <2>3, <2>6, <2>7, <2>8, <2>9, StepKeeps
<1>4. CASE entry.sha256 \notin at[h].seen \union {Absent}
  <2>1. PICK job : job = [at[h] EXCEPT !.op = "fill"] OBVIOUS
  <2>2. Become(h, job) /\ extracted' = [extracted EXCEPT ![entry.sha256] = "half"]
    BY <1>1, <1>4, <2>1 DEF Extract
  <2>3. PICK sha \in Shas : sha = entry.sha256 BY <1>2, <1>4 DEF Entries
  <2>4. /\ {"op", "processed", "seen", "read", "records", "todo", "scanned", "half"} \subseteq DOMAIN at[h]
        /\ at[h].todo \in Seq(Entries) /\ at[h].records \in Seq(Entries)
        /\ Named(at[h].records) \subseteq at[h].seen \union {Absent} /\ at[h].scanned \subseteq Events
    BY <1>0 DEF CollectOK, Collecting
  <2>5. /\ DOMAIN job = DOMAIN at[h] /\ job.op = "fill" /\ job.todo = at[h].todo
        /\ job.records = at[h].records /\ job.seen = at[h].seen /\ job.read = at[h].read
        /\ job.scanned = at[h].scanned
    BY <2>1, <2>4
  <2>6. job.todo[1].sha256 = sha BY <1>2, <2>3, <2>5
  <2>7. CollectOK(job) BY <1>0, <2>4, <2>5, <2>6 DEF CollectOK, Collecting
  <2>8. Filling(job, sha) /\ Seen(job) = Seen(at[h]) BY <1>0, <2>5, <2>6 DEF Filling, Seen, Collecting
  <2>9. Written' = Written BY <1>0 DEF Written, _load_manifest
  <2>10. DOMAIN extracted = Shas /\ processed \subseteq Events BY DEF AInv, MarkedInv
  <2>11. /\ DOMAIN extracted' = Shas
         /\ \A s \in Shas : extracted[s] = "whole" => extracted'[s] = "whole" \/ Filling(job, s)
    BY <2>2, <2>3, <2>8, <2>10
  <2>12. ReadOK(job, Written)
    <3>1. Left(job) = Left(at[h]) BY <1>0, <2>5 DEF Left, Collecting
    <3> QED BY <1>0, <2>5, <3>1 DEF AInv, RecordedInv, ReadOK, Collecting
  <2> QED BY <1>0, <2>2, <2>5, <2>7, <2>8, <2>9, <2>10, <2>11, <2>12, StepKeeps
<1> QED BY <1>3, <1>4

\* The file is filled.
LEMMA FillKeeps ==
  ASSUME AInv, JobsOK, NEW h \in Runners, Fill(h) PROVE AInv'
<1>0. /\ at[h].op = "fill" /\ CollectOK(at[h]) /\ UNCHANGED <<manifest, processed, missed, spoiled, swallowed>>
  BY DEF Fill, Is, AInv, CollectInv
<1>1. at[h].todo # <<>> /\ at[h].todo[1].sha256 \in Shas BY <1>0 DEF CollectOK
<1>2. PICK entry, job, sha : /\ entry = Head(at[h].todo) /\ job = Recorded(h, entry)
                             /\ sha = entry.sha256
  OBVIOUS
<1>3. /\ CollectOK(job) /\ job.op = "extract" /\ \A s : ~Filling(job, s)
      /\ Seen(job) = Seen(at[h]) \union {sha} /\ at[h].todo[1] = entry
  BY <1>0, <1>1, <1>2, RecordedOK
<1>4. Become(h, job) /\ extracted' = [extracted EXCEPT ![sha] = "whole"] BY <1>2 DEF Fill
<1>5. DOMAIN extracted = Shas /\ processed \subseteq Events BY DEF AInv, MarkedInv
<1>6. /\ DOMAIN extracted' = Shas /\ extracted'[sha] = "whole"
      /\ \A s \in Shas : extracted[s] = "whole" => extracted'[s] = "whole"
  BY <1>1, <1>2, <1>3, <1>4, <1>5
<1>7. \A s : Filling(at[h], s) => s = sha BY <1>2, <1>3 DEF Filling
<1>8. Written' = Written BY <1>0 DEF Written, _load_manifest
<1>9. ReadOK(job, Written)
  <2>1. Left(job) = Left(at[h]) /\ job.read = at[h].read BY <1>0, <1>1, <1>2, RecordedOK
  <2> QED BY <1>0, <1>3, <2>1 DEF AInv, RecordedInv, ReadOK, Collecting
<1> QED BY <1>0, <1>3, <1>4, <1>5, <1>6, <1>7, <1>8, <1>9, StepKeeps

\* What has been recorded is written, all of it before the events are marked.
LEMMA ManifestKeeps ==
  ASSUME AInv, JobsOK, NEW h \in Runners, NEW n \in Lines, NEW cut \in BOOLEAN, AppendManifest(h, n, cut)
  PROVE  AInv'
<1>0. /\ at[h].op = "extract" /\ at[h].todo = <<>> /\ CollectOK(at[h]) /\ \A s : ~Filling(at[h], s)
      /\ UNCHANGED <<extracted, processed, missed, spoiled>>
  BY DEF AppendManifest, Is, AInv, CollectInv, Filling
<1>1. /\ {"op", "processed", "seen", "read", "records", "todo", "scanned", "half"} \subseteq DOMAIN at[h]
      /\ at[h].records \in Seq(Entries) /\ at[h].scanned \subseteq Events
      /\ Named(at[h].records) \subseteq at[h].seen \union {Absent}
  BY <1>0 DEF CollectOK, Collecting
<1>2. PICK records, m : /\ records = at[h].records /\ m = Len(records) /\ m \in Nat
                        /\ DOMAIN records = 1..m /\ n <= m /\ n \in Nat
  <2>1. n \in Nat BY DEF Lines
  <2> QED BY <1>1, <2>1, LenProperties DEF AppendManifest
<1>3. PICK first, glued :
        /\ manifest' = manifest \union {records[i] : i \in first..n}
        /\ swallowed' = swallowed \union {records[i].sha256 : i \in glued}
        /\ \/ first = 1 /\ glued = {}
           \/ first = 2 /\ glued = {} /\ n = 0
           \/ first = 2 /\ glued = {1} /\ n # 0
  <2>1. PICK first, glued : /\ first = (IF Joins(h) THEN 1 ELSE 2)
                            /\ glued = (IF Joins(h) \/ n = 0 THEN {} ELSE {1})
    OBVIOUS
  <2>2. /\ manifest' = manifest \union {records[i] : i \in first..n}
        /\ swallowed' = swallowed \union {records[i].sha256 : i \in glued}
    BY <1>2, <2>1 DEF AppendManifest
  <2> QED BY <2>1, <2>2
<1>4. \A i \in first..n : i \in DOMAIN records BY <1>2, <1>3
<1>5. \A i \in glued : i \in DOMAIN records BY <1>2, <1>3
<1>6. Written' \subseteq Written \union Named(records)
  BY <1>3, <1>4, <1>5 DEF Written, _load_manifest, Named
<1>7. \A i \in 1..n : records[i].sha256 \in Written'
  <2> SUFFICES ASSUME NEW i \in 1..n PROVE records[i].sha256 \in Written' OBVIOUS
  <2>1. i \in first..n \/ i \in glued BY <1>2, <1>3
  <2> QED BY <1>3, <2>1 DEF Written, _load_manifest
<1>8. Absent \notin Shas /\ Seen(at[h]) = at[h].seen BY <1>0 DEF Shas, Seen, Collecting
<1>9. \A s \in Shas : s \in Written' => s \in Written \/ s \in Seen(at[h])
  BY <1>1, <1>2, <1>6, <1>8
<1>10. DOMAIN extracted = Shas /\ processed \subseteq Events BY DEF AInv, MarkedInv
<1>11. manifest \subseteq manifest' /\ swallowed \subseteq swallowed' /\ Written \subseteq Written'
  BY <1>3 DEF Written, _load_manifest
<1>12. \A e \in at[h].read : Images(e) \subseteq Named(records) \union Written
  <2>1. Named(at[h].todo) = {} BY <1>0 DEF Named
  <2> QED BY <1>0, <1>2, <2>1 DEF AInv, RecordedInv, ReadOK, Left, Collecting
<1>13. CASE n = m
  <2>1. PICK job : job = [at[h] EXCEPT !.op = "mark"] OBVIOUS
  <2>2. Become(h, job) BY <1>2, <1>13, <2>1 DEF AppendManifest
  <2>3. job.op = "mark" /\ job.read = at[h].read /\ job.scanned = at[h].scanned /\ DOMAIN job = DOMAIN at[h]
    BY <1>1, <2>1
  <2>4. CollectOK(job) /\ Seen(job) = {} BY <1>1, <2>3 DEF CollectOK, Seen, Collecting
  <2>5. Named(records) \subseteq Written' BY <1>2, <1>7, <1>13 DEF Named
  <2>6. ReadOK(job, Written') BY <1>11, <1>12, <2>3, <2>5 DEF ReadOK, Left, Collecting
  <2> QED BY <1>0, <1>9, <1>10, <1>11, <2>2, <2>4, <2>6, StepKeeps
<1>14. CASE n # m
  <2>1. PICK rest, job : /\ rest = SubSeq(records, n + 1, m)
                         /\ job = [at[h] EXCEPT !.records = rest, !.half = cut]
    OBVIOUS
  <2>2. Become(h, job) BY <1>2, <1>14, <2>1 DEF AppendManifest
  <2>3. /\ job.op = "extract" /\ job.read = at[h].read /\ job.scanned = at[h].scanned
        /\ job.records = rest /\ job.todo = at[h].todo /\ job.seen = at[h].seen
        /\ DOMAIN job = DOMAIN at[h]
    BY <1>0, <1>1, <2>1
  <2>4. /\ rest \in Seq(Entries) /\ DOMAIN rest = 1..(m - n)
        /\ \A i \in 1..(m - n) : rest[i] = records[n + i]
    <3>1. records \in Seq(Entries) /\ n + 1 \in 1..m BY <1>1, <1>2, <1>14
    <3>2. /\ rest \in Seq(Entries) /\ Len(rest) = m - n
          /\ \A i \in 1..(m - n) : rest[i] = records[n + i]
      BY <1>2, <2>1, <3>1, SubSeqProperties
    <3> QED BY <3>2, LenProperties
  <2>5. Named(rest) \subseteq Named(records)
    <3>1. \A i \in 1..(m - n) : n + i \in DOMAIN records BY <1>2
    <3> QED BY <2>4, <3>1 DEF Named
  <2>6. Named(records) \subseteq Named(rest) \union Written'
    <3> SUFFICES ASSUME NEW i \in DOMAIN records PROVE records[i].sha256 \in Named(rest) \union Written'
      BY DEF Named
    <3>1. CASE i <= n BY <1>2, <1>7, <3>1
    <3>2. CASE ~(i <= n)
      <4>1. i - n \in 1..(m - n) /\ n + (i - n) = i BY <1>2, <3>2
      <4>2. rest[i - n] = records[i] BY <2>4, <4>1
      <4> QED BY <2>4, <4>1, <4>2 DEF Named
    <3> QED BY <3>1, <3>2
  <2>7. CollectOK(job)
    <3>1. at[h].todo \in Seq(Entries) BY <1>0 DEF CollectOK, Collecting
    <3> QED BY <1>1, <1>2, <2>3, <2>4, <2>5, <3>1 DEF CollectOK, Collecting
  <2>8. Seen(job) = Seen(at[h]) BY <1>8, <2>3 DEF Seen, Collecting
  <2>9. ReadOK(job, Written')
    BY <1>11, <1>12, <2>3, <2>6 DEF ReadOK, Left, Collecting
  <2> QED BY <1>0, <1>9, <1>10, <1>11, <2>2, <2>3, <2>7, <2>8, <2>9, StepKeeps
<1> QED BY <1>13, <1>14

\* What is marked and was read is written.
LEMMA MarkerKeeps ==
  ASSUME AInv, JobsOK, NEW h \in Runners, AppendMarker(h) PROVE AInv'
<1>0. /\ at[h].op = "mark" /\ Become(h, Waiting) /\ UNCHANGED <<extracted, manifest, spoiled, swallowed>>
      /\ processed' = processed \union at[h].scanned
      /\ missed' = missed \union (at[h].scanned \ at[h].read)
  BY DEF AppendMarker, Is
<1>1. at[h].scanned \subseteq Events BY <1>0 DEF AInv, CollectInv, CollectOK
<1>2. \A e \in at[h].read : Images(e) \subseteq Written
  BY <1>0 DEF AInv, RecordedInv, ReadOK, Left, Collecting
<1>3. \A s : ~Filling(at[h], s) BY <1>0 DEF Filling
<1>4. Written' = Written BY <1>0 DEF Written, _load_manifest
<1>5. DOMAIN extracted = Shas /\ processed \subseteq Events BY DEF AInv, MarkedInv
<1>6. \A e \in processed' \ missed' : e \in processed \ missed \/ Images(e) \subseteq Written'
  BY <1>0, <1>2, <1>4
<1> QED BY <1>0, <1>1, <1>3, <1>4, <1>5, <1>6, AtRest, StepKeeps

-----------------------------------------------------------------------------
(* The other hooks' steps.                                                 *)

\* A process of another hook goes on with that hook.
LEMMA Elsewhere ==
  ASSUME AInv, JobsOK, NEW h \in Runners, NEW job, Become(h, job), UNCHANGED attachments,
         at[h].op \notin Attaching, job.op \notin Attaching
  PROVE  AInv'
<1>1. \A o \in Runners : at'[o] = IF o = h THEN job ELSE at[o] BY Taken
<1> QED BY <1>1, ElsewhereKeeps DEF attachments

\* The same, at another step.
LEMMA ElsewhereGoesOn ==
  ASSUME JobsOK, NEW h \in Runners, NEW op, op \notin Attaching
  PROVE  Waiting.op \notin Attaching
         /\ \A names : [at[h] EXCEPT !.op = op, !.names = names].op \notin Attaching
         /\ \A unchecked : [at[h] EXCEPT !.op = op, !.unchecked = unchecked].op \notin Attaching
         /\ [at[h] EXCEPT !.op = op].op \notin Attaching
<1>1. "op" \in DOMAIN at[h] BY DEF JobsOK, JobOK
<1>2. Waiting.op = "waiting" BY DEF Waiting
<1>3. ASSUME NEW names PROVE [at[h] EXCEPT !.op = op, !.names = names].op = op BY <1>1
<1>4. ASSUME NEW unchecked PROVE [at[h] EXCEPT !.op = op, !.unchecked = unchecked].op = op BY <1>1
<1>5. [at[h] EXCEPT !.op = op].op = op BY <1>1
<1> QED BY <1>2, <1>3, <1>4, <1>5 DEF Attaching, Collecting

\* The hooks that provide profiles.
LEMMA ProvidersCollectNothing ==
  ASSUME AInv, JobsOK, NEW h \in Runners,
         BeginLLMProfiles(h) \/ BeginAgentProfile(h) \/ Look(h) \/ _atomic_write(h)
  PROVE  AInv'
<1>0. /\ "waiting" \notin Attaching /\ "look" \notin Attaching /\ "write" \notin Attaching
      /\ Waiting.op = "waiting"
  BY DEF Attaching, Collecting, Waiting
<1>1. ASSUME NEW names, NEW template
      PROVE  [op |-> "look", names |-> names, template |-> template].op = "look"
  OBVIOUS
<1>2. CASE BeginLLMProfiles(h)
  <2>1. PICK template, job :
          /\ job = IF template = Absent THEN Waiting
                     ELSE [op |-> "look", names |-> Lanes, template |-> template]
          /\ Become(h, job) /\ UNCHANGED attachments /\ at[h].op = "waiting"
    BY <1>2 DEF BeginLLMProfiles, Begin, Is
  <2>2. job.op = "waiting" \/ job.op = "look" BY <1>0, <1>1, <2>1
  <2> QED BY <1>0, <2>1, <2>2, Elsewhere
<1>3. CASE BeginAgentProfile(h)
  <2>1. PICK job : /\ job = [op |-> "look", names |-> <<AgentProfile>>, template |-> "agent"]
                   /\ Become(h, job) /\ UNCHANGED attachments /\ at[h].op = "waiting"
    BY <1>3 DEF BeginAgentProfile, Begin, Is
  <2>2. job.op = "look" BY <1>1, <2>1
  <2> QED BY <1>0, <2>1, <2>2, Elsewhere
<1>4. Onward(h).op \notin Attaching
  <2>1. PICK rest : rest = Tail(at[h].names) OBVIOUS
  <2>2. Onward(h) = Waiting \/ Onward(h) = [at[h] EXCEPT !.op = "look", !.names = rest]
    BY <2>1 DEF Onward
  <2> QED BY <1>0, <2>2, ElsewhereGoesOn
<1>5. CASE Look(h)
  <2>1. PICK job : /\ job = Onward(h) \/ job = [at[h] EXCEPT !.op = "write"]
                   /\ Become(h, job) /\ UNCHANGED attachments /\ at[h].op = "look"
    BY <1>5 DEF Look, Is
  <2>2. job.op \notin Attaching BY <1>0, <1>4, <2>1, ElsewhereGoesOn
  <2> QED BY <1>0, <2>1, <2>2, Elsewhere
<1>6. CASE _atomic_write(h)
  BY <1>0, <1>4, <1>6, Elsewhere DEF _atomic_write, Is
<1> QED BY <1>2, <1>3, <1>5, <1>6

\* The launcher.
LEMMA LaunchersCollectNothing ==
  ASSUME AInv, JobsOK, NEW h \in Runners,
         \/ \E mode, prewarm, warn : BeginLaunch(h, mode, prewarm, warn)
         \/ _run_timed(h) \/ Inspect(h) \/ Run(h)
         \/ \E auth, intime : _verify_attestation(h, auth) \/ Pull(h, intime)
  PROVE  AInv'
<1>0. /\ Launching \intersect Attaching = {} /\ "waiting" \notin Attaching /\ Waiting.op = "waiting"
  BY DEF Launching, Attaching, Collecting, Waiting
<1>1. ASSUME NEW mode, NEW prewarm, NEW warn, BeginLaunch(h, mode, prewarm, warn) PROVE AInv'
  <2>1. PICK pin, override, op, job :
          /\ op = (IF prewarm THEN "verify" ELSE "inspect")
          /\ job = IF pin = Absent THEN Waiting
                     ELSE [op |-> op, pin |-> pin, mode |-> mode,
                           prewarm |-> prewarm, warn |-> warn, override |-> override, unchecked |-> FALSE]
          /\ Become(h, job) /\ UNCHANGED attachments /\ at[h].op = "waiting"
    BY <1>1 DEF BeginLaunch, Begin, Is
  <2>2. job.op = "waiting" \/ job.op = op BY <1>0, <2>1
  <2>3. op \in Launching BY <2>1 DEF Launching
  <2> QED BY <1>0, <2>1, <2>2, <2>3, Elsewhere
<1>2. ASSUME NEW op \in Launching, NEW job, job = Waiting \/ job = [at[h] EXCEPT !.op = op]
      PROVE  job.op \notin Attaching
  BY <1>0, <1>2, ElsewhereGoesOn
<1>3. CASE _run_timed(h)
  <2>1. at[h].op \in Launching /\ Become(h, Waiting) /\ UNCHANGED attachments
    BY <1>3 DEF _run_timed, Is, Launching
  <2> QED BY <1>0, <2>1, Elsewhere
<1>4. Ready(h).op \notin Attaching
  <2>1. "run" \in Launching BY DEF Launching
  <2> QED BY <1>2, <2>1 DEF Ready
<1>5. CASE Inspect(h)
  <2>1. PICK op, job : /\ op \in Launching
                       /\ job = Ready(h) \/ job = Waiting \/ job = [at[h] EXCEPT !.op = op]
                       /\ Become(h, job)
    <3>1. CASE at[h].pin.ref \in local
      <4>1. "run" \in Launching BY DEF Launching
      <4> QED BY <1>5, <3>1, <4>1 DEF Inspect
    <3>2. CASE at[h].pin.ref \notin local /\ at[h].warn
      <4>1. "run" \in Launching BY DEF Launching
      <4>2. Become(h, Waiting) BY <1>5, <3>2 DEF Inspect
      <4> QED BY <4>1, <4>2
    <3>3. CASE at[h].pin.ref \notin local /\ ~at[h].warn
      <4>1. PICK op : op = IF at[h].prewarm THEN "pull" ELSE "verify" OBVIOUS
      <4>2. Become(h, [at[h] EXCEPT !.op = op]) BY <1>5, <3>3, <4>1 DEF Inspect
      <4>3. op \in Launching BY <4>1 DEF Launching
      <4> QED BY <4>2, <4>3
    <3> QED BY <3>1, <3>2, <3>3
  <2>2. at[h].op \in Launching /\ UNCHANGED attachments BY <1>5 DEF Inspect, Is, Launching
  <2>3. job.op \notin Attaching BY <1>2, <1>4, <2>1
  <2> QED BY <1>0, <2>1, <2>2, <2>3, Elsewhere
<1>6. CASE Run(h)
  <2>1. at[h].op \in Launching /\ Become(h, Waiting) /\ UNCHANGED attachments
    BY <1>6 DEF Run, Is, Launching
  <2> QED BY <1>0, <2>1, Elsewhere
<1>7. ASSUME NEW intime, Pull(h, intime) PROVE AInv'
  <2>1. PICK job : job = (IF intime THEN Ready(h) ELSE Waiting) /\ Become(h, job)
    BY <1>7 DEF Pull
  <2>2. at[h].op \in Launching /\ UNCHANGED attachments BY <1>7 DEF Pull, Is, Launching
  <2>3. job.op \notin Attaching BY <1>0, <1>4, <2>1
  <2> QED BY <1>0, <2>1, <2>2, <2>3, Elsewhere
<1>8. ASSUME NEW auth, _verify_attestation(h, auth) PROVE AInv'
  <2>1. PICK op, skipped, job :
          /\ op \in Launching /\ Become(h, job)
          /\ job = Waiting \/ job = [at[h] EXCEPT !.op = op, !.unchecked = skipped]
    <3> DEFINE late == at[h].mode = "off" \/ (at[h].mode = "auto" /\ Reason(at[h], auth))
               sound == ~Reason(at[h], auth) /\ Attested(at[h].pin.ref)
               to == IF at[h].prewarm THEN "inspect" ELSE "pull"
    <3>1. Become(h, IF ~(late \/ sound) THEN Waiting ELSE [at[h] EXCEPT !.op = to, !.unchecked = late])
      BY <1>8 DEF _verify_attestation
    <3>2. to \in Launching BY DEF Launching
    <3> HIDE DEF late, sound, to
    <3> QED BY <3>1, <3>2
  <2>2. at[h].op \in Launching /\ UNCHANGED attachments BY <1>8 DEF _verify_attestation, Is, Launching
  <2>3. job.op \notin Attaching BY <1>0, <2>1, ElsewhereGoesOn
  <2> QED BY <1>0, <2>1, <2>2, <2>3, Elsewhere
<1> QED BY <1>1, <1>3, <1>5, <1>6, <1>7, <1>8

-----------------------------------------------------------------------------
\* At first nothing has arrived.
LEMMA AtFirstNothingIsKept == HooksInit => AInv
<1> SUFFICES ASSUME HooksInit PROVE AInv OBVIOUS
<1>1. \A h \in Runners : at[h] = Waiting BY DEF HooksInit
<1>2. Written = {} /\ DOMAIN extracted = Shas /\ processed = {}
  BY DEF HooksInit, Written, _load_manifest
<1>3. \A h \in Runners : CollectOK(at[h]) /\ ReadOK(at[h], Written) /\ Seen(at[h]) = {}
  BY <1>1, AtRest
<1> QED BY <1>2, <1>3 DEF AInv, CollectInv, RecordedInv, FilesInv, MarkedInv

\* Each step keeps it.
LEMMA KeepingIsInductive == AInv /\ JobsOK /\ [HooksNext]_hookVars => AInv'
<1> SUFFICES ASSUME AInv, JobsOK, [HooksNext]_hookVars PROVE AInv' OBVIOUS
<1>1. CASE UNCHANGED hookVars
  BY <1>1, ElsewhereKeeps DEF hookVars, attachments
<1>2. ASSUME NEW h \in Runners,
             \/ Kill(h) \/ BeginIntake(h) \/ ReadPending(h) \/ ListScanned(h) \/ Extract(h) \/ Fill(h)
             \/ \E n \in Lines, cut \in BOOLEAN : AppendManifest(h, n, cut)
             \/ AppendMarker(h)
      PROVE  AInv'
  BY <1>2, KillLoses, BeginIntakeKnows, ReadPendingReads, ListScannedLists, ExtractKeeps, FillKeeps,
     ManifestKeeps, MarkerKeeps
<1>3. ASSUME NEW h \in Runners,
             BeginLLMProfiles(h) \/ BeginAgentProfile(h) \/ Look(h) \/ _atomic_write(h)
      PROVE  AInv'
  BY <1>3, ProvidersCollectNothing
<1>4. ASSUME NEW h \in Runners,
             \/ \E mode \in {"auto", "require", "off"} : \E prewarm, warn \in BOOLEAN :
                  BeginLaunch(h, mode, prewarm, warn)
             \/ _run_timed(h) \/ Inspect(h) \/ Run(h)
             \/ \E auth, intime \in BOOLEAN : _verify_attestation(h, auth) \/ Pull(h, intime)
      PROVE  AInv'
  BY <1>4, LaunchersCollectNothing
<1>5. CASE \/ \E e \in Events : Attach(e)
           \/ \E n \in DOMAIN plan.store : EditProfile(n)
           \/ \E ref \in plan.refs : PullByHand(ref)
  BY <1>5, ElsewhereKeeps DEF Attach, EditProfile, PullByHand, attachments
<1> QED BY <1>1, <1>2, <1>3, <1>4, <1>5 DEF HooksNext

\* However many hooks collect images, and whenever they are killed: an image of
\* an event that is marked and was read whole is in the manifest, unless its
\* record was written where another's line was not finished, and its file is
\* whole, being written, or known to be spoiled (intake_attachments main).
THEOREM ImagesAreKept == HooksSpec => []AttachmentsAreKept
<1>1. AInv => AttachmentsAreKept
  <2> SUFFICES ASSUME AInv, NEW e \in processed \ missed, NEW s \in Images(e)
               PROVE  /\ (\E r \in manifest : r.sha256 = s) \/ s \in swallowed
                      /\ \/ extracted[s] = "whole" \/ s \in spoiled
                         \/ \E h \in Runners : Is(h, "fill") /\ at[h].todo[1].sha256 = s
    BY DEF AttachmentsAreKept, Images
  <2>1. e \in Events /\ s \in Written BY DEF AInv, MarkedInv
  <2>2. s \in Shas
    <3>1. s \in Range(Sent(e)) /\ s # Absent BY DEF Images
    <3>2. Range(Sent(e)) \in {Range(Sent(d)) : d \in Events} BY <2>1
    <3> QED BY <3>1, <3>2 DEF Shas
  <2>3. FileOK(s) BY <2>1, <2>2 DEF AInv, FilesInv
  <2> QED BY <2>1, <2>3 DEF Written, _load_manifest, FileOK, Filling, Is
<1>2. IInv => JobsOK BY DEF IInv
<1> QED BY <1>1, <1>2, AtFirstNothingIsKept, KeepingIsInductive, Always, PTL DEF HooksSpec
=============================================================================
