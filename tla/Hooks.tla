-------------------------------- MODULE Hooks --------------------------------
(***************************************************************************)
(* What the plugin does around a session, outside its logs: the hook that  *)
(* saves the images of the user's messages (plugins/wire/hooks/scripts/    *)
(* intake_attachments.py), those that provide the profiles agents run with *)
(* (ensure_llm_profiles.py, ensure_agent_profiles.py), and the launcher of *)
(* the tools image (plugins/wire/scripts/wire_launcher.py).                *)
(*                                                                         *)
(* None of them takes a lock, each may be killed, and several sessions run *)
(* theirs at once.                                                         *)
(***************************************************************************)
EXTENDS Naturals, FiniteSets, SequencesExt

CONSTANTS Runners,      \* processes
          Absent,       \* no file, no value
          Newest,       \* how many event files the conversation has in the end
          Sent(_),      \* the images of an event, Absent one that cannot be decoded
          Lanes,        \* the LLM profiles that agents need, a sequence
          AgentProfile, \* and the agent profile of this plugin
          Attested(_),  \* whether the signature of an image holds
          Plans         \* bounds, and what the host is like

\* The event files, in the order of their names.
Events == 1..Newest

EventsAssumption == Newest \in Nat /\ \A e \in Events : Sent(e) \in Seq(Range(Sent(e)))
ASSUME EventsAssumption

\* The profiles agents need.
Needed == Range(Lanes) \union {AgentProfile}

\* The host begins without them, and with other profiles that are whole.
PlansAssumption ==
  /\ Absent # "half" /\ Lanes \in Seq(Range(Lanes)) /\ Lanes # <<>>
  /\ \A p \in Plans : /\ {"store", "inline"} \subseteq DOMAIN p
                      /\ DOMAIN p.store \intersect Needed = {} /\ p.inline # "half"
ASSUME PlansAssumption

VARIABLES at,           \* where each process is
          arrived,      \* the event files: Absent, "half" or "whole"
          extracted,    \* image files, the same
          manifest,     \* the records of manifest.jsonl that can be read
          unended,      \* whose line it ends in the middle of, Absent at a line's end
          processed,    \* the marker's names
          missed,       \* history: events a hook marked and did not read whole
          spoiled,      \* history: images a hook was killed over that others may know
          swallowed,    \* history: images a record of which became part of another line
          store,        \* profiles, "half" one that is being written
          local,        \* images that docker has
          pulls,        \* history: how they came
          launched,     \* history: what was run
          plan          \* what is left of the plan

attachments == <<arrived, extracted, manifest, unended, processed, missed, spoiled, swallowed>>
images == <<local, pulls, launched>>
hookVars == <<at, attachments, store, images, plan>>

Shas == (UNION {Range(Sent(e)) : e \in Events}) \ {Absent}
Waiting == [op |-> "waiting"]

HooksInit ==
  /\ plan \in Plans /\ at = [h \in Runners |-> Waiting]
  /\ arrived = [e \in Events |-> Absent] /\ extracted = [s \in Shas |-> Absent]
  /\ manifest = {} /\ unended = Absent /\ processed = {}
  /\ missed = {} /\ spoiled = {} /\ swallowed = {}
  /\ store = [n \in DOMAIN plan.store \union Needed \union {"settings"} |->
                IF n \in DOMAIN plan.store THEN plan.store[n] ELSE Absent]
  /\ local = {} /\ pulls = {} /\ launched = {}

Use(what) == plan[what] > 0 /\ plan' = [plan EXCEPT ![what] = @ - 1]
Is(h, op) == at[h].op = op
Become(h, job) == at' = [at EXCEPT ![h] = job]
Begin(h, what, job) == Is(h, "waiting") /\ Use(what) /\ Become(h, job)

\* What is on disk.
_load_manifestFiles == {s \in Shas : extracted[s] # Absent}

\* What the manifest names.
_load_manifest == {r.sha256 : r \in manifest}

\* A hook is killed, or its time is up.
Kill(h) ==
  /\ ~Is(h, "waiting") /\ Use("kill") /\ Become(h, Waiting)
  /\ spoiled' = spoiled \union
       {s \in Shas : /\ Is(h, "fill") /\ s = at[h].todo[1].sha256
                     /\ \/ (\E r \in manifest : r.sha256 = s) \/ s \in swallowed
                        \/ \E o \in Runners \ {h} : ~Is(o, "waiting")}
  /\ UNCHANGED <<arrived, extracted, manifest, unended, processed, missed, swallowed, store, images>>

-----------------------------------------------------------------------------
(* intake_attachments.py                                                   *)

\* The server writes an event, not always in one piece.
Attach(e) ==
  /\ arrived[e] # "whole"
  /\ IF arrived[e] = Absent THEN Use("attach") ELSE UNCHANGED plan
  /\ \E state \in {"half", "whole"} \ {arrived[e]} : arrived' = [arrived EXCEPT ![e] = state]
  /\ UNCHANGED <<at, extracted, manifest, unended, processed, missed, spoiled, swallowed, store, images>>

BeginIntake(h) ==
  /\ Begin(h, "intake", [op |-> "pending", processed |-> processed, seen |-> _load_manifest])
  /\ UNCHANGED <<attachments, store, images>>

Listed(h) == {e \in Events : arrived[e] # Absent /\ e \notin at[h].processed}

\* A file that is no JSON yet has no images.
_scan_event_file(e) ==
  IF arrived[e] # "whole" THEN <<>>
    ELSE [i \in DOMAIN Sent(e) |-> [event_file |-> e, sha256 |-> Sent(e)[i]]]

\* The images of the files that are listed, file by file.
Pending(h) == FlattenSeq([e \in Events |-> IF e \in Listed(h) THEN _scan_event_file(e) ELSE <<>>])

ReadPending(h) ==
  /\ Is(h, "pending")
  /\ Become(h, [op |-> "scan", processed |-> at[h].processed, seen |-> at[h].seen,
                read |-> {e \in Listed(h) : arrived[e] = "whole"}, records |-> <<>>,
                todo |-> Pending(h)])
  /\ UNCHANGED <<attachments, store, images, plan>>

\* Listed again, to be marked.
ListScanned(h) ==
  /\ Is(h, "scan")
  /\ IF Listed(h) = {} THEN Become(h, Waiting)
       ELSE Become(h, [op |-> "extract", processed |-> at[h].processed, seen |-> at[h].seen,
                       read |-> at[h].read, records |-> <<>>, todo |-> at[h].todo, scanned |-> Listed(h),
                       half |-> FALSE])
  /\ UNCHANGED <<attachments, store, images, plan>>

Recorded(h, record) == [at[h] EXCEPT !.op = "extract", !.todo = Tail(@), !.records = Append(@, record),
                                     !.seen = @ \union {record.sha256}]

\* What cannot be decoded or was seen is only recorded; a new image's file is
\* opened, which empties it.
Extract(h) ==
  /\ Is(h, "extract") /\ at[h].todo # <<>>
  /\ LET entry == Head(at[h].todo)
     IN IF entry.sha256 \in at[h].seen \union {Absent}
          THEN Become(h, Recorded(h, entry)) /\ UNCHANGED extracted
          ELSE /\ Become(h, [at[h] EXCEPT !.op = "fill"])
               /\ extracted' = [extracted EXCEPT ![entry.sha256] = "half"]
  /\ UNCHANGED <<arrived, manifest, unended, processed, missed, spoiled, swallowed, store, images, plan>>

Fill(h) ==
  /\ Is(h, "fill")
  /\ LET entry == Head(at[h].todo)
     IN /\ extracted' = [extracted EXCEPT ![entry.sha256] = "whole"]
        /\ Become(h, Recorded(h, entry))
  /\ UNCHANGED <<arrived, manifest, unended, processed, missed, spoiled, swallowed, store, images, plan>>

\* As many lines as a hook may have to append.
Lines == 0..Len(FlattenSeq([e \in Events |-> Sent(e)]))

\* Whether what h writes next goes on where it was, or begins a line.
Joins(h) == IF at[h].half THEN unended = h ELSE unended = Absent

\* The stream writes when its buffer is full: some lines, and the next one up
\* to some place in it.  What follows an unfinished line is part of that line,
\* which nobody can read, and so is the rest of a line another hook broke into.
AppendManifest(h, n, cut) ==
  LET records == at[h].records
  IN /\ Is(h, "extract") /\ at[h].todo = <<>> /\ n <= Len(records) /\ (cut => n < Len(records))
     /\ n > 0 \/ cut \/ records = <<>>
     /\ manifest' = manifest \union {records[i] : i \in (IF Joins(h) THEN 1 ELSE 2)..n}
     /\ swallowed' = swallowed \union {records[i].sha256 : i \in IF Joins(h) \/ n = 0 THEN {} ELSE {1}}
     /\ unended' = CASE n = 0 /\ ~cut -> unended
                     [] n > 0 /\ ~cut -> Absent
                     [] OTHER -> IF n > 0 \/ Joins(h) THEN h ELSE "torn"
     /\ Become(h, IF n = Len(records) THEN [at[h] EXCEPT !.op = "mark"]
                    ELSE [at[h] EXCEPT !.records = SubSeq(records, n + 1, Len(records)), !.half = cut])
     /\ UNCHANGED <<arrived, extracted, processed, missed, spoiled, store, images, plan>>

AppendMarker(h) ==
  /\ Is(h, "mark") /\ Become(h, Waiting)
  /\ processed' = processed \union at[h].scanned
  /\ missed' = missed \union (at[h].scanned \ at[h].read)
  /\ UNCHANGED <<arrived, extracted, manifest, unended, spoiled, swallowed, store, images, plan>>

-----------------------------------------------------------------------------
(* ensure_llm_profiles.py, ensure_agent_profiles.py                        *)

\* An editor saves in place.
EditProfile(n) ==
  /\ IF store[n] = "half" THEN UNCHANGED plan ELSE Use("edit")
  /\ store' = [store EXCEPT ![n] = IF @ = "half" THEN "edited" ELSE "half"]
  /\ UNCHANGED <<at, attachments, images>>

_read_profile(n) == IF n \in DOMAIN store /\ store[n] # "half" THEN store[n] ELSE Absent

\* A file that cannot be read settles nothing.
_settings ==
  IF _read_profile("settings") = Absent THEN [active_profile |-> Absent, llm |-> Absent]
    ELSE [active_profile |-> plan.active, llm |-> plan.inline]

\* The active profile, the default one, the settings' own.
_template ==
  LET active == _read_profile(_settings.active_profile)
      default == _read_profile("default")
  IN IF active # Absent THEN active ELSE IF default # Absent THEN default ELSE _settings.llm

BeginLLMProfiles(h) ==
  /\ Begin(h, "profiles", IF _template = Absent THEN Waiting
                            ELSE [op |-> "look", names |-> Lanes, template |-> _template])
  /\ UNCHANGED <<attachments, store, images>>

BeginAgentProfile(h) ==
  /\ Begin(h, "profiles", [op |-> "look", names |-> <<AgentProfile>>, template |-> "agent"])
  /\ UNCHANGED <<attachments, store, images>>

Onward(h) == IF Len(at[h].names) = 1 THEN Waiting ELSE [at[h] EXCEPT !.op = "look", !.names = Tail(@)]

\* is_file
Look(h) ==
  /\ Is(h, "look")
  /\ Become(h, IF store[Head(at[h].names)] # Absent THEN Onward(h) ELSE [at[h] EXCEPT !.op = "write"])
  /\ UNCHANGED <<attachments, store, images, plan>>

\* Opened, which empties it, and then filled.
_atomic_writeInPlace(h) ==
  /\ Is(h, "write")
  /\ LET n == Head(at[h].names)
     IN IF store[n] # "half" THEN store' = [store EXCEPT ![n] = "half"] /\ UNCHANGED at
          ELSE store' = [store EXCEPT ![n] = at[h].template] /\ Become(h, Onward(h))
  /\ UNCHANGED <<attachments, images, plan>>

\* The temporary file is its writer's alone until it is renamed.
_atomic_write(h) ==
  /\ Is(h, "write")
  /\ store' = [store EXCEPT ![Head(at[h].names)] = at[h].template]
  /\ Become(h, Onward(h))
  /\ UNCHANGED <<attachments, images, plan>>

-----------------------------------------------------------------------------
(* wire_launcher.py                                                        *)

\* A lock's entry names an image by digest, else by tag.
_lock_entry_ref(entry) ==
  IF entry = Absent THEN Absent
    ELSE IF entry.image = Absent \/ (entry.digest = Absent /\ entry.tag = Absent) THEN Absent
    ELSE [ref |-> <<entry.image, IF entry.digest # Absent THEN entry.digest ELSE entry.tag>>,
          digest |-> entry.digest, attestation |-> entry.attestation]

\* The checkout that the plugin is part of, if it can build images, and the
\* cached ones, the newest first.
_repo_dirs == SelectSeq(<<plan.checkout>>, LAMBDA c : c.docker) \o plan.cache

\* The plugin's own lock, its skills', a repository's.
_image_from_lock ==
  LET locks == plan.locks \o [i \in DOMAIN _repo_dirs |-> _repo_dirs[i].lock]
      pins == SelectSeq([i \in DOMAIN locks |-> _lock_entry_ref(locks[i])], LAMBDA p : p # Absent)
  IN IF pins = <<>> THEN Absent ELSE pins[1]

\* WIRE_SRC, the extension cache, /opt/wire, the checkout.
_candidates ==
  SelectSeq(<<plan.wire_src>>, LAMBDA c : c # Absent) \o plan.cache \o <<plan.opt, plan.checkout>>

\* The first that holds the package; else the image's own is used.
resolve_source ==
  LET there == SelectSeq(_candidates, LAMBDA c : c.package)
  IN IF there = <<>> THEN Absent ELSE there[1].path

\* Why an image cannot be verified; gh auth status may fail or come too late.
Reason(job, auth) ==
  \/ job.override \/ job.pin.attestation = Absent \/ job.pin.digest = Absent \/ ~auth

\* --warn never pulls.
BeginLaunch(h, mode, prewarm, warn) ==
  LET override == plan.override # Absent
      pin == IF override THEN [ref |-> plan.override, digest |-> Absent, attestation |-> Absent]
               ELSE _image_from_lock
  IN /\ Begin(h, "launch", IF pin = Absent THEN Waiting
                ELSE [op |-> IF prewarm THEN "verify" ELSE "inspect", pin |-> pin, mode |-> mode,
                      prewarm |-> prewarm, warn |-> warn, override |-> override, unchecked |-> FALSE])
     /\ UNCHANGED <<attachments, store, images>>

\* A verification that cannot be made is skipped, unless it is required; one
\* that fails ends the launcher.
_verify_attestation(h, auth) ==
  /\ Is(h, "verify") /\ (auth => plan.gh)
  /\ LET job == at[h]
         skipped == job.mode = "off" \/ (job.mode = "auto" /\ Reason(job, auth))
         verified == ~Reason(job, auth) /\ Attested(job.pin.ref)
     IN Become(h, IF ~(skipped \/ verified) THEN Waiting
                    ELSE [job EXCEPT !.op = IF job.prewarm THEN "inspect" ELSE "pull", !.unchecked = skipped])
  /\ UNCHANGED <<attachments, store, images, plan>>

\* gh's verdict or docker's answer comes too late.
_run_timed(h) ==
  /\ Is(h, "inspect") \/ (Is(h, "verify") /\ at[h].mode # "off" /\ plan.gh /\ ~Reason(at[h], TRUE))
  /\ Become(h, Waiting)
  /\ UNCHANGED <<attachments, store, images, plan>>

Ready(h) == IF at[h].prewarm THEN Waiting ELSE [at[h] EXCEPT !.op = "run"]

\* An image that is not there is pulled at once.
InspectAndPull(h) ==
  /\ Is(h, "inspect")
  /\ Become(h, CASE at[h].pin.ref \in local -> Ready(h)
                 [] at[h].pin.ref \notin local /\ at[h].warn -> Waiting
                 [] OTHER -> [at[h] EXCEPT !.op = "pull"])
  /\ UNCHANGED <<attachments, store, images, plan>>

\* Only an image that is not there is verified, and a prewarm's has been.
Inspect(h) ==
  /\ Is(h, "inspect")
  /\ Become(h, CASE at[h].pin.ref \in local -> Ready(h)
                 [] at[h].pin.ref \notin local /\ at[h].warn -> Waiting
                 [] OTHER -> [at[h] EXCEPT !.op = IF at[h].prewarm THEN "pull" ELSE "verify"])
  /\ UNCHANGED <<attachments, store, images, plan>>

\* docker goes on when the launcher's time is up.
Pull(h, intime) ==
  /\ Is(h, "pull") /\ Become(h, IF intime THEN Ready(h) ELSE Waiting)
  /\ local' = local \union {at[h].pin.ref}
  /\ pulls' = pulls \union {[ref |-> at[h].pin.ref, unchecked |-> at[h].unchecked]}
  /\ UNCHANGED <<attachments, store, launched, plan>>

PullByHand(ref) ==
  /\ Use("hand") /\ local' = local \union {ref}
  /\ pulls' = pulls \union {[ref |-> ref, unchecked |-> TRUE]}
  /\ UNCHANGED <<at, attachments, store, launched>>

\* The launcher becomes docker run.
Run(h) ==
  /\ Is(h, "run") /\ Become(h, Waiting)
  /\ launched' = launched \union {[image |-> at[h].pin.ref, source |-> resolve_source]}
  /\ UNCHANGED <<attachments, store, local, pulls, plan>>

HooksNext ==
  \/ \E h \in Runners :
       \/ Kill(h)
       \/ BeginIntake(h) \/ ReadPending(h) \/ ListScanned(h) \/ Extract(h) \/ Fill(h)
       \/ \E n \in Lines, cut \in BOOLEAN : AppendManifest(h, n, cut)
       \/ AppendMarker(h)
       \/ BeginLLMProfiles(h) \/ BeginAgentProfile(h) \/ Look(h) \/ _atomic_write(h)
       \/ \E mode \in {"auto", "require", "off"} : \E prewarm, warn \in BOOLEAN :
            BeginLaunch(h, mode, prewarm, warn)
       \/ _run_timed(h) \/ Inspect(h) \/ Run(h)
       \/ \E auth, intime \in BOOLEAN : _verify_attestation(h, auth) \/ Pull(h, intime)
  \/ \E e \in Events : Attach(e)
  \/ \E n \in DOMAIN plan.store : EditProfile(n)
  \/ \E ref \in plan.refs : PullByHand(ref)

HooksSpec == HooksInit /\ [][HooksNext]_hookVars

-----------------------------------------------------------------------------
(* Properties.                                                             *)

\* An image of an event that is marked is in the manifest and its file is
\* whole or being written again, though hooks are killed and run beside each
\* other, unless its event was not read whole when it was marked, its record
\* was written where another's line was not finished, or a hook was killed over
\* the file when others might know the image (intake_attachments main).
AttachmentsAreKept ==
  \A e \in processed \ missed : \A s \in Range(Sent(e)) \ {Absent} :
    /\ (\E r \in manifest : r.sha256 = s) \/ s \in swallowed
    /\ \/ extracted[s] = "whole" \/ s \in spoiled
       \/ \E h \in Runners : Is(h, "fill") /\ at[h].todo[1].sha256 = s

\* An agent finds its profile whole or not at all, though hooks are killed,
\* write the same one at once, and clone one that is being edited (_template,
\* _atomic_write).
ProfilesAreWhole == \A n \in Needed : store[n] # "half"

\* An image that was run, in whatever mode, has a signature that holds, unless
\* someone pulled it who did not have to check: "It verifies lock provenance
\* before pulls" (_ensure_image).
ImagesAreAttested ==
  \A l \in launched : Attested(l.image) \/ \E p \in pulls : p.ref = l.image /\ p.unchecked
=============================================================================
