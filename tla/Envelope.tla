------------------------------ MODULE Envelope ------------------------------
(***************************************************************************)
(* The interchange envelope of src/wire/_envelope.py: the sidecar beside   *)
(* an artifact handed to a sister, and the check the consumer makes of it. *)
(*                                                                         *)
(* files is what each path holds, None where there is nothing and Torn     *)
(* where there is something that does not parse; a digest is what it is    *)
(* taken of.  A log is [records, broken], None when there is no file.      *)
(***************************************************************************)
EXTENDS Contract

CONSTANT Torn

\* What does not parse is there.
TornAssumption == Torn # None
ASSUME TornAssumption

sidecar_path(artifact) == artifact \o ".provenance"

\* Decisions that cite a source at its present bytes.
decision_refs(log, pins) ==
  IF log = None THEN {} ELSE {r.id : r \in {d \in log.records : d.evidence \intersect pins # {}}}

Pin(path, files) == [path |-> path, sha256 |-> files[path]]

\* The sidecar, if the decision log is not broken.
Refused(log) == log # None /\ log.broken
write_envelope(artifact, producer, sources, files, log) ==
  LET pins == {Pin(s, files) : s \in sources}
  IN [envelope_version |-> 3, producer |-> producer,
      artifact |-> [name |-> artifact, sha256 |-> files[artifact]],
      sources |-> pins, decision_refs |-> decision_refs(log, pins)]

\* The producer's log does not speak against the references.
RefsFail(refs, log) ==
  /\ refs # {} /\ log # None
  /\ log.broken \/ ~(refs \subseteq {r.id : r \in log.records})

\* A source that is only compared with the artifact is no source that changed.
check_envelopeArtifactOnly(artifact, producer, pinned, files, log) ==
  LET side == files[sidecar_path(artifact)]
  IN IF side = None THEN "unknown"
     ELSE IF side = Torn \/ side.artifact.sha256 # files[artifact] THEN "fail" ELSE "pass"

\* pinned is the digest the consumer noted when it imported the artifact.
check_envelope(artifact, producer, pinned, files, log) ==
  LET side == files[sidecar_path(artifact)]
      expected == IF pinned = None THEN files[artifact] ELSE pinned
      readable == {s \in side.sources : files[s.path] # None}
  IN IF side = None THEN "unknown"
     ELSE IF side = Torn THEN "fail"
     ELSE IF expected = None THEN "unknown"
     ELSE IF \/ side.envelope_version # 3 \/ side.producer # producer
             \/ side.artifact # [name |-> artifact, sha256 |-> expected]
             \/ \E s \in readable : files[s.path] # s.sha256
             \/ RefsFail(side.decision_refs, log)
       THEN "fail"
     ELSE IF readable # side.sources \/ (side.decision_refs # {} /\ log = None)
       THEN "unknown" ELSE "pass"
=============================================================================
