------------------------------ MODULE Workspace ------------------------------
(***************************************************************************)
(* Reading across the plugins of a workspace: the checks of src/wire/_vrp. *)
(* py that need other records, and what a plugin is told of the others'.   *)
(*                                                                         *)
(* ws maps a plugin to [log, broken, aside]: its records by kind, the kinds *)
(* whose log fails integrity, and how many records were moved aside with a *)
(* log that did.  files maps a path to its content, None when *)
(* there is none; Tokens is what a text file says, None of a binary one.   *)
(***************************************************************************)
EXTENDS Records, SequencesExt

CONSTANTS PluginOrder,  \* the plugins' names, sorted
          Tokens(_),    \* what a content says
          limit         \* of the lines of a briefing

Plugins == {PluginOrder[i] : i \in DOMAIN PluginOrder}

ASSUME OrderAssumption == PluginOrder \in Seq(Plugins)
ASSUME LimitAssumption == limit \in Nat \ {0}

\* The records of one kind, and the impressions of a plugin.
Of(ws, p, kind) == {ws[p].log[kind][i] : i \in DOMAIN ws[p].log[kind]}
Impressions(ws, p) == UNION {Of(ws, p, k) : k \in ImpressionKinds}

impression_index(ws) ==
  UNION {{[system |-> p, record |-> r] : r \in Impressions(ws, p)} : p \in Plugins}

\* The impression a reference means; none when its plugin's logs are broken.
resolve_ref(ws, system, event) ==
  IF system \in Plugins /\ ws[system].broken = {}
    THEN {r \in Impressions(ws, system) : r.event_id = event} ELSE {}

\* The fields of both, the first one's where they share one.
With(first, second) ==
  [f \in DOMAIN first \union DOMAIN second |-> IF f \in DOMAIN first THEN first[f] ELSE second[f]]

\* The last of some places, of which each is in one of several lists.
LastOf(places) ==
  CHOOSE a \in places : \A b \in places : b[1] < a[1] \/ (b[1] = a[1] /\ b[2] <= a[2])

covers(entry, path) == entry \in {path, "."}

\* An anchor occurs in the text it cites, and that is one of the artifacts.
grounding_errors(draft, files) ==
  LET bound == {a.path : a \in draft.artifacts}
                 \union (IF draft.kind = "vision_review" THEN {draft.image_path} \ {None} ELSE {})
  IN \E i \in DOMAIN draft.claims :
       LET c == draft.claims[i]
       IN \/ bound # {} /\ ~\E e \in bound : covers(e, c.artifact)
          \/ files[c.artifact] = None
          \/ Tokens(files[c.artifact]) # None /\ c.anchor \notin Tokens(files[c.artifact])

\* A near duplicate of an earlier one; delta must say what is new.
novelty_errors(draft, previous) ==
  \E r \in previous : \/ AtLeast(draft.impression, r.impression, 4, 5)
                      \/ AtLeast(draft.impression, r.impression, 3, 5) /\ ~draft.delta

upstream_resolution_errors(draft, ws) ==
  \E e \in draft.upstream :
    ~\E target \in resolve_ref(ws, e.system, e.event_id) :
       e.concern_ids \subseteq {c.id : c \in target.facets.concerns}

_artifact_set(r) ==
  {<<a.path, a.sha256>> : a \in r.artifacts}
    \union (IF r.image_sha256 = None THEN {} ELSE {<<"image", r.image_sha256>>})

\* The same, of disputes that name the concern.
DisputedNamed(plugin, ws) ==
  UNION {UNION {{[earlier |-> r, concern |-> c] : c \in {d \in r.facets.concerns : d.id \in e.concern_ids}} :
                 r \in {o \in Impressions(ws, plugin) : o.event_id = e.event_id}} :
          e \in {u \in UNION {r.record.upstream : r \in impression_index(ws)} :
                   u.system = plugin /\ u.disposition = "disputed"}}

\* The concerns of plugin that any plugin disputed.
Disputed(plugin, ws) ==
  UNION {UNION {{[earlier |-> r, concern |-> c] :
                    c \in {d \in r.facets.concerns : e.concern_ids = {} \/ d.id \in e.concern_ids}} :
                 r \in {o \in Impressions(ws, plugin) : o.event_id = e.event_id}} :
          e \in {u \in UNION {r.record.upstream : r \in impression_index(ws)} :
                   u.system = plugin /\ u.disposition = "disputed"}}

\* A disputed concern does not come back while the artifacts are the same.
reraise_errors(draft, plugin, ws) ==
  \E c \in draft.facets.concerns : \E d \in Disputed(plugin, ws) :
    /\ c.about = d.concern.about
    /\ _artifact_set(draft) = _artifact_set(d.earlier)
    /\ AtLeast(c.text, d.concern.text, 3, 5)

-----------------------------------------------------------------------------
(* Insights.                                                               *)

INSIGHT_TRANSITIONS ==
  [proposed |-> {"tried", "rejected", "deferred"},
   tried |-> {"tried", "adopted", "rejected", "deferred"},
   deferred |-> {"tried", "rejected"}, adopted |-> {"superseded"},
   rejected |-> {}, superseded |-> {}]

StatusesIn(ws, i, ref) ==
  LET log == ws[PluginOrder[i]].log["insight_status"]
  IN {<<i, n>> : n \in {m \in DOMAIN log : log[m].insight = ref}}

\* Only the statuses in the log of the insight's own plugin.
insight_historyOfOwner(ws, ref) ==
  UNION {StatusesIn(ws, i, ref) : i \in {j \in DOMAIN PluginOrder : PluginOrder[j] = ref.system}}

\* The statuses of one insight, plugin by plugin in the order of their names.
insight_history(ws, ref) == UNION {StatusesIn(ws, i, ref) : i \in DOMAIN PluginOrder}

\* The last of them counts.
current(ws, ref) ==
  LET history == insight_history(ws, ref)
      last == LastOf(history)
  IN IF history = {} THEN "proposed"
     ELSE ws[PluginOrder[last[1]]].log["insight_status"][last[2]].status

insight_write_errors(r, ws) ==
  \/ ~\E target \in resolve_ref(ws, r.insight.system, r.insight.event_id) :
        r.insight.insight_id \in {i.id : i \in target.insights}
  \/ r.status \notin INSIGHT_TRANSITIONS[current(ws, r.insight)]

\* Insights by the reference others know them by.
InsightsOf(ws) ==
  UNION {{[ref |-> [system |-> e.system, event_id |-> e.record.event_id, insight_id |-> i.id],
           insight |-> i] : i \in e.record.insights} : e \in impression_index(ws)}

\* A rejected hypothesis comes back only through revisits.
rejected_insight_errors(draft, ws) ==
  \E i \in {j \in draft.insights : j.revisits = None} : \E o \in InsightsOf(ws) :
    /\ AtLeast(i.hypothesis, o.insight.hypothesis, 4, 5)
    /\ current(ws, o.ref) = "rejected"

-----------------------------------------------------------------------------
(* What is answered, and what a plugin is told.                            *)

\* What a plugin's impressions say of a concern, and where.
Answers(ws, owner, system, event, concern) ==
  LET log(k) == ws[owner].log[<<"stage_impression", "vision_review">>[k]]
  IN UNION {UNION {{[at |-> <<k, n>>, is |-> e.disposition] :
                      e \in {u \in log(k)[n].upstream :
                               /\ u.system = system /\ u.event_id = event
                               /\ u.concern_ids = {} \/ concern.id \in u.concern_ids}} :
                    n \in DOMAIN log(k)} : k \in 1..2}

\* What the last of some answers says.
LastSaid(answers) ==
  (CHOOSE a \in answers : a.at = LastOf({b.at : b \in answers})).is

OwnerOf(system, concern) == IF concern.about = "self" THEN system ELSE concern.about

Decided(ws, owner, system, event) ==
  \E d \in Of(ws, owner, "decision") : [system |-> system, event_id |-> event] \in d.impression_refs

\* The last word counts, whatever it is.
concern_statusLast(ws, system, record, concern) ==
  LET owner == OwnerOf(system, concern)
      said == {a \in Answers(ws, owner, system, record.event_id, concern) : a.is # "noted"}
  IN IF owner \notin Plugins THEN "open"
     ELSE IF Decided(ws, owner, system, record.event_id) THEN "decided"
     ELSE IF said # {} THEN LastSaid(said) ELSE "open"

\* A deferral does not take back what was adopted or disputed.
concern_status(ws, system, record, concern) ==
  LET owner == OwnerOf(system, concern)
      all == Answers(ws, owner, system, record.event_id, concern)
      firm == {a \in all : a.is \in {"adopted", "disputed"}}
  IN IF owner \notin Plugins THEN "open"
     ELSE IF Decided(ws, owner, system, record.event_id) THEN "decided"
     ELSE IF firm # {} THEN LastSaid(firm)
     ELSE IF \E a \in all : a.is = "deferred" THEN "deferred" ELSE "open"

\* Cited at any time.
acknowledgedEver(log, ref, after) ==
  \E k \in ImpressionKinds : \E i \in DOMAIN log[k] :
    \E e \in log[k][i].upstream : e.system = ref.system /\ e.event_id = ref.event_id

\* Cited by an impression since.
acknowledged(log, ref, after) ==
  \E k \in ImpressionKinds : \E i \in DOMAIN log[k] :
    /\ log[k][i].recorded_at >= after
    /\ \E e \in log[k][i].upstream : e.system = ref.system /\ e.event_id = ref.event_id

\* What each import brought and is not answered yet, answered at any time.
UnreadEver(log) ==
  LET reads == log["upstream_read"]
  IN UNION {{[by |-> reads[i].event_id, ref |-> r] :
               r \in {e \in reads[i].refs : ~acknowledgedEver(log, e, reads[i].recorded_at)}} :
            i \in DOMAIN reads}

\* What each import brought and is not answered since.
Unread(log) ==
  LET reads == log["upstream_read"]
  IN UNION {{[by |-> reads[i].event_id, ref |-> r] :
               r \in {e \in reads[i].refs : ~acknowledged(log, e, reads[i].recorded_at)}} :
            i \in DOMAIN reads}

song_deliveries(songs, files) == {s \in songs : files[s] # None}

received(log, path, sha256) ==
  \E i \in DOMAIN log["song_receipt"] :
    log["song_receipt"][i].delivery = [path |-> path, sha256 |-> sha256]

\* Broken logs are named, not mixed in.
digest(ws, songs, files) ==
  LET intact == {p \in Plugins : ws[p].broken = {}}
  IN [broken |-> Plugins \ intact,
      open_concerns |->
        UNION {UNION {{[system |-> p, event_id |-> r.event_id, id |-> c.id, severity |-> c.severity,
                        about |-> IF c.about = "self" THEN p ELSE c.about] :
                         c \in {d \in r.facets.concerns :
                                  concern_status(ws, p, r, d) \in {"open", "deferred", "disputed"}}} :
                      r \in Impressions(ws, p)} : p \in intact},
      disputes |->
        {[by |-> x[1].system, event_id |-> x[1].record.event_id,
          target |-> <<x[2].system, x[2].event_id>>] :
           x \in UNION {{<<e, u>> : u \in {v \in e.record.upstream : v.disposition = "disputed"}} :
                               e \in {i \in impression_index(ws) : i.system \in intact}}},
      unread |-> UNION {{[reader |-> p, is |-> e] : e \in Unread(ws[p].log)} : p \in intact},
      insights |->
        {[ref |-> i.ref, status |-> current(ws, i.ref)] :
           i \in {j \in InsightsOf(ws) : j.ref.system \in intact}},
      songs |->
        {[path |-> s, to |-> files[s].to,
          received |-> files[s].to \in Plugins /\ received(ws[files[s].to].log, s, files[s])] :
           s \in song_deliveries(songs, files)}]

\* What fits of some lines, in whatever order they come.
Fits(all, room) ==
  IF IsFiniteSet(all) /\ Cardinality(all) <= room THEN {all}
  ELSE {some \in SUBSET all : IsFiniteSet(some) /\ Cardinality(some) = room}

\* One line names the plugins whose logs are broken.
LinesOf(briefing) ==
  Cardinality(briefing.concerns) + Cardinality(briefing.reads) + Cardinality(briefing.songs)
    + IF briefing.broken = {} THEN 0 ELSE 1

\* The briefings a session may start with: concerns come before reads, and reads
\* before songs.
recall(ws, songs, files, plugin) ==
  LET d == digest(ws, songs, files)
      room == limit - IF d.broken = {} THEN 0 ELSE 1
      reads == {u.is : u \in {v \in d.unread : v.reader = plugin}}
      waiting == {s.path : s \in {t \in d.songs : t.to = plugin /\ ~t.received}}
  IN UNION {UNION {{[broken |-> d.broken, concerns |-> c, reads |-> r, songs |-> s] :
                      s \in Fits(waiting, room - Cardinality(c) - Cardinality(r))} :
                    r \in Fits(reads, room - Cardinality(c))} :
              c \in Fits({o \in d.open_concerns : o.about = plugin}, room)}
=============================================================================
