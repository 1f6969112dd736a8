------------------------------ MODULE MC_Plugin ------------------------------
(* Two plugins, circuit and wire, and bard's songs.  A budget is a story:    *)
(* the requests the plugins have, and how often the rest may happen, so the  *)
(* stories add up and do not multiply.                                       *)
EXTENDS Sisters, Hooks

CONSTANTS Netlist1, Netlist2, Board, Png1, Png2

Names == <<"circuit", "wire">>
Says(c) == CASE c \in {Netlist1, Board} -> {"J1", "2 A"} [] c = Netlist2 -> {"J1"} [] OTHER -> None

Event(p, kind, n) == <<p, kind, n>>
Noticed(p, n) == [system |-> p, event_id |-> Event(p, "stage_impression", n)]
DocumentCites(c) == IF c = Netlist1 THEN {Noticed("circuit", 1)} ELSE {}
InsightIn(p, n) == Noticed(p, n) @@ [insight_id |-> "i1"]
Idea(id, hypothesis, revisits) ==
  [id |-> id, hypothesis |-> hypothesis, test |-> TRUE, revisits |-> revisits,
   revisit_reason |-> revisits # None]
ConcernAbout(id, text, about) == [id |-> id, text |-> text, about |-> about, severity |-> "warning"]
Answer(disposition, ids) == Noticed("circuit", 1) @@ [disposition |-> disposition, effect |-> TRUE, concern_ids |-> ids]
FacetsWith(concerns) ==
  [observed |-> 2, works |-> 1, next_actions |-> 1, concerns |-> concerns,
   no_concerns_reason |-> concerns = {}, feelings |-> {"maker", "user"}]

Impression(path, words, concerns, insights, upstream) ==
  [kind |-> "stage_impression", artifacts |-> {path}, image_sha256 |-> None,
   impression |-> words \union {"J1"}, facets |-> FacetsWith(concerns),
   claims |-> <<[anchor |-> "J1", artifact |-> path], [anchor |-> "2 A", artifact |-> path]>>,
   insights |-> insights, upstream |-> upstream, delta |-> FALSE]
Review(path, event, words, upstream) ==
  [kind |-> "vision_review", artifacts |-> {}, image_path |-> path, image_sha256 |-> None,
   source_event_id |-> event, reviewer |-> "primary", findings |-> {},
   impression |-> words \union {"J1"}, facets |-> FacetsWith({}),
   claims |-> <<[anchor |-> "J1", artifact |-> "png"]>>,
   insights |-> {}, upstream |-> upstream, delta |-> FALSE, lookback |-> {[claim |-> 1, verdict |-> "confirmed"]}]
Status(insight, to, verdicts, decisions) ==
  [kind |-> "insight_status", insight |-> insight, status |-> to, reason |-> TRUE,
   evidence |-> {[path |-> None, reference |-> TRUE]}, gate_verdicts |-> verdicts,
   decision_refs |-> decisions, revisit_when |-> to = "deferred"]
Decision(impressions, insights) ==
  [kind |-> "decision", options |-> {"a", "b"}, chosen |-> "a", rationale |-> TRUE, risks |-> TRUE,
   revisit_when |-> TRUE, evidence |-> {[path |-> "board.json", reference |-> FALSE]},
   impression_refs |-> impressions, insight_refs |-> insights]
Read(path, producer) == [kind |-> "upstream_read", artifact |-> path, producer |-> producer]
Receipt(path) ==
  [kind |-> "song_receipt", delivery |-> path, felt |-> TRUE, prompted_review |-> TRUE, follow_up |-> TRUE]
Song(to, verse) ==
  [kind |-> "bard_song_delivery", system |-> "bard", to |-> to, verse |-> verse, reason |-> TRUE,
   song |-> [path |-> "song.flac", sha256 |-> "s"], impression_refs |-> {Noticed("wire", 1)}]

Advisory(path) == "png.advisory.json"
AtFirst == [f \in {"board.json", "netlist.json", "png", Advisory("png"), "song.json"} |->
             CASE f = "board.json" -> Board [] f = "netlist.json" -> Netlist1 [] f = "png" -> Png1
               [] OTHER -> None]

Story == [jobs |-> 0, atOnce |-> 2, kill |-> 0, session |-> 0, stop |-> 0, write |-> 0, damage |-> 0, observe |-> FALSE,
          imports |-> {}, advisories |-> {}, requests |-> [p \in {"circuit", "wire"} |-> {}], contents |-> [f \in {} |-> {}]]
Quiet == Story

\* What becomes of an insight.
Thick == {"thick", "wire", "helps"}
Own == Impression("board.json", {"a", "b", "c"}, {}, {Idea("i1", Thick, None)}, {})
Same == Impression("board.json", {"d", "e", "f"}, {}, {Idea("i1", Thick, None)}, {})
Moves(statuses) == {Status(InsightIn("circuit", 1), s, {"pass"}, {"d1"}) : s \in statuses}
Insights ==
  [Story EXCEPT !.jobs = 5, !.atOnce = 1, !.damage = 1,
     !.requests = [circuit |-> {Own, Impression("board.json", {"d", "e", "f"}, {}, {Idea("i1", Thick, InsightIn("circuit", 1))}, {})}
                                 \union Moves({"rejected"}),
                   wire |-> {Same, Status(InsightIn("circuit", 1), "adopted", {"fail"}, {"d1"})}
                              \union Moves({"tried", "adopted", "rejected", "superseded"})]]
\* Two move it at once.
Races ==
  [Story EXCEPT !.jobs = 5,
     !.requests = [circuit |-> {Own} \union Moves({"rejected"}), wire |-> {Same} \union Moves({"tried", "adopted"})]]

\* What came with an import is answered.
Terse == Impression("board.json", {}, {}, {}, {})
Answering == Impression("board.json", {"k", "l", "m"}, {}, {}, {Answer("noted", {})})
Bound == Impression("netlist.json", {"g", "h", "i"}, {}, {}, {})
Worried == [Bound EXCEPT !.facets = FacetsWith({ConcernAbout("c1", {"x"}, "wire"), ConcernAbout("c2", {"y"}, "wire")})]
Imports ==
  [Story EXCEPT !.jobs = 3, !.stop = 1, !.write = 1, !.damage = 1,
     !.requests = [circuit |-> {Bound}, wire |-> {Answering}],
     !.imports = {[path |-> "netlist.json", kind |-> k] : k \in {"circuit-json", "csv"}},
     !.contents = [f \in {"netlist.json"} |-> {Netlist2}]]

\* What was looked at is reviewed.
Views ==
  [Story EXCEPT !.jobs = 3, !.stop = 1, !.write = 1, !.kill = 1, !.observe = TRUE,
     !.requests = [circuit |-> {},
                   wire |-> {Review("png", None, {"n", "o"}, {}), Review(None, <<"image", 1, Png1>>, {"p", "q"}, {}),
                             Review(None, <<"event", 1, "Is J1 readable?">>, {"r", "s"}, {}),
                             [Review(None, <<"image", 1, Png1>>, {"t", "u"}, {}) EXCEPT !.reviewer = "blind"]}],
     !.contents = [f \in {"png"} |-> {Png2}]]

\* A review that goes to the advisory first.
Reviewing ==
  [Story EXCEPT !.jobs = 3, !.stop = 1, !.write = 1, !.observe = TRUE,
     !.advisories = {Review("png", None, {"n", "o"}, {}), Review("png", None, {"p", "q"}, {})},
     !.contents = [f \in {"png"} |-> {Png2}]]

\* The same, as sessions begin.
Sessions ==
  {[Imports EXCEPT !.session = 1, !.write = 0, !.damage = 0, !.imports = {},
                   !.requests["circuit"] = {Worried}, !.requests["wire"] = @ \union {Read("netlist.json", "circuit"), Terse}],
   [Views EXCEPT !.session = 1, !.write = 0, !.kill = 0, !.requests["wire"] = {Review("png", None, {"n", "o"}, {})}]}

\* Bard sings.
Singing ==
  [Story EXCEPT !.jobs = 2, !.stop = 1, !.write = 3, !.damage = 1,
     !.requests = [circuit |-> {Receipt("song.json")}, wire |-> {Receipt("song.json")}],
     !.contents = [f \in {"song.json"} |-> {Song("wire", TRUE), Song("wire", FALSE), Song("circuit", TRUE)}]]

\* Circuit is concerned about a wire, and repeats itself.
Worry(id, about) == ConcernAbout(id, {"thin", "wire", "hot"}, about)
Concerns ==
  [Story EXCEPT !.jobs = 4, !.write = 1,
     !.requests = [circuit |-> {Impression("board.json", {"a", "b", "c"}, {Worry("c1", "wire"), ConcernAbout("c2", {"x"}, "self")}, {}, {}),
                                Impression("board.json", {"d", "e", "f"}, {Worry("c9", "wire")}, {}, {})},
                   wire |-> {Impression("netlist.json", {"k", "l", "m"}, {}, {}, {Answer("adopted", {"c1"})}),
                             Impression("netlist.json", {"k", "l", "o"}, {}, {}, {Answer("disputed", {})}),
                             Impression("netlist.json", {"p", "q", "r"}, {}, {}, {Answer("disputed", {"c1"})}),
                             Review("png", None, {"t", "u"}, {Answer("deferred", {"c1"})}),
                             Decision({Noticed("circuit", 1)}, {})}],
     !.contents = [f \in {"board.json"} |-> {Netlist1}]]
\* The same, and a log is begun anew.
Anew == [Concerns EXCEPT !.jobs = 3, !.write = 0, !.damage = 1]

Stories == {Quiet, Insights, Races, Imports, Views, Reviewing, Singing, Concerns, Anew} \union Sessions
OneInsight == {[Insights EXCEPT !.damage = 0, !.jobs = 4, !.requests["wire"] = @ \union Moves({"deferred"})]}

-----------------------------------------------------------------------------
(* The hooks around the session.  Two events that hold the same image, and   *)
(* one that cannot be decoded; an image of the tools whose signature holds   *)
(* and one whose does not.                                                   *)

MessagesOf(e) == CASE e = 1 -> <<"a">> [] e = 2 -> <<"b", "a", Absent>>
AgentLanes == <<"author", "review", "oracle">>
Signed(ref) == ref = <<"tools", "good">>
Lock(image, sum, attestation) ==
  [image |-> image, digest |-> sum, tag |-> "v1", attestation |-> attestation]
Checkout(path, package, docker, lock) ==
  [path |-> path, package |-> package, docker |-> docker, lock |-> lock]

Rest == [intake |-> 0, profiles |-> 0, launch |-> 0, kill |-> 0, attach |-> 0, edit |-> 0, hand |-> 0,
         store |-> [n \in {"default"} |-> Absent], active |-> Absent, inline |-> Absent,
         locks |-> <<>>, override |-> Absent, gh |-> TRUE, refs |-> {}, wire_src |-> Absent,
         cache |-> <<>>, opt |-> Checkout("opt", FALSE, FALSE, Absent),
         checkout |-> Checkout("checkout", TRUE, FALSE, Absent)]
Mailing == [Rest EXCEPT !.intake = 3, !.kill = 1, !.attach = 2]
Profiling(active, inline) ==
  [Rest EXCEPT !.profiles = 3, !.kill = 1, !.edit = 2, !.active = active, !.inline = inline,
               !.store = [n \in {"default", "mine", "settings"} |-> "seed"]]
Launching(locks, override, gh) ==
  [Rest EXCEPT !.launch = 2, !.hand = 1, !.kill = 1, !.locks = locks, !.override = override, !.gh = gh,
               !.refs = {<<"tools", "good">>, <<"tools", "bad">>}]
Hosts ==
  {Rest, Mailing, Profiling("mine", Absent), Profiling(Absent, "inline"), 
   [Profiling("gone", Absent) EXCEPT !.store = [n \in {"default", "settings"} |-> IF n = "default" THEN Absent ELSE "seed"]],
   Launching(<<Absent, Lock("tools", "good", "yes")>>, Absent, TRUE),
   Launching(<<Lock(Absent, "good", "yes"), Lock("tools", "bad", "yes")>>, Absent, TRUE),
   Launching(<<Lock("tools", "bad", "yes")>>, Absent, FALSE),
   Launching(<<Lock("tools", Absent, "yes")>>, Absent, TRUE),
   Launching(<<Lock("tools", "good", "yes")>>, <<"tools", "bad">>, TRUE),
   [Launching(<<>>, Absent, TRUE) EXCEPT
      !.wire_src = Checkout("wire_src", FALSE, FALSE, Absent),
      !.cache = <<Checkout("new", FALSE, TRUE, Absent), Checkout("old", TRUE, TRUE, Lock("tools", "bad", "yes"))>>,
      !.checkout = Checkout("checkout", TRUE, TRUE, Lock("tools", "good", Absent))]}
NoHost == {Rest}

\* A story of the plugins or one of the host, not both.
PluginInit == Init /\ HooksInit /\ (left = Quiet \/ plan = Rest)
PluginNext == (Next /\ UNCHANGED hookVars) \/ (HooksNext /\ UNCHANGED vars)
PluginSpec == PluginInit /\ [][PluginNext]_<<vars, hookVars>>
Symmetric == Permutations(Procs) \union Permutations(Runners)
=============================================================================
