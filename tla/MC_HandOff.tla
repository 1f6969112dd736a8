----------------------------- MODULE MC_HandOff -----------------------------
(* HandOff with four contracts: two without a simulation, of which one      *)
(* fails its gates, and two with one; two processes and two requests.        *)
EXTENDS HandOff

\* No length here has to be rounded.
Exact(n) == n

End(k, v) == [connector |-> k, cavity |-> v, splice |-> None]
Cavity(v) == [id |-> v, accepts |-> <<1, 2>>, terminal |-> "pin"]
Connector(k) ==
  [id |-> k, family |-> k, housing |-> "h", mate |-> None, current |-> 16, voltage |-> 60,
   mating |-> 30, keying |-> None, temperature |-> None, count |-> 3, source |-> None,
   cavities |-> {Cavity("1"), Cavity("2")}]
Wire0(w, net, v, length) ==
  [id |-> w, wire_type |-> "WT1", net |-> net, from |-> End("C1", v), to |-> End("C2", v),
   route |-> "RT1", length |-> length, strip_a |-> 4, strip_b |-> 4,
   terminal_a |-> "pin", terminal_b |-> "pin"]
WT1 == [id |-> "WT1", name |-> "AVSS 1.25", spec |-> "AVSS", gauge |-> 1, diameter |-> 2,
        resistance |-> 1, ampacity |-> 20, reference |-> 80, derating |-> <<>>, rating |-> 60,
        insulation |-> 105, bend |-> 4, shield |-> "none", flex |-> "static"]
Net(n) == [id |-> n, class |-> "power", voltage |-> 12, current |-> 5, drop |-> None,
           shielded |-> FALSE, pair |-> None, source |-> None]

Envelope1 == [system |-> "mech", keepouts |-> {[name |-> "motor", lo |-> <<1, 1, 1>>, hi |-> <<2, 2, 2>>]},
              anchors |-> <<[name |-> "a", position |-> <<0, 0, 0>>],
                            [name |-> "b", position |-> <<0, 3, 0>>]>>]
Imported == [id |-> "I1", system |-> "mech", ref |-> "env.json", sha256 |-> [exported |-> 1],
             anchors |-> <<"a", "b">>, points |-> Envelope1.anchors, keepouts |-> Envelope1.keepouts]

Rail0 == [net |-> "N1", source |-> End("C1", "1"), load |-> End("C2", "1"),
         return_net |-> "N2", return_source |-> End("C1", "2"), return_load |-> End("C2", "2")]

D1 == [connectors |-> {Connector("C1"), Connector("C2")}, wire_types |-> {WT1},
       nets |-> {Net("N1"), Net("N2")}, splices |-> {}, crimp_conditions |-> {}, segregations |-> {},
       wires |-> {Wire0("W1", "N1", "1", 1), Wire0("W2", "N2", "2", 1)},
       routes |-> {[id |-> "RT1", flex |-> FALSE, anchors |-> <<"a", "b">>,
                    segments |-> <<[id |-> "S1", length |-> 1, bend |-> 10]>>]},
       mating |-> None, ambient |-> 25, simulation |-> None, imported_sources |-> <<Imported>>,
       drawing |-> [approved |-> TRUE, issued |-> TRUE, logo |-> "logo"]]
D2 == [D1 EXCEPT !.simulation = [rails |-> <<Rail0>>, response |-> "sim-response.json"]]
\* One wire of two is too short, and the other ends elsewhere; pins are crimped.
D0 == [D1 EXCEPT !.crimp_conditions = {[id |-> "CC1", terminal |-> "pin", gauge |-> 1, height |-> 2, tol |-> 1]},
                 !.wires = {[Wire0("W1", "N1", "1", 1) EXCEPT !.to = End("C2", "3")], Wire0("W2", "N2", "2", 2)},
                 !.connectors = {[Connector("C1") EXCEPT !.cavities = @ \union {Cavity("3")}],
                                 [Connector("C2") EXCEPT !.cavities = @ \union {Cavity("3")}]},
                 !.routes = {[id |-> "RT1", flex |-> FALSE, anchors |-> <<"a", "b">>,
                              segments |-> <<[id |-> "S1", length |-> 2, bend |-> 10]>>]}]
D3 == [D2 EXCEPT !.wires = {Wire0("W1", "N1", "1", 1), Wire0("W2", "N2", "2", 2)},
                 !.routes = {[id |-> "RT1", flex |-> FALSE, anchors |-> <<"a", "b">>,
                              segments |-> <<[id |-> "S1", length |-> 2, bend |-> 10]>>]}]

Four == {"plain", "short", "looped", "longer"}
TextOf(d) == CASE d = "plain" -> D1 [] d = "short" -> D0 [] d = "looped" -> D2 [] d = "longer" -> D3

Item(kind, i, v) == [kind |-> kind, id |-> i, verdict |-> v]
Solved == {[status |-> "accepted", verdict |-> "pass", checks |-> {Item("pdn", "drop", "pass")}],
           [status |-> "rejected", verdict |-> "fail", checks |-> {Item("pdn", "drop", "fail"), Item("ac", "x", "pass")}],
           [status |-> "needs_info", verdict |-> "unknown", checks |-> {}]}

Asked == {"r1", "r2"}
Order == [r1 |-> {}, r2 |-> {"r1"}]
For == [r1 |-> "circuit", r2 |-> "wire"]
Symmetric == Permutations(Procs)
Payload(status, report, refs, artifacts) ==
  [status |-> status, report |-> report, refs |-> refs, artifacts |-> artifacts]
Given == {Payload("done", TRUE, {"S1"}, {"bom.json"}), Payload("done", TRUE, {}, {"bom.json"}),
          Payload("done", FALSE, {"S1"}, {"contract"}), Payload("needs_info", TRUE, {"S2"}, {}),
          Payload("needs_info", FALSE, {}, {})}
OneLogo == {"logo"}
Exported == {[exported |-> 1], [exported |-> 2]}
Nothing == [edit |-> 0, mech |-> 0, sim |-> 0, ask |-> 0, sister |-> 0, damage |-> 0,
            export |-> 0, author |-> 0, table |-> 0, request |-> 0, respond |-> 0, crash |-> 0,
            jobs |-> 2, drafts |-> {"plain", "short"}, tables |-> {"continuity.json"}]
Bounds ==
  {[Nothing EXCEPT !.edit = 3, !.export = 3, !.crash = 1, !.jobs = 3],
   [Nothing EXCEPT !.edit = 2, !.table = 2, !.crash = 1, !.damage = 1],
   [Nothing EXCEPT !.edit = 1, !.table = 2, !.crash = 1, !.tables = {"crimp.json", "formboard.json"}],
   [Nothing EXCEPT !.edit = 2, !.request = 2, !.crash = 1, !.sim = 1, !.drafts = {"looped", "longer"}],
   [Nothing EXCEPT !.edit = 2, !.author = 1, !.respond = 1, !.sister = 1, !.ask = 1],
   [Nothing EXCEPT !.edit = 1, !.respond = 2, !.sister = 1, !.crash = 1],
   [Nothing EXCEPT !.edit = 1, !.author = 1, !.mech = 1, !.crash = 1, !.jobs = 1],
   [Nothing EXCEPT !.damage = 1, !.respond = 1, !.sister = 1],
   [Nothing EXCEPT !.author = 1, !.request = 1, !.sim = 1, !.sister = 1, !.respond = 1, !.jobs = 3,
               !.drafts = {"looped"}]}
=============================================================================
