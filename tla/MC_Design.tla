----------------------------- MODULE MC_Design ------------------------------
(* Design with families of drafts, each varying what one group of gates     *)
(* looks at: the topology of three wires on two splices, the quantities of  *)
(* one to three wires in a bundle, terminals and crimps, housings and keys, *)
(* anchors around a keep-out box, and lengths that are rounded.  Some       *)
(* drafts are refused.                                                      *)
EXTENDS Design

\* The nearest number of eight significant bits, the even one of two.
EightBits(n) ==
  LET unit == 2 ^ Min({k \in 0..22 : n < 2 ^ (k + 8)})
      down == n \div unit
      up == 2 * (n % unit) > unit \/ (2 * (n % unit) = unit /\ down % 2 = 1)
  IN unit * (IF up THEN down + 1 ELSE down)

At(k, v) == [connector |-> k, cavity |-> v, splice |-> None]
On(s) == [connector |-> None, cavity |-> None, splice |-> s]

Cavity(v, accepts, terminal) == [id |-> v, accepts |-> accepts, terminal |-> terminal]
Connector(k, terminal) ==
  [id |-> k, family |-> k, housing |-> "h", mate |-> None, current |-> 16, voltage |-> 60,
   mating |-> 30, keying |-> None, temperature |-> None, count |-> 3, source |-> None,
   cavities |-> {Cavity("1", <<1, 2>>, terminal), Cavity("2", <<1, 2>>, terminal),
                Cavity("3", <<1, 2>>, terminal)}]
C1 == Connector("C1", "pin")
C2 == Connector("C2", "pin")

WT1 == [id |-> "WT1", name |-> "AVSS 1.25", spec |-> "AVSS", gauge |-> 1, diameter |-> 2,
        resistance |-> 14, ampacity |-> 20, reference |-> 80, derating |-> <<>>, rating |-> 60,
        insulation |-> 105, bend |-> 4, shield |-> "none", flex |-> "static"]

Net(n, class) == [id |-> n, class |-> class, voltage |-> 12, current |-> 5, drop |-> None,
                  shielded |-> FALSE, pair |-> None, source |-> None]
N1 == Net("N1", "power")
N2 == Net("N2", "data")

Route(segments, anchors) ==
  [id |-> "RT1", segments |-> segments, anchors |-> anchors, flex |-> FALSE]
Segment(s, length, bend) == [id |-> s, length |-> length, bend |-> bend]
RT1 == Route(<<Segment("S1", 1, 8), Segment("S2", 1, 10)>>, <<>>)

Wire(w, net, from, to) ==
  [id |-> w, wire_type |-> "WT1", net |-> net, from |-> from, to |-> to, route |-> "RT1",
   length |-> 2, strip_a |-> 4, strip_b |-> 4, terminal_a |-> "pin", terminal_b |-> "pin"]

Base == [Empty EXCEPT !.connectors = {C1, C2}, !.wire_types = {WT1}, !.nets = {N1, N2},
                      !.routes = {RT1},
                      !.splices = {[id |-> "SP1"], [id |-> "SP2"]}]

\* Three wires between three cavities and two splices.
Topologies ==
  {[Base EXCEPT !.wires = {Wire("W1", "N1", w, x),
                           Wire("W2", n2, y, z), Wire("W3", n3, u, v)}] :
     w \in {At("C1", "1"), On("SP2")}, x \in {At("C2", "1"), On("SP1")}, n2 \in {"N1", "N2"}, n3 \in {"N1", "N2"},
     y \in {On("SP1"), At("C1", "2")}, z \in {At("C2", "1"), On("SP2"), On("SP1")},
     u \in {On("SP2"), On("SP1"), At("C2", "2")}, v \in {On("SP1"), On("SP2"), At("C2", "1")}}

Small == [Base EXCEPT !.splices = {}, !.nets = {N1}]

WarmType(t) == [WT1 EXCEPT !.spec = t[1], !.derating = t[2], !.insulation = t[3]]

\* One to three wires of a bundle, of every current, warmth and length.
Quantities ==
  {[Small EXCEPT
      !.ambient = warm,
      !.wire_types = {WarmType(t)},
      !.nets = {[N1 EXCEPT !.current = amps, !.voltage = v[1], !.drop = v[2]]},
      !.wires = bundle] :
     warm \in {20, 85, 110}, amps \in {5, 15, 20},
     t \in {<<"AVSS", <<>>, 105>>, <<None, <<>>, 105>>, <<"AVSS", <<>>, 0>>,
            <<None, <<<<60, 100>>, <<100, 40>>>>, 120>>},
     v \in {<<0, None>>, <<12, 1>>, <<80, 2>>},
     bundle \in {{[Wire("W1", "N1", At("C1", "1"), At("C2", "1")) EXCEPT !.length = 1]},
                 {Wire("W1", "N1", At("C1", "1"), At("C2", "1")),
                  [Wire("W2", "N1", At("C1", "2"), At("C2", "2")) EXCEPT !.length = 30]},
                 {Wire("W1", "N1", At("C1", "1"), At("C2", "1")),
                  Wire("W2", "N1", At("C1", "2"), At("C2", "2")),
                  Wire("W3", "N1", At("C1", "3"), At("C2", "3"))},
                 {Wire("W1", "N1", At("C1", "1"), At("C2", "1")),
                  [Wire("W3", "N1", At("C1", "3"), At("C2", "3")) EXCEPT !.route = None]}}}

CC(k, terminal, gauge, tol) ==
  [id |-> k, terminal |-> terminal, gauge |-> gauge, height |-> 2, tol |-> tol]

\* Terminals of the wires and the cavities, crimps, cavities that accept the
\* gauge or not, and a splice end.
Terminals ==
  {[Small EXCEPT
      !.connectors = {[C1 EXCEPT !.cavities = {Cavity("1", accepts, ct), Cavity("2", None, None)}],
                      C2},
      !.splices = {[id |-> "SP1"]},
      !.crimp_conditions = crimps,
      !.wires = {[Wire("W1", "N1", At("C1", "1"), to) EXCEPT
                    !.terminal_a = a, !.terminal_b = b, !.strip_a = strip],
                 Wire("W2", "N1", On("SP1"), At("C2", "2"))}] :
     accepts \in {None, <<1, 2>>, <<2, 3>>, <<0, 1>>}, ct \in {None, "pin"},
     a \in {None, "pin", "tab"}, b \in {None, "pin"}, strip \in {4, 5},
     to \in {At("C2", "1"), On("SP1")},
     crimps \in {{}, {CC("CC1", "pin", 1, 1)},
                 {CC("CC1", "pin", 1, 1), CC("CC2", "tab", 1, 1)},
                 {CC("CC1", "pin", 1, 2)},
                 {CC("CC1", "pin", 1, 1), CC("CC2", "pin", 1, 1)}}}

\* Ratings, housings and keys of two connectors, classes kept apart, shields
\* and pairs.
Housings ==
  {[Base EXCEPT
      !.connectors = {[C1 EXCEPT !.housing = h, !.mate = mate, !.keying = "A"],
                      [C2 EXCEPT !.family = family, !.keying = key, !.temperature = 30]},
      !.ambient = warm, !.mating = mating,
      !.splices = {},
      !.nets = {[N1 EXCEPT !.shielded = shielded, !.pair = pair], N2},
      !.routes = {[RT1 EXCEPT !.flex = flex]},
      !.segregations = {[classes |-> {"power", "data"}, rule |-> rule]},
      !.wires = {Wire("W1", "N1", At("C1", "1"), At("C2", "1")),
                 [Wire("W2", "N2", At("C1", "2"), At("C1", "2")) EXCEPT !.route = route]}] :
     h \in {None, "h"}, mate \in {None, "h"}, family \in {"C1", "C2"}, key \in {None, "A", "B"},
     warm \in {25, 40}, mating \in {None, 50}, shielded \in {FALSE}, pair \in {None, "N2"},
     flex \in BOOLEAN, rule \in {"no_shared_route", "no_shared_connector"},
     route \in {None, "RT1"}}

Box(lo, hi) == [name |-> "motor", lo |-> lo, hi |-> hi]
Anchor(name, position) == [name |-> name, position |-> position]
Mech(i, points, keepouts) ==
  [id |-> i, system |-> "mech", ref |-> "mech.json", sha256 |-> None,
   anchors |-> <<"a", "b">>, points |-> points, keepouts |-> keepouts]

\* A run between two anchors, straight or slanted, beside, through or along
\* the faces of a box.
Geometries ==
  {[Small EXCEPT
      !.routes = {Route(<<Segment("S1", length, None)>>, <<"a", "b">>)},
      !.imported_sources = <<Mech("I1", <<Anchor("a", p), Anchor("b", q)>>, {Box(lo, <<4, 4, 2>>)})>>,
      !.wires = {[Wire("W1", "N1", At("C1", "1"), At("C2", "1")) EXCEPT !.length = length]}] :
     length \in {1},
     p \in {<<0, 0, 1>>, <<0, 3, 1>>, <<2, 3, 1>>, <<3, 4, 1>>, <<1, 0, 1>>, <<4, 0, 1>>},
     q \in {<<0, 0, 1>>, <<3, 4, 1>>, <<5, 4, 1>>, <<3, 0, 1>>, <<1, 3, 1>>, <<4, 8, 1>>},
     lo \in {<<1, 1, 0>>, <<2, 3, 0>>, <<3, 0, 1>>}}
  \union
  {[Small EXCEPT !.routes = {Route(<<Segment("S1", 1, None)>>, <<"a", "b">>)},
                 !.imported_sources = sources] :
     sources \in {<<>>, <<Mech("I1", <<Anchor("a", <<0, 0, 1>>)>>, {})>>,
                  <<Mech("I1", <<Anchor("a", <<0, 0, 1>>), Anchor("b", <<0, 3, 1>>)>>, None)>>,
                  <<Mech("I1", <<Anchor("a", <<0, 0, 1>>), Anchor("b", <<0, 3, 1>>)>>, {}),
                    [Mech("I2", <<Anchor("b", <<3, 4, 1>>)>>, {}) EXCEPT !.ref = "new.json"]>>}}

\* A wire as long as a route of one segment or two, or not, where thousandfold
\* lengths have to be rounded and where not.
Lengthy ==
  {[Small EXCEPT
      !.routes = {Route(segments, <<>>)},
      !.wires = {[Wire("W1", "N1", At("C1", "1"), At("C2", "1")) EXCEPT !.length = length]}] :
     length \in {1, 9, 10, 13, 15},
     segments \in {<<Segment("S1", l, None)>> : l \in {9, 10, 13, 15}}
       \union {<<Segment("S1", l, None), Segment("S2", m, None)>> : l \in {1, 4, 6, 8}, m \in {1, 7, 8, 9}}}

Rail(net, source, load, return, rsource, rload) ==
  [net |-> net, source |-> source, load |-> load, return_net |-> return,
   return_source |-> rsource, return_load |-> rload]

\* Supply loops, most of them wrong.
Loops ==
  {[Base EXCEPT !.splices = {}, !.simulation = [rails |-> rails],
                !.wires = {Wire("W1", "N1", At("C1", "1"), At("C2", "1")),
                           Wire("W2", "N2", At("C1", "2"), At("C2", "2"))}] :
     rails \in {<<Rail("N1", At("C1", "1"), load, return, rs, rl)>> :
                  load \in {At("C2", "1"), At("C1", "1"), At("C2", "2")},
                  return \in {None, "N1", "N2"}, rs \in {None, At("C1", "2")},
                  rl \in {None, At("C2", "2")}}}

AllDrafts == UNION {Topologies, Quantities, Terminals, Housings, Geometries, Lengthy, Loops}

-----------------------------------------------------------------------------
Item(ref, amps) == [ref |-> ref, family |-> None, generic |-> TRUE, housing |-> "mate",
                    current |-> amps, voltage |-> 60, cavities |-> {"1", "2"}]
NetItem(ref) == [ref |-> ref, class |-> "power", voltage |-> 12, current |-> 5]
Circuit(refs, amps) ==
  [system |-> "circuit", connectors |-> [i \in DOMAIN refs |-> Item(refs[i], amps)],
   nets |-> <<NetItem("VCC")>>]

Row(from, cavity, to, net) ==
  [from |-> from, from_cavity |-> cavity, to |-> to, to_cavity |-> None, family |-> None,
   net |-> net, voltage |-> 12, current |-> 1]

\* Two boards of one system that both have a J1, or one of them a J4 twice; an
\* envelope, and a CSV.
Files == {"board.json", "other.json", "mech.json", "list.csv"}
Holdings(r) ==
  CASE r = "board.json" -> {Circuit(<<"J1">>, 3), Circuit(<<"J1", "J2">>, 5)}
    [] r = "other.json" -> {Circuit(<<"J1", "J3">>, 9), Circuit(<<"J1", "J3">>, 0), Circuit(<<"J4", "J4">>, 7)}
    [] r = "mech.json"  -> {[system |-> "mech", keepouts |-> {},
                             anchors |-> <<Anchor("a", <<0, 0, 0>>), Anchor(b, None)>>] :
                              b \in {"a", "b"}}
    [] r = "list.csv"   -> {load_connectivity_csv(rows) :
                              rows \in {<<Row("X1", "1", "X2", "N"), Row("X1", "2", None, "N")>>}}

First(r) == CHOOSE v \in Holdings(r) :
  /\ r = "board.json" => Len(v.connectors) = 1
  /\ r = "other.json" => load_connectivity_source(v) /\ v.connectors[1].ref = "J1"

Sidecar == [x |-> "bytes"]
\* Intakes that map all or all but one element to one or two sources.
Sidecars(c) ==
  {[contract_sha256 |-> IF ok THEN c ELSE None, requirements |-> {[id |-> "R1", source |-> by]}, assumptions |-> {"A1"},
    questions |-> q, evidence |-> {[path |-> "x", sha256 |-> sha]},
    element_sources |-> [e \in element_ids(c) \ left |-> IF e \in Ids(c.connectors) THEN s ELSE {"R1"}]] :
     ok \in BOOLEAN, q \in {{}, {"Q1"}}, sha \in {"bytes", "old"},
     left \in {{}} \union {{e} : e \in Ids(c.connectors)},
     s \in {{"R1"}, {"A1"}, {"A1", "I1"}, {"A1", "R1"}, {"I2"}, {"R9"}, {}}, by \in {"user", "agent"}}
=============================================================================
