------------------------------ MODULE Contract ------------------------------
(***************************************************************************)
(* The harness contract of src/wire/contract.py: which files load_contract *)
(* accepts, and the lookups the gates and the exports make.                *)
(*                                                                         *)
(* Collections are sets of records with an id; what is ordered in the code *)
(* and whose order matters is a sequence (segments, anchors, derating      *)
(* points, imported sources).  Quantities are integers in the contract's   *)
(* units, factors in percent; lengths of routes are rounded as floats are, *)
(* other quantities are exact.  None is Python's.                          *)
(***************************************************************************)
EXTENDS Integers, FiniteSets, Sequences

CONSTANTS None,
          Float(_)   \* what a number is rounded to

Ids(S) == {x.id : x \in S}
ById(S, i) == CHOOSE x \in S : x.id = i

\* Two elements of one id; as sets of records they differ elsewhere.
RepeatsId(S) == Cardinality(Ids(S)) < Cardinality(S)

Elems(s) == {s[i] : i \in DOMAIN s}
Distinct(s) == Cardinality(Elems(s)) = Len(s)
Names(s) == [i \in DOMAIN s |-> s[i].name]

\* What a field declared greater than zero may be.
Positive == Nat \ {0}

\* A length that a file gives is a float.
Length == {n \in Positive : Float(n) = n}

-----------------------------------------------------------------------------
(* One element.                                                            *)

CavitySpecOK(v) ==
  v.accepts # None => v.accepts[1] > 0 /\ v.accepts[2] >= v.accepts[1]

HarnessConnectorOK(k) ==
  /\ {k.current, k.voltage, k.mating} \subseteq Positive
  /\ k.cavities # {} /\ ~RepeatsId(k.cavities)
  /\ \A v \in k.cavities : CavitySpecOK(v)
  /\ k.count # None => k.count >= Cardinality(k.cavities)

\* <<temperature, factor>>
TemperatureDeratingPoint == Int \X (0..100)

\* The points rise in temperature.
WireTypeOK(t) ==
  /\ {t.gauge, t.diameter, t.resistance, t.ampacity, t.rating, t.bend} \subseteq Positive
  /\ t.derating \in Seq(TemperatureDeratingPoint)
  /\ \A i, j \in DOMAIN t.derating :
       i < j => t.derating[i][1] < t.derating[j][1]

EndpointOK(e) ==
  /\ e = [connector |-> e.connector, cavity |-> e.cavity, splice |-> e.splice]
  /\ IF e.splice # None THEN e.connector = None /\ e.cavity = None
                        ELSE e.connector # None /\ e.cavity # None

CrimpConditionOK(k) ==
  /\ {k.gauge, k.tol, k.height} \subseteq Positive
  /\ k.tol < k.height

HarnessWireOK(w) == w.length \in Length /\ EndpointOK(w.from) /\ EndpointOK(w.to)

RouteSegmentOK(s) == s.length \in Length /\ (s.bend # None => s.bend \in Positive)

HarnessRouteOK(r) ==
  /\ r.id # None /\ r.segments \in Seq(Elems(r.segments)) /\ r.segments # <<>>
  /\ r.anchors \in Seq(Elems(r.anchors))
  /\ Distinct([i \in DOMAIN r.segments |-> r.segments[i].id])
  /\ \A s \in Elems(r.segments) : RouteSegmentOK(s)

HarnessNetOK(n) ==
  {n.voltage, n.current} \subseteq Nat /\ (n.drop # None => n.drop \in Nat)

SignalClasses == {"power", "ground", "signal", "analog", "data", "highspeed", "shield"}

SegregationPolicyOK(p) ==
  p.classes \subseteq SignalClasses /\ p.rule \in {"no_shared_route", "no_shared_connector"}

ServiceExpectationOK(mating) == mating # None => mating >= 1

Point == Int \X Int \X Int
KeepoutBoxOK(b) == {b.lo, b.hi} \subseteq Point /\ \A axis \in 1..3 : b.lo[axis] < b.hi[axis]

\* keepouts is None for an envelope older than the keep-out export.
ImportedSourceOK(s) ==
  /\ \A p \in Elems(s.points) : p.position \in Point
  /\ Distinct(Names(s.points))
  /\ Elems(Names(s.points)) \subseteq Elems(s.anchors)
  /\ s.keepouts # None =>
       /\ s.system = "mech"
       /\ \A a, b \in s.keepouts : a.name = b.name => a = b
       /\ \A b \in s.keepouts : KeepoutBoxOK(b)

\* Only approved drawings issue.
DrawingInfoOK(d) == d.issued => d.approved

-----------------------------------------------------------------------------
(* The contract.                                                           *)

\* Its fields; another one is refused.
HarnessContract ==
  {"connectors", "wire_types", "nets", "wires", "routes", "splices", "crimp_conditions",
   "segregations", "mating", "ambient", "simulation", "imported_sources", "drawing"}

connector_map(c, i) == ById(c.connectors, i)
wire_type_map(c, i) == ById(c.wire_types, i)
net_map(c, i) == ById(c.nets, i)
route_map(c, i) == ById(c.routes, i)

element_ids(c) == UNION {Ids(c.connectors), Ids(c.wire_types), Ids(c.nets),
                         Ids(c.wires), Ids(c.routes), Ids(c.splices)}

\* The wires' ends, each with its terminal.
Ends(c) ==
  {[wire |-> w, end |-> "a", at |-> w.from, terminal |-> w.terminal_a] : w \in c.wires}
  \union
  {[wire |-> w, end |-> "b", at |-> w.to, terminal |-> w.terminal_b] : w \in c.wires}
Terminations(c) == {t \in Ends(c) : t.at.connector # None}

EndpointKnown(c, e) ==
  IF e.splice # None
    THEN e.splice \in Ids(c.splices)
    ELSE \E k \in c.connectors : k.id = e.connector /\ e.cavity \in Ids(k.cavities)

SimRailOK(r) ==
  (r.return_net = None) = (r.return_source = None)
  /\ (r.return_net = None) = (r.return_load = None)

SimulationLinkOK(link) == link.rails # <<>> /\ \A r \in Elems(link.rails) : SimRailOK(r)

\* A loop's source and load are different ends of wires on its net.
LoopOK(c, net, source, load) ==
  source # load /\ {source, load} \subseteq {t.at : t \in {u \in Ends(c) : u.wire.net = net}}

_validate_simulation(c) ==
  /\ Distinct([i \in DOMAIN c.simulation.rails |-> c.simulation.rails[i].net])
  /\ \A r \in Elems(c.simulation.rails) :
       /\ r.net \in Ids(c.nets) /\ net_map(c, r.net).voltage > 0
       /\ LoopOK(c, r.net, r.source, r.load)
       /\ r.return_net # None =>
            /\ r.return_net \in Ids(c.nets) \ {r.net}
            /\ LoopOK(c, r.return_net, r.return_source, r.return_load)

validate_contract(c) ==
  /\ \A S \in {c.connectors, c.wire_types, c.nets, c.wires, c.routes, c.splices,
               c.crimp_conditions, Elems(c.imported_sources)} : IsFiniteSet(S) /\ ~RepeatsId(S)
  /\ \A n \in c.nets : n.pair # None => n.pair \in Ids(c.nets)
  /\ \A w \in c.wires :
       /\ w.wire_type \in Ids(c.wire_types)
       /\ w.net \in Ids(c.nets)
       /\ w.route # None => w.route \in Ids(c.routes)
       /\ EndpointKnown(c, w.from) /\ EndpointKnown(c, w.to)
  /\ \A k, l \in c.crimp_conditions :
       k.terminal = l.terminal /\ k.gauge = l.gauge => k = l
  /\ c.simulation # None => _validate_simulation(c)

\* A file that is not valid JSON is none of the drafts.
load_contract(c) ==
  /\ DOMAIN c = HarnessContract
  /\ \A k \in c.connectors : HarnessConnectorOK(k)
  /\ \A t \in c.wire_types : WireTypeOK(t)
  /\ \A n \in c.nets : HarnessNetOK(n)
  /\ \A w \in c.wires : HarnessWireOK(w)
  /\ \A r \in c.routes : HarnessRouteOK(r)
  /\ \A k \in c.crimp_conditions : CrimpConditionOK(k)
  /\ c.imported_sources \in Seq(Elems(c.imported_sources))
  /\ \A s \in Elems(c.imported_sources) : ImportedSourceOK(s)
  /\ \A p \in c.segregations : SegregationPolicyOK(p)
  /\ c.ambient \in Int /\ ServiceExpectationOK(c.mating) /\ DrawingInfoOK(c.drawing)
  /\ c.simulation # None => SimulationLinkOK(c.simulation)
  /\ validate_contract(c)

\* The position of an anchor: the last mech import that lists it decides, and
\* lists it without a point when it has none.
anchor_map(c, name) ==
  LET listing == {i \in DOMAIN c.imported_sources :
                    /\ c.imported_sources[i].system = "mech"
                    /\ name \in Elems(c.imported_sources[i].anchors)}
      last == c.imported_sources[CHOOSE i \in listing : \A j \in listing : j <= i]
      at == {p \in Elems(last.points) : p.name = name}
  IN IF listing = {} \/ at = {} THEN None ELSE (CHOOSE p \in at : TRUE).position

\* The declared logo is read under the contract's directory, and must be the
\* pinned bytes; without one there is nothing to read.
owner_logo_ok(c, logo) == c.drawing.logo = None \/ c.drawing.logo = logo
=============================================================================
