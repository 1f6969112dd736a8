------------------------------- MODULE Gates --------------------------------
(***************************************************************************)
(* The gates of src/wire/gates.py with the tables of standards.py: each    *)
(* gate is the set of its checks on a contract, [gate, subject, status].   *)
(*                                                                         *)
(* Digests are the bytes they are taken of.  Decimal numbers are integers  *)
(* in small enough units, fractions are compared crosswise, and anchors    *)
(* are placed so that the distances between them are whole.                *)
(***************************************************************************)
EXTENDS Envelope, FiniteSetsExt, SequencesExt

Check(gate, subject, status) ==
  [gate |-> gate, subject |-> subject, status |-> status]

Status(problem, doubt) ==
  IF problem THEN "fail" ELSE IF doubt THEN "unknown" ELSE "pass"

WiresOn(c, route) == {w \in c.wires : w.route = route}
NetOf(c, w) == net_map(c, w.net)
TypeOf(c, w) == wire_type_map(c, w.wire_type)
ClassesOf(c, W) == {NetOf(c, w).class : w \in W}

-----------------------------------------------------------------------------
(* standards.py                                                            *)

\* The limits of one row and the next exchanged.
bundle_deratingSwapped(size) ==
  CASE size <= 1 -> 100 [] size = 2 -> 70 [] size = 3 -> 80 [] size \in 4..5 -> 60
    [] size \in 6..8 -> 55 [] size \in 9..12 -> 50 [] OTHER -> 45

\* Percent, by the number of wires in the bundle.
bundle_derating(size) ==
  CASE size <= 1 -> 100 [] size = 2 -> 80 [] size = 3 -> 70 [] size \in 4..5 -> 60
    [] size \in 6..8 -> 55 [] size \in 9..12 -> 50 [] OTHER -> 45

SPEC_DERATING(spec) ==
  CASE spec \in {"AVSS", "AVS"}    -> <<<<80, 100>>, <<90, 85>>, <<100, 65>>, <<105, 0>>>>
    [] spec \in {"FLRY-B", "FLRY"} -> <<<<105, 100>>, <<115, 75>>, <<125, 0>>>>
    [] spec = "TXL"                -> <<<<125, 100>>, <<135, 75>>, <<150, 0>>>>
    [] OTHER                       -> <<>>

\* The factor at a temperature as a fraction, <<percent, denominator>>: the
\* first pair of points around it is interpolated, outside the curve its
\* nearest end counts.
temperature_factor(points, ambient) ==
  LET n == Len(points)
      around == {i \in 1..(n - 1) :
                   points[i][1] <= ambient /\ ambient <= points[i + 1][1]}
      i == Min(around)
      t0 == points[i][1]  f0 == points[i][2]
      t1 == points[i + 1][1]  f1 == points[i + 1][2]
  IN IF ambient < points[1][1] THEN <<points[1][2], 1>>
     ELSE IF around = {} THEN <<points[n][2], 1>>
     ELSE <<f0 * (t1 - t0) + (f1 - f0) * (ambient - t0), t1 - t0>>

-----------------------------------------------------------------------------
(* Connectors, cavities, splices and nets.                                 *)

_check_connectivity(c) ==
  {Check("connectivity", <<>>,
     Status(\E w \in c.wires : \/ ~EndpointKnown(c, w.from)
                               \/ ~EndpointKnown(c, w.to)
                               \/ w.route # None /\ w.route \notin Ids(c.routes)
                               \/ w.from = w.to, FALSE))}

_check_cavity_occupancy(c) ==
  {Check("cavity_occupancy", <<>>,
     Status(\E t, u \in Terminations(c) : t # u /\ t.at = u.at, FALSE))}

Legs(c, splice) == {t \in Ends(c) : t.at.splice = splice}

\* The legs are counted only.
_check_splice_integrityCounting(c) ==
  {Check("splice_integrity", <<s.id>>,
     Status(Cardinality(Legs(c, s.id)) < 2, FALSE)) : s \in c.splices}

_check_splice_integrity(c) ==
  {Check("splice_integrity", <<s.id>>,
     Status(\/ Cardinality(Legs(c, s.id)) < 2
            \/ Cardinality({t.wire.net : t \in Legs(c, s.id)}) > 1, FALSE)) :
     s \in c.splices}

_check_netlist_coverage(c) ==
  {Check("netlist_coverage", <<>>,
     Status(Ids(c.nets) # {w.net : w \in c.wires}, FALSE))}

RoutesOf(c, net) == {w.route : w \in {v \in c.wires : v.net = net}}

_check_shielding_pairing(c) ==
  {Check("shielding_pairing", <<"shield">>,
     Status(\E w \in c.wires : NetOf(c, w).shielded /\ TypeOf(c, w).shield = "none",
            FALSE)),
   Check("shielding_pairing", <<"pair">>,
     Status(\E n \in c.nets :
              /\ n.pair # None
              /\ \/ RoutesOf(c, n.id) # RoutesOf(c, n.pair)
                 \/ None \in RoutesOf(c, n.id), FALSE))}

-----------------------------------------------------------------------------
(* Wires.                                                                  *)

\* A wire's own curve, or the one of its specification.
Curve(t) == IF t.derating # <<>> THEN t.derating ELSE SPEC_DERATING(t.spec)

_ampacity(c, w) ==
  LET t == TypeOf(c, w)
      curve == Curve(t)
      factor == IF curve = <<>> THEN <<100, 1>> ELSE temperature_factor(curve, c.ambient)
      bundle == bundle_derating(Cardinality(WiresOn(c, w.route)))
  IN IF curve = <<>> /\ c.ambient > t.reference THEN "unknown"
     ELSE Status(\/ factor[1] <= 0
                 \/ NetOf(c, w).current * 10000 * factor[2] > t.ampacity * factor[1] * bundle, FALSE)

_ampacity_details(c) == {Check("ampacity", <<w.id>>, _ampacity(c, w)) : w \in c.wires}

\* The limit is 3 % of the voltage unless one is declared.
_voltage_drop(c, w) ==
  LET n == NetOf(c, w)
      drop == n.current * w.length * TypeOf(c, w).resistance
  IN CASE n.drop # None -> Status(drop > 1000 * n.drop, FALSE)
       [] n.drop = None /\ n.voltage > 0 -> Status(drop * 100 > 3000 * n.voltage, FALSE)
       [] OTHER -> "unknown"

_check_voltage_drop(c) == {Check("voltage_drop", <<w.id>>, _voltage_drop(c, w)) : w \in c.wires}

\* The measured ratio divides by the insulation's temperature: a wire rated
\* for zero degrees ends the whole gate, which _wrap turns into one check.
_check_insulation_rating(c) ==
  IF \E w \in c.wires : TypeOf(c, w).insulation = 0
    THEN {Check("insulation_rating", <<"insulation_rating">>, "unknown")}
    ELSE {Check("insulation_rating", <<w.id>>,
            Status(\/ NetOf(c, w).voltage > TypeOf(c, w).rating
                   \/ c.ambient > TypeOf(c, w).insulation, FALSE)) : w \in c.wires}

\* The tightest bend the wires of a route allow.
Required(c, r) ==
  Max({0} \union {TypeOf(c, w).bend * TypeOf(c, w).diameter : w \in WiresOn(c, r.id)})

_check_bend_radius(c) ==
  {Check("bend_radius", <<"route coverage">>, "unknown") : w \in WiresOn(c, None)}
  \union
  {Check("bend_radius", <<r.id>>, "fail") :
     r \in {q \in c.routes : q.flex /\ \E w \in WiresOn(c, q.id) :
                                         TypeOf(c, w).flex = "static"}}
  \union
  UNION {{Check("bend_radius", <<r.id, s.id>>,
            IF s.bend = None THEN "unknown" ELSE Status(s.bend < Required(c, r), FALSE)) :
            s \in Elems(r.segments)} : r \in c.routes}

WiresAt(c, k) == {w \in c.wires : k \in {w.from.connector, w.to.connector}}

_check_segregation(c) ==
  {LET meet(W) == p.classes \subseteq ClassesOf(c, W)
   IN IF p.rule = "no_shared_route"
        THEN Check("segregation", <<"route">>,
               Status(\E r \in {w.route : w \in c.wires} : meet(WiresOn(c, r)),
                      WiresOn(c, None) # {}))
        ELSE Check("segregation", <<"connector">>,
               Status(\E k \in Ids(c.connectors) : meet(WiresAt(c, k)), FALSE)) :
     p \in c.segregations}

CavityAt(c, e) == ById(connector_map(c, e.connector).cavities, e.cavity)

_check_terminal_compatibility(c) ==
  {LET v == CavityAt(c, t.at)
       gauge == TypeOf(c, t.wire).gauge
   IN Check("terminal_compatibility", <<t.wire.id, t.end>>,
        Status(\/ v.accepts # None /\ gauge \notin v.accepts[1]..v.accepts[2]
               \/ None \notin {t.terminal, v.terminal} /\ t.terminal # v.terminal,
               v.accepts = None \/ None \in {t.terminal, v.terminal})) :
     t \in Terminations(c)}

_condition(c, terminal, gauge) ==
  {k \in c.crimp_conditions : k.terminal = terminal /\ k.gauge = gauge}

\* (wire end, status) for every connector termination.
crimp_findings(c) ==
  {<<t.wire.id, t.end,
     IF t.terminal = None THEN "unknown"
       ELSE Status(_condition(c, t.terminal, TypeOf(c, t.wire).gauge) = {}, FALSE)>> :
     t \in Terminations(c)}

\* The table is opt-in.
_check_crimp_conditions(c) ==
  IF c.crimp_conditions = {} THEN {}
    ELSE {Check("crimp_conditions", <<f[1], f[2]>>, f[3]) : f \in crimp_findings(c)}

_check_housing_compatibility(c) ==
  {Check("housing_compatibility", <<k.id>>,
     Status(k.mate # None /\ k.housing \in {None, k.mate},
            /\ k.mate = None /\ k.housing = None
            /\ \E v \in k.cavities : v.terminal # None)) : k \in c.connectors}

Highest(S) == Max({0} \union S)

\* Connectors of one family, housing and size need distinct keys.
Twins(c, k) == {l \in c.connectors :
                  /\ <<l.family, l.housing>> = <<k.family, k.housing>>
                  /\ Cardinality(l.cavities) = Cardinality(k.cavities)}

_check_connector_rating(c) ==
  {Check("connector_rating", <<k.id>>,
     Status(\/ Highest({NetOf(c, w).current : w \in WiresAt(c, k.id)}) > k.current
            \/ Highest({NetOf(c, w).voltage : w \in WiresAt(c, k.id)}) > k.voltage
            \/ k.count # None /\ Cardinality(k.cavities) > k.count
            \/ c.mating # None /\ c.mating > k.mating
            \/ k.temperature # None /\ c.ambient > k.temperature, FALSE)) :
     k \in c.connectors}
  \union
  {LET keys == {l.keying : l \in Twins(c, k)}
   IN Check("connector_rating", <<"keying", k.family>>,
        IF None \in keys THEN "unknown"
          ELSE Status(Cardinality(keys) < Cardinality(Twins(c, k)), FALSE)) :
     k \in {l \in c.connectors : Cardinality(Twins(c, l)) > 1}}

-----------------------------------------------------------------------------
(* Routes and the mechanical envelope.                                     *)

MechSources(c) == {s \in Elems(c.imported_sources) : s.system = "mech"}

_check_anchor_resolution(c) ==
  LET declared == UNION {Elems(r.anchors) : r \in c.routes}
      available == UNION {Elems(s.anchors) : s \in Elems(c.imported_sources)}
  IN {Check("anchor_resolution", <<>>,
        IF declared # {} /\ MechSources(c) = {} THEN "unknown"
          ELSE Status(~(declared \subseteq available), FALSE))}

\* How long a route is after each of its segments.
Lengths(r) ==
  LET sum[i \in 0..Len(r.segments)] == IF i = 0 THEN 0 ELSE sum[i - 1] + r.segments[i].length
  IN sum

\* Python's sum keeps what rounding loses until the end.
route_length_mm(r) == Float(Float(Lengths(r)[Len(r.segments)]) * 1000)

_check_route_fit(c) ==
  {Check("route_fit", <<w.id>>,
     Status(Float(w.length * 1000) < route_length_mm(route_map(c, w.route)), FALSE)) :
     w \in {v \in c.wires : v.route # None}}

Placed(c, r) == \A name \in Elems(r.anchors) : anchor_map(c, name) # None
Spanning(c) == {r \in c.routes : Len(r.anchors) >= 2}

\* The straight runs between a route's anchors.
Runs(c, r) ==
  {<<anchor_map(c, r.anchors[i]), anchor_map(c, r.anchors[i + 1])>> :
     i \in 1..(Len(r.anchors) - 1)}

\* Anchors are where all distances are whole.
Dist(a, b) ==
  CHOOSE n \in 0..1000 : n * n = (a[1] - b[1]) * (a[1] - b[1])
    + (a[2] - b[2]) * (a[2] - b[2]) + (a[3] - b[3]) * (a[3] - b[3])
Span(c, r) ==
  FoldLeft(LAMBDA n, i : n + Dist(anchor_map(c, r.anchors[i]), anchor_map(c, r.anchors[i + 1])),
           0, [i \in 1..(Len(r.anchors) - 1) |-> i])

_check_route_geometry(c) ==
  {Check("route_geometry", <<r.id>>,
     IF Placed(c, r) THEN Status(route_length_mm(r) < Span(c, r), FALSE) ELSE "unknown") :
     r \in Spanning(c)}

\* Fractions as <<numerator, positive denominator>>.
Less(p, q) == p[1] * q[2] < q[1] * p[2]
Over(n, d) == IF d > 0 THEN <<n, d>> ELSE <<-n, -d>>
Larger(p, q) == IF Less(p, q) THEN q ELSE p
Smaller(p, q) == IF Less(p, q) THEN p ELSE q

\* Where the run a-b is between the faces of one axis: an interval of the
\* run's parameter, empty when it never is.
Within(a, b, lo, hi) ==
  LET d == b - a
      p == Over(lo - a, d)  q == Over(hi - a, d)
  IN CASE d # 0 -> <<Smaller(p, q), Larger(p, q)>>
       [] d = 0 /\ lo < a /\ a < hi -> <<<<0, 1>>, <<1, 1>>>>
       [] OTHER -> <<<<1, 1>>, <<0, 1>>>>

\* Faces that are only touched count.
_segment_enters_boxTouching(a, b, box) ==
  LET on(axis) == Within(a[axis], b[axis], box.lo[axis], box.hi[axis])
      t0 == Larger(Larger(Larger(<<0, 1>>, on(1)[1]), on(2)[1]), on(3)[1])
      t1 == Smaller(Smaller(Smaller(<<1, 1>>, on(1)[2]), on(2)[2]), on(3)[2])
  IN ~Less(t1, t0)

_segment_enters_box(a, b, box) ==
  LET on(axis) == Within(a[axis], b[axis], box.lo[axis], box.hi[axis])
      t0 == Larger(Larger(Larger(<<0, 1>>, on(1)[1]), on(2)[1]), on(3)[1])
      t1 == Smaller(Smaller(Smaller(<<1, 1>>, on(1)[2]), on(2)[2]), on(3)[2])
  IN Less(t0, t1)

_check_route_keepout(c) ==
  LET mech == MechSources(c)
      boxes == UNION {s.keepouts : s \in mech}
  IN {Check("route_keepout", <<r.id>>,
        IF mech = {} \/ (\E s \in mech : s.keepouts = None) \/ ~Placed(c, r)
          THEN "unknown"
          ELSE Status(\E run \in Runs(c, r), b \in boxes :
                        _segment_enters_box(run[1], run[2], b), FALSE)) :
        r \in Spanning(c)}

-----------------------------------------------------------------------------
(* What the contract was copied from.  files is what the paths hold now,   *)
(* None where nothing can be read; mech's decision log is not in reach.    *)

_check_import_freshness(c, files) ==
  {Check("import_freshness", <<s.id>>,
     IF files[s.ref] = None THEN "unknown" ELSE Status(files[s.ref] # s.sha256, FALSE)) :
     s \in {t \in Elems(c.imported_sources) : t.sha256 # None}}

_check_import_provenance(c, files) ==
  {Check("import_provenance", <<s.id>>, check_envelope(s.ref, "mech", s.sha256, files, None)) :
     s \in {t \in MechSources(c) : t.sha256 # None}}

\* The checks of the contract and its imports; the ones of the exported
\* bundle and of the simulation are other.
run_gates(c, files, other) ==
  UNION {_check_connectivity(c), _check_cavity_occupancy(c), _check_splice_integrity(c),
         _check_netlist_coverage(c), _check_shielding_pairing(c), _ampacity_details(c),
         _check_voltage_drop(c), _check_insulation_rating(c), _check_bend_radius(c),
         _check_segregation(c), _check_terminal_compatibility(c),
         _check_crimp_conditions(c), _check_connector_rating(c),
         _check_housing_compatibility(c), _check_anchor_resolution(c),
         _check_route_geometry(c), _check_route_keepout(c), _check_route_fit(c),
         _check_import_freshness(c, files), _check_import_provenance(c, files), other}

\* pass only when nothing failed and nothing is unknown
Verdict(checks) == IF \A k \in checks : k.status = "pass" THEN "pass" ELSE "fail"
=============================================================================
