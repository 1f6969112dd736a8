---------------------------- MODULE Design_proofs ----------------------------
(***************************************************************************)
(* Proofs about Design, for any drafts, sources and numbers of imports: a  *)
(* wire that is added makes no gate pass that failed, a ready intake keeps *)
(* its ground, the groups of the continuity table are what the wires join, the *)
(* tables and the gates agree, what is imported can be traced, and the     *)
(* keep-out gate finds what enters a box.                                  *)
(***************************************************************************)
EXTENDS Design, SequenceTheorems, FiniteSetTheorems, TLAPS

(* Numbers.                                                                *)

\* A finite set of numbers has a last one: its members from p on are finite
\* sets, and a smallest of them in the order of inclusion is a singleton.
LEMMA HasLast ==
  ASSUME NEW S, IsFiniteSet(S), S \subseteq Nat, S # {}
  PROVE  \E p \in S : \A q \in S : q <= p
<1> DEFINE From(p) == {q \in S : p <= q}
           Tails == {From(p) : p \in S}
<1>1. Tails \subseteq FiniteSubsetsOf(S)
  <2>1. \A p \in S : From(p) \subseteq S /\ IsFiniteSet(From(p)) BY FS_Subset
  <2> QED BY <2>1 DEF FiniteSubsetsOf
<1>2. Tails # {} OBVIOUS
<1>3. IsWellFoundedOn(StrictSubsetOrdering(S), FiniteSubsetsOf(S))
  BY FS_StrictSubsetOrderingWellFounded
<1> HIDE DEF Tails
<1>4. PICK x \in Tails : \A y \in Tails : <<y, x>> \notin StrictSubsetOrdering(S)
  BY <1>1, <1>2, <1>3, WFMin
<1> USE DEF Tails
<1>5. PICK p \in S : x = From(p) BY <1>4
<1>6. ASSUME NEW q \in S, ~(q <= p) PROVE FALSE
  <2>1. PICK y : y = From(q) OBVIOUS
  <2>2. p \in From(p) /\ p \notin From(q) /\ \A z \in From(q) : z \in From(p)
    <3>1. p \in Nat /\ q \in Nat /\ \A z \in S : z \in Nat OBVIOUS
    <3> QED BY <1>6, <3>1
  <2>3. y \in Tails BY <2>1
  <2>4. <<y, x>> \in StrictSubsetOrdering(S) BY <1>5, <2>1, <2>2 DEF StrictSubsetOrdering
  <2> HIDE DEF Tails
  <2> QED BY <1>4, <2>3, <2>4
<1> QED BY <1>6

\* A set of numbers up to n has a first one.
LEMMA HasFirst ==
  ASSUME NEW n \in Nat, NEW S, S \subseteq 1..n, S # {}
  PROVE  \E p \in S : \A q \in S : p <= q
<1> DEFINE Mirrored == {n + 1 - p : p \in S}
<1>1. Mirrored \subseteq 1..n /\ Mirrored # {}
  <2>1. ASSUME NEW p \in S PROVE n + 1 - p \in 1..n
    <3>1. p \in 1..n OBVIOUS
    <3> QED BY <3>1
  <2> QED BY <2>1
<1>2. IsFiniteSet(1..n) BY FS_Interval
<1>3. PICK m \in Mirrored : \A q \in Mirrored : q <= m
  <2>1. IsFiniteSet(Mirrored) /\ Mirrored \subseteq Nat BY <1>1, <1>2, FS_Subset
  <2> HIDE DEF Mirrored
  <2> QED BY <1>1, <2>1, HasLast
<1>4. PICK p \in S : m = n + 1 - p BY <1>3
<1>5. ASSUME NEW q \in S PROVE p <= q
  <2>1. n + 1 - q <= m BY <1>3
  <2>2. p \in Nat /\ q \in Nat BY <1>4
  <2> QED BY <1>4, <2>1, <2>2
<1> QED BY <1>5

\* The greatest of more numbers is no less.
LEMMA HighestGrows ==
  ASSUME NEW B, IsFiniteSet(B), B \subseteq Nat, NEW A, A \subseteq B
  PROVE  Highest(A) \in Nat /\ Highest(B) \in Nat /\ Highest(A) <= Highest(B)
<1>1. ASSUME NEW S, IsFiniteSet(S), S \subseteq Nat
      PROVE  Highest(S) \in {0} \union S /\ \A y \in {0} \union S : y <= Highest(S)
  <2>1. PICK T : T = {0} \union S OBVIOUS
  <2>2. IsFiniteSet(T) BY <1>1, <2>1, FS_AddElement
  <2>3. T \subseteq Nat /\ T # {} BY <1>1, <2>1
  <2>4. PICK p \in T : \A q \in T : q <= p BY <2>2, <2>3, HasLast
  <2>5. \A q \in T : p >= q BY <2>3, <2>4
  <2>6. Max(T) \in T /\ \A y \in T : Max(T) >= y BY <2>5 DEF Max
  <2>7. \A y \in T : y <= Max(T) BY <2>3, <2>6
  <2> QED BY <2>1, <2>6, <2>7 DEF Highest
<1>2. IsFiniteSet(A) /\ A \subseteq Nat BY FS_Subset
<1>3. Highest(A) \in {0} \union A BY <1>1, <1>2
<1>4. Highest(B) \in {0} \union B /\ \A y \in {0} \union B : y <= Highest(B) BY <1>1
<1>5. PICK a, b : a = Highest(A) /\ b = Highest(B) OBVIOUS
<1>6. a \in Nat /\ b \in Nat /\ a \in {0} \union B
  <2>1. a \in {0} \union A /\ b \in {0} \union B BY <1>3, <1>4, <1>5
  <2> QED BY <1>2, <2>1
<1>7. a <= b BY <1>4, <1>5, <1>6
<1> QED BY <1>5, <1>6, <1>7

\* What a finite set is mapped to is finite.
LEMMA ImageFinite ==
  ASSUME NEW W, IsFiniteSet(W), NEW f, DOMAIN f = W, NEW T, T = {f[w] : w \in W},
         f \in [W -> T]
  PROVE  IsFiniteSet(T)
<1>1. f \in Surjection(W, T) BY DEF Surjection
<1> QED BY <1>1, FS_Surjection

-----------------------------------------------------------------------------
(* A contract and the same with fewer wires.                               *)

Grown(d, c) ==
  /\ d.wires \subseteq c.wires
  /\ d.connectors = c.connectors /\ d.wire_types = c.wire_types /\ d.nets = c.nets
  /\ d.routes = c.routes /\ d.splices = c.splices /\ d.crimp_conditions = c.crimp_conditions
  /\ d.segregations = c.segregations /\ d.mating = c.mating /\ d.ambient = c.ambient

LEMMA WithoutIsLess ==
  ASSUME NEW c, load_contract(c), NEW w
  PROVE  Grown(Without(c, w), c)
<1>1. DOMAIN c = HarnessContract BY DEF load_contract
<1> QED BY <1>1 DEF Grown, Without, HarnessContract

\* Not all of the checks pass.
Bad(checks) == \E k \in checks : k.status # "pass"

LEMMA CheckStatus == \A gate, subject, status : Check(gate, subject, status).status = status
BY DEF Check

LEMMA PassesNot == \A checks : ~Passes(checks) <=> Bad(checks)
BY DEF Passes, Verdict, Bad

\* What a wire names is in the contract.
LEMMA Named ==
  ASSUME NEW c, load_contract(c), NEW w \in c.wires
  PROVE  /\ TypeOf(c, w) \in c.wire_types /\ WireTypeOK(TypeOf(c, w))
         /\ NetOf(c, w) \in c.nets /\ HarnessNetOK(NetOf(c, w))
<1>1. w.wire_type \in Ids(c.wire_types) /\ w.net \in Ids(c.nets)
  BY DEF load_contract, validate_contract
<1>2. TypeOf(c, w) \in c.wire_types BY <1>1 DEF TypeOf, wire_type_map, ById, Ids
<1>3. NetOf(c, w) \in c.nets BY <1>1 DEF NetOf, net_map, ById, Ids
<1> QED BY <1>2, <1>3 DEF load_contract

LEMMA SameNamed ==
  ASSUME NEW c, NEW d, Grown(d, c)
  PROVE  \A w : TypeOf(d, w) = TypeOf(c, w) /\ NetOf(d, w) = NetOf(c, w)
BY DEF Grown, TypeOf, NetOf, wire_type_map, net_map

LEMMA FiniteWires ==
  ASSUME NEW c, load_contract(c)
  PROVE  IsFiniteSet(c.wires)
BY DEF load_contract, validate_contract

LEMMA FewerEnds ==
  ASSUME NEW c, NEW d, Grown(d, c)
  PROVE  Terminations(d) \subseteq Terminations(c)
BY DEF Grown, Terminations, Ends

-----------------------------------------------------------------------------
(* Gate by gate.                                                           *)

LEMMA ConnectivityStays ==
  ASSUME NEW c, NEW d, Grown(d, c), Bad(_check_connectivity(d))
  PROVE  Bad(_check_connectivity(c))
<1>1. \A e : EndpointKnown(d, e) = EndpointKnown(c, e) BY DEF Grown, EndpointKnown
<1>2. PICK w \in d.wires : \/ ~EndpointKnown(d, w.from) \/ ~EndpointKnown(d, w.to)
                           \/ (w.route # None /\ w.route \notin Ids(d.routes)) \/ w.from = w.to
  BY CheckStatus DEF Bad, _check_connectivity, Status
<1>3. w \in c.wires /\ (\/ ~EndpointKnown(c, w.from) \/ ~EndpointKnown(c, w.to)
                        \/ (w.route # None /\ w.route \notin Ids(c.routes)) \/ w.from = w.to)
  BY <1>1, <1>2 DEF Grown
<1> QED BY <1>3, CheckStatus DEF Bad, _check_connectivity, Status

LEMMA OccupancyStays ==
  ASSUME NEW c, NEW d, Grown(d, c), Bad(_check_cavity_occupancy(d))
  PROVE  Bad(_check_cavity_occupancy(c))
<1>1. PICK t, u \in Terminations(d) : t # u /\ t.at = u.at
  BY CheckStatus DEF Bad, _check_cavity_occupancy, Status
<1>2. t \in Terminations(c) /\ u \in Terminations(c) BY <1>1, FewerEnds
<1> QED BY <1>1, <1>2, CheckStatus DEF Bad, _check_cavity_occupancy, Status

LEMMA DropStays ==
  ASSUME NEW c, NEW d, Grown(d, c), Bad(_check_voltage_drop(d))
  PROVE  Bad(_check_voltage_drop(c))
<1>1. PICK k \in _check_voltage_drop(d) : k.status # "pass" BY DEF Bad
<1>2. PICK w \in d.wires : k = Check("voltage_drop", <<w.id>>, _voltage_drop(d, w))
  BY <1>1 DEF _check_voltage_drop
<1>3. PICK n, r : n = NetOf(c, w) /\ r = TypeOf(c, w).resistance OBVIOUS
<1>4. NetOf(d, w) = n /\ TypeOf(d, w).resistance = r BY <1>3, SameNamed
<1>5. _voltage_drop(c, w) = _voltage_drop(d, w) BY <1>3, <1>4 DEF _voltage_drop
<1>6. w \in c.wires BY <1>2 DEF Grown
<1>7. k \in _check_voltage_drop(c) BY <1>2, <1>5, <1>6 DEF _check_voltage_drop
<1> QED BY <1>1, <1>7 DEF Bad

LEMMA TerminalStays ==
  ASSUME NEW c, NEW d, Grown(d, c), Bad(_check_terminal_compatibility(d))
  PROVE  Bad(_check_terminal_compatibility(c))
<1>1. PICK k \in _check_terminal_compatibility(d) : k.status # "pass" BY DEF Bad
<1>2. ASSUME NEW t \in Terminations(d)
      PROVE  /\ t \in Terminations(c) /\ CavityAt(d, t.at) = CavityAt(c, t.at)
             /\ TypeOf(d, t.wire) = TypeOf(c, t.wire)
  BY FewerEnds, SameNamed DEF Grown, CavityAt, connector_map
<1>3. k \in _check_terminal_compatibility(c) BY <1>1, <1>2 DEF _check_terminal_compatibility
<1> QED BY <1>1, <1>3 DEF Bad

LEMMA CrimpStays ==
  ASSUME NEW c, NEW d, Grown(d, c), Bad(_check_crimp_conditions(d))
  PROVE  Bad(_check_crimp_conditions(c))
<1>1. \A terminal, gauge : _condition(d, terminal, gauge) = _condition(c, terminal, gauge)
  BY DEF Grown, _condition
<1>2. ASSUME NEW f \in crimp_findings(d) PROVE f \in crimp_findings(c)
  <2>1. ASSUME NEW t \in Terminations(d)
        PROVE  t \in Terminations(c) /\ TypeOf(d, t.wire) = TypeOf(c, t.wire)
    BY FewerEnds, SameNamed
  <2>2. PICK t \in Terminations(d) :
          f = <<t.wire.id, t.end,
                IF t.terminal = None THEN "unknown"
                  ELSE Status(_condition(d, t.terminal, TypeOf(d, t.wire).gauge) = {}, FALSE)>>
    BY <1>2 DEF crimp_findings
  <2>3. PICK gauge : gauge = TypeOf(d, t.wire).gauge OBVIOUS
  <2>4. gauge = TypeOf(c, t.wire).gauge BY <2>1, <2>3
  <2>5. PICK found : found = _condition(d, t.terminal, gauge) OBVIOUS
  <2>6. found = _condition(c, t.terminal, TypeOf(c, t.wire).gauge) BY <1>1, <2>4, <2>5
  <2>7. f = <<t.wire.id, t.end, IF t.terminal = None THEN "unknown" ELSE Status(found = {}, FALSE)>>
    BY <2>2, <2>3, <2>5
  <2> QED BY <2>1, <2>6, <2>7 DEF crimp_findings
<1>3. _check_crimp_conditions(d) \subseteq _check_crimp_conditions(c)
  BY <1>2 DEF _check_crimp_conditions, Grown
<1> QED BY <1>3 DEF Bad

LEMMA FitStays ==
  ASSUME NEW c, NEW d, Grown(d, c), Bad(_check_route_fit(d))
  PROVE  Bad(_check_route_fit(c))
<1>1. PICK k \in _check_route_fit(d) : k.status # "pass" BY DEF Bad
<1>2. \A w \in d.wires : w \in c.wires /\ route_map(d, w.route) = route_map(c, w.route)
  BY DEF Grown, route_map
<1>3. PICK w \in d.wires :
        /\ w.route # None
        /\ k = Check("route_fit", <<w.id>>,
                     IF Float(w.length * 1000) < route_length_mm(route_map(d, w.route)) THEN "fail" ELSE "pass")
  BY <1>1 DEF _check_route_fit, Status
<1>4. PICK n, s : n = route_length_mm(route_map(d, w.route))
                  /\ s = IF Float(w.length * 1000) < n THEN "fail" ELSE "pass"
  OBVIOUS
<1>5. n = route_length_mm(route_map(c, w.route)) BY <1>2, <1>4
<1>6. k = Check("route_fit", <<w.id>>, s) BY <1>3, <1>4
<1>7. k \in _check_route_fit(c) BY <1>2, <1>3, <1>4, <1>5, <1>6 DEF _check_route_fit, Status
<1> QED BY <1>1, <1>7 DEF Bad

LEMMA InsulationStays ==
  ASSUME NEW c, NEW d, Grown(d, c), Bad(_check_insulation_rating(d))
  PROVE  Bad(_check_insulation_rating(c))
<1>1. CASE \E w \in c.wires : TypeOf(c, w).insulation = 0
  <2>1. _check_insulation_rating(c) = {Check("insulation_rating", <<"insulation_rating">>, "unknown")}
    BY <1>1 DEF _check_insulation_rating
  <2> QED BY <2>1, CheckStatus DEF Bad
<1>2. CASE ~\E w \in c.wires : TypeOf(c, w).insulation = 0
  <2>1. ASSUME NEW w \in d.wires
        PROVE  w \in c.wires /\ TypeOf(d, w) = TypeOf(c, w) /\ NetOf(d, w) = NetOf(c, w)
    BY SameNamed DEF Grown
  <2>2. ~\E w \in d.wires : TypeOf(d, w).insulation = 0 BY <1>2, <2>1
  <2>3. PICK k \in _check_insulation_rating(d) : k.status # "pass" BY DEF Bad
  <2>4. k \in _check_insulation_rating(c)
    BY <1>2, <2>1, <2>2, <2>3 DEF _check_insulation_rating, Grown
  <2> QED BY <2>3, <2>4 DEF Bad
<1> QED BY <1>1, <1>2

\* Wires that share a route or a connector are fewer, and so are their classes.
LEMMA FewerTogether ==
  ASSUME NEW c, NEW d, Grown(d, c)
  PROVE  /\ \A r : WiresOn(d, r) \subseteq WiresOn(c, r)
         /\ \A k : WiresAt(d, k) \subseteq WiresAt(c, k)
         /\ \A r : ClassesOf(d, WiresOn(d, r)) \subseteq ClassesOf(c, WiresOn(c, r))
         /\ \A k : ClassesOf(d, WiresAt(d, k)) \subseteq ClassesOf(c, WiresAt(c, k))
<1>1. \A w : NetOf(d, w) = NetOf(c, w) BY SameNamed
<1>2. d.wires \subseteq c.wires BY DEF Grown
<1> QED BY <1>1, <1>2 DEF WiresOn, WiresAt, ClassesOf

LEMMA SegregationStays ==
  ASSUME NEW c, NEW d, Grown(d, c), Bad(_check_segregation(d))
  PROVE  Bad(_check_segregation(c))
<1> DEFINE Route(e, p) ==
             Check("segregation", <<"route">>,
               Status(\E r \in {w.route : w \in e.wires} : p.classes \subseteq ClassesOf(e, WiresOn(e, r)),
                      WiresOn(e, None) # {}))
           Connector(e, p) ==
             Check("segregation", <<"connector">>,
               Status(\E k \in Ids(e.connectors) : p.classes \subseteq ClassesOf(e, WiresAt(e, k)), FALSE))
           Of(e, p) == IF p.rule = "no_shared_route" THEN Route(e, p) ELSE Connector(e, p)
<1>1. \A e : _check_segregation(e) = {Of(e, p) : p \in e.segregations} BY DEF _check_segregation
<1>2. PICK p \in d.segregations : Of(d, p).status # "pass"
  <2> HIDE DEF Of
  <2> QED BY <1>1 DEF Bad
<1>3. p \in c.segregations BY DEF Grown
<1>4. Of(c, p).status # "pass"
  <2>1. CASE p.rule = "no_shared_route"
    <3>1. \/ \E r \in {w.route : w \in d.wires} : p.classes \subseteq ClassesOf(d, WiresOn(d, r))
          \/ WiresOn(d, None) # {}
      BY <1>2, <2>1, CheckStatus DEF Status
    <3>2. \/ \E r \in {w.route : w \in c.wires} : p.classes \subseteq ClassesOf(c, WiresOn(c, r))
          \/ WiresOn(c, None) # {}
      BY <3>1, FewerTogether DEF Grown
    <3>3. Route(c, p).status # "pass" BY <3>2, CheckStatus DEF Status
    <3> QED BY <2>1, <3>3
  <2>2. CASE p.rule # "no_shared_route"
    <3>1. \E k \in Ids(d.connectors) : p.classes \subseteq ClassesOf(d, WiresAt(d, k))
      BY <1>2, <2>2, CheckStatus DEF Status
    <3>2. \E k \in Ids(c.connectors) : p.classes \subseteq ClassesOf(c, WiresAt(c, k))
      BY <3>1, FewerTogether DEF Grown
    <3>3. Connector(c, p).status # "pass" BY <3>2, CheckStatus DEF Status
    <3> QED BY <2>2, <3>3
  <2> QED BY <2>1, <2>2
<1> HIDE DEF Of
<1> QED BY <1>1, <1>3, <1>4 DEF Bad

-----------------------------------------------------------------------------
(* Bundles.                                                                *)

\* A larger bundle is allowed no more.
LEMMA DeratingFalls ==
  ASSUME NEW n \in Nat, NEW m \in Nat, m <= n
  PROVE  /\ bundle_derating(n) \in {100, 80, 70, 60, 55, 50, 45}
         /\ bundle_derating(m) \in {100, 80, 70, 60, 55, 50, 45}
         /\ bundle_derating(n) <= bundle_derating(m)
<1>1. ASSUME NEW k \in Nat
      PROVE  bundle_derating(k) = IF k <= 1 THEN 100 ELSE IF k = 2 THEN 80 ELSE IF k = 3 THEN 70
               ELSE IF k <= 5 THEN 60 ELSE IF k <= 8 THEN 55 ELSE IF k <= 12 THEN 50 ELSE 45
  BY DEF bundle_derating
<1> QED BY <1>1

\* Points of a curve, and the factor between them.
Points == Seq(TemperatureDeratingPoint) \ {<<>>}

LEMMA FactorIsNumber ==
  ASSUME NEW points \in Points, NEW ambient \in Int
  PROVE  /\ temperature_factor(points, ambient)[1] \in Int
         /\ temperature_factor(points, ambient)[2] \in Int
<1>1. PICK n : n = Len(points) OBVIOUS
<1>2. n \in Nat \ {0} /\ DOMAIN points = 1..n
  BY <1>1, EmptySeq, LenProperties DEF Points
<1>3. \A i \in 1..n : points[i][1] \in Int /\ points[i][2] \in Int
  <2>1. points \in [1..n -> TemperatureDeratingPoint]
    BY <1>1, LenProperties DEF Points
  <2>2. ASSUME NEW p \in TemperatureDeratingPoint PROVE p[1] \in Int /\ p[2] \in Int
    BY DEF TemperatureDeratingPoint
  <2> QED BY <2>1, <2>2
<1>4. 1 \in 1..n /\ n \in 1..n BY <1>2
<1> DEFINE around == {i \in 1..(n - 1) : points[i][1] <= ambient /\ ambient <= points[i + 1][1]}
<1>5. CASE ambient < points[1][1]
  <2>1. temperature_factor(points, ambient) = <<points[1][2], 1>>
    BY <1>5 DEF temperature_factor
  <2> QED BY <1>3, <1>4, <2>1
<1>6. CASE ~(ambient < points[1][1]) /\ around = {}
  <2>1. temperature_factor(points, ambient) = <<points[n][2], 1>>
    BY <1>1, <1>6 DEF temperature_factor
  <2> QED BY <1>3, <1>4, <2>1
<1>7. CASE ~(ambient < points[1][1]) /\ around # {}
  <2>1. PICK first \in around : \A q \in around : first <= q
    <3>1. around \subseteq 1..n BY <1>2
    <3> HIDE DEF around
    <3> QED BY <1>2, <1>7, <3>1, HasFirst
  <2>2. PICK i : i = Min(around) OBVIOUS
  <2>3. i \in around BY <2>1, <2>2 DEF Min
  <2>4. i \in 1..n /\ i + 1 \in 1..n BY <1>2, <2>3
  <2>5. PICK t0, f0, t1, f1 : /\ t0 = points[i][1] /\ f0 = points[i][2]
                              /\ t1 = points[i + 1][1] /\ f1 = points[i + 1][2]
    OBVIOUS
  <2>6. t0 \in Int /\ f0 \in Int /\ t1 \in Int /\ f1 \in Int BY <1>3, <2>4, <2>5
  <2>7. temperature_factor(points, ambient) =
          <<f0 * (t1 - t0) + (f1 - f0) * (ambient - t0), t1 - t0>>
    BY <1>1, <1>7, <2>2, <2>5 DEF temperature_factor
  <2>8. f0 * (t1 - t0) + (f1 - f0) * (ambient - t0) \in Int /\ t1 - t0 \in Int BY <2>6
  <2> QED BY <2>7, <2>8
<1> QED BY <1>5, <1>6, <1>7

LEMMA CurveIsOfPoints ==
  ASSUME NEW t, WireTypeOK(t), Curve(t) # <<>>
  PROVE  Curve(t) \in Points
<1>1. CASE t.derating # <<>>
  BY <1>1 DEF Curve, WireTypeOK, Points
<1>2. CASE t.derating = <<>>
  <2>1. \A P : \A p, q, r, s \in P : <<p, q, r, s>> \in Seq(P) /\ <<p, q, r>> \in Seq(P)
    OBVIOUS
  <2>2. <<<<80, 100>>, <<90, 85>>, <<100, 65>>, <<105, 0>>>> \in Seq(TemperatureDeratingPoint)
    <3>1. <<80, 100>> \in TemperatureDeratingPoint BY DEF TemperatureDeratingPoint
    <3>2. <<90, 85>> \in TemperatureDeratingPoint BY DEF TemperatureDeratingPoint
    <3>3. <<100, 65>> \in TemperatureDeratingPoint BY DEF TemperatureDeratingPoint
    <3>4. <<105, 0>> \in TemperatureDeratingPoint BY DEF TemperatureDeratingPoint
    <3> QED BY <2>1, <3>1, <3>2, <3>3, <3>4
  <2>3. <<<<105, 100>>, <<115, 75>>, <<125, 0>>>> \in Seq(TemperatureDeratingPoint)
    <3>1. <<105, 100>> \in TemperatureDeratingPoint BY DEF TemperatureDeratingPoint
    <3>2. <<115, 75>> \in TemperatureDeratingPoint BY DEF TemperatureDeratingPoint
    <3>3. <<125, 0>> \in TemperatureDeratingPoint BY DEF TemperatureDeratingPoint
    <3> QED BY <2>1, <3>1, <3>2, <3>3
  <2>4. <<<<125, 100>>, <<135, 75>>, <<150, 0>>>> \in Seq(TemperatureDeratingPoint)
    <3>1. <<125, 100>> \in TemperatureDeratingPoint BY DEF TemperatureDeratingPoint
    <3>2. <<135, 75>> \in TemperatureDeratingPoint BY DEF TemperatureDeratingPoint
    <3>3. <<150, 0>> \in TemperatureDeratingPoint BY DEF TemperatureDeratingPoint
    <3> QED BY <2>1, <3>1, <3>2, <3>3
  <2>5. SPEC_DERATING(t.spec) = <<>> \/ SPEC_DERATING(t.spec) \in Seq(TemperatureDeratingPoint)
    BY <2>2, <2>3, <2>4 DEF SPEC_DERATING
  <2> QED BY <1>2, <2>5 DEF Curve, Points
<1> QED BY <1>1, <1>2

\* Less of a positive limit is exceeded by what exceeds the limit.
LEMMA LimitFalls ==
  ASSUME NEW x \in Int, NEW f \in Int, f > 0,
         NEW a \in {100, 80, 70, 60, 55, 50, 45}, NEW b \in {100, 80, 70, 60, 55, 50, 45},
         b <= a, x > f * a
  PROVE  x > f * b
<1>1. f * 45 <= f * 50 /\ f * 50 <= f * 55 /\ f * 55 <= f * 60 /\ f * 60 <= f * 70
      /\ f * 70 <= f * 80 /\ f * 80 <= f * 100
  OBVIOUS
<1> QED BY <1>1

LEMMA AmpacityStays ==
  ASSUME NEW c, load_contract(c), NEW d, Grown(d, c), Bad(_ampacity_details(d))
  PROVE  Bad(_ampacity_details(c))
<1>1. PICK w \in d.wires : _ampacity(d, w) # "pass"
  <2>1. PICK k \in _ampacity_details(d) : k.status # "pass" BY DEF Bad
  <2>2. PICK w \in d.wires : k = Check("ampacity", <<w.id>>, _ampacity(d, w))
    BY <2>1 DEF _ampacity_details
  <2>3. k.status = _ampacity(d, w) BY <2>2, CheckStatus
  <2> QED BY <2>1, <2>3
<1>2. w \in c.wires BY DEF Grown
<1>3. PICK t : t = TypeOf(c, w) OBVIOUS
<1>4. WireTypeOK(t) /\ HarnessNetOK(NetOf(c, w)) BY <1>2, <1>3, Named
<1>5. PICK curve : curve = Curve(t) OBVIOUS
<1>6. PICK factor : factor = IF curve = <<>> THEN <<100, 1>> ELSE temperature_factor(curve, c.ambient)
  OBVIOUS
<1>7. PICK x, y : x = factor[1] /\ y = factor[2] OBVIOUS
<1>8. x \in Int /\ y \in Int
  <2>1. CASE curve = <<>> BY <1>6, <1>7, <2>1
  <2>2. CASE curve # <<>>
    <3>1. c.ambient \in Int BY DEF load_contract
    <3>2. curve \in Points BY <1>4, <1>5, <2>2, CurveIsOfPoints
    <3> QED BY <1>6, <1>7, <2>2, <3>1, <3>2, FactorIsNumber
  <2> QED BY <2>1, <2>2
<1>9. PICK many, few : many = Cardinality(WiresOn(c, w.route)) /\ few = Cardinality(WiresOn(d, w.route))
  OBVIOUS
<1>10. many \in Nat /\ few \in Nat /\ few <= many
  <2>1. WiresOn(d, w.route) \subseteq WiresOn(c, w.route) BY FewerTogether
  <2>2. IsFiniteSet(WiresOn(c, w.route)) BY FiniteWires, FS_Subset DEF WiresOn
  <2>3. IsFiniteSet(WiresOn(d, w.route)) BY <2>1, <2>2, FS_Subset
  <2> QED BY <1>9, <2>1, <2>2, <2>3, FS_Subset, FS_CardinalityType
<1>11. PICK less, more : less = bundle_derating(many) /\ more = bundle_derating(few) OBVIOUS
<1>12. PICK i, a, amb, ref : i = NetOf(c, w).current /\ a = t.ampacity
                             /\ amb = c.ambient /\ ref = t.reference
  OBVIOUS
<1>13. i \in Nat /\ a \in Nat /\ a > 0
  BY <1>4, <1>12 DEF HarnessNetOK, WireTypeOK, Positive
<1>14. _ampacity(c, w) =
         IF curve = <<>> /\ amb > ref THEN "unknown"
           ELSE IF x <= 0 \/ i * 10000 * y > a * x * less THEN "fail" ELSE "pass"
  BY <1>3, <1>5, <1>6, <1>7, <1>9, <1>11, <1>12 DEF _ampacity, Status
<1>15. _ampacity(d, w) =
         IF curve = <<>> /\ amb > ref THEN "unknown"
           ELSE IF x <= 0 \/ i * 10000 * y > a * x * more THEN "fail" ELSE "pass"
  <2>1. TypeOf(d, w) = t /\ NetOf(d, w).current = i /\ d.ambient = c.ambient
    BY <1>3, <1>12, SameNamed DEF Grown
  <2> QED BY <1>5, <1>6, <1>7, <1>9, <1>11, <1>12, <2>1 DEF _ampacity, Status
<1>16. (curve = <<>> /\ amb > ref) \/ x <= 0 \/ i * 10000 * y > a * x * more
  BY <1>1, <1>15
<1>17. (curve = <<>> /\ amb > ref) \/ x <= 0 \/ i * 10000 * y > a * x * less
  <2>1. SUFFICES ASSUME ~(x <= 0), i * 10000 * y > a * x * more PROVE i * 10000 * y > a * x * less
    BY <1>16
  <2>2. PICK f, g : f = a * x /\ g = i * 10000 * y OBVIOUS
  <2>3. f \in Int /\ g \in Int BY <1>8, <1>13, <2>2
  <2>4. f > 0
    <3>1. x \in Nat \ {0} /\ a \in Nat \ {0} BY <1>8, <1>13, <2>1
    <3> QED BY <2>2, <3>1
  <2>5. /\ less \in {100, 80, 70, 60, 55, 50, 45} /\ more \in {100, 80, 70, 60, 55, 50, 45}
        /\ less <= more
    BY <1>10, <1>11, DeratingFalls
  <2>6. g > f * more BY <2>1, <2>2
  <2>7. g > f * less BY <2>3, <2>4, <2>5, <2>6, LimitFalls
  <2> QED BY <2>2, <2>7
<1>18. _ampacity(c, w) # "pass" BY <1>14, <1>17
<1>19. PICK k : k = Check("ampacity", <<w.id>>, _ampacity(c, w)) OBVIOUS
<1>20. k \in _ampacity_details(c) BY <1>2, <1>19 DEF _ampacity_details
<1>21. k.status # "pass" BY <1>18, <1>19, CheckStatus
<1> QED BY <1>20, <1>21 DEF Bad

LEMMA BendStays ==
  ASSUME NEW c, load_contract(c), NEW d, Grown(d, c), Bad(_check_bend_radius(d))
  PROVE  Bad(_check_bend_radius(c))
<1> DEFINE Uncovered(e) == {Check("bend_radius", <<"route coverage">>, "unknown") : w \in WiresOn(e, None)}
           Stiff(e) == {q \in e.routes : q.flex /\ \E w \in WiresOn(e, q.id) : TypeOf(e, w).flex = "static"}
           Flexed(e) == {Check("bend_radius", <<r.id>>, "fail") : r \in Stiff(e)}
           Bend(e, r, s) == Check("bend_radius", <<r.id, s.id>>,
             IF s.bend = None THEN "unknown" ELSE Status(s.bend < Required(e, r), FALSE))
           Bent(e) == UNION {{Bend(e, r, s) : s \in Elems(r.segments)} : r \in e.routes}
<1>1. \A e : _check_bend_radius(e) = Uncovered(e) \union Flexed(e) \union Bent(e)
  BY DEF _check_bend_radius
<1>2. \A r : WiresOn(d, r) \subseteq WiresOn(c, r) BY FewerTogether
<1>3. \A w : TypeOf(d, w) = TypeOf(c, w) BY SameNamed
<1>4. PICK k : k \in _check_bend_radius(d) /\ k.status # "pass" BY DEF Bad
<1>5. CASE k \in Uncovered(d)
  <2>1. k \in Uncovered(c) BY <1>2, <1>5
  <2> HIDE DEF Uncovered, Flexed, Bent
  <2> QED BY <1>1, <1>4, <2>1 DEF Bad
<1>6. CASE k \in Flexed(d)
  <2>1. Stiff(d) \subseteq Stiff(c) BY <1>2, <1>3 DEF Grown
  <2> HIDE DEF Stiff
  <2>2. k \in Flexed(c) BY <1>6, <2>1
  <2> HIDE DEF Uncovered, Flexed, Bent
  <2> QED BY <1>1, <1>4, <2>2 DEF Bad
<1>7. CASE k \in Bent(d)
  <2>1. PICK r \in c.routes : \E s \in Elems(r.segments) : k = Bend(d, r, s)
    BY <1>7 DEF Grown
  <2>2. PICK s \in Elems(r.segments) : k = Bend(d, r, s) BY <2>1
  <2>3. PICK more, less : more = Required(c, r) /\ less = Required(d, r) OBVIOUS
  <2>4. more \in Int /\ less \in Int /\ less <= more
    <3> DEFINE f(w) == TypeOf(c, w).bend * TypeOf(c, w).diameter
               Of(W) == {f(w) : w \in W}
    <3>1. IsFiniteSet(Of(WiresOn(c, r.id)))
      <4>1. IsFiniteSet(WiresOn(c, r.id)) BY FiniteWires, FS_Subset DEF WiresOn
      <4>2. PICK W, T : W = WiresOn(c, r.id) /\ T = Of(W) OBVIOUS
      <4>3. PICK g : g = [w \in W |-> f(w)] OBVIOUS
      <4> HIDE DEF f
      <4>4. DOMAIN g = W /\ T = {g[w] : w \in W} /\ g \in [W -> T] BY <4>2, <4>3
      <4> QED BY <4>1, <4>2, <4>4, ImageFinite
    <3>2. Of(WiresOn(c, r.id)) \subseteq Nat
      <4>1. ASSUME NEW w \in WiresOn(c, r.id) PROVE f(w) \in Nat
        <5>1. WireTypeOK(TypeOf(c, w)) BY Named DEF WiresOn
        <5>2. PICK b, m : b = TypeOf(c, w).bend /\ m = TypeOf(c, w).diameter OBVIOUS
        <5>3. b \in Nat /\ m \in Nat BY <5>1, <5>2 DEF WireTypeOK, Positive
        <5> QED BY <5>2, <5>3
      <4> HIDE DEF f
      <4> QED BY <4>1
    <3>3. Required(c, r) = Highest(Of(WiresOn(c, r.id))) BY DEF Required, Highest
    <3>4. Required(d, r) = Highest(Of(WiresOn(d, r.id)))
      <4>1. PICK W : W = WiresOn(d, r.id) OBVIOUS
      <4>2. {TypeOf(d, w).bend * TypeOf(d, w).diameter : w \in W} = Of(W) BY <1>3
      <4> HIDE DEF Of
      <4> QED BY <4>1, <4>2 DEF Required, Highest
    <3>5. Of(WiresOn(d, r.id)) \subseteq Of(WiresOn(c, r.id)) BY <1>2
    <3> HIDE DEF Of
    <3> QED BY <2>3, <3>1, <3>2, <3>3, <3>4, <3>5, HighestGrows
  <2>5. k.status = IF s.bend = None THEN "unknown" ELSE IF s.bend < less THEN "fail" ELSE "pass"
    BY <2>2, <2>3, CheckStatus DEF Status
  <2>6. PICK h : h = Bend(c, r, s) OBVIOUS
  <2>7. h.status = IF s.bend = None THEN "unknown" ELSE IF s.bend < more THEN "fail" ELSE "pass"
    BY <2>3, <2>6, CheckStatus DEF Status
  <2>8. s.bend # None => s.bend \in Int
    <3>1. HarnessRouteOK(r) BY <2>1 DEF load_contract
    <3>2. RouteSegmentOK(s) BY <2>2, <3>1 DEF HarnessRouteOK
    <3> QED BY <3>2 DEF RouteSegmentOK, Positive
  <2>9. h.status # "pass"
    <3>1. PICK b : b = s.bend OBVIOUS
    <3> QED BY <1>4, <2>4, <2>5, <2>7, <2>8, <3>1
  <2>10. h \in Bent(c)
    <3> HIDE DEF Bend
    <3> QED BY <2>1, <2>2, <2>6
  <2> HIDE DEF Uncovered, Flexed, Bent
  <2> QED BY <1>1, <2>9, <2>10 DEF Bad
<1> HIDE DEF Uncovered, Flexed, Bent
<1> QED BY <1>1, <1>4, <1>5, <1>6, <1>7

LEMMA RatingStays ==
  ASSUME NEW c, load_contract(c), NEW d, Grown(d, c), Bad(_check_connector_rating(d))
  PROVE  Bad(_check_connector_rating(c))
<1> DEFINE Rating(e, k) ==
             Check("connector_rating", <<k.id>>,
               Status(\/ Highest({NetOf(e, w).current : w \in WiresAt(e, k.id)}) > k.current
                      \/ Highest({NetOf(e, w).voltage : w \in WiresAt(e, k.id)}) > k.voltage
                      \/ k.count # None /\ Cardinality(k.cavities) > k.count
                      \/ e.mating # None /\ e.mating > k.mating
                      \/ k.temperature # None /\ e.ambient > k.temperature, FALSE))
           Ratings(e) == {Rating(e, k) : k \in e.connectors}
           Of(k, twins) ==
             LET keys == {l.keying : l \in twins}
             IN Check("connector_rating", <<"keying", k.family>>,
                  IF None \in keys THEN "unknown"
                    ELSE Status(Cardinality(keys) < Cardinality(twins), FALSE))
           Keying(e) == {Of(k, Twins(e, k)) : k \in {l \in e.connectors : Cardinality(Twins(e, l)) > 1}}
<1>1. \A e : _check_connector_rating(e) = Ratings(e) \union Keying(e)
  BY DEF _check_connector_rating
<1>2. PICK k : k \in _check_connector_rating(d) /\ k.status # "pass" BY DEF Bad
<1>3. CASE k \in Keying(d)
  <2>1. \A l : Twins(d, l) = Twins(c, l) BY DEF Grown, Twins
  <2>2. Keying(d) = Keying(c)
    <3> HIDE DEF Of
    <3> QED BY <2>1 DEF Grown
  <2> HIDE DEF Ratings, Keying
  <2> QED BY <1>1, <1>2, <1>3, <2>2 DEF Bad
<1>4. CASE k \in Ratings(d)
  <2>1. PICK n \in c.connectors : k = Rating(d, n) BY <1>4 DEF Grown
  <2>2. PICK W, V : W = WiresAt(c, n.id) /\ V = WiresAt(d, n.id) OBVIOUS
  <2>3. IsFiniteSet(W) /\ V \subseteq W /\ W \subseteq c.wires
    <3>1. IsFiniteSet(W) BY <2>2, FiniteWires, FS_Subset DEF WiresAt
    <3>2. V \subseteq W BY <2>2, FewerTogether
    <3> QED BY <2>2, <3>1, <3>2 DEF WiresAt
  <2> DEFINE Currents(U) == {NetOf(c, w).current : w \in U}
             Voltages(U) == {NetOf(c, w).voltage : w \in U}
  <2>4. PICK ci, di, cu, du : /\ ci = Highest(Currents(W)) /\ di = Highest(Currents(V))
                              /\ cu = Highest(Voltages(W)) /\ du = Highest(Voltages(V))
    OBVIOUS
  <2>5. \A w \in W : NetOf(c, w).current \in Nat /\ NetOf(c, w).voltage \in Nat
    <3>1. \A w \in W : HarnessNetOK(NetOf(c, w)) BY <2>3, Named
    <3> QED BY <3>1 DEF HarnessNetOK
  <2>6. ci \in Nat /\ di \in Nat /\ di <= ci
    <3>1. Currents(W) \subseteq Nat /\ Currents(V) \subseteq Currents(W) BY <2>3, <2>5
    <3>2. IsFiniteSet(Currents(W))
      <4>1. PICK T, g : T = Currents(W) /\ g = [w \in W |-> NetOf(c, w).current] OBVIOUS
      <4>2. DOMAIN g = W /\ T = {g[w] : w \in W} /\ g \in [W -> T] BY <4>1
      <4> QED BY <2>3, <4>1, <4>2, ImageFinite
    <3> HIDE DEF Currents
    <3> QED BY <2>4, <3>1, <3>2, HighestGrows
  <2>7. cu \in Nat /\ du \in Nat /\ du <= cu
    <3>1. Voltages(W) \subseteq Nat /\ Voltages(V) \subseteq Voltages(W) BY <2>3, <2>5
    <3>2. IsFiniteSet(Voltages(W))
      <4>1. PICK T, g : T = Voltages(W) /\ g = [w \in W |-> NetOf(c, w).voltage] OBVIOUS
      <4>2. DOMAIN g = W /\ T = {g[w] : w \in W} /\ g \in [W -> T] BY <4>1
      <4> QED BY <2>3, <4>1, <4>2, ImageFinite
    <3> HIDE DEF Voltages
    <3> QED BY <2>4, <3>1, <3>2, HighestGrows
  <2>8. n.current \in Nat /\ n.voltage \in Nat
    <3>1. HarnessConnectorOK(n) BY <2>1 DEF load_contract
    <3> QED BY <3>1 DEF HarnessConnectorOK, Positive
  <2>9. /\ {NetOf(d, w).current : w \in WiresAt(d, n.id)} = Currents(V)
        /\ {NetOf(d, w).voltage : w \in WiresAt(d, n.id)} = Voltages(V)
    BY <2>2, SameNamed
  <2>10. d.mating = c.mating /\ d.ambient = c.ambient BY DEF Grown
  <2> DEFINE Other == \/ n.count # None /\ Cardinality(n.cavities) > n.count
                      \/ c.mating # None /\ c.mating > n.mating
                      \/ n.temperature # None /\ c.ambient > n.temperature
  <2>11. di > n.current \/ du > n.voltage \/ Other
    <3>1. PICK S, T : /\ S = {NetOf(d, w).current : w \in WiresAt(d, n.id)}
                      /\ T = {NetOf(d, w).voltage : w \in WiresAt(d, n.id)}
      OBVIOUS
    <3>2. di = Highest(S) /\ du = Highest(T)
      <4> HIDE DEF Currents, Voltages
      <4> QED BY <2>4, <2>9, <3>1
    <3>3. k.status = Status(\/ di > n.current \/ du > n.voltage
                            \/ n.count # None /\ Cardinality(n.cavities) > n.count
                            \/ d.mating # None /\ d.mating > n.mating
                            \/ n.temperature # None /\ d.ambient > n.temperature, FALSE)
      BY <2>1, <3>1, <3>2, CheckStatus
    <3> QED BY <1>2, <2>10, <3>3 DEF Status
  <2>12. ci > n.current \/ cu > n.voltage \/ Other
    <3> HIDE DEF Currents, Voltages, Other
    <3> QED BY <2>6, <2>7, <2>8, <2>11
  <2>13. PICK h : h = Rating(c, n) OBVIOUS
  <2>14. h.status # "pass"
    <3>1. h.status = Status(\/ ci > n.current \/ cu > n.voltage
                            \/ n.count # None /\ Cardinality(n.cavities) > n.count
                            \/ c.mating # None /\ c.mating > n.mating
                            \/ n.temperature # None /\ c.ambient > n.temperature, FALSE)
      BY <2>2, <2>4, <2>13, CheckStatus
    <3> QED BY <2>12, <3>1 DEF Status
  <2>15. h \in Ratings(c)
    <3> HIDE DEF Rating
    <3> QED BY <2>1, <2>13
  <2> HIDE DEF Ratings, Keying
  <2> QED BY <1>1, <2>14, <2>15 DEF Bad
<1> HIDE DEF Ratings, Keying
<1> QED BY <1>1, <1>2, <1>3, <1>4

-----------------------------------------------------------------------------
(* The specification.                                                      *)

\* Gates for which fewer wires are no worse, together.
LEMMA FewerWiresNoWorse ==
  ASSUME NEW c, load_contract(c), NEW w, Bad(WireGates(Without(c, w)))
  PROVE  Bad(WireGates(c))
<1>1. PICK d : d = Without(c, w) OBVIOUS
<1>2. Grown(d, c) BY <1>1, WithoutIsLess
<1>3. PICK k \in WireGates(d) : k.status # "pass" BY <1>1 DEF Bad
<1> DEFINE Gates(e) == {_check_connectivity(e), _check_cavity_occupancy(e), _ampacity_details(e),
                        _check_voltage_drop(e), _check_insulation_rating(e), _check_bend_radius(e),
                        _check_segregation(e), _check_terminal_compatibility(e),
                        _check_crimp_conditions(e), _check_connector_rating(e), _check_route_fit(e)}
<1>4. ASSUME NEW e, NEW G \in Gates(e), Bad(G) PROVE Bad(WireGates(e))
  BY <1>4 DEF Bad, WireGates
<1>5. PICK G \in Gates(d) : k \in G BY <1>3 DEF WireGates
<1>6. Bad(G) BY <1>3, <1>5 DEF Bad
<1>7. \E H \in Gates(c) : Bad(H)
  <2>1. CASE G = _check_connectivity(d) BY <1>2, <1>6, <2>1, ConnectivityStays
  <2>2. CASE G = _check_cavity_occupancy(d) BY <1>2, <1>6, <2>2, OccupancyStays
  <2>3. CASE G = _ampacity_details(d) BY <1>2, <1>6, <2>3, AmpacityStays
  <2>4. CASE G = _check_voltage_drop(d) BY <1>2, <1>6, <2>4, DropStays
  <2>5. CASE G = _check_insulation_rating(d) BY <1>2, <1>6, <2>5, InsulationStays
  <2>6. CASE G = _check_bend_radius(d) BY <1>2, <1>6, <2>6, BendStays
  <2>7. CASE G = _check_segregation(d) BY <1>2, <1>6, <2>7, SegregationStays
  <2>8. CASE G = _check_terminal_compatibility(d) BY <1>2, <1>6, <2>8, TerminalStays
  <2>9. CASE G = _check_crimp_conditions(d) BY <1>2, <1>6, <2>9, CrimpStays
  <2>10. CASE G = _check_connector_rating(d) BY <1>2, <1>6, <2>10, RatingStays
  <2>11. CASE G = _check_route_fit(d) BY <1>2, <1>6, <2>11, FitStays
  <2> QED BY <2>1, <2>2, <2>3, <2>4, <2>5, <2>6, <2>7, <2>8, <2>9, <2>10, <2>11
<1> HIDE DEF Gates
<1> QED BY <1>4, <1>7

\* What is written is what the loader accepts.
Loaded == contract = Empty \/ load_contract(contract)

LEMMA LoadedAlways == Spec => []Loaded
<1>1. Init => Loaded BY DEF Init, Loaded
<1>2. Loaded /\ [Next]_vars => Loaded'
  <2> SUFFICES ASSUME Loaded, [Next]_vars PROVE Loaded'
    OBVIOUS
  <2>1. ASSUME NEW d \in Drafts, Author(d) PROVE Loaded'
    BY <2>1 DEF Author, Loaded
  <2>2. ASSUME NEW r \in Refs, Parse(r) PROVE Loaded'
    BY <2>2 DEF Parse, Loaded
  <2>3. ASSUME NEW r \in Refs, NEW v \in Sources(r), Export(r, v) PROVE Loaded'
    BY <2>3 DEF Export, Loaded
  <2>4. CASE cmd_import
    <3>1. contract' = contract \/ load_contract(contract') BY <2>4 DEF cmd_import
    <3> QED BY <3>1 DEF Loaded
  <2>5. CASE UNCHANGED vars BY <2>5 DEF vars, Loaded
  <2> QED BY <2>1, <2>2, <2>3, <2>4, <2>5 DEF Next
<1> QED BY <1>1, <1>2, PTL DEF Spec

\* What fails without a wire fails with it, whatever contract was written or
\* merged: no wire can be added to make a current, a bend, a class or a
\* terminal pass (_ampacity_details, _check_bend_radius, _check_segregation,
\* bundle_derating).
THEOREM FailuresStay == Spec => []FailuresPersist
<1>1. Loaded => FailuresPersist
  <2>1. ASSUME load_contract(contract) PROVE FailuresPersist
    BY <2>1, FewerWiresNoWorse, PassesNot DEF FailuresPersist
  <2>2. ASSUME contract = Empty PROVE FailuresPersist
    BY <2>2 DEF FailuresPersist, Empty
  <2> QED BY <2>1, <2>2 DEF Loaded
<1> QED BY <1>1, LoadedAlways, PTL

-----------------------------------------------------------------------------
(* The groups of the continuity table.                                     *)

LEMMA FindDef ==
  ASSUME NEW p, NEW n
  PROVE  Find(p, n) = (CHOOSE f : f = [m \in DOMAIN p |-> IF p[m] = m THEN m ELSE f[p[m]]])[n]
BY DEF Find

\* In a forest p on N, r leads each node to its root, and d falls on the way.
Rooted(p, N, r, d) ==
  /\ p \in [N -> N] /\ r \in [N -> N] /\ d \in [N -> Nat]
  /\ \A m \in N : /\ p[m] = m => r[m] = m
                  /\ p[m] # m => r[m] = r[p[m]] /\ d[p[m]] < d[m]
                  /\ p[r[m]] = r[m]

\* There the find of the code ends, and at the root.
LEMMA FindsRoot ==
  ASSUME NEW p, NEW N, NEW r, NEW d, Rooted(p, N, r, d), NEW n \in N
  PROVE  Find(p, n) = r[n]
<1> DEFINE Roots(f) == f = [m \in DOMAIN p |-> IF p[m] = m THEN m ELSE f[p[m]]]
           root == CHOOSE f : Roots(f)
<1>1. DOMAIN p = N BY DEF Rooted
<1>2. Roots(r)
  <2>1. r = [m \in N |-> r[m]] BY DEF Rooted
  <2>2. \A m \in N : r[m] = IF p[m] = m THEN m ELSE r[p[m]] BY DEF Rooted
  <2> QED BY <1>1, <2>1, <2>2
<1>3. Roots(root)
  <2> HIDE DEF Roots
  <2> QED BY <1>2
<1>4. \A m \in N : root[m] = IF p[m] = m THEN m ELSE root[p[m]] BY <1>1, <1>3
<1> HIDE DEF root
<1>5. ASSUME NEW x \in N, root[x] # r[x] PROVE FALSE
  <2> DEFINE Worse == {m \in N : root[m] # r[m] /\ d[m] <= d[x]}
             Depths == {d[m] + 1 : m \in Worse}
  <2>1. \A m \in N : d[m] \in Nat BY DEF Rooted
  <2>2. d[x] + 1 \in Nat BY <2>1
  <2>3. Depths \subseteq 1..(d[x] + 1)
    <3>1. ASSUME NEW m \in Worse PROVE d[m] + 1 \in 1..(d[x] + 1) BY <2>1
    <3> QED BY <3>1
  <2>4. Depths # {} BY <2>1, <1>5
  <2>5. PICK e \in Depths : \A o \in Depths : e <= o
    <3> HIDE DEF Depths
    <3> QED BY <2>2, <2>3, <2>4, HasFirst
  <2>6. PICK m \in Worse : e = d[m] + 1 BY <2>5
  <2>7. m \in N /\ root[m] # r[m] BY <2>6
  <2>8. p[m] # m BY <1>4, <2>7 DEF Rooted
  <2>9. p[m] \in N /\ r[m] = r[p[m]] /\ d[p[m]] < d[m] BY <2>7, <2>8 DEF Rooted
  <2>10. root[m] = root[p[m]] BY <1>4, <2>7, <2>8
  <2>11. d[p[m]] <= d[x] BY <2>1, <2>6, <2>7, <2>9
  <2>12. p[m] \in Worse BY <2>7, <2>9, <2>10, <2>11
  <2>13. d[p[m]] + 1 \in Depths BY <2>12
  <2>14. e <= d[p[m]] + 1 BY <2>5, <2>13
  <2> QED BY <2>1, <2>6, <2>7, <2>9, <2>14
<1>6. root[n] = r[n] BY <1>5
<1> QED BY <1>6, FindDef DEF root

\* What some wires join, and nothing else: their ends have one root, and a set
\* that no wire leaves holds a node as it holds its root.
Joins(p, c, W) ==
  /\ W \subseteq c.wires
  /\ \E r, d :
       /\ Rooted(p, Nodes(c), r, d)
       /\ \A w \in W : r[_node(w.from)] = r[_node(w.to)]
       /\ \A S \in SUBSET Nodes(c) :
            (\A w \in c.wires : _node(w.from) \in S <=> _node(w.to) \in S) =>
              \A m \in Nodes(c) : m \in S <=> r[m] \in S

LEMMA EndsAreNodes ==
  ASSUME NEW c, NEW w \in c.wires
  PROVE  _node(w.from) \in Nodes(c) /\ _node(w.to) \in Nodes(c)
<1> DEFINE a == [wire |-> w, end |-> "a", at |-> w.from, terminal |-> w.terminal_a]
           b == [wire |-> w, end |-> "b", at |-> w.to, terminal |-> w.terminal_b]
<1>1. a \in Ends(c) /\ b \in Ends(c) BY DEF Ends
<1>2. a.at = w.from /\ b.at = w.to OBVIOUS
<1> HIDE DEF a, b
<1> QED BY <1>1, <1>2 DEF Nodes

\* A wire more joins its ends.
LEMMA JoinsOneMore ==
  ASSUME NEW c, NEW W, NEW w \in c.wires, NEW p, Joins(p, c, W)
  PROVE  Joins(Join(p, w), c, W \union {w})
<1> DEFINE N == Nodes(c)
           x == _node(w.from)
           y == _node(w.to)
<1>1. PICK r, d :
        /\ Rooted(p, N, r, d)
        /\ \A v \in W : r[_node(v.from)] = r[_node(v.to)]
        /\ \A S \in SUBSET N :
             (\A v \in c.wires : _node(v.from) \in S <=> _node(v.to) \in S) =>
               \A m \in N : m \in S <=> r[m] \in S
  BY DEF Joins
<1>2. x \in N /\ y \in N BY EndsAreNodes
<1>3. PICK a, b : a = r[x] /\ b = r[y] OBVIOUS
<1>4. a \in N /\ b \in N /\ p[a] = a /\ p[b] = b /\ r[a] = a /\ r[b] = b
  BY <1>1, <1>2, <1>3 DEF Rooted
<1>5. PICK q : q = [p EXCEPT ![a] = b] OBVIOUS
<1>6. Join(p, w) = q
  <2>1. Find(p, x) = a /\ Find(p, y) = b BY <1>1, <1>2, <1>3, FindsRoot
  <2> QED BY <1>5, <2>1 DEF Join
<1>7. PICK s : s = [m \in N |-> IF r[m] = a THEN b ELSE r[m]] OBVIOUS
<1>8. PICK e : e = [m \in N |-> IF r[m] = a THEN d[m] + d[b] + 1 ELSE d[m]] OBVIOUS
<1> HIDE DEF N, x, y
<1>9. \A m \in N : p[m] \in N /\ r[m] \in N /\ d[m] \in Nat BY <1>1 DEF Rooted
<1>10. q \in [N -> N] /\ \A m \in N : q[m] = IF m = a THEN b ELSE p[m]
  BY <1>1, <1>4, <1>5 DEF Rooted
<1>11. s \in [N -> N] /\ \A m \in N : s[m] = IF r[m] = a THEN b ELSE r[m] BY <1>4, <1>7, <1>9
<1>12. e \in [N -> Nat] /\ \A m \in N : e[m] = IF r[m] = a THEN d[m] + d[b] + 1 ELSE d[m]
  <2>1. \A m \in N : (IF r[m] = a THEN d[m] + d[b] + 1 ELSE d[m]) \in Nat BY <1>4, <1>9
  <2> QED BY <1>8, <2>1
<1>13. Rooted(q, N, s, e)
  <2> SUFFICES ASSUME NEW m \in N
               PROVE  /\ q[m] = m => s[m] = m
                      /\ q[m] # m => s[m] = s[q[m]] /\ e[q[m]] < e[m]
                      /\ q[s[m]] = s[m]
    BY <1>10, <1>11, <1>12 DEF Rooted
  <2>1. q[s[m]] = s[m]
    <3>1. CASE r[m] = a BY <3>1, <1>4, <1>10, <1>11
    <3>2. CASE r[m] # a
      <4>1. p[r[m]] = r[m] BY <1>1 DEF Rooted
      <4> QED BY <3>2, <4>1, <1>9, <1>10, <1>11
    <3> QED BY <3>1, <3>2
  <2>2. CASE m = a
    <3>1. q[m] = b /\ s[m] = b BY <2>2, <1>4, <1>10, <1>11
    <3>2. s[b] = b BY <1>4, <1>11
    <3>3. a # b => e[b] = d[b] /\ e[m] = d[m] + d[b] + 1 BY <2>2, <1>4, <1>12
    <3>4. a # b => e[b] < e[m] BY <3>3, <1>4, <1>9
    <3> QED BY <2>1, <2>2, <3>1, <3>2, <3>4
  <2>3. CASE m # a
    <3>1. q[m] = p[m] BY <2>3, <1>10
    <3>2. CASE p[m] = m
      <4>1. r[m] = m BY <3>2, <1>1 DEF Rooted
      <4> QED BY <2>1, <2>3, <3>1, <3>2, <4>1, <1>11
    <3>3. CASE p[m] # m
      <4>1. r[m] = r[p[m]] /\ d[p[m]] < d[m] BY <3>3, <1>1 DEF Rooted
      <4>2. s[m] = s[p[m]] BY <4>1, <1>9, <1>11
      <4>3. e[p[m]] < e[m] BY <4>1, <1>4, <1>9, <1>12
      <4> QED BY <2>1, <3>1, <3>3, <4>2, <4>3
    <3> QED BY <3>2, <3>3
  <2> QED BY <2>2, <2>3
<1>14. ASSUME NEW v \in W \union {w}, v \in c.wires PROVE s[_node(v.from)] = s[_node(v.to)]
  <2>1. _node(v.from) \in N /\ _node(v.to) \in N BY <1>14, EndsAreNodes DEF N
  <2>2. CASE v \in W
    <3>1. r[_node(v.from)] = r[_node(v.to)] BY <2>2, <1>1
    <3> QED BY <2>1, <3>1, <1>11
  <2>3. CASE v = w
    <3>1. s[x] = b /\ s[y] = b BY <1>2, <1>3, <1>4, <1>11
    <3> QED BY <2>3, <3>1 DEF x, y
  <2> QED BY <2>2, <2>3
<1>15. ASSUME NEW S \in SUBSET N,
              \A v \in c.wires : _node(v.from) \in S <=> _node(v.to) \in S,
              NEW m \in N
       PROVE  m \in S <=> s[m] \in S
  <2>1. \A k \in N : k \in S <=> r[k] \in S BY <1>1, <1>15
  <2>2. x \in S <=> y \in S BY <1>15 DEF x, y
  <2>3. a \in S <=> b \in S BY <2>1, <2>2, <1>2, <1>3
  <2> QED BY <2>1, <2>3, <1>11
<1>16. W \union {w} \subseteq c.wires BY DEF Joins
<1> QED BY <1>6, <1>13, <1>14, <1>15, <1>16 DEF Joins, N

\* What is joined after each of the wires.
Afters(c, f) ==
  f = [i \in 0..Len(SetToSeq(c.wires)) |->
         IF i = 0 THEN [n \in Nodes(c) |-> n] ELSE Join(f[i - 1], SetToSeq(c.wires)[i])]

LEMMA ForestDef ==
  ASSUME NEW c
  PROVE  Forest(c) = (CHOOSE f : Afters(c, f))[Len(SetToSeq(c.wires))]
BY DEF Forest, Afters

\* The wires in a row.
LEMMA InARow ==
  ASSUME NEW S, IsFiniteSet(S)
  PROVE  /\ Len(SetToSeq(S)) \in Nat /\ SetToSeq(S) \in [1..Len(SetToSeq(S)) -> S]
         /\ \A x \in S : \E i \in 1..Len(SetToSeq(S)) : x = SetToSeq(S)[i]
<1>1. PICK n \in Nat : n = Cardinality(S) BY FS_CardinalityType
<1>2. PICK g : g \in Bijection(1..n, S) BY <1>1, FS_CardinalityType DEF ExistsBijection
<1>3. g \in [1..n -> S] /\ IsInjective(g) BY <1>2 DEF Bijection, Injection, IsInjective
<1>4. PICK s : s = SetToSeq(S) OBVIOUS
<1>5. s \in [1..n -> S] /\ IsInjective(s) BY <1>1, <1>3, <1>4 DEF SetToSeq
<1>6. s \in Seq(S) /\ Len(s) = n BY <1>1, <1>5, SeqDef, LenProperties
<1>7. s \in Injection(1..n, S) BY <1>5 DEF Injection, IsInjective
<1>8. s \in Surjection(1..n, S)
  <2>1. IsFiniteSet(1..n) /\ Cardinality(1..n) = n BY <1>1, FS_Interval
  <2> QED BY <1>1, <1>7, <2>1, FS_Injection
<1> QED BY <1>1, <1>4, <1>5, <1>6, <1>8 DEF Surjection

\* There is such a row of forests.
LEMMA AftersExist ==
  ASSUME NEW c, IsFiniteSet(c.wires)
  PROVE  \E f : Afters(c, f)
<1> DEFINE wires == SetToSeq(c.wires)
           Until(k, f) == f = [i \in 0..k |-> IF i = 0 THEN [n \in Nodes(c) |-> n]
                                                ELSE Join(f[i - 1], wires[i])]
<1>1. PICK n \in Nat : n = Len(wires) BY InARow
<1>2. \E f : Until(0, f)
  <2>1. Until(0, [i \in 0..0 |-> [m \in Nodes(c) |-> m]]) OBVIOUS
  <2> QED BY <2>1
<1>3. ASSUME NEW k \in Nat, NEW f, Until(k, f) PROVE \E g : Until(k + 1, g)
  <2>1. PICK g : g = [i \in 0..(k + 1) |-> IF i <= k THEN f[i] ELSE Join(f[k], wires[k + 1])] OBVIOUS
  <2>2. \A i \in 0..k : f[i] = IF i = 0 THEN [m \in Nodes(c) |-> m] ELSE Join(f[i - 1], wires[i])
    BY <1>3
  <2>3. \A i \in 0..k : g[i] = f[i] BY <2>1
  <2>4. ASSUME NEW i \in 0..(k + 1)
        PROVE  g[i] = IF i = 0 THEN [m \in Nodes(c) |-> m] ELSE Join(g[i - 1], wires[i])
    <3>1. CASE i <= k
      <4>1. i \in 0..k /\ (i # 0 => i - 1 \in 0..k) BY <3>1
      <4> QED BY <2>2, <2>3, <4>1
    <3>2. CASE i = k + 1
      <4>1. g[i] = Join(f[k], wires[k + 1]) BY <2>1, <3>2
      <4>2. i # 0 /\ i - 1 = k /\ k \in 0..k BY <3>2
      <4>3. g[i - 1] = f[k] BY <2>3, <4>2
      <4> QED BY <3>2, <4>1, <4>2, <4>3
    <3> QED BY <3>1, <3>2
  <2>5. g = [i \in 0..(k + 1) |-> g[i]] BY <2>1
  <2>6. Until(k + 1, g) BY <2>4, <2>5
  <2> QED BY <2>6
<1> HIDE DEF Until, wires
<1>4. ASSUME ~ \E f : Until(n, f) PROVE FALSE
  <2> DEFINE Lost == {k \in 1..n : ~ \E f : Until(k, f)}
  <2>1. n # 0 BY <1>2, <1>4
  <2>2. n \in Lost BY <1>4, <2>1
  <2>3. PICK k \in Lost : \A j \in Lost : k <= j
    <3>1. Lost \subseteq 1..n /\ Lost # {} BY <2>2
    <3> HIDE DEF Lost
    <3> QED BY <3>1, HasFirst
  <2>4. k \in 1..n /\ ~ \E f : Until(k, f) BY <2>3
  <2>5. k - 1 \in Nat /\ (k - 1) + 1 = k BY <2>4
  <2>6. \E f : Until(k - 1, f)
    <3>1. CASE k = 1 BY <3>1, <1>2
    <3>2. CASE k # 1
      <4>1. k - 1 \in 1..n BY <2>4, <3>2
      <4>2. k - 1 \notin Lost BY <2>3, <2>5
      <4> QED BY <4>1, <4>2
    <3> QED BY <3>1, <3>2
  <2>7. PICK f : Until(k - 1, f) BY <2>6
  <2>8. \E g : Until((k - 1) + 1, g) BY <1>3, <2>5, <2>7
  <2> QED BY <2>4, <2>5, <2>8
<1>5. PICK f : Until(n, f) BY <1>4
<1>6. Afters(c, f) BY <1>1, <1>5 DEF Afters, Until, wires
<1> QED BY <1>6

LEMMA ForestJoins ==
  ASSUME NEW c, IsFiniteSet(c.wires)
  PROVE  Joins(Forest(c), c, c.wires)
<1>1. PICK f : f = CHOOSE g : Afters(c, g) OBVIOUS
<1>2. Afters(c, f) BY <1>1, AftersExist
<1>3. PICK wires : wires = SetToSeq(c.wires) OBVIOUS
<1>4. PICK n \in Nat : n = Len(wires) BY <1>3, InARow
<1>5. /\ wires \in [1..n -> c.wires] /\ \A w \in c.wires : \E i \in 1..n : w = wires[i]
  BY <1>3, <1>4, InARow
<1>6. \A i \in 0..n : f[i] = IF i = 0 THEN [m \in Nodes(c) |-> m] ELSE Join(f[i - 1], wires[i])
  BY <1>2, <1>3, <1>4 DEF Afters
<1>7. Forest(c) = f[n] BY <1>1, <1>3, <1>4, ForestDef
<1> DEFINE First(k) == {wires[i] : i \in 1..k}
           Good(k) == Joins(f[k], c, First(k))
<1>8. Good(0)
  <2>1. First(0) = {} OBVIOUS
  <2>2. f[0] = [m \in Nodes(c) |-> m] BY <1>6
  <2>3. Rooted([m \in Nodes(c) |-> m], Nodes(c), [m \in Nodes(c) |-> m], [m \in Nodes(c) |-> 0])
    BY DEF Rooted
  <2>4. PICK r, d : /\ r = [m \in Nodes(c) |-> m] /\ Rooted(r, Nodes(c), r, d)
                    /\ \A m \in Nodes(c) : r[m] = m
    BY <2>3
  <2>5. \A S \in SUBSET Nodes(c) : \A m \in Nodes(c) : m \in S <=> r[m] \in S BY <2>4
  <2>6. Joins(r, c, {}) BY <2>4, <2>5 DEF Joins
  <2> QED BY <2>1, <2>2, <2>4, <2>6
<1>9. ASSUME NEW k \in 1..n, Good(k - 1) PROVE Good(k)
  <2>0. k \in 0..n /\ k # 0 /\ k \in 1..n OBVIOUS
  <2>1. f[k] = Join(f[k - 1], wires[k]) /\ wires[k] \in c.wires BY <2>0, <1>5, <1>6
  <2>2. First(k) = First(k - 1) \union {wires[k]}
    <3>1. \A i \in 1..k : i \in 1..(k - 1) \/ i = k OBVIOUS
    <3>2. \A i \in 1..(k - 1) : i \in 1..k OBVIOUS
    <3>3. k \in 1..k OBVIOUS
    <3> QED BY <3>1, <3>2, <3>3
  <2>3. PICK W, V : W = First(k - 1) /\ V = First(k) OBVIOUS
  <2>4. Joins(f[k - 1], c, W) BY <1>9, <2>3
  <2>5. Joins(f[k], c, W \union {wires[k]}) BY <2>1, <2>4, JoinsOneMore
  <2> QED BY <2>2, <2>3, <2>5
<1> HIDE DEF Good
<1>10. ASSUME ~Good(n) PROVE FALSE
  <2> DEFINE Lost == {k \in 1..n : ~Good(k)}
  <2>1. n # 0 BY <1>8, <1>10
  <2>2. n \in Lost BY <1>10, <2>1
  <2>3. PICK k \in Lost : \A j \in Lost : k <= j
    <3>1. Lost \subseteq 1..n /\ Lost # {} BY <2>2
    <3> HIDE DEF Lost
    <3> QED BY <3>1, HasFirst
  <2>4. k \in 1..n /\ ~Good(k) BY <2>3
  <2>5. Good(k - 1)
    <3>1. CASE k = 1 BY <3>1, <1>8
    <3>2. CASE k # 1
      <4>1. k - 1 \in 1..n BY <2>4, <3>2
      <4>2. k - 1 \notin Lost BY <2>3, <2>4
      <4> QED BY <4>1, <4>2
    <3> QED BY <3>1, <3>2
  <2> QED BY <1>9, <2>4, <2>5
<1>11. First(n) = c.wires BY <1>5
<1>12. Joins(f[n], c, First(n)) BY <1>10 DEF Good
<1> HIDE DEF First
<1> QED BY <1>7, <1>11, <1>12

\* The find of the code tells what wires join from what they do not.
LEMMA FindsJoined ==
  ASSUME NEW c, IsFiniteSet(c.wires), NEW x \in Nodes(c), NEW y \in Nodes(c)
  PROVE  Find(Forest(c), x) = Find(Forest(c), y) <=> Joined(c, x, y)
<1> DEFINE N == Nodes(c)
<1>1. PICK r, d :
        /\ Rooted(Forest(c), N, r, d)
        /\ \A w \in c.wires : r[_node(w.from)] = r[_node(w.to)]
        /\ \A S \in SUBSET N :
             (\A w \in c.wires : _node(w.from) \in S <=> _node(w.to) \in S) =>
               \A m \in N : m \in S <=> r[m] \in S
  BY ForestJoins DEF Joins
<1>2. Find(Forest(c), x) = r[x] /\ Find(Forest(c), y) = r[y] BY <1>1, FindsRoot
<1>3. ASSUME r[x] = r[y] PROVE Joined(c, x, y) BY <1>1, <1>3 DEF Joined
<1>4. ASSUME Joined(c, x, y) PROVE r[x] = r[y]
  <2>1. PICK S \in SUBSET N : S = {m \in N : r[m] = r[x]} OBVIOUS
  <2>2. \A w \in c.wires : _node(w.from) \in S <=> _node(w.to) \in S
    BY <1>1, <2>1, EndsAreNodes
  <2>3. x \in S BY <2>1
  <2>4. y \in S BY <1>4, <2>2, <2>3 DEF Joined
  <2> QED BY <2>1, <2>4
<1> QED BY <1>2, <1>3, <1>4

LEMMA WiresApart ==
  ASSUME Loaded
  PROVE  /\ IsFiniteSet(contract.wires)
         /\ \A v, w \in contract.wires : v.id = w.id => v = w
<1>1. CASE contract = Empty
  <2>1. contract.wires = {} BY <1>1 DEF Empty
  <2> QED BY <2>1, FS_EmptySet
<1>2. CASE load_contract(contract)
  <2>1. PICK S : S = contract.wires OBVIOUS
  <2>2. IsFiniteSet(S) /\ ~RepeatsId(S) BY <1>2, <2>1 DEF load_contract, validate_contract
  <2>3. PICK f : f = [x \in S |-> x.id] OBVIOUS
  <2>4. f \in Surjection(S, Ids(S)) BY <2>3 DEF Surjection, Ids
  <2>5. /\ IsFiniteSet(Ids(S)) /\ Cardinality(Ids(S)) <= Cardinality(S)
        /\ Cardinality(Ids(S)) = Cardinality(S) <=> f \in Injection(S, Ids(S))
    BY <2>2, <2>4, FS_Surjection
  <2>6. Cardinality(S) \in Nat /\ Cardinality(Ids(S)) \in Nat BY <2>2, <2>5, FS_CardinalityType
  <2>7. f \in Injection(S, Ids(S)) BY <2>2, <2>5, <2>6 DEF RepeatsId
  <2> QED BY <2>1, <2>2, <2>3, <2>7 DEF Injection, IsInjective
<1> QED BY <1>1, <1>2 DEF Loaded

\* The groups of the continuity table are what wires and splices join, for any
\* harness: joining by find and union puts two wires into one group exactly if a
\* chain of wires leads from one to the other (GroupsAreReachability).
THEOREM GroupsAreJoined == Spec => []GroupsAreReachability
<1>1. ASSUME Loaded PROVE GroupsAreReachability
  <2> DEFINE root(n) == Find(Forest(contract), n)
             group(w) == {v \in contract.wires : root(_node(v.from)) = root(_node(w.from))}
  <2> SUFFICES ASSUME NEW v \in contract.wires, NEW w \in contract.wires
               PROVE  (\E g \in continuity_groups(contract) : {v.id, w.id} \subseteq g.wires)
                        <=> Joined(contract, _node(v.from), _node(w.from))
    BY DEF GroupsAreReachability
  <2>1. root(_node(v.from)) = root(_node(w.from)) <=> Joined(contract, _node(v.from), _node(w.from))
    BY <1>1, WiresApart, FindsJoined, EndsAreNodes
  <2> DEFINE Group(u) == [wires  |-> Ids(group(u)), nets |-> {x.net : x \in group(u)},
                          points |-> {_node(t.at) : t \in {o \in Terminations(contract) :
                                                             o.wire \in group(u)}}]
  <2>2. continuity_groups(contract) = {Group(u) : u \in contract.wires} BY DEF continuity_groups
  <2>3. \A u \in contract.wires : Group(u).wires = {x.id : x \in group(u)} BY DEF Ids
  <2>4. ASSUME NEW g \in continuity_groups(contract), {v.id, w.id} \subseteq g.wires
        PROVE  root(_node(v.from)) = root(_node(w.from))
    <3>1. PICK u \in contract.wires : g = Group(u) BY <2>2, <2>4
    <3>2. PICK x, y : x \in group(u) /\ y \in group(u) /\ x.id = v.id /\ y.id = w.id
      BY <2>3, <2>4, <3>1
    <3>3. x = v /\ y = w BY <1>1, <3>2, WiresApart
    <3> HIDE DEF root
    <3> QED BY <3>2, <3>3
  <2>5. ASSUME root(_node(v.from)) = root(_node(w.from))
        PROVE  \E g \in continuity_groups(contract) : {v.id, w.id} \subseteq g.wires
    <3>1. v \in group(w) /\ w \in group(w) BY <2>5
    <3>2. {v.id, w.id} \subseteq Group(w).wires
      <4> HIDE DEF group, Group
      <4> QED BY <2>3, <3>1
    <3>3. Group(w) \in continuity_groups(contract) BY <2>2
    <3> QED BY <3>2, <3>3
  <2> QED BY <2>1, <2>4, <2>5
<1> QED BY <1>1, LoadedAlways, PTL

\* What the three gates demand of each end of a wire.
LEMMA OneNetEach ==
  ASSUME NEW c, load_contract(c),
         Passes(_check_connectivity(c) \union _check_cavity_occupancy(c)
                  \union _check_splice_integrity(c)),
         NEW t \in Ends(c), NEW u \in Ends(c), _node(t.at) = _node(u.at)
  PROVE  t.wire.net = u.wire.net
<1> DEFINE All == _check_connectivity(c) \union _check_cavity_occupancy(c)
                    \union _check_splice_integrity(c)
<1>1. \A k \in All : k.status = "pass" BY PassesNot DEF Bad
<1>2. \A x \in Ends(c) : x.wire \in c.wires /\ x.at \in {x.wire.from, x.wire.to}
  BY DEF Ends
<1>3. \A x \in Ends(c) : EndpointOK(x.at) /\ EndpointKnown(c, x.at)
  BY <1>2 DEF load_contract, validate_contract, HarnessWireOK
<1>4. CASE t.at.splice # None
  <2>1. u.at.splice = t.at.splice
    <3>1. CASE u.at.splice # None BY <1>4, <3>1 DEF _node
    <3>2. CASE u.at.splice = None
      <4>1. <<t.at.splice>> = <<u.at.connector, u.at.cavity>> BY <1>4, <3>2 DEF _node
      <4>2. Len(<<t.at.splice>>) = 1 /\ Len(<<u.at.connector, u.at.cavity>>) = 2 OBVIOUS
      <4> QED BY <4>1, <4>2
    <3> QED BY <3>1, <3>2
  <2>2. PICK s \in c.splices : s.id = t.at.splice BY <1>3, <1>4 DEF EndpointKnown, Ids
  <2>3. PICK T : T = {x.wire.net : x \in Legs(c, s.id)} OBVIOUS
  <2>4. ~(Cardinality(T) > 1)
    <3>1. PICK k \in _check_splice_integrity(c) :
            k = Check("splice_integrity", <<s.id>>,
                  Status(\/ Cardinality(Legs(c, s.id)) < 2
                         \/ Cardinality({x.wire.net : x \in Legs(c, s.id)}) > 1, FALSE))
      BY DEF _check_splice_integrity
    <3>2. k.status = "pass" BY <1>1, <3>1
    <3> QED BY <2>3, <3>1, <3>2 DEF Check, Status
  <2>5. t.wire.net \in T /\ u.wire.net \in T BY <2>1, <2>2, <2>3 DEF Legs
  <2>6. IsFiniteSet(T)
    <3>1. PICK W : W = {w.net : w \in c.wires} OBVIOUS
    <3>2. IsFiniteSet(c.wires) BY DEF load_contract, validate_contract
    <3>3. PICK f : f = [w \in c.wires |-> w.net] OBVIOUS
    <3>4. IsFiniteSet(W) BY <3>1, <3>2, <3>3, ImageFinite
    <3>5. T \subseteq W BY <1>2, <2>3, <3>1 DEF Legs
    <3> QED BY <3>4, <3>5, FS_Subset
  <2>7. ASSUME t.wire.net # u.wire.net PROVE FALSE
    <3>1. PICK a, b : a = t.wire.net /\ b = u.wire.net OBVIOUS
    <3>2. {a, b} \subseteq T /\ a # b BY <2>5, <2>7, <3>1
    <3>3. Cardinality({a}) = 1 /\ IsFiniteSet({a}) BY FS_Singleton
    <3>4. Cardinality({a} \union {b}) = 2
      <4>1. b \notin {a} BY <3>2
      <4>2. Cardinality({a} \union {b}) = Cardinality({a}) + 1 BY <3>3, <4>1, FS_AddElement
      <4> QED BY <3>3, <4>2
    <3>5. {a} \union {b} \subseteq T BY <3>2
    <3>6. Cardinality({a} \union {b}) <= Cardinality(T) BY <2>6, <3>5, FS_Subset
    <3>7. Cardinality(T) \in Nat BY <2>6, FS_CardinalityType
    <3> QED BY <2>4, <3>4, <3>6, <3>7
  <2> QED BY <2>7
<1>5. CASE t.at.splice = None
  <2>1. u.at.splice = None
    <3>1. CASE u.at.splice # None
      <4>1. <<u.at.splice>> = <<t.at.connector, t.at.cavity>> BY <1>5, <3>1 DEF _node
      <4>2. Len(<<u.at.splice>>) = 1 /\ Len(<<t.at.connector, t.at.cavity>>) = 2 OBVIOUS
      <4> QED BY <4>1, <4>2
    <3> QED BY <3>1
  <2>2. u.at.connector = t.at.connector /\ u.at.cavity = t.at.cavity BY <1>5, <2>1 DEF _node
  <2>3. t.at = u.at BY <1>3, <1>5, <2>1, <2>2 DEF EndpointOK
  <2>4. t \in Terminations(c) /\ u \in Terminations(c)
    BY <1>3, <1>5, <2>1 DEF Terminations, EndpointOK
  <2>5. ~(t # u /\ t.at = u.at)
    <3>1. PICK k \in _check_cavity_occupancy(c) :
            k = Check("cavity_occupancy", <<>>,
                  Status(\E x, y \in Terminations(c) : x # y /\ x.at = y.at, FALSE))
      BY DEF _check_cavity_occupancy
    <3>2. k.status = "pass" BY <1>1, <3>1
    <3> QED BY <2>4, <3>1, <3>2 DEF Check, Status
  <2> QED BY <2>3, <2>5
<1> QED BY <1>4, <1>5

\* What three gates find wire by wire and splice by splice holds of every
\* conductor: if they pass, no chain of wires and splices joins two nets
\* (PassingGroupsCarryOneNet).
THEOREM ConductorsCarryOneNet == Spec => []PassingGroupsCarryOneNet
<1>1. ASSUME Loaded PROVE PassingGroupsCarryOneNet
  <2> DEFINE root(n) == Find(Forest(contract), n)
             group(w) == {v \in contract.wires : root(_node(v.from)) = root(_node(w.from))}
  <2> SUFFICES ASSUME Passes(_check_connectivity(contract) \union _check_cavity_occupancy(contract)
                               \union _check_splice_integrity(contract)),
                      NEW g \in continuity_groups(contract)
               PROVE  Cardinality(g.nets) = 1
    BY DEF PassingGroupsCarryOneNet
  <2> DEFINE Group(u) == [wires  |-> Ids(group(u)), nets |-> {x.net : x \in group(u)},
                          points |-> {_node(t.at) : t \in {o \in Terminations(contract) :
                                                             o.wire \in group(u)}}]
  <2>0. continuity_groups(contract) = {Group(u) : u \in contract.wires} BY DEF continuity_groups
  <2>1. PICK w \in contract.wires : g.nets = {v.net : v \in group(w)}
    <3>1. PICK w \in contract.wires : g = Group(w) BY <2>0
    <3>2. Group(w).nets = {v.net : v \in group(w)} BY DEF Group
    <3> QED BY <3>1, <3>2
  <2>2. load_contract(contract)
    <3>1. contract # Empty BY DEF Empty
    <3> QED BY <1>1, <3>1 DEF Loaded
  <2>3. PICK S : S = {n \in Nodes(contract) :
                        \E t \in Ends(contract) : _node(t.at) = n /\ t.wire.net = w.net}
    OBVIOUS
  <2>4. \A t \in Ends(contract) : _node(t.at) \in S <=> t.wire.net = w.net
    <3>1. ASSUME NEW t \in Ends(contract) PROVE _node(t.at) \in S <=> t.wire.net = w.net
      <4>1. _node(t.at) \in Nodes(contract) BY DEF Nodes
      <4>2. \A u \in Ends(contract) : _node(u.at) = _node(t.at) => t.wire.net = u.wire.net
        BY <2>2, OneNetEach
      <4> QED BY <2>3, <4>1, <4>2
    <3> QED BY <3>1
  <2>5. ASSUME NEW v \in contract.wires
        PROVE  /\ _node(v.from) \in S <=> v.net = w.net
               /\ _node(v.to) \in S <=> v.net = w.net
    <3>1. PICK a, b : /\ a = [wire |-> v, end |-> "a", at |-> v.from, terminal |-> v.terminal_a]
                      /\ b = [wire |-> v, end |-> "b", at |-> v.to, terminal |-> v.terminal_b]
      OBVIOUS
    <3>2. a \in Ends(contract) /\ b \in Ends(contract) BY <3>1 DEF Ends
    <3>3. a.at = v.from /\ a.wire = v /\ b.at = v.to /\ b.wire = v BY <3>1
    <3> QED BY <2>4, <3>2, <3>3
  <2>6. S \in SUBSET Nodes(contract) BY <2>3
  <2>7. ASSUME NEW v \in group(w) PROVE v.net = w.net
    <3>1. v \in contract.wires /\ root(_node(v.from)) = root(_node(w.from)) BY <2>7
    <3>2. Joined(contract, _node(w.from), _node(v.from))
      BY <1>1, <3>1, WiresApart, FindsJoined, EndsAreNodes
    <3>3. _node(w.from) \in S BY <2>5
    <3>4. _node(v.from) \in S BY <2>5, <2>6, <3>2, <3>3 DEF Joined
    <3> QED BY <2>5, <3>1, <3>4
  <2>8. w \in group(w) OBVIOUS
  <2> HIDE DEF group
  <2>9. g.nets = {w.net} BY <2>1, <2>7, <2>8
  <2> QED BY <2>9, FS_Singleton
<1> QED BY <1>1, LoadedAlways, PTL


-----------------------------------------------------------------------------
(* The tables and the gates.                                               *)

\* Of one contract, elements of one id are the same.
LEMMA OneOfEach ==
  ASSUME NEW S, IsFiniteSet(S), ~RepeatsId(S)
  PROVE  \A x, y \in S : x.id = y.id => x = y
<1>1. PICK f : f = [x \in S |-> x.id] OBVIOUS
<1>2. f \in Surjection(S, Ids(S)) BY <1>1 DEF Surjection, Ids
<1>3. /\ IsFiniteSet(Ids(S)) /\ Cardinality(Ids(S)) <= Cardinality(S)
      /\ Cardinality(Ids(S)) = Cardinality(S) <=> f \in Injection(S, Ids(S))
  BY <1>2, FS_Surjection
<1>4. Cardinality(S) \in Nat /\ Cardinality(Ids(S)) \in Nat BY <1>3, FS_CardinalityType
<1>5. f \in Injection(S, Ids(S)) BY <1>3, <1>4 DEF RepeatsId
<1> QED BY <1>1, <1>5 DEF Injection, IsInjective

\* What an id finds.
LEMMA Found ==
  ASSUME NEW S, NEW x \in S, \A y \in S : y.id = x.id => y = x
  PROVE  ById(S, x.id) = x
BY DEF ById

\* A sum, rounded or not.
Plus(rounded, x, y) == IF rounded THEN Float(x + y) ELSE x + y

\* The sums of the first numbers of a.
Sums(n, a, rounded, f) == f = [i \in 0..n |-> IF i = 0 THEN 0 ELSE Plus(rounded, f[i - 1], a[i])]

\* There is such a function: a least n without one would have one.
LEMMA SumsExist ==
  ASSUME NEW n \in Nat, NEW a, NEW rounded
  PROVE  \E f : Sums(n, a, rounded, f)
<1>1. \E f : Sums(0, a, rounded, f)
  <2>1. Sums(0, a, rounded, [i \in 0..0 |-> 0]) BY DEF Sums
  <2> QED BY <2>1
<1>2. ASSUME NEW k \in Nat, NEW f, Sums(k, a, rounded, f) PROVE \E g : Sums(k + 1, a, rounded, g)
  <2>1. PICK g : g = [i \in 0..(k + 1) |-> IF i <= k THEN f[i] ELSE Plus(rounded, f[k], a[k + 1])] OBVIOUS
  <2>2. \A i \in 0..k : f[i] = IF i = 0 THEN 0 ELSE Plus(rounded, f[i - 1], a[i]) BY <1>2 DEF Sums
  <2>3. \A i \in 0..k : g[i] = f[i] BY <2>1
  <2>4. ASSUME NEW i \in 0..(k + 1)
        PROVE  g[i] = IF i = 0 THEN 0 ELSE Plus(rounded, g[i - 1], a[i])
    <3>1. CASE i <= k
      <4>1. i \in 0..k /\ (i # 0 => i - 1 \in 0..k) BY <3>1
      <4> QED BY <2>2, <2>3, <4>1
    <3>2. CASE i = k + 1
      <4>1. g[i] = Plus(rounded, f[k], a[k + 1]) BY <2>1, <3>2
      <4>2. i # 0 /\ i - 1 = k /\ k \in 0..k BY <3>2
      <4>3. g[i - 1] = f[k] BY <2>3, <4>2
      <4> QED BY <3>2, <4>1, <4>2, <4>3
    <3> QED BY <3>1, <3>2
  <2>5. g = [i \in 0..(k + 1) |-> g[i]] BY <2>1
  <2>6. Sums(k + 1, a, rounded, g) BY <2>4, <2>5 DEF Sums
  <2> QED BY <2>6
<1>3. ASSUME ~ \E f : Sums(n, a, rounded, f) PROVE FALSE
  <2> DEFINE Lost == {k \in 1..n : ~ \E f : Sums(k, a, rounded, f)}
  <2>1. n # 0 BY <1>1, <1>3
  <2>2. n \in Lost BY <1>3, <2>1
  <2>3. PICK k \in Lost : \A j \in Lost : k <= j
    <3>1. Lost \subseteq 1..n /\ Lost # {} BY <2>2
    <3> HIDE DEF Lost
    <3> QED BY <3>1, HasFirst
  <2>4. k \in 1..n /\ ~ \E f : Sums(k, a, rounded, f) BY <2>3
  <2>5. k - 1 \in Nat /\ (k - 1) + 1 = k BY <2>4
  <2>6. \E f : Sums(k - 1, a, rounded, f)
    <3>1. CASE k = 1 BY <3>1, <1>1
    <3>2. CASE k # 1
      <4>1. k - 1 \in 1..n BY <2>4, <3>2
      <4>2. k - 1 \notin Lost BY <2>3, <2>5
      <4> QED BY <4>1, <4>2
    <3> QED BY <3>1, <3>2
  <2>7. PICK f : Sums(k - 1, a, rounded, f) BY <2>6
  <2>8. \E g : Sums((k - 1) + 1, a, rounded, g) BY <1>2, <2>5, <2>7
  <2> QED BY <2>4, <2>5, <2>8
<1> QED BY <1>3

\* Rounding gives a number and leaves it as it is.
Rounds == \A n \in Nat : Float(n) \in Nat /\ Float(Float(n)) = Float(n)

\* How a sum along a route begins and goes on.
SumOf(n, a, rounded, f) ==
  f[0] = 0 /\ \A i \in 1..n : f[i] = Plus(rounded, f[i - 1], a[i])

\* The stations and the lengths of a route are such sums.
LEMMA RouteSums ==
  ASSUME NEW r, NEW n \in Nat, n = Len(r.segments)
  PROVE  /\ SumOf(n, [i \in 1..n |-> Float(r.segments[i].length * 1000)], TRUE, stations(r))
         /\ SumOf(n, [i \in 1..n |-> r.segments[i].length], FALSE, Lengths(r))
<1>1. PICK s : s = r.segments OBVIOUS
<1>2. ASSUME NEW a, NEW rounded, NEW f, Sums(n, a, rounded, f) PROVE SumOf(n, a, rounded, f)
  <2>1. PICK h : h = [i \in 0..n |-> IF i = 0 THEN 0 ELSE Plus(rounded, f[i - 1], a[i])] OBVIOUS
  <2>2. f = h BY <1>2, <2>1 DEF Sums
  <2>3. \A i \in 0..n : h[i] = IF i = 0 THEN 0 ELSE Plus(rounded, f[i - 1], a[i]) BY <2>1
  <2> QED BY <2>2, <2>3 DEF SumOf
<1>3. SumOf(n, [i \in 1..n |-> Float(r.segments[i].length * 1000)], TRUE, stations(r))
  <2> DEFINE Of(h) == h = [i \in 0..n |-> IF i = 0 THEN 0 ELSE Float(h[i - 1] + Float(s[i].length * 1000))]
  <2>1. PICK a : a = [i \in 1..n |-> Float(s[i].length * 1000)] OBVIOUS
  <2>2. ASSUME NEW h PROVE Sums(n, a, TRUE, h) <=> Of(h)
    <3> DEFINE at(i) == Float(h[i - 1] + Float(s[i].length * 1000))
    <3>1. PICK u : u = [i \in 0..n |-> IF i = 0 THEN 0 ELSE Plus(TRUE, h[i - 1], a[i])] OBVIOUS
    <3>2. ASSUME NEW i \in 0..n, i # 0 PROVE Plus(TRUE, h[i - 1], a[i]) = at(i)
      <4>1. i \in 1..n BY <3>2
      <4> QED BY <2>1, <4>1 DEF Plus
    <3>3. Of(h) <=> h = [i \in 0..n |-> IF i = 0 THEN 0 ELSE at(i)] OBVIOUS
    <3> HIDE DEF at, Of
    <3>4. u = [i \in 0..n |-> IF i = 0 THEN 0 ELSE at(i)] BY <3>1, <3>2
    <3> QED BY <3>1, <3>3, <3>4 DEF Sums
  <2>3. stations(r) = CHOOSE g : Of(g) BY <1>1 DEF stations
  <2> HIDE DEF Of
  <2>4. PICK h : Sums(n, a, TRUE, h) BY SumsExist
  <2>5. Of(h) BY <2>2, <2>4
  <2>6. Of(stations(r)) BY <2>3, <2>5
  <2>7. Sums(n, a, TRUE, stations(r)) BY <2>2, <2>6
  <2>8. SumOf(n, a, TRUE, stations(r)) BY <1>2, <2>7
  <2>9. a = [i \in 1..n |-> Float(r.segments[i].length * 1000)] BY <1>1, <2>1
  <2> QED BY <2>8, <2>9
<1>4. SumOf(n, [i \in 1..n |-> r.segments[i].length], FALSE, Lengths(r))
  <2> DEFINE Of(h) == h = [i \in 0..n |-> IF i = 0 THEN 0 ELSE h[i - 1] + s[i].length]
  <2>1. PICK a : a = [i \in 1..n |-> s[i].length] OBVIOUS
  <2>2. ASSUME NEW h PROVE Sums(n, a, FALSE, h) <=> Of(h)
    <3>1. PICK u : u = [i \in 0..n |-> IF i = 0 THEN 0 ELSE Plus(FALSE, h[i - 1], a[i])] OBVIOUS
    <3>2. PICK v : v = [i \in 0..n |-> IF i = 0 THEN 0 ELSE h[i - 1] + s[i].length] OBVIOUS
    <3>3. \A i \in 0..n : i # 0 => a[i] = s[i].length BY <2>1
    <3>4. \A i \in 0..n : u[i] = v[i] BY <3>1, <3>2, <3>3 DEF Plus
    <3>5. u = v BY <3>1, <3>2, <3>4
    <3> QED BY <3>1, <3>2, <3>5 DEF Sums
  <2>3. Lengths(r) = CHOOSE g : Of(g) BY <1>1 DEF Lengths
  <2> HIDE DEF Of
  <2>4. PICK h : Sums(n, a, FALSE, h) BY SumsExist
  <2>5. Of(h) BY <2>2, <2>4
  <2>6. Of(Lengths(r)) BY <2>3, <2>5
  <2>7. Sums(n, a, FALSE, Lengths(r)) BY <2>2, <2>6
  <2> QED BY <1>1, <1>2, <2>1, <2>7
<1> QED BY <1>3, <1>4

\* What the formboard adds up piece by piece is the length of a route that is
\* one segment or needs no rounding.
LEMMA LastStation ==
  ASSUME Rounds, NEW r, HarnessRouteOK(r), Len(r.segments) = 1 \/ Unrounded(r)
  PROVE  stations(r)[Len(r.segments)] = route_length_mm(r)
<1>1. PICK s, f, g : s = r.segments /\ f = stations(r) /\ g = Lengths(r) OBVIOUS
<1>2. PICK n \in Nat : n = Len(s) /\ DOMAIN s = 1..n
  <2>1. s \in Seq(Elems(s)) BY <1>1 DEF HarnessRouteOK
  <2> QED BY <2>1, LenProperties
<1>3. \A i \in 1..n : s[i].length \in Nat /\ Float(s[i].length) = s[i].length
  BY <1>1, <1>2 DEF HarnessRouteOK, Elems, RouteSegmentOK, Length, Positive
<1>4. /\ f[0] = 0 /\ \A i \in 1..n : f[i] = Float(f[i - 1] + Float(s[i].length * 1000))
      /\ g[0] = 0 /\ \A i \in 1..n : g[i] = g[i - 1] + s[i].length
  <2>1. PICK a, b : a = [i \in 1..n |-> Float(s[i].length * 1000)] /\ b = [i \in 1..n |-> s[i].length]
    OBVIOUS
  <2>2. SumOf(n, a, TRUE, f) /\ SumOf(n, b, FALSE, g)
    <3>1. /\ SumOf(n, [i \in 1..n |-> Float(r.segments[i].length * 1000)], TRUE, stations(r))
          /\ SumOf(n, [i \in 1..n |-> r.segments[i].length], FALSE, Lengths(r))
      BY <1>1, <1>2, RouteSums
    <3>2. /\ a = [i \in 1..n |-> Float(r.segments[i].length * 1000)]
          /\ b = [i \in 1..n |-> r.segments[i].length]
      BY <1>1, <2>1
    <3> QED BY <1>1, <3>1, <3>2
  <2>3. \A i \in 1..n : a[i] = Float(s[i].length * 1000) /\ b[i] = s[i].length BY <2>1
  <2> QED BY <2>2, <2>3 DEF SumOf, Plus
<1>5. route_length_mm(r) = Float(Float(g[n]) * 1000) BY <1>1, <1>2 DEF route_length_mm
<1>6. CASE n = 1
  <2>1. PICK l \in Nat : l = s[1].length /\ Float(l) = l BY <1>3, <1>6
  <2>2. g[1] = l /\ f[1] = Float(0 + Float(l * 1000))
    <3>1. 1 \in 1..n /\ 1 - 1 = 0 BY <1>6
    <3> QED BY <1>4, <2>1, <3>1
  <2>3. PICK m \in Nat : m = Float(l * 1000) /\ Float(m) = m BY <2>1 DEF Rounds
  <2>4. f[1] = m BY <2>2, <2>3
  <2>5. route_length_mm(r) = m BY <1>5, <1>6, <2>1, <2>2, <2>3
  <2> QED BY <1>1, <1>2, <1>6, <2>4, <2>5
<1>7. CASE n # 1
  <2>0. \A i \in 1..n : /\ Float(g[i]) = g[i] /\ Float(g[i] * 1000) = g[i] * 1000
                        /\ Float(s[i].length * 1000) = s[i].length * 1000
    BY <1>1, <1>2, <1>7 DEF Unrounded
  <2> DEFINE Off == {i \in 1..n : ~(g[i] \in Nat /\ f[i] = g[i] * 1000)}
  <2>1. Off = {}
    <3> SUFFICES ASSUME Off # {} PROVE FALSE OBVIOUS
    <3>1. PICK k \in Off : \A j \in Off : k <= j
      <4>1. Off \subseteq 1..n OBVIOUS
      <4> HIDE DEF Off
      <4> QED BY <4>1, HasFirst
    <3>2. k \in 1..n /\ ~(g[k] \in Nat /\ f[k] = g[k] * 1000) BY <3>1
    <3>3. g[k - 1] \in Nat /\ f[k - 1] = g[k - 1] * 1000
      <4>1. CASE k = 1 BY <1>4, <4>1
      <4>2. CASE k # 1
        <5>1. k - 1 \in 1..n /\ ~(k <= k - 1) BY <3>2, <4>2
        <5> QED BY <3>1, <5>1
      <4> QED BY <4>1, <4>2
    <3>4. PICK l \in Nat : l = s[k].length /\ Float(l * 1000) = l * 1000 BY <1>3, <2>0, <3>2
    <3>5. PICK x \in Nat : x = g[k - 1] BY <3>3
    <3>6. g[k] = x + l /\ f[k] = Float(x * 1000 + l * 1000)
      BY <1>4, <3>2, <3>3, <3>4, <3>5
    <3>7. x * 1000 + l * 1000 = (x + l) * 1000 BY <3>4, <3>5
    <3>8. Float((x + l) * 1000) = (x + l) * 1000 BY <2>0, <3>2, <3>6
    <3> QED BY <3>2, <3>4, <3>5, <3>6, <3>7, <3>8
  <2>2. CASE n = 0
    <3>1. s # <<>> BY <1>1 DEF HarnessRouteOK
    <3>2. s \in Seq(Elems(s)) BY <1>1 DEF HarnessRouteOK
    <3> QED BY <1>2, <2>2, <3>1, <3>2, EmptySeq
  <2>3. CASE n # 0
    <3>1. n \in 1..n BY <2>3
    <3>2. g[n] \in Nat /\ f[n] = g[n] * 1000 BY <2>1, <3>1
    <3>3. Float(g[n]) = g[n] /\ Float(g[n] * 1000) = g[n] * 1000 BY <2>0, <3>1
    <3> QED BY <1>1, <1>2, <1>5, <3>2, <3>3
  <2> QED BY <2>2, <2>3
<1> QED BY <1>6, <1>7

\* What the loader checks of wires, their types and routes.
Plain(c) ==
  /\ IsFiniteSet(c.wires) /\ \A v, w \in c.wires : v.id = w.id => v = w
  /\ \A r \in c.routes : HarnessRouteOK(r)
  /\ \A r, q \in c.routes : r.id = q.id => r = q
  /\ \A w \in c.wires : /\ w.wire_type \in Ids(c.wire_types)
                        /\ w.route # None => w.route \in Ids(c.routes)

\* So they are in every contract that is drafted.
LEMMA PlainAlways ==
  ASSUME Loaded
  PROVE  Plain(contract)
<1>1. CASE contract = Empty
  <2>1. contract.wires = {} /\ contract.routes = {} BY <1>1 DEF Empty
  <2> QED BY <2>1, FS_EmptySet DEF Plain
<1>2. CASE load_contract(contract)
  <2>1. PICK S, R : S = contract.wires /\ R = contract.routes OBVIOUS
  <2>2. IsFiniteSet(S) /\ ~RepeatsId(S) /\ IsFiniteSet(R) /\ ~RepeatsId(R)
    BY <1>2, <2>1 DEF load_contract, validate_contract
  <2>3. /\ \A v, w \in S : v.id = w.id => v = w
        /\ \A r, q \in R : r.id = q.id => r = q
    BY <2>2, OneOfEach
  <2> QED BY <1>2, <2>1, <2>2, <2>3 DEF Plain, load_contract, validate_contract
<1> QED BY <1>1, <1>2 DEF Loaded

\* A wire is short on the formboard exactly when route_fit says so.
LEMMA BoardsAgree ==
  ASSUME Rounds, NEW c, Plain(c), \A r \in c.routes : Len(r.segments) = 1 \/ Unrounded(r)
  PROVE  formboard(c).short = {} <=> Passes(_check_route_fit(c))
<1>1. formboard(c).short = {} <=>
        \A w \in c.wires : \A r \in c.routes :
          w.route = r.id => ~(Float(w.length * 1000) < stations(r)[Len(r.segments)])
  <2> DEFINE Short == {v \in c.wires : \E r \in c.routes :
                         v.route = r.id /\ Float(v.length * 1000) < stations(r)[Len(r.segments)]}
  <2>1. formboard(c).short = {w.id : w \in Short} BY DEF formboard
  <2>2. formboard(c).short = {} <=> Short = {}
    <3> HIDE DEF Short
    <3> QED BY <2>1
  <2> QED BY <2>2
<1>2. Passes(_check_route_fit(c)) <=>
        \A w \in c.wires : w.route # None => ~(Float(w.length * 1000) < route_length_mm(route_map(c, w.route)))
  <2> DEFINE Fits(w) == Status(Float(w.length * 1000) < route_length_mm(route_map(c, w.route)), FALSE)
             On == {v \in c.wires : v.route # None}
  <2>1. _check_route_fit(c) = {Check("route_fit", <<w.id>>, Fits(w)) : w \in On}
    BY DEF _check_route_fit
  <2>2. \A w \in On : Fits(w) = "pass" <=> ~(Float(w.length * 1000) < route_length_mm(route_map(c, w.route)))
    BY DEF Status
  <2>3. Passes(_check_route_fit(c)) <=> \A w \in On : Fits(w) = "pass"
    <3> HIDE DEF Fits, On
    <3>1. PICK G : G = {Check("route_fit", <<w.id>>, Fits(w)) : w \in On} OBVIOUS
    <3>2. ASSUME NEW w \in On PROVE \E k \in G : k.status = Fits(w)
      <4>1. PICK k : k = Check("route_fit", <<w.id>>, Fits(w)) OBVIOUS
      <4>2. k \in G /\ k.status = Fits(w) BY <3>1, <4>1 DEF Check
      <4> QED BY <4>2
    <3>3. ASSUME NEW k \in G PROVE \E w \in On : k.status = Fits(w)
      <4>1. PICK w \in On : k = Check("route_fit", <<w.id>>, Fits(w)) BY <3>1
      <4>2. k.status = Fits(w) BY <4>1 DEF Check
      <4> QED BY <4>2
    <3>4. Passes(G) <=> \A k \in G : k.status = "pass" BY DEF Passes, Verdict
    <3> QED BY <2>1, <3>1, <3>2, <3>3, <3>4
  <2>4. \A w : w \in On <=> w \in c.wires /\ w.route # None OBVIOUS
  <2> HIDE DEF Fits, On
  <2> QED BY <2>2, <2>3, <2>4
<1>3. ASSUME NEW r \in c.routes
      PROVE  /\ r.id # None /\ route_map(c, r.id) = r
             /\ stations(r)[Len(r.segments)] = route_length_mm(r)
  <2>1. HarnessRouteOK(r) BY DEF Plain
  <2>2. ById(c.routes, r.id) = r BY Found DEF Plain
  <2> QED BY <2>1, <2>2, LastStation DEF HarnessRouteOK, route_map
<1>4. ASSUME NEW w \in c.wires
      PROVE  (\A r \in c.routes :
                w.route = r.id => ~(Float(w.length * 1000) < stations(r)[Len(r.segments)]))
             <=> (w.route # None => ~(Float(w.length * 1000) < route_length_mm(route_map(c, w.route))))
  <2>1. CASE w.route = None BY <1>3, <2>1
  <2>2. CASE w.route # None
    <3>1. PICK r \in c.routes : r.id = w.route BY <2>2 DEF Plain, Ids
    <3>2. \A q \in c.routes : q.id = w.route => q = r BY <3>1 DEF Plain
    <3> QED BY <1>3, <2>2, <3>1, <3>2
  <2> QED BY <2>1, <2>2
<1> QED BY <1>1, <1>2, <1>4

\* The ends of a wire.
EndA(w) == [wire |-> w, end |-> "a", at |-> w.from, terminal |-> w.terminal_a]
EndB(w) == [wire |-> w, end |-> "b", at |-> w.to, terminal |-> w.terminal_b]

\* What the ends of a wire are.
LEMMA EndFields ==
  ASSUME NEW w
  PROVE  /\ EndA(w).wire = w /\ EndA(w).end = "a" /\ EndA(w).terminal = w.terminal_a
         /\ EndB(w).wire = w /\ EndB(w).end = "b" /\ EndB(w).terminal = w.terminal_b
BY DEF EndA, EndB

\* A wire has two ends and shares none.
LEMMA TwoEndsEach ==
  ASSUME NEW c
  PROVE  Ends(c) = {EndA(w) : w \in c.wires} \union {EndB(w) : w \in c.wires}
BY DEF Ends, EndA, EndB

\* There are finitely many.
LEMMA FiniteEnds ==
  ASSUME NEW c, IsFiniteSet(c.wires)
  PROVE  IsFiniteSet(Ends(c))
<1>1. PICK W : W = c.wires OBVIOUS
<1>2. PICK f, g : f = [w \in W |-> EndA(w)] /\ g = [w \in W |-> EndB(w)] OBVIOUS
<1>3. PICK A, B : A = {f[w] : w \in W} /\ B = {g[w] : w \in W} OBVIOUS
<1>4. f \in [W -> A] /\ g \in [W -> B] BY <1>2, <1>3
<1>5. IsFiniteSet(A) /\ IsFiniteSet(B) BY <1>1, <1>3, <1>4, ImageFinite
<1>6. A = {EndA(w) : w \in W} /\ B = {EndB(w) : w \in W} BY <1>2, <1>3
<1>7. Ends(c) = A \union B BY <1>1, <1>6, TwoEndsEach
<1> QED BY <1>5, <1>7, FS_Union

\* When the terminals pass, every end at a connector declares its own.
LEMMA TerminalsDeclared ==
  ASSUME NEW c, Passes(_check_terminal_compatibility(c)), NEW t \in Ends(c)
  PROVE  BomTerminal(c, t) = t.terminal
<1>1. CASE t.terminal # None \/ t.at.connector = None BY <1>1 DEF BomTerminal
<1>2. CASE t.terminal = None /\ t.at.connector # None
  <2>1. t \in Terminations(c) BY <1>2 DEF Terminations
  <2> DEFINE v == CavityAt(c, t.at)
             gauge == TypeOf(c, t.wire).gauge
             bad == \/ v.accepts # None /\ gauge \notin v.accepts[1]..v.accepts[2]
                    \/ None \notin {t.terminal, v.terminal} /\ t.terminal # v.terminal
             doubt == v.accepts = None \/ None \in {t.terminal, v.terminal}
  <2>2. Check("terminal_compatibility", <<t.wire.id, t.end>>, Status(bad, doubt))
          \in _check_terminal_compatibility(c)
    BY <2>1 DEF _check_terminal_compatibility
  <2>3. doubt BY <1>2
  <2>4. Status(bad, doubt) # "pass" BY <2>3 DEF Status
  <2> HIDE DEF bad, doubt
  <2>5. PICK s : s = Status(bad, doubt) OBVIOUS
  <2>6. PICK k : k = Check("terminal_compatibility", <<t.wire.id, t.end>>, s) OBVIOUS
  <2>7. k.status = s BY <2>6 DEF Check
  <2> QED BY <2>2, <2>4, <2>5, <2>6, <2>7 DEF Passes, Verdict
<1> QED BY <1>1, <1>2

\* The terminals bought are the ends of the wires.
LEMMA TerminalsAgree ==
  ASSUME NEW c, Plain(c), Passes(_check_terminal_compatibility(c)),
         NEW name \in DOMAIN _bom(c).terminals, name \notin {y.name : y \in c.wire_types}
  PROVE  _bom(c).terminals[name] = Cardinality(CutEnds(c, name))
<1> DEFINE T == {t \in Ends(c) : t.terminal = name}
           Same(w) == {v \in c.wires : CutKey(c, v) = CutKey(c, w)}
           Row(w) == [key |-> CutKey(c, w), wires |-> Ids(Same(w))]
           At(t) == <<Row(t.wire), t.wire.id, IF t.end = "a" THEN 5 ELSE 7>>
<1>1. name # None /\ _bom(c).terminals[name] = Cardinality(T)
  <2>1. _bom(c).terminals = [n \in {BomTerminal(c, t) : t \in Ends(c)} \ {None} |->
                               Cardinality({t \in Ends(c) : BomTerminal(c, t) = n})]
    BY DEF _bom
  <2>2. {t \in Ends(c) : BomTerminal(c, t) = name} = T BY TerminalsDeclared
  <2> HIDE DEF T
  <2> QED BY <2>1, <2>2
<1>2. ASSUME NEW w \in c.wires
      PROVE  /\ CutKey(c, w)[5] = name <=> w.terminal_a = name
             /\ CutKey(c, w)[7] = name <=> w.terminal_b = name
  <2>1. TypeOf(c, w).name # name
    <3>1. w.wire_type \in Ids(c.wire_types) BY DEF Plain
    <3>2. TypeOf(c, w) \in c.wire_types BY <3>1 DEF TypeOf, wire_type_map, ById, Ids
    <3> QED BY <3>2
  <2>2. /\ CutKey(c, w)[5] = (IF w.terminal_a = None THEN TypeOf(c, w).name ELSE w.terminal_a)
        /\ CutKey(c, w)[7] = (IF w.terminal_b = None THEN TypeOf(c, w).name ELSE w.terminal_b)
    BY DEF CutKey
  <2> QED BY <1>1, <2>1, <2>2
<1>3. \A w \in c.wires : Row(w).key = CutKey(c, w) /\ Row(w).wires = Ids(Same(w)) OBVIOUS
<1>4. _cut_table_csv(c) = {Row(w) : w \in c.wires} BY DEF _cut_table_csv
<1> HIDE DEF Row
<1>5. \A x : x \in CutEnds(c, name) <=>
               \E w \in c.wires : \E u \in Row(w).wires : \E i \in {5, 7} :
                 Row(w).key[i] = name /\ x = <<Row(w), u, i>>
  BY <1>4 DEF CutEnds
<1>6. ASSUME NEW t \in T
      PROVE  /\ t.wire \in c.wires
             /\ \/ t.end = "a" /\ t = EndA(t.wire) /\ t.wire.terminal_a = name
                \/ t.end = "b" /\ t = EndB(t.wire) /\ t.wire.terminal_b = name
  <2>1. t \in Ends(c) /\ t.terminal = name OBVIOUS
  <2>2. CASE \E w \in c.wires : t = EndA(w)
    <3>1. PICK w \in c.wires : t = EndA(w) BY <2>2
    <3>2. t.wire = w /\ t.end = "a" /\ t.terminal = w.terminal_a BY <3>1, EndFields
    <3> QED BY <2>1, <3>1, <3>2
  <2>3. CASE \E w \in c.wires : t = EndB(w)
    <3>1. PICK w \in c.wires : t = EndB(w) BY <2>3
    <3>2. t.wire = w /\ t.end = "b" /\ t.terminal = w.terminal_b BY <3>1, EndFields
    <3> QED BY <2>1, <3>1, <3>2
  <2> QED BY <2>1, <2>2, <2>3, TwoEndsEach
<1>7. PICK f : f = [t \in T |-> At(t)] OBVIOUS
<1>8. ASSUME NEW t \in T PROVE f[t] \in CutEnds(c, name)
  <2>1. t.wire \in c.wires /\ t.wire \in Same(t.wire) BY <1>6
  <2>2. t.wire.id \in Row(t.wire).wires BY <1>3, <2>1 DEF Ids
  <2>3. CASE t.end = "a"
    <3>1. t.wire.terminal_a = name BY <1>6, <2>3
    <3>2. Row(t.wire).key[5] = name BY <1>2, <1>3, <2>1, <3>1
    <3>3. f[t] = <<Row(t.wire), t.wire.id, 5>> BY <1>7, <2>3
    <3> QED BY <1>5, <2>1, <2>2, <3>2, <3>3
  <2>4. CASE t.end # "a"
    <3>1. t.wire.terminal_b = name BY <1>6, <2>4
    <3>2. Row(t.wire).key[7] = name BY <1>2, <1>3, <2>1, <3>1
    <3>3. f[t] = <<Row(t.wire), t.wire.id, 7>> BY <1>7, <2>4
    <3> QED BY <1>5, <2>1, <2>2, <3>2, <3>3
  <2> QED BY <2>3, <2>4
<1>9. ASSUME NEW t \in T, NEW u \in T, f[t] = f[u] PROVE t = u
  <2>1. f[t] = At(t) /\ f[u] = At(u) BY <1>7
  <2>2. t.wire.id = u.wire.id /\ (t.end = "a" <=> u.end = "a")
    <3>1. PICK i, j : /\ i = (IF t.end = "a" THEN 5 ELSE 7)
                      /\ j = (IF u.end = "a" THEN 5 ELSE 7)
      OBVIOUS
    <3>2. <<Row(t.wire), t.wire.id, i>> = <<Row(u.wire), u.wire.id, j>> BY <1>9, <2>1, <3>1
    <3>3. t.wire.id = u.wire.id /\ i = j BY <3>2
    <3> QED BY <3>1, <3>3
  <2>3. t.wire = u.wire BY <1>6, <2>2 DEF Plain
  <2> QED BY <1>6, <2>2, <2>3
<1>10. ASSUME NEW x \in CutEnds(c, name) PROVE \E t \in T : f[t] = x
  <2>1. PICK w \in c.wires : \E u \in Row(w).wires : \E i \in {5, 7} :
          Row(w).key[i] = name /\ x = <<Row(w), u, i>>
    BY <1>5
  <2>2. PICK u \in Row(w).wires, i \in {5, 7} : Row(w).key[i] = name /\ x = <<Row(w), u, i>>
    BY <2>1
  <2>3. PICK v \in Same(w) : u = v.id BY <1>3, <2>2 DEF Ids
  <2>4. v \in c.wires /\ CutKey(c, v) = CutKey(c, w) BY <2>3
  <2>5. Row(v) = Row(w) BY <2>4 DEF Row
  <2>6. CASE i = 5
    <3>1. v.terminal_a = name BY <1>2, <1>3, <2>2, <2>4, <2>6
    <3>2. EndA(v) \in T BY <2>4, <3>1, TwoEndsEach, EndFields
    <3>3. f[EndA(v)] = At(EndA(v)) BY <1>7, <3>2
    <3>4. At(EndA(v)) = <<Row(v), v.id, 5>>
      <4>1. PICK t : t = EndA(v) OBVIOUS
      <4>2. t.wire = v /\ t.end = "a" BY <4>1, EndFields
      <4>3. At(t) = <<Row(v), v.id, 5>> BY <4>2
      <4> QED BY <4>1, <4>3
    <3> QED BY <2>2, <2>3, <2>5, <2>6, <3>2, <3>3, <3>4
  <2>7. CASE i = 7
    <3>1. v.terminal_b = name BY <1>2, <1>3, <2>2, <2>4, <2>7
    <3>2. EndB(v) \in T BY <2>4, <3>1, TwoEndsEach, EndFields
    <3>3. f[EndB(v)] = At(EndB(v)) BY <1>7, <3>2
    <3>4. At(EndB(v)) = <<Row(v), v.id, 7>>
      <4>1. PICK t : t = EndB(v) OBVIOUS
      <4>2. t.wire = v /\ t.end = "b" BY <4>1, EndFields
      <4>3. At(t) = <<Row(v), v.id, 7>> BY <4>2
      <4> QED BY <4>1, <4>3
    <3> QED BY <2>2, <2>3, <2>5, <2>7, <3>2, <3>3, <3>4
  <2> QED BY <2>2, <2>6, <2>7
<1>11. f \in Bijection(T, CutEnds(c, name))
  <2>1. PICK X : X = CutEnds(c, name) OBVIOUS
  <2> HIDE DEF T
  <2>2. f \in [T -> X] BY <1>7, <1>8, <2>1
  <2> QED BY <1>9, <1>10, <2>1, <2>2 DEF Bijection, Injection, Surjection, IsInjective
<1>12. IsFiniteSet(T)
  <2>1. IsFiniteSet(Ends(c)) BY FiniteEnds DEF Plain
  <2> QED BY <2>1, FS_Subset
<1>13. Cardinality(T) = Cardinality(CutEnds(c, name))
  <2> HIDE DEF T
  <2> QED BY <1>11, <1>12, FS_Bijection DEF ExistsBijection
<1> QED BY <1>1, <1>13

\* However numbers are rounded, so long as what is rounded stays as it is:
\* the formboard and route_fit agree of any contract whose routes are one
\* segment or need no rounding, and once the terminals pass the bill of
\* materials counts the ends of the cut table (formboard, _check_route_fit,
\* _bom, _cut_table_csv).
THEOREM TablesAlwaysAgree == ASSUME Rounds PROVE Spec => []TablesAgree
<1>1. ASSUME Loaded PROVE TablesAgree
  <2>1. PICK c : c = contract OBVIOUS
  <2>2. Plain(c) BY <1>1, <2>1, PlainAlways
  <2>3. (\A r \in c.routes : Len(r.segments) = 1 \/ Unrounded(r)) =>
          (formboard(c).short = {} <=> Passes(_check_route_fit(c)))
    BY <2>2, BoardsAgree
  <2>5. ASSUME Passes(_check_terminal_compatibility(c)),
               NEW name \in DOMAIN _bom(c).terminals \ {y.name : y \in c.wire_types}
        PROVE  _bom(c).terminals[name] = Cardinality(CutEnds(c, name))
    BY <2>2, <2>5, TerminalsAgree
  <2> QED BY <2>1, <2>3, <2>5 DEF TablesAgree
<1> QED BY <1>1, LoadedAlways, PTL

-----------------------------------------------------------------------------
(* Imports.                                                                *)

\* The elements after each of n copies.
Appends(n, elements, prefix, system, copies, f) ==
  f = [i \in 0..n |->
         IF i = 0 THEN elements
           ELSE IF copies[i].source.ref \in Known(elements, system) THEN f[i - 1]
           ELSE f[i - 1] \union {[copies[i] EXCEPT !.id = _next_id(prefix, Ids(f[i - 1]))]}]

\* There is such a function: a least n without one would have one.
LEMMA AppendsExist ==
  ASSUME NEW n \in Nat, NEW elements, NEW prefix, NEW system, NEW copies
  PROVE  \E f : Appends(n, elements, prefix, system, copies, f)
<1> DEFINE There(k) == \E f : Appends(k, elements, prefix, system, copies, f)
           more(i, S) == IF copies[i].source.ref \in Known(elements, system) THEN S
                           ELSE S \union {[copies[i] EXCEPT !.id = _next_id(prefix, Ids(S))]}
<1>0. \A k, f : Appends(k, elements, prefix, system, copies, f) <=>
        f = [i \in 0..k |-> IF i = 0 THEN elements ELSE more(i, f[i - 1])]
  BY DEF Appends
<1> HIDE DEF more
<1>1. There(0)
  <2>1. PICK f : f = [i \in 0..0 |-> elements] OBVIOUS
  <2>2. \A i \in 0..0 : i = 0 OBVIOUS
  <2>3. f = [i \in 0..0 |-> IF i = 0 THEN elements ELSE more(i, f[i - 1])] BY <2>1, <2>2
  <2> QED BY <1>0, <2>3
<1>2. ASSUME NEW k \in Nat, There(k) PROVE There(k + 1)
  <2>0. PICK f : f = [i \in 0..k |-> IF i = 0 THEN elements ELSE more(i, f[i - 1])] BY <1>0, <1>2
  <2>1. PICK e : e = more(k + 1, f[k]) OBVIOUS
  <2>2. PICK g : g = [i \in 0..(k + 1) |-> IF i <= k THEN f[i] ELSE e] OBVIOUS
  <2>3. \A i \in 0..k : g[i] = f[i] BY <2>2
  <2>4. ASSUME NEW i \in 0..(k + 1)
        PROVE  g[i] = IF i = 0 THEN elements ELSE more(i, g[i - 1])
    <3>1. CASE i <= k
      <4>1. i \in 0..k /\ (i # 0 => i - 1 \in 0..k) BY <3>1
      <4>2. f[i] = IF i = 0 THEN elements ELSE more(i, f[i - 1]) BY <2>0, <4>1
      <4> QED BY <2>3, <4>1, <4>2
    <3>2. CASE i = k + 1
      <4>1. g[i] = e BY <2>2, <3>2
      <4>2. i # 0 /\ i - 1 = k /\ k \in 0..k BY <3>2
      <4>3. g[i - 1] = f[k] BY <2>3, <4>2
      <4> QED BY <2>1, <3>2, <4>1, <4>2, <4>3
    <3> QED BY <3>1, <3>2
  <2>5. g = [i \in 0..(k + 1) |-> g[i]] BY <2>2
  <2>6. g = [i \in 0..(k + 1) |-> IF i = 0 THEN elements ELSE more(i, g[i - 1])] BY <2>4, <2>5
  <2> QED BY <1>0, <2>6
<1> HIDE DEF There
<1>3. ASSUME ~There(n) PROVE FALSE
  <2> DEFINE Lost == {k \in 1..n : ~There(k)}
  <2>1. n # 0 BY <1>1, <1>3
  <2>2. n \in Lost BY <1>3, <2>1
  <2>3. PICK k \in Lost : \A j \in Lost : k <= j
    <3>1. Lost \subseteq 1..n /\ Lost # {} BY <2>2
    <3> HIDE DEF Lost
    <3> QED BY <3>1, HasFirst
  <2>4. k \in 1..n /\ ~There(k) BY <2>3
  <2>5. k - 1 \in Nat /\ (k - 1) + 1 = k BY <2>4
  <2>6. There(k - 1)
    <3>1. CASE k = 1 BY <3>1, <1>1
    <3>2. CASE k # 1
      <4>1. k - 1 \in 1..n BY <2>4, <3>2
      <4>2. k - 1 \notin Lost BY <2>3, <2>5
      <4> QED BY <4>1, <4>2
    <3> QED BY <3>1, <3>2
  <2>7. There((k - 1) + 1) BY <1>2, <2>5, <2>6
  <2> QED BY <2>4, <2>5, <2>7
<1> QED BY <1>3 DEF There

\* What is appended is a copy of something that was not known.
Fresh(x, elements, system, copies) ==
  \E i \in DOMAIN copies : /\ copies[i].source.ref \notin Known(elements, system)
                           /\ \E id : x = [copies[i] EXCEPT !.id = id]

\* Every element was there or is fresh.
LEMMA AppendedIsFresh ==
  ASSUME NEW S, NEW copies \in Seq(S), NEW elements, NEW prefix, NEW source,
         NEW x \in AppendNew(elements, prefix, source, copies)
  PROVE  x \in elements \/ Fresh(x, elements, source.system, copies)
<1>0. PICK n \in Nat : n = Len(copies) /\ DOMAIN copies = 1..n BY LenProperties
<1>1. PICK system : system = source.system OBVIOUS
<1>2. PICK f : f = CHOOSE g : Appends(n, elements, prefix, system, copies, g) OBVIOUS
<1>3. Appends(n, elements, prefix, system, copies, f) BY <1>2, AppendsExist
<1>4. AppendNew(elements, prefix, source, copies) = f[n]
  BY <1>0, <1>1, <1>2 DEF AppendNew, Appends
<1>5. f = [i \in 0..n |->
             IF i = 0 THEN elements
               ELSE IF copies[i].source.ref \in Known(elements, system) THEN f[i - 1]
               ELSE f[i - 1] \union {[copies[i] EXCEPT !.id = _next_id(prefix, Ids(f[i - 1]))]}]
  BY <1>3 DEF Appends
<1>6. f[0] = elements BY <1>5
<1>7. ASSUME NEW i \in 1..n
      PROVE  \/ f[i] = f[i - 1]
             \/ /\ copies[i].source.ref \notin Known(elements, system)
                /\ \E id : f[i] = f[i - 1] \union {[copies[i] EXCEPT !.id = id]}
  <2>1. i \in 0..n /\ i # 0 OBVIOUS
  <2>2. PICK id : id = _next_id(prefix, Ids(f[i - 1])) OBVIOUS
  <2>3. f[i] = IF copies[i].source.ref \in Known(elements, system) THEN f[i - 1]
                 ELSE f[i - 1] \union {[copies[i] EXCEPT !.id = id]}
    BY <1>5, <2>1, <2>2
  <2> QED BY <2>3
<1> DEFINE Good(i) == \A y \in f[i] : y \in elements \/ Fresh(y, elements, system, copies)
           Wrong == {i \in 1..n : ~Good(i)}
<1>8. ASSUME NEW i \in 1..n, Good(i - 1) PROVE Good(i)
  <2> SUFFICES ASSUME NEW y \in f[i], y \notin f[i - 1] PROVE Fresh(y, elements, system, copies)
    BY <1>8
  <2>1. /\ copies[i].source.ref \notin Known(elements, system)
        /\ \E id : f[i] = f[i - 1] \union {[copies[i] EXCEPT !.id = id]}
    BY <1>7
  <2>2. \E id : y = [copies[i] EXCEPT !.id = id] BY <2>1
  <2> QED BY <1>0, <2>1, <2>2 DEF Fresh
<1>9. Good(0) BY <1>6
<1> HIDE DEF Good
<1>10. ASSUME Wrong # {} PROVE FALSE
  <2>1. PICK i \in Wrong : \A j \in Wrong : i <= j
    <3>1. Wrong \subseteq 1..n OBVIOUS
    <3> HIDE DEF Wrong
    <3> QED BY <1>10, <3>1, HasFirst
  <2>2. i \in 1..n /\ ~Good(i) BY <2>1
  <2>3. Good(i - 1)
    <3>1. CASE i = 1 BY <1>9, <3>1
    <3>2. CASE i # 1
      <4>1. i - 1 \in 1..n /\ ~(i <= i - 1) BY <2>2, <3>2
      <4> QED BY <2>1, <4>1
    <3> QED BY <3>1, <3>2
  <2> QED BY <1>8, <2>2, <2>3
<1>11. Good(n)
  <2>1. CASE n = 0 BY <1>9, <2>1
  <2>2. CASE n # 0 BY <1>10, <2>2
  <2> QED BY <2>1, <2>2
<1> QED BY <1>1, <1>4, <1>11 DEF Good

\* A source lists its connectors and nets.
IsList(v) ==
  v.system # "mech" =>
    v.connectors \in Seq(Elems(v.connectors)) /\ v.nets \in Seq(Elems(v.nets))

\* What is imported is what the file holds, unless it was overtaken.
TraceInv ==
  /\ DOMAIN files = Refs /\ \A r \in Refs : IsList(files[r])
  /\ \/ reading = None
     \/ /\ reading.ref \in Refs /\ IsList(reading.source)
        /\ ~overtaken => files[reading.ref] = reading.source
  /\ CopiesAreTraceable

\* An import copies what it does not know, and traces it.
LEMMA ImportTraces ==
  ASSUME CopiesAreTraceable, "connectors" \in DOMAIN contract, NEW source, IsList(source),
         source.system # "mech", NEW ref, NEW digest, ~overtaken => digest = source,
         contract' = import_connectivity(contract, source, ref, digest), UNCHANGED overtaken
  PROVE  CopiesAreTraceable'
<1>1. PICK S, from, items, system :
        /\ S = contract.connectors /\ system = source.system /\ items = source.connectors
        /\ from = [system |-> system, ref |-> ref, sha256 |-> digest]
  OBVIOUS
<1>2. PICK copies : copies = [i \in DOMAIN items |-> ImportedConnector(items[i], from)] OBVIOUS
<1>3. contract'.connectors = AppendNew(S, "C", from, copies)
  BY <1>1, <1>2 DEF import_connectivity
<1>4. \A e \in contract'.connectors : e \in S \/ Fresh(e, S, system, copies)
  <2>1. items \in Seq(Elems(items)) BY <1>1 DEF IsList
  <2>2. PICK n \in Nat : DOMAIN items = 1..n BY <2>1, LenProperties
  <2>3. PICK T : T = {copies[i] : i \in DOMAIN copies} OBVIOUS
  <2>4. copies \in [1..n -> T] BY <1>2, <2>2, <2>3
  <2>5. copies \in Seq(T) BY <2>4, SeqDef
  <2>6. from.system = system BY <1>1
  <2> QED BY <1>3, <2>5, <2>6, AppendedIsFresh
<1>5. ASSUME NEW e, Fresh(e, S, system, copies)
      PROVE  \E item \in Elems(items) :
               /\ e.source = [system |-> system, ref |-> item.ref, sha256 |-> digest]
               /\ item.ref \notin Known(S, system) /\ SameItem(e, item)
  <2>0. PICK i \in DOMAIN copies : /\ copies[i].source.ref \notin Known(S, system)
                                   /\ \E id : e = [copies[i] EXCEPT !.id = id]
    BY <1>5 DEF Fresh
  <2>1. PICK id : e = [copies[i] EXCEPT !.id = id] BY <2>0
  <2>2. PICK item \in Elems(items) : copies[i] = ImportedConnector(item, from)
    BY <1>2 DEF Elems
  <2>3. /\ copies[i].source.ref = item.ref /\ e.current = item.current /\ e.voltage = item.voltage
        /\ e.source = [system |-> system, ref |-> item.ref, sha256 |-> digest]
    <3>1. PICK from_item : from_item = [from EXCEPT !.ref = item.ref] OBVIOUS
    <3>2. from_item = [system |-> system, ref |-> item.ref, sha256 |-> digest] BY <1>1, <3>1
    <3>3. PICK family, housing, mate, cavities :
            /\ family = IF item.family = None THEN "imported" ELSE item.family
            /\ housing = IF item.generic THEN None ELSE item.housing
            /\ mate = IF item.generic THEN item.housing ELSE None
            /\ cavities = {[id |-> v, accepts |-> None, terminal |-> None] : v \in item.cavities}
      OBVIOUS
    <3>4. PICK copy : /\ copy = copies[i]
                      /\ copy = [id |-> None, family |-> family, housing |-> housing, mate |-> mate,
                           current |-> item.current, voltage |-> item.voltage, mating |-> 30,
                           keying |-> None, temperature |-> None, count |-> None,
                           source |-> from_item, cavities |-> cavities]
      BY <2>2, <3>1, <3>3 DEF ImportedConnector
    <3>5. e = [copy EXCEPT !.id = id] BY <2>1, <3>4
    <3>6. /\ copy.source = from_item /\ e.source = from_item
          /\ e.current = item.current /\ e.voltage = item.voltage
      BY <3>4, <3>5
    <3>7. from_item.ref = item.ref BY <3>2
    <3> QED BY <3>2, <3>4, <3>6, <3>7
  <2> QED BY <2>0, <2>3 DEF SameItem
<1>6. ASSUME NEW e \in S, NEW f, Fresh(f, S, system, copies), e.source # None
      PROVE  ~(e.source.system = f.source.system /\ e.source.ref = f.source.ref)
  <2>1. PICK item \in Elems(items) :
          /\ f.source = [system |-> system, ref |-> item.ref, sha256 |-> digest]
          /\ item.ref \notin Known(S, system)
    BY <1>5, <1>6
  <2>2. f.source.system = system /\ f.source.ref = item.ref BY <2>1
  <2> QED BY <1>6, <2>1, <2>2 DEF Known
<1>7. ASSUME NEW e \in contract'.connectors, NEW f \in contract'.connectors,
             e.source # None, f.source # None,
             e.source.system = f.source.system, e.source.ref = f.source.ref
      PROVE  e.source = f.source
  <2>1. CASE e \in S /\ f \in S BY <1>1, <1>7, <2>1 DEF CopiesAreTraceable
  <2>2. CASE Fresh(e, S, system, copies) /\ Fresh(f, S, system, copies)
    <3>1. PICK r : e.source = [system |-> system, ref |-> r, sha256 |-> digest] BY <1>5, <2>2
    <3>2. PICK q : f.source = [system |-> system, ref |-> q, sha256 |-> digest] BY <1>5, <2>2
    <3>3. e.source.ref = r /\ f.source.ref = q BY <3>1, <3>2
    <3> QED BY <1>7, <3>1, <3>2, <3>3
  <2>3. CASE e \in S /\ Fresh(f, S, system, copies) BY <1>6, <1>7, <2>3
  <2>4. CASE f \in S /\ Fresh(e, S, system, copies) BY <1>6, <1>7, <2>4
  <2> QED BY <1>4, <2>1, <2>2, <2>3, <2>4
<1>8. ASSUME ~overtaken, NEW e \in contract'.connectors, e.source # None
      PROVE  \E item \in Elems(e.source.sha256.connectors) : item.ref = e.source.ref /\ SameItem(e, item)
  <2>1. CASE e \in S BY <1>1, <1>8, <2>1 DEF CopiesAreTraceable
  <2>2. CASE Fresh(e, S, system, copies)
    <3>1. PICK item \in Elems(items) :
            /\ e.source = [system |-> system, ref |-> item.ref, sha256 |-> digest]
            /\ SameItem(e, item)
      BY <1>5, <2>2
    <3>2. e.source.sha256 = source /\ e.source.ref = item.ref BY <1>8, <3>1
    <3> QED BY <1>1, <3>1, <3>2
  <2> QED BY <1>4, <2>1, <2>2
<1> QED BY <1>7, <1>8 DEF CopiesAreTraceable, SameItem

\* An import of an envelope copies no connector.
LEMMA EnvelopeTraces ==
  ASSUME CopiesAreTraceable, "connectors" \in DOMAIN contract, "imported_sources" \in DOMAIN contract,
         NEW source, NEW ref, NEW digest,
         contract' = import_envelope(contract, source, ref, digest), UNCHANGED overtaken
  PROVE  CopiesAreTraceable'
<1>1. PICK sources : contract' = [contract EXCEPT !.imported_sources = sources] BY DEF import_envelope
<1>2. contract'.connectors = contract.connectors BY <1>1
<1> QED BY <1>2 DEF CopiesAreTraceable, SameItem

\* Each step keeps what can be traced.
LEMMA TraceInductive == TraceInv /\ Loaded /\ [Next]_vars => TraceInv'
<1> SUFFICES ASSUME TraceInv, Loaded, [Next]_vars PROVE TraceInv' OBVIOUS
<1>0. "connectors" \in DOMAIN contract /\ "imported_sources" \in DOMAIN contract
  BY DEF Loaded, Empty, load_contract, HarnessContract
<1>1. CASE UNCHANGED vars BY <1>1 DEF vars, TraceInv, CopiesAreTraceable, SameItem, IsList
<1>2. ASSUME NEW d \in Drafts, Author(d) PROVE TraceInv'
  <2>1. CopiesAreTraceable' BY <1>2, ProvenanceAssumption DEF Author, CopiesAreTraceable, ProvenanceAssumption
  <2> QED BY <1>2, <2>1 DEF Author, TraceInv, IsList
<1>3. ASSUME NEW r \in Refs, Parse(r) PROVE TraceInv'
  <2>1. CopiesAreTraceable' BY <1>3 DEF Parse, TraceInv, CopiesAreTraceable, SameItem
  <2>2. reading'.ref = r /\ reading'.source = files[r] BY <1>3 DEF Parse
  <2> QED BY <1>3, <2>1, <2>2 DEF Parse, TraceInv, IsList
<1>4. ASSUME NEW r \in Refs, NEW v \in Sources(r), Export(r, v) PROVE TraceInv'
  <2>1. CopiesAreTraceable' BY <1>4 DEF Export, TraceInv, CopiesAreTraceable, SameItem
  <2>2. IsList(v) BY ProvenanceAssumption DEF ProvenanceAssumption, IsList
  <2>3. DOMAIN files' = Refs /\ \A q \in Refs : files'[q] = IF q = r THEN v ELSE files[q]
    BY <1>4 DEF Export, TraceInv
  <2>4. /\ UNCHANGED reading /\ (~overtaken' => ~overtaken)
        /\ ~overtaken' /\ reading # None => reading.ref # r
    BY <1>4 DEF Export
  <2>5. \A q \in Refs : IsList(files'[q]) BY <2>2, <2>3 DEF TraceInv
  <2>6. ASSUME reading # None
        PROVE  /\ reading.ref \in Refs /\ IsList(reading.source)
               /\ ~overtaken' => files'[reading.ref] = reading.source
    BY <2>3, <2>4, <2>6 DEF TraceInv
  <2>7. \A q \in Refs : IsList(files[q])' BY <2>5 DEF IsList
  <2>8. reading # None => IsList(reading.source)' BY <2>4, <2>6 DEF IsList
  <2> QED BY <2>1, <2>3, <2>4, <2>6, <2>7, <2>8 DEF TraceInv
<1>5. CASE cmd_import
  <2>1. /\ reading # None /\ UNCHANGED <<files, overtaken>> /\ reading' = None
        /\ contract' = contract \/ contract' = Merged
    BY <1>5 DEF cmd_import
  <2>2. IsList(reading.source) /\ (~overtaken => files[reading.ref] = reading.source)
    BY <2>1 DEF TraceInv
  <2>3. CASE contract' = contract
    BY <2>1, <2>3 DEF TraceInv, CopiesAreTraceable, SameItem, IsList
  <2>4. CASE contract' = Merged /\ reading.source.system = "mech"
    <3>1. CopiesAreTraceable' BY <1>0, <2>1, <2>4, EnvelopeTraces DEF TraceInv, Merged
    <3> QED BY <2>1, <3>1 DEF TraceInv, IsList
  <2>5. CASE contract' = Merged /\ reading.source.system # "mech"
    <3>1. CopiesAreTraceable' BY <1>0, <2>1, <2>2, <2>5, ImportTraces DEF TraceInv, Merged
    <3> QED BY <2>1, <3>1 DEF TraceInv, IsList
  <2> QED BY <2>1, <2>3, <2>4, <2>5
<1> QED BY <1>1, <1>2, <1>3, <1>4, <1>5 DEF Next

LEMMA TraceInitially == Init => TraceInv
<1> SUFFICES ASSUME Init PROVE TraceInv OBVIOUS
<1>1. DOMAIN files = Refs /\ \A r \in Refs : IsList(files[r])
  BY ProvenanceAssumption DEF Init, ProvenanceAssumption, IsList
<1>2. contract.connectors = {} BY DEF Init, Empty
<1> QED BY <1>1, <1>2 DEF Init, TraceInv, CopiesAreTraceable

\* Whatever is imported from what, again and again: a connector that was
\* copied can be told by the digest it carries, and none is copied again by a
\* later import (import_connectivity, _upsert_source).
THEOREM CopiesStayTraceable == Spec => []CopiesAreTraceable
<1>1. TraceInv => CopiesAreTraceable BY DEF TraceInv
<1> QED BY <1>1, TraceInitially, TraceInductive, LoadedAlways, PTL DEF Spec

\* Nothing that was there goes when copies are appended.
LEMMA AppendedStays ==
  ASSUME NEW copies, Len(copies) \in Nat, NEW elements, NEW prefix, NEW source
  PROVE  elements \subseteq AppendNew(elements, prefix, source, copies)
<1>0. PICK n \in Nat : n = Len(copies) OBVIOUS
<1>1. PICK system : system = source.system OBVIOUS
<1>2. PICK f : f = CHOOSE g : Appends(n, elements, prefix, system, copies, g) OBVIOUS
<1>3. Appends(n, elements, prefix, system, copies, f) BY <1>2, AppendsExist
<1>4. AppendNew(elements, prefix, source, copies) = f[n]
  BY <1>0, <1>1, <1>2 DEF AppendNew, Appends
<1>5. f = [i \in 0..n |->
             IF i = 0 THEN elements
               ELSE IF copies[i].source.ref \in Known(elements, system) THEN f[i - 1]
               ELSE f[i - 1] \union {[copies[i] EXCEPT !.id = _next_id(prefix, Ids(f[i - 1]))]}]
  BY <1>3 DEF Appends
<1>6. f[0] = elements BY <1>5
<1>7. ASSUME NEW i \in 1..n PROVE f[i - 1] \subseteq f[i]
  <2>1. i \in 0..n /\ i # 0 OBVIOUS
  <2>2. PICK e : e = [copies[i] EXCEPT !.id = _next_id(prefix, Ids(f[i - 1]))] OBVIOUS
  <2>3. f[i] = IF copies[i].source.ref \in Known(elements, system) THEN f[i - 1]
                 ELSE f[i - 1] \union {e}
    BY <1>5, <2>1, <2>2
  <2> QED BY <2>3
<1> DEFINE Lost == {i \in 1..n : ~(elements \subseteq f[i])}
<1>8. ASSUME Lost # {} PROVE FALSE
  <2>1. PICK i \in Lost : \A j \in Lost : i <= j
    <3>1. Lost \subseteq 1..n OBVIOUS
    <3> HIDE DEF Lost
    <3> QED BY <1>8, <3>1, HasFirst
  <2>2. i \in 1..n /\ ~(elements \subseteq f[i]) BY <2>1
  <2>3. elements \subseteq f[i - 1]
    <3>1. CASE i = 1 BY <1>6, <3>1
    <3>2. CASE i # 1
      <4>1. i - 1 \in 1..n /\ ~(i <= i - 1) BY <2>2, <3>2
      <4> QED BY <2>1, <4>1
    <3> QED BY <3>1, <3>2
  <2> QED BY <1>7, <2>2, <2>3
<1>9. elements \subseteq f[n]
  <2>1. CASE n = 0 BY <1>6, <2>1
  <2>2. CASE n # 0 BY <1>8, <2>2
  <2> QED BY <2>1, <2>2
<1> QED BY <1>4, <1>9

\* An entry that is replaced keeps its id, and one that is new takes none away.
LEMMA UpsertKeepsIds ==
  ASSUME NEW sources, sources \in Seq(Elems(sources)), NEW entry, "id" \in DOMAIN entry
  PROVE  Ids(Elems(sources)) \subseteq Ids(Elems(_upsert_source(sources, entry)))
<1>0. PICK n \in Nat : n = Len(sources) /\ DOMAIN sources = 1..n BY LenProperties
<1> DEFINE same == {i \in DOMAIN sources :
                      sources[i].system = entry.system /\ sources[i].ref = entry.ref}
<1>1. PICK t : t = _upsert_source(sources, entry) OBVIOUS
<1>2. ASSUME NEW i \in 1..n PROVE \E j \in DOMAIN t : t[j].id = sources[i].id
  <2>1. CASE same # {}
    <3>1. Min(same) \in same
      <4>1. \E p \in same : \A q \in same : p <= q BY <1>0, <2>1, HasFirst
      <4> HIDE DEF same
      <4> QED BY <4>1 DEF Min
    <3>2. PICK m : m = Min(same) /\ m \in DOMAIN sources BY <3>1
    <3>3. PICK e : e = [entry EXCEPT !.id = sources[m].id] OBVIOUS
    <3>4. e.id = sources[m].id BY <3>3
    <3>5. t = [sources EXCEPT ![m] = e] BY <1>1, <2>1, <3>2, <3>3 DEF _upsert_source
    <3>6. DOMAIN t = DOMAIN sources /\ t[i] = IF i = m THEN e ELSE sources[i] BY <1>0, <3>2, <3>5
    <3> QED BY <1>0, <3>4, <3>6
  <2>2. CASE same = {}
    <3>1. PICK e : e = [entry EXCEPT !.id = _next_id("I", Ids(Elems(sources)))] OBVIOUS
    <3>2. t = Append(sources, e) BY <1>1, <2>2, <3>1 DEF _upsert_source
    <3>3. PICK S : S = Elems(sources) \union {e} OBVIOUS
    <3>4. sources \in Seq(S) /\ e \in S
      <4>1. \A k \in 1..n : sources[k] \in S BY <1>0, <3>3 DEF Elems
      <4> QED BY <1>0, <3>3, <4>1
    <3>5. DOMAIN t = 1..(n + 1) /\ t[i] = sources[i]
      BY <1>0, <3>2, <3>4, AppendProperties
    <3> QED BY <3>5
  <2> QED BY <2>1, <2>2
<1> QED BY <1>0, <1>1, <1>2 DEF Ids, Elems

\* What a contract lists, and under which ids it was imported, an import only
\* adds to.
LEMMA ImportsGrow ==
  ASSUME Loaded, TraceInv, cmd_import
  PROVE  /\ element_ids(contract) \subseteq element_ids(contract')
         /\ Ids(Elems(contract.imported_sources)) \subseteq Ids(Elems(contract'.imported_sources))
<1>1. PICK c, d : c = contract /\ d = contract' OBVIOUS
<1>2. DOMAIN c = HarnessContract
  BY <1>1 DEF Loaded, Empty, load_contract, HarnessContract
<1>3. c.imported_sources \in Seq(Elems(c.imported_sources))
  <2>1. CASE c = Empty
    <3>1. c.imported_sources = <<>> BY <2>1 DEF Empty
    <3> QED BY <3>1
  <2>2. CASE load_contract(c) BY <2>2 DEF load_contract
  <2> QED BY <1>1, <2>1, <2>2 DEF Loaded
<1>4. reading # None /\ (d = c \/ d = Merged) BY <1>1 DEF cmd_import
<1>5. PICK source, ref, digest :
        source = reading.source /\ ref = reading.ref /\ digest = files[reading.ref]
  OBVIOUS
<1>6. IsList(source) BY <1>4, <1>5 DEF TraceInv
<1>7. ASSUME NEW system, NEW anchors, NEW points, NEW keepouts, NEW u,
             u = _upsert_source(c.imported_sources, Entry(system, ref, digest, anchors, points, keepouts))
      PROVE  Ids(Elems(c.imported_sources)) \subseteq Ids(Elems(u))
  <2>1. PICK e : e = Entry(system, ref, digest, anchors, points, keepouts) OBVIOUS
  <2>2. "id" \in DOMAIN e BY <2>1 DEF Entry
  <2> QED BY <1>3, <1>7, <2>1, <2>2, UpsertKeepsIds
<1>8. CASE d = c BY <1>1, <1>8
<1>9. CASE d = Merged /\ source.system = "mech"
  <2>1. d = import_envelope(c, source, ref, digest) BY <1>1, <1>5, <1>9 DEF Merged
  <2>2. PICK u : u = _upsert_source(c.imported_sources,
                       Entry("mech", ref, digest, Names(source.anchors),
                             SelectSeq(source.anchors, LAMBDA p : p.position # None), source.keepouts))
    OBVIOUS
  <2>3. d = [c EXCEPT !.imported_sources = u] BY <2>1, <2>2 DEF import_envelope
  <2>4. d.imported_sources = u BY <1>2, <2>3 DEF HarnessContract
  <2>5. /\ d.connectors = c.connectors /\ d.wire_types = c.wire_types /\ d.nets = c.nets
        /\ d.wires = c.wires /\ d.routes = c.routes /\ d.splices = c.splices
    BY <2>3
  <2>6. element_ids(d) = element_ids(c) BY <2>5 DEF element_ids
  <2>7. Ids(Elems(c.imported_sources)) \subseteq Ids(Elems(u)) BY <1>7, <2>2
  <2> QED BY <1>1, <2>4, <2>6, <2>7
<1>10. CASE d = Merged /\ source.system # "mech"
  <2>1. d = import_connectivity(c, source, ref, digest) BY <1>1, <1>5, <1>10 DEF Merged
  <2>2. PICK from : from = [system |-> source.system, ref |-> ref, sha256 |-> digest] OBVIOUS
  <2>3. PICK ks, ns :
          /\ ks = [i \in DOMAIN source.connectors |-> ImportedConnector(source.connectors[i], from)]
          /\ ns = [i \in DOMAIN source.nets |-> ImportedNet(source.nets[i], from)]
    OBVIOUS
  <2>4. PICK u, ak, an :
          /\ u = _upsert_source(c.imported_sources, Entry(source.system, ref, digest, <<>>, <<>>, None))
          /\ ak = AppendNew(c.connectors, "C", from, ks) /\ an = AppendNew(c.nets, "N", from, ns)
    OBVIOUS
  <2>5. d = [c EXCEPT !.imported_sources = u, !.connectors = ak, !.nets = an]
    BY <2>1, <2>2, <2>3, <2>4 DEF import_connectivity
  <2>6. d.imported_sources = u /\ d.connectors = ak /\ d.nets = an
    BY <1>2, <2>5 DEF HarnessContract
  <2>7. /\ d.wire_types = c.wire_types /\ d.wires = c.wires
        /\ d.routes = c.routes /\ d.splices = c.splices
    BY <2>5
  <2>8. Len(ks) \in Nat /\ Len(ns) \in Nat
    <3>1. PICK a, b : a = source.connectors /\ b = source.nets OBVIOUS
    <3>2. a \in Seq(Elems(a)) /\ b \in Seq(Elems(b)) BY <1>6, <1>10, <3>1 DEF IsList
    <3>3. PICK n \in Nat, m \in Nat : DOMAIN a = 1..n /\ DOMAIN b = 1..m BY <3>2, LenProperties
    <3>4. PICK K, N : K = {ks[i] : i \in 1..n} /\ N = {ns[i] : i \in 1..m} OBVIOUS
    <3>5. ks \in [1..n -> K] /\ ns \in [1..m -> N] BY <2>3, <3>1, <3>3, <3>4
    <3>6. ks \in Seq(K) /\ ns \in Seq(N) BY <3>5, SeqDef
    <3> QED BY <3>6, LenProperties
  <2>9. c.connectors \subseteq ak /\ c.nets \subseteq an BY <2>4, <2>8, AppendedStays
  <2>10. element_ids(c) \subseteq element_ids(d) BY <2>6, <2>7, <2>9 DEF element_ids, Ids
  <2>11. Ids(Elems(c.imported_sources)) \subseteq Ids(Elems(u)) BY <1>7, <2>4
  <2> QED BY <1>1, <2>6, <2>10, <2>11
<1> QED BY <1>4, <1>8, <1>9, <1>10

\* What ready says of an intake.
LEMMA ReadyDef ==
  ASSUME NEW c, NEW i
  PROVE  cmd_intake(c, i, Evidence) = "ready" <=>
           /\ load_contract(c) /\ load_intake(i)
           /\ i.contract_sha256 = c /\ element_ids(c) = DOMAIN i.element_sources
           /\ \A e \in DOMAIN i.element_sources :
                i.element_sources[e] \subseteq Ids(i.requirements) \union i.assumptions
                  \union i.questions \union Ids(Elems(c.imported_sources))
           /\ \A e \in DOMAIN i.element_sources \intersect element_ids(c) :
                i.element_sources[e] \intersect (i.assumptions \union i.questions) # {} =>
                  Backed(c, i, e)
           /\ i.questions = {} /\ check_evidence(i, Evidence)
BY DEF cmd_intake, check_intake

\* Whatever is imported, and imported again, into whatever was written: an
\* intake that was ready needs to name the new contract and to map the
\* elements that came, and what it said of the others still stands
\* (cmd_import, check_intake, _upsert_source, _next_id).
THEOREM GroundIsKept == Spec => ImportsKeepGround
<1>1. ASSUME Loaded, TraceInv, cmd_import, NEW i \in Intakes(contract),
             cmd_intake(contract, i, Evidence) = "ready"
      PROVE  cmd_intake(contract', Rebound(i, contract'), Evidence) = "ready"
  <2>1. PICK c, d : c = contract /\ d = contract' OBVIOUS
  <2>2. load_contract(c) /\ load_contract(d)
    <3>1. load_contract(c) BY <1>1, <2>1, ReadyDef
    <3>2. d = c \/ load_contract(d) BY <1>1, <2>1 DEF cmd_import
    <3> QED BY <3>1, <3>2
  <2>3. /\ element_ids(c) \subseteq element_ids(d)
        /\ Ids(Elems(c.imported_sources)) \subseteq Ids(Elems(d.imported_sources))
    BY <1>1, <2>1, ImportsGrow
  <2>4. PICK R, E, F, s, j :
          /\ R = Ids(i.requirements) /\ E = element_ids(d) /\ F = Ids(Elems(d.imported_sources))
          /\ s = i.element_sources /\ j = Rebound(i, d)
    OBVIOUS
  <2>5. PICK m : m = [e \in E |-> IF e \in DOMAIN s THEN s[e] ELSE R] OBVIOUS
  <2>6. /\ j.contract_sha256 = d /\ j.requirements = i.requirements
        /\ j.assumptions = i.assumptions /\ j.questions = i.questions
        /\ j.evidence = i.evidence /\ j.element_sources = m
    BY <2>4, <2>5 DEF Rebound
  <2>7. DOMAIN m = E /\ \A e \in E : m[e] = IF e \in DOMAIN s THEN s[e] ELSE R BY <2>5
  <2>8. i.requirements # {} /\ R # {} /\ \A e \in DOMAIN s : s[e] # {}
    <3>1. load_intake(i) BY <1>1, ReadyDef
    <3> QED BY <2>4, <3>1 DEF load_intake, Ids
  <2>9. /\ DOMAIN s = element_ids(c)
        /\ \A e \in DOMAIN s :
             /\ s[e] \subseteq R \union i.assumptions \union i.questions
                        \union Ids(Elems(c.imported_sources))
             /\ s[e] \intersect (i.assumptions \union i.questions) # {} =>
                  s[e] \intersect (R \union Ids(Elems(c.imported_sources))) # {}
        /\ i.questions = {} /\ check_evidence(i, Evidence)
    BY <1>1, <2>1, <2>4, ReadyDef DEF Backed
  <2>10. load_intake(j)
    <3>1. \A e \in E : m[e] # {} BY <2>7, <2>8
    <3> QED BY <2>6, <2>7, <2>8, <3>1 DEF load_intake
  <2>11. ASSUME NEW e \in E
         PROVE  /\ m[e] \subseteq R \union i.assumptions \union i.questions \union F
                /\ m[e] \intersect (i.assumptions \union i.questions) # {} =>
                     m[e] \intersect (R \union F) # {}
    <3>1. CASE e \in DOMAIN s BY <2>3, <2>4, <2>7, <2>9, <3>1
    <3>2. CASE e \notin DOMAIN s BY <2>7, <2>8, <3>2
    <3> QED BY <3>1, <3>2
  <2>12. check_evidence(j, Evidence) BY <2>6, <2>9 DEF check_evidence
  <2>13. cmd_intake(d, j, Evidence) = "ready"
    <3>1. DOMAIN j.element_sources = E /\ element_ids(d) = E BY <2>4, <2>6, <2>7
    <3>2. \A e \in E : Backed(d, j, e) <=> m[e] \intersect (R \union F) # {}
      BY <2>4, <2>6 DEF Backed
    <3>3. \A e \in E : m[e] \intersect (i.assumptions \union i.questions) # {} => Backed(d, j, e)
      BY <2>11, <3>2
    <3>4. \A e \in E : m[e] \subseteq Ids(j.requirements) \union j.assumptions
                          \union j.questions \union Ids(Elems(d.imported_sources))
      BY <2>4, <2>6, <2>11
    <3> QED BY <2>2, <2>6, <2>9, <2>10, <2>12, <3>1, <3>3, <3>4, ReadyDef
  <2> QED BY <2>1, <2>4, <2>13
<1>2. Init => TraceInv BY TraceInitially
<1>3. Loaded /\ TraceInv /\ [Next]_vars =>
        [cmd_import => \A i \in Intakes(contract) :
           cmd_intake(contract, i, Evidence) = "ready" =>
             cmd_intake(contract', Rebound(i, contract'), Evidence) = "ready"]_vars
  BY <1>1
<1> QED BY <1>2, <1>3, TraceInductive, LoadedAlways, PTL DEF Spec, ImportsKeepGround

-----------------------------------------------------------------------------
(* Runs and boxes.                                                         *)

\* A positive factor cancels.
LEMMA TimesLess ==
  ASSUME NEW x \in Int, NEW y \in Int, NEW z \in Int, z > 0
  PROVE  x * z < y * z <=> x < y
<1>1. ASSUME x < y PROVE x * z < y * z
  <2>1. (y - x) * z > 0 BY <1>1
  <2>2. (y - x) * z = y * z - x * z OBVIOUS
  <2> QED BY <2>1, <2>2
<1>2. ASSUME y <= x PROVE y * z <= x * z
  <2>1. (x - y) * z >= 0 BY <1>2
  <2>2. (x - y) * z = x * z - y * z OBVIOUS
  <2> QED BY <2>1, <2>2
<1>3. x * z \in Int /\ y * z \in Int OBVIOUS
<1> QED BY <1>1, <1>2, <1>3

\* A fraction is so many parts of m.
Parts(p, m, n) == p[1] \in Int /\ p[2] \in Int /\ p[2] > 0 /\ p[1] * m = n * p[2]

\* Fractions compare as their parts do.
LEMMA LessParts ==
  ASSUME NEW m \in Int, m > 0, NEW p, NEW q, NEW i \in Int, NEW j \in Int,
         Parts(p, m, i), Parts(q, m, j)
  PROVE  Less(p, q) <=> i < j
<1>1. PICK a \in Int, b \in Int, c \in Int, d \in Int :
        a = p[1] /\ b = p[2] /\ c = q[1] /\ d = q[2]
  BY DEF Parts
<1>2. b > 0 /\ d > 0 /\ a * m = i * b /\ c * m = j * d BY <1>1 DEF Parts
<1>3. b * d \in Int /\ b * d > 0 /\ a * d \in Int /\ c * b \in Int BY <1>2
<1>4. (a * d) * m = i * (b * d)
  <2>1. (a * d) * m = (a * m) * d OBVIOUS
  <2>2. (i * b) * d = i * (b * d) OBVIOUS
  <2> QED BY <1>2, <2>1, <2>2
<1>5. (c * b) * m = j * (b * d)
  <2>1. (c * b) * m = (c * m) * b OBVIOUS
  <2>2. (j * d) * b = j * (b * d) OBVIOUS
  <2> QED BY <1>2, <2>1, <2>2
<1>6. a * d < c * b <=> (a * d) * m < (c * b) * m BY <1>3, TimesLess
<1>7. i * (b * d) < j * (b * d) <=> i < j BY <1>3, TimesLess
<1>8. Less(p, q) <=> a * d < c * b BY <1>1 DEF Less
<1> QED BY <1>4, <1>5, <1>6, <1>7, <1>8

\* ... and so do the larger and the smaller of two.
LEMMA LargerParts ==
  ASSUME NEW m \in Int, m > 0, NEW p, NEW q, NEW i \in Int, NEW j \in Int,
         Parts(p, m, i), Parts(q, m, j)
  PROVE  /\ Parts(Larger(p, q), m, IF i < j THEN j ELSE i)
         /\ Parts(Smaller(p, q), m, IF i < j THEN i ELSE j)
<1>1. Less(p, q) <=> i < j BY LessParts
<1>2. CASE i < j
  <2>1. Larger(p, q) = q /\ Smaller(p, q) = p BY <1>1, <1>2 DEF Larger, Smaller
  <2> QED BY <1>2, <2>1
<1>3. CASE ~(i < j)
  <2>1. Larger(p, q) = p /\ Smaller(p, q) = q BY <1>1, <1>3 DEF Larger, Smaller
  <2> QED BY <1>3, <2>1
<1> QED BY <1>2, <1>3

\* Between which of m parts of a run it is between two faces, m a multiple r
\* of the run's extent; from the last to none when it never is.
FromPart(a, b, lo, hi, r, m) ==
  IF b - a > 0 THEN (lo - a) * r
    ELSE IF b - a < 0 THEN (a - hi) * r
    ELSE IF lo < a /\ a < hi THEN 0 ELSE m
ToPart(a, b, lo, hi, r, m) ==
  IF b - a > 0 THEN (hi - a) * r
    ELSE IF b - a < 0 THEN (a - lo) * r
    ELSE IF lo < a /\ a < hi THEN m ELSE 0

\* How a fraction is said to be so many parts.
LEMMA PairParts ==
  ASSUME NEW n \in Int, NEW d \in Int, d > 0, NEW m, NEW i, n * m = i * d
  PROVE  Parts(<<n, d>>, m, i)
BY DEF Parts

\* A product of three.
LEMMA Regroup == \A u, d, r \in Int : u * (d * r) = (u * r) * d
OBVIOUS

\* The interval of one axis, in parts of the run.
LEMMA WithinParts ==
  ASSUME NEW a \in Int, NEW b \in Int, NEW lo \in Int, NEW hi \in Int, lo < hi,
         NEW r \in Int, r > 0, NEW m \in Int, m = Extent(b - a) * r
  PROVE  /\ m > 0 /\ FromPart(a, b, lo, hi, r, m) \in Int /\ ToPart(a, b, lo, hi, r, m) \in Int
         /\ Parts(Within(a, b, lo, hi)[1], m, FromPart(a, b, lo, hi, r, m))
         /\ Parts(Within(a, b, lo, hi)[2], m, ToPart(a, b, lo, hi, r, m))
<1>1. PICK d \in Int : d = b - a OBVIOUS
<1>2. Within(a, b, lo, hi) =
        IF d # 0 THEN <<Smaller(Over(lo - a, d), Over(hi - a, d)), Larger(Over(lo - a, d), Over(hi - a, d))>>
          ELSE IF lo < a /\ a < hi THEN <<<<0, 1>>, <<1, 1>>>> ELSE <<<<1, 1>>, <<0, 1>>>>
  BY <1>1 DEF Within
<1>3. CASE d > 0
  <2>1. PICK p, q : p = Over(lo - a, d) /\ q = Over(hi - a, d) OBVIOUS
  <2>2. p = <<lo - a, d>> /\ q = <<hi - a, d>> BY <1>3, <2>1 DEF Over
  <2>3. m = d * r BY <1>1, <1>3 DEF Extent
  <2>4. PICK i \in Int, j \in Int : i = (lo - a) * r /\ j = (hi - a) * r OBVIOUS
  <2>5. Parts(p, m, i) /\ Parts(q, m, j)
    <3>1. PICK u \in Int, v \in Int : u = lo - a /\ v = hi - a OBVIOUS
    <3>0. i = u * r /\ j = v * r BY <2>4, <3>1
    <3>2. u * (d * r) = i * d /\ v * (d * r) = j * d BY <3>0, Regroup
    <3>3. u * m = i * d /\ v * m = j * d BY <2>3, <3>2
    <3> QED BY <1>3, <2>2, <3>1, <3>3, PairParts
  <2>6. i < j
    <3>1. lo - a < hi - a /\ lo - a \in Int /\ hi - a \in Int OBVIOUS
    <3> QED BY <2>4, <3>1, TimesLess
  <2>7. m > 0 BY <1>3, <2>3
  <2>8. Parts(Smaller(p, q), m, i) /\ Parts(Larger(p, q), m, j) BY <2>5, <2>6, <2>7, LargerParts
  <2>9. Within(a, b, lo, hi)[1] = Smaller(p, q) /\ Within(a, b, lo, hi)[2] = Larger(p, q)
    BY <1>2, <1>3, <2>1
  <2>10. FromPart(a, b, lo, hi, r, m) = i /\ ToPart(a, b, lo, hi, r, m) = j
    BY <1>1, <1>3, <2>4 DEF FromPart, ToPart
  <2> QED BY <2>7, <2>8, <2>9, <2>10
<1>4. CASE d < 0
  <2>1. PICK p, q : p = Over(lo - a, d) /\ q = Over(hi - a, d) OBVIOUS
  <2>2. p = <<-(lo - a), -d>> /\ q = <<-(hi - a), -d>> BY <1>4, <2>1 DEF Over
  <2>3. m = (-d) * r BY <1>1, <1>4 DEF Extent
  <2>4. PICK i \in Int, j \in Int : i = (a - hi) * r /\ j = (a - lo) * r OBVIOUS
  <2>5. Parts(p, m, j) /\ Parts(q, m, i)
    <3>1. PICK u \in Int, v \in Int, e \in Int : u = -(lo - a) /\ v = -(hi - a) /\ e = -d OBVIOUS
    <3>2. e > 0 /\ u = a - lo /\ v = a - hi BY <1>4, <3>1
    <3>3. u * m = j * e /\ v * m = i * e BY <2>3, <2>4, <3>1, <3>2, Regroup
    <3> QED BY <2>2, <3>1, <3>2, <3>3, PairParts
  <2>6. i < j
    <3>1. a - hi < a - lo /\ a - hi \in Int /\ a - lo \in Int OBVIOUS
    <3> QED BY <2>4, <3>1, TimesLess
  <2>7. m > 0 BY <1>4, <2>3
  <2>8. Parts(Smaller(p, q), m, i) /\ Parts(Larger(p, q), m, j)
    <3>1. ~(j < i) BY <2>6
    <3> QED BY <2>5, <2>7, <3>1, LargerParts
  <2>9. Within(a, b, lo, hi)[1] = Smaller(p, q) /\ Within(a, b, lo, hi)[2] = Larger(p, q)
    BY <1>2, <1>4, <2>1
  <2>10. FromPart(a, b, lo, hi, r, m) = i /\ ToPart(a, b, lo, hi, r, m) = j
    BY <1>1, <1>4, <2>4 DEF FromPart, ToPart
  <2> QED BY <2>7, <2>8, <2>9, <2>10
<1>5. CASE d = 0
  <2>1. m > 0 BY <1>1, <1>5 DEF Extent
  <2>2. Parts(<<0, 1>>, m, 0) /\ Parts(<<1, 1>>, m, m) BY <2>1, PairParts
  <2>3. CASE lo < a /\ a < hi
    <3>1. Within(a, b, lo, hi)[1] = <<0, 1>> /\ Within(a, b, lo, hi)[2] = <<1, 1>> BY <1>2, <1>5, <2>3
    <3>2. FromPart(a, b, lo, hi, r, m) = 0 /\ ToPart(a, b, lo, hi, r, m) = m BY <1>1, <1>5, <2>3 DEF FromPart, ToPart
    <3> QED BY <2>1, <2>2, <3>1, <3>2
  <2>4. CASE ~(lo < a /\ a < hi)
    <3>1. Within(a, b, lo, hi)[1] = <<1, 1>> /\ Within(a, b, lo, hi)[2] = <<0, 1>> BY <1>2, <1>5, <2>4
    <3>2. FromPart(a, b, lo, hi, r, m) = m /\ ToPart(a, b, lo, hi, r, m) = 0 BY <1>1, <1>5, <2>4 DEF FromPart, ToPart
    <3> QED BY <2>1, <2>2, <3>1, <3>2
  <2> QED BY <2>3, <2>4
<1> QED BY <1>3, <1>4, <1>5

\* One axis, after k of 2m steps.
Between(a, b, lo, hi, k, n) == lo * n < a * n + (b - a) * k /\ a * n + (b - a) * k < hi * n

\* What the parts say of it.
PartsTell(a, b, lo, hi, r, m, n, k) ==
  LET from == FromPart(a, b, lo, hi, r, m)  to == ToPart(a, b, lo, hi, r, m)
  IN /\ (2 * from < k /\ k < 2 * to => Between(a, b, lo, hi, k, n))
     /\ (Between(a, b, lo, hi, k, n) => 2 * from < k \/ from = 0)
     /\ (Between(a, b, lo, hi, k, n) => k < 2 * to \/ to = m)

\* A step between the faces is between the parts, which are the first and the
\* last for a run along the faces.
LEMMA BetweenParts ==
  ASSUME NEW a, NEW b, NEW lo, NEW hi, NEW r, NEW extent, NEW m, NEW n, NEW k,
         {a, b, lo, hi, r, extent, m, k} \subseteq Int,
         lo < hi, r > 0, extent = Extent(b - a), m = extent * r, m > 0, n = 2 * m
  PROVE  PartsTell(a, b, lo, hi, r, m, n, k)
<1>0. /\ a \in Int /\ b \in Int /\ lo \in Int /\ hi \in Int /\ n \in Int
      /\ r \in Int /\ extent \in Int /\ m \in Int /\ k \in Int
  OBVIOUS
<1> DEFINE from == FromPart(a, b, lo, hi, r, m)
           to == ToPart(a, b, lo, hi, r, m)
<1> SUFFICES /\ (2 * from < k /\ k < 2 * to => Between(a, b, lo, hi, k, 2 * m))
             /\ (Between(a, b, lo, hi, k, 2 * m) => 2 * from < k \/ from = 0)
             /\ (Between(a, b, lo, hi, k, 2 * m) => k < 2 * to \/ to = m)
  BY DEF PartsTell
<1>1. PICK d \in Int : d = b - a BY <1>0
<1>2. PICK u \in Int, v \in Int : u = lo - a /\ v = hi - a BY <1>0
<1>3. Between(a, b, lo, hi, k, 2 * m) <=> (u * (2 * m) < d * k /\ d * k < v * (2 * m))
  <2>1. n \in Int /\ n = 2 * m BY <1>0
  <2>2. u * n = lo * n - a * n /\ v * n = hi * n - a * n BY <1>2
  <2>3. PICK x \in Int, y \in Int, z \in Int, w \in Int :
          x = lo * n /\ y = hi * n /\ z = a * n /\ w = d * k
    BY <1>0
  <2>4. Between(a, b, lo, hi, k, n) <=> (x < z + w /\ z + w < y) BY <1>1, <2>3 DEF Between
  <2>5. u * n = x - z /\ v * n = y - z BY <2>2, <2>3
  <2>6. (u * n < d * k /\ d * k < v * n) <=> (x - z < w /\ w < y - z) BY <2>3, <2>5
  <2> QED BY <2>1, <2>4, <2>6
<1>4. CASE d > 0
  <2>1. PICK i \in Int, j \in Int : i = u * r /\ j = v * r OBVIOUS
  <2>2. from = i /\ to = j BY <1>1, <1>2, <1>4, <2>1 DEF FromPart, ToPart
  <2>3. m = d * r BY <1>1, <1>4 DEF Extent
  <2>4. u * m = i * d /\ v * m = j * d
    <3>1. u * (d * r) = i * d /\ v * (d * r) = j * d BY <2>1, Regroup
    <3> QED BY <2>3, <3>1
  <2>5. u * (2 * m) = (2 * i) * d /\ v * (2 * m) = (2 * j) * d
    <3>1. u * (2 * m) = 2 * (u * m) /\ v * (2 * m) = 2 * (v * m) OBVIOUS
    <3>2. (2 * i) * d = 2 * (i * d) /\ (2 * j) * d = 2 * (j * d) OBVIOUS
    <3> QED BY <2>4, <3>1, <3>2
  <2>6. d * k = k * d OBVIOUS
  <2>7. 2 * i \in Int /\ 2 * j \in Int OBVIOUS
  <2>8. ((2 * i) * d < k * d <=> 2 * i < k) /\ (k * d < (2 * j) * d <=> k < 2 * j)
    BY <1>4, <2>7, TimesLess
  <2> QED BY <1>0, <1>3, <2>2, <2>5, <2>6, <2>8
<1>5. CASE d < 0
  <2>1. PICK i \in Int, j \in Int : i = (-v) * r /\ j = (-u) * r OBVIOUS
  <2>2. from = i /\ to = j
    <3>1. a - hi = -v /\ a - lo = -u BY <1>2
    <3> QED BY <1>1, <1>5, <2>1, <3>1 DEF FromPart, ToPart
  <2>3. PICK e \in Int : e = -d OBVIOUS
  <2>4. e > 0 /\ m = e * r BY <1>1, <1>5, <2>3 DEF Extent
  <2>5. (-v) * m = i * e /\ (-u) * m = j * e
    <3>1. -v \in Int /\ -u \in Int OBVIOUS
    <3>2. (-v) * (e * r) = i * e /\ (-u) * (e * r) = j * e BY <1>0, <2>1, <3>1, Regroup
    <3> QED BY <2>4, <3>2
  <2>6. v * (2 * m) = -((2 * i) * e) /\ u * (2 * m) = -((2 * j) * e)
    <3>1. v * (2 * m) = -(2 * ((-v) * m)) /\ u * (2 * m) = -(2 * ((-u) * m)) OBVIOUS
    <3>2. (2 * i) * e = 2 * (i * e) /\ (2 * j) * e = 2 * (j * e) OBVIOUS
    <3> QED BY <2>5, <3>1, <3>2
  <2>7. d * k = -(k * e) BY <2>3
  <2>8. 2 * i \in Int /\ 2 * j \in Int OBVIOUS
  <2>9. ((2 * i) * e < k * e <=> 2 * i < k) /\ (k * e < (2 * j) * e <=> k < 2 * j)
    BY <2>4, <2>8, TimesLess
  <2>10. PICK x \in Int, y \in Int, z \in Int : x = (2 * i) * e /\ y = (2 * j) * e /\ z = k * e
    BY <2>8
  <2>11. Between(a, b, lo, hi, k, 2 * m) <=> (-y < -z /\ -z < -x) BY <1>3, <2>6, <2>7, <2>10
  <2>12. (x < z <=> 2 * i < k) /\ (z < y <=> k < 2 * j) BY <2>9, <2>10
  <2>13. Between(a, b, lo, hi, k, 2 * m) <=> (2 * i < k /\ k < 2 * j) BY <2>11, <2>12
  <2> QED BY <2>2, <2>13
<1>6. CASE d = 0
  <2>1. d * k = 0 BY <1>6
  <2>2. u * (2 * m) < 0 <=> u < 0
    <3>1. 2 * m \in Int /\ 2 * m > 0 /\ 0 * (2 * m) = 0 OBVIOUS
    <3> QED BY <3>1, TimesLess
  <2>3. 0 < v * (2 * m) <=> 0 < v
    <3>1. 2 * m \in Int /\ 2 * m > 0 /\ 0 * (2 * m) = 0 OBVIOUS
    <3> QED BY <3>1, TimesLess
  <2>4. Between(a, b, lo, hi, k, 2 * m) <=> (lo < a /\ a < hi) BY <1>2, <1>3, <2>1, <2>2, <2>3
  <2>5. CASE lo < a /\ a < hi
    <3>1. from = 0 /\ to = m BY <1>1, <1>6, <2>5 DEF FromPart, ToPart
    <3> QED BY <1>0, <2>4, <2>5, <3>1
  <2>6. CASE ~(lo < a /\ a < hi)
    <3>1. from = m /\ to = 0 BY <1>1, <1>6, <2>6 DEF FromPart, ToPart
    <3> QED BY <1>0, <2>4, <2>6, <3>1
  <2> QED BY <2>5, <2>6
<1> QED BY <1>0, <1>4, <1>5, <1>6

\* No extent is nothing.
LEMMA ExtentPositive ==
  ASSUME NEW d \in Int
  PROVE  Extent(d) \in Int /\ Extent(d) > 0
BY DEF Extent

\* The clipping of the code finds an interval that is not empty exactly when
\* some of the steps is inside the box: its ends are whole parts of the run, a
\* part is two steps, and so there is a step between two ends that differ.
LEMMA EntersInside ==
  ASSUME NEW a \in Point, NEW b \in Point, NEW box, KeepoutBoxOK(box)
  PROVE  _segment_enters_box(a, b, box)
           <=> \E k \in 0..Steps(a, b) : Inside(a, b, k, Steps(a, b), box)
<1>1. /\ a[1] \in Int /\ a[2] \in Int /\ a[3] \in Int
      /\ b[1] \in Int /\ b[2] \in Int /\ b[3] \in Int
  BY DEF Point
<1>2. /\ box.lo[1] \in Int /\ box.lo[2] \in Int /\ box.lo[3] \in Int
      /\ box.hi[1] \in Int /\ box.hi[2] \in Int /\ box.hi[3] \in Int
      /\ box.lo[1] < box.hi[1] /\ box.lo[2] < box.hi[2] /\ box.lo[3] < box.hi[3]
  BY DEF KeepoutBoxOK, Point
<1>3. PICK e1 \in Int, e2 \in Int, e3 \in Int :
        e1 = Extent(b[1] - a[1]) /\ e2 = Extent(b[2] - a[2]) /\ e3 = Extent(b[3] - a[3])
  <2>1. b[1] - a[1] \in Int /\ b[2] - a[2] \in Int /\ b[3] - a[3] \in Int BY <1>1
  <2> QED BY <2>1, ExtentPositive
<1>4. e1 > 0 /\ e2 > 0 /\ e3 > 0
  <2>1. b[1] - a[1] \in Int /\ b[2] - a[2] \in Int /\ b[3] - a[3] \in Int BY <1>1
  <2> QED BY <1>3, <2>1, ExtentPositive
<1>5. PICK r1 \in Int, r2 \in Int, r3 \in Int : r1 = e2 * e3 /\ r2 = e1 * e3 /\ r3 = e1 * e2 OBVIOUS
<1>6. r1 > 0 /\ r2 > 0 /\ r3 > 0 BY <1>4, <1>5
<1>7. PICK m \in Int : m = e1 * e2 * e3 OBVIOUS
<1>8. m = e1 * r1 /\ m = e2 * r2 /\ m = e3 * r3 BY <1>5, <1>7
<1>9. Steps(a, b) = 2 * m BY <1>3, <1>7 DEF Steps
<1> DEFINE F(x, r) == FromPart(a[x], b[x], box.lo[x], box.hi[x], r, m)
           T(x, r) == ToPart(a[x], b[x], box.lo[x], box.hi[x], r, m)
           W(x) == Within(a[x], b[x], box.lo[x], box.hi[x])
<1>10. /\ m > 0 /\ F(1, r1) \in Int /\ T(1, r1) \in Int
       /\ Parts(W(1)[1], m, F(1, r1)) /\ Parts(W(1)[2], m, T(1, r1))
  BY <1>1, <1>2, <1>3, <1>6, <1>8, WithinParts
<1>11. /\ F(2, r2) \in Int /\ T(2, r2) \in Int
       /\ Parts(W(2)[1], m, F(2, r2)) /\ Parts(W(2)[2], m, T(2, r2))
  BY <1>1, <1>2, <1>3, <1>6, <1>8, WithinParts
<1>12. /\ F(3, r3) \in Int /\ T(3, r3) \in Int
       /\ Parts(W(3)[1], m, F(3, r3)) /\ Parts(W(3)[2], m, T(3, r3))
  BY <1>1, <1>2, <1>3, <1>6, <1>8, WithinParts
<1>13. PICK f1 \in Int, f2 \in Int, f3 \in Int, t1 \in Int, t2 \in Int, t3 \in Int :
         /\ f1 = F(1, r1) /\ f2 = F(2, r2) /\ f3 = F(3, r3)
         /\ t1 = T(1, r1) /\ t2 = T(2, r2) /\ t3 = T(3, r3)
  BY <1>10, <1>11, <1>12
<1> DEFINE Up(i, j) == IF i < j THEN j ELSE i
           Down(i, j) == IF i < j THEN i ELSE j
<1>14. PICK l1, l2, l3, s1, s2, s3, p1, p2, p3, q1, q2, q3, zero, one :
         /\ p1 = W(1)[1] /\ p2 = W(2)[1] /\ p3 = W(3)[1]
         /\ q1 = W(1)[2] /\ q2 = W(2)[2] /\ q3 = W(3)[2]
         /\ zero = <<0, 1>> /\ one = <<1, 1>>
         /\ l1 = Larger(zero, p1) /\ l2 = Larger(l1, p2) /\ l3 = Larger(l2, p3)
         /\ s1 = Smaller(one, q1) /\ s2 = Smaller(s1, q2) /\ s3 = Smaller(s2, q3)
  OBVIOUS
<1>15. Parts(zero, m, 0) /\ Parts(one, m, m)
  <2>1. 0 * m = 0 * 1 /\ 1 * m = m * 1 OBVIOUS
  <2> QED BY <1>14, <2>1, PairParts
<1>16. PICK x1 \in Int, x2 \in Int, x3 \in Int, y1 \in Int, y2 \in Int, y3 \in Int :
         /\ x1 = Up(0, f1) /\ x2 = Up(x1, f2) /\ x3 = Up(x2, f3)
         /\ y1 = Down(m, t1) /\ y2 = Down(y1, t2) /\ y3 = Down(y2, t3)
  OBVIOUS
<1> HIDE DEF W, F, T
<1>17. Parts(l1, m, x1) /\ Parts(s1, m, y1)
  <2>1. Parts(p1, m, f1) /\ Parts(q1, m, t1) BY <1>10, <1>13, <1>14
  <2>2. Parts(Larger(zero, p1), m, Up(0, f1)) BY <1>10, <1>15, <2>1, LargerParts
  <2>3. Parts(Smaller(one, q1), m, Down(m, t1)) BY <1>10, <1>15, <2>1, LargerParts
  <2> QED BY <1>14, <1>16, <2>2, <2>3
<1>18. Parts(l2, m, x2) /\ Parts(s2, m, y2)
  <2>1. Parts(p2, m, f2) /\ Parts(q2, m, t2) BY <1>11, <1>13, <1>14
  <2>2. Parts(Larger(l1, p2), m, Up(x1, f2)) BY <1>10, <1>17, <2>1, LargerParts
  <2>3. Parts(Smaller(s1, q2), m, Down(y1, t2)) BY <1>10, <1>17, <2>1, LargerParts
  <2> QED BY <1>14, <1>16, <2>2, <2>3
<1>19. Parts(l3, m, x3) /\ Parts(s3, m, y3)
  <2>1. Parts(p3, m, f3) /\ Parts(q3, m, t3) BY <1>12, <1>13, <1>14
  <2>2. Parts(Larger(l2, p3), m, Up(x2, f3)) BY <1>10, <1>18, <2>1, LargerParts
  <2>3. Parts(Smaller(s2, q3), m, Down(y2, t3)) BY <1>10, <1>18, <2>1, LargerParts
  <2> QED BY <1>14, <1>16, <2>2, <2>3
<1>20. _segment_enters_box(a, b, box) <=> x3 < y3
  <2>1. _segment_enters_box(a, b, box) <=> Less(l3, s3) BY <1>14 DEF _segment_enters_box, W
  <2> QED BY <1>10, <1>19, <2>1, LessParts
<1> USE DEF W, F, T
<1>21. ASSUME NEW k \in Int
       PROVE  Inside(a, b, k, 2 * m, box) <=>
                /\ Between(a[1], b[1], box.lo[1], box.hi[1], k, 2 * m)
                /\ Between(a[2], b[2], box.lo[2], box.hi[2], k, 2 * m)
                /\ Between(a[3], b[3], box.lo[3], box.hi[3], k, 2 * m)
  <2>1. 1..3 = {1, 2, 3} OBVIOUS
  <2> QED BY <2>1 DEF Inside, Between
<1>22. ASSUME NEW k \in Int
       PROVE  /\ (2 * f1 < k /\ k < 2 * t1 => Between(a[1], b[1], box.lo[1], box.hi[1], k, 2 * m))
              /\ (Between(a[1], b[1], box.lo[1], box.hi[1], k, 2 * m) => 2 * f1 < k \/ f1 = 0)
              /\ (Between(a[1], b[1], box.lo[1], box.hi[1], k, 2 * m) => k < 2 * t1 \/ t1 = m)
  <2>1. PICK p \in Int, q \in Int, lo \in Int, hi \in Int :
          p = a[1] /\ q = b[1] /\ lo = box.lo[1] /\ hi = box.hi[1]
    BY <1>1, <1>2
  <2>2. /\ lo < hi /\ e1 = Extent(q - p) /\ m = e1 * r1
        /\ f1 = FromPart(p, q, lo, hi, r1, m) /\ t1 = ToPart(p, q, lo, hi, r1, m)
    BY <1>2, <1>3, <1>8, <1>13, <2>1
  <2>3. m > 0 /\ r1 > 0 BY <1>6, <1>10
  <2>4. PICK n \in Int : n = 2 * m OBVIOUS
  <2>5. PartsTell(p, q, lo, hi, r1, m, n, k) BY <2>2, <2>3, <2>4, BetweenParts
  <2> QED BY <2>1, <2>2, <2>4, <2>5 DEF PartsTell
<1>23. ASSUME NEW k \in Int
       PROVE  /\ (2 * f2 < k /\ k < 2 * t2 => Between(a[2], b[2], box.lo[2], box.hi[2], k, 2 * m))
              /\ (Between(a[2], b[2], box.lo[2], box.hi[2], k, 2 * m) => 2 * f2 < k \/ f2 = 0)
              /\ (Between(a[2], b[2], box.lo[2], box.hi[2], k, 2 * m) => k < 2 * t2 \/ t2 = m)
  <2>1. PICK p \in Int, q \in Int, lo \in Int, hi \in Int :
          p = a[2] /\ q = b[2] /\ lo = box.lo[2] /\ hi = box.hi[2]
    BY <1>1, <1>2
  <2>2. /\ lo < hi /\ e2 = Extent(q - p) /\ m = e2 * r2
        /\ f2 = FromPart(p, q, lo, hi, r2, m) /\ t2 = ToPart(p, q, lo, hi, r2, m)
    BY <1>2, <1>3, <1>8, <1>13, <2>1
  <2>3. m > 0 /\ r2 > 0 BY <1>6, <1>10
  <2>4. PICK n \in Int : n = 2 * m OBVIOUS
  <2>5. PartsTell(p, q, lo, hi, r2, m, n, k) BY <2>2, <2>3, <2>4, BetweenParts
  <2> QED BY <2>1, <2>2, <2>4, <2>5 DEF PartsTell
<1>24. ASSUME NEW k \in Int
       PROVE  /\ (2 * f3 < k /\ k < 2 * t3 => Between(a[3], b[3], box.lo[3], box.hi[3], k, 2 * m))
              /\ (Between(a[3], b[3], box.lo[3], box.hi[3], k, 2 * m) => 2 * f3 < k \/ f3 = 0)
              /\ (Between(a[3], b[3], box.lo[3], box.hi[3], k, 2 * m) => k < 2 * t3 \/ t3 = m)
  <2>1. PICK p \in Int, q \in Int, lo \in Int, hi \in Int :
          p = a[3] /\ q = b[3] /\ lo = box.lo[3] /\ hi = box.hi[3]
    BY <1>1, <1>2
  <2>2. /\ lo < hi /\ e3 = Extent(q - p) /\ m = e3 * r3
        /\ f3 = FromPart(p, q, lo, hi, r3, m) /\ t3 = ToPart(p, q, lo, hi, r3, m)
    BY <1>2, <1>3, <1>8, <1>13, <2>1
  <2>3. m > 0 /\ r3 > 0 BY <1>6, <1>10
  <2>4. PICK n \in Int : n = 2 * m OBVIOUS
  <2>5. PartsTell(p, q, lo, hi, r3, m, n, k) BY <2>2, <2>3, <2>4, BetweenParts
  <2> QED BY <2>1, <2>2, <2>4, <2>5 DEF PartsTell
<1>25. ASSUME x3 < y3
       PROVE  \E k \in 0..(2 * m) : Inside(a, b, k, 2 * m, box)
  <2>1. PICK k \in Int : k = x3 + y3 OBVIOUS
  <2>2. /\ 2 * f1 < k /\ k < 2 * t1 /\ 2 * f2 < k /\ k < 2 * t2 /\ 2 * f3 < k /\ k < 2 * t3
        /\ 0 <= k /\ k <= 2 * m
    BY <1>16, <1>25, <2>1
  <2>3. Inside(a, b, k, 2 * m, box) BY <1>21, <1>22, <1>23, <1>24, <2>2
  <2>4. k \in 0..(2 * m) BY <2>2
  <2> QED BY <2>3, <2>4
<1>26. ASSUME NEW k \in 0..(2 * m), Inside(a, b, k, 2 * m, box)
       PROVE  x3 < y3
  <2>1. k \in Int /\ 0 <= k /\ k <= 2 * m BY <1>10
  <2>2. (2 * f1 < k \/ f1 = 0) /\ (k < 2 * t1 \/ t1 = m) BY <1>21, <1>22, <1>26, <2>1
  <2>3. (2 * f2 < k \/ f2 = 0) /\ (k < 2 * t2 \/ t2 = m) BY <1>21, <1>23, <1>26, <2>1
  <2>4. (2 * f3 < k \/ f3 = 0) /\ (k < 2 * t3 \/ t3 = m) BY <1>21, <1>24, <1>26, <2>1
  <2> QED BY <1>10, <1>16, <2>1, <2>2, <2>3, <2>4
<1> QED BY <1>9, <1>20, <1>25, <1>26

\* What a point is placed at is three whole numbers.
LEMMA PlacedAtPoint ==
  ASSUME NEW c, load_contract(c), NEW name, anchor_map(c, name) # None
  PROVE  anchor_map(c, name) \in Point
<1> DEFINE sources == c.imported_sources
           listing == {i \in DOMAIN sources : /\ sources[i].system = "mech"
                                             /\ name \in Elems(sources[i].anchors)}
           last == sources[CHOOSE i \in listing : \A j \in listing : j <= i]
           at == {p \in Elems(last.points) : p.name = name}
<1>1. anchor_map(c, name) = IF listing = {} \/ at = {} THEN None ELSE (CHOOSE p \in at : TRUE).position
  BY DEF anchor_map
<1>2. listing # {} /\ at # {} BY <1>1
<1>3. sources \in Seq(Elems(sources)) /\ \A t \in Elems(sources) : ImportedSourceOK(t)
  BY DEF load_contract
<1>4. PICK n \in Nat : DOMAIN sources = 1..n BY <1>3
<1>5. PICK i \in listing : \A j \in listing : j <= i
  <2>1. IsFiniteSet(1..n) BY <1>4, FS_Interval
  <2>2. IsFiniteSet(listing) BY <1>4, <2>1, FS_Subset
  <2>3. listing \subseteq Nat BY <1>4
  <2> HIDE DEF listing
  <2> QED BY <1>2, <2>2, <2>3, HasLast
<1>6. \E k \in listing : last = sources[k]
  <2> HIDE DEF listing, sources
  <2>1. (CHOOSE k \in listing : \A j \in listing : j <= k) \in listing BY <1>5
  <2> QED BY <2>1
<1>7. last \in Elems(sources) BY <1>6 DEF Elems
<1>8. PICK t : t = last OBVIOUS
<1>9. \A p \in Elems(t.points) : p.position \in Point BY <1>3, <1>7, <1>8 DEF ImportedSourceOK
<1>10. PICK p : p = CHOOSE q \in at : TRUE OBVIOUS
<1>11. p \in at
  <2> HIDE DEF at
  <2> QED BY <1>2, <1>10
<1>12. p \in Elems(t.points) BY <1>8, <1>11
<1>13. anchor_map(c, name) = p.position
  <2> HIDE DEF at, listing
  <2> QED BY <1>1, <1>2, <1>10
<1> QED BY <1>9, <1>12, <1>13

\* A route fails the keep-out gate exactly when a point of a straight run of it
\* is in the open interior of a box, whatever the coordinates
\* (_segment_enters_box).
THEOREM KeepoutsAreGeometric == Spec => []KeepoutIsGeometric
<1>1. ASSUME load_contract(contract) PROVE KeepoutIsGeometric
  <2> SUFFICES ASSUME NEW s \in MechSources(contract), s.keepouts # None,
                      NEW r \in Spanning(contract), Placed(contract, r),
                      NEW run \in Runs(contract, r), NEW b \in s.keepouts
               PROVE  _segment_enters_box(run[1], run[2], b)
                        <=> \E k \in 0..Steps(run[1], run[2]) :
                              Inside(run[1], run[2], k, Steps(run[1], run[2]), b)
    BY DEF KeepoutIsGeometric
  <2>1. KeepoutBoxOK(b)
    <3>1. ImportedSourceOK(s) BY <1>1 DEF MechSources, load_contract
    <3> QED BY <3>1 DEF ImportedSourceOK
  <2>2. PICK i \in 1..(Len(r.anchors) - 1) :
          run = <<anchor_map(contract, r.anchors[i]), anchor_map(contract, r.anchors[i + 1])>>
    BY DEF Runs
  <2>3. r.anchors \in Seq(Elems(r.anchors)) BY <1>1 DEF Spanning, load_contract, HarnessRouteOK
  <2>4. i \in DOMAIN r.anchors /\ i + 1 \in DOMAIN r.anchors BY <2>3
  <2>5. r.anchors[i] \in Elems(r.anchors) /\ r.anchors[i + 1] \in Elems(r.anchors) BY <2>4 DEF Elems
  <2>6. anchor_map(contract, r.anchors[i]) # None /\ anchor_map(contract, r.anchors[i + 1]) # None
    BY <2>5 DEF Placed
  <2>7. run[1] \in Point /\ run[2] \in Point
    <3>1. PICK x, y : x = r.anchors[i] /\ y = r.anchors[i + 1] OBVIOUS
    <3>2. anchor_map(contract, x) \in Point /\ anchor_map(contract, y) \in Point
      BY <1>1, <2>6, <3>1, PlacedAtPoint
    <3> QED BY <2>2, <3>1, <3>2
  <2> QED BY <2>1, <2>7, EntersInside
<1>2. ASSUME contract = Empty PROVE KeepoutIsGeometric
  <2>1. contract.routes = {} BY <1>2 DEF Empty
  <2> QED BY <2>1 DEF KeepoutIsGeometric, Spanning
<1> QED BY <1>1, <1>2, LoadedAlways, PTL DEF Loaded
=============================================================================
