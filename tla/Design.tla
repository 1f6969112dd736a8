------------------------------- MODULE Design -------------------------------
(***************************************************************************)
(* A contract is written and imported into, and what the gates say of it   *)
(* is compared with what the tables made of it say.                        *)
(*                                                                         *)
(* The author writes any draft the loader accepts.  cmd_import of cli.py   *)
(* parses the source, hashes the file in a later step and writes the       *)
(* merged contract; the sister that owns the file may export it anew at    *)
(* any time.  Only contracts without wires are imported into here, which   *)
(* the import does not look at.                                            *)
(***************************************************************************)
EXTENDS Tables

CONSTANTS Drafts,      \* contracts the author may write
          Refs,        \* files that can be imported
          Sources(_),  \* what such a file may hold
          Holds(_),    \* and holds first
          Intakes(_),  \* intake sidecars of a contract
          Evidence,    \* what the evidence files hold
          MaxImports,  \* bound: imports
          MaxExports   \* bound: how often a sister exports anew

\* The author leaves provenance to the imports, and a source is a list.
ProvenanceAssumption ==
  /\ \A d \in Drafts : \A k \in d.connectors : k.source = None
  /\ \A r \in Refs : \A v \in Sources(r) \union {Holds(r)} :
       v.system # "mech" => /\ v.connectors \in Seq(Elems(v.connectors))
                            /\ v.nets \in Seq(Elems(v.nets))
ASSUME ProvenanceAssumption

VARIABLES contract,
          files,       \* what each file holds
          reading,     \* the file being imported as it was parsed, or None
          imports, exports,
          overtaken    \* history: a file changed between parsing and hashing

vars == <<contract, files, reading, imports, exports, overtaken>>

Empty == [connectors |-> {}, wire_types |-> {}, nets |-> {}, wires |-> {}, routes |-> {},
          splices |-> {}, crimp_conditions |-> {}, segregations |-> {}, mating |-> None,
          ambient |-> 25, simulation |-> None, imported_sources |-> <<>>,
          drawing |-> [approved |-> FALSE, issued |-> FALSE, logo |-> None]]

Init == /\ contract = Empty
        /\ files = [r \in Refs |-> Holds(r)]
        /\ reading = None /\ imports = 0 /\ exports = 0 /\ overtaken = FALSE

\* A draft that load_contract refuses changes nothing.
Author(d) == /\ contract = Empty /\ reading = None /\ imports = 0 /\ exports = 0
             /\ load_contract(d)
             /\ contract' = d
             /\ UNCHANGED <<files, reading, imports, exports, overtaken>>

\* cmd_import reads the contract and parses the source.
Parse(r) == /\ reading = None /\ imports < MaxImports /\ contract.wires = {}
            /\ IF files[r].system = "mech" THEN load_envelope_source(files[r])
                                           ELSE load_connectivity_source(files[r])
            /\ reading' = [ref |-> r, source |-> files[r]]
            /\ imports' = imports + 1
            /\ UNCHANGED <<contract, files, exports, overtaken>>

Mergeable == reading.source.system = "mech" => AnchorsDistinct(reading.source)
Merged == IF reading.source.system = "mech"
            THEN import_envelope(contract, reading.source, reading.ref, files[reading.ref])
            ELSE import_connectivity(contract, reading.source, reading.ref, files[reading.ref])

\* ... and merges it, hashes the file and writes the contract, if it is valid.
cmd_import == /\ reading # None
              /\ contract' = IF Mergeable /\ load_contract(Merged) THEN Merged ELSE contract
              /\ reading' = None
              /\ UNCHANGED <<files, imports, exports, overtaken>>

\* A sister exports its file anew; what it does to a contract that is not
\* imported into is left out.
Export(r, v) == /\ exports < MaxExports /\ contract.wires = {} /\ v # files[r]
                /\ files' = [files EXCEPT ![r] = v]
                /\ exports' = exports + 1
                /\ overtaken' = (overtaken \/ (reading # None /\ reading.ref = r))
                /\ UNCHANGED <<contract, reading, imports>>

Next == \/ \E d \in Drafts : Author(d)
        \/ \E r \in Refs : Parse(r) \/ \E v \in Sources(r) : Export(r, v)
        \/ cmd_import

Spec == Init /\ [][Next]_vars

-----------------------------------------------------------------------------
Passes(checks) == Verdict(checks) = "pass"

\* Reachable through wires, by definition: in every set of points that holds
\* the one and is left by no wire.
Joined(c, n, m) ==
  \A S \in SUBSET Nodes(c) :
    n \in S /\ (\A w \in c.wires : _node(w.from) \in S <=> _node(w.to) \in S) => m \in S

\* The continuity table's groups are the sets of test points that wires and
\* splices join (continuity_table: "Points joined by wires (directly or
\* through splices) form one continuity group").
GroupsAreReachability ==
  \A v, w \in contract.wires :
    (\E g \in continuity_groups(contract) : {v.id, w.id} \subseteq g.wires)
      <=> Joined(contract, _node(v.from), _node(w.from))

\* A harness whose connectivity, cavities and splices pass the gates never
\* joins two nets into one conductor, however long the chain of splices: what
\* the gates judge wire by wire agrees with what continuity_table judges
\* group by group.
PassingGroupsCarryOneNet ==
  Passes(_check_connectivity(contract) \union _check_cavity_occupancy(contract)
           \union _check_splice_integrity(contract)) =>
    \A g \in continuity_groups(contract) : Cardinality(g.nets) = 1

\* Ends at which the cut table prints a terminal.
CutEnds(c, name) ==
  UNION {{<<r, w, i>> : w \in r.wires, i \in {j \in {5, 7} : r.key[j] = name}} :
           r \in _cut_table_csv(c)}

\* Nothing that is computed of a route's length has to be rounded.
Unrounded(r) ==
  \A i \in DOMAIN r.segments :
    \A n \in {Lengths(r)[i], Lengths(r)[i] * 1000, r.segments[i].length * 1000} : Float(n) = n

\* Gates and tables made from one contract agree.  The formboard finds a wire
\* short exactly when route_fit does, if each route is one segment or needs no
\* rounding: the board adds up rounded millimetres, the gate rounds the sum,
\* and 0.1 m and 0.2 m are not the same for both.  Once the terminals pass,
\* the bill of materials counts the ends the cut table lists, as long as no
\* terminal is called as a wire type is, whose name the cut table prints for
\* none (formboard, _check_route_fit, _bom, _cut_table_csv).
TablesAgree ==
  /\ (\A r \in contract.routes : Len(r.segments) = 1 \/ Unrounded(r)) =>
       (formboard(contract).short = {} <=> Passes(_check_route_fit(contract)))
  /\ Passes(_check_terminal_compatibility(contract)) =>
       LET terminals == _bom(contract).terminals
       IN \A name \in DOMAIN terminals \ {y.name : y \in contract.wire_types} :
            terminals[name] = Cardinality(CutEnds(contract, name))

\* A point of the run a-b, after k of n steps.
Inside(a, b, k, n, box) ==
  \A x \in 1..3 : box.lo[x] * n < a[x] * n + (b[x] - a[x]) * k
                  /\ a[x] * n + (b[x] - a[x]) * k < box.hi[x] * n

\* Steps that are small enough for every box.
Extent(d) == IF d = 0 THEN 1 ELSE IF d > 0 THEN d ELSE -d
Steps(a, b) == 2 * (Extent(b[1] - a[1]) * Extent(b[2] - a[2]) * Extent(b[3] - a[3]))

\* A route fails the keep-out gate exactly when some point of a straight run
\* between its anchors is inside a box (_segment_enters_box: "through the
\* open interior of the box (faces may touch)").
KeepoutIsGeometric ==
  \A s \in MechSources(contract) : s.keepouts # None =>
    \A r \in {q \in Spanning(contract) : Placed(contract, q)} :
      \A run \in Runs(contract, r), b \in s.keepouts :
        _segment_enters_box(run[1], run[2], b)
          <=> \E k \in 0..Steps(run[1], run[2]) : Inside(run[1], run[2], k, Steps(run[1], run[2]), b)

Without(c, w) == [c EXCEPT !.wires = @ \ {w}]

\* Gates for which another wire can only make things worse.
WireGates(c) ==
  UNION {_check_connectivity(c), _check_cavity_occupancy(c), _ampacity_details(c),
         _check_voltage_drop(c), _check_insulation_rating(c), _check_bend_radius(c),
         _check_segregation(c), _check_terminal_compatibility(c),
         _check_crimp_conditions(c), _check_connector_rating(c), _check_route_fit(c)}

\* What fails without a wire fails with it: no wire can be added to make a
\* current, a bend, a class or a terminal pass, although bundles, routes and
\* connectors are judged together (_ampacity_details, _check_bend_radius,
\* _check_segregation, bundle_derating).
FailuresPersist ==
  \A w \in contract.wires :
    ~Passes(WireGates(Without(contract, w))) => ~Passes(WireGates(contract))

\* The intake once it names the new contract and gives the elements that came
\* its requirements.
Rebound(i, c) ==
  [contract_sha256 |-> c, requirements |-> i.requirements, assumptions |-> i.assumptions,
   questions |-> i.questions, evidence |-> i.evidence,
   element_sources |-> [e \in element_ids(c) |->
     IF e \in DOMAIN i.element_sources THEN i.element_sources[e] ELSE Ids(i.requirements)]]

\* An import takes no ground from under what there was, whoever stated it: an
\* intake that was ready is ready again once it names the new contract and
\* maps the elements that came, although entries are replaced, ids are the
\* smallest numbers not in use and elements stand on sources by id
\* (cmd_intake, check_intake, _upsert_source, _next_id).
ImportsKeepGround ==
  [][cmd_import => \A i \in Intakes(contract) :
       cmd_intake(contract, i, Evidence) = "ready" =>
         cmd_intake(contract', Rebound(i, contract'), Evidence) = "ready"]_vars

SameItem(e, item) == e.current = item.current /\ e.voltage = item.voltage

\* A re-import refreshes the digest of the source and skips the elements it
\* knows, so import_freshness passes over copies of an older file.  Such a
\* copy can still be told by its own digest, and an element is copied again by
\* no later import (import_connectivity); only a file that changes between
\* parsing and hashing escapes.
CopiesAreTraceable ==
  /\ \A e, f \in contract.connectors :
       e.source # None /\ f.source # None
         /\ e.source.system = f.source.system /\ e.source.ref = f.source.ref => e.source = f.source
  /\ ~overtaken =>
       \A e \in contract.connectors : e.source # None =>
         \E item \in Elems(e.source.sha256.connectors) :
           item.ref = e.source.ref /\ SameItem(e, item)
=============================================================================
