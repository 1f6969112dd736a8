------------------------------- MODULE Tables -------------------------------
(***************************************************************************)
(* What is made of a contract besides the gates: the tables handed to      *)
(* production-engineering (continuity.py, crimp.py, formboard.py), the     *)
(* bill of materials and the cut table (export_tables.py), the check of    *)
(* the intake sidecar (intake.py) and the import adapters (imports.py).    *)
(* Sorting, the digits that are printed and other columns are left out.    *)
(***************************************************************************)
EXTENDS Gates

-----------------------------------------------------------------------------
(* continuity.py                                                           *)

_node(e) == IF e.splice # None THEN <<e.splice>> ELSE <<e.connector, e.cavity>>

Nodes(c) == {_node(t.at) : t \in Ends(c)}

\* The root a node's parents lead to.
Find(parent, n) ==
  LET root[m \in DOMAIN parent] == IF parent[m] = m THEN m ELSE root[parent[m]]
  IN root[n]

\* The second end is joined itself, and not the group it is in.
JoinEnds(parent, w) ==
  IF Find(parent, _node(w.from)) = Find(parent, _node(w.to)) THEN parent
    ELSE [parent EXCEPT ![_node(w.from)] = _node(w.to)]

\* That find also shortens the paths it walks changes no root.
Join(parent, w) == [parent EXCEPT ![Find(parent, _node(w.from))] = Find(parent, _node(w.to))]

\* The wires are joined one after the other.
Forest(c) ==
  LET wires == SetToSeq(c.wires)
      after[i \in 0..Len(wires)] ==
        IF i = 0 THEN [n \in Nodes(c) |-> n] ELSE Join(after[i - 1], wires[i])
  IN after[Len(wires)]

continuity_groups(c) ==
  LET parent == Forest(c)
      group(w) == {v \in c.wires : Find(parent, _node(v.from)) = Find(parent, _node(w.from))}
  IN {[wires  |-> Ids(group(w)),
       nets   |-> {v.net : v \in group(w)},
       points |-> {_node(t.at) : t \in {u \in Terminations(c) : u.wire \in group(w)}}] :
      w \in c.wires}

continuity_table(c) ==
  IF c.wires # {} /\ \A g \in continuity_groups(c) :
                       Cardinality(g.nets) = 1 /\ Cardinality(g.points) >= 2
    THEN "pass" ELSE "fail"

-----------------------------------------------------------------------------
(* crimp.py and formboard.py                                               *)

\* The ends each condition crimps, and those none does.
crimp_table(c) ==
  [ends |-> [k \in Ids(c.crimp_conditions) |->
               {<<t.wire.id, t.end>> : t \in {u \in Terminations(c) :
                  /\ u.terminal # None
                  /\ ById(c.crimp_conditions, k)
                       \in _condition(c, u.terminal, TypeOf(c, u.wire).gauge)}}],
   verdict |-> IF c.crimp_conditions # {} /\ \A f \in crimp_findings(c) : f[3] = "pass"
                 THEN "pass" ELSE "fail"]

\* Only the last segment's station counts.
formboardLastSegment(c) ==
  LET short == {w.id : w \in {v \in c.wires : \E r \in c.routes :
                                v.route = r.id /\ v.length < Last(r.segments).length}}
  IN [short |-> short,
      verdict |-> IF short = {} /\ c.routes # {} THEN "pass" ELSE "fail"]

\* Where the segments of a route end; every station is rounded.
stations(r) ==
  LET end[i \in 0..Len(r.segments)] ==
        IF i = 0 THEN 0 ELSE Float(end[i - 1] + Float(r.segments[i].length * 1000))
  IN end

\* The wires that do not reach the last station of their route.
formboard(c) ==
  LET short == {w.id : w \in {v \in c.wires : \E r \in c.routes :
                                v.route = r.id /\ Float(v.length * 1000) < stations(r)[Len(r.segments)]}}
  IN [short |-> short,
      verdict |-> IF short = {} /\ c.routes # {} THEN "pass" ELSE "fail"]

-----------------------------------------------------------------------------
(* export_tables.py                                                        *)

\* A wire's terminal at an end: the declared one, else the cavity's.
BomTerminal(c, t) ==
  IF t.terminal # None \/ t.at.connector = None THEN t.terminal ELSE CavityAt(c, t.at).terminal

_bom(c) ==
  [housings |-> [h \in {IF k.housing = None THEN k.family ELSE k.housing : k \in c.connectors} |->
                   Cardinality({k \in c.connectors :
                                  h = (IF k.housing = None THEN k.family ELSE k.housing)})],
   mates |-> [p \in {k.mate : k \in c.connectors} \ {None} |->
                Ids({k \in c.connectors : k.mate = p})],
   terminals |-> [name \in {BomTerminal(c, t) : t \in Ends(c)} \ {None} |->
                    Cardinality({t \in Ends(c) : BomTerminal(c, t) = name})],
   lengths |-> [y \in Ids(c.wire_types) |->
                  MapThenSumSet(LAMBDA w : w.length, {w \in c.wires : w.wire_type = y})]]

\* A row for each wire, with the gauge of its type.
_wire_list_csv(c) == {<<w, TypeOf(c, w).gauge>> : w \in c.wires}

\* What the cut table prints for an end; wires share a row when all of it is
\* the same.
CutKey(c, w) ==
  LET y == TypeOf(c, w)
      shown(t) == IF t = None THEN y.name ELSE t
  IN <<w.wire_type, y.gauge, w.length, w.strip_a, shown(w.terminal_a),
       w.strip_b, shown(w.terminal_b)>>

_cut_table_csv(c) ==
  {[key |-> key, wires |-> Ids({w \in c.wires : CutKey(c, w) = key})] :
     key \in {CutKey(c, w) : w \in c.wires}}

-----------------------------------------------------------------------------
(* intake.py.  An intake names its contract by digest; element_sources maps *)
(* elements to source ids, evidence are the files of its assumptions. A     *)
(* requirement's source is the user or the agent, which no check looks at.  *)

\* There is a requirement, and no element is mapped to no source.
load_intake(intake) ==
  /\ intake.requirements # {}
  /\ \A e \in DOMAIN intake.element_sources : intake.element_sources[e] # {}

\* files are the bytes the evidence paths hold now.
check_evidence(intake, files) == \A e \in intake.evidence : files[e.path] = e.sha256

Backed(c, intake, e) ==
  intake.element_sources[e] \intersect
    (Ids(intake.requirements) \union Ids(Elems(c.imported_sources))) # {}

check_intake(c, intake, files) ==
  LET mapped == DOMAIN intake.element_sources
      known == Ids(intake.requirements) \union intake.assumptions \union intake.questions
                 \union Ids(Elems(c.imported_sources))
      assumption_only == {e \in mapped \intersect element_ids(c) :
        /\ intake.element_sources[e] \intersect
             (intake.assumptions \union intake.questions) # {}
        /\ ~Backed(c, intake, e)}
  IN IF /\ intake.contract_sha256 = c
        /\ element_ids(c) = mapped
        /\ \A e \in mapped : intake.element_sources[e] \subseteq known
        /\ assumption_only = {}
        /\ intake.questions = {}
        /\ check_evidence(intake, files)
       THEN "ready" ELSE "blocked"

\* The command refuses a contract or an intake that does not load.
cmd_intake(c, intake, files) ==
  IF load_contract(c) /\ load_intake(intake) THEN check_intake(c, intake, files) ELSE "fail"

-----------------------------------------------------------------------------
(* imports.py.  Fresh ids are the smallest numbers not in use.             *)

_next_id(prefix, used) ==
  prefix \o ToString(Min({n \in 1..(Cardinality(used) + 1) :
                            prefix \o ToString(n) \notin used}))

\* The entry of the same system and file gets an id of its own.
_upsert_sourceAnew(sources, entry) ==
  LET others == SelectSeq(sources, LAMBDA s : s.system # entry.system \/ s.ref # entry.ref)
  IN Append(others, [entry EXCEPT !.id = _next_id("I", Ids(Elems(sources)))])

\* The entry of the same system and file is replaced and keeps its id.
_upsert_source(sources, entry) ==
  LET same == {i \in DOMAIN sources :
                 sources[i].system = entry.system /\ sources[i].ref = entry.ref}
  IN IF same # {}
       THEN [sources EXCEPT ![Min(same)] = [entry EXCEPT !.id = sources[Min(same)].id]]
       ELSE Append(sources, [entry EXCEPT !.id = _next_id("I", Ids(Elems(sources)))])

\* The refs of the elements that came from a system.
Known(elements, system) ==
  {e.source.ref : e \in {f \in elements : f.source # None /\ f.source.system = system}}

\* A skipped element is given the digest of the file it is skipped for.
AppendNewRehashed(elements, prefix, source, copies) ==
  LET from(e) == e.source # None /\ e.source.system = source.system
  IN FoldLeft(LAMBDA S, copy : IF copy.source.ref \in Known(elements, source.system) THEN S
                ELSE S \union {[copy EXCEPT !.id = _next_id(prefix, Ids(S))]},
              {IF from(e) THEN [e EXCEPT !.source.sha256 = source.sha256] ELSE e : e \in elements},
              copies)

\* Elements whose ref came from the system before are skipped, also when the
\* file now says something else of them.
AppendNew(elements, prefix, source, copies) ==
  LET after[i \in 0..Len(copies)] ==
        IF i = 0 THEN elements
          ELSE IF copies[i].source.ref \in Known(elements, source.system) THEN after[i - 1]
          ELSE after[i - 1] \union {[copies[i] EXCEPT !.id = _next_id(prefix, Ids(after[i - 1]))]}
  IN after[Len(copies)]

\* A connector without a family, or of a generic one, describes the part the
\* harness mates to.
ImportedConnector(item, source) ==
  [id |-> None, family |-> IF item.family = None THEN "imported" ELSE item.family,
   housing |-> IF item.generic THEN None ELSE item.housing,
   mate |-> IF item.generic THEN item.housing ELSE None,
   current |-> item.current, voltage |-> item.voltage, mating |-> 30, keying |-> None,
   temperature |-> None, count |-> None, source |-> [source EXCEPT !.ref = item.ref],
   cavities |-> {[id |-> v, accepts |-> None, terminal |-> None] : v \in item.cavities}]

ImportedNet(item, source) ==
  [id |-> None, class |-> item.class, voltage |-> item.voltage, current |-> item.current,
   drop |-> None, shielded |-> FALSE, pair |-> None, source |-> [source EXCEPT !.ref = item.ref]]

Entry(system, ref, digest, anchors, points, keepouts) ==
  [id |-> None, system |-> system, ref |-> ref, sha256 |-> digest,
   anchors |-> anchors, points |-> points, keepouts |-> keepouts]

SourceConnectorOK(item) == item.current > 0 /\ item.voltage > 0 /\ item.cavities # {}
SourceNetOK(item) == item.voltage >= 0 /\ item.current >= 0

load_connectivity_source(source) ==
  /\ source.system \in {"circuit", "csv", "kbl", "vec"}
  /\ \A item \in Elems(source.connectors) : SourceConnectorOK(item)
  /\ \A item \in Elems(source.nets) : SourceNetOK(item)

\* source is what was parsed, digest what the file holds when it is hashed.
import_connectivity(c, source, ref, digest) ==
  LET from == [system |-> source.system, ref |-> ref, sha256 |-> digest]
  IN [c EXCEPT
        !.imported_sources =
          _upsert_source(@, Entry(source.system, ref, digest, <<>>, <<>>, None)),
        !.connectors = AppendNew(@, "C", from,
          [i \in DOMAIN source.connectors |-> ImportedConnector(source.connectors[i], from)]),
        !.nets = AppendNew(@, "N", from,
          [i \in DOMAIN source.nets |-> ImportedNet(source.nets[i], from)])]

\* An envelope has anchors, and boxes with an inside.
load_envelope_source(source) ==
  source.anchors # <<>> /\ (source.keepouts # None => \A b \in source.keepouts : KeepoutBoxOK(b))

\* Two anchors of one name are refused.
AnchorsDistinct(source) == Distinct(Names(source.anchors))

import_envelope(c, source, ref, digest) ==
  [c EXCEPT !.imported_sources =
     _upsert_source(@, Entry("mech", ref, digest, Names(source.anchors),
                             SelectSeq(source.anchors, LAMBDA p : p.position # None),
                             source.keepouts))]

\* The From/To rows of a CSV: a connector for each name at either end, with
\* the cavities its rows give it in order, or "1" when the first row has
\* none; the first row of a net describes it.
RowEnds(rows) ==
  FlattenSeq([i \in DOMAIN rows |->
     <<[ref |-> rows[i].from, cavity |-> rows[i].from_cavity, family |-> rows[i].family],
       [ref |-> rows[i].to, cavity |-> rows[i].to_cavity, family |-> rows[i].family]>>])

load_connectivity_csv(rows) ==
  LET ends == SelectSeq(RowEnds(rows), LAMBDA e : e.ref # None)
      refs == FoldLeft(LAMBDA s, e : IF Contains(s, e.ref) THEN s ELSE Append(s, e.ref),
                       <<>>, ends)
      first(ref) == ends[Min({i \in DOMAIN ends : ends[i].ref = ref})]
      cavities(ref) == {e.cavity : e \in {f \in Elems(ends) : f.ref = ref}} \ {None}
  IN [system |-> "csv",
      connectors |-> [i \in DOMAIN refs |->
        [ref |-> refs[i], family |-> first(refs[i]).family, housing |-> None,
         generic |-> first(refs[i]).family = None, current |-> 3, voltage |-> 250,
         cavities |-> cavities(refs[i]) \union
           (IF first(refs[i]).cavity = None THEN {"1"} ELSE {})]],
      nets |-> FoldLeft(LAMBDA s, r :
                 IF r.net = None \/ r.net \in {n.ref : n \in Elems(s)} THEN s
                   ELSE Append(s, [ref |-> r.net, class |-> "signal", voltage |-> r.voltage,
                                   current |-> r.current]),
                 <<>>, rows)]
=============================================================================
