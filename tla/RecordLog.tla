----------------------------- MODULE RecordLog -----------------------------
(***************************************************************************)
(* One VRP record log, observations/<plugin>/<kind>.jsonl, and the lock    *)
(* beside it: src/wire/records.py (_append, _archive_legacy) and           *)
(* src/wire/_vrp.py (verify_log, chain_errors, load_jsonl, is_legacy).     *)
(*                                                                         *)
(* The writers are the processes that record: the CLI, the MCP server and  *)
(* the blind reviewer's server.  They share the directory's flock; readers *)
(* (the Stop hook, the sisters) take no lock and see the file as it is at  *)
(* any moment.  A writer may be killed between any two steps, the disk may *)
(* fill up inside a line, the clock may be set back, and people, git or a  *)
(* restored backup may change the file behind the writers' back.           *)
(*                                                                         *)
(* event_id is the SHA-256 of the rest of the record.  It is modelled as   *)
(* a number no other content has (hashes counts the contents hashed so     *)
(* far), with hashed = (event_id = compute_event_id(record)): a collision  *)
(* free hash.  A body is a member of one of three sets: Clean bodies       *)
(* encode to one line; Split bodies hold U+0085, U+2028 or U+2029, which   *)
(* json.dumps(ensure_ascii=False) writes as they are and str.splitlines    *)
(* breaks at; Invalid bodies fail the kind's validator.                    *)
(***************************************************************************)
EXTENDS Naturals, Sequences

CONSTANTS Writers,      \* processes that append to this log
          NoWriter,     \* "nobody holds the lock"
          Clean, Split, Invalid,  \* the bodies writers may ask to record
          NoBody,       \* the body of a line that is no v2 record
          MaxHashes,    \* bound: records drafted in a behaviour
          MaxClock,     \* bound: the clock's last tick
          MaxFaults,    \* bound: outside changes (damage, clock, v1 lines)
          MaxAsides     \* bound: times a broken log is moved aside

Bodies == Clean \union Split \union Invalid

ASSUME BodiesAssumption ==
  /\ NoBody \notin Bodies
  /\ Clean \intersect Split = {}
  /\ (Clean \union Split) \intersect Invalid = {}

ASSUME WritersAssumption == NoWriter \notin Writers

ASSUME BoundsAssumption ==
  {MaxHashes, MaxClock, MaxFaults, MaxAsides} \subseteq Nat

GENESIS == 0

Causes == {"torn", "unterminated", "split", "tampered"}

Line == [form : {"none", "v1", "v2", "junk"},
         sequence : Nat, prev_event_id : Nat, event_id : Nat,
         recorded_at : Nat, body : Bodies \union {NoBody}, hashed : BOOLEAN]

Blank(form) == [form |-> form, sequence |-> 0, prev_event_id |-> 0,
                event_id |-> 0, recorded_at |-> 0, body |-> NoBody,
                hashed |-> FALSE]

NoLine == Blank("none")   \* no bytes after the last newline
V1     == Blank("v1")     \* a line VRP v1 wrote
Junk   == Blank("junk")   \* a line json.loads refuses

VARIABLES
  log,      \* the lines of the file that end in a newline
  tail,     \* what follows the last newline, NoLine when nothing does
  archives, \* <stem>.v1.jsonl, <stem>.v1-2.jsonl, ... in that order
  lock,     \* who holds flock(.lock)
  pc,       \* where each writer is in _append
  draft,    \* the record each writer is about to write
  clock,    \* datetime.now
  hashes,   \* how many contents were hashed
  faults,   \* how many outside changes happened
  asides,   \* how many broken logs were moved aside
  damage,   \* history: what has harmed the present file
  committed \* history: the log the last append verified, and its record

vars == <<log, tail, archives, lock, pc, draft, clock, hashes, faults,
          asides, damage, committed>>

-----------------------------------------------------------------------------
(* What a reader makes of the file.                                        *)

\* read_text().splitlines(): a last line without its newline counts too.
Visible == IF tail = NoLine THEN log ELSE Append(log, tail)

HasJunk(f) == \E i \in 1..Len(f) : f[i].form = "junk"

\* Every line that parses was written by VRP v1, and there is one.
is_legacy(f) == /\ \E i \in 1..Len(f) : f[i].form = "v1"
                /\ \A i \in 1..Len(f) : f[i].form \in {"v1", "junk"}

chain_head(f) == IF f = <<>> THEN GENESIS ELSE f[Len(f)].event_id

\* A reader that trusts the bytes and not the hash.
LinkedUnhashed(f, i) ==
  /\ f[i].form = "v2"
  /\ f[i].sequence = i
  /\ f[i].prev_event_id = IF i = 1 THEN GENESIS ELSE f[i - 1].event_id
  /\ f[i].body \in Clean \union Split
  /\ i > 1 => f[i - 1].recorded_at <= f[i].recorded_at

\* Line i of a v2 log: schema, order, link, identity, time, validator.
Linked(f, i) ==
  /\ f[i].form = "v2"
  /\ f[i].sequence = i
  /\ f[i].prev_event_id = IF i = 1 THEN GENESIS ELSE f[i - 1].event_id
  /\ f[i].hashed
  /\ \A j \in 1..(i - 1) : f[j].event_id # f[i].event_id
  /\ i > 1 => f[i - 1].recorded_at <= f[i].recorded_at
  /\ f[i].body \in Clean \union Split

ChainOK(f) == \A i \in 1..Len(f) : Linked(f, i)

\* verify_log(f) reports no problem.
Verified(f) == ~HasJunk(f) /\ (is_legacy(f) \/ ChainOK(f))

-----------------------------------------------------------------------------
Init ==
  /\ log \in {<<>>, <<V1>>, <<V1, V1>>}
  /\ tail = NoLine
  /\ archives = <<>>
  /\ lock = NoWriter
  /\ pc = [w \in Writers |-> "idle"]
  /\ draft = [w \in Writers |-> NoLine]
  /\ clock = 0 /\ hashes = 0 /\ faults = 0 /\ asides = 0
  /\ damage = {} /\ committed = <<>>

(* The writer's steps, in the order of _append.                            *)

Request(w, b) ==
  /\ pc[w] = "idle" /\ hashes < MaxHashes
  /\ pc' = [pc EXCEPT ![w] = "waiting"]
  /\ draft' = [draft EXCEPT ![w] = [NoLine EXCEPT !.body = b]]
  /\ UNCHANGED <<log, tail, archives, lock, clock, hashes, faults, asides,
                 damage, committed>>

AcquireNoFlock(w) ==
  /\ pc[w] = "waiting"
  /\ lock' = w
  /\ pc' = [pc EXCEPT ![w] = "locked"]
  /\ UNCHANGED <<log, tail, archives, draft, clock, hashes, faults, asides,
                 damage, committed>>

\* flock(lock, LOCK_EX): one writer of the directory at a time.
Acquire(w) ==
  /\ pc[w] = "waiting" /\ lock = NoWriter
  /\ lock' = w
  /\ pc' = [pc EXCEPT ![w] = "locked"]
  /\ UNCHANGED <<log, tail, archives, draft, clock, hashes, faults, asides,
                 damage, committed>>

\* Renames over the first archive instead of taking a free name.
_archive_legacyOverwrite(w) ==
  /\ pc[w] = "locked"
  /\ pc' = [pc EXCEPT ![w] = "archived"]
  /\ IF is_legacy(Visible)
       THEN /\ archives' = <<Visible>>
            /\ log' = <<>> /\ tail' = NoLine
            /\ damage' = {} /\ committed' = <<>>
       ELSE UNCHANGED <<log, tail, archives, damage, committed>>
  /\ UNCHANGED <<lock, draft, clock, hashes, faults, asides>>

\* A log VRP v1 wrote is renamed to the first free archive name.
_archive_legacy(w) ==
  /\ pc[w] = "locked"
  /\ pc' = [pc EXCEPT ![w] = "archived"]
  /\ IF is_legacy(Visible)
       THEN /\ archives' = Append(archives, Visible)
            /\ log' = <<>> /\ tail' = NoLine
            /\ damage' = {} /\ committed' = <<>>
       ELSE UNCHANGED <<log, tail, archives, damage, committed>>
  /\ UNCHANGED <<lock, draft, clock, hashes, faults, asides>>

\* The file fails, the clock is behind the last record, or the record is
\* not valid: _append raises.
RefusesNothingBroken(w) ==
  \/ Visible # <<>> /\ clock < Visible[Len(Visible)].recorded_at
  \/ draft[w].body \in Invalid

Refuses(w) ==
  \/ ~Verified(Visible)
  \/ Visible # <<>> /\ clock < Visible[Len(Visible)].recorded_at
  \/ draft[w].body \in Invalid

RefuseKeepsLock(w) ==
  /\ pc[w] = "archived" /\ Refuses(w)
  /\ pc' = [pc EXCEPT ![w] = "idle"]
  /\ draft' = [draft EXCEPT ![w] = NoLine]
  /\ UNCHANGED <<log, tail, archives, lock, clock, hashes, faults, asides,
                 damage, committed>>

\* Leaving the with block closes .lock, which lets the lock go.
Refuse(w) ==
  /\ pc[w] = "archived" /\ Refuses(w)
  /\ pc' = [pc EXCEPT ![w] = "idle"]
  /\ draft' = [draft EXCEPT ![w] = NoLine]
  /\ lock' = NoWriter
  /\ UNCHANGED <<log, tail, archives, clock, hashes, faults, asides, damage,
                 committed>>

\* The next record of the chain, bound to the log just verified.
Compose(w) ==
  /\ pc[w] = "archived" /\ ~Refuses(w)
  /\ hashes' = hashes + 1
  /\ draft' = [draft EXCEPT ![w] =
       [form |-> "v2", sequence |-> Len(Visible) + 1,
        prev_event_id |-> chain_head(Visible), event_id |-> hashes + 1,
        recorded_at |-> clock, body |-> @.body, hashed |-> TRUE]]
  /\ committed' = Visible
  /\ pc' = [pc EXCEPT ![w] = "drafted"]
  /\ UNCHANGED <<log, tail, archives, lock, clock, faults, asides, damage>>

\* The first bytes reach the file.  After an unterminated line they
\* continue that line, and neither record can be read any more.
WriteSome(w) ==
  /\ pc[w] = "drafted"
  /\ tail' = Junk
  /\ draft' = [draft EXCEPT ![w] =
                IF tail = NoLine THEN @ ELSE [@ EXCEPT !.form = "junk"]]
  /\ damage' = IF draft[w].body \in Split THEN damage \union {"split"}
                                          ELSE damage
  /\ pc' = [pc EXCEPT ![w] = "partial"]
  /\ UNCHANGED <<log, archives, lock, clock, hashes, faults, asides,
                 committed>>

\* The body is written without its envelope.
WriteRestBare(w) ==
  /\ pc[w] = "partial"
  /\ tail' = draft[w].body
  /\ committed' = Append(committed, draft[w])
  /\ pc' = [pc EXCEPT ![w] = "whole"]
  /\ UNCHANGED <<log, archives, lock, draft, clock, hashes, faults, asides,
                 damage>>

\* All bytes but the newline.  A Split body has left one line behind.
WriteRest(w) ==
  /\ pc[w] = "partial"
  /\ IF draft[w].body \in Split
       THEN log' = Append(log, Junk) /\ tail' = Junk
       ELSE tail' = draft[w] /\ UNCHANGED log
  /\ committed' = Append(committed, draft[w])
  /\ pc' = [pc EXCEPT ![w] = "whole"]
  /\ UNCHANGED <<archives, lock, draft, clock, hashes, faults, asides,
                 damage>>

\* log.open("w") where the code says "a".
WriteNewlineTruncating(w) ==
  /\ pc[w] = "whole"
  /\ log' = <<tail>> /\ tail' = NoLine
  /\ pc' = [pc EXCEPT ![w] = "idle"] /\ lock' = NoWriter
  /\ draft' = [draft EXCEPT ![w] = NoLine]
  /\ UNCHANGED <<archives, clock, hashes, faults, asides, damage, committed>>

\* The newline; the file and then the lock are closed.
WriteNewline(w) ==
  /\ pc[w] = "whole"
  /\ log' = Append(log, tail) /\ tail' = NoLine
  /\ pc' = [pc EXCEPT ![w] = "idle"] /\ lock' = NoWriter
  /\ draft' = [draft EXCEPT ![w] = NoLine]
  /\ UNCHANGED <<archives, clock, hashes, faults, asides, damage, committed>>

\* A killed process, or a write the disk had no room for: the bytes written
\* so far stay, and closing its files lets the lock go.
Crash(w) ==
  /\ pc[w] # "idle"
  /\ pc' = [pc EXCEPT ![w] = "idle"]
  /\ draft' = [draft EXCEPT ![w] = NoLine]
  /\ lock' = IF lock = w THEN NoWriter ELSE lock
  /\ damage' = CASE pc[w] = "partial" -> damage \union {"torn"}
                 [] pc[w] = "whole" -> damage \union {"unterminated"}
                 [] OTHER -> damage
  /\ UNCHANGED <<log, tail, archives, clock, hashes, faults, asides,
                 committed>>

-----------------------------------------------------------------------------
(* The world outside the writers.                                          *)

MidWrite == \E w \in Writers : pc[w] \in {"partial", "whole"}

Tick ==
  /\ clock < MaxClock
  /\ clock' = clock + 1
  /\ UNCHANGED <<log, tail, archives, lock, pc, draft, hashes, faults,
                 asides, damage, committed>>

ClockSetBack ==
  /\ faults < MaxFaults /\ clock > 0
  /\ faults' = faults + 1
  /\ clock' = clock - 1
  /\ UNCHANGED <<log, tail, archives, lock, pc, draft, hashes, asides,
                 damage, committed>>

\* A line edited, removed, repeated or moved by something that is no writer:
\* the file f put in place of what is visible.
Replace(f) ==
  /\ faults < MaxFaults /\ ~MidWrite
  /\ faults' = faults + 1
  /\ log' = f /\ tail' = NoLine
  /\ damage' = damage \union {"tampered"}
  /\ UNCHANGED <<archives, lock, pc, draft, clock, hashes, asides, committed>>

Tamper ==
  LET f == Visible
      n == Len(f)
  IN  \/ \E i \in 1..n : Replace([f EXCEPT ![i].hashed = FALSE])
      \/ \E i \in 1..n : Replace(SubSeq(f, 1, i - 1) \o SubSeq(f, i + 1, n))
      \/ \E i \in 1..n : Replace(SubSeq(f, 1, i) \o SubSeq(f, i, n))
      \/ \E i \in 1..(n - 1) :
           Replace([f EXCEPT ![i] = f[i + 1], ![i + 1] = f[i]])

\* A session of the old plugin, still open, writes a v1 line where no v2
\* log has been started.
LegacyAppend ==
  /\ faults < MaxFaults /\ lock = NoWriter /\ tail = NoLine
  /\ log = <<>> \/ is_legacy(log)
  /\ faults' = faults + 1
  /\ log' = Append(log, V1)
  /\ UNCHANGED <<tail, archives, lock, pc, draft, clock, hashes, asides,
                 damage, committed>>

\* "Move the file aside (it stays as evidence) to start a new chain": what
\* the user does after a refusal, when no writer is at work.
MoveAside ==
  /\ asides < MaxAsides /\ lock = NoWriter /\ ~Verified(Visible)
  /\ asides' = asides + 1
  /\ log' = <<>> /\ tail' = NoLine
  /\ damage' = {} /\ committed' = <<>>
  /\ UNCHANGED <<archives, lock, pc, draft, clock, hashes, faults>>

-----------------------------------------------------------------------------
\* What the scheduler runs once a writer has the lock.
Step(w) == \/ _archive_legacy(w) \/ Refuse(w) \/ Compose(w)
           \/ WriteSome(w) \/ WriteRest(w) \/ WriteNewline(w)

Next ==
  \/ \E w \in Writers : \/ \E b \in Bodies : Request(w, b)
                        \/ Acquire(w) \/ Step(w) \/ Crash(w)
  \/ Tick \/ ClockSetBack \/ Tamper \/ LegacyAppend \/ MoveAside

Spec == Init /\ [][Next]_vars

\* A process that holds the lock is not suspended for ever: the section
\* waits for nothing but the file system.
FairSpec == Spec /\ \A w \in Writers : WF_vars(Step(w))

-----------------------------------------------------------------------------
(* What the log promises.                                                  *)

\* The log's variables hold what the code can put there.
TypeOK ==
  /\ log \in Seq(Line) /\ tail \in Line
  /\ archives \in Seq(Seq(Line))
  /\ lock \in Writers \union {NoWriter}
  /\ pc \in [Writers -> {"idle", "waiting", "locked", "archived", "drafted",
                         "partial", "whole"}]
  /\ draft \in [Writers -> Line]
  /\ clock \in Nat /\ hashes \in Nat /\ faults \in Nat /\ asides \in Nat
  /\ damage \subseteq Causes
  /\ committed \in Seq(Line)

\* Whatever the writers' interleaving, their crashes between two steps and
\* the clock do, the file verifies whenever no write is half done, unless
\* something the log cannot prevent has harmed it (_append, verify_log).
ChainIntact == damage = {} /\ ~MidWrite => Verified(Visible)

\* A log of v2 records that verifies is the log as its last append
\* left it, up to lines missing at its end: editing, repeating, moving or
\* removing any other line is always noticed, also after later appends.  Lines
\* missing at the end are not, although "deleting" a line "breaks the chain"
\* (chain_errors, verify_log).
OnlyLostTailIsSilent ==
  Verified(Visible) /\ ~is_legacy(Visible) =>
    /\ Len(Visible) <= Len(committed)
    /\ Visible = SubSeq(committed, 1, Len(Visible))

\* Appends only append: while nothing outside harms the file, each step
\* leaves every complete line in its place, and the one step that takes
\* lines away puts all of them in an archive (_append, _archive_legacy).
AppendOnly ==
  [][ damage = {} /\ damage' = {} /\ faults' = faults /\ asides' = asides =>
        \/ Len(log) <= Len(log') /\ log = SubSeq(log', 1, Len(log))
        \/ log' = <<>> /\ archives' = Append(archives, log) ]_vars

\* A log that does not verify is evidence: besides the user and what changes
\* it from outside, only a writer that found it whole, before it broke, may
\* still finish its line in it (_append).
BrokenIsFrozen ==
  [][ /\ ~Verified(Visible) /\ ~is_legacy(Visible)
      /\ Visible' # Visible /\ faults' = faults /\ asides' = asides
      => /\ \E w \in Writers : pc[w] \in {"drafted", "partial"}
         /\ Verified(committed) ]_vars

\* What VRP v1 wrote is never lost: archives are never written over, and v1
\* and v2 lines never share an unharmed log (_archive_legacy, is_legacy).
LegacyKept ==
  [][ /\ Len(archives) <= Len(archives')
      /\ archives = SubSeq(archives', 1, Len(archives))
      /\ damage' = {} =>
           ~ \E i, j \in 1..Len(log') : /\ log'[i].form = "v1"
                                       /\ log'[j].form = "v2" ]_vars

\* No refusal, crash or outside change leaves the directory locked: the next
\* writer, and every other log of the plugin, can go on.
LockIsReleased == lock # NoWriter ~> lock = NoWriter

-----------------------------------------------------------------------------
(* Why ChainIntact holds: what is true at each point of _append.           *)

\* The directory's lock is held exactly by the writer inside the section.
LockInv ==
  \A w \in Writers :
    pc[w] \in {"locked", "archived", "drafted", "partial", "whole"}
      <=> lock = w

\* r continues the chain f.
Follows(r, f) ==
  /\ r.form = "v2" /\ r.sequence = Len(f) + 1
  /\ r.prev_event_id = chain_head(f)
  /\ r.hashed /\ r.body \in Clean \union Split
  /\ \A j \in 1..Len(f) : f[j].event_id < r.event_id
  /\ f # <<>> => f[Len(f)].recorded_at <= r.recorded_at

\* No event id is one of the contents still to be hashed.
DraftsInv == \A w \in Writers :
               /\ draft[w].event_id <= hashes
               /\ pc[w] # "idle" => draft[w].body \in Bodies
LogHashed == \A i \in 1..Len(log) : log[i].event_id <= hashes

\* While the file is unharmed: it verifies, nothing follows its last newline
\* outside a write, and the draft of the writer at work continues it.
SectionInv ==
  /\ Verified(log)
  /\ ~MidWrite => tail = NoLine
  /\ \A w \in Writers :
       /\ pc[w] = "archived" => ~is_legacy(log)
       /\ pc[w] \in {"drafted", "partial", "whole"} =>
            ChainOK(log) /\ Follows(draft[w], log)
       /\ pc[w] = "partial" => draft[w].body \notin Split
       /\ pc[w] = "whole" => tail = draft[w]

IInv == /\ TypeOK /\ LockInv /\ DraftsInv
        /\ damage = {} => LogHashed /\ SectionInv

-----------------------------------------------------------------------------
\* What docs/records-protocol.md says of these logs: they are "append-only
\* JSONL".  So a record the writer accepted leaves the log verifying, with
\* any text in it.
AcceptedRecordsVerify ==
  damage \subseteq {"split"} /\ ~MidWrite => Verified(Visible)

=============================================================================
