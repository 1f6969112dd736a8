--------------------------- MODULE RecordLog_proofs ---------------------------
(***************************************************************************)
(* Proofs about RecordLog: its variables' types, that the flock keeps      *)
(* writers apart, and, from both, that the chain of an unharmed log always *)
(* verifies and that appends only append.                                  *)
(***************************************************************************)
EXTENDS RecordLog, SequenceTheorems, TLAPS

(* Lines and sequences of lines.                                           *)

\* The lines the module names are lines.
LEMMA BlankType ==
  ASSUME NEW form \in {"none", "v1", "v2", "junk"}
  PROVE  Blank(form) \in Line
BY DEF Blank, Line

LEMMA NamedLines == NoLine \in Line /\ V1 \in Line /\ Junk \in Line
BY BlankType DEF NoLine, V1, Junk

\* What a reader sees is a sequence of lines.
LEMMA VisibleType == TypeOK => Visible \in Seq(Line)
BY DEF TypeOK, Visible

\* Tampering makes no new lines, but those it unhashes.
LEMMA TamperTypes ==
  ASSUME NEW S, \A r \in S : [r EXCEPT !.hashed = FALSE] \in S, NEW f \in Seq(S)
  PROVE  /\ \A i \in 1..Len(f) : [f EXCEPT ![i].hashed = FALSE] \in Seq(S)
         /\ \A i \in 1..Len(f) :
              SubSeq(f, 1, i - 1) \o SubSeq(f, i + 1, Len(f)) \in Seq(S)
         /\ \A i \in 1..Len(f) :
              SubSeq(f, 1, i) \o SubSeq(f, i, Len(f)) \in Seq(S)
         /\ \A i \in 1..(Len(f) - 1) :
              [f EXCEPT ![i] = f[i + 1], ![i + 1] = f[i]] \in Seq(S)
<1>0. /\ Len(f) \in Nat /\ DOMAIN f = 1..Len(f)
      /\ \A i \in 1..Len(f) : f[i] \in S
  BY LenProperties, ElementOfSeq
<1>s. ASSUME NEW m \in Int, NEW n \in Int, 1 <= m, n <= Len(f)
      PROVE  SubSeq(f, m, n) \in Seq(S)
  <2>1. \A i \in m..n : f[i] \in S
    BY <1>0, <1>s
  <2>2. QED BY <2>1, SubSeqProperties
<1>1. ASSUME NEW i \in 1..Len(f)
      PROVE  [f EXCEPT ![i].hashed = FALSE] \in Seq(S)
  <2>1. [f[i] EXCEPT !.hashed = FALSE] \in S
    BY <1>0
  <2>2. [f EXCEPT ![i] = [f[i] EXCEPT !.hashed = FALSE]] \in Seq(S)
    BY <2>1, ExceptSeq
  <2>3. QED BY <2>2
<1>2. ASSUME NEW i \in 1..Len(f)
      PROVE  SubSeq(f, 1, i - 1) \o SubSeq(f, i + 1, Len(f)) \in Seq(S)
  <2>1. SubSeq(f, 1, i - 1) \in Seq(S) BY <1>0, <1>s
  <2>2. SubSeq(f, i + 1, Len(f)) \in Seq(S) BY <1>0, <1>s
  <2>3. QED BY <2>1, <2>2, ConcatProperties
<1>3. ASSUME NEW i \in 1..Len(f)
      PROVE  SubSeq(f, 1, i) \o SubSeq(f, i, Len(f)) \in Seq(S)
  <2>1. SubSeq(f, 1, i) \in Seq(S) BY <1>0, <1>s
  <2>2. SubSeq(f, i, Len(f)) \in Seq(S) BY <1>0, <1>s
  <2>3. QED BY <2>1, <2>2, ConcatProperties
<1>4. ASSUME NEW i \in 1..(Len(f) - 1)
      PROVE  [f EXCEPT ![i] = f[i + 1], ![i + 1] = f[i]] \in Seq(S)
  <2> DEFINE g == [f EXCEPT ![i] = f[i + 1]]
  <2>1. g \in Seq(S) /\ Len(g) = Len(f)
    BY <1>0, ExceptSeq
  <2>2. [g EXCEPT ![i + 1] = f[i]] \in Seq(S)
    BY <1>0, <2>1, ExceptSeq
  <2>3. QED BY <2>2
<1>5. QED BY <1>1, <1>2, <1>3, <1>4

\* So a tampered file is one that replaces the file there was.
LEMMA Tampered ==
  ASSUME NEW S, \A r \in S : [r EXCEPT !.hashed = FALSE] \in S, Visible \in Seq(S), Tamper
  PROVE  \E f \in Seq(S) : Replace(f)
BY TamperTypes DEF Tamper

-----------------------------------------------------------------------------
(* Types.                                                                  *)

\* Every step keeps the types.
LEMMA TypeInductive ==
  /\ Init => TypeOK
  /\ TypeOK /\ [Next]_vars => TypeOK'
<1>1. Init => TypeOK
  <2> SUFFICES ASSUME Init PROVE TypeOK OBVIOUS
  <2>1. <<>> \in Seq(Line) /\ <<V1>> \in Seq(Line) /\ <<V1, V1>> \in Seq(Line)
    BY NamedLines
  <2>2. <<>> \in Seq(Seq(Line)) OBVIOUS
  <2>3. QED BY <2>1, <2>2, NamedLines DEF Init, TypeOK
<1>2. TypeOK /\ [Next]_vars => TypeOK'
  <2> SUFFICES ASSUME TypeOK, [Next]_vars PROVE TypeOK' OBVIOUS
  <2> USE DEF TypeOK
  <2>v. Visible \in Seq(Line) BY VisibleType
  <2>l. chain_head(Visible) \in Nat /\ Len(Visible) \in Nat
    <3>1. Len(Visible) \in Nat BY <2>v, LenProperties
    <3>2. CASE Visible = <<>> BY <3>1, <3>2 DEF chain_head, GENESIS
    <3>3. CASE Visible # <<>>
      <4>1. Len(Visible) \in 1..Len(Visible) BY <2>v, <3>3, EmptySeq
      <4>2. Visible[Len(Visible)] \in Line BY <2>v, <4>1, ElementOfSeq
      <4>3. QED BY <3>1, <3>3, <4>2 DEF chain_head, Line
    <3>4. QED BY <3>2, <3>3
  <2>1. ASSUME NEW w \in Writers, NEW b \in Bodies, Request(w, b) PROVE TypeOK'
    <3>1. [NoLine EXCEPT !.body = b] \in Line BY NamedLines DEF Line
    <3>2. QED BY <2>1, <3>1 DEF Request
  <2>2. ASSUME NEW w \in Writers, Acquire(w) PROVE TypeOK'
    BY <2>2 DEF Acquire
  <2>3. ASSUME NEW w \in Writers, _archive_legacy(w) PROVE TypeOK'
    <3>1. CASE is_legacy(Visible)
      <4>1. archives' = Append(archives, Visible) BY <2>3, <3>1 DEF _archive_legacy
      <4>2. archives' \in Seq(Seq(Line)) BY <2>v, <4>1
      <4>3. log' = <<>> /\ committed' = <<>> /\ tail' = NoLine /\ damage' = {}
        BY <2>3, <3>1 DEF _archive_legacy
      <4>4. QED BY <2>3, <4>2, <4>3, NamedLines DEF _archive_legacy
    <3>2. CASE ~is_legacy(Visible)
      BY <2>3, <3>2 DEF _archive_legacy
    <3>3. QED BY <3>1, <3>2
  <2>4. ASSUME NEW w \in Writers, Refuse(w) PROVE TypeOK'
    BY <2>4, NamedLines DEF Refuse
  <2>5. ASSUME NEW w \in Writers, Compose(w) PROVE TypeOK'
    <3>1. draft[w].body \in Bodies \union {NoBody} BY DEF Line
    <3>2. [form |-> "v2", sequence |-> Len(Visible) + 1,
           prev_event_id |-> chain_head(Visible), event_id |-> hashes + 1,
           recorded_at |-> clock, body |-> draft[w].body, hashed |-> TRUE]
             \in Line
      BY <2>l, <3>1 DEF Line
    <3>3. QED BY <2>5, <2>v, <3>2 DEF Compose
  <2>6. ASSUME NEW w \in Writers, WriteSome(w) PROVE TypeOK'
    <3>1. [draft[w] EXCEPT !.form = "junk"] \in Line BY DEF Line
    <3>2. draft' = [draft EXCEPT ![w] = IF tail = NoLine THEN draft[w]
                                 ELSE [draft[w] EXCEPT !.form = "junk"]]
      BY <2>6 DEF WriteSome
    <3>3. draft' \in [Writers -> Line] BY <3>1, <3>2
    <3>4. damage' \subseteq Causes BY <2>6 DEF WriteSome, Causes
    <3>5. QED BY <2>6, <3>3, <3>4, NamedLines DEF WriteSome
  <2>7. ASSUME NEW w \in Writers, WriteRest(w) PROVE TypeOK'
    <3>1. draft[w] \in Line OBVIOUS
    <3>2. committed' \in Seq(Line) BY <2>7, <3>1 DEF WriteRest
    <3>3. log' \in Seq(Line) /\ tail' \in Line
      <4>1. CASE draft[w].body \in Split
        <5>1. log' = Append(log, Junk) /\ tail' = Junk
          BY <2>7, <4>1 DEF WriteRest
        <5>2. QED BY <5>1, NamedLines
      <4>2. CASE draft[w].body \notin Split
        BY <2>7, <3>1, <4>2 DEF WriteRest
      <4>3. QED BY <4>1, <4>2
    <3>4. QED BY <2>7, <3>2, <3>3 DEF WriteRest
  <2>8. ASSUME NEW w \in Writers, WriteNewline(w) PROVE TypeOK'
    BY <2>8, NamedLines DEF WriteNewline
  <2>9. ASSUME NEW w \in Writers, Crash(w) PROVE TypeOK'
    <3>1. damage' \subseteq Causes BY <2>9 DEF Crash, Causes
    <3>2. QED BY <2>9, <3>1, NamedLines DEF Crash
  <2>10. CASE Tick BY <2>10 DEF Tick
  <2>11. CASE ClockSetBack BY <2>11 DEF ClockSetBack
  <2>12. CASE Tamper
    <3>1. \A r \in Line : [r EXCEPT !.hashed = FALSE] \in Line BY DEF Line
    <3>2. PICK f \in Seq(Line) : Replace(f) BY <2>12, <2>v, <3>1, Tampered
    <3>3. QED BY <3>2, NamedLines DEF Replace, Causes
  <2>13. CASE LegacyAppend BY <2>13, NamedLines DEF LegacyAppend
  <2>14. CASE MoveAside BY <2>14, NamedLines DEF MoveAside
  <2>15. CASE UNCHANGED vars BY <2>15 DEF vars
  <2>16. QED
    BY <2>1, <2>2, <2>3, <2>4, <2>5, <2>6, <2>7, <2>8, <2>9, <2>10, <2>11,
       <2>12, <2>13, <2>14, <2>15 DEF Next, Step
<1>3. QED BY <1>1, <1>2

\* The variables keep their types (TypeOK), whatever the bounds.
THEOREM TypeCorrect == Spec => []TypeOK
BY TypeInductive, PTL DEF Spec

-----------------------------------------------------------------------------
(* The lock.                                                               *)

\* Every step keeps the lock with the writer inside the section.
LEMMA LockInductive ==
  /\ Init => LockInv
  /\ TypeOK /\ LockInv /\ [Next]_vars => LockInv'
<1>1. Init => LockInv
  BY WritersAssumption DEF Init, LockInv
<1>2. TypeOK /\ LockInv /\ [Next]_vars => LockInv'
  <2> SUFFICES ASSUME TypeOK, LockInv, [Next]_vars PROVE LockInv' OBVIOUS
  <2> USE WritersAssumption DEF LockInv
  <2>t. pc \in [Writers -> {"idle", "waiting", "locked", "archived", "drafted",
                           "partial", "whole"}]
    BY DEF TypeOK
  <2>1. ASSUME NEW w \in Writers, NEW b \in Bodies, Request(w, b) PROVE LockInv'
    BY <2>t, <2>1 DEF Request
  <2>2. ASSUME NEW w \in Writers, Acquire(w) PROVE LockInv'
    BY <2>t, <2>2 DEF Acquire
  <2>3. ASSUME NEW w \in Writers, _archive_legacy(w) PROVE LockInv'
    BY <2>t, <2>3 DEF _archive_legacy
  <2>4. ASSUME NEW w \in Writers, Refuse(w) PROVE LockInv'
    BY <2>t, <2>4 DEF Refuse
  <2>5. ASSUME NEW w \in Writers, Compose(w) PROVE LockInv'
    BY <2>t, <2>5 DEF Compose
  <2>6. ASSUME NEW w \in Writers, WriteSome(w) PROVE LockInv'
    BY <2>t, <2>6 DEF WriteSome
  <2>7. ASSUME NEW w \in Writers, WriteRest(w) PROVE LockInv'
    BY <2>t, <2>7 DEF WriteRest
  <2>8. ASSUME NEW w \in Writers, WriteNewline(w) PROVE LockInv'
    BY <2>t, <2>8 DEF WriteNewline
  <2>9. ASSUME NEW w \in Writers, Crash(w) PROVE LockInv'
    BY <2>t, <2>9 DEF Crash
  <2>10. CASE UNCHANGED <<lock, pc>> BY <2>10
  <2>11. Tick \/ ClockSetBack \/ Tamper \/ LegacyAppend \/ MoveAside
           => UNCHANGED <<lock, pc>>
    BY DEF Tick, ClockSetBack, Tamper, Replace, LegacyAppend, MoveAside
  <2>12. QED
    BY <2>1, <2>2, <2>3, <2>4, <2>5, <2>6, <2>7, <2>8, <2>9, <2>10, <2>11
    DEF Next, Step, vars
<1>3. QED BY <1>1, <1>2

\* At most one process is inside _append's locked section (flock).
THEOREM MutualExclusion ==
  Spec => [](\A v, w \in Writers :
               /\ pc[v] \in {"locked", "archived", "drafted", "partial", "whole"}
               /\ pc[w] \in {"locked", "archived", "drafted", "partial", "whole"}
               => v = w)
<1>1. LockInv => \A v, w \in Writers :
               /\ pc[v] \in {"locked", "archived", "drafted", "partial", "whole"}
               /\ pc[w] \in {"locked", "archived", "drafted", "partial", "whole"}
               => v = w
  BY DEF LockInv
<1>2. QED BY <1>1, TypeInductive, LockInductive, PTL DEF Spec

-----------------------------------------------------------------------------
(* Chains.                                                                 *)

\* The empty log verifies and is no v1 log.
LEMMA EmptyLog == Verified(<<>>) /\ ~is_legacy(<<>>) /\ ChainOK(<<>>)
<1>1. Len(<<>>) = 0 BY EmptySeq
<1>2. QED BY <1>1 DEF Verified, is_legacy, ChainOK, HasJunk

\* A chain of v2 records has no malformed and no v1 line.
LEMMA ChainIsV2 ==
  ASSUME NEW f \in Seq(Line), ChainOK(f)
  PROVE  Verified(f) /\ ~is_legacy(f)
<1>1. \A i \in 1..Len(f) : f[i].form = "v2" BY DEF ChainOK, Linked
<1>2. QED BY <1>1 DEF Verified, is_legacy, HasJunk

\* The heart of the matter: a record composed for a chain keeps it a chain.
LEMMA ChainAppend ==
  ASSUME NEW f \in Seq(Line), NEW r \in Line, ChainOK(f), Follows(r, f)
  PROVE  ChainOK(Append(f, r))
<1> DEFINE g == Append(f, r)
           n == Len(f)
<1>1. /\ n \in Nat /\ Len(g) = n + 1
      /\ \A i \in 1..n : g[i] = f[i]
      /\ g[n + 1] = r
  BY AppendProperties, LenProperties
<1>2. ASSUME NEW i \in 1..n PROVE Linked(g, i)
  <2>1. Linked(f, i) BY DEF ChainOK
  <2>2. \A j \in 1..i : g[j] = f[j] BY <1>1
  <2>3. i > 1 => i - 1 \in 1..i BY <1>1
  <2>4. g[i] = f[i] BY <1>1
  <2>5. \A j \in 1..(i - 1) : g[j] = f[j] BY <1>1
  <2>6. i > 1 => g[i - 1] = f[i - 1] BY <2>2, <2>3
  <2>7. i # 1 => i > 1 BY <1>1
  <2>8. QED BY <2>1, <2>4, <2>5, <2>6, <2>7 DEF Linked
<1>3. Linked(g, n + 1)
  <2>1. r.form = "v2" /\ r.hashed /\ r.body \in Clean \union Split
        /\ r.sequence = n + 1
    BY DEF Follows
  <2>2. r.prev_event_id = IF n + 1 = 1 THEN GENESIS ELSE g[n + 1 - 1].event_id
    <3>1. CASE n = 0
      <4>1. f = <<>> BY <3>1, EmptySeq
      <4>2. chain_head(f) = GENESIS BY <4>1 DEF chain_head
      <4>3. r.prev_event_id = chain_head(f) BY DEF Follows
      <4>4. QED BY <3>1, <4>2, <4>3
    <3>2. CASE n > 0
      <4>1. f # <<>> BY <3>2, EmptySeq
      <4>2. g[n + 1 - 1] = f[n] BY <1>1, <3>2
      <4>3. QED BY <1>1, <3>2, <4>1, <4>2 DEF Follows, chain_head
    <3>3. QED BY <1>1, <3>1, <3>2
  <2>3. \A j \in 1..(n + 1 - 1) : g[j].event_id # r.event_id
    <3>1. ASSUME NEW j \in 1..n PROVE g[j].event_id # r.event_id
      <4>1. g[j].event_id < r.event_id BY <1>1 DEF Follows
      <4>2. f[j] \in Line BY ElementOfSeq
      <4>3. g[j].event_id \in Nat /\ r.event_id \in Nat
        BY <1>1, <4>2 DEF Line
      <4>4. QED BY <4>1, <4>3
    <3>2. QED BY <1>1, <3>1
  <2>4. n + 1 > 1 => g[n + 1 - 1].recorded_at <= r.recorded_at
    <3>1. SUFFICES ASSUME n > 0 PROVE g[n].recorded_at <= r.recorded_at
      BY <1>1
    <3>2. f # <<>> /\ g[n] = f[n] BY <1>1, <3>1, EmptySeq
    <3>3. QED BY <3>2 DEF Follows
  <2>5. QED BY <1>1, <2>1, <2>2, <2>3, <2>4 DEF Linked
<1>4. QED BY <1>1, <1>2, <1>3 DEF ChainOK

-----------------------------------------------------------------------------
(* The section.                                                            *)

\* What each step must keep, apart from the types and the lock.
Goal == DraftsInv /\ (damage = {} => LogHashed /\ SectionInv)

\* A writer inside the section is alone there.
LEMMA Alone ==
  ASSUME LockInv, NEW w \in Writers,
         pc[w] \in {"locked", "archived", "drafted", "partial", "whole"}
  PROVE  \A v \in Writers \ {w} :
           pc[v] \notin {"locked", "archived", "drafted", "partial", "whole"}
BY DEF LockInv

\* The steps before the lock and after a refusal leave the file alone.
LEMMA OutsideSteps ==
  ASSUME IInv, NEW w \in Writers,
         \/ \E b \in Bodies : Request(w, b)
         \/ Acquire(w) \/ Refuse(w)
  PROVE  Goal'
<1> USE DEF IInv
<1>1. pc \in [Writers -> {"idle", "waiting", "locked", "archived", "drafted",
                         "partial", "whole"}] /\ draft \in [Writers -> Line]
      /\ hashes \in Nat
  BY DEF TypeOK
<1>2. UNCHANGED <<log, tail, damage, hashes>>
  BY DEF Request, Acquire, Refuse
<1>3. \A v \in Writers :
        \/ pc'[v] = pc[v] /\ draft'[v] = draft[v]
        \/ /\ pc'[v] \in {"idle", "waiting", "locked"}
           /\ pc[v] \notin {"partial", "whole"}
           /\ draft'[v].event_id \in {draft[v].event_id, 0}
           /\ pc'[v] # "idle" => \/ draft'[v].body \in Bodies
                                 \/ pc[v] # "idle" /\ draft'[v] = draft[v]
  BY <1>1 DEF Request, Acquire, Refuse, NoLine, Blank
<1>4. DraftsInv' BY <1>1, <1>2, <1>3 DEF DraftsInv
<1>5. MidWrite' <=> MidWrite BY <1>1, <1>3 DEF MidWrite
<1>6. ASSUME damage' = {} PROVE LogHashed' /\ SectionInv'
  <2>1. LogHashed /\ SectionInv BY <1>2, <1>6
  <2>2. LogHashed' BY <1>2, <2>1 DEF LogHashed
  <2>3. SectionInv'
    <3>1. Verified(log)' BY <1>2, <2>1 DEF SectionInv
    <3>2. ~MidWrite' => tail' = NoLine BY <1>2, <1>5, <2>1 DEF SectionInv
    <3>3. ASSUME NEW v \in Writers
          PROVE  /\ pc'[v] = "archived" => ~is_legacy(log')
                 /\ pc'[v] \in {"drafted", "partial", "whole"} =>
                      ChainOK(log') /\ Follows(draft'[v], log')
                 /\ pc'[v] = "partial" => draft'[v].body \notin Split
                 /\ pc'[v] = "whole" => tail' = draft'[v]
      <4>1. CASE pc'[v] = pc[v] /\ draft'[v] = draft[v]
        BY <1>2, <2>1, <4>1 DEF SectionInv
      <4>2. CASE pc'[v] \in {"idle", "waiting", "locked"}
        BY <4>2
      <4>3. QED BY <1>3, <4>1, <4>2
    <3>4. QED BY <3>1, <3>2, <3>3 DEF SectionInv
  <2>4. QED BY <2>2, <2>3
<1>7. QED BY <1>4, <1>6 DEF Goal

\* An empty file with nobody inside the section, or one who has only just
\* archived, is as good as a file can be.
LEMMA FreshFile ==
  ASSUME log' = <<>>, tail' = NoLine, DraftsInv',
         \A v \in Writers : pc'[v] \notin {"drafted", "partial", "whole"}
  PROVE  Goal'
<1>1. Len(<<>>) = 0 BY EmptySeq
<1>2. LogHashed' BY <1>1 DEF LogHashed
<1>3. SectionInv' BY EmptyLog DEF SectionInv
<1>4. QED BY <1>2, <1>3 DEF Goal

LEMMA ArchiveStep ==
  ASSUME IInv, NEW w \in Writers, _archive_legacy(w)
  PROVE  Goal'
<1> USE DEF IInv
<1>1. pc \in [Writers -> {"idle", "waiting", "locked", "archived", "drafted",
                         "partial", "whole"}]
  BY DEF TypeOK
<1>2. pc[w] = "locked" /\ pc' = [pc EXCEPT ![w] = "archived"]
      /\ UNCHANGED <<draft, hashes>>
  BY DEF _archive_legacy
<1>3. \A v \in Writers \ {w} :
        pc[v] \notin {"locked", "archived", "drafted", "partial", "whole"}
  BY <1>2, Alone
<1>4. DraftsInv' BY <1>1, <1>2 DEF DraftsInv
<1>5. \A v \in Writers : pc'[v] \notin {"drafted", "partial", "whole"}
  BY <1>1, <1>2, <1>3
<1>6. CASE is_legacy(Visible)
  <2>1. log' = <<>> /\ tail' = NoLine BY <1>6 DEF _archive_legacy
  <2>2. QED BY <1>4, <1>5, <2>1, FreshFile
<1>7. CASE ~is_legacy(Visible)
  <2>1. UNCHANGED <<log, tail, damage>> BY <1>7 DEF _archive_legacy
  <2>2. ASSUME damage' = {} PROVE LogHashed' /\ SectionInv'
    <3>1. LogHashed /\ SectionInv BY <2>1, <2>2
    <3>2. ~MidWrite BY <1>1, <1>2, <1>3 DEF MidWrite
    <3>3. tail = NoLine /\ Visible = log
      BY <3>1, <3>2 DEF SectionInv, Visible
    <3>4. LogHashed' BY <1>2, <2>1, <3>1 DEF LogHashed
    <3>5. SectionInv'
      BY <1>5, <1>7, <2>1, <3>1, <3>3 DEF SectionInv
    <3>6. QED BY <3>4, <3>5
  <2>3. QED BY <1>4, <2>2 DEF Goal
<1>8. QED BY <1>6, <1>7

\* The record composed from a verified log continues it.
LEMMA ComposeStep ==
  ASSUME IInv, NEW w \in Writers, Compose(w)
  PROVE  Goal'
<1> USE DEF IInv
<1> DEFINE r == draft'[w]
<1>1. /\ pc \in [Writers -> {"idle", "waiting", "locked", "archived",
                            "drafted", "partial", "whole"}]
      /\ draft \in [Writers -> Line] /\ hashes \in Nat /\ log \in Seq(Line)
  BY DEF TypeOK
<1>2. /\ pc[w] = "archived" /\ pc' = [pc EXCEPT ![w] = "drafted"]
      /\ hashes' = hashes + 1
      /\ UNCHANGED <<log, tail, damage>>
      /\ ~Refuses(w)
  BY DEF Compose
<1>3. r = [form |-> "v2", sequence |-> Len(Visible) + 1,
           prev_event_id |-> chain_head(Visible), event_id |-> hashes + 1,
           recorded_at |-> clock, body |-> draft[w].body, hashed |-> TRUE]
  BY <1>1 DEF Compose
<1>4. \A v \in Writers \ {w} : /\ draft'[v] = draft[v] /\ pc'[v] = pc[v]
                              /\ pc[v] \notin {"locked", "archived", "drafted",
                                              "partial", "whole"}
  BY <1>1, <1>2, Alone DEF Compose
<1>5. DraftsInv'
  <2>1. ASSUME NEW v \in Writers
        PROVE  /\ draft'[v].event_id <= hashes'
               /\ pc'[v] # "idle" => draft'[v].body \in Bodies
    <3>1. CASE v = w BY <1>1, <1>2, <1>3, <3>1 DEF DraftsInv
    <3>2. CASE v # w
      <4>1. draft[v].event_id \in Nat BY <1>1 DEF Line
      <4>2. /\ draft[v].event_id <= hashes
            /\ pc[v] # "idle" => draft[v].body \in Bodies
        BY DEF DraftsInv
      <4>3. QED BY <1>1, <1>2, <1>4, <3>2, <4>1, <4>2
    <3>3. QED BY <3>1, <3>2
  <2>2. QED BY <2>1 DEF DraftsInv
<1>6. ASSUME damage' = {} PROVE LogHashed' /\ SectionInv'
  <2>1. LogHashed /\ SectionInv BY <1>2, <1>6
  <2>2. ~MidWrite /\ ~MidWrite' BY <1>1, <1>2, <1>4 DEF MidWrite
  <2>3. tail = NoLine /\ Visible = log BY <2>1, <2>2 DEF SectionInv, Visible
  <2>4. ChainOK(log)
    BY <1>2, <2>1, <2>3 DEF SectionInv, Verified
  <2>5. \A i \in 1..Len(log) : log[i] \in Line /\ log[i].event_id \in Nat
    <3>1. \A i \in 1..Len(log) : log[i] \in Line BY <1>1, ElementOfSeq
    <3>2. QED BY <3>1 DEF Line
  <2>6. LogHashed' BY <1>1, <1>2, <2>1, <2>5 DEF LogHashed
  <2>7. Follows(r, log)
    <3>1. draft[w].body \in Clean \union Split
      <4>1. draft[w].body \in Bodies
        BY <1>2 DEF DraftsInv
      <4>2. QED BY <1>2, <4>1 DEF Refuses, Bodies
    <3>2. \A j \in 1..Len(log) : log[j].event_id < r.event_id
      BY <1>1, <1>3, <2>1, <2>5 DEF LogHashed
    <3>3. log # <<>> => log[Len(log)].recorded_at <= r.recorded_at
      <4>1. SUFFICES ASSUME log # <<>>
                     PROVE  log[Len(log)].recorded_at <= clock
        BY <1>3
      <4>2. log[Len(log)] \in Line BY <1>1, <4>1, EmptySeq, ElementOfSeq
      <4>3. log[Len(log)].recorded_at \in Nat /\ clock \in Nat
        BY <4>2 DEF Line, TypeOK
      <4>4. ~(clock < log[Len(log)].recorded_at)
        BY <1>2, <2>3, <4>1 DEF Refuses
      <4>5. QED BY <4>3, <4>4
    <3>4. QED BY <1>3, <2>3, <3>1, <3>2, <3>3 DEF Follows
  <2>8. SectionInv'
    BY <1>2, <1>4, <2>1, <2>2, <2>3, <2>4, <2>7 DEF SectionInv
  <2>9. QED BY <2>6, <2>8
<1>7. QED BY <1>5, <1>6 DEF Goal

\* The first bytes of the draft leave the complete lines as they were.
LEMMA WriteSomeStep ==
  ASSUME IInv, NEW w \in Writers, WriteSome(w)
  PROVE  Goal'
<1> USE DEF IInv
<1>1. /\ pc \in [Writers -> {"idle", "waiting", "locked", "archived",
                            "drafted", "partial", "whole"}]
      /\ draft \in [Writers -> Line]
  BY DEF TypeOK
<1>2. /\ pc[w] = "drafted" /\ pc' = [pc EXCEPT ![w] = "partial"]
      /\ UNCHANGED <<log, hashes>>
      /\ damage \subseteq damage'
      /\ draft[w].body \in Split => "split" \in damage'
  BY DEF WriteSome
<1>3. /\ tail = NoLine => draft' = draft
      /\ \A v \in Writers : draft'[v] \in {draft[v], [draft[v] EXCEPT !.form = "junk"]}
  BY <1>1 DEF WriteSome
<1>4. \A v \in Writers \ {w} : /\ pc'[v] = pc[v]
                              /\ pc[v] \notin {"locked", "archived", "drafted",
                                              "partial", "whole"}
  BY <1>1, <1>2, Alone
<1>5. DraftsInv'
  <2>1. ASSUME NEW v \in Writers
        PROVE  /\ draft'[v].event_id = draft[v].event_id
               /\ draft'[v].body = draft[v].body
    <3>1. draft[v] \in Line BY <1>1
    <3>2. QED BY <1>3, <3>1 DEF Line
  <2>2. QED BY <1>1, <1>2, <2>1 DEF DraftsInv
<1>6. ASSUME damage' = {} PROVE LogHashed' /\ SectionInv'
  <2>1. damage = {} /\ draft[w].body \notin Split BY <1>2, <1>6
  <2>2. LogHashed /\ SectionInv BY <2>1
  <2>3. ~MidWrite BY <1>1, <1>2, <1>4 DEF MidWrite
  <2>4. tail = NoLine BY <2>2, <2>3 DEF SectionInv
  <2>5. draft' = draft BY <1>3, <2>4
  <2>6. LogHashed' BY <1>2, <2>2 DEF LogHashed
  <2>7. MidWrite' BY <1>1, <1>2 DEF MidWrite
  <2>8. SectionInv'
    BY <1>1, <1>2, <1>4, <2>1, <2>2, <2>5, <2>7 DEF SectionInv
  <2>9. QED BY <2>6, <2>8
<1>7. QED BY <1>5, <1>6 DEF Goal

\* An unharmed draft is written whole, behind the chain it continues.
LEMMA WriteRestStep ==
  ASSUME IInv, NEW w \in Writers, WriteRest(w)
  PROVE  Goal'
<1> USE DEF IInv
<1>1. pc \in [Writers -> {"idle", "waiting", "locked", "archived", "drafted",
                         "partial", "whole"}]
  BY DEF TypeOK
<1>2. /\ pc[w] = "partial" /\ pc' = [pc EXCEPT ![w] = "whole"]
      /\ UNCHANGED <<draft, hashes, damage>>
  BY DEF WriteRest
<1>3. \A v \in Writers \ {w} : /\ pc'[v] = pc[v]
                              /\ pc[v] \notin {"locked", "archived", "drafted",
                                              "partial", "whole"}
  BY <1>1, <1>2, Alone
<1>4. DraftsInv' BY <1>1, <1>2 DEF DraftsInv
<1>5. ASSUME damage' = {} PROVE LogHashed' /\ SectionInv'
  <2>1. LogHashed /\ SectionInv BY <1>2, <1>5
  <2>2. draft[w].body \notin Split BY <1>2, <2>1 DEF SectionInv
  <2>3. tail' = draft[w] /\ log' = log BY <2>2 DEF WriteRest
  <2>4. LogHashed' BY <1>2, <2>1, <2>3 DEF LogHashed
  <2>5. MidWrite' BY <1>1, <1>2 DEF MidWrite
  <2>6. SectionInv'
    BY <1>1, <1>2, <1>3, <2>1, <2>3, <2>5 DEF SectionInv
  <2>7. QED BY <2>4, <2>6
<1>6. QED BY <1>4, <1>5 DEF Goal

\* The newline completes the record: the chain has grown by it.
LEMMA WriteNewlineStep ==
  ASSUME IInv, NEW w \in Writers, WriteNewline(w)
  PROVE  Goal'
<1> USE DEF IInv
<1>1. /\ pc \in [Writers -> {"idle", "waiting", "locked", "archived",
                            "drafted", "partial", "whole"}]
      /\ draft \in [Writers -> Line] /\ log \in Seq(Line) /\ hashes \in Nat
  BY DEF TypeOK
<1>2. /\ pc[w] = "whole" /\ pc' = [pc EXCEPT ![w] = "idle"]
      /\ log' = Append(log, tail) /\ tail' = NoLine
      /\ draft' = [draft EXCEPT ![w] = NoLine]
      /\ UNCHANGED <<hashes, damage>>
  BY DEF WriteNewline
<1>3. \A v \in Writers : pc'[v] \notin {"locked", "archived", "drafted",
                                        "partial", "whole"}
  BY <1>1, <1>2, Alone
<1>4. DraftsInv'
  BY <1>1, <1>2 DEF DraftsInv, NoLine, Blank
<1>5. ASSUME damage' = {} PROVE LogHashed' /\ SectionInv'
  <2>1. LogHashed /\ SectionInv BY <1>2, <1>5
  <2>2. ChainOK(log) /\ Follows(draft[w], log) /\ tail = draft[w]
    BY <1>2, <2>1 DEF SectionInv
  <2>3. draft[w] \in Line BY <1>1
  <2>4. log' \in Seq(Line) /\ ChainOK(log')
    BY <1>1, <1>2, <2>2, <2>3, ChainAppend, AppendProperties
  <2>5. Verified(log') BY <2>4, ChainIsV2
  <2>6. LogHashed'
    <3>1. /\ Len(log') = Len(log) + 1 /\ log'[Len(log) + 1] = draft[w]
          /\ \A i \in 1..Len(log) : log'[i] = log[i]
      BY <1>1, <1>2, <2>2, <2>3, AppendProperties
    <3>2. draft[w].event_id <= hashes BY DEF DraftsInv
    <3>3. Len(log) \in Nat BY <1>1, LenProperties
    <3>4. \A i \in 1..Len(log') : i \in 1..Len(log) \/ i = Len(log) + 1
      BY <3>1, <3>3
    <3>5. QED BY <1>2, <2>1, <3>1, <3>2, <3>4 DEF LogHashed
  <2>7. SectionInv' BY <1>2, <1>3, <2>5 DEF SectionInv
  <2>8. QED BY <2>6, <2>7
<1>6. QED BY <1>4, <1>5 DEF Goal

\* A crash inside a write is harm; anywhere else it leaves the file alone.
LEMMA CrashStep ==
  ASSUME IInv, NEW w \in Writers, Crash(w)
  PROVE  Goal'
<1> USE DEF IInv
<1>1. /\ pc \in [Writers -> {"idle", "waiting", "locked", "archived",
                            "drafted", "partial", "whole"}]
      /\ draft \in [Writers -> Line] /\ hashes \in Nat
  BY DEF TypeOK
<1>2. /\ pc' = [pc EXCEPT ![w] = "idle"]
      /\ draft' = [draft EXCEPT ![w] = NoLine]
      /\ UNCHANGED <<log, tail, hashes>>
  BY DEF Crash
<1>3. DraftsInv'
  BY <1>1, <1>2 DEF DraftsInv, NoLine, Blank
<1>4. ASSUME damage' = {} PROVE LogHashed' /\ SectionInv'
  <2>1. pc[w] \notin {"partial", "whole"} /\ damage = {}
    BY <1>4 DEF Crash
  <2>2. LogHashed /\ SectionInv BY <2>1
  <2>3. LogHashed' BY <1>2, <2>2 DEF LogHashed
  <2>4. MidWrite => MidWrite' BY <1>1, <1>2, <2>1 DEF MidWrite
  <2>5. SectionInv' BY <1>1, <1>2, <2>2, <2>4 DEF SectionInv
  <2>6. QED BY <2>3, <2>5
<1>5. QED BY <1>3, <1>4 DEF Goal

\* What happens outside the writers harms the file, or leaves a v1 log or an
\* empty file where no writer is at work.
LEMMA WorldSteps ==
  ASSUME IInv, Tamper \/ LegacyAppend \/ MoveAside
  PROVE  Goal'
<1> USE DEF IInv
<1>1. UNCHANGED <<pc, draft, hashes>>
  BY DEF Tamper, Replace, LegacyAppend, MoveAside
<1>2. DraftsInv' BY <1>1 DEF DraftsInv
<1>3. CASE Tamper
  <2>1. damage' # {} BY <1>3 DEF Tamper, Replace
  <2>2. QED BY <1>2, <2>1 DEF Goal
<1>4. lock = NoWriter =>
        \A w \in Writers : pc[w] \notin {"locked", "archived", "drafted",
                                        "partial", "whole"}
  BY WritersAssumption DEF LockInv
<1>5. CASE MoveAside
  <2>1. log' = <<>> /\ tail' = NoLine /\ lock = NoWriter
    BY <1>5 DEF MoveAside
  <2>2. QED BY <1>1, <1>2, <1>4, <2>1, FreshFile
<1>6. CASE LegacyAppend
  <2>1. /\ lock = NoWriter /\ tail = NoLine /\ log' = Append(log, V1)
        /\ log = <<>> \/ is_legacy(log)
        /\ UNCHANGED <<tail, damage>>
    BY <1>6 DEF LegacyAppend
  <2>2. ASSUME damage' = {} PROVE LogHashed' /\ SectionInv'
    <3>1. LogHashed /\ SectionInv BY <2>1, <2>2
    <3>2. log \in Seq(Line) /\ hashes \in Nat BY DEF TypeOK
    <3>3. /\ Len(log) \in Nat /\ Len(log') = Len(log) + 1
          /\ log'[Len(log) + 1] = V1
          /\ \A i \in 1..Len(log) : log'[i] = log[i]
      BY <2>1, <3>2, NamedLines, AppendProperties, LenProperties
    <3>4. \A i \in 1..Len(log') : i \in 1..Len(log) \/ i = Len(log) + 1
      BY <3>3
    <3>5. V1.event_id = 0 /\ V1.form = "v1" BY DEF V1, Blank
    <3>6. LogHashed' BY <1>1, <3>1, <3>2, <3>3, <3>4, <3>5 DEF LogHashed
    <3>7. ~HasJunk(log) BY <3>1 DEF SectionInv, Verified
    <3>8. \A i \in 1..Len(log) : log[i].form = "v1"
      <4>1. CASE log = <<>>
        <5>1. Len(log) = 0 BY <4>1, EmptySeq
        <5>2. QED BY <5>1
      <4>2. CASE is_legacy(log) BY <3>7, <4>2 DEF HasJunk, is_legacy
      <4>3. QED BY <2>1, <4>1, <4>2
    <3>9. \A i \in 1..Len(log') : log'[i].form = "v1"
      BY <3>3, <3>4, <3>5, <3>8
    <3>10. ~HasJunk(log') BY <3>9 DEF HasJunk
    <3>11. Len(log') \in 1..Len(log') BY <3>3
    <3>12. is_legacy(log') BY <3>9, <3>11 DEF is_legacy
    <3>13. SectionInv'
      BY <1>1, <1>4, <2>1, <3>10, <3>12 DEF SectionInv, Verified
    <3>14. QED BY <3>6, <3>13
  <2>3. QED BY <1>2, <2>2 DEF Goal
<1>7. QED BY <1>3, <1>5, <1>6

\* The invariant says nothing of the clock.
LEMMA ClockSteps ==
  ASSUME IInv, UNCHANGED <<log, tail, pc, draft, hashes, damage>>
  PROVE  Goal'
<1>1. MidWrite' <=> MidWrite BY DEF MidWrite
<1>2. QED BY <1>1 DEF IInv, Goal, DraftsInv, LogHashed, SectionInv

\* IInv is inductive.
LEMMA Inductive ==
  /\ Init => IInv
  /\ IInv /\ [Next]_vars => IInv'
<1>1. Init => IInv
  <2> SUFFICES ASSUME Init PROVE IInv OBVIOUS
  <2>1. TypeOK /\ LockInv BY TypeInductive, LockInductive
  <2>2. DraftsInv
    <3>1. NoLine.event_id = 0 BY DEF NoLine, Blank
    <3>2. \A w \in Writers : draft[w] = NoLine /\ pc[w] = "idle" BY DEF Init
    <3>3. hashes = 0 /\ 0 <= 0 BY DEF Init
    <3>4. QED BY <3>1, <3>2, <3>3 DEF DraftsInv
  <2>3. \A i \in 1..Len(log) : log[i] = V1
    <3>1. log = <<>> \/ log = <<V1>> \/ log = <<V1, V1>> BY DEF Init
    <3>2. CASE log = <<>> BY <3>2
    <3>3. CASE log = <<V1>>
      <4>1. Len(log) = 1 /\ log[1] = V1 BY <3>3
      <4>2. QED BY <4>1
    <3>4. CASE log = <<V1, V1>>
      <4>1. Len(log) = 2 /\ log[1] = V1 /\ log[2] = V1 BY <3>4
      <4>2. \A i \in 1..2 : i = 1 \/ i = 2 OBVIOUS
      <4>3. QED BY <4>1, <4>2
    <3>5. QED BY <3>1, <3>2, <3>3, <3>4
  <2>4. V1.form = "v1" /\ V1.event_id = 0 BY DEF V1, Blank
  <2>5. LogHashed BY <2>3, <2>4 DEF Init, LogHashed
  <2>6. Verified(log)
    <3>1. CASE log = <<>> BY <3>1, EmptyLog
    <3>2. CASE log # <<>>
      <4>1. 1 \in 1..Len(log) BY <3>2 DEF Init
      <4>2. QED BY <2>3, <2>4, <4>1 DEF Verified, HasJunk, is_legacy
    <3>3. QED BY <3>1, <3>2
  <2>7. SectionInv BY <2>6 DEF Init, SectionInv
  <2>8. QED BY <2>1, <2>2, <2>5, <2>7 DEF IInv
<1>2. IInv /\ [Next]_vars => IInv'
  <2> SUFFICES ASSUME IInv, [Next]_vars PROVE IInv' OBVIOUS
  <2>1. TypeOK' /\ LockInv' BY TypeInductive, LockInductive DEF IInv
  <2>2. CASE UNCHANGED vars
    <3>1. Goal' BY <2>2, ClockSteps DEF vars
    <3>2. QED BY <2>1, <3>1 DEF IInv, Goal
  <2>3. CASE Next
    <3>1. Goal'
      <4>1. CASE Tick \/ ClockSetBack \/ Tamper \/ LegacyAppend \/ MoveAside
        <5>1. CASE Tamper \/ LegacyAppend \/ MoveAside BY <5>1, WorldSteps
        <5>2. CASE Tick \/ ClockSetBack
          BY <5>2, ClockSteps DEF Tick, ClockSetBack
        <5>3. QED BY <4>1, <5>1, <5>2
      <4>2. ASSUME NEW w \in Writers,
                   \/ \E b \in Bodies : Request(w, b)
                   \/ Acquire(w) \/ Step(w) \/ Crash(w)
            PROVE  Goal'
        <5>1. CASE \/ \E b \in Bodies : Request(w, b)
                   \/ Acquire(w) \/ Refuse(w)
          BY <5>1, OutsideSteps
        <5>2. CASE _archive_legacy(w) BY <5>2, ArchiveStep
        <5>3. CASE Compose(w) BY <5>3, ComposeStep
        <5>4. CASE WriteSome(w) BY <5>4, WriteSomeStep
        <5>5. CASE WriteRest(w) BY <5>5, WriteRestStep
        <5>6. CASE WriteNewline(w) BY <5>6, WriteNewlineStep
        <5>7. CASE Crash(w) BY <5>7, CrashStep
        <5>8. QED
          BY <4>2, <5>1, <5>2, <5>3, <5>4, <5>5, <5>6, <5>7 DEF Step
      <4>3. QED BY <2>3, <4>1, <4>2 DEF Next
    <3>2. QED BY <2>1, <3>1 DEF IInv, Goal
  <2>4. QED BY <2>2, <2>3
<1>3. QED BY <1>1, <1>2

\* An unharmed log verifies whenever no write is half done, for any number
\* of writers, records, crashes and outside changes.
THEOREM ChainAlwaysIntact == Spec => []ChainIntact
<1>1. IInv => ChainIntact
  <2> SUFFICES ASSUME IInv, damage = {}, ~MidWrite PROVE Verified(Visible)
    BY DEF ChainIntact
  <2>1. Verified(log) /\ tail = NoLine BY DEF IInv, SectionInv
  <2>2. QED BY <2>1 DEF Visible
<1>2. QED BY <1>1, Inductive, PTL DEF Spec

\* Appends only append (AppendOnly): an unharmed log loses lines only to an
\* archive that takes all of them.
THEOREM AppendsOnlyAppend == Spec => AppendOnly
<1> DEFINE A == damage = {} /\ damage' = {} /\ faults' = faults /\ asides' = asides =>
                  \/ Len(log) <= Len(log') /\ log = SubSeq(log', 1, Len(log))
                  \/ log' = <<>> /\ archives' = Append(archives, log)
<1>1. IInv /\ [Next]_vars => [A]_vars
  <2> SUFFICES ASSUME IInv, Next, damage = {}, damage' = {}, faults' = faults,
                      asides' = asides
               PROVE  \/ Len(log) <= Len(log') /\ log = SubSeq(log', 1, Len(log))
                      \/ log' = <<>> /\ archives' = Append(archives, log)
    OBVIOUS
  <2>t. log \in Seq(Line) /\ tail \in Line /\ Len(log) \in Nat
        /\ pc \in [Writers -> {"idle", "waiting", "locked", "archived", "drafted",
                              "partial", "whole"}]
        /\ faults \in Nat /\ asides \in Nat
    BY LenProperties DEF IInv, TypeOK
  <2>1. CASE log' = log
    <3>1. log = SubSeq(log, 1, Len(log)) BY <2>t, SubSeqFull
    <3>2. QED BY <2>1, <2>t, <3>1
  <2>2. CASE log' = Append(log, tail)
    <3>1. /\ Len(log') = Len(log) + 1 /\ log' \in Seq(Line)
          /\ \A i \in 1..Len(log) : log'[i] = log[i]
      BY <2>t, <2>2, AppendProperties
    <3>2. \A i \in 1..Len(log) : log'[i] \in Line
      BY <2>t, <3>1, ElementOfSeq
    <3>3. /\ SubSeq(log', 1, Len(log)) \in Seq(Line)
          /\ Len(SubSeq(log', 1, Len(log))) = Len(log)
          /\ \A i \in 1..Len(log) : SubSeq(log', 1, Len(log))[i] = log'[i]
      BY <2>t, <3>2, SubSeqProperties
    <3>4. log = SubSeq(log', 1, Len(log))
      BY <2>t, <3>1, <3>3, SeqEqual
    <3>5. QED BY <2>t, <3>1, <3>4
  <2>3. ASSUME NEW w \in Writers, _archive_legacy(w), log' # log
        PROVE  log' = <<>> /\ archives' = Append(archives, log)
    <3>1. pc[w] = "locked" BY <2>3 DEF _archive_legacy
    <3>2. \A v \in Writers \ {w} :
            pc[v] \notin {"locked", "archived", "drafted", "partial", "whole"}
      BY <3>1, Alone DEF IInv
    <3>3. ~MidWrite BY <3>1, <3>2 DEF MidWrite
    <3>4. Visible = log BY <3>3 DEF IInv, SectionInv, Visible
    <3>5. QED BY <2>3, <3>4 DEF _archive_legacy
  <2>4. ASSUME NEW w \in Writers, WriteRest(w) PROVE log' = log
    BY <2>4 DEF WriteRest, IInv, SectionInv
  <2>5. ASSUME NEW w \in Writers, WriteNewline(w) PROVE log' = Append(log, tail)
    BY <2>5 DEF WriteNewline
  <2>6. ASSUME NEW w \in Writers,
               \/ \E b \in Bodies : Request(w, b)
               \/ Acquire(w) \/ Refuse(w) \/ Compose(w) \/ WriteSome(w)
               \/ Crash(w)
        PROVE  log' = log
    BY <2>6 DEF Request, Acquire, Refuse, Compose, WriteSome, Crash
  <2>7. CASE Tick \/ ClockSetBack \/ Tamper \/ LegacyAppend \/ MoveAside
    <3>1. log' = log
      BY <2>t, <2>7 DEF Tick, ClockSetBack, Tamper, Replace, LegacyAppend,
                        MoveAside
    <3>2. QED BY <2>1, <3>1
  <2>8. QED
    BY <2>1, <2>2, <2>3, <2>4, <2>5, <2>6, <2>7 DEF Next, Step
<1>2. QED BY <1>1, Inductive, PTL DEF Spec, AppendOnly

-----------------------------------------------------------------------------
(* What the hashes notice.                                                 *)

\* What the last append verified, and its record, are all the records there
\* are: any other line is of VRP v1, unreadable or does not match its hash.
Remembered == {r \in Line : r.form = "v2" /\ r.hashed =>
                              \E j \in 1..Len(committed) : committed[j] = r}

\* Records stand in committed where their sequence says.
InOrder(f) == \A j \in 1..Len(f) : f[j].form = "v2" /\ f[j].hashed => f[j].sequence = j

\* A writer has verified committed, and its record comes next.
AtWork(w) ==
  /\ pc[w] \in {"drafted", "partial"} =>
       /\ Verified(committed)
       /\ draft[w].sequence = Len(committed) + 1
       /\ draft[w].form \in {"v2", "junk"}
  /\ pc[w] = "whole" => tail # NoLine

\* The file holds what is remembered, and each writer goes on from it.
MemoryInv ==
  /\ log \in Seq(Remembered) /\ tail \in Remembered
  /\ InOrder(committed)
  /\ \A w \in Writers : AtWork(w)

\* Lines that are no records need not be remembered.
LEMMA NamedRemembered == NoLine \in Remembered /\ Junk \in Remembered /\ V1 \in Remembered
BY NamedLines DEF Remembered, NoLine, Junk, V1, Blank

\* What is remembered depends on committed only, and its lines have a type.
LEMMA MemoryKept ==
  ASSUME UNCHANGED committed
  PROVE  Remembered' = Remembered /\ (InOrder(committed) => InOrder(committed)')
BY DEF Remembered, InOrder

LEMMA VisibleRemembered == ASSUME MemoryInv PROVE Visible \in Seq(Remembered)
BY DEF MemoryInv, Visible

\* A verified file has its records in order.
LEMMA VerifiedInOrder == ASSUME NEW f, Verified(f) PROVE InOrder(f)
BY DEF Verified, is_legacy, ChainOK, Linked, InOrder

\* Writers outside the section stay as they are.
LEMMA OthersAtWork ==
  ASSUME IInv, NEW w \in Writers, NEW step, pc' = [pc EXCEPT ![w] = step],
         pc[w] \in {"locked", "archived", "drafted", "partial", "whole"}
  PROVE  \A v \in Writers \ {w} : AtWork(v)'
<1>1. \A v \in Writers \ {w} :
        pc'[v] = pc[v] /\ pc[v] \notin {"locked", "archived", "drafted", "partial", "whole"}
  BY Alone DEF IInv, TypeOK
<1> QED BY <1>1 DEF AtWork

\* An empty file with an empty memory, when nobody has drafted.
LEMMA FreshMemory ==
  ASSUME log' = <<>>, tail' = NoLine, committed' = <<>>,
         \A v \in Writers : pc'[v] \notin {"drafted", "partial", "whole"}
  PROVE  MemoryInv'
<1>1. Len(<<>>) = 0 BY EmptySeq
<1>2. InOrder(committed)' BY <1>1 DEF InOrder
<1>3. NoLine \in Remembered' BY NamedLines DEF Remembered, NoLine, Blank
<1>4. log' \in Seq(Remembered') OBVIOUS
<1>5. \A v \in Writers : AtWork(v)' BY DEF AtWork
<1> QED BY <1>2, <1>3, <1>4, <1>5 DEF MemoryInv

\* Steps that leave committed and the file's lines alone.
LEMMA QuietSteps ==
  ASSUME IInv, MemoryInv, NEW w \in Writers,
         \/ \E b \in Bodies : Request(w, b)
         \/ Acquire(w) \/ Refuse(w) \/ Crash(w) \/ WriteSome(w)
  PROVE  MemoryInv'
<1>t. /\ pc \in [Writers -> {"idle", "waiting", "locked", "archived", "drafted",
                            "partial", "whole"}]
      /\ draft \in [Writers -> Line]
  BY DEF IInv, TypeOK
<1>1. UNCHANGED <<log, committed>> /\ tail' \in {tail, Junk}
  BY DEF Request, Acquire, Refuse, Crash, WriteSome
<1>2. log' \in Seq(Remembered') /\ tail' \in Remembered' /\ InOrder(committed)'
  BY <1>1, MemoryKept, NamedRemembered DEF MemoryInv
<1>3. CASE WriteSome(w)
  <2>1. pc[w] = "drafted" /\ pc' = [pc EXCEPT ![w] = "partial"] BY <1>3 DEF WriteSome
  <2>2. AtWork(w)'
    <3>1. /\ draft'[w].sequence = draft[w].sequence
          /\ draft'[w].form \in {draft[w].form, "junk"}
      <4>1. draft[w] \in Line BY <1>t
      <4>2. draft'[w] \in {draft[w], [draft[w] EXCEPT !.form = "junk"]}
        BY <1>t, <1>3 DEF WriteSome
      <4> QED BY <4>1, <4>2 DEF Line
    <3>2. AtWork(w) BY DEF MemoryInv
    <3> QED BY <1>t, <1>1, <2>1, <3>1, <3>2 DEF AtWork
  <2> QED BY <1>2, <2>1, <2>2, OthersAtWork DEF MemoryInv
<1>4. CASE \/ \E b \in Bodies : Request(w, b)
           \/ Acquire(w) \/ Refuse(w) \/ Crash(w)
  <2>1. pc'[w] \in {"idle", "waiting", "locked"} /\ tail' = tail
    BY <1>t, <1>4 DEF Request, Acquire, Refuse, Crash
  <2>2. \A v \in Writers \ {w} : pc'[v] = pc[v] /\ draft'[v] = draft[v]
    BY <1>t, <1>4 DEF Request, Acquire, Refuse, Crash
  <2>3. \A v \in Writers : AtWork(v)' BY <1>1, <2>1, <2>2 DEF AtWork, MemoryInv
  <2> QED BY <1>2, <2>3 DEF MemoryInv
<1> QED BY <1>3, <1>4

\* A newline makes a line of what was there.
LEMMA NewlineRemembers ==
  ASSUME IInv, MemoryInv, NEW w \in Writers, WriteNewline(w) PROVE MemoryInv'
<1>1. /\ pc[w] = "whole" /\ pc' = [pc EXCEPT ![w] = "idle"]
      /\ log' = Append(log, tail) /\ tail' = NoLine /\ UNCHANGED committed
  BY DEF WriteNewline
<1>2. log' \in Seq(Remembered) BY <1>1, AppendProperties DEF MemoryInv
<1>3. log' \in Seq(Remembered') /\ tail' \in Remembered' /\ InOrder(committed)'
  BY <1>1, <1>2, MemoryKept, NamedRemembered DEF MemoryInv
<1>4. AtWork(w)' BY <1>1 DEF AtWork, IInv, TypeOK
<1> QED BY <1>1, <1>3, <1>4, OthersAtWork DEF MemoryInv

\* A log of VRP v1 that is archived leaves nothing to remember.
LEMMA ArchiveRemembers ==
  ASSUME IInv, MemoryInv, NEW w \in Writers, _archive_legacy(w) PROVE MemoryInv'
<1>1. pc[w] = "locked" /\ pc' = [pc EXCEPT ![w] = "archived"] BY DEF _archive_legacy
<1>2. AtWork(w)' BY <1>1 DEF AtWork, IInv, TypeOK
<1>3. CASE is_legacy(Visible)
  <2>1. log' = <<>> /\ tail' = NoLine /\ committed' = <<>> BY <1>3 DEF _archive_legacy
  <2>2. \A v \in Writers : pc'[v] \notin {"drafted", "partial", "whole"}
    BY <1>1, Alone DEF IInv, TypeOK
  <2> QED BY <2>1, <2>2, FreshMemory
<1>4. CASE ~is_legacy(Visible)
  <2>1. UNCHANGED <<log, tail, committed>> BY <1>4 DEF _archive_legacy
  <2> QED BY <1>1, <1>2, <2>1, MemoryKept, OthersAtWork DEF MemoryInv
<1> QED BY <1>3, <1>4

\* A record is composed upon the whole of the file, which was verified.
LEMMA ComposeRemembers ==
  ASSUME IInv, MemoryInv, NEW w \in Writers, Compose(w) PROVE MemoryInv'
<1>1. /\ pc[w] = "archived" /\ pc' = [pc EXCEPT ![w] = "drafted"]
      /\ UNCHANGED <<log, tail>> /\ committed' = Visible /\ Verified(Visible)
  BY DEF Compose, Refuses
<1>2. Visible \in Seq(Line) BY VisibleType DEF IInv
<1>3. InOrder(committed)' BY <1>1, VerifiedInOrder
<1>4. log' \in Seq(Remembered') /\ tail' \in Remembered'
  <2>1. log \in Seq(Line) /\ tail \in Line /\ Len(log) \in Nat
    BY LenProperties DEF IInv, TypeOK
  <2>2. \A i \in 1..Len(log) : i \in 1..Len(Visible) /\ Visible[i] = log[i]
    BY <2>1, AppendProperties DEF Visible
  <2>3. \A i \in 1..Len(log) : log[i] \in Remembered'
    <3>1. \A i \in 1..Len(log) : log[i] \in Line BY <2>1, ElementOfSeq
    <3> QED BY <1>1, <2>2, <3>1 DEF Remembered
  <2>4. tail = NoLine \/ (Len(log) + 1 \in 1..Len(Visible) /\ Visible[Len(log) + 1] = tail)
    BY <2>1, AppendProperties DEF Visible
  <2>5. tail \in Remembered'
    BY <1>1, <2>1, <2>4, NamedLines DEF Remembered, NoLine, Blank
  <2>6. log \in Seq(Remembered') BY <2>1, <2>3, LenProperties, SeqDef
  <2> QED BY <1>1, <2>5, <2>6
<1>5. AtWork(w)'
  <2>1. draft'[w] = [form |-> "v2", sequence |-> Len(Visible) + 1,
                     prev_event_id |-> chain_head(Visible), event_id |-> hashes + 1,
                     recorded_at |-> clock, body |-> draft[w].body, hashed |-> TRUE]
    BY DEF Compose, IInv, TypeOK
  <2>2. draft'[w].sequence = Len(Visible) + 1 /\ draft'[w].form = "v2" BY <2>1
  <2>3. pc'[w] = "drafted" BY <1>1 DEF IInv, TypeOK
  <2> QED BY <1>1, <2>2, <2>3 DEF AtWork
<1> QED BY <1>1, <1>3, <1>4, <1>5, OthersAtWork DEF MemoryInv

\* The record a writer completes is remembered from then on.
LEMMA WriteRestRemembers ==
  ASSUME IInv, MemoryInv, NEW w \in Writers, WriteRest(w) PROVE MemoryInv'
<1> DEFINE n == Len(committed)
           r == draft[w]
<1>t. r \in Line /\ committed \in Seq(Line) /\ n \in Nat
  BY LenProperties DEF IInv, TypeOK
<1>1. /\ pc[w] = "partial" /\ pc' = [pc EXCEPT ![w] = "whole"]
      /\ committed' = Append(committed, r)
      /\ log' = log \/ log' = Append(log, Junk)
      /\ tail' = r \/ tail' = Junk
  BY DEF WriteRest
<1>2. r.sequence = n + 1 /\ r.form \in {"v2", "junk"}
  BY <1>1 DEF MemoryInv, AtWork
<1>3. /\ Len(committed') = n + 1 /\ committed'[n + 1] = r
      /\ \A j \in 1..n : committed'[j] = committed[j]
  BY <1>t, <1>1, AppendProperties
<1>4. Remembered \subseteq Remembered'
  <2>1. 1..n \subseteq 1..(n + 1) BY <1>t
  <2> QED BY <1>3, <2>1 DEF Remembered
<1>5. r \in Remembered'
  <2>1. n + 1 \in 1..(n + 1) BY <1>t
  <2> QED BY <1>t, <1>3, <2>1 DEF Remembered
<1>6. log' \in Seq(Remembered')
  <2>1. log \in Seq(Remembered') BY <1>4 DEF MemoryInv
  <2>2. Junk \in Remembered' BY <1>4, NamedRemembered
  <2>3. Append(log, Junk) \in Seq(Remembered') BY <2>1, <2>2, AppendProperties
  <2> QED BY <1>1, <2>1, <2>3
<1>7. tail' \in Remembered' BY <1>1, <1>4, <1>5, NamedRemembered
<1>8. InOrder(committed)'
  <2>1. \A j \in 1..(n + 1) : j \in 1..n \/ j = n + 1 BY <1>t
  <2> QED BY <1>2, <1>3, <2>1 DEF InOrder, MemoryInv
<1>9. AtWork(w)'
  <2>1. tail' # NoLine BY <1>1, <1>2 DEF NoLine, Junk, Blank
  <2> QED BY <1>1, <2>1 DEF AtWork, IInv, TypeOK
<1> QED BY <1>1, <1>6, <1>7, <1>8, <1>9, OthersAtWork DEF MemoryInv

\* What harms the file from outside brings no record that is not remembered.
LEMMA WorldRemembers ==
  ASSUME IInv, MemoryInv, Tamper \/ LegacyAppend \/ MoveAside
  PROVE  MemoryInv'
<1>t. UNCHANGED <<pc, draft>>
  BY DEF Tamper, Replace, LegacyAppend, MoveAside
<1>1. CASE Tamper
  <2>1. \A r \in Remembered : [r EXCEPT !.hashed = FALSE] \in Remembered
    <3> SUFFICES ASSUME NEW r \in Remembered
                 PROVE  [r EXCEPT !.hashed = FALSE] \in Remembered
      OBVIOUS
    <3>1. r \in Line BY DEF Remembered
    <3>2. [r EXCEPT !.hashed = FALSE] \in Line /\ ~ [r EXCEPT !.hashed = FALSE].hashed
      BY <3>1 DEF Line
    <3> QED BY <3>2 DEF Remembered
  <2>2. PICK f \in Seq(Remembered) : Replace(f)
    BY <1>1, <2>1, VisibleRemembered, Tampered
  <2>3. log' = f /\ tail' = NoLine /\ UNCHANGED committed /\ ~MidWrite BY <2>2 DEF Replace
  <2>4. log' \in Seq(Remembered') /\ tail' \in Remembered' /\ InOrder(committed)'
    BY <2>3, MemoryKept, NamedRemembered DEF MemoryInv
  <2>5. \A w \in Writers : AtWork(w)' BY <1>t, <2>3 DEF AtWork, MemoryInv, MidWrite
  <2> QED BY <2>4, <2>5 DEF MemoryInv
<1>2. CASE LegacyAppend
  <2>1. log' = Append(log, V1) /\ UNCHANGED <<tail, committed>> BY <1>2 DEF LegacyAppend
  <2>2. log' \in Seq(Remembered) BY <2>1, NamedRemembered, AppendProperties DEF MemoryInv
  <2>3. log' \in Seq(Remembered') /\ tail' \in Remembered' /\ InOrder(committed)'
    BY <2>1, <2>2, MemoryKept DEF MemoryInv
  <2>4. \A w \in Writers : AtWork(w)' BY <1>t, <2>1 DEF AtWork, MemoryInv
  <2> QED BY <2>3, <2>4 DEF MemoryInv
<1>3. CASE MoveAside
  <2>1. lock = NoWriter /\ log' = <<>> /\ tail' = NoLine /\ committed' = <<>>
    BY <1>3 DEF MoveAside
  <2>2. \A w \in Writers : pc'[w] \notin {"drafted", "partial", "whole"}
    BY <1>t, <2>1, WritersAssumption DEF IInv, LockInv
  <2> QED BY <2>1, <2>2, FreshMemory
<1> QED BY <1>1, <1>2, <1>3

\* The file never holds a record that is not remembered.
LEMMA MemoryInductive ==
  /\ Init => MemoryInv
  /\ IInv /\ MemoryInv /\ [Next]_vars => MemoryInv'
<1>1. ASSUME Init PROVE MemoryInv
  <2>1. log \in {<<>>, <<V1>>, <<V1, V1>>} /\ tail = NoLine /\ committed = <<>>
        /\ pc = [w \in Writers |-> "idle"]
    BY <1>1 DEF Init
  <2>2. log \in Seq(Remembered)
    <3>1. ASSUME NEW S, NEW r \in S PROVE {<<>>, <<r>>, <<r, r>>} \subseteq Seq(S)
      OBVIOUS
    <3>2. {<<>>, <<V1>>, <<V1, V1>>} \subseteq Seq(Remembered) BY <3>1, NamedRemembered
    <3> QED BY <2>1, <3>2
  <2>3. InOrder(committed) BY <2>1, EmptySeq DEF InOrder
  <2>4. \A w \in Writers : AtWork(w) BY <2>1 DEF AtWork
  <2> QED BY <2>1, <2>2, <2>3, <2>4, NamedRemembered DEF MemoryInv
<1>2. ASSUME IInv, MemoryInv, [Next]_vars PROVE MemoryInv'
  <2>1. CASE UNCHANGED <<log, tail, pc, draft, committed>>
    <3>1. log' \in Seq(Remembered') /\ tail' \in Remembered' /\ InOrder(committed)'
      BY <1>2, <2>1, MemoryKept DEF MemoryInv
    <3>2. \A w \in Writers : AtWork(w)' BY <1>2, <2>1 DEF AtWork, MemoryInv
    <3> QED BY <3>1, <3>2 DEF MemoryInv
  <2>2. CASE UNCHANGED vars BY <2>1, <2>2 DEF vars
  <2>3. CASE Tick \/ ClockSetBack BY <2>1, <2>3 DEF Tick, ClockSetBack
  <2>4. CASE Tamper \/ LegacyAppend \/ MoveAside BY <1>2, <2>4, WorldRemembers
  <2>5. ASSUME NEW w \in Writers,
               \/ \E b \in Bodies : Request(w, b)
               \/ Acquire(w) \/ Step(w) \/ Crash(w)
        PROVE  MemoryInv'
    BY <1>2, <2>5, QuietSteps, ArchiveRemembers, ComposeRemembers, WriteRestRemembers,
       NewlineRemembers DEF Step
  <2> QED BY <1>2, <2>2, <2>3, <2>4, <2>5 DEF Next
<1> QED BY <1>1, <1>2

\* A log of records that verifies is the log its last append verified, with
\* its record, up to lines missing at the end (OnlyLostTailIsSilent).
THEOREM OnlyTheTailIsLost == Spec => []OnlyLostTailIsSilent
<1>1. IInv /\ MemoryInv => OnlyLostTailIsSilent
  <2> SUFFICES ASSUME IInv, MemoryInv, Verified(Visible), ~is_legacy(Visible)
               PROVE  /\ Len(Visible) <= Len(committed)
                      /\ Visible = SubSeq(committed, 1, Len(Visible))
    BY DEF OnlyLostTailIsSilent
  <2> DEFINE n == Len(Visible)
  <2>t. /\ Visible \in Seq(Line) /\ committed \in Seq(Line)
        /\ n \in Nat /\ Len(committed) \in Nat
    BY VisibleType, LenProperties DEF IInv, TypeOK
  <2>1. \A i \in 1..n : i \in 1..Len(committed) /\ committed[i] = Visible[i]
    <3> SUFFICES ASSUME NEW i \in 1..n
                 PROVE  i \in 1..Len(committed) /\ committed[i] = Visible[i]
      OBVIOUS
    <3>1. Linked(Visible, i) BY DEF Verified, ChainOK
    <3>2. Visible[i].form = "v2" /\ Visible[i].hashed /\ Visible[i].sequence = i
      BY <3>1 DEF Linked
    <3>3. Visible[i] \in Remembered BY VisibleRemembered, ElementOfSeq
    <3>4. PICK j \in 1..Len(committed) : committed[j] = Visible[i]
      BY <3>2, <3>3 DEF Remembered
    <3>5. j = i BY <3>2, <3>4 DEF MemoryInv, InOrder
    <3> QED BY <3>4, <3>5
  <2>2. n <= Len(committed)
    <3>1. n > 0 => n \in 1..n BY <2>t
    <3> QED BY <2>t, <2>1, <3>1
  <2>3. /\ SubSeq(committed, 1, n) \in Seq(Line)
        /\ Len(SubSeq(committed, 1, n)) = n
        /\ \A i \in 1..n : SubSeq(committed, 1, n)[i] = committed[i]
    <3>1. \A i \in 1..n : committed[i] \in Line BY <2>t, <2>1, ElementOfSeq
    <3> QED BY <2>t, <2>2, <3>1, SubSeqProperties
  <2>4. Visible = SubSeq(committed, 1, n) BY <2>t, <2>1, <2>3, SeqEqual
  <2> QED BY <2>2, <2>4
<1>2. QED BY <1>1, Inductive, MemoryInductive, PTL DEF Spec

\* A log that does not verify is left as it is by the writers, but by one that
\* had verified it before it broke and completes its line (BrokenIsFrozen).
THEOREM BrokenStaysAsItIs == Spec => BrokenIsFrozen
<1> DEFINE A == /\ ~Verified(Visible) /\ ~is_legacy(Visible)
                /\ Visible' # Visible /\ faults' = faults /\ asides' = asides
                => /\ \E w \in Writers : pc[w] \in {"drafted", "partial"}
                   /\ Verified(committed)
<1>1. IInv /\ MemoryInv /\ [Next]_vars => [A]_vars
  <2> SUFFICES ASSUME IInv, MemoryInv, Next, ~is_legacy(Visible), Visible' # Visible,
                      faults' = faults, asides' = asides
               PROVE  /\ \E w \in Writers : pc[w] \in {"drafted", "partial"}
                      /\ Verified(committed)
    OBVIOUS
  <2>t. faults \in Nat /\ asides \in Nat BY DEF IInv, TypeOK
  <2>1. ~ (log' = log /\ tail' = tail) BY DEF Visible
  <2>2. ASSUME NEW w \in Writers, WriteSome(w) \/ WriteRest(w)
        PROVE  pc[w] \in {"drafted", "partial"} /\ Verified(committed)
    <3>1. pc[w] \in {"drafted", "partial"} BY <2>2 DEF WriteSome, WriteRest
    <3> QED BY <3>1 DEF MemoryInv, AtWork
  <2>3. ASSUME NEW w \in Writers, WriteNewline(w) PROVE FALSE
    <3>1. pc[w] = "whole" /\ log' = Append(log, tail) /\ tail' = NoLine
      BY <2>3 DEF WriteNewline
    <3>2. tail # NoLine BY <3>1 DEF MemoryInv, AtWork
    <3> QED BY <3>1, <3>2 DEF Visible
  <2>4. ASSUME NEW w \in Writers,
               \/ \E b \in Bodies : Request(w, b)
               \/ Acquire(w) \/ _archive_legacy(w) \/ Refuse(w) \/ Compose(w) \/ Crash(w)
        PROVE  FALSE
    BY <2>1, <2>4 DEF Request, Acquire, _archive_legacy, Refuse, Compose, Crash
  <2>5. ~ (Tick \/ ClockSetBack \/ Tamper \/ LegacyAppend \/ MoveAside)
    BY <2>t, <2>1 DEF Tick, ClockSetBack, Tamper, Replace, LegacyAppend, MoveAside
  <2> QED BY <2>2, <2>3, <2>4, <2>5 DEF Next, Step
<1>2. QED BY <1>1, Inductive, MemoryInductive, PTL DEF Spec, BrokenIsFrozen

\* A log that verifies has lines of one protocol only.
LEMMA OneProtocol ==
  ASSUME NEW f, Verified(f)
  PROVE  ~ \E i, j \in 1..Len(f) : f[i].form = "v1" /\ f[j].form = "v2"
BY DEF Verified, is_legacy, ChainOK, Linked

\* Nothing VRP v1 wrote is lost: archives are only added to, and no log that
\* is unharmed has lines of both protocols (LegacyKept).
THEOREM LegacyIsKept == Spec => LegacyKept
<1> DEFINE A == /\ Len(archives) <= Len(archives')
                /\ archives = SubSeq(archives', 1, Len(archives))
                /\ damage' = {} =>
                     ~ \E i, j \in 1..Len(log') : /\ log'[i].form = "v1"
                                                 /\ log'[j].form = "v2"
<1>1. IInv /\ IInv' /\ [Next]_vars => [A]_vars
  <2> SUFFICES ASSUME IInv, IInv', Next PROVE A
    OBVIOUS
  <2>t. archives \in Seq(Seq(Line)) /\ Len(archives) \in Nat
        /\ Visible \in Seq(Line)
    BY VisibleType, LenProperties DEF IInv, TypeOK
  <2>1. archives' = archives \/ archives' = Append(archives, Visible)
    <3>1. ASSUME NEW w \in Writers, _archive_legacy(w)
          PROVE  archives' = archives \/ archives' = Append(archives, Visible)
      BY <3>1 DEF _archive_legacy
    <3>2. ASSUME NEW w \in Writers,
                 \/ \E b \in Bodies : Request(w, b)
                 \/ Acquire(w) \/ Refuse(w) \/ Compose(w) \/ WriteSome(w)
                 \/ WriteRest(w) \/ WriteNewline(w) \/ Crash(w)
          PROVE  archives' = archives
      BY <3>2 DEF Request, Acquire, Refuse, Compose, WriteSome, WriteRest,
                  WriteNewline, Crash
    <3>3. CASE Tick \/ ClockSetBack \/ Tamper \/ LegacyAppend \/ MoveAside
      BY <3>3 DEF Tick, ClockSetBack, Tamper, Replace, LegacyAppend, MoveAside
    <3> QED BY <3>1, <3>2, <3>3 DEF Next, Step
  <2> DEFINE Kept == Len(archives) <= Len(archives') /\ archives = SubSeq(archives', 1, Len(archives))
  <2>2. ASSUME archives' = archives PROVE Kept
    BY <2>t, <2>2, SubSeqFull
  <2>3. ASSUME archives' = Append(archives, Visible) PROVE Kept
    <3>1. /\ Len(archives') = Len(archives) + 1
          /\ \A i \in 1..Len(archives) : archives'[i] = archives[i]
      BY <2>t, <2>3, AppendProperties
    <3>2. \A i \in 1..Len(archives) : archives'[i] \in Seq(Line)
      BY <2>t, <3>1, ElementOfSeq
    <3>3. /\ SubSeq(archives', 1, Len(archives)) \in Seq(Seq(Line))
          /\ Len(SubSeq(archives', 1, Len(archives))) = Len(archives)
          /\ \A i \in 1..Len(archives) :
               SubSeq(archives', 1, Len(archives))[i] = archives'[i]
      BY <2>t, <3>2, SubSeqProperties
    <3>4. archives = SubSeq(archives', 1, Len(archives))
      BY <2>t, <3>1, <3>3, SeqEqual
    <3> QED BY <2>t, <3>1, <3>4
  <2>4. damage' = {} => Verified(log') BY DEF IInv, SectionInv
  <2>5. damage' = {} => ~ \E i, j \in 1..Len(log') : /\ log'[i].form = "v1"
                                                    /\ log'[j].form = "v2"
    BY <2>4, OneProtocol
  <2> QED BY <2>1, <2>2, <2>3, <2>5
<1>2. QED BY <1>1, Inductive, PTL DEF Spec, LegacyKept

=============================================================================
