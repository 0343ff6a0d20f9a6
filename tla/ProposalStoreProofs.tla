-------------------------- MODULE ProposalStoreProofs --------------------------
(***************************************************************************)
(* Proofs about ProposalStore for any files, decisions, builders and       *)
(* bounds: stored revisions keep their operations, what is offered was     *)
(* computed to the end, approvals are for the current revision, and, when  *)
(* every build is a full one, a decision of which the user has been told   *)
(* is the one that is applied.                                             *)
(***************************************************************************)
EXTENDS ProposalStore, TLAPS

-----------------------------------------------------------------------------
(* The inductive invariant *)

States ==
  [pc : {"idle", "source", "base", "number", "overrides", "persist"}, id : Ids \cup {0},
   source : [Files -> 0..MaxVersion], near : SUBSET Files, base : [Files -> Ops],
   num : 0..(MaxRevision + 1), overrides : [Files -> Decisions \cup {None}],
   mode : {"full", "incremental"}, dirty : SUBSET Files, file : Files \cup {None}]

Types ==
  /\ version \in [Files -> 0..MaxVersion] /\ dirty \in SUBSET Files
  /\ status \in [Ids -> Statuses] /\ cur \in [Ids -> 0..MaxRevision]
  /\ revs \in [Ids -> [Numbers -> Revisions \cup {None}]]
  /\ decided \in [Ids -> [Files -> Decisions \cup {None}]]
  /\ acked \in [Ids -> SUBSET Files] /\ approved \in [Ids -> 0..MaxRevision]
  /\ b \in [Builders -> States]
  /\ \A x \in Builders : b[x].pc # "idle" => b[x].id \in Ids

\* Revisions are numbered without gaps up to k, the current one is among them,
\* and nobody has read a number above the next one.
UpTo(i, k) ==
  /\ \A n \in Numbers : revs[i][n] # None <=> n <= k
  /\ cur[i] <= k
  /\ \A x \in Builders : b[x].pc \in {"overrides", "persist"} /\ b[x].id = i =>
       1 <= b[x].num /\ b[x].num <= k + 1

NoGaps == \A i \in Ids : \E k \in 0..MaxRevision : UpTo(i, k)

\* The revision that is current is complete, and the one that was approved.
Offered == CurrentIsComplete /\ ApprovedRevision

IInv == Types /\ NoGaps /\ Offered

\* Without incremental builds every build is full, and only the override
\* command decides.
Full ==
  \A x \in Builders : /\ b[x].pc # "base" /\ b[x].mode = "full"
                      /\ b[x].file # None => x = "override"

\* A build whose number is still free has read every decision of which the user
\* has been told; the override command has read its own.
Fresh ==
  \A x \in Builders : b[x].pc = "persist" =>
    /\ b[x].num \in Numbers /\ revs[b[x].id][b[x].num] = None =>
         \A f \in acked[b[x].id] : b[x].overrides[f] = decided[b[x].id][f]
    /\ x = "override" => b[x].overrides = decided[b[x].id]

\* The current revision applies the decisions of which the user has been told,
\* also of a proposal that is not offered any more.
Applied ==
  \A i \in Ids : \A f \in acked[i] :
    CurrentOps(i)[f] # None => CurrentOps(i)[f].decision = decided[i][f]

FInv == IInv /\ Full /\ Fresh /\ Applied

-----------------------------------------------------------------------------
(* The numbers *)

\* The number that is read is the next one.
LEMMA NextIs ==
  ASSUME StoreAssumption, NEW i \in Ids, NEW k \in 0..MaxRevision,
         \A n \in Numbers : revs[i][n] # None <=> n <= k
  PROVE  NextNumber(i) = k + 1
  <1>1. {0} \cup {n \in Numbers : revs[i][n] # None} = 0..k
    BY DEF StoreAssumption, Numbers
  <1>2. k \in 0..k /\ \A y \in 0..k : k >= y
    OBVIOUS
  <1>3. \A x \in 0..k : (\A y \in 0..k : x >= y) => x = k
    BY <1>2
  <1>4. Max(0..k) = k
    <2>1. Max(0..k) = CHOOSE x \in 0..k : \A y \in 0..k : x >= y
      BY DEF Max
    <2>2. QED BY <1>2, <1>3, <2>1
  <1>5. NextNumber(i) = 1 + Max(0..k)
    BY <1>1, Zenon DEF NextNumber
  <1>6. NextNumber(i) = 1 + k
    BY <1>4, <1>5, Zenon
  <1>7. k \in Nat
    BY DEF StoreAssumption
  <1>8. QED BY <1>6, <1>7

\* Whether an operation is there, and what it is.
LEMMA CurrentType ==
  ASSUME StoreAssumption, Types, NoGaps, NEW i \in Ids
  PROVE  /\ CurrentOps(i) \in [Files -> Ops]
         /\ cur[i] # 0 => cur[i] \in Numbers /\ revs[i][cur[i]] \in Revisions
  <1>1. PICK k \in 0..MaxRevision : UpTo(i, k)
    BY DEF NoGaps
  <1>2. cur[i] \in 0..MaxRevision
    BY DEF Types
  <1>3. ASSUME cur[i] # 0 PROVE cur[i] \in Numbers /\ revs[i][cur[i]] \in Revisions
    <2>1. cur[i] \in Numbers
      BY <1>2, <1>3 DEF StoreAssumption, Numbers
    <2>2. revs[i][cur[i]] # None
      BY <1>1, <2>1 DEF UpTo
    <2>3. QED BY <2>1, <2>2 DEF Types
  <1>4. CASE cur[i] = 0
    BY <1>4 DEF CurrentOps, Ops
  <1>5. CASE cur[i] # 0
    BY <1>3, <1>5 DEF CurrentOps, Revisions
  <1>6. QED BY <1>3, <1>4, <1>5

-----------------------------------------------------------------------------
(* The builders *)

\* A builder that reads, begins or is refused writes no revision.
LEMMA BuilderMoves ==
  ASSUME StoreAssumption, IInv, NEW x \in Builders, NEW r \in States,
         b' = [b EXCEPT ![x] = r],
         r.pc # "idle" => r.id \in Ids,
         r.pc \in {"overrides", "persist"} =>
           \A k \in 0..MaxRevision : UpTo(r.id, k) => 1 <= r.num /\ r.num <= k + 1,
         UNCHANGED <<version, status, cur, revs, approved>>,
         dirty' \in SUBSET Files, acked' \in [Ids -> SUBSET Files],
         decided' \in [Ids -> [Files -> Decisions \cup {None}]]
  PROVE  IInv'
  <1>1. b \in [Builders -> States]
    BY DEF IInv, Types
  <1>2. \A y \in Builders : b'[y] = IF y = x THEN r ELSE b[y]
    BY <1>1
  <1>3. Types'
    BY <1>1, <1>2 DEF IInv, Types
  <1>4. NoGaps'
    <2>1. ASSUME NEW i \in Ids PROVE \E k \in 0..MaxRevision : UpTo(i, k)'
      <3>1. PICK k \in 0..MaxRevision : UpTo(i, k)
        BY DEF IInv, NoGaps
      <3>2. ASSUME NEW y \in Builders, b'[y].pc \in {"overrides", "persist"}, b'[y].id = i
            PROVE  1 <= b'[y].num /\ b'[y].num <= k + 1
        BY <1>2, <3>1, <3>2 DEF UpTo
      <3>3. QED BY <3>1, <3>2 DEF UpTo
    <2>2. QED BY <2>1 DEF NoGaps
  <1>5. Offered'
    BY DEF IInv, Offered, CurrentIsComplete, ApprovedRevision
  <1>6. QED BY <1>3, <1>4, <1>5 DEF IInv

LEMMA ReadHolds ==
  ASSUME StoreAssumption, IInv, NEW x \in Builders,
         ReadSource(x) \/ ReadBase(x) \/ ReadNeighbours(x) \/ ReadNumber(x) \/ ReadOverrides(x)
  PROVE  IInv'
  <1>1. /\ UNCHANGED <<version, status, cur, revs, approved, dirty, acked, decided>>
        /\ b[x].pc # "idle"
    BY DEF ReadSource, ReadBase, ReadNeighbours, ReadNumber, ReadOverrides, Stays, store
  <1>2. /\ b[x] \in States /\ b \in [Builders -> States] /\ b[x].id \in Ids
        /\ version \in [Files -> 0..MaxVersion] /\ dirty \in SUBSET Files
        /\ acked \in [Ids -> SUBSET Files] /\ decided \in [Ids -> [Files -> Decisions \cup {None}]]
    BY <1>1 DEF IInv, Types
  <1>3. ASSUME NEW r \in States, b' = [b EXCEPT ![x] = r], r.id = b[x].id,
               r.pc \in {"overrides", "persist"} =>
                 \A k \in 0..MaxRevision : UpTo(r.id, k) => 1 <= r.num /\ r.num <= k + 1
        PROVE  IInv'
    BY <1>1, <1>2, <1>3, BuilderMoves
  <1>4. CASE ReadSource(x) \/ ReadNeighbours(x)
    <2> DEFINE r == [b[x] EXCEPT !.pc = "number", !.source = version]
    <2>1. r \in States /\ r.id = b[x].id /\ r.pc = "number" /\ b' = [b EXCEPT ![x] = r]
      BY <1>2, <1>4 DEF States, ReadSource, ReadNeighbours
    <2> HIDE DEF r
    <2>2. QED BY <1>3, <2>1
  <1>5. CASE ReadBase(x)
    <2>1. CASE b' = [b EXCEPT ![x].pc = "source", ![x].mode = "full"]
      <3> DEFINE r == [b[x] EXCEPT !.pc = "source", !.mode = "full"]
      <3>1. r \in States /\ r.id = b[x].id /\ r.pc = "source" /\ b' = [b EXCEPT ![x] = r]
        BY <1>2, <2>1 DEF States
      <3> HIDE DEF r
      <3>2. QED BY <1>3, <3>1
    <2>2. ASSUME NEW near \in SUBSET Files,
                 b' = [b EXCEPT ![x].pc = "source", ![x].near = near, ![x].base = CurrentOps(b[x].id)]
          PROVE  IInv'
      <3> DEFINE r == [b[x] EXCEPT !.pc = "source", !.near = near, !.base = CurrentOps(b[x].id)]
      <3>1. CurrentOps(b[x].id) \in [Files -> Ops]
        BY <1>2, CurrentType DEF IInv
      <3>2. r \in States /\ r.id = b[x].id /\ r.pc = "source" /\ b' = [b EXCEPT ![x] = r]
        BY <1>2, <2>2, <3>1 DEF States
      <3> HIDE DEF r
      <3>3. QED BY <1>3, <3>2
    <2>3. QED BY <1>5, <2>1, <2>2 DEF ReadBase
  <1>6. CASE ReadNumber(x)
    <2> DEFINE i == b[x].id
               r == [b[x] EXCEPT !.pc = "overrides", !.num = NextNumber(i)]
    <2>1. PICK k \in 0..MaxRevision : UpTo(i, k)
      BY <1>2 DEF IInv, NoGaps
    <2>2. NextNumber(i) = k + 1
      BY <1>2, <2>1, NextIs DEF UpTo
    <2>3. NextNumber(i) \in 0..(MaxRevision + 1)
      BY <2>2 DEF StoreAssumption
    <2>4. /\ r \in States /\ r.id = b[x].id /\ r.pc = "overrides" /\ r.num = NextNumber(i)
          /\ b' = [b EXCEPT ![x] = r]
      BY <1>2, <1>6, <2>3 DEF States, ReadNumber
    <2>5. ASSUME NEW m \in 0..MaxRevision, UpTo(i, m) PROVE NextNumber(i) = m + 1
      BY <1>2, <2>5, NextIs DEF UpTo
    <2> HIDE DEF r
    <2>6. \A m \in 0..MaxRevision : UpTo(r.id, m) => 1 <= r.num /\ r.num <= m + 1
      <3>1. ASSUME NEW m \in 0..MaxRevision, UpTo(r.id, m) PROVE 1 <= r.num /\ r.num <= m + 1
        <4>1. r.num = m + 1
          BY <2>4, <2>5, <3>1
        <4>2. m \in Nat
          BY <3>1 DEF StoreAssumption
        <4>3. QED BY <4>1, <4>2
      <3>2. QED BY <3>1
    <2>7. QED BY <1>3, <2>4, <2>6
  <1>7. CASE ReadOverrides(x)
    <2> DEFINE r == [b[x] EXCEPT !.pc = "persist", !.overrides = decided[b[x].id]]
    <2>1. /\ r \in States /\ r.id = b[x].id /\ r.pc = "persist" /\ r.num = b[x].num
          /\ b' = [b EXCEPT ![x] = r]
      BY <1>2, <1>7 DEF States, ReadOverrides
    <2>2. \A k \in 0..MaxRevision : UpTo(b[x].id, k) => 1 <= b[x].num /\ b[x].num <= k + 1
      BY <1>7 DEF UpTo, ReadOverrides
    <2> HIDE DEF r
    <2>3. QED BY <1>3, <2>1, <2>2
  <1>8. QED BY <1>4, <1>5, <1>6, <1>7

\* A build that begins reads its source first, or the base of an update.
LEMMA BeginHolds ==
  ASSUME StoreAssumption, IInv, BeginGenerate \/ BeginRules \/ BeginMonitor \/ BeginOverride
  PROVE  IInv'
  <1>1. /\ dirty \in SUBSET Files /\ acked \in [Ids -> SUBSET Files]
        /\ decided \in [Ids -> [Files -> Decisions \cup {None}]]
    BY DEF IInv, Types
  <1>2. Idle \in States /\ \A i \in Current \cup Unused : i \in Ids
    <2>1. 0 \in 0..MaxVersion /\ 0 \in 0..(MaxRevision + 1)
      BY DEF StoreAssumption
    <2>2. QED BY <2>1 DEF Idle, States, Ops, Current, Unused
  <1>3. ASSUME NEW x \in Builders, NEW r \in States, b' = [b EXCEPT ![x] = r], r.id \in Ids,
               r.pc \in {"source", "base"}, UNCHANGED <<version, status, cur, revs, approved>>,
               dirty' \in SUBSET Files, acked' \in [Ids -> SUBSET Files],
               decided' \in [Ids -> [Files -> Decisions \cup {None}]]
        PROVE  IInv'
    BY <1>3, BuilderMoves
  <1>4. CASE BeginGenerate
    <2>1. PICK i \in Current \cup Unused :
            b' = [b EXCEPT !["generate"] = [Idle EXCEPT !.pc = "source", !.id = i]]
      BY <1>4 DEF BeginGenerate
    <2> DEFINE r == [Idle EXCEPT !.pc = "source", !.id = i]
    <2>2. r \in States /\ r.id \in Ids /\ r.pc = "source"
      BY <1>2 DEF States
    <2>3. "generate" \in Builders /\ Stays
      BY <1>4 DEF BeginGenerate
    <2> HIDE DEF r
    <2>4. QED BY <1>1, <1>3, <2>1, <2>2, <2>3 DEF Stays, store, r
  <1>5. CASE BeginRules
    <2>1. PICK i \in Current :
            b' = [b EXCEPT !["rules"] = [Idle EXCEPT !.pc = "source", !.id = i]]
      BY <1>5 DEF BeginRules
    <2> DEFINE r == [Idle EXCEPT !.pc = "source", !.id = i]
    <2>2. r \in States /\ r.id \in Ids /\ r.pc = "source"
      BY <1>2 DEF States
    <2>3. "rules" \in Builders /\ Stays
      BY <1>5 DEF BeginRules
    <2> HIDE DEF r
    <2>4. QED BY <1>1, <1>3, <2>1, <2>2, <2>3 DEF Stays, store, r
  <1>6. CASE BeginMonitor
    <2>1. PICK i \in IF Current = {} THEN Unused ELSE Current, pc \in {"base", "source"},
               mode \in {"incremental", "full"} :
            b' = [b EXCEPT !["monitor"] =
                    [Idle EXCEPT !.pc = pc, !.mode = mode, !.id = i, !.dirty = dirty]]
      BY <1>6 DEF BeginMonitor
    <2> DEFINE r == [Idle EXCEPT !.pc = pc, !.mode = mode, !.id = i, !.dirty = dirty]
    <2>2. r \in States /\ r.id \in Ids /\ r.pc \in {"source", "base"}
      BY <1>1, <1>2 DEF States
    <2>3. "monitor" \in Builders /\ dirty' = {}
          /\ UNCHANGED <<version, store, decided, acked, approved>>
      BY <1>6 DEF BeginMonitor
    <2> HIDE DEF r
    <2>4. QED BY <1>1, <1>3, <2>1, <2>2, <2>3 DEF store, r
  <1>7. CASE BeginOverride
    <2>1. PICK i \in Ids, f \in Files, d \in Decisions :
            /\ decided' = [decided EXCEPT ![i][f] = d] /\ acked' = [acked EXCEPT ![i] = @ \ {f}]
            /\ b' = [b EXCEPT !["override"] = [Idle EXCEPT !.pc = "source", !.id = i, !.file = f]]
      BY <1>7 DEF BeginOverride
    <2> DEFINE r == [Idle EXCEPT !.pc = "source", !.id = i, !.file = f]
    <2>2. r \in States /\ r.id \in Ids /\ r.pc = "source"
      BY <1>2 DEF States
    <2>3. "override" \in Builders /\ UNCHANGED <<version, dirty, store, approved>>
      BY <1>7 DEF BeginOverride
    <2>4. /\ acked' \in [Ids -> SUBSET Files]
          /\ decided' \in [Ids -> [Files -> Decisions \cup {None}]]
      BY <1>1, <2>1
    <2> HIDE DEF r
    <2>5. QED BY <1>1, <1>3, <2>1, <2>2, <2>3, <2>4 DEF store, r
  <1>8. QED BY <1>4, <1>5, <1>6, <1>7

LEMMA RefusedHolds ==
  ASSUME StoreAssumption, IInv, NEW x \in Builders, PersistRefused(x) PROVE IInv'
  <1>1. b[x] \in States /\ dirty \in SUBSET Files /\ acked \in [Ids -> SUBSET Files]
        /\ decided \in [Ids -> [Files -> Decisions \cup {None}]]
    BY DEF IInv, Types
  <1>2. Idle \in States /\ Idle.pc = "idle"
    <2>1. 0 \in 0..MaxVersion /\ 0 \in 0..(MaxRevision + 1)
      BY DEF StoreAssumption
    <2>2. QED BY <2>1 DEF Idle, States, Ops
  <1>3. /\ b' = [b EXCEPT ![x] = Idle] /\ dirty' = dirty \cup b[x].dirty
        /\ UNCHANGED <<version, status, cur, revs, approved, decided, acked>>
    BY DEF PersistRefused, store
  <1>4. dirty' \in SUBSET Files
    BY <1>1, <1>3 DEF States
  <1>5. QED BY <1>1, <1>2, <1>3, <1>4, BuilderMoves

-----------------------------------------------------------------------------
(* Writing *)

\* What the engine makes is a list of operations.
LEMMA BuiltType ==
  ASSUME StoreAssumption, Types, NEW x \in Builders
  PROVE  Revision(Built(x), FALSE) \in Revisions
  <1>1. b[x] \in States
    BY DEF Types
  <1>2. ASSUME NEW f \in Files
        PROVE  (IF b[x].mode = "incremental" /\ f \notin b[x].near THEN b[x].base[f]
                ELSE IF b[x].source[f] = 0 THEN None
                ELSE Op(b[x].source[f], b[x].overrides[f])) \in Ops
    <2>1. b[x].base[f] \in Ops /\ None \in Ops
      BY <1>1 DEF States, Ops
    <2>2. ASSUME b[x].source[f] # 0 PROVE Op(b[x].source[f], b[x].overrides[f]) \in Ops
      <3>1. b[x].source[f] \in 1..MaxVersion /\ b[x].overrides[f] \in Decisions \cup {None}
        BY <1>1, <2>2 DEF States, StoreAssumption
      <3>2. QED BY <3>1 DEF Op, Ops
    <2>3. QED BY <2>1, <2>2
  <1>3. Built(x) \in [Files -> Ops]
    BY <1>2 DEF Built
  <1>4. QED BY <1>3 DEF Revision, Revisions

\* A number that is free and has been read is the next one.
LEMMA FreeIsNext ==
  ASSUME StoreAssumption, NEW x \in Builders, NEW k \in 0..MaxRevision,
         b[x].pc = "persist", b[x].num \in Numbers, revs[b[x].id][b[x].num] = None, UpTo(b[x].id, k)
  PROVE  b[x].num = k + 1 /\ k + 1 \in 0..MaxRevision
  <1>1. b[x].num <= k + 1 /\ ~(b[x].num <= k)
    BY DEF UpTo
  <1>2. b[x].num \in Nat /\ b[x].num <= MaxRevision /\ k \in Nat /\ MaxRevision \in Nat
    BY DEF StoreAssumption, Numbers
  <1>3. QED BY <1>1, <1>2

\* A revision that is stored under a free number leaves no gap.
LEMMA Written ==
  ASSUME StoreAssumption, Types, NoGaps, NEW x \in Builders, NEW rev \in Revisions,
         b[x].pc = "persist", b[x].num \in Numbers, revs[b[x].id][b[x].num] = None,
         revs' = [revs EXCEPT ![b[x].id][b[x].num] = rev],
         status' \in [Ids -> Statuses],
         cur' = cur \/ cur' = [cur EXCEPT ![b[x].id] = b[x].num],
         Done(x)
  PROVE  Types' /\ NoGaps'
  <1> DEFINE i == b[x].id
             num == b[x].num
  <1>1. /\ b[x] \in States /\ b \in [Builders -> States] /\ i \in Ids /\ Idle \in States
        /\ revs \in [Ids -> [Numbers -> Revisions \cup {None}]] /\ cur \in [Ids -> 0..MaxRevision]
    <2>1. 0 \in 0..MaxVersion /\ 0 \in 0..(MaxRevision + 1)
      BY DEF StoreAssumption
    <2>2. Idle \in States
      BY <2>1 DEF Idle, States, Ops
    <2>3. QED BY <2>2 DEF Types
  <1>2. /\ b' = [b EXCEPT ![x] = Idle]
        /\ \A y \in Builders : b'[y] = IF y = x THEN Idle ELSE b[y]
    BY <1>1 DEF Done
  <1>3. /\ revs' \in [Ids -> [Numbers -> Revisions \cup {None}]]
        /\ \A j \in Ids, n \in Numbers : revs'[j][n] = IF j = i /\ n = num THEN rev ELSE revs[j][n]
    BY <1>1
  <1>4. rev # None
    BY DEF StoreAssumption
  <1>5. /\ cur' \in [Ids -> 0..MaxRevision]
        /\ \A j \in Ids : cur'[j] = cur[j] \/ (j = i /\ cur'[j] = num)
    <2>1. num \in 0..MaxRevision
      BY DEF Numbers, StoreAssumption
    <2>6. cur \in [Ids -> 0..MaxRevision]
      BY <1>1
    <2> HIDE DEF i, num
    <2>2. cur' = cur \/ cur' = [cur EXCEPT ![i] = num]
      BY DEF i, num
    <2>3. CASE cur' = cur
      BY <2>3, <2>6, Zenon
    <2>4. CASE cur' = [cur EXCEPT ![i] = num]
      <3>1. cur' \in [Ids -> 0..MaxRevision]
        BY <2>1, <2>4, <2>6, Zenon
      <3>2. ASSUME NEW j \in Ids PROVE cur'[j] = cur[j] \/ (j = i /\ cur'[j] = num)
        BY <2>4, <2>6, Zenon
      <3>3. QED BY <3>1, <3>2
    <2>5. QED BY <2>2, <2>3, <2>4
  <1>6. acked' \in [Ids -> SUBSET Files]
    <2>1. CASE b[x].file = None
      BY <2>1 DEF Done, Types
    <2>2. CASE b[x].file # None
      <3>1. b[x].file \in Files
        BY <1>1, <2>2 DEF States
      <3>2. QED BY <2>2, <3>1 DEF Done, Types
    <2>3. QED BY <2>1, <2>2
  <1>7. Types'
    BY <1>1, <1>2, <1>3, <1>5, <1>6 DEF Types, Done, Idle
  <1>8. ASSUME NEW j \in Ids PROVE \E k \in 0..MaxRevision : UpTo(j, k)'
    <2>1. PICK k \in 0..MaxRevision : UpTo(j, k)
      BY DEF NoGaps
    <2>2. k \in Nat /\ MaxRevision \in Nat
      BY DEF StoreAssumption
    <2>3. \A y \in Builders : b'[y].pc \in {"overrides", "persist"} /\ b'[y].id = j =>
            b'[y].pc = b[y].pc /\ b'[y].id = b[y].id /\ b'[y].num = b[y].num /\ b[y].num \in Nat
      <3>1. \A y \in Builders : b[y].num \in Nat
        BY <1>1, <2>2 DEF States
      <3>2. QED BY <1>2, <3>1 DEF Idle
    <2>4. CASE j # i
      <3>1. \A n \in Numbers : revs'[j][n] # None <=> n <= k
        BY <1>3, <2>1, <2>4 DEF UpTo
      <3>2. cur'[j] <= k
        BY <1>5, <2>1, <2>4 DEF UpTo
      <3>3. ASSUME NEW y \in Builders, b'[y].pc \in {"overrides", "persist"}, b'[y].id = j
            PROVE  1 <= b'[y].num /\ b'[y].num <= k + 1
        BY <2>1, <2>3, <3>3 DEF UpTo
      <3>4. QED BY <3>1, <3>2, <3>3 DEF UpTo
    <2>5. CASE j = i
      <3>1. num = k + 1 /\ k + 1 \in 0..MaxRevision
        BY <2>1, <2>5, FreeIsNext
      <3>2. ASSUME NEW n \in Numbers PROVE revs'[j][n] # None <=> n <= k + 1
        <4>1. n \in Nat
          BY DEF Numbers
        <4>2. CASE n = num
          BY <1>3, <1>4, <2>2, <2>5, <3>1, <4>2
        <4>3. CASE n # num
          <5>1. revs'[j][n] # None <=> n <= k
            BY <1>3, <2>1, <4>3 DEF UpTo
          <5>2. QED BY <2>2, <3>1, <4>1, <4>3, <5>1
        <4>4. QED BY <4>2, <4>3
      <3>3. cur'[j] <= k + 1
        <4>1. cur[j] <= k /\ cur[j] \in Nat
          BY <1>1, <2>1, <2>2 DEF UpTo
        <4>2. QED BY <1>5, <2>2, <3>1, <4>1
      <3>4. ASSUME NEW y \in Builders, b'[y].pc \in {"overrides", "persist"}, b'[y].id = j
            PROVE  1 <= b'[y].num /\ b'[y].num <= k + 1 + 1
        <4>1. 1 <= b[y].num /\ b[y].num <= k + 1 /\ b[y].num \in Nat /\ b'[y].num = b[y].num
          BY <2>1, <2>3, <3>4 DEF UpTo
        <4>2. QED BY <2>2, <4>1
      <3>5. UpTo(j, k + 1)'
        BY <3>2, <3>3, <3>4 DEF UpTo
      <3>6. QED BY <3>1, <3>5
    <2>6. QED BY <2>4, <2>5
  <1>9. QED BY <1>7, <1>8 DEF NoGaps

\* A revision that was computed to the end becomes the current one, and has to
\* be reviewed and approved again.
LEMMA PersistHolds ==
  ASSUME StoreAssumption, IInv, NEW x \in Builders, Persist(x) PROVE IInv'
  <1> DEFINE i == b[x].id
             num == b[x].num
             rev == Revision(Built(x), FALSE)
  <1>1. /\ b[x].pc = "persist" /\ num \in Numbers /\ revs[i][num] = None /\ Done(x)
        /\ revs' = [revs EXCEPT ![i][num] = rev]
        /\ cur' = [cur EXCEPT ![i] = num]
    BY DEF Persist, MayPersist
  <1>2. \A j \in Ids : status'[j] = IF j = i THEN "ready_for_review"
                                    ELSE IF status[i] = None /\ status[j] \in Active THEN "superseded"
                                    ELSE status[j]
    BY DEF Persist
  <1>3. /\ status \in [Ids -> Statuses] /\ cur \in [Ids -> 0..MaxRevision] /\ i \in Ids
        /\ revs \in [Ids -> [Numbers -> Revisions \cup {None}]]
    BY <1>1 DEF IInv, Types
  <1>4. status' \in [Ids -> Statuses]
    BY <1>3 DEF Persist, Statuses, Active
  <1>5. Types' /\ NoGaps'
    BY <1>1, <1>4, BuiltType, Written DEF IInv
  <1>6. Offered'
    <2>1. num # 0 /\ ~rev.cancelled
      BY <1>1 DEF Numbers, Revision
    <2>2. ASSUME NEW j \in Ids
          PROVE  /\ status'[j] \in Active => cur'[j] # 0
                 /\ cur'[j] # 0 => ~revs'[j][cur'[j]].cancelled
                 /\ status'[j] = "approved" => cur'[j] = approved'[j]
      <3>1. CASE j = i
        <4>1. cur'[j] = num /\ revs'[j][num] = rev /\ status'[j] = "ready_for_review"
          BY <1>1, <1>2, <1>3, <3>1
        <4>2. QED BY <2>1, <4>1
      <3>2. CASE j # i
        <4>1. cur'[j] = cur[j] /\ revs'[j] = revs[j] /\ approved'[j] = approved[j]
          BY <1>1, <1>3, <3>2 DEF Done
        <4>2. status'[j] = "superseded" \/ status'[j] = status[j]
          BY <1>2, <3>2
        <4>3. QED BY <4>1, <4>2 DEF IInv, Offered, CurrentIsComplete, ApprovedRevision, Active
      <3>3. QED BY <3>1, <3>2
    <2>3. QED BY <2>2 DEF Offered, CurrentIsComplete, ApprovedRevision
  <1>7. QED BY <1>5, <1>6 DEF IInv

\* What a cancelled build stores does not become current.
LEMMA CancelledHolds ==
  ASSUME StoreAssumption, IInv, NEW x \in Builders, PersistCancelled(x) PROVE IInv'
  <1> DEFINE i == b[x].id
             num == b[x].num
             rev == Revision([f \in Files |-> None], TRUE)
  <1>1. /\ b[x].pc = "persist" /\ num \in Numbers /\ revs[i][num] = None /\ Done(x)
        /\ revs' = [revs EXCEPT ![i][num] = rev] /\ cur' = cur
        /\ status' = [status EXCEPT ![i] = IF @ = None THEN "cancelled" ELSE @]
    BY DEF PersistCancelled
  <1>2. /\ status \in [Ids -> Statuses] /\ cur \in [Ids -> 0..MaxRevision] /\ i \in Ids
        /\ revs \in [Ids -> [Numbers -> Revisions \cup {None}]]
    BY <1>1 DEF IInv, Types
  <1>3. rev \in Revisions
    BY DEF Revision, Revisions, Ops
  <1>4. status' \in [Ids -> Statuses]
    BY <1>1, <1>2 DEF Statuses
  <1>5. Types' /\ NoGaps'
    BY <1>1, <1>3, <1>4, Written DEF IInv
  <1>6. Offered'
    <2>1. ASSUME NEW j \in Ids
          PROVE  /\ status'[j] \in Active => cur'[j] # 0
                 /\ cur'[j] # 0 => ~revs'[j][cur'[j]].cancelled
                 /\ status'[j] = "approved" => cur'[j] = approved'[j]
      <3>1. cur'[j] = cur[j] /\ approved'[j] = approved[j]
        BY <1>1 DEF Done
      <3>2. status'[j] = "cancelled" \/ status'[j] = status[j]
        BY <1>1, <1>2
      <3>3. cur[j] # 0 => revs'[j][cur[j]] = revs[j][cur[j]]
        <4>1. ASSUME cur[j] # 0 PROVE cur[j] \in Numbers /\ revs[j][cur[j]] # None
          BY <4>1, CurrentType DEF IInv, StoreAssumption
        <4>2. QED BY <1>1, <1>2, <4>1
      <3>4. QED BY <3>1, <3>2, <3>3 DEF IInv, Offered, CurrentIsComplete, ApprovedRevision, Active
    <2>2. QED BY <2>1 DEF Offered, CurrentIsComplete, ApprovedRevision
  <1>7. QED BY <1>5, <1>6 DEF IInv

\* The user reviews, approves or cancels what is current.
LEMMA StatusHolds ==
  ASSUME StoreAssumption, IInv, NEW i \in Ids, NEW s \in {"reviewed", "approved", "cancelled"},
         SetStatus(i, s)
  PROVE  IInv'
  <1>1. /\ status \in [Ids -> Statuses] /\ cur \in [Ids -> 0..MaxRevision]
        /\ approved \in [Ids -> 0..MaxRevision]
    BY DEF IInv, Types
  <1>2. /\ s \in {"reviewed", "approved"} => status[i] \in {"ready_for_review", "reviewed"}
        /\ status' = [status EXCEPT ![i] = s]
        /\ approved' = IF s = "approved" THEN [approved EXCEPT ![i] = cur[i]] ELSE approved
        /\ UNCHANGED <<version, dirty, cur, revs, decided, acked, b>>
    BY DEF SetStatus
  <1>3. status' \in [Ids -> Statuses] /\ approved' \in [Ids -> 0..MaxRevision]
    <2>1. s \in Statuses
      BY DEF Statuses, Active
    <2>2. QED BY <1>1, <1>2, <2>1
  <1>4. Types'
    BY <1>2, <1>3 DEF IInv, Types
  <1>5. NoGaps'
    BY <1>2 DEF IInv, NoGaps, UpTo
  <1>6. Offered'
    <2>1. ASSUME NEW j \in Ids
          PROVE  /\ status'[j] \in Active => cur[j] # 0
                 /\ status'[j] = "approved" => cur[j] = approved'[j]
      <3>1. CASE j = i
        BY <1>1, <1>2, <3>1 DEF IInv, Offered, CurrentIsComplete, Active
      <3>2. CASE j # i
        BY <1>1, <1>2, <3>2 DEF IInv, Offered, CurrentIsComplete, ApprovedRevision
      <3>3. QED BY <3>1, <3>2
    <2>2. QED BY <1>2, <2>1 DEF IInv, Offered, CurrentIsComplete, ApprovedRevision
  <1>7. QED BY <1>4, <1>5, <1>6 DEF IInv

\* What the drift check makes of an operation.
Marked(o, f) == IF o # None /\ o.version # version[f] THEN [o EXCEPT !.stale = TRUE] ELSE o

\* The drift check marks operations of the current revision, and nothing else.
LEMMA DriftMarks ==
  ASSUME StoreAssumption, Types, NoGaps, NEW i \in Ids, RefreshDrift(i)
  PROVE  /\ cur[i] \in Numbers /\ revs[i][cur[i]] \in Revisions
         /\ revs' \in [Ids -> [Numbers -> Revisions \cup {None}]]
         /\ \A j \in Ids, n \in Numbers :
              /\ revs'[j][n] = None <=> revs[j][n] = None
              /\ j # i \/ n # cur[i] => revs'[j][n] = revs[j][n]
         /\ revs'[i][cur[i]] = Revision([f \in Files |-> Marked(revs[i][cur[i]].ops[f], f)],
                                        revs[i][cur[i]].cancelled)
  <1> DEFINE n == cur[i]
             old == revs[i][n]
             ops == [f \in Files |-> Marked(old.ops[f], f)]
             new == Revision(ops, old.cancelled)
  <1>1. n \in Numbers /\ old \in Revisions
    BY CurrentType DEF RefreshDrift
  <1>2. revs \in [Ids -> [Numbers -> Revisions \cup {None}]]
    BY DEF Types
  <1>3. ASSUME NEW f \in Files PROVE Marked(old.ops[f], f) \in Ops
    <2>1. old.ops[f] \in Ops
      BY <1>1 DEF Revisions
    <2> DEFINE o == old.ops[f]
    <2> HIDE DEF o
    <2>2. ASSUME o \in Ops, o # None PROVE [o EXCEPT !.stale = TRUE] \in Ops
      BY <2>2 DEF Ops
    <2>3. QED BY <2>1, <2>2 DEF Marked, o
  <1>4. new \in Revisions
    BY SMTT(20), <1>1, <1>3 DEF Revision, Revisions
  <1>5. new = [old EXCEPT !.ops = ops]
    BY SMTT(20), <1>1 DEF Revision, Revisions
  <1>6. revs' = [revs EXCEPT ![i][n] = new]
    BY <1>5 DEF RefreshDrift, Marked
  <1>7. new # None /\ old # None
    BY <1>1, <1>4 DEF StoreAssumption
  <1> HIDE DEF new
  <1>8. /\ revs' \in [Ids -> [Numbers -> Revisions \cup {None}]]
        /\ \A j \in Ids, m \in Numbers :
             revs'[j][m] = IF j = i /\ m = n THEN new ELSE revs[j][m]
    BY <1>1, <1>2, <1>4, <1>6
  <1>9. QED BY <1>1, <1>7, <1>8 DEF new

LEMMA DriftHolds ==
  ASSUME StoreAssumption, IInv, NEW i \in Ids, RefreshDrift(i) PROVE IInv'
  <1>1. UNCHANGED <<version, dirty, status, cur, decided, acked, approved, b>>
    BY DEF RefreshDrift
  <1>2. Types /\ NoGaps
    BY DEF IInv
  <1>3. /\ cur[i] \in Numbers /\ revs[i][cur[i]] \in Revisions
        /\ revs' \in [Ids -> [Numbers -> Revisions \cup {None}]]
        /\ \A j \in Ids, n \in Numbers :
             /\ revs'[j][n] = None <=> revs[j][n] = None
             /\ j # i \/ n # cur[i] => revs'[j][n] = revs[j][n]
        /\ revs'[i][cur[i]].cancelled = revs[i][cur[i]].cancelled
    <2>1. /\ cur[i] \in Numbers /\ revs[i][cur[i]] \in Revisions
          /\ revs' \in [Ids -> [Numbers -> Revisions \cup {None}]]
          /\ \A j \in Ids, n \in Numbers :
               /\ revs'[j][n] = None <=> revs[j][n] = None
               /\ j # i \/ n # cur[i] => revs'[j][n] = revs[j][n]
      BY <1>2, DriftMarks
    <2>2. revs'[i][cur[i]] = Revision([f \in Files |-> Marked(revs[i][cur[i]].ops[f], f)],
                                      revs[i][cur[i]].cancelled)
      BY <1>2, DriftMarks
    <2>3. revs'[i][cur[i]].cancelled = revs[i][cur[i]].cancelled
      BY <2>2 DEF Revision
    <2>4. QED BY <2>1, <2>3
  <1>4. Types'
    BY <1>1, <1>2, <1>3 DEF Types
  <1>5. NoGaps'
    <2>1. ASSUME NEW j \in Ids, NEW k \in 0..MaxRevision, UpTo(j, k) PROVE UpTo(j, k)'
      BY <1>1, <1>3, <2>1 DEF UpTo
    <2>2. QED BY <1>1, <1>2, <2>1 DEF NoGaps
  <1>6. Offered'
    <2>1. ASSUME NEW j \in Ids, cur[j] # 0
          PROVE  revs'[j][cur[j]].cancelled = revs[j][cur[j]].cancelled
      <3>1. cur[j] \in Numbers
        BY <1>2, <2>1, CurrentType
      <3>2. CASE j = i
        BY <1>3, <3>2
      <3>3. CASE j # i
        BY <1>3, <3>1, <3>3
      <3>4. QED BY <3>2, <3>3
    <2>2. QED BY <1>1, <2>1 DEF IInv, Offered, CurrentIsComplete, ApprovedRevision
  <1>7. QED BY <1>4, <1>5, <1>6 DEF IInv

LEMMA ChangeHolds ==
  ASSUME StoreAssumption, IInv, NEW f \in Files, FileChanges(f) PROVE IInv'
  <1>1. /\ version' = [version EXCEPT ![f] = @ + 1] /\ version[f] < MaxVersion
        /\ dirty' = dirty \cup {f}
        /\ UNCHANGED <<status, cur, revs, decided, acked, approved, b>>
    BY DEF FileChanges, store
  <1>2. version \in [Files -> 0..MaxVersion] /\ dirty \in SUBSET Files /\ MaxVersion \in Nat
    BY DEF IInv, Types, StoreAssumption
  <1>3. version[f] + 1 \in 0..MaxVersion
    BY <1>1, <1>2
  <1>4. version' \in [Files -> 0..MaxVersion]
    BY <1>1, <1>2, <1>3
  <1>5. Types'
    BY <1>1, <1>2, <1>4 DEF IInv, Types
  <1>6. NoGaps' /\ Offered'
    BY <1>1 DEF IInv, NoGaps, UpTo, Offered, CurrentIsComplete, ApprovedRevision
  <1>7. QED BY <1>5, <1>6 DEF IInv

-----------------------------------------------------------------------------
(* Theorems *)

LEMMA InitHolds ==
  ASSUME StoreAssumption, Init PROVE IInv
  <1>1. 0 \in 0..MaxVersion /\ 0 \in 0..(MaxRevision + 1) /\ 0 \in 0..MaxRevision /\ 1 \in 0..MaxVersion
    BY DEF StoreAssumption
  <1>2. Idle \in States /\ Idle.pc = "idle"
    BY <1>1 DEF Idle, States, Ops
  <1>3. Types
    BY <1>1, <1>2 DEF Init, Types, Statuses
  <1>4. ASSUME NEW i \in Ids PROVE UpTo(i, 0)
    <2>1. \A n \in Numbers : n \in Nat /\ ~(n <= 0) /\ revs[i][n] = None
      BY DEF Numbers, Init
    <2>2. cur[i] = 0 /\ \A x \in Builders : b[x].pc = "idle"
      BY <1>2 DEF Init
    <2>3. QED BY <2>1, <2>2 DEF UpTo
  <1>5. NoGaps
    BY <1>1, <1>4 DEF NoGaps
  <1>6. Offered
    BY DEF Init, Offered, CurrentIsComplete, ApprovedRevision, Active, StoreAssumption
  <1>7. QED BY <1>3, <1>5, <1>6 DEF IInv

LEMMA StepHolds ==
  ASSUME StoreAssumption, IInv, [Next]_vars PROVE IInv'
  <1>1. CASE UNCHANGED vars
    <2>1. UNCHANGED <<version, dirty, status, cur, revs, decided, acked, approved, b>>
      BY <1>1 DEF vars, store
    <2>2. Types' /\ NoGaps' /\ Offered'
      BY <2>1 DEF IInv, Types, NoGaps, UpTo, Offered, CurrentIsComplete, ApprovedRevision
    <2>3. QED BY <2>2 DEF IInv
  <1>2. CASE BeginGenerate \/ BeginRules \/ BeginMonitor \/ BeginOverride
    BY <1>2, BeginHolds
  <1>3. ASSUME NEW x \in Builders, Build(x) PROVE IInv'
    <2>1. CASE ReadSource(x) \/ ReadBase(x) \/ ReadNeighbours(x) \/ ReadNumber(x) \/ ReadOverrides(x)
      BY <2>1, ReadHolds
    <2>2. CASE Persist(x)
      BY <2>2, PersistHolds
    <2>3. CASE PersistCancelled(x)
      BY <2>3, CancelledHolds
    <2>4. CASE PersistRefused(x)
      BY <2>4, RefusedHolds
    <2>5. QED BY <1>3, <2>1, <2>2, <2>3, <2>4 DEF Build
  <1>4. ASSUME NEW i \in Ids,
               RefreshDrift(i) \/ \E s \in {"reviewed", "approved", "cancelled"} : SetStatus(i, s)
        PROVE  IInv'
    BY <1>4, DriftHolds, StatusHolds
  <1>5. ASSUME NEW f \in Files, FileChanges(f) PROVE IInv'
    BY <1>5, ChangeHolds
  <1>6. QED BY <1>1, <1>2, <1>3, <1>4, <1>5 DEF Next

THEOREM InvariantHolds == StoreAssumption /\ Spec => []IInv
  <1> SUFFICES ASSUME StoreAssumption PROVE Spec => []IInv
    OBVIOUS
  <1>1. Init => IInv
    BY InitHolds
  <1>2. IInv /\ [Next]_vars => IInv'
    BY StepHolds
  <1>3. QED BY <1>1, <1>2, PTL DEF Spec

\* The tables and the builders keep their types.
THEOREM TypeCorrect == StoreAssumption /\ Spec => []TypeOK
  <1> SUFFICES ASSUME StoreAssumption PROVE Spec => []TypeOK
    OBVIOUS
  <1>1. IInv => TypeOK
    <2>1. ASSUME Types PROVE TypeOK
      <3>1. \A i \in Ids, n \in Numbers : revs[i][n] # None => revs[i][n] \in Revisions
        BY <2>1 DEF Types
      <3>2. \A x \in Builders : b[x] \in States
        BY <2>1 DEF Types
      <3>3. \A i \in Ids, n \in Numbers : revs[i][n] # None => revs[i][n].ops \in [Files -> Ops]
        BY <3>1 DEF Revisions
      <3>4. \A x \in Builders : b[x].num \in 0..(MaxRevision + 1)
        BY <3>2 DEF States
      <3>5. QED BY <2>1, <3>3, <3>4 DEF Types, TypeOK
    <2>2. QED BY <2>1 DEF IInv
  <1>2. QED BY <1>1, InvariantHolds, PTL

\* What is offered for review was computed to the end: a cancelled build never
\* replaces the revision that was current
\* (persist_organization_proposal_with_meta).
THEOREM CompleteOffered == StoreAssumption /\ Spec => []CurrentIsComplete
  <1> SUFFICES ASSUME StoreAssumption PROVE Spec => []CurrentIsComplete
    OBVIOUS
  <1>1. IInv => CurrentIsComplete
    BY DEF IInv, Offered
  <1>2. QED BY <1>1, InvariantHolds, PTL

\* An approved proposal still has the revision that was current when the user
\* approved it (set_organization_proposal_status).
THEOREM ApprovalHolds == StoreAssumption /\ Spec => []ApprovedRevision
  <1> SUFFICES ASSUME StoreAssumption PROVE Spec => []ApprovedRevision
    OBVIOUS
  <1>1. IInv => ApprovedRevision
    BY DEF IInv, Offered
  <1>2. QED BY <1>1, InvariantHolds, PTL

-----------------------------------------------------------------------------
(* Stored revisions are kept *)

\* What is written goes under a free number, above the current one.
LEMMA WriteKeeps ==
  ASSUME StoreAssumption, IInv, NEW x \in Builders, Persist(x) \/ PersistCancelled(x)
  PROVE  HistoryIsKeptStep
  <1> DEFINE i == b[x].id
             num == b[x].num
  <1>1. PICK rev : revs' = [revs EXCEPT ![i][num] = rev]
    BY DEF Persist, PersistCancelled
  <1>2. /\ b[x].pc = "persist" /\ num \in Numbers /\ revs[i][num] = None
        /\ cur' = cur \/ cur' = [cur EXCEPT ![i] = num]
    BY DEF Persist, PersistCancelled, MayPersist
  <1>3. /\ cur \in [Ids -> 0..MaxRevision] /\ i \in Ids
        /\ revs \in [Ids -> [Numbers -> Revisions \cup {None}]]
    BY <1>2 DEF IInv, Types
  <1>4. PICK k \in 0..MaxRevision : UpTo(i, k)
    BY <1>3 DEF IInv, NoGaps
  <1>5. num = k + 1
    BY <1>2, <1>4, FreeIsNext
  <1>6. k \in Nat /\ cur[i] \in Nat /\ cur[i] <= k
    BY <1>3, <1>4 DEF UpTo, StoreAssumption
  <1> HIDE DEF i, num
  <1>7. ASSUME NEW j \in Ids PROVE cur'[j] >= cur[j]
    <2>1. cur[j] \in Nat
      BY <1>3 DEF StoreAssumption
    <2>2. cur'[j] = cur[j] \/ (j = i /\ cur'[j] = num)
      <3>1. CASE cur' = cur
        BY <3>1
      <3>2. CASE cur' = [cur EXCEPT ![i] = num]
        BY <1>3, <3>2
      <3>3. QED BY <1>2, <3>1, <3>2
    <2>3. QED BY <1>5, <1>6, <2>1, <2>2
  <1>8. ASSUME NEW j \in Ids, NEW n \in Numbers, revs[j][n] # None PROVE revs'[j][n] = revs[j][n]
    BY <1>1, <1>2, <1>3, <1>8
  <1>9. QED BY <1>7, <1>8 DEF HistoryIsKeptStep

LEMMA DriftKeeps ==
  ASSUME StoreAssumption, IInv, NEW i \in Ids, RefreshDrift(i) PROVE HistoryIsKeptStep
  <1>1. Types /\ NoGaps /\ cur' = cur
    BY DEF IInv, RefreshDrift
  <1>2. \A j \in Ids : cur'[j] >= cur[j]
    <2>1. \A j \in Ids : cur[j] \in Nat
      BY <1>1 DEF Types, StoreAssumption
    <2>2. QED BY <1>1, <2>1
  <1>3. ASSUME NEW j \in Ids, NEW n \in Numbers, revs[j][n] # None, NEW f \in Files
        PROVE  \/ revs'[j][n].ops[f] = revs[j][n].ops[f]
               \/ /\ revs[j][n].ops[f] # None
                  /\ revs'[j][n].ops[f] = [revs[j][n].ops[f] EXCEPT !.stale = TRUE]
    <2>1. CASE j = i /\ n = cur[i]
      <3>1. revs'[i][cur[i]] = Revision([g \in Files |-> Marked(revs[i][cur[i]].ops[g], g)],
                                        revs[i][cur[i]].cancelled)
        BY <1>1, DriftMarks
      <3>2. revs'[j][n].ops[f] = Marked(revs[j][n].ops[f], f)
        BY <2>1, <3>1 DEF Revision
      <3>3. QED BY <3>2 DEF Marked
    <2>2. CASE j # i \/ n # cur[i]
      BY <1>1, <2>2, DriftMarks
    <2>3. QED BY <2>1, <2>2
  <1>4. QED BY <1>2, <1>3 DEF HistoryIsKeptStep

LEMMA HistoryStep ==
  ASSUME StoreAssumption, IInv, [Next]_vars PROVE HistoryIsKeptStep
  <1>1. ASSUME cur' = cur, revs' = revs PROVE HistoryIsKeptStep
    <2>1. \A j \in Ids : cur[j] \in Nat
      BY DEF IInv, Types, StoreAssumption
    <2>2. QED BY <1>1, <2>1 DEF HistoryIsKeptStep
  <1>2. CASE BeginGenerate \/ BeginRules \/ BeginMonitor \/ BeginOverride \/ UNCHANGED vars
    BY <1>1, <1>2
    DEF BeginGenerate, BeginRules, BeginMonitor, BeginOverride, Stays, store, vars
  <1>3. ASSUME NEW x \in Builders, Build(x) PROVE HistoryIsKeptStep
    <2>1. CASE Persist(x) \/ PersistCancelled(x)
      BY <2>1, WriteKeeps
    <2>2. CASE ~(Persist(x) \/ PersistCancelled(x))
      <3>1. cur' = cur /\ revs' = revs
        BY <1>3, <2>2 DEF Build, ReadSource, ReadBase, ReadNeighbours, ReadNumber, ReadOverrides,
                         PersistRefused, Stays, store
      <3>2. QED BY <1>1, <3>1
    <2>3. QED BY <2>1, <2>2
  <1>4. ASSUME NEW i \in Ids, RefreshDrift(i) PROVE HistoryIsKeptStep
    BY <1>4, DriftKeeps
  <1>5. ASSUME NEW i \in Ids, NEW s \in {"reviewed", "approved", "cancelled"}, SetStatus(i, s)
        PROVE  HistoryIsKeptStep
    BY <1>1, <1>5 DEF SetStatus
  <1>6. ASSUME NEW f \in Files, FileChanges(f) PROVE HistoryIsKeptStep
    BY <1>1, <1>6 DEF FileChanges, store
  <1>7. QED BY <1>2, <1>3, <1>4, <1>5, <1>6 DEF Next

\* A stored revision keeps its operations, except for the mark that a source
\* has drifted, and no build makes an earlier revision current again
\* (persist_organization_proposal_with_meta, refresh_organization_proposal_drift).
THEOREM HistoryKept == StoreAssumption /\ Spec => HistoryIsKept
  <1> SUFFICES ASSUME StoreAssumption PROVE Spec => HistoryIsKept
    OBVIOUS
  <1>1. ASSUME IInv, [Next]_vars PROVE [HistoryIsKeptStep]_vars
    BY <1>1, HistoryStep
  <1>2. QED BY <1>1, InvariantHolds, PTL DEF Spec, HistoryIsKept

-----------------------------------------------------------------------------
(* Decisions, when every build is a full one *)

\* A builder that begins, reads or is refused. What it is about to store
\* applies all decisions there are.
LEMMA FreshMoves ==
  ASSUME StoreAssumption, FInv, NEW x \in Builders, NEW r \in States,
         b' = [b EXCEPT ![x] = r], r.pc # "base", r.mode = "full", r.file # None => x = "override",
         r.pc = "persist" => r.overrides = decided'[r.id],
         x # "override" => decided' = decided,
         UNCHANGED <<cur, revs>>,
         \A i \in Ids : \A f \in acked'[i] : f \in acked[i] /\ decided'[i][f] = decided[i][f]
  PROVE  Full' /\ Fresh' /\ Applied'
  <1>1. /\ b \in [Builders -> States] /\ acked \in [Ids -> SUBSET Files]
        /\ \A y \in Builders : b[y].pc # "idle" => b[y].id \in Ids
    BY DEF FInv, IInv, Types
  <1>2. \A y \in Builders : b'[y] = IF y = x THEN r ELSE b[y]
    BY <1>1
  <1>3. Full'
    BY <1>2 DEF FInv, Full
  <1>4. ASSUME NEW y \in Builders, b'[y].pc = "persist"
        PROVE  /\ b'[y].num \in Numbers /\ revs'[b'[y].id][b'[y].num] = None =>
                    \A f \in acked'[b'[y].id] : b'[y].overrides[f] = decided'[b'[y].id][f]
               /\ y = "override" => b'[y].overrides = decided'[b'[y].id]
    <2>1. CASE y = x
      BY <1>2, <1>4, <2>1
    <2>2. CASE y # x
      <3>1. b'[y] = b[y] /\ b[y].id \in Ids
        BY <1>1, <1>2, <1>4, <2>2
      <3>2. /\ b[y].num \in Numbers /\ revs[b[y].id][b[y].num] = None =>
                 \A f \in acked[b[y].id] : b[y].overrides[f] = decided[b[y].id][f]
            /\ y = "override" => b[y].overrides = decided[b[y].id]
        BY <1>4, <3>1 DEF FInv, Fresh
      <3>3. QED BY <2>2, <3>1, <3>2
    <2>3. QED BY <2>1, <2>2
  <1>5. Applied'
    <2>1. \A i \in Ids : CurrentOps(i)' = CurrentOps(i)
      BY DEF CurrentOps
    <2>2. QED BY <2>1 DEF FInv, Applied
  <1>6. QED BY <1>3, <1>4, <1>5 DEF Fresh

LEMMA FreshReads ==
  ASSUME StoreAssumption, FInv, NEW x \in Builders,
         ReadSource(x) \/ ReadBase(x) \/ ReadNeighbours(x) \/ ReadNumber(x) \/ ReadOverrides(x)
           \/ PersistRefused(x)
  PROVE  Full' /\ Fresh' /\ Applied'
  <1>1. /\ UNCHANGED <<cur, revs, acked, decided>> /\ b[x].pc # "idle"
        /\ b[x].pc # "base" /\ b[x].mode = "full" /\ (b[x].file # None => x = "override")
    BY DEF ReadSource, ReadBase, ReadNeighbours, ReadNumber, ReadOverrides, PersistRefused,
           Stays, store, FInv, Full
  <1>2. /\ b[x] \in States /\ b[x].id \in Ids /\ version \in [Files -> 0..MaxVersion]
        /\ decided \in [Ids -> [Files -> Decisions \cup {None}]]
    BY <1>1 DEF FInv, IInv, Types
  <1>3. ASSUME NEW r \in States, b' = [b EXCEPT ![x] = r], r.pc # "base", r.mode = "full",
               r.file # None => x = "override", r.pc = "persist" => r.overrides = decided[r.id]
        PROVE  Full' /\ Fresh' /\ Applied'
    BY <1>1, <1>3, FreshMoves
  <1>4. CASE ReadSource(x)
    <2> DEFINE r == [b[x] EXCEPT !.pc = "number", !.source = version]
    <2>1. /\ r \in States /\ r.pc = "number" /\ r.mode = b[x].mode /\ r.file = b[x].file
          /\ b' = [b EXCEPT ![x] = r]
      BY <1>2, <1>4 DEF States, ReadSource
    <2> HIDE DEF r
    <2>2. QED BY <1>1, <1>3, <2>1
  <1>5. CASE ReadNumber(x)
    <2> DEFINE r == [b[x] EXCEPT !.pc = "overrides", !.num = NextNumber(b[x].id)]
    <2>1. PICK k \in 0..MaxRevision : UpTo(b[x].id, k)
      BY <1>2 DEF FInv, IInv, NoGaps
    <2>2. NextNumber(b[x].id) = k + 1
      BY <1>2, <2>1, NextIs DEF UpTo
    <2>3. NextNumber(b[x].id) \in 0..(MaxRevision + 1)
      BY <2>2 DEF StoreAssumption
    <2>4. /\ r \in States /\ r.pc = "overrides" /\ r.mode = b[x].mode /\ r.file = b[x].file
          /\ b' = [b EXCEPT ![x] = r]
      BY <1>2, <1>5, <2>3 DEF States, ReadNumber
    <2> HIDE DEF r
    <2>5. QED BY <1>1, <1>3, <2>4
  <1>6. CASE ReadOverrides(x)
    <2> DEFINE r == [b[x] EXCEPT !.pc = "persist", !.overrides = decided[b[x].id]]
    <2>1. /\ r \in States /\ r.pc = "persist" /\ r.mode = b[x].mode /\ r.file = b[x].file
          /\ r.overrides = decided[r.id] /\ b' = [b EXCEPT ![x] = r]
      BY <1>2, <1>6 DEF States, ReadOverrides
    <2> HIDE DEF r
    <2>2. QED BY <1>1, <1>3, <2>1
  <1>7. CASE PersistRefused(x)
    <2>1. 0 \in 0..MaxVersion /\ 0 \in 0..(MaxRevision + 1)
      BY DEF StoreAssumption
    <2>2. Idle \in States /\ Idle.pc = "idle" /\ Idle.mode = "full" /\ Idle.file = None
      BY <2>1 DEF Idle, States, Ops
    <2>3. b' = [b EXCEPT ![x] = Idle]
      BY <1>7 DEF PersistRefused
    <2>4. QED BY <1>3, <2>2, <2>3
  <1>8. ~ReadBase(x) /\ ~ReadNeighbours(x)
    BY <1>1 DEF ReadBase, ReadNeighbours
  <1>9. QED BY <1>4, <1>5, <1>6, <1>7, <1>8

LEMMA FreshBegins ==
  ASSUME StoreAssumption, ~Incremental, FInv, BeginGenerate \/ BeginRules \/ BeginMonitor \/ BeginOverride
  PROVE  Full' /\ Fresh' /\ Applied'
  <1>1. /\ dirty \in SUBSET Files /\ acked \in [Ids -> SUBSET Files]
        /\ decided \in [Ids -> [Files -> Decisions \cup {None}]]
    BY DEF FInv, IInv, Types
  <1>2. /\ Idle \in States /\ Idle.mode = "full" /\ Idle.file = None
        /\ \A i \in Current \cup Unused : i \in Ids
    <2>1. 0 \in 0..MaxVersion /\ 0 \in 0..(MaxRevision + 1)
      BY DEF StoreAssumption
    <2>2. QED BY <2>1 DEF Idle, States, Ops, Current, Unused
  <1>3. ASSUME NEW x \in Builders, NEW r \in States, b' = [b EXCEPT ![x] = r],
               r.pc = "source", r.mode = "full", r.file = None,
               UNCHANGED <<cur, revs, acked, decided>>
        PROVE  Full' /\ Fresh' /\ Applied'
    BY <1>3, FreshMoves
  <1>4. CASE BeginGenerate
    <2>1. PICK i \in Current \cup Unused :
            b' = [b EXCEPT !["generate"] = [Idle EXCEPT !.pc = "source", !.id = i]]
      BY <1>4 DEF BeginGenerate
    <2> DEFINE r == [Idle EXCEPT !.pc = "source", !.id = i]
    <2>2. r \in States /\ r.pc = "source" /\ r.mode = "full" /\ r.file = None
      BY <1>2 DEF States
    <2>3. "generate" \in Builders /\ Stays
      BY <1>4 DEF BeginGenerate
    <2> HIDE DEF r
    <2>4. QED BY <1>3, <2>1, <2>2, <2>3 DEF Stays, store, r
  <1>5. CASE BeginRules
    <2>1. PICK i \in Current :
            b' = [b EXCEPT !["rules"] = [Idle EXCEPT !.pc = "source", !.id = i]]
      BY <1>5 DEF BeginRules
    <2> DEFINE r == [Idle EXCEPT !.pc = "source", !.id = i]
    <2>2. r \in States /\ r.pc = "source" /\ r.mode = "full" /\ r.file = None
      BY <1>2 DEF States
    <2>3. "rules" \in Builders /\ Stays
      BY <1>5 DEF BeginRules
    <2> HIDE DEF r
    <2>4. QED BY <1>3, <2>1, <2>2, <2>3 DEF Stays, store, r
  <1>6. CASE BeginMonitor
    <2>1. PICK i \in IF Current = {} THEN Unused ELSE Current :
            b' = [b EXCEPT !["monitor"] =
                    [Idle EXCEPT !.pc = "source", !.mode = "full", !.id = i, !.dirty = dirty]]
      BY <1>6 DEF BeginMonitor
    <2> DEFINE r == [Idle EXCEPT !.pc = "source", !.mode = "full", !.id = i, !.dirty = dirty]
    <2>2. r \in States /\ r.pc = "source" /\ r.mode = "full" /\ r.file = None
      BY <1>1, <1>2 DEF States
    <2>3. "monitor" \in Builders /\ UNCHANGED <<version, store, decided, acked, approved>>
      BY <1>6 DEF BeginMonitor
    <2> HIDE DEF r
    <2>4. QED BY <1>3, <2>1, <2>2, <2>3 DEF store, r
  <1>7. CASE BeginOverride
    <2>1. PICK i \in Ids, f \in Files, d \in Decisions :
            /\ decided' = [decided EXCEPT ![i][f] = d] /\ acked' = [acked EXCEPT ![i] = @ \ {f}]
            /\ b' = [b EXCEPT !["override"] = [Idle EXCEPT !.pc = "source", !.id = i, !.file = f]]
      BY <1>7 DEF BeginOverride
    <2> DEFINE r == [Idle EXCEPT !.pc = "source", !.id = i, !.file = f]
    <2>2. r \in States /\ r.pc = "source" /\ r.mode = "full"
      BY <1>2 DEF States
    <2>3. "override" \in Builders /\ UNCHANGED <<cur, revs>>
      BY <1>7 DEF BeginOverride, store
    <2>4. ASSUME NEW j \in Ids, NEW g \in acked'[j]
          PROVE  g \in acked[j] /\ decided'[j][g] = decided[j][g]
      <3>1. CASE j = i
        <4>1. acked'[j] = acked[j] \ {f} /\ decided'[j] = [decided[j] EXCEPT ![f] = d]
          BY <1>1, <2>1, <3>1
        <4>2. g \in acked[j] /\ g # f /\ g \in Files
          BY <1>1, <4>1
        <4>3. decided[j] \in [Files -> Decisions \cup {None}]
          BY <1>1
        <4>4. QED BY <4>1, <4>2, <4>3
      <3>2. CASE j # i
        BY <1>1, <2>1, <3>2
      <3>3. QED BY <3>1, <3>2
    <2>5. b' = [b EXCEPT !["override"] = r]
      BY <2>1
    <2> HIDE DEF r
    <2>6. QED BY <2>2, <2>3, <2>4, <2>5, FreshMoves
  <1>8. QED BY <1>4, <1>5, <1>6, <1>7

\* What a build stores takes the numbers of all the builds that have read
\* theirs, so that none of them can store decisions that are older.
LEMMA FreshWrites ==
  ASSUME StoreAssumption, FInv, NEW x \in Builders, Persist(x) \/ PersistCancelled(x)
  PROVE  Full' /\ Fresh' /\ Applied'
  <1> DEFINE i == b[x].id
             num == b[x].num
  <1>1. PICK rev \in Revisions : revs' = [revs EXCEPT ![i][num] = rev]
    <2>1. CASE Persist(x)
      BY <2>1, BuiltType DEF Persist, FInv, IInv
    <2>2. CASE PersistCancelled(x)
      <3>1. Revision([f \in Files |-> None], TRUE) \in Revisions
        BY DEF Revision, Revisions, Ops
      <3>2. QED BY <2>2, <3>1 DEF PersistCancelled
    <2>3. QED BY <2>1, <2>2
  <1>2. /\ b[x].pc = "persist" /\ num \in Numbers /\ revs[i][num] = None
        /\ b' = [b EXCEPT ![x] = Idle] /\ decided' = decided
        /\ acked' = IF b[x].file = None THEN acked ELSE [acked EXCEPT ![i] = @ \cup {b[x].file}]
    BY DEF Persist, PersistCancelled, MayPersist, Done
  <1>3. /\ cur \in [Ids -> 0..MaxRevision] /\ i \in Ids /\ acked \in [Ids -> SUBSET Files]
        /\ revs \in [Ids -> [Numbers -> Revisions \cup {None}]]
        /\ b \in [Builders -> States] /\ b[x] \in States
    BY <1>2 DEF FInv, IInv, Types
  <1>4. PICK k \in 0..MaxRevision : UpTo(i, k)
    BY <1>3 DEF FInv, IInv, NoGaps
  <1>5. num = k + 1 /\ k \in Nat
    BY <1>2, <1>4, FreeIsNext DEF StoreAssumption
  <1>6. rev # None
    BY DEF StoreAssumption
  <1>7. \A j \in Ids, n \in Numbers : revs'[j][n] = IF j = i /\ n = num THEN rev ELSE revs[j][n]
    BY <1>1, <1>3
  <1>8. \A y \in Builders : b'[y] = IF y = x THEN Idle ELSE b[y]
    BY <1>2, <1>3
  <1>9. Full'
    BY <1>8 DEF FInv, Full, Idle
  <1>10. \A j \in Ids : j # i => acked'[j] = acked[j]
    BY <1>2, <1>3
  <1>11. Fresh'
    <2>1. ASSUME NEW y \in Builders, b'[y].pc = "persist"
          PROVE  /\ b'[y].num \in Numbers /\ revs'[b'[y].id][b'[y].num] = None =>
                      \A f \in acked'[b'[y].id] : b'[y].overrides[f] = decided'[b'[y].id][f]
                 /\ y = "override" => b'[y].overrides = decided'[b'[y].id]
      <3>1. b'[y] = b[y]
        BY <1>8, <2>1 DEF Idle
      <3>2. b[y].id \in Ids
        BY <2>1, <3>1 DEF FInv, IInv, Types
      <3>3. CASE b[y].id = i
        <4>1. b[y].num <= k + 1
          BY <1>4, <2>1, <3>1, <3>3 DEF UpTo
        <4>2. ASSUME b[y].num \in Numbers PROVE revs'[i][b[y].num] # None
          <5>1. CASE b[y].num = num
            BY <1>3, <1>6, <1>7, <4>2, <5>1
          <5>2. CASE b[y].num # num
            <6>1. b[y].num <= k
              BY <1>5, <4>1, <4>2, <5>2 DEF Numbers
            <6>2. QED BY <1>3, <1>4, <1>7, <4>2, <5>2, <6>1 DEF UpTo
          <5>3. QED BY <5>1, <5>2
        <4>3. y = "override" => b[y].overrides = decided[b[y].id]
          BY <2>1, <3>1 DEF FInv, Fresh
        <4>4. QED BY <1>2, <3>1, <3>3, <4>2, <4>3
      <3>4. CASE b[y].id # i
        <4>1. \A n \in Numbers : revs'[b[y].id][n] = revs[b[y].id][n]
          BY <1>7, <3>2, <3>4
        <4>2. acked'[b[y].id] = acked[b[y].id]
          BY <1>10, <3>2, <3>4
        <4>3. /\ b[y].num \in Numbers /\ revs[b[y].id][b[y].num] = None =>
                   \A f \in acked[b[y].id] : b[y].overrides[f] = decided[b[y].id][f]
              /\ y = "override" => b[y].overrides = decided[b[y].id]
          BY <2>1, <3>1 DEF FInv, Fresh
        <4>4. QED BY <1>2, <3>1, <4>1, <4>2, <4>3
      <3>5. QED BY <3>3, <3>4
    <2>2. QED BY <2>1 DEF Fresh
  <1>12. Applied'
    <2>1. ASSUME NEW j \in Ids, j # i \/ cur' = cur
          PROVE  CurrentOps(j)' = CurrentOps(j)
      <3>1. cur'[j] = cur[j]
        BY <1>3, <2>1 DEF Persist, PersistCancelled
      <3>2. cur[j] # 0 => cur[j] \in Numbers /\ revs[j][cur[j]] # None
        BY CurrentType DEF FInv, IInv, StoreAssumption
      <3>3. cur[j] # 0 => revs'[j][cur[j]] = revs[j][cur[j]]
        BY <1>2, <1>7, <3>2
      <3>4. QED BY <3>1, <3>3 DEF CurrentOps
    <2>2. CASE PersistCancelled(x)
      <3>1. acked' = acked /\ cur' = cur
        <4>1. x # "override" /\ cur' = cur
          BY <2>2 DEF PersistCancelled
        <4>2. b[x].file = None
          BY <4>1 DEF FInv, Full
        <4>3. QED BY <1>2, <4>1, <4>2
      <3>2. QED BY <1>2, <2>1, <3>1 DEF FInv, Applied
    <2>3. CASE Persist(x)
      <3>1. ASSUME NEW f \in acked'[i] PROVE f \in Files /\ b[x].overrides[f] = decided[i][f]
        <4>1. f \in acked[i] => f \in Files /\ b[x].overrides[f] = decided[i][f]
          BY <1>2, <1>3 DEF FInv, Fresh
        <4>2. CASE f \in acked[i]
          BY <4>1, <4>2
        <4>3. CASE f \notin acked[i]
          <5>1. b[x].file # None /\ f = b[x].file
            BY <1>2, <1>3, <3>1, <4>3
          <5>2. x = "override" /\ f \in Files
            BY <1>3, <5>1 DEF FInv, Full, States
          <5>3. QED BY <1>2, <5>2 DEF FInv, Fresh
        <4>4. QED BY <4>2, <4>3
      <3>2. ASSUME NEW j \in Ids, j = i PROVE CurrentOps(j)' = Built(x)
        <4>1. cur'[j] = num /\ num # 0
          BY <1>2, <1>3, <2>3, <3>2 DEF Persist, Numbers
        <4>2. revs'[j][num] = Revision(Built(x), FALSE)
          BY <1>2, <1>3, <2>3, <3>2 DEF Persist
        <4> HIDE DEF num
        <4>3. QED BY <4>1, <4>2 DEF CurrentOps, Revision
      <3>3. ASSUME NEW f \in Files, Built(x)[f] # None PROVE Built(x)[f].decision = b[x].overrides[f]
        <4>1. b[x].mode = "full"
          BY DEF FInv, Full
        <4>2. Built(x)[f] = Op(b[x].source[f], b[x].overrides[f])
          BY <3>3, <4>1 DEF Built
        <4>3. QED BY <4>2 DEF Op
      <3>4. ASSUME NEW j \in Ids, NEW f \in acked'[j], CurrentOps(j)'[f] # None
            PROVE  CurrentOps(j)'[f].decision = decided'[j][f]
        <4>1. CASE j = i
          BY <1>2, <3>1, <3>2, <3>3, <3>4, <4>1
        <4>2. CASE j # i
          BY <1>2, <1>10, <2>1, <3>4, <4>2 DEF FInv, Applied
        <4>3. QED BY <4>1, <4>2
      <3>5. QED BY <3>4 DEF Applied
    <2>4. QED BY <2>2, <2>3
  <1>13. QED BY <1>9, <1>11, <1>12

LEMMA FreshDrifts ==
  ASSUME StoreAssumption, FInv, NEW i \in Ids, RefreshDrift(i)
  PROVE  Full' /\ Fresh' /\ Applied'
  <1>1. UNCHANGED <<cur, decided, acked, b>> /\ IInv /\ Types /\ NoGaps
    BY DEF RefreshDrift, FInv, IInv
  <1>2. /\ cur[i] \in Numbers
        /\ \A j \in Ids, n \in Numbers :
             /\ revs'[j][n] = None <=> revs[j][n] = None
             /\ j # i \/ n # cur[i] => revs'[j][n] = revs[j][n]
    BY <1>1, DriftMarks
  <1>3. revs'[i][cur[i]] = Revision([f \in Files |-> Marked(revs[i][cur[i]].ops[f], f)],
                                    revs[i][cur[i]].cancelled)
    BY <1>1, DriftMarks
  <1>4. Full'
    BY <1>1 DEF FInv, Full
  <1>5. Fresh'
    <2>1. \A y \in Builders : b[y].pc = "persist" => b[y].id \in Ids
      BY DEF FInv, IInv, Types
    <2>2. QED BY <1>1, <1>2, <2>1 DEF FInv, Fresh
  <1>6. Applied'
    <2>1. ASSUME NEW j \in Ids, NEW f \in acked[j], CurrentOps(j)'[f] # None
          PROVE  CurrentOps(j)'[f].decision = decided[j][f]
      <3>1. f \in Files
        BY <1>1 DEF Types
      <3>2. CASE j = i
        <4>1. cur[i] # 0 /\ cur'[i] = cur[i]
          BY <1>1 DEF RefreshDrift
        <4>2. CurrentOps(i)'[f] = Marked(CurrentOps(i)[f], f)
          BY <1>3, <3>1, <4>1 DEF CurrentOps, Revision
        <4>3. CurrentOps(i)[f] \in Ops
          BY <1>1, <3>1, CurrentType
        <4>4. CurrentOps(i)[f] # None /\ CurrentOps(i)'[f].decision = CurrentOps(i)[f].decision
          <5> DEFINE o == CurrentOps(i)[f]
          <5>1. Marked(o, f) # None
            BY <2>1, <3>2, <4>2
          <5>2. o \in Ops
            BY <4>3
          <5> HIDE DEF o
          <5>3. o # None
            BY <5>1 DEF Marked
          <5>4. Marked(o, f).decision = o.decision
            BY <5>2, <5>3 DEF Marked, Ops
          <5>5. QED BY <4>2, <5>3, <5>4 DEF o
        <4>5. QED BY <3>2, <4>4 DEF FInv, Applied
      <3>3. CASE j # i
        <4>1. cur[j] # 0 => cur[j] \in Numbers
          BY <1>1, CurrentType
        <4>2. CurrentOps(j)' = CurrentOps(j)
          BY <1>1, <1>2, <3>3, <4>1 DEF CurrentOps
        <4>3. QED BY <2>1, <4>2 DEF FInv, Applied
      <3>4. QED BY <3>2, <3>3
    <2>2. QED BY <1>1, <2>1 DEF Applied
  <1>7. QED BY <1>4, <1>5, <1>6

LEMMA FreshHolds ==
  ASSUME StoreAssumption, ~Incremental, FInv, [Next]_vars PROVE FInv'
  <1>1. ASSUME UNCHANGED <<cur, revs, decided, acked, b>> PROVE Full' /\ Fresh' /\ Applied'
    BY <1>1 DEF FInv, Full, Fresh, Applied, CurrentOps
  <1>2. ASSUME UNCHANGED vars PROVE Full' /\ Fresh' /\ Applied'
    BY <1>1, <1>2 DEF vars, store
  <1>3. ASSUME BeginGenerate \/ BeginRules \/ BeginMonitor \/ BeginOverride
        PROVE  Full' /\ Fresh' /\ Applied'
    BY <1>3, FreshBegins
  <1>4. ASSUME NEW x \in Builders, Build(x) PROVE Full' /\ Fresh' /\ Applied'
    <2>1. CASE Persist(x) \/ PersistCancelled(x)
      BY <2>1, FreshWrites
    <2>2. CASE ~(Persist(x) \/ PersistCancelled(x))
      BY <1>4, <2>2, FreshReads DEF Build
    <2>3. QED BY <2>1, <2>2
  <1>5. ASSUME NEW i \in Ids, RefreshDrift(i) PROVE Full' /\ Fresh' /\ Applied'
    BY <1>5, FreshDrifts
  <1>6. ASSUME NEW i \in Ids, NEW s \in {"reviewed", "approved", "cancelled"}, SetStatus(i, s)
        PROVE  Full' /\ Fresh' /\ Applied'
    BY <1>1, <1>6 DEF SetStatus
  <1>7. ASSUME NEW f \in Files, FileChanges(f) PROVE Full' /\ Fresh' /\ Applied'
    BY <1>1, <1>7 DEF FileChanges, store
  <1>8. Full' /\ Fresh' /\ Applied'
    BY <1>2, <1>3, <1>4, <1>5, <1>6, <1>7 DEF Next
  <1>9. QED BY <1>8, StepHolds DEF FInv

\* Without incremental updates, a decision the user was told is stored is the
\* one the current revision applies, whatever builds run beside it
\* (set_organization_proposal_override).
THEOREM DecisionsHonoured == StoreAssumption /\ ~Incremental /\ Spec => []OverrideHonoured
  <1> SUFFICES ASSUME StoreAssumption, ~Incremental PROVE Spec => []OverrideHonoured
    OBVIOUS
  <1>1. ASSUME Init PROVE FInv
    <2>1. IInv
      BY <1>1, InitHolds
    <2>2. Full /\ Fresh /\ Applied
      BY <1>1 DEF Init, Idle, Full, Fresh, Applied
    <2>3. QED BY <2>1, <2>2 DEF FInv
  <1>2. FInv /\ [Next]_vars => FInv'
    BY FreshHolds
  <1>3. FInv => OverrideHonoured
    BY DEF FInv, Applied, OverrideHonoured, Current
  <1>4. QED BY <1>1, <1>2, <1>3, PTL DEF Spec

=============================================================================
