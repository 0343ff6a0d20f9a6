-------------------------- MODULE AnalysisPoolProofs --------------------------
(***************************************************************************)
(* Proofs about AnalysisPool for any number of candidates, page size,      *)
(* workers, channel capacity, faults and candidates that leave: no two     *)
(* workers handle one candidate, the counts are those of the database, and *)
(* a completed batch misses no more candidates than have left.             *)
(***************************************************************************)
EXTENDS AnalysisPool, FiniteSetTheorems, FunctionTheorems, SequenceTheorems, TLAPS

-----------------------------------------------------------------------------
(* The inductive invariant *)

\* A worker has a candidate in hand.
Busy(w) == workers[w].pc \in {"mark", "work", "send"}

\* The candidate at index k of the page is with a worker or in the channel.
Held(k) ==
    \/ \E w \in Worker : Busy(w) /\ workers[w].idx = k
    \/ \E i \in 1..Len(channel) : channel[i].idx = k

StoredRows == {f \in 1..Files : rows[f] = "stored"}
PageFiles == {main.page[k] : k \in 1..Len(main.page)}

Distinct(s) == \A i, j \in 1..Len(s) : s[i] = s[j] => i = j

Results == [idx : Nat, ok : BOOLEAN]
WorkerStates ==
    [pc : {"off", "top", "take", "mark", "work", "send"}, idx : Nat, ok : BOOLEAN]

MainStates ==
    [pc : {"page", "pool", "finish", "done", "lost"}, offset : Nat,
     page : Seq(1..Files), fatal : BOOLEAN]
RowStates == [1..Files -> {"pending", "running", "stored", "ended"}]

Types ==
    /\ rows \in RowStates
    /\ here \in Seq(1..Files) /\ Len(here) <= Files
    /\ batch \in [status : {"running", "completed", "failed", "cancelled"},
                  completed : Nat, queued : {Files}]
    /\ main \in MainStates
    /\ next \in Nat \ {0} /\ stop \in BOOLEAN /\ cancelled \in BOOLEAN
    /\ workers \in [Worker -> WorkerStates]
    /\ channel \in Seq(Results) /\ Len(channel) <= MaxWorkers + Capacity

\* The candidates past the offset are untouched, and none is on a page.
Ahead ==
    /\ Distinct(here)
    /\ main.pc \in {"page", "pool"} =>
         \A i \in 1..Len(here) : i > main.offset =>
           /\ rows[here[i]] = "pending"
           /\ main.pc = "pool" => \A k \in 1..Len(main.page) : main.page[k] # here[i]

\* Outside of a pool nothing is in hand.
AtRest == main.pc # "pool" => channel = <<>> /\ \A w \in Worker : workers[w].pc = "off"

\* An index that was taken is with one worker, or in the channel once, or done
\* with; a candidate that is held has no result yet.
InHand ==
    main.pc = "pool" =>
      /\ Len(main.page) > 0 /\ Distinct(main.page)
      /\ \A k \in Nat : Held(k) => k \in 1..Len(main.page) /\ k < next
      /\ \A v, w \in Worker : Busy(v) /\ Busy(w) /\ workers[v].idx = workers[w].idx => v = w
      /\ \A w \in Worker : Busy(w) =>
           \A i \in 1..Len(channel) : channel[i].idx # workers[w].idx
      /\ \A i, j \in 1..Len(channel) : channel[i].idx = channel[j].idx => i = j
      /\ \A k \in 1..Len(main.page) :
           k >= next \/ Held(k) => rows[main.page[k]] \notin {"stored", "ended"}

\* What is counted is in the rows, and a batch that ended has ended them all.
Counted ==
    /\ batch.completed = Cardinality({f \in 1..Files : rows[f] \in {"stored", "ended"}})
    /\ main.pc # "done" => batch.status = "running" /\ \A f \in 1..Files : rows[f] # "ended"
    /\ main.pc = "done" /\ Kind = "content" =>
         \A f \in 1..Files : rows[f] \in {"stored", "ended"}

\* A result that is not to be had, on its way.
BadNews ==
    /\ Kind = "content"
    /\ \/ \E w \in Worker : workers[w].pc = "send" /\ ~workers[w].ok
       \/ \E i \in 1..Len(channel) : ~channel[i].ok

\* As long as nothing went wrong, the offset is what has been stored, with the
\* page in hand; the page is left when all of it is.
Covered ==
    ~cancelled /\ ~main.fatal =>
      /\ main.pc = "page" => Cardinality(StoredRows) = main.offset
      /\ main.pc = "pool" =>
           /\ Cardinality(StoredRows \cup PageFiles) = main.offset
           /\ \A k \in 1..Len(main.page) : k < next => Held(k) \/ rows[main.page[k]] = "stored"
           /\ stop => BadNews
           /\ workers[1].pc = "off" => stop \/ next > Len(main.page)
      /\ main.pc = "finish" => Cardinality(StoredRows) = main.offset /\ Len(here) <= main.offset

IInv ==
    Types /\ Ahead /\ AtRest /\ InHand /\ Counted /\ Covered /\ CompletedIsComplete

-----------------------------------------------------------------------------
(* Rows, pages and cardinalities *)

\* Sets of candidates are finite.
LEMMA FilesFinite ==
  ASSUME PoolAssumption, NEW S \in SUBSET (1..Files)
  PROVE  IsFiniteSet(S) /\ Cardinality(S) \in Nat /\ Cardinality(S) <= Files
  <1>1. Files \in Nat
    BY DEF PoolAssumption
  <1>2. IsFiniteSet(1..Files) /\ Cardinality(1..Files) = Files
    BY <1>1, FS_Interval
  <1>3. IsFiniteSet(S) /\ Cardinality(S) <= Files
    BY <1>2, FS_Subset
  <1>4. QED BY <1>3, FS_CardinalityType

\* A sequence without repetitions has as many elements as it is long.
LEMMA DistinctCounts ==
  ASSUME PoolAssumption, NEW s \in Seq(1..Files), Distinct(s),
         NEW I \in SUBSET (1..Len(s))
  PROVE  /\ Cardinality({s[i] : i \in I}) = Cardinality(I)
         /\ IsFiniteSet({s[i] : i \in I})
  <1> DEFINE T == {s[i] : i \in I}
             g == [i \in I |-> s[i]]
  <1>1. IsFiniteSet(I)
    <2>1. IsFiniteSet(1..Len(s))
      BY FS_Interval
    <2>2. QED BY <2>1, FS_Subset
  <1>2. g \in Bijection(I, T)
    <2>1. g \in [I -> T] /\ \A t \in T : \E i \in I : g[i] = t
      OBVIOUS
    <2>2. \A i, j \in I : g[i] = g[j] => i = j
      BY DEF Distinct
    <2>3. QED BY <2>1, <2>2, Fun_IsBij
  <1>3. ExistsBijection(I, T)
    BY <1>2 DEF ExistsBijection
  <1>4. QED BY <1>1, <1>3, FS_Bijection

\* The page that is read next: its elements, in their order.
LEMMA PageRead ==
  ASSUME PoolAssumption, NEW s \in Nat, here \in Seq(1..Files)
  PROVE  LET p == PageOf(s) IN
         /\ p \in Seq(1..Files) /\ Len(p) \in Nat
         /\ s + Len(p) <= Len(here) \/ Len(p) = 0
         /\ \A k \in 1..Len(p) : s + k \in 1..Len(here) /\ p[k] = here[s + k]
         /\ p = <<>> <=> Len(here) <= s
  <1> DEFINE m == IF s + PageSize < Len(here) THEN s + PageSize ELSE Len(here)
  <1>1. PageSize \in Nat \ {0} /\ Len(here) \in Nat /\ m \in Nat /\ m <= Len(here)
    BY DEF PoolAssumption
  <1>2. \A i \in (s + 1)..m : here[i] \in 1..Files
    <2> HIDE DEF m
    <2>1. \A i \in (s + 1)..m : i \in 1..Len(here)
      BY <1>1
    <2>2. QED BY <2>1, ElementOfSeq
  <1>3. PageOf(s) = SubSeq(here, s + 1, m)
    BY DEF PageOf
  <1> HIDE DEF m
  <1>4. /\ PageOf(s) \in Seq(1..Files)
        /\ Len(PageOf(s)) = IF s + 1 <= m THEN m - (s + 1) + 1 ELSE 0
        /\ \A i \in 1..(m - (s + 1) + 1) : PageOf(s)[i] = here[(s + 1) + i - 1]
    <2>1. s + 1 \in Int /\ m \in Int
      BY <1>1
    <2>2. QED BY <1>2, <1>3, <2>1, SubSeqProperties
  <1>5. Len(PageOf(s)) = IF s + 1 <= m THEN m - s ELSE 0
    BY <1>1, <1>4
  <1>6. \A k \in 1..Len(PageOf(s)) : s + k \in 1..Len(here) /\ PageOf(s)[k] = here[s + k]
    BY <1>1, <1>4, <1>5
  <1>7. PageOf(s) = <<>> <=> Len(PageOf(s)) = 0
    BY <1>4, EmptySeq
  <1>8. Len(PageOf(s)) = 0 <=> Len(here) <= s
    BY <1>1, <1>5 DEF m
  <1>9. s + Len(PageOf(s)) <= Len(here) \/ Len(PageOf(s)) = 0
    BY <1>1, <1>5
  <1>10. Len(PageOf(s)) \in Nat
    BY <1>4, LenProperties
  <1>11. QED BY <1>4, <1>6, <1>7, <1>8, <1>9, <1>10

\* A candidate that leaves: the others keep their order.
LEMMA Removed ==
  ASSUME NEW S, NEW s \in Seq(S), NEW i \in 1..Len(s)
  PROVE  LET t == RemoveAt(s, i) IN
         /\ t \in Seq(S) /\ Len(t) = Len(s) - 1
         /\ \A j \in 1..Len(t) : t[j] = s[IF j < i THEN j ELSE j + 1]
  <1> DEFINE a == SubSeq(s, 1, i - 1)
             b == SubSeq(s, i + 1, Len(s))
  <1>1. Len(s) \in Nat /\ i \in Nat /\ i >= 1 /\ i <= Len(s)
    OBVIOUS
  <1>2. \A j \in 1..(i - 1) : s[j] \in S
    OBVIOUS
  <1>3. \A j \in (i + 1)..Len(s) : s[j] \in S
    OBVIOUS
  <1>4. /\ a \in Seq(S) /\ Len(a) = IF 1 <= i - 1 THEN (i - 1) - 1 + 1 ELSE 0
        /\ \A j \in 1..((i - 1) - 1 + 1) : a[j] = s[1 + j - 1]
    <2>1. 1 \in Int /\ i - 1 \in Int
      BY <1>1
    <2>2. QED BY <1>2, <2>1, SubSeqProperties
  <1>5. /\ b \in Seq(S) /\ Len(b) = IF i + 1 <= Len(s) THEN Len(s) - (i + 1) + 1 ELSE 0
        /\ \A j \in 1..(Len(s) - (i + 1) + 1) : b[j] = s[(i + 1) + j - 1]
    <2>1. i + 1 \in Int /\ Len(s) \in Int
      BY <1>1
    <2>2. QED BY <1>3, <2>1, SubSeqProperties
  <1> HIDE DEF a, b
  <1>6. Len(a) = i - 1 /\ Len(b) = Len(s) - i
    BY <1>1, <1>4, <1>5
  <1>7. \A j \in 1..(i - 1) : a[j] = s[j]
    BY <1>1, <1>4
  <1>8. \A j \in 1..(Len(s) - i) : b[j] = s[i + j]
    BY <1>1, <1>5
  <1>9. /\ a \o b \in Seq(S) /\ Len(a \o b) = Len(a) + Len(b)
        /\ \A j \in 1..(Len(a) + Len(b)) : (a \o b)[j] = IF j <= Len(a) THEN a[j] ELSE b[j - Len(a)]
    <2>1. a \in Seq(S) /\ b \in Seq(S)
      BY <1>4, <1>5
    <2>2. QED BY <2>1, ConcatProperties
  <1>10. RemoveAt(s, i) = a \o b
    BY DEF RemoveAt, a, b
  <1>11. \A j \in 1..(Len(s) - 1) : (a \o b)[j] = s[IF j < i THEN j ELSE j + 1]
    <2>1. ASSUME NEW j \in 1..(Len(s) - 1), j < i PROVE (a \o b)[j] = s[j]
      BY <1>1, <1>6, <1>7, <1>9, <2>1
    <2>2. ASSUME NEW j \in 1..(Len(s) - 1), ~(j < i) PROVE (a \o b)[j] = s[j + 1]
      <3>1. j - (i - 1) \in 1..(Len(s) - i) /\ i + (j - (i - 1)) = j + 1
        BY <1>1, <2>2
      <3>2. (a \o b)[j] = b[j - (i - 1)]
        BY <1>1, <1>6, <1>9, <2>2
      <3>3. QED BY <1>8, <3>1, <3>2
    <2>3. QED BY <2>1, <2>2
  <1>12. Len(s) - 1 = Len(a) + Len(b)
    BY <1>1, <1>6
  <1>13. QED BY <1>9, <1>10, <1>11, <1>12

-----------------------------------------------------------------------------
(* The workers *)

\* What is with a worker or in the channel is so after a step that moves no
\* index.
LEMMA SameHeld ==
  ASSUME UNCHANGED channel,
         \A v \in Worker : /\ Busy(v)' <=> Busy(v)
                           /\ Busy(v) => workers'[v].idx = workers[v].idx
  PROVE  \A k : Held(k)' <=> Held(k)
  BY DEF Held

\* A worker that checks, marks or works keeps its index, may set the stop flag
\* with bad news, and may mark its own candidate.
LEMMA WorkerMoves ==
  ASSUME PoolAssumption, IInv, NEW w \in Worker, workers[w].pc # "off",
         NEW r \in WorkerStates, workers' = [workers EXCEPT ![w] = r],
         r.pc \in {"mark", "work", "send"} <=> Busy(w),
         Busy(w) => r.idx = workers[w].idx,
         workers[w].pc = "send" => r.pc = "send" /\ r.ok = workers[w].ok,
         r.pc = "off" => stop \/ cancelled,
         stop' \in BOOLEAN, stop => stop',
         stop' => stop \/ (Kind = "content" /\ r.pc = "send" /\ ~r.ok),
         rows' \in RowStates,
         \A f \in 1..Files : rows'[f] # rows[f] =>
           /\ Busy(w) /\ f = main.page[workers[w].idx]
           /\ rows[f] = "pending" /\ rows'[f] = "running",
         UNCHANGED <<here, batch, main, next, channel, cancelled>>
  PROVE  IInv'
  <1>1. main.pc = "pool" /\ workers \in [Worker -> WorkerStates]
    BY DEF IInv, AtRest, Types
  <1>2. \A v \in Worker : workers'[v] = IF v = w THEN r ELSE workers[v]
    BY <1>1
  <1>3. \A v \in Worker : /\ Busy(v)' <=> Busy(v)
                          /\ Busy(v) => workers'[v].idx = workers[v].idx
    BY <1>2 DEF Busy
  <1>4. \A k : Held(k)' <=> Held(k)
    BY <1>3, SameHeld
  <1>5. Types'
    BY <1>1 DEF IInv, Types
  <1>6. \A f \in 1..Files : /\ rows'[f] = "stored" <=> rows[f] = "stored"
                            /\ rows'[f] = "ended" <=> rows[f] = "ended"
    OBVIOUS
  <1>7. here \in Seq(1..Files) /\ main.page \in Seq(1..Files)
    BY DEF IInv, Types, MainStates, RowStates
  <1>8. Ahead'
    <2>1. ASSUME NEW i \in 1..Len(here), i > main.offset
          PROVE  rows'[here[i]] = "pending"
      <3>1. rows[here[i]] = "pending" /\ \A k \in 1..Len(main.page) : main.page[k] # here[i]
        BY <1>1, <2>1 DEF IInv, Ahead
      <3>2. Busy(w) => workers[w].idx \in 1..Len(main.page)
        <4>1. Busy(w) => Held(workers[w].idx) /\ workers[w].idx \in Nat
          BY <1>1 DEF Held, WorkerStates
        <4>2. QED BY <1>1, <4>1 DEF IInv, InHand
      <3>3. here[i] \in 1..Files
        BY <1>7, ElementOfSeq
      <3>4. QED BY <3>1, <3>2, <3>3
    <2>2. QED BY <1>1, <2>1 DEF IInv, Ahead
  <1>9. AtRest'
    BY <1>1 DEF AtRest
  <1>10. InHand'
    <2>1. /\ \A k \in Nat : Held(k)' => k \in 1..Len(main.page) /\ k < next
          /\ \A v, u \in Worker : Busy(v)' /\ Busy(u)' /\ workers'[v].idx = workers'[u].idx => v = u
          /\ \A v \in Worker : Busy(v)' =>
               \A i \in 1..Len(channel) : channel[i].idx # workers'[v].idx
      BY <1>1, <1>3, <1>4 DEF IInv, InHand
    <2>2. ASSUME NEW k \in 1..Len(main.page), k >= next \/ Held(k)'
          PROVE  rows'[main.page[k]] \notin {"stored", "ended"}
      <3>1. main.page[k] \in 1..Files
        BY <1>7, ElementOfSeq
      <3>2. rows[main.page[k]] \notin {"stored", "ended"}
        BY <1>1, <1>4, <2>2 DEF IInv, InHand
      <3>3. QED BY <1>6, <3>1, <3>2
    <2>3. QED BY <1>1, <2>1, <2>2 DEF IInv, InHand
  <1>11. Counted'
    <2>1. {f \in 1..Files : rows'[f] \in {"stored", "ended"}}
            = {f \in 1..Files : rows[f] \in {"stored", "ended"}}
      BY <1>6
    <2>2. QED BY <1>1, <1>6, <2>1 DEF IInv, Counted
  <1>12. Covered'
    <2>1. SUFFICES ASSUME ~cancelled, ~main.fatal PROVE Covered'
      BY DEF Covered
    <2>2. StoredRows' = StoredRows /\ PageFiles' = PageFiles
      BY <1>6 DEF StoredRows, PageFiles
    <2>3. /\ Cardinality(StoredRows \cup PageFiles) = main.offset
          /\ \A k \in 1..Len(main.page) : k < next => Held(k) \/ rows[main.page[k]] = "stored"
          /\ stop => BadNews
          /\ workers[1].pc = "off" => stop \/ next > Len(main.page)
      BY <1>1, <2>1 DEF IInv, Covered
    <2>4. \A k \in 1..Len(main.page) : k < next => Held(k)' \/ rows'[main.page[k]] = "stored"
      <3>1. \A k \in 1..Len(main.page) : main.page[k] \in 1..Files
        BY <1>7, ElementOfSeq
      <3>2. QED BY <1>4, <1>6, <2>3, <3>1
    <2>5. stop' => BadNews'
      <3>1. BadNews => BadNews'
        BY <1>2 DEF BadNews
      <3>2. Kind = "content" /\ r.pc = "send" /\ ~r.ok => BadNews'
        BY <1>2 DEF BadNews
      <3>3. QED BY <2>3, <3>1, <3>2
    <2>6. workers'[1].pc = "off" => stop' \/ next > Len(main.page)
      <3>1. 1 \in Worker
        BY DEF PoolAssumption, Worker
      <3>2. QED BY <1>2, <2>1, <2>3, <3>1
    <2>7. QED BY <1>1, <2>2, <2>3, <2>4, <2>5, <2>6 DEF Covered
  <1>13. CompletedIsComplete'
    BY <1>1 DEF IInv, Counted, CompletedIsComplete
  <1>14. QED BY <1>5, <1>8, <1>9, <1>10, <1>11, <1>12, <1>13 DEF IInv

LEMMA CheckHolds == ASSUME PoolAssumption, IInv, NEW w \in Worker, Check(w) PROVE IInv'
  <1> DEFINE r == [workers[w] EXCEPT !.pc = IF stop \/ cancelled THEN "off" ELSE "take"]
  <1>1. workers[w] \in WorkerStates /\ stop \in BOOLEAN /\ rows' = rows
        /\ rows \in RowStates
    BY DEF IInv, Types, Check
  <1>2. /\ r \in WorkerStates /\ r.pc \in {"off", "take"}
        /\ r.pc = "off" => stop \/ cancelled
    BY <1>1 DEF WorkerStates
  <1>3. workers' = [workers EXCEPT ![w] = r] /\ workers[w].pc = "top"
        /\ UNCHANGED <<stop, here, batch, main, next, channel, cancelled>>
    BY DEF Check
  <1> HIDE DEF r
  <1>4. ~Busy(w) /\ r.pc \notin {"mark", "work", "send"}
    BY <1>2, <1>3 DEF Busy
  <1>5. QED BY <1>1, <1>2, <1>3, <1>4, WorkerMoves

LEMMA WorkHolds == ASSUME PoolAssumption, IInv, NEW w \in Worker, Work(w) PROVE IInv'
  <1>1. PICK ok \in BOOLEAN : workers' = [workers EXCEPT ![w].pc = "send", ![w].ok = ok]
    BY DEF Work
  <1> DEFINE r == [workers[w] EXCEPT !.pc = "send", !.ok = ok]
  <1>2. workers[w] \in WorkerStates /\ stop \in BOOLEAN /\ rows' = rows
        /\ rows \in RowStates
        /\ workers \in [Worker -> WorkerStates]
    BY DEF IInv, Types, Work
  <1>3. r \in WorkerStates /\ r.pc = "send" /\ r.idx = workers[w].idx
    BY <1>2 DEF WorkerStates
  <1>4. workers' = [workers EXCEPT ![w] = r]
    BY <1>1, <1>2 DEF WorkerStates
  <1>5. workers[w].pc = "work" /\ Busy(w)
        /\ UNCHANGED <<stop, here, batch, main, next, channel, cancelled>>
    BY DEF Work, Busy
  <1> HIDE DEF r
  <1>6. QED BY <1>2, <1>3, <1>4, <1>5, WorkerMoves

\* The candidate that is marked is the worker's own, and pending.
LEMMA MarkHolds == ASSUME PoolAssumption, IInv, NEW w \in Worker, Mark(w) PROVE IInv'
  <1> DEFINE f == main.page[workers[w].idx]
  <1>1. workers[w] \in WorkerStates /\ stop \in BOOLEAN
        /\ rows \in RowStates
        /\ workers \in [Worker -> WorkerStates]
    BY DEF IInv, Types
  <1>2. workers[w].pc = "mark" /\ Busy(w)
        /\ UNCHANGED <<here, batch, main, next, channel, cancelled>>
    BY DEF Mark, Busy
  <1>3. CASE /\ Kind = "content" => rows[f] = "pending"
             /\ rows' = IF Kind = "content" THEN [rows EXCEPT ![f] = "running"] ELSE rows
             /\ workers' = [workers EXCEPT ![w].pc = "work"]
             /\ UNCHANGED stop
    <2> DEFINE r == [workers[w] EXCEPT !.pc = "work"]
    <2>1. r \in WorkerStates /\ r.pc = "work" /\ r.idx = workers[w].idx
          /\ workers' = [workers EXCEPT ![w] = r]
      BY <1>1, <1>3 DEF WorkerStates
    <2>2. /\ rows' \in RowStates
          /\ \A g \in 1..Files : rows'[g] # rows[g] =>
               /\ Busy(w) /\ g = main.page[workers[w].idx]
               /\ rows[g] = "pending" /\ rows'[g] = "running"
      BY <1>1, <1>2, <1>3 DEF RowStates
    <2>3. stop' = stop /\ stop' \in BOOLEAN
      BY <1>1, <1>3
    <2> HIDE DEF r, f
    <2>4. /\ workers[w].pc # "off" /\ workers[w].pc # "send"
          /\ r.pc \in {"mark", "work", "send"} <=> Busy(w)
      BY <1>2, <2>1
    <2>5. QED BY <1>2, <2>1, <2>2, <2>3, <2>4, WorkerMoves
  <1>4. CASE /\ Kind = "content" /\ workers' = [workers EXCEPT ![w].pc = "send", ![w].ok = FALSE]
             /\ stop' = TRUE /\ UNCHANGED rows
    <2> DEFINE r == [workers[w] EXCEPT !.pc = "send", !.ok = FALSE]
    <2>1. r \in WorkerStates /\ r.pc = "send" /\ r.idx = workers[w].idx /\ ~r.ok
          /\ workers' = [workers EXCEPT ![w] = r]
      BY <1>1, <1>4 DEF WorkerStates
    <2> HIDE DEF r
    <2>2. QED BY <1>1, <1>2, <1>4, <2>1, WorkerMoves
  <1>5. QED BY <1>3, <1>4 DEF Mark

\* An index is given to one worker: nobody held it before.
LEMMA TakeHolds == ASSUME PoolAssumption, IInv, NEW w \in Worker, Take(w) PROVE IInv'
  <1>1. /\ workers[w].pc = "take" /\ next' = next + 1 /\ next \in Nat \ {0}
        /\ workers \in [Worker -> WorkerStates] /\ main.pc = "pool"
        /\ UNCHANGED <<rows, here, batch, main, stop, channel, cancelled>>
    BY DEF Take, IInv, Types, AtRest
  <1> DEFINE r == IF next > Len(main.page) THEN Off ELSE [pc |-> "mark", idx |-> next, ok |-> TRUE]
  <1>2. r \in WorkerStates /\ workers' = [workers EXCEPT ![w] = r]
    BY <1>1 DEF Take, WorkerStates, Off
  <1>3. \A v \in Worker : workers'[v] = IF v = w THEN r ELSE workers[v]
    BY <1>1, <1>2
  <1>4. main.page \in Seq(1..Files) /\ Len(main.page) \in Nat
    BY DEF IInv, Types, MainStates, RowStates
  <1>5. /\ \A k \in Nat : Held(k) => k \in 1..Len(main.page) /\ k < next
        /\ ~Busy(w)
    BY <1>1 DEF IInv, InHand, Busy
  <1>6. Types'
    BY <1>1, <1>2 DEF IInv, Types
  <1>7. Ahead' /\ AtRest' /\ Counted' /\ CompletedIsComplete'
    BY <1>1 DEF IInv, Ahead, AtRest, Counted, CompletedIsComplete
  <1>8. CASE next > Len(main.page)
    <2>1. r = Off /\ r.pc = "off"
      BY <1>8 DEF Off
    <2>2. \A v \in Worker : /\ Busy(v)' <=> Busy(v)
                            /\ Busy(v) => workers'[v].idx = workers[v].idx
      BY <1>3, <1>5, <2>1 DEF Busy
    <2>3. \A k : Held(k)' <=> Held(k)
      BY <1>1, <2>2, SameHeld
    <2>4. InHand'
      <3>1. \A k \in Nat : Held(k)' => k \in 1..Len(main.page) /\ k < next + 1
        BY <1>1, <1>5, <2>3
      <3>2. \A k \in 1..Len(main.page) : k >= next + 1 \/ Held(k)' =>
              rows[main.page[k]] \notin {"stored", "ended"}
        BY <1>1, <2>3 DEF IInv, InHand
      <3>3. QED BY SMTT(20), <1>1, <2>2, <3>1, <3>2 DEF IInv, InHand
    <2>5. Covered'
      <3>1. BadNews => BadNews'
        BY <1>1, <1>3 DEF BadNews
      <3>2. \A k \in 1..Len(main.page) : k < next + 1 => k < next
        BY <1>1, <1>4, <1>8
      <3>3. workers'[1].pc = "off" => next + 1 > Len(main.page)
        BY <1>1, <1>4, <1>8
      <3>4. QED BY <1>1, <2>3, <3>1, <3>2, <3>3 DEF IInv, Covered, StoredRows, PageFiles
    <2>6. QED BY <1>6, <1>7, <2>4, <2>5 DEF IInv
  <1>9. CASE ~(next > Len(main.page))
    <2>1. r.pc = "mark" /\ r.idx = next /\ next \in 1..Len(main.page)
      BY <1>1, <1>4, <1>9
    <2>2. /\ Busy(w)' /\ workers'[w].idx = next
          /\ \A v \in Worker : v # w => (Busy(v)' <=> Busy(v)) /\ workers'[v].idx = workers[v].idx
      BY <1>3, <2>1 DEF Busy
    <2>3. \A k : Held(k)' <=> Held(k) \/ k = next
      BY <1>1, <1>5, <2>2 DEF Held
    <2>4. ~Held(next)
      BY <1>1, <1>5
    <2>5. InHand'
      <3>1. \A k \in Nat : Held(k)' => k \in 1..Len(main.page) /\ k < next + 1
        BY <1>1, <1>5, <2>1, <2>3
      <3>2. \A k \in 1..Len(main.page) : k >= next + 1 \/ Held(k)' =>
              rows[main.page[k]] \notin {"stored", "ended"}
        BY <1>1, <2>3 DEF IInv, InHand
      <3>3. \A v \in Worker : Busy(v) => workers[v].idx # next
        BY <2>4 DEF Held
      <3>4. \A i \in 1..Len(channel) : channel[i].idx # next
        BY <2>4 DEF Held
      <3>5. \A u, v \in Worker :
              Busy(u)' /\ Busy(v)' /\ workers'[u].idx = workers'[v].idx => u = v
        BY <1>1, <2>2, <3>3 DEF IInv, InHand
      <3>6. \A v \in Worker : Busy(v)' =>
              \A i \in 1..Len(channel) : channel[i].idx # workers'[v].idx
        BY <1>1, <2>2, <3>4 DEF IInv, InHand
      <3>7. QED BY <1>1, <3>1, <3>2, <3>5, <3>6 DEF IInv, InHand
    <2>6. Covered'
      <3>1. BadNews => BadNews'
        BY <1>1, <1>3 DEF BadNews
      <3>2. \A k \in 1..Len(main.page) : k < next + 1 => k < next \/ k = next
        BY <1>1, <1>4
      <3>3. workers'[1].pc = "off" => workers[1].pc = "off" /\ 1 # w
        <4>1. 1 \in Worker
          BY DEF PoolAssumption, Worker
        <4>2. QED BY <1>3, <2>1, <4>1
      <3>4. workers[1].pc = "off" /\ ~cancelled /\ ~main.fatal => stop
        BY <1>1, <1>9 DEF IInv, Covered
      <3>5. QED BY <1>1, <2>3, <3>1, <3>2, <3>3, <3>4 DEF IInv, Covered, StoredRows, PageFiles
    <2>7. QED BY <1>6, <1>7, <2>5, <2>6 DEF IInv
  <1>10. QED BY <1>8, <1>9

\* The index goes from the worker to the channel.
LEMMA SendHolds == ASSUME PoolAssumption, IInv, NEW w \in Worker, Send(w) PROVE IInv'
  <1> DEFINE L == Len(channel)
             m == [idx |-> workers[w].idx, ok |-> workers[w].ok]
             r == [Off EXCEPT !.pc = "top"]
  <1>1. /\ workers[w].pc = "send" /\ Busy(w) /\ L < ChannelBound /\ channel' = Append(channel, m)
        /\ workers' = [workers EXCEPT ![w] = r] /\ main.pc = "pool"
        /\ UNCHANGED <<rows, here, batch, main, next, stop, cancelled>>
    BY DEF Send, Busy, IInv, AtRest
  <1>2. /\ workers \in [Worker -> WorkerStates] /\ channel \in Seq(Results) /\ L \in Nat
        /\ main.page \in Seq(1..Files) /\ Len(main.page) \in Nat
    BY DEF IInv, Types, MainStates, RowStates
  <1>3. m \in Results /\ r \in WorkerStates /\ r.pc = "top"
    BY <1>2 DEF WorkerStates, Results, Off
  <1>4. \A v \in Worker : workers'[v] = IF v = w THEN r ELSE workers[v]
    BY <1>1, <1>2
  <1>5. /\ channel' \in Seq(Results) /\ Len(channel') = L + 1 /\ channel'[L + 1] = m
        /\ \A i \in 1..L : channel'[i] = channel[i]
    BY <1>1, <1>2, <1>3, AppendProperties
  <1>6. L + 1 <= MaxWorkers + Capacity
    <2>1. /\ MaxWorkers \in Nat /\ Capacity \in Nat /\ WorkerCount \in Nat
          /\ WorkerCount <= MaxWorkers
      BY <1>2 DEF PoolAssumption, WorkerCount
    <2>2. ChannelBound \in Nat /\ ChannelBound <= MaxWorkers + Capacity
      BY <1>2, <2>1 DEF ChannelBound
    <2>3. QED BY <1>1, <1>2, <2>1, <2>2
  <1> HIDE DEF L, m, r
  <1>7. Types'
    BY <1>1, <1>2, <1>3, <1>5, <1>6 DEF IInv, Types
  <1>8. Ahead' /\ AtRest' /\ Counted' /\ CompletedIsComplete'
    BY <1>1 DEF IInv, Ahead, AtRest, Counted, CompletedIsComplete
  <1>9. \A v \in Worker : /\ Busy(v)' <=> Busy(v) /\ v # w
                          /\ v # w => workers'[v].idx = workers[v].idx
    BY <1>3, <1>4 DEF Busy
  <1>10. m.idx = workers[w].idx /\ m.ok = workers[w].ok
    BY DEF m
  <1>11. \A i \in 1..(L + 1) : i \in 1..L \/ i = L + 1
    BY <1>2 DEF L
  <1>12. L + 1 \in 1..(L + 1) /\ \A i \in 1..L : i \in 1..(L + 1)
    BY <1>2 DEF L
  <1>13. \A k : Held(k)' <=> Held(k)
    <2>1. ASSUME NEW k, Held(k) PROVE Held(k)'
      <3>1. CASE \E v \in Worker : Busy(v) /\ workers[v].idx = k
        BY <1>1, <1>5, <1>9, <1>10, <1>12, <3>1 DEF Held
      <3>2. CASE \E i \in 1..Len(channel) : channel[i].idx = k
        BY <1>5, <1>12, <3>2 DEF Held, L
      <3>3. QED BY <2>1, <3>1, <3>2 DEF Held
    <2>2. ASSUME NEW k, Held(k)' PROVE Held(k)
      <3>1. CASE \E v \in Worker : Busy(v)' /\ workers'[v].idx = k
        BY <1>9, <3>1 DEF Held
      <3>2. CASE \E i \in 1..Len(channel') : channel'[i].idx = k
        BY <1>1, <1>5, <1>10, <1>11, <3>2 DEF Held, L
      <3>3. QED BY <2>2, <3>1, <3>2 DEF Held
    <2>3. QED BY <2>1, <2>2
  <1>14. InHand'
    <2>1. /\ Len(main.page) > 0 /\ Distinct(main.page)
          /\ \A k \in Nat : Held(k)' => k \in 1..Len(main.page) /\ k < next
          /\ \A k \in 1..Len(main.page) :
               k >= next \/ Held(k)' => rows[main.page[k]] \notin {"stored", "ended"}
      BY <1>1, <1>13 DEF IInv, InHand
    <2>2. \A u, v \in Worker : Busy(u)' /\ Busy(v)' /\ workers'[u].idx = workers'[v].idx => u = v
      BY <1>1, <1>9 DEF IInv, InHand
    <2>3. ASSUME NEW v \in Worker, Busy(v)', NEW i \in 1..(L + 1)
          PROVE  channel'[i].idx # workers'[v].idx
      <3>1. Busy(v) /\ v # w /\ workers'[v].idx = workers[v].idx
        BY <1>9, <2>3
      <3>2. CASE i \in 1..L
        BY <1>1, <1>5, <3>1, <3>2 DEF IInv, InHand, L
      <3>3. CASE i = L + 1
        BY <1>1, <1>5, <1>10, <3>1, <3>3 DEF IInv, InHand
      <3>4. QED BY <1>11, <3>2, <3>3
    <2>4. ASSUME NEW i \in 1..(L + 1), NEW j \in 1..(L + 1), channel'[i].idx = channel'[j].idx
          PROVE  i = j
      <3>1. \A n \in 1..L : channel'[n].idx # m.idx
        BY <1>1, <1>5, <1>10 DEF IInv, InHand, L
      <3>2. CASE i \in 1..L /\ j \in 1..L
        BY <1>1, <1>5, <2>4, <3>2 DEF IInv, InHand, L
      <3>3. QED BY <1>5, <1>11, <2>4, <3>1, <3>2
    <2>5. QED BY <1>1, <1>5, <2>1, <2>2, <2>3, <2>4 DEF InHand
  <1>15. Covered'
    <2>1. BadNews => BadNews'
      <3>1. ASSUME Kind = "content", NEW v \in Worker, workers[v].pc = "send", ~workers[v].ok
            PROVE  BadNews'
        <4>1. CASE v = w
          BY <1>5, <1>10, <1>12, <3>1, <4>1 DEF BadNews
        <4>2. CASE v # w
          BY <1>4, <3>1, <4>2 DEF BadNews
        <4>3. QED BY <4>1, <4>2
      <3>2. ASSUME Kind = "content", NEW i \in 1..Len(channel), ~channel[i].ok
            PROVE  BadNews'
        BY <1>5, <1>12, <3>2 DEF BadNews, L
      <3>3. QED BY <3>1, <3>2 DEF BadNews
    <2>2. workers'[1].pc = "off" => workers[1].pc = "off"
      <3>1. 1 \in Worker
        BY DEF PoolAssumption, Worker
      <3>2. QED BY <1>3, <1>4, <3>1
    <2>3. QED BY <1>1, <1>13, <2>1, <2>2 DEF IInv, Covered, StoredRows, PageFiles
  <1>16. QED BY <1>7, <1>8, <1>14, <1>15 DEF IInv

-----------------------------------------------------------------------------
(* The thread of the command *)

\* A step of the command that only moves on.
LEMMA MovesOn ==
  ASSUME main \in MainStates, NEW pc \in {"page", "finish", "done", "lost"},
         main' = [main EXCEPT !.pc = pc]
  PROVE  /\ main' \in MainStates /\ main'.pc = pc /\ main'.offset = main.offset
         /\ main'.page = main.page /\ main'.fatal = main.fatal
  BY DEF MainStates

\* A fresh page: what is behind the offset was untouched, so the page adds
\* exactly its length to what is stored.
LEMMA ReadPageHolds == ASSUME PoolAssumption, IInv, ReadPage PROVE IInv'
  <1> DEFINE s == main.offset
             p == PageOf(s)
  <1>1. /\ main.pc = "page" /\ s \in Nat /\ here \in Seq(1..Files)
        /\ rows \in RowStates
        /\ main \in MainStates
        /\ UNCHANGED <<rows, here, batch, cancelled>>
        /\ next' = 1 /\ stop' = FALSE /\ channel' = <<>> /\ p # <<>>
        /\ workers' = [w \in Worker |-> IF w <= Len(p) THEN [Off EXCEPT !.pc = "top"] ELSE Off]
        /\ main' = [main EXCEPT !.pc = "pool", !.page = p, !.offset = s + Len(p)]
    BY DEF ReadPage, IInv, Types, MainStates
  <1>2. /\ p \in Seq(1..Files) /\ Len(p) \in Nat
        /\ s + Len(p) <= Len(here) \/ Len(p) = 0
        /\ \A k \in 1..Len(p) : s + k \in 1..Len(here) /\ p[k] = here[s + k]
    BY <1>1, PageRead
  <1>3. Len(p) > 0
    BY <1>1, <1>2, EmptySeq
  <1>4. main'.pc = "pool" /\ main'.page = p /\ main'.offset = s + Len(p) /\ main'.fatal = main.fatal
    BY <1>1 DEF MainStates
  <1> HIDE DEF p
  <1>5. \A w \in Worker : workers'[w].pc \in {"top", "off"} /\ workers'[w] \in WorkerStates
    BY <1>1 DEF Off, WorkerStates
  <1>6. Types'
    <2>1. channel' \in Seq(Results) /\ Len(channel') = 0
      BY <1>1
    <2>2. workers' \in [Worker -> WorkerStates]
      BY <1>1, <1>5
    <2>3. Len(channel') <= MaxWorkers + Capacity
      BY <2>1 DEF PoolAssumption
    <2>4. main' \in MainStates
      <3>1. s + Len(p) \in Nat /\ p \in Seq(1..Files)
        BY <1>1, <1>2
      <3>2. QED BY <1>1, <3>1 DEF MainStates
    <2>5. next' \in Nat \ {0} /\ stop' \in BOOLEAN
      <3>1. next' = 1 /\ stop' = FALSE
        BY <1>1
      <3>2. next' \in Nat \ {0}
        BY <3>1
      <3>3. stop' \in BOOLEAN
        BY <3>1
      <3>4. QED BY <3>2, <3>3
    <2>6. QED BY <1>1, <2>1, <2>2, <2>3, <2>4, <2>5 DEF IInv, Types
  <1>7. \A i \in 1..Len(here) : i > s => rows[here[i]] = "pending"
    BY <1>1 DEF IInv, Ahead
  <1>8. \A i, j \in 1..Len(here) : here[i] = here[j] => i = j
    BY DEF IInv, Ahead, Distinct
  <1>9. \A k \in 1..Len(p) : rows[p[k]] = "pending" /\ s + k > s /\ s + k <= s + Len(p)
    BY <1>1, <1>2, <1>7
  <1>10. Ahead'
    <2>1. ASSUME NEW i \in 1..Len(here), i > s + Len(p)
          PROVE  rows[here[i]] = "pending" /\ \A k \in 1..Len(p) : p[k] # here[i]
      <3>1. i > s
        BY <1>1, <1>2, <2>1
      <3>2. \A k \in 1..Len(p) : s + k # i
        BY <1>1, <1>2, <2>1
      <3>3. QED BY <1>2, <1>7, <1>8, <3>1, <3>2
    <2>2. QED BY <1>1, <1>4, <2>1 DEF IInv, Ahead
  <1>11. AtRest'
    BY <1>4 DEF AtRest
  <1>12. Distinct(p)
    <2>1. ASSUME NEW i \in 1..Len(p), NEW j \in 1..Len(p), p[i] = p[j] PROVE i = j
      <3>1. s + i = s + j
        BY <1>2, <1>8, <2>1
      <3>2. QED BY <1>1, <1>2, <3>1
    <2>2. QED BY <2>1 DEF Distinct
  <1>13. \A k : ~Held(k)'
    BY <1>1, <1>5 DEF Held, Busy
  <1>14. InHand'
    <2>1. \A w \in Worker : ~Busy(w)'
      BY <1>5 DEF Busy
    <2>2. \A i \in 1..Len(channel') : FALSE
      BY <1>1
    <2>3. \A k \in 1..Len(p) : rows[p[k]] \notin {"stored", "ended"}
      BY <1>9
    <2>4. QED BY <1>1, <1>3, <1>4, <1>12, <1>13, <2>1, <2>2, <2>3 DEF InHand
  <1>15. Counted' /\ CompletedIsComplete'
    BY <1>1, <1>4 DEF IInv, Counted, CompletedIsComplete
  <1>16. Covered'
    <2>1. SUFFICES ASSUME ~cancelled, ~main.fatal PROVE Covered'
      BY <1>1, <1>4 DEF Covered
    <2>2. Cardinality(StoredRows) = s
      BY <1>1, <2>1 DEF IInv, Covered
    <2>3. Cardinality(StoredRows \cup PageFiles') = s + Len(p)
      <3> DEFINE P == {p[k] : k \in 1..Len(p)}
      <3>1. PageFiles' = P
        BY <1>4 DEF PageFiles
      <3>2. Cardinality(P) = Cardinality(1..Len(p)) /\ IsFiniteSet(P)
        BY <1>2, <1>12, DistinctCounts
      <3>3. Cardinality(1..Len(p)) = Len(p)
        BY SMTT(20), <1>2, FS_Interval
      <3>4. StoredRows \cap P = {}
        BY <1>9 DEF StoredRows
      <3>5. StoredRows \in SUBSET (1..Files)
        BY DEF StoredRows
      <3>6. IsFiniteSet(StoredRows)
        BY <3>5, FilesFinite
      <3> HIDE DEF P
      <3>7. Cardinality(StoredRows \cup P) =
              Cardinality(StoredRows) + Cardinality(P) - Cardinality(StoredRows \cap P)
        BY <3>2, <3>6, FS_Union
      <3>8. Cardinality(StoredRows \cap P) = 0
        BY <3>4, FS_EmptySet
      <3>9. QED BY <1>1, <1>2, <2>2, <3>1, <3>2, <3>3, <3>7, <3>8
    <2>4. StoredRows' = StoredRows
      BY <1>1 DEF StoredRows
    <2>5. \A k \in 1..Len(p) : ~(k < next')
      BY <1>1
    <2>6. workers'[1].pc # "off"
      <3>1. 1 \in Worker /\ 1 <= Len(p)
        BY <1>2, <1>3 DEF PoolAssumption, Worker
      <3>2. QED BY <1>1, <3>1 DEF Off
    <2>7. QED BY <1>1, <1>4, <2>3, <2>4, <2>5, <2>6 DEF Covered
  <1>17. QED BY <1>6, <1>10, <1>11, <1>14, <1>15, <1>16 DEF IInv

\* The pool ends with nothing in hand: all of the page is stored, unless
\* something went wrong.
LEMMA EndPoolHolds == ASSUME PoolAssumption, IInv, EndPool PROVE IInv'
  <1> DEFINE pc == IF main.fatal THEN "finish" ELSE "page"
  <1>1. /\ main.pc = "pool" /\ channel = <<>> /\ \A w \in Worker : workers[w].pc = "off"
        /\ main' = [main EXCEPT !.pc = pc]
        /\ UNCHANGED <<rows, here, batch, next, stop, workers, channel, cancelled>>
    BY DEF EndPool
  <1>2. main \in MainStates
    BY DEF IInv, Types, MainStates, RowStates
  <1>3. /\ main' \in MainStates
        /\ main'.pc = pc /\ main'.offset = main.offset /\ main'.fatal = main.fatal
        /\ main'.pc \in {"finish", "page"}
        /\ main'.pc = "finish" => main.fatal
    BY <1>1, <1>2, MovesOn
  <1> HIDE DEF pc
  <1>4. Types' /\ AtRest'
    <2>1. Types'
      BY <1>1, <1>3 DEF IInv, Types
    <2>2. AtRest'
      BY <1>1 DEF AtRest
    <2>3. QED BY <2>1, <2>2
  <1>5. Ahead' /\ InHand'
    <2>1. main'.pc # "pool"
      BY <1>3
    <2>2. Ahead'
      BY <1>1, <1>3, <2>1 DEF IInv, Ahead
    <2>3. InHand'
      BY <2>1 DEF InHand
    <2>4. QED BY <2>2, <2>3
  <1>6. Counted' /\ CompletedIsComplete'
    <2>1. main'.pc # "done" /\ main.pc # "done"
      BY <1>1, <1>3
    <2>2. QED BY <1>1, <2>1 DEF IInv, Counted, CompletedIsComplete
  <1>7. Covered'
    <2>1. SUFFICES ASSUME ~cancelled, ~main.fatal PROVE Cardinality(StoredRows) = main.offset
      BY <1>1, <1>3 DEF Covered, StoredRows
    <2>2. ~stop
      BY <1>1, <2>1 DEF IInv, Covered, BadNews
    <2>3. \A k : ~Held(k)
      BY <1>1 DEF Held, Busy
    <2>4. next > Len(main.page) /\ next \in Nat /\ Len(main.page) \in Nat
      <3>1. 1 \in Worker
        BY DEF PoolAssumption, Worker
      <3>2. next > Len(main.page)
        BY <1>1, <2>1, <2>2, <3>1 DEF IInv, Covered
      <3>3. QED BY <1>2, <3>2 DEF IInv, Types, MainStates
    <2>5. \A k \in 1..Len(main.page) : rows[main.page[k]] = "stored"
      <3>1. \A k \in 1..Len(main.page) : k < next
        BY <2>4
      <3>2. QED BY <1>1, <2>1, <2>3, <3>1 DEF IInv, Covered
    <2>6. PageFiles \subseteq StoredRows
      <3>1. \A k \in 1..Len(main.page) : main.page[k] \in 1..Files
        BY <1>2, ElementOfSeq DEF MainStates
      <3>2. QED BY <2>5, <3>1 DEF PageFiles, StoredRows
    <2>7. StoredRows \cup PageFiles = StoredRows
      BY <2>6
    <2>8. QED BY <1>1, <2>1, <2>7 DEF IInv, Covered
  <1>8. QED BY <1>4, <1>5, <1>6, <1>7 DEF IInv

\* The loop over pages ends: everything is on a page, or the batch failed.
LEMMA EndLoopHolds ==
  ASSUME PoolAssumption, IInv, EndLoop \/ PageFails PROVE IInv'
  <1>1. /\ main.pc = "page" /\ UNCHANGED <<rows, here, batch, next, stop, workers, channel, cancelled>>
        /\ \E pc \in {"finish", "lost"} : main' = [main EXCEPT !.pc = pc]
    BY DEF EndLoop, PageFails
  <1>2. main \in MainStates
    BY DEF IInv, Types, MainStates, RowStates
  <1>3. /\ main' \in MainStates
        /\ main'.pc \in {"finish", "lost"} /\ main'.offset = main.offset /\ main'.fatal = main.fatal
    BY <1>1, <1>2, MovesOn
  <1>4. Types' /\ AtRest'
    BY <1>1, <1>3 DEF IInv, Types, AtRest
  <1>5. Ahead' /\ InHand'
    BY <1>1, <1>3 DEF IInv, Ahead, InHand
  <1>6. Counted' /\ CompletedIsComplete'
    BY <1>1, <1>3 DEF IInv, Counted, CompletedIsComplete
  <1>7. Covered'
    <2>1. main'.pc = "finish" => EndLoop
      BY <1>2 DEF PageFails, MainStates
    <2>2. EndLoop => cancelled \/ Len(here) <= main.offset
      <3>1. here \in Seq(1..Files) /\ main.offset \in Nat
        BY <1>2 DEF IInv, Types, MainStates
      <3>2. QED BY <3>1, PageRead DEF EndLoop
    <2>3. QED BY <1>1, <1>3, <2>1, <2>2 DEF IInv, Covered, StoredRows
  <1>8. QED BY <1>4, <1>5, <1>6, <1>7 DEF IInv

LEMMA CancelHolds == ASSUME PoolAssumption, IInv, Cancel PROVE IInv'
  <1>1. /\ cancelled' = TRUE /\ main.pc # "done"
        /\ UNCHANGED <<rows, here, batch, main, next, stop, workers, channel>>
    BY DEF Cancel
  <1>2. Types' /\ AtRest'
    BY <1>1 DEF IInv, Types, AtRest
  <1>3. Ahead' /\ Covered'
    BY <1>1 DEF IInv, Ahead, Covered
  <1>4. \A k : Held(k)' <=> Held(k)
    BY <1>1 DEF Held, Busy
  <1>5. InHand'
    BY <1>1, <1>4 DEF IInv, InHand, Busy
  <1>6. Counted' /\ CompletedIsComplete'
    BY <1>1 DEF IInv, Counted, CompletedIsComplete
  <1>7. QED BY <1>2, <1>3, <1>5, <1>6 DEF IInv

\* The candidates that stay keep their order, and none moves back over the
\* offset.
LEMMA LeaveHolds == ASSUME PoolAssumption, IInv, Leave PROVE IInv'
  <1>1. PICK i \in DOMAIN here : here' = RemoveAt(here, i)
    BY DEF Leave
  <1>2. /\ main.pc \notin {"done", "lost"}
        /\ UNCHANGED <<rows, batch, main, next, stop, workers, channel, cancelled>>
    BY DEF Leave
  <1>3. /\ here \in Seq(1..Files) /\ Len(here) \in Nat /\ Len(here) <= Files
        /\ main.offset \in Nat /\ Files \in Nat /\ i \in 1..Len(here)
    BY SMTT(20) DEF IInv, Types, MainStates, PoolAssumption
  <1>4. /\ here' \in Seq(1..Files) /\ Len(here') = Len(here) - 1
        /\ \A j \in 1..Len(here') : here'[j] = here[IF j < i THEN j ELSE j + 1]
    BY <1>1, <1>3, Removed
  <1>5. Types'
    <2>1. Len(here') <= Files
      BY <1>3, <1>4
    <2>2. QED BY <1>2, <1>4, <2>1 DEF IInv, Types
  <1>6. Ahead'
    <2>1. \A j \in 1..Len(here') : (IF j < i THEN j ELSE j + 1) \in 1..Len(here)
      BY <1>3, <1>4
    <2>2. Distinct(here')
      <3>1. ASSUME NEW j \in 1..Len(here'), NEW k \in 1..Len(here'), here'[j] = here'[k]
            PROVE  j = k
        <4>1. (IF j < i THEN j ELSE j + 1) = (IF k < i THEN k ELSE k + 1)
          BY SMTT(20), <1>4, <2>1, <3>1 DEF IInv, Ahead, Distinct
        <4>2. QED BY <1>3, <4>1
      <3>2. QED BY <3>1 DEF Distinct
    <2>3. \A j \in 1..Len(here') : j > main.offset =>
            (IF j < i THEN j ELSE j + 1) > main.offset
      BY <1>3
    <2>4. QED BY <1>2, <1>4, <2>1, <2>2, <2>3 DEF IInv, Ahead
  <1>7. AtRest' /\ Counted' /\ CompletedIsComplete'
    BY <1>2 DEF IInv, AtRest, Counted, CompletedIsComplete
  <1>8. \A k : Held(k)' <=> Held(k)
    BY <1>2 DEF Held, Busy
  <1>9. InHand'
    BY <1>2, <1>8 DEF IInv, InHand, Busy
  <1>10. Covered'
    <2>1. Len(here) <= main.offset => Len(here') <= main.offset
      BY <1>3, <1>4
    <2>2. QED BY <1>2, <1>8, <2>1 DEF IInv, Covered, StoredRows, PageFiles, BadNews
  <1>11. QED BY <1>5, <1>6, <1>7, <1>9, <1>10 DEF IInv

\* A result leaves the channel: its index is held by nobody any more, and its
\* row is written once.
LEMMA ReceiveHolds == ASSUME PoolAssumption, IInv, Receive PROVE IInv'
  <1> DEFINE r == Head(channel)
             k == r.idx
             f == main.page[k]
             L == Len(channel)
  <1>1. /\ main.pc = "pool" /\ channel # <<>> /\ channel' = Tail(channel)
        /\ UNCHANGED <<here, next, workers, cancelled>>
        /\ \/ /\ (r.ok \/ (Kind = "semantic" /\ ~cancelled)) /\ ~main.fatal /\ Stored(f)
           \/ Fatal
           \/ main.fatal /\ UNCHANGED <<rows, batch, main, stop>>
           \/ cancelled /\ stop' = TRUE /\ UNCHANGED <<rows, batch, main>>
    BY DEF Receive
  <1>2. /\ channel \in Seq(Results) /\ L \in Nat /\ L <= MaxWorkers + Capacity
        /\ main \in MainStates /\ main.page \in Seq(1..Files) /\ main.offset \in Nat
        /\ rows \in RowStates /\ workers \in [Worker -> WorkerStates]
        /\ here \in Seq(1..Files) /\ next \in Nat
    BY DEF IInv, Types, MainStates
  <1>3. /\ channel' \in Seq(Results) /\ Len(channel') = L - 1 /\ r = channel[1] /\ L > 0
        /\ \A i \in 1..(L - 1) : channel'[i] = channel[i + 1] /\ i + 1 \in 1..L
        /\ 1 \in 1..L /\ r \in Results
    <2>1. L > 0
      BY <1>1, <1>2, EmptySeq
    <2>2. r \in Results /\ r = channel[1]
      BY <1>1, <1>2, <2>1, HeadTailProperties
    <2>3. channel' \in Seq(Results) /\ Len(channel') = L - 1
          /\ \A i \in 1..Len(channel') : channel'[i] = channel[i + 1]
      BY <1>1, <1>2, HeadTailProperties
    <2>4. QED BY <1>2, <2>1, <2>2, <2>3
  <1> HIDE DEF r, L
  <1>4. k \in Nat /\ Held(k)
    BY <1>3 DEF Results, Held, L
  <1>5. k \in 1..Len(main.page) /\ k < next /\ rows[f] \notin {"stored", "ended"}
    BY <1>1, <1>4 DEF IInv, InHand
  <1>6. f \in 1..Files
    BY <1>2, <1>5, ElementOfSeq
  <1>7. \A j : Held(j)' <=> Held(j) /\ j # k
    <2>1. ASSUME NEW j, Held(j)' PROVE Held(j) /\ j # k
      <3>1. CASE \E w \in Worker : Busy(w)' /\ workers'[w].idx = j
        <4>1. PICK w \in Worker : Busy(w) /\ workers[w].idx = j
          BY <1>1, <3>1 DEF Busy
        <4>2. channel[1].idx # j
          BY <1>1, <1>3, <4>1 DEF IInv, InHand, L
        <4>3. QED BY <1>3, <4>1, <4>2 DEF Held
      <3>2. CASE \E i \in 1..Len(channel') : channel'[i].idx = j
        <4>1. PICK i \in 1..(L - 1) : channel'[i].idx = j
          BY <1>3, <3>2
        <4>2. channel[i + 1].idx = j /\ i + 1 \in 1..L /\ i + 1 # 1
          BY <1>2, <1>3, <4>1
        <4>3. channel[i + 1].idx # channel[1].idx
          BY <1>1, <1>3, <4>2 DEF IInv, InHand, L
        <4>4. QED BY <1>3, <4>2, <4>3 DEF Held, L
      <3>3. QED BY <2>1, <3>1, <3>2 DEF Held
    <2>2. ASSUME NEW j, Held(j), j # k PROVE Held(j)'
      <3>1. CASE \E w \in Worker : Busy(w) /\ workers[w].idx = j
        BY <1>1, <3>1 DEF Held, Busy
      <3>2. CASE \E i \in 1..Len(channel) : channel[i].idx = j
        <4>1. PICK i \in 1..L : channel[i].idx = j
          BY <3>2 DEF L
        <4>2. i - 1 \in 1..(L - 1) /\ (i - 1) + 1 = i
          <5>1. i # 1
            BY <1>3, <2>2, <4>1
          <5>2. QED BY <1>2, <5>1
        <4>3. channel'[i - 1].idx = j
          BY <1>3, <4>1, <4>2
        <4>4. QED BY <1>3, <4>2, <4>3 DEF Held
      <3>3. QED BY <2>2, <3>1, <3>2 DEF Held
    <2>3. QED BY <2>1, <2>2
  <1>8. /\ rows' = rows \/ rows' = [rows EXCEPT ![f] = "stored"]
        /\ rows' \in RowStates
        /\ \A g \in 1..Files : g # f => rows'[g] = rows[g]
    <2>1. rows' = rows \/ rows' = [rows EXCEPT ![f] = "stored"]
      BY <1>1 DEF Stored, Fatal
    <2>2. QED BY <1>2, <1>6, <2>1 DEF RowStates
  <1>9. /\ main' \in MainStates /\ main'.pc = "pool" /\ main'.offset = main.offset
        /\ main'.page = main.page /\ stop' \in BOOLEAN
        /\ main.fatal => main'.fatal
    <2>1. main' = main \/ main' = [main EXCEPT !.fatal = TRUE]
      BY <1>1 DEF Stored, Fatal
    <2>2. stop' = TRUE \/ stop' = stop
      BY <1>1 DEF Stored, Fatal
    <2>3. stop' \in BOOLEAN
      BY <2>2 DEF IInv, Types
    <2>4. /\ main' \in MainStates /\ main'.pc = "pool" /\ main'.offset = main.offset
          /\ main'.page = main.page
      BY <1>1, <1>2, <2>1 DEF MainStates
    <2>5. main.fatal => main'.fatal
      BY <1>2, <2>1 DEF MainStates
    <2>6. QED BY <2>3, <2>4, <2>5
  <1>10. \/ Stored(f) /\ batch' = [batch EXCEPT !.completed = @ + 1]
         \/ ~Stored(f) /\ UNCHANGED <<rows, batch>>
    BY <1>1 DEF Stored, Fatal
  <1>11. batch \in [status : {"running", "completed", "failed", "cancelled"},
                    completed : Nat, queued : {Files}]
    BY DEF IInv, Types
  <1>12. /\ batch' \in [status : {"running", "completed", "failed", "cancelled"},
                         completed : Nat, queued : {Files}]
         /\ batch'.status = batch.status
    BY <1>10, <1>11
  <1>13. Types'
    <2>1. Len(channel') <= MaxWorkers + Capacity
      <3>1. MaxWorkers \in Nat /\ Capacity \in Nat
        BY DEF PoolAssumption
      <3>2. QED BY <1>2, <1>3, <3>1
    <2>2. QED BY <1>1, <1>3, <1>8, <1>9, <1>12, <2>1 DEF IInv, Types
  <1>14. Ahead'
    <2>1. ASSUME NEW i \in 1..Len(here), i > main.offset
          PROVE  rows'[here[i]] = "pending" /\ \A j \in 1..Len(main.page) : main.page[j] # here[i]
      <3>1. rows[here[i]] = "pending" /\ \A j \in 1..Len(main.page) : main.page[j] # here[i]
        BY <1>1, <2>1 DEF IInv, Ahead
      <3>2. here[i] \in 1..Files /\ here[i] # f
        BY <1>2, <1>5, <3>1, ElementOfSeq
      <3>3. QED BY <1>8, <3>1, <3>2
    <2>2. QED BY <1>1, <1>9, <2>1 DEF IInv, Ahead
  <1>15. AtRest'
    BY <1>9 DEF AtRest
  <1>16. InHand'
    <2>1. \A j \in Nat : Held(j)' => j \in 1..Len(main.page) /\ j < next
      BY <1>1, <1>7 DEF IInv, InHand
    <2>2. \A v, w \in Worker :
            Busy(v)' /\ Busy(w)' /\ workers'[v].idx = workers'[w].idx => v = w
      BY <1>1 DEF IInv, InHand, Busy
    <2>3. ASSUME NEW w \in Worker, Busy(w)', NEW i \in 1..(L - 1)
          PROVE  channel'[i].idx # workers'[w].idx
      <3>1. Busy(w) /\ workers'[w].idx = workers[w].idx
        BY <1>1, <2>3 DEF Busy
      <3>2. channel[i + 1].idx # workers[w].idx
        BY <1>1, <1>3, <3>1 DEF IInv, InHand, L
      <3>3. QED BY <1>3, <3>1, <3>2
    <2>4. ASSUME NEW i \in 1..(L - 1), NEW j \in 1..(L - 1), channel'[i].idx = channel'[j].idx
          PROVE  i = j
      <3>1. i + 1 = j + 1
        BY <1>1, <1>3, <2>4 DEF IInv, InHand, L
      <3>2. QED BY <1>2, <3>1
    <2>5. ASSUME NEW j \in 1..Len(main.page), j >= next \/ Held(j)'
          PROVE  rows'[main.page[j]] \notin {"stored", "ended"}
      <3>1. j # k
        BY <1>2, <1>4, <1>5, <1>7, <2>5
      <3>2. rows[main.page[j]] \notin {"stored", "ended"}
        BY <1>1, <1>7, <2>5 DEF IInv, InHand
      <3>3. main.page[j] \in 1..Files /\ main.page[j] # f
        BY <1>1, <1>2, <1>5, <3>1, ElementOfSeq DEF IInv, InHand, Distinct
      <3>4. QED BY <1>8, <3>2, <3>3
    <2>6. Len(main.page) > 0 /\ Distinct(main.page)
      BY <1>1 DEF IInv, InHand
    <2>7. QED BY <1>1, <1>3, <1>9, <2>1, <2>2, <2>3, <2>4, <2>5, <2>6 DEF InHand
  <1>17. CASE ~Stored(f)
    <2>1. UNCHANGED <<rows, batch>> /\ ~(~cancelled' /\ ~main'.fatal)
      <3>1. CASE Fatal
        BY <1>1, <1>2, <3>1 DEF Fatal, MainStates
      <3>2. CASE ~Fatal
        BY <1>1, <1>9, <1>17, <3>2
      <3>3. QED BY <3>1, <3>2
    <2>2. Covered'
      BY <2>1 DEF Covered
    <2>3. Counted' /\ CompletedIsComplete'
      BY <1>1, <1>9, <2>1 DEF IInv, Counted, CompletedIsComplete
    <2>4. QED BY <1>13, <1>14, <1>15, <1>16, <2>2, <2>3 DEF IInv
  <1>18. CASE Stored(f)
    <2>1. /\ rows' = [rows EXCEPT ![f] = "stored"] /\ batch' = [batch EXCEPT !.completed = @ + 1]
          /\ rows'[f] = "stored" /\ main' = main /\ stop' = stop
      BY <1>2, <1>6, <1>18 DEF Stored, RowStates
    <2>2. Counted'
      <3> DEFINE A == {g \in 1..Files : rows[g] \in {"stored", "ended"}}
                 B == {g \in 1..Files : rows'[g] \in {"stored", "ended"}}
      <3>1. B = A \cup {f} /\ f \notin A
        BY <1>5, <1>6, <1>8, <2>1
      <3>2. A \in SUBSET (1..Files)
        OBVIOUS
      <3>3. IsFiniteSet(A) /\ Cardinality(A) \in Nat
        BY <3>2, FilesFinite
      <3>4. Cardinality(B) = Cardinality(A) + 1
        <4> HIDE DEF A, B
        <4>1. QED BY <3>1, <3>3, FS_AddElement
      <3>5. batch.completed = Cardinality(A)
        BY DEF IInv, Counted
      <3>6. batch'.completed = Cardinality(B)
        BY <1>11, <2>1, <3>4, <3>5
      <3>7. batch'.status = "running" /\ \A g \in 1..Files : rows'[g] # "ended"
        BY <1>1, <1>8, <1>12, <2>1 DEF IInv, Counted
      <3>8. QED BY <1>9, <3>6, <3>7 DEF Counted
    <2>3. CompletedIsComplete'
      BY <1>1, <1>12 DEF IInv, Counted, CompletedIsComplete
    <2>4. Covered'
      <3>1. SUFFICES ASSUME ~cancelled, ~main.fatal PROVE Covered'
        BY <1>1, <2>1 DEF Covered
      <3>2. /\ Cardinality(StoredRows \cup PageFiles) = main.offset
            /\ \A j \in 1..Len(main.page) : j < next => Held(j) \/ rows[main.page[j]] = "stored"
            /\ stop => BadNews
            /\ workers[1].pc = "off" => stop \/ next > Len(main.page)
        BY <1>1, <3>1 DEF IInv, Covered
      <3>3. StoredRows' = StoredRows \cup {f}
        BY <1>6, <1>8, <2>1 DEF StoredRows
      <3>4. f \in PageFiles /\ PageFiles' = PageFiles
        BY <1>5, <2>1 DEF PageFiles
      <3>5. StoredRows' \cup PageFiles' = StoredRows \cup PageFiles
        BY <3>3, <3>4
      <3>6. ASSUME NEW j \in 1..Len(main.page), j < next
            PROVE  Held(j)' \/ rows'[main.page[j]] = "stored"
        <4>1. main.page[j] \in 1..Files
          BY <1>2, ElementOfSeq
        <4>2. QED BY <1>7, <1>8, <2>1, <3>2, <3>6, <4>1
      <3>7. BadNews => BadNews'
        <4>1. ASSUME Kind = "content", NEW i \in 1..Len(channel), ~channel[i].ok PROVE BadNews'
          <5>1. r.ok
            <6>1. r.ok \/ Kind = "semantic"
              BY <1>1, <1>5, <2>1 DEF Fatal, Stored
            <6>2. QED BY <4>1, <6>1
          <5>2. i - 1 \in 1..(L - 1) /\ (i - 1) + 1 = i
            <6>1. i # 1
              BY <1>3, <4>1, <5>1
            <6>2. QED BY <1>2, <6>1 DEF L
          <5>3. ~channel'[i - 1].ok
            BY <1>3, <4>1, <5>2
          <5>4. QED BY <1>3, <4>1, <5>2, <5>3 DEF BadNews
        <4>2. QED BY <1>1, <4>1 DEF BadNews
      <3>8. QED BY <1>1, <1>9, <2>1, <3>2, <3>5, <3>6, <3>7 DEF Covered
    <2>5. QED BY <1>13, <1>14, <1>15, <1>16, <2>2, <2>3, <2>4 DEF IInv
  <1>19. QED BY <1>17, <1>18

\* What is not stored when the loop has seen every candidate that is there.
LEMMA MissedFew ==
  ASSUME PoolAssumption, Types, Distinct(here),
         Cardinality(StoredRows) = main.offset, Len(here) <= main.offset
  PROVE  Cardinality({i \in DOMAIN here : rows[here[i]] # "stored"}) <= Files - Len(here)
  <1> DEFINE I == {i \in DOMAIN here : rows[here[i]] # "stored"}
             M == {here[i] : i \in I}
  <1>1. here \in Seq(1..Files) /\ Len(here) \in Nat /\ Files \in Nat /\ main.offset \in Nat
    BY DEF Types, MainStates, PoolAssumption
  <1>2. I \in SUBSET (1..Len(here))
    BY <1>1
  <1>3. Cardinality(M) = Cardinality(I)
    BY <1>1, <1>2, DistinctCounts
  <1>4. StoredRows \in SUBSET (1..Files) /\ M \in SUBSET ((1..Files) \ StoredRows)
    <2>1. \A i \in I : here[i] \in 1..Files
      BY <1>1, <1>2, ElementOfSeq
    <2>2. QED BY <2>1 DEF StoredRows
  <1> HIDE DEF I, M
  <1>5. IsFiniteSet(1..Files) /\ Cardinality(1..Files) = Files
    BY <1>1, FS_Interval
  <1>6. /\ IsFiniteSet((1..Files) \ StoredRows)
        /\ Cardinality((1..Files) \ StoredRows) = Files - main.offset
    <2>1. Cardinality((1..Files) \ StoredRows) =
            Cardinality(1..Files) - Cardinality((1..Files) \cap StoredRows)
      BY <1>5, FS_Difference
    <2>2. (1..Files) \cap StoredRows = StoredRows
      BY <1>4
    <2>3. QED BY <1>5, <2>1, <2>2, FS_Difference
  <1>7. Cardinality(M) <= Files - main.offset
    <2>1. Cardinality(M) <= Cardinality((1..Files) \ StoredRows)
      BY <1>4, <1>6, FS_Subset
    <2>2. QED BY <1>6, <2>1
  <1>8. Cardinality(I) \in Nat
    <2>1. IsFiniteSet(1..Len(here))
      BY <1>1, FS_Interval
    <2>2. IsFiniteSet(I)
      BY <1>2, <2>1, FS_Subset
    <2>3. QED BY <2>2, FS_CardinalityType
  <1>9. Cardinality(I) <= Files - Len(here)
    BY <1>1, <1>3, <1>7, <1>8
  <1>10. QED BY <1>9 DEF I

\* The rows that are left are ended and counted.
LEMMA FinishHolds == ASSUME PoolAssumption, IInv, Finish PROVE IInv'
  <1> DEFINE left == {f \in 1..Files : Kind = "content" /\ rows[f] \in {"pending", "running"}}
             A == {f \in 1..Files : rows[f] \in {"stored", "ended"}}
             B == {f \in 1..Files : rows'[f] \in {"stored", "ended"}}
  <1>1. /\ main.pc = "finish" /\ main' = [main EXCEPT !.pc = "done"]
        /\ rows' = [f \in 1..Files |-> IF f \in left THEN "ended" ELSE rows[f]]
        /\ batch' = [batch EXCEPT !.status = FinalStatus, !.completed = @ + Cardinality(left)]
        /\ UNCHANGED <<here, next, stop, workers, channel, cancelled>>
    BY DEF Finish
  <1>2. /\ main \in MainStates /\ rows \in RowStates
        /\ batch \in [status : {"running", "completed", "failed", "cancelled"},
                      completed : Nat, queued : {Files}]
    BY DEF IInv, Types
  <1>3. /\ main' \in MainStates /\ main'.pc = "done" /\ main'.offset = main.offset
        /\ main'.page = main.page /\ main'.fatal = main.fatal
    BY <1>1, <1>2, MovesOn
  <1>4. rows' \in RowStates /\ \A f \in 1..Files : rows'[f] = "stored" <=> rows[f] = "stored"
    BY <1>1, <1>2 DEF RowStates
  <1>5. IsFiniteSet(left) /\ Cardinality(left) \in Nat
        /\ IsFiniteSet(A) /\ Cardinality(A) \in Nat
    <2>1. left \in SUBSET (1..Files) /\ A \in SUBSET (1..Files)
      OBVIOUS
    <2>2. QED BY <2>1, FilesFinite
  <1>6. /\ batch' \in [status : {"running", "completed", "failed", "cancelled"},
                       completed : Nat, queued : {Files}]
        /\ batch'.status = FinalStatus /\ batch'.completed = batch.completed + Cardinality(left)
    <2> HIDE DEF left
    <2>1. FinalStatus \in {"completed", "failed", "cancelled"}
      BY DEF FinalStatus
    <2>2. batch' = [batch EXCEPT !.status = FinalStatus, !.completed = batch.completed + Cardinality(left)]
      BY <1>1
    <2> HIDE DEF FinalStatus
    <2>3. batch.completed + Cardinality(left) \in Nat
      BY <1>2, <1>5
    <2>4. QED BY <1>2, <2>1, <2>2, <2>3
  <1>7. Types'
    BY <1>1, <1>3, <1>4, <1>6 DEF IInv, Types
  <1>8. Ahead' /\ AtRest' /\ InHand' /\ Covered'
    BY <1>1, <1>3 DEF IInv, Ahead, AtRest, InHand, Covered
  <1>9. Counted'
    <2>1. \A f \in 1..Files : rows[f] # "ended"
      BY <1>1 DEF IInv, Counted
    <2>2. B = A \cup left /\ A \cap left = {}
      BY <1>1, <1>2 DEF RowStates
    <2>3. Cardinality(B) = Cardinality(A) + Cardinality(left)
      <3> HIDE DEF A, B, left
      <3>1. Cardinality(A \cup left) = Cardinality(A) + Cardinality(left) - Cardinality(A \cap left)
        BY <1>5, FS_Union
      <3>2. Cardinality(A \cap left) = 0
        BY <2>2, FS_EmptySet
      <3>3. QED BY <1>5, <2>2, <3>1, <3>2
    <2>4. batch.completed = Cardinality(A)
      BY DEF IInv, Counted
    <2>5. batch'.completed = Cardinality(B)
      BY <1>6, <2>3, <2>4
    <2>6. Kind = "content" => \A f \in 1..Files : rows'[f] \in {"stored", "ended"}
      BY <1>1, <1>2 DEF RowStates
    <2>7. QED BY <1>3, <2>5, <2>6 DEF Counted
  <1>10. CompletedIsComplete'
    <2>1. SUFFICES ASSUME batch'.status = "completed"
                   PROVE  Cardinality({i \in DOMAIN here : rows'[here[i]] # "stored"})
                            <= Files - Len(here)
      BY <1>1 DEF CompletedIsComplete
    <2>2. ~cancelled /\ ~main.fatal
      BY <1>6, <2>1 DEF FinalStatus
    <2>3. Cardinality(StoredRows) = main.offset /\ Len(here) <= main.offset
      BY <1>1, <2>2 DEF IInv, Covered
    <2>4. Cardinality({i \in DOMAIN here : rows[here[i]] # "stored"}) <= Files - Len(here)
      BY <2>3, MissedFew DEF IInv, Ahead
    <2>5. {i \in DOMAIN here : rows'[here[i]] # "stored"} = {i \in DOMAIN here : rows[here[i]] # "stored"}
      <3>1. \A i \in DOMAIN here : here[i] \in 1..Files
        <4>1. here \in Seq(1..Files) /\ DOMAIN here = 1..Len(here)
          BY DEF IInv, Types
        <4>2. QED BY <4>1, ElementOfSeq
      <3>2. QED BY <1>4, <3>1
    <2>6. QED BY <2>4, <2>5
  <1>11. QED BY <1>7, <1>8, <1>9, <1>10 DEF IInv

-----------------------------------------------------------------------------
(* The theorems *)

LEMMA InitHolds == ASSUME PoolAssumption, Init PROVE IInv
  <1>1. Files \in Nat /\ MaxWorkers \in Nat /\ Capacity \in Nat
    BY DEF PoolAssumption
  <1>2. /\ here = [f \in 1..Files |-> f] /\ here \in Seq(1..Files) /\ Len(here) = Files
        /\ \A i \in 1..Files : here[i] = i
    BY <1>1 DEF Init
  <1>3. channel = <<>> /\ channel \in Seq(Results) /\ Len(channel) = 0
    BY DEF Init
  <1>4. main \in MainStates /\ main.pc = "page" /\ main.offset = 0
    BY DEF Init, MainStates
  <1>5. rows \in RowStates /\ \A f \in 1..Files : rows[f] = "pending"
    BY DEF Init, RowStates
  <1>6. workers \in [Worker -> WorkerStates] /\ \A w \in Worker : workers[w].pc = "off"
    BY DEF Init, WorkerStates, Off
  <1>7. Types
    <2>1. /\ batch \in [status : {"running", "completed", "failed", "cancelled"},
                        completed : Nat, queued : {Files}]
          /\ next \in Nat \ {0}
      BY DEF Init
    <2>2. stop \in BOOLEAN /\ cancelled \in BOOLEAN
      BY DEF Init
    <2>3. Len(here) <= Files /\ Len(channel) <= MaxWorkers + Capacity
      BY <1>1, <1>2, <1>3
    <2>4. QED BY <1>2, <1>3, <1>4, <1>5, <1>6, <2>1, <2>2, <2>3 DEF Types
  <1>8. Ahead /\ AtRest /\ InHand
    BY <1>2, <1>3, <1>4, <1>5, <1>6 DEF Ahead, AtRest, InHand, Distinct
  <1>9. StoredRows = {} /\ {f \in 1..Files : rows[f] \in {"stored", "ended"}} = {}
    BY <1>5 DEF StoredRows
  <1>10. batch.status = "running" /\ batch.completed = 0
    BY DEF Init
  <1>11. Counted /\ Covered /\ CompletedIsComplete
    BY <1>4, <1>5, <1>9, <1>10, FS_EmptySet DEF Counted, Covered, CompletedIsComplete
  <1>12. QED BY <1>7, <1>8, <1>11 DEF IInv

LEMMA StepHolds == ASSUME PoolAssumption, IInv, [Next]_vars PROVE IInv'
  <1>1. CASE UNCHANGED vars
    <2>1. \A k : Held(k)' <=> Held(k)
      BY <1>1 DEF vars, Held, Busy
    <2>2. InHand'
      BY <1>1, <2>1 DEF vars, IInv, InHand, Busy
    <2>3. Covered'
      BY <1>1, <2>1 DEF vars, IInv, Covered, StoredRows, PageFiles, BadNews
    <2>4. QED BY <1>1, <2>2, <2>3
            DEF vars, IInv, Types, Ahead, AtRest, Counted, CompletedIsComplete
  <1>2. CASE Next
    <2>1. CASE \E w \in Worker : WorkerStep(w)
      BY <2>1, CheckHolds, TakeHolds, MarkHolds, WorkHolds, SendHolds DEF WorkerStep
    <2>2. CASE MainStep
      BY <2>2, EndLoopHolds, ReadPageHolds, ReceiveHolds, EndPoolHolds, FinishHolds DEF MainStep
    <2>3. QED BY <1>2, <2>1, <2>2, CancelHolds, LeaveHolds DEF Next
  <1>3. QED BY <1>1, <1>2

LEMMA Holds == PoolAssumption /\ Spec => []IInv
  <1> DEFINE Inv == PoolAssumption /\ IInv
  <1>1. PoolAssumption /\ Init => Inv
    BY InitHolds
  <1>2. Inv /\ [Next]_vars => Inv'
    BY StepHolds DEF PoolAssumption
  <1>3. QED BY <1>1, <1>2, PTL DEF Spec

\* The channel stays within its bound and the count within the candidates.
THEOREM TypeCorrect == PoolAssumption /\ Spec => []TypeOK
  <1>1. PoolAssumption /\ IInv => TypeOK
    <2>1. ASSUME PoolAssumption, IInv PROVE batch.completed \in 0..Files
      <3> DEFINE A == {f \in 1..Files : rows[f] \in {"stored", "ended"}}
      <3>1. A \in SUBSET (1..Files)
        OBVIOUS
      <3>2. Cardinality(A) \in Nat /\ Cardinality(A) <= Files
        BY <2>1, <3>1, FilesFinite
      <3>3. batch.completed = Cardinality(A)
        BY <2>1 DEF IInv, Counted
      <3> HIDE DEF A
      <3>4. Files \in Nat
        BY <2>1 DEF PoolAssumption
      <3>5. QED BY <3>2, <3>3, <3>4
    <2>2. QED BY <2>1 DEF IInv, Types, MainStates, RowStates, TypeOK
  <1>2. PoolAssumption /\ Spec => []PoolAssumption
    <2>1. PoolAssumption /\ [Next]_vars => PoolAssumption'
      BY DEF PoolAssumption
    <2>2. QED BY <2>1, PTL DEF Spec
  <1>3. QED BY <1>1, <1>2, Holds, PTL

\* No two workers handle one candidate, and none handles one that is stored,
\* whatever order workers take indexes, fail and send in (next_index.fetch_add,
\* the bounded channel).
THEOREM OneWorkerEach == PoolAssumption /\ Spec => []OneWorkerPerFile
  <1>1. IInv => OneWorkerPerFile
    <2>1. ASSUME IInv, NEW w \in Worker, Busy(w)
          PROVE  /\ \A v \in Worker \ {w} : Busy(v) => workers[v].idx # workers[w].idx
                 /\ \A i \in DOMAIN channel : channel[i].idx # workers[w].idx
                 /\ rows[main.page[workers[w].idx]] # "stored"
      <3>1. main.pc = "pool" /\ DOMAIN channel = 1..Len(channel) /\ workers[w].idx \in Nat
        BY <2>1 DEF IInv, AtRest, Busy, Types, WorkerStates
      <3>2. Held(workers[w].idx)
        BY <2>1 DEF Held
      <3>3. QED BY <2>1, <3>1, <3>2 DEF IInv, InHand
    <2>2. QED BY <2>1 DEF OneWorkerPerFile, Busy
  <1>2. QED BY <1>1, Holds, PTL

\* The count shown is the number of results in the database, and a finished
\* extraction batch accounts for every file, however it ended
\* (finish_extraction_batch).
THEOREM CountsHold == PoolAssumption /\ Spec => []CountsAreTrue
  <1>1. PoolAssumption /\ IInv => CountsAreTrue
    <2>1. ASSUME PoolAssumption, IInv, batch.status # "running", Kind = "content"
          PROVE  batch.completed = batch.queued
      <3>1. {f \in 1..Files : rows[f] \in {"stored", "ended"}} = 1..Files
        BY <2>1 DEF IInv, Counted
      <3>2. Files \in Nat
        BY <2>1 DEF PoolAssumption
      <3>3. Cardinality(1..Files) = Files
        BY <3>2, FS_Interval
      <3>4. batch.queued = Files /\ batch.completed = Cardinality(1..Files)
        BY <2>1, <3>1 DEF IInv, Types, Counted
      <3>5. QED BY <3>3, <3>4
    <2>2. QED BY <2>1 DEF IInv, Counted, CountsAreTrue
  <1>2. PoolAssumption /\ Spec => []PoolAssumption
    <2>1. PoolAssumption /\ [Next]_vars => PoolAssumption'
      BY DEF PoolAssumption
    <2>2. QED BY <2>1, PTL DEF Spec
  <1>3. QED BY <1>1, <1>2, Holds, PTL

\* A batch called completed has a result of a worker for all candidates but as
\* many as left the set while it ran: no page, worker or message is lost.
THEOREM NothingMissed == PoolAssumption /\ Spec => []CompletedIsComplete
  <1>1. IInv => CompletedIsComplete
    BY DEF IInv
  <1>2. QED BY <1>1, Holds, PTL

=============================================================================
