--------------------------- MODULE PollingMonitor ---------------------------
(***************************************************************************)
(* PollingChangeMonitor, the fallback when the operating system's watcher  *)
(* cannot be attached: each drain takes a snapshot of the root and tells   *)
(* the differences from the previous one.  A snapshot that would exceed    *)
(* the traversal budget is not kept, and a difference of more hints than   *)
(* the hint budget is told as a rescan.                                    *)
(*                                                                         *)
(* A snapshot is taken in one step.  Two files have the same stamp when    *)
(* scope, size, time and read-only flag agree; all directories do.         *)
(***************************************************************************)
EXTENDS ChangeHints

CONSTANTS
  HintBudget,     \* hints per drain (8192 in the code)
  SwellsLater,    \* whether the root may outgrow the traversal budget later
  MaxChanges

VARIABLES
  disk,
  told,           \* what the monitoring cycle last saw
  swollen,        \* the root has more entries than the traversal budget
  running,        \* the monitor is started
  snapshot,       \* the entries of the last snapshot kept, or None
  pendingRescan,
  changes

vars == <<disk, told, swollen, running, snapshot, pendingRescan, changes>>

TypeOK ==
  /\ disk \in Trees /\ told \in Trees
  /\ {swollen, running, pendingRescan} \subseteq BOOLEAN
  /\ snapshot = None \/ snapshot \in Trees
  /\ pendingRescan => snapshot = None
  /\ changes \in 0..MaxChanges

Init ==
  /\ disk \in {t \in Trees : t["d"] = "dir" /\ t["e"] = "absent"}
  /\ told = disk
  /\ swollen \in BOOLEAN
  /\ running = FALSE /\ snapshot = None /\ pendingRescan = FALSE
  /\ changes = 0

(***************************************************************************)
(* The disk.                                                               *)
(***************************************************************************)
Edit ==
  /\ changes < MaxChanges
  /\ changes' = changes + 1
  /\ UNCHANGED <<told, running, snapshot, pendingRescan>>

Put(p, s) ==
  /\ disk[p] # s
  /\ LET tree == [q \in Paths |->
            IF q = p THEN s
            ELSE IF q \in Children /\ p \in Tops /\ q = Below(p) THEN "absent" ELSE disk[q]]
     IN tree \in Trees /\ disk' = tree
  /\ UNCHANGED swollen

Rename(p, q) ==
  /\ p # q /\ disk[p] # "absent" /\ disk[q] = "absent"
  /\ disk' = [disk EXCEPT ![p] = "absent", ![q] = disk[p],
                          ![Below(p)] = "absent", ![Below(q)] = disk[Below(p)]]
  /\ UNCHANGED swollen

Swell == /\ SwellsLater \/ swollen
         /\ swollen' = ~swollen
         /\ UNCHANGED disk

Change == /\ Edit
          /\ \/ \E p \in Paths, s \in Stamps : Put(p, s)
             \/ \E p, q \in Tops : Rename(p, q)
             \/ Swell

(***************************************************************************)
(* diff_snapshots                                                          *)
(***************************************************************************)
Scope(s) == IF s = "dir" THEN "directory" ELSE "file"

Appeared(prev, cur) == {p \in Paths : prev[p] = "absent" /\ cur[p] # "absent"}
Vanished(prev, cur) == {p \in Paths : prev[p] # "absent" /\ cur[p] = "absent"}

\* A rename is guessed when exactly one path vanished and exactly one appeared
\* with the stamp.
Pairs(prev, cur) ==
  {pair \in Vanished(prev, cur) \X Appeared(prev, cur) :
     LET s == prev[pair[1]]
     IN /\ cur[pair[2]] = s
        /\ Cardinality({p \in Vanished(prev, cur) : prev[p] = s}) = 1
        /\ Cardinality({p \in Appeared(prev, cur) : cur[p] = s}) = 1}

MoveHints(prev, cur) ==
  {Hint("moved", pair[1], pair[2], Scope(prev[pair[1]]), None) : pair \in Pairs(prev, cur)}

CreateHints(prev, cur) ==
  {Hint("created", None, p, Scope(cur[p]), None) :
     p \in Appeared(prev, cur) \ {pair[2] : pair \in Pairs(prev, cur)}}

RemoveHints(prev, cur) ==
  {Hint("removed", p, None, Scope(prev[p]), None) :
     p \in Vanished(prev, cur) \ {pair[1] : pair \in Pairs(prev, cur)}}

\* As it would be if only files were compared when the path existed before.
FilesOnly(prev, cur) ==
  {p \in Paths : IsFile(prev[p]) /\ IsFile(cur[p]) /\ prev[p] # cur[p]}

Altered(prev, cur) ==
  {p \in Paths : prev[p] # "absent" /\ cur[p] # "absent" /\ prev[p] # cur[p]}

AlterHints(prev, cur) ==
  {IF Scope(prev[p]) = Scope(cur[p])
   THEN Hint("modified", None, p, Scope(cur[p]), None)
   ELSE Hint("rescan", p, p, "unknown", None) : p \in Altered(prev, cur)}

\* As it would be if hints beyond the budget were dropped.
DropAll(hints) == {}

BeyondBudget(hints) == {RescanHint}

DiffSnapshots(prev, cur) ==
  LET hints == MoveHints(prev, cur) \cup CreateHints(prev, cur)
               \cup RemoveHints(prev, cur) \cup AlterHints(prev, cur)
  IN IF Cardinality(hints) > HintBudget THEN BeyondBudget(hints)
     ELSE CoalesceHints(SetToSeq(hints))

(***************************************************************************)
(* The monitor.                                                            *)
(***************************************************************************)
Hear(hints) ==
  told' = [p \in Paths |-> IF \E h \in hints : Covers(h, p) THEN disk[p] ELSE told[p]]

\* The entries of the root, unless they exceed the traversal budget.
Snapshot == IF swollen THEN None ELSE disk

TruncatedAtStart == swollen

\* start, with the reconciliation the service makes when it starts.
Start ==
  /\ ~running
  /\ running' = TRUE
  /\ snapshot' = Snapshot
  /\ pendingRescan' = TruncatedAtStart
  /\ told' = disk
  /\ UNCHANGED <<disk, swollen, changes>>

Stop ==
  /\ running
  /\ running' = FALSE /\ snapshot' = None /\ pendingRescan' = FALSE
  /\ UNCHANGED <<disk, told, swollen, changes>>

\* A rescan owed since the start.
DrainRescan ==
  /\ running /\ pendingRescan
  /\ pendingRescan' = FALSE
  /\ Hear({RescanHint})
  /\ UNCHANGED <<disk, swollen, running, snapshot, changes>>

\* Above the traversal budget: a rescan is told, the old snapshot stays.
DrainTruncated ==
  /\ running /\ ~pendingRescan /\ Snapshot = None
  /\ Hear({RescanHint})
  /\ UNCHANGED <<disk, swollen, running, snapshot, pendingRescan, changes>>

\* The first complete snapshot.
DrainFirst ==
  /\ running /\ ~pendingRescan /\ Snapshot # None /\ snapshot = None
  /\ snapshot' = Snapshot
  /\ Hear({RescanHint})
  /\ UNCHANGED <<disk, swollen, running, pendingRescan, changes>>

DrainDiff ==
  /\ running /\ ~pendingRescan /\ Snapshot # None /\ snapshot # None
  /\ \E hints \in {DiffSnapshots(snapshot, Snapshot)} : Hear(hints)
  /\ snapshot' = Snapshot
  /\ UNCHANGED <<disk, swollen, running, pendingRescan, changes>>

Next == Change \/ Start \/ Stop \/ DrainRescan \/ DrainTruncated \/ DrainFirst \/ DrainDiff

Spec == Init /\ [][Next]_vars

(***************************************************************************)
(* Properties.                                                             *)
(***************************************************************************)
\* While the monitor runs, what the cycle does not know will differ from the
\* snapshot kept when the next one is taken, or a rescan is owed: no change is
\* lost to the guess of renames, to the budgets, or to a snapshot that was not
\* kept (drain_hints_with_cancellation, diff_snapshots).
PollLosesNothing ==
  running => \A p \in Paths :
    told[p] = disk[p] \/ snapshot = None \/ snapshot[p] # disk[p]

PollTellsAllStep == snapshot' # snapshot /\ running' /\ snapshot' # None => told' = snapshot'

\* After a complete poll the cycle knows the root as the snapshot has it: the
\* hints of one difference, with their scopes and after they were reduced,
\* cover every path that changed.
PollTellsAll == [][PollTellsAllStep]_vars
=============================================================================
