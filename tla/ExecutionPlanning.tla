-------------------------- MODULE ExecutionPlanning --------------------------
(***************************************************************************)
(* prepare_execution: from the moves a user approved to the frozen, ordered *)
(* plan, and what the plan does to the folder when it is carried out and    *)
(* rolled back.                                                             *)
(*                                                                          *)
(* Source: crates/application/src/execution.rs; the primitives are those of *)
(* workers/operation-executor/src/lib.rs.                                   *)
(*                                                                          *)
(* A path is a sequence of names; Lower folds the case of a name, and the   *)
(* volume compares folded names, as NTFS and APFS do.  Candidates are       *)
(* numbered in the order of their source paths, the order in which the code *)
(* breaks ties: every placement of the files is an initial state.           *)
(***************************************************************************)
EXTENDS Naturals, FiniteSets, Sequences, SequencesExt, TLC

CONSTANTS
  N,              \* number of candidates
  Paths,          \* where a file is or may be sent
  Lower,          \* the names with another case, and their folded form
  AllowCaseOnly,  \* policy: allow_qualified_case_only_rename
  AllowSubset     \* policy: allow_independent_safe_subset

Files == 1..N

\* What is assumed of the parameters.
PlanningAssumption ==
  /\ N \in Nat \ {0} /\ AllowCaseOnly \in BOOLEAN /\ AllowSubset \in BOOLEAN

VARIABLES
  source, dest,   \* the candidates
  at, dirs,       \* the folder: where each file is, and its directories
  phase, blocked, deps, sources, k, remaining, order, cyclic, plan,
  step            \* operations of the plan carried out

vars == <<source, dest, at, dirs, phase, blocked, deps, sources, k, remaining, order, cyclic, plan, step>>
request == <<source, dest>>
folder == <<at, dirs>>

-----------------------------------------------------------------------------
(* Paths and the folder.                                                   *)

Fold(n) == IF n \in DOMAIN Lower THEN Lower[n] ELSE n
PathKey(p) == [i \in DOMAIN p |-> Fold(p[i])]
Ancestors(p) == {SubSeq(p, 1, i) : i \in 1..(Len(p) - 1)}
Staging(f) == <<".supremacy-staging", ToString(f)>>

FileAt(p) == \E f \in Files : PathKey(at[f]) = PathKey(p)
DirAt(p) == \E d \in dirs : PathKey(d) = PathKey(p)
Exists(p) == FileAt(p) \/ DirAt(p)
ParentExists(p) == \A a \in Ancestors(p) : DirAt(a)
IsEmpty(d) ==
  \A p \in {at[f] : f \in Files} \cup dirs :
    PathKey(d) \notin {PathKey(a) : a \in Ancestors(p)}

\* path_key(source) = path_key(destination), and the strings differ.
CaseOnly(f) == source[f] # dest[f] /\ PathKey(source[f]) = PathKey(dest[f])

-----------------------------------------------------------------------------
(* The folder a proposal is made for.  preflight_candidate blocks what has *)
(* changed, needs review, has no effect or is an unqualified change of     *)
(* case.                                                                   *)

Placements ==
  {p \in [Files -> Paths] : \A f, g \in Files : f # g => PathKey(p[f]) # PathKey(p[g])}

Preflight(refused) ==
  refused \cup {f \in Files : source[f] = dest[f] \/ (CaseOnly(f) /\ ~AllowCaseOnly)}

Init ==
  /\ source \in Placements /\ dest \in [Files -> Paths]
  /\ at = source /\ dirs = UNION {Ancestors(source[f]) : f \in Files}
  /\ \E refused \in SUBSET Files : blocked = Preflight(refused)
  /\ phase = "collide" /\ deps = [f \in Files |-> {}] /\ sources = {} /\ k = 1
  /\ remaining = {} /\ order = <<>> /\ cyclic = <<>> /\ plan = <<>> /\ step = 0

\* detect_plan_collisions, then the sources the next phase looks up.
DetectCollisions ==
  /\ phase = "collide"
  /\ LET clash == {f \in Files \ blocked :
                     \E g \in Files \ blocked : f # g /\ PathKey(dest[f]) = PathKey(dest[g])}
     IN  blocked' = blocked \cup clash /\ sources' = Files \ (blocked \cup clash)
  /\ phase' = "resolve"
  /\ UNCHANGED <<request, folder, deps, k, remaining, order, cyclic, plan, step>>

\* The candidate whose source is at this path.
Occupants(p) == {f \in sources : PathKey(source[f]) = PathKey(p)}

\* resolve_destination_dependencies for one candidate: its destination is free,
\* or vacated by an operation of this plan.
Blocks(f) ==
  IF Exists(dest[f])
  THEN \/ Occupants(dest[f]) = {}
       \/ \E o \in Occupants(dest[f]) :
            IF o = f THEN ~(AllowCaseOnly /\ CaseOnly(f)) ELSE o \in blocked
  ELSE \E a \in Ancestors(dest[f]) : FileAt(a)

ResolveDestination ==
  /\ phase = "resolve" /\ k <= N
  /\ IF k \in blocked THEN UNCHANGED <<blocked, deps>>
     ELSE IF Blocks(k) THEN blocked' = blocked \cup {k} /\ UNCHANGED deps
     ELSE /\ deps' = [deps EXCEPT ![k] = IF Exists(dest[k]) THEN Occupants(dest[k]) \ {k} ELSE {}]
          /\ UNCHANGED blocked
  /\ k' = k + 1
  /\ UNCHANGED <<request, folder, phase, sources, remaining, order, cyclic, plan, step>>

\* propagate_dependency_blocks, one round; then dependency_order starts, or the
\* request is refused.
PropagateBlocks ==
  /\ phase = "resolve" /\ k > N
  /\ LET more == {f \in Files \ blocked : deps[f] \cap blocked # {}}
     IN  IF more # {}
         THEN blocked' = blocked \cup more /\ UNCHANGED <<phase, remaining>>
         ELSE /\ phase' = IF blocked = Files \/ (blocked # {} /\ ~AllowSubset) THEN "refused" ELSE "order"
              /\ remaining' = Files \ blocked
              /\ UNCHANGED blocked
  /\ UNCHANGED <<request, folder, deps, sources, k, order, cyclic, plan, step>>

\* A mutant: what is next does not depend on what remains.
FreeIgnoringDeps == remaining

Free == {f \in remaining : deps[f] \cap remaining = {}}
First(S) == CHOOSE f \in S : \A g \in S : f <= g

\* dependency_order, one pick; what is left when nothing is free are cycles.
OrderNext ==
  /\ phase = "order" /\ Free # {}
  /\ order' = Append(order, First(Free)) /\ remaining' = remaining \ {First(Free)}
  /\ UNCHANGED <<request, folder, phase, blocked, deps, sources, k, cyclic, plan, step>>

OrderEnds ==
  /\ phase = "order" /\ Free = {}
  /\ cyclic' = SetToSortSeq(remaining, <) /\ phase' = "freeze"
  /\ UNCHANGED <<request, folder, blocked, deps, sources, k, remaining, order, plan, step>>

-----------------------------------------------------------------------------
(* The operations of the plan.                                             *)

Move(kind, f, from, to, needs) == [kind |-> kind, file |-> f, from |-> from, to |-> to, needs |-> needs]

Stage(f) == Move("stage", f, source[f], Staging(f), {})

\* A mutant: the folded key is taken for the path.
StagedByKey(f, needs) == Move("move", f, Staging(f), PathKey(dest[f]), needs)

Staged(f, needs) == Move("move", f, Staging(f), dest[f], needs)

\* A candidate outside the cycles: staged when it only changes case.
Ordered(f) ==
  IF CaseOnly(f) THEN <<Stage(f), Staged(f, {<<"stage", f>>})>>
  ELSE <<Move("move", f, source[f], dest[f], {<<"move", d>> : d \in deps[f]})>>

\* A mutant: each file of a cycle is staged and delivered before the next.
CyclesOneByOne == FlattenSeq([i \in DOMAIN cyclic |-> <<Stage(cyclic[i]), Staged(cyclic[i], {<<"stage", cyclic[i]>>})>>])

\* Every file of a cycle leaves before the first one arrives.
Cycles ==
  [i \in DOMAIN cyclic |-> Stage(cyclic[i])] \o
  [i \in DOMAIN cyclic |-> Staged(cyclic[i], {<<"stage", f>> : f \in ToSet(cyclic)})]

Executable == FlattenSeq([i \in DOMAIN order |-> Ordered(order[i])]) \o Cycles

Shallower(p, q) == Len(p) < Len(q)
Deeper(p, q) == Len(p) > Len(q)

\* directory_prefixes and plan_directories: one directory for each folded
\* prefix that is not there yet, shallow to deep.
Directories ==
  LET needed == UNION {Ancestors(Executable[i].to) : i \in DOMAIN Executable}
      absent == {p \in needed : ~DirAt(p)}
      one == {CHOOSE p \in absent : PathKey(p) = key : key \in {PathKey(p) : p \in absent}}
      seq == SetToSortSeq(one, Shallower)
  IN  [i \in DOMAIN seq |-> [kind |-> "mkdir", to |-> seq[i], needs |-> {}]]

\* collect_fully_planned_directory_tree: everything below the directory leaves,
\* and no destination, compared as a string, is inside.
FullyPlanned(top) ==
  LET planned == Files \ blocked
  IN  /\ DirAt(<<top>>)
      /\ \A f \in planned : dest[f][1] # top
      /\ \A f \in Files \ planned : Fold(source[f][1]) # Fold(top)

\* plan_source_directory_cleanup, deep to shallow.
Cleanup ==
  LET tops == {t \in {source[f][1] : f \in Files \ blocked} : FullyPlanned(t)}
      seq == SetToSortSeq({d \in dirs : Fold(d[1]) \in {Fold(t) : t \in tops}}, Deeper)
  IN  [i \in DOMAIN seq |-> [kind |-> "rmdir", to |-> seq[i], needs |-> {}]]

Freeze ==
  /\ phase = "freeze"
  /\ plan' = Directories \o Executable \o Cleanup
  /\ phase' = "running"
  /\ UNCHANGED <<request, folder, blocked, deps, sources, k, remaining, order, cyclic, step>>

-----------------------------------------------------------------------------
(* Carrying the plan out, and back: rename without replacement, create and *)
(* remove an empty directory.                                              *)

Reversed(op) ==
  CASE op.kind = "mkdir" -> [op EXCEPT !.kind = "rmdir"]
    [] op.kind = "rmdir" -> [op EXCEPT !.kind = "mkdir"]
    [] OTHER -> [op EXCEPT !.from = op.to, !.to = op.from]

Possible(op) ==
  CASE op.kind = "mkdir" -> ~Exists(op.to) /\ ParentExists(op.to)
    [] op.kind = "rmdir" -> DirAt(op.to) /\ IsEmpty(op.to)
    [] OTHER -> at[op.file] = op.from /\ ~Exists(op.to) /\ ParentExists(op.to)

Perform(op) ==
  /\ Possible(op)
  /\ CASE op.kind = "mkdir" -> dirs' = dirs \cup {op.to} /\ UNCHANGED at
       [] op.kind = "rmdir" -> dirs' = {d \in dirs : PathKey(d) # PathKey(op.to)} /\ UNCHANGED at
       [] OTHER -> at' = [at EXCEPT ![op.file] = op.to] /\ UNCHANGED dirs

RunNext ==
  /\ phase = "running" /\ step < Len(plan)
  /\ Perform(plan[step + 1]) /\ step' = step + 1
  /\ UNCHANGED <<request, phase, blocked, deps, sources, k, remaining, order, cyclic, plan>>

\* A rollback starts after the last operation, or where the execution stopped.
StartRollback ==
  /\ phase = "running" /\ phase' = "rolling_back"
  /\ UNCHANGED <<request, folder, blocked, deps, sources, k, remaining, order, cyclic, plan, step>>

\* A mutant: only the files are brought back.
UndoFilesOnly ==
  /\ phase = "rolling_back" /\ step > 0
  /\ IF plan[step].kind = "mkdir" THEN UNCHANGED folder ELSE Perform(Reversed(plan[step]))
  /\ step' = step - 1
  /\ UNCHANGED <<request, phase, blocked, deps, sources, k, remaining, order, cyclic, plan>>

UndoNext ==
  /\ phase = "rolling_back" /\ step > 0
  /\ Perform(Reversed(plan[step])) /\ step' = step - 1
  /\ UNCHANGED <<request, phase, blocked, deps, sources, k, remaining, order, cyclic, plan>>

Next ==
  \/ DetectCollisions \/ ResolveDestination \/ PropagateBlocks \/ OrderNext \/ OrderEnds \/ Freeze
  \/ RunNext \/ StartRollback \/ UndoNext

Spec == Init /\ [][Next]_vars

-----------------------------------------------------------------------------
TypeOK ==
  /\ phase \in {"collide", "resolve", "order", "freeze", "refused", "running", "rolling_back"}
  /\ blocked \subseteq Files /\ deps \in [Files -> SUBSET Files] /\ remaining \subseteq Files
  /\ k \in 1..(N + 1) /\ step \in 0..Len(plan) /\ at \in [Files -> Seq(STRING)]

\* A frozen plan can be carried out to its end when nothing else touches the
\* folder: directories exist before they are used, a destination is vacated
\* before it is taken, a directory is empty when it is removed; and from any
\* point the way back is open too.
EveryStepPossible ==
  /\ phase = "running" /\ step < Len(plan) => Possible(plan[step + 1])
  /\ phase = "rolling_back" /\ step > 0 => Possible(Reversed(plan[step]))

\* A plan that has run has put every accepted file at its destination, with the
\* requested case, and has touched no other file: chains, swaps, several
\* cycles, changes of case and blocked neighbours included.
Delivered ==
  phase = "running" /\ step = Len(plan) =>
    \A f \in Files : at[f] = IF f \in blocked THEN source[f] ELSE dest[f]

\* A rollback, from wherever it starts, ends with the folder as it was.
Restored ==
  phase = "rolling_back" /\ step = 0 =>
    /\ at = source
    /\ {PathKey(d) : d \in dirs} = {PathKey(d) : d \in UNION {Ancestors(source[f]) : f \in Files}}

\* Every operation comes after those it needs, so that the worker, which checks
\* it again, never refuses one; and every accepted file is delivered once.
Topological ==
  phase = "running" =>
    /\ \A i \in DOMAIN plan : \A need \in plan[i].needs :
         \E j \in 1..(i - 1) : plan[j].kind = need[1] /\ plan[j].file = need[2]
    /\ \A f \in Files \ blocked :
         Cardinality({i \in DOMAIN plan : plan[i].kind = "move" /\ plan[i].file = f}) = 1

\* "source_directory_is_empty_after_planned_moves", the precondition the plan
\* itself states for the removal of a source directory.
\* The code does not keep it: see the README.
CleanupFindsEmpty ==
  phase = "running" /\ step < Len(plan) /\ plan[step + 1].kind = "rmdir" => IsEmpty(plan[step + 1].to)
=============================================================================
