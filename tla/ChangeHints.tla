---------------------------- MODULE ChangeHints -----------------------------
(***************************************************************************)
(* The hints a change monitor gives to the monitoring cycle, and how a     *)
(* batch of them is reduced before it is handed over.  A hint names at     *)
(* most two paths of the root and says whether it is about a file, about a *)
(* directory with everything below it, or does not know; one that names no *)
(* path is about the whole root.                                           *)
(***************************************************************************)
EXTENDS Integers, Sequences, FiniteSets, SequencesExt

CONSTANT None

Hint(kind, before, after, scope, key) ==
  [kind |-> kind, before |-> before, after |-> after, scope |-> scope, key |-> key]

RescanHint == Hint("rescan", None, None, "unknown", None)
OverflowHint == Hint("overflow", None, None, "unknown", None)

Named(h) == {h.before, h.after} \ {None}

\* A rename of which only one side is known.
OneSided(h) == h.kind = "moved" /\ Cardinality(Named(h)) = 1

\* conservative_one_sided_move
Conservative(h) ==
  IF OneSided(h) THEN [h EXCEPT !.kind = "rescan", !.scope = "unknown"] ELSE h

MergeScopes(previous, next) ==
  CASE previous = next -> next
    [] previous = "unknown" -> next
    [] next = "unknown" -> previous
    [] OTHER -> "unknown"

MergeKinds(previous, next) ==
  CASE "rescan" \in {previous, next} -> "rescan"
    [] "overflow" \in {previous, next} -> "overflow"
    [] previous = next -> next
    [] previous = "metadata" -> next
    [] next = "metadata" -> previous
    [] {previous, next} = {"created", "modified"} -> "created"
    [] previous = "removed" /\ next = "created" -> "modified"
    [] OTHER -> next

Complementary(a, b) == (a.after = None) # (b.after = None)

\* Two halves of one rename.
Joined(previous, next) ==
  Hint("moved",
       IF next.before # None THEN next.before ELSE previous.before,
       IF next.after # None THEN next.after ELSE previous.after,
       MergeScopes(previous.scope, next.scope), next.key)

\* coalesce_tracked_renames: halves with the same key are joined, the others
\* become rescans of their path at the end.
TrackOne(acc, h) ==
  LET same == {q \in acc.pending : q.key = h.key}
  IN IF h.key = None THEN [acc EXCEPT !.out = Append(@, Conservative(h))]
     ELSE IF ~OneSided(h) THEN [acc EXCEPT !.out = Append(@, h)]
     ELSE IF same = {} THEN [acc EXCEPT !.pending = @ \cup {h}]
     ELSE LET previous == CHOOSE q \in same : TRUE
          IN IF Complementary(previous, h)
             THEN [out |-> Append(acc.out, Joined(previous, h)),
                   pending |-> acc.pending \ {previous}]
             ELSE [out |-> Append(acc.out, Conservative(previous)),
                   pending |-> (acc.pending \ {previous}) \cup {h}]

CoalesceTrackedRenames(hints) ==
  LET acc == FoldLeft(TrackOne, [out |-> <<>>, pending |-> {}], hints)
  IN acc.out \o SetToSeq({Conservative(h) : h \in acc.pending})

\* coalesce_change_hints: one hint per key and pair of paths; a rescan of the
\* root drops the narrower hints, those before it and those after it.
CoalesceOne(acc, h) ==
  LET root == h.kind = "rescan" /\ Named(h) = {}
      same == {q \in acc.out : q.key = h.key /\ q.before = h.before /\ q.after = h.after}
  IN IF root THEN [out |-> {h}, rescan |-> TRUE]
     ELSE IF acc.rescan THEN acc
     ELSE IF same = {} THEN [acc EXCEPT !.out = @ \cup {h}]
     ELSE LET previous == CHOOSE q \in same : TRUE
          IN [acc EXCEPT !.out = (@ \ {previous}) \cup
                {[previous EXCEPT !.kind = MergeKinds(@, h.kind),
                                  !.scope = MergeScopes(@, h.scope)]}]

CoalesceHints(hints) ==
  FoldLeft(CoalesceOne, [out |-> {}, rescan |-> FALSE], CoalesceTrackedRenames(hints)).out

(***************************************************************************)
(* The paths of the models: two names in the root and one name below each. *)
(***************************************************************************)
Tops == {"d", "e"}
Below(p) == IF p = "d" THEN "d/x" ELSE "e/x"
Children == {Below(p) : p \in Tops}
Paths == Tops \cup Children
Parent(c) == CHOOSE p \in Tops : Below(p) = c

\* What the monitoring cycle looks at again for a hint: run_monitoring_cycle
\* reconciles what is below a path unless the hint says it is a file.
Covers(h, p) ==
  \/ Named(h) = {}
  \/ p \in Named(h)
  \/ p \in Children /\ h.scope # "file" /\ Parent(p) \in Named(h)

Stamps == {"absent", "dir", "v1", "v2"}
IsFile(s) == s \in {"v1", "v2"}

\* A file system state: something below a name only when it is a directory.
Trees == {t \in [Paths -> Stamps] :
            \A c \in Children : t[c] # "dir" /\ (t[Parent(c)] # "dir" => t[c] = "absent")}
=============================================================================
