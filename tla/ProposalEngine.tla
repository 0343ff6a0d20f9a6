---------------------------- MODULE ProposalEngine ----------------------------
(***************************************************************************)
(* The organization engine: what a build of a proposal makes of the         *)
(* classified files and of the decisions of the user, in full or from the   *)
(* previous revision.                                                       *)
(*                                                                          *)
(* Source: crates/organizer/src/organization.rs, consumer.rs and            *)
(* path_safety.rs; the application's part of an incremental build and the   *)
(* rows it stores are crates/application/src/proposal.rs and                *)
(* crates/persistence/src/proposal.rs.                                      *)
(*                                                                          *)
(* A folder is a sequence of names, a file name a stem followed by the      *)
(* ordinals a collision appended.  Files are numbered in the order of their *)
(* source paths, the order of a full build.  Text, scores and path lengths  *)
(* are left out: a file that is too weakly classified, or whose path is too *)
(* long, says so in its input.                                              *)
(***************************************************************************)
EXTENDS Naturals, FiniteSets, Sequences, SequencesExt, TLC

CONSTANTS
  N, Dir, Name,     \* the files, where they are and what they are called
  Inputs,           \* classifications a file can have
  Decisions,        \* decisions a user can take
  Lower,            \* the names with another case, and their folded form
  Rank,             \* the order of names, for the order rows are read in
  MinGroup, MaxDepth, ClientFirst, PreserveExisting,   \* organization_preferences
  Consumer,         \* consumer_mode of a full build
  MaxChanges,       \* bound: changes of the catalogue and decisions
  None

Files == 1..N

\* What is assumed of the parameters.
EngineAssumption ==
  /\ N \in Nat \ {0} /\ MinGroup \in 1..20 /\ MaxDepth \in 2..8
  /\ \A x \in {ClientFirst, PreserveExisting, Consumer} : x \in BOOLEAN

VARIABLES
  inputs,     \* the catalogue: the classification of each file, None when absent
  decided,    \* the active override of each file
  ops,        \* the operations of the current revision, in the order read
  dirty,      \* files that changed since
  fresh,      \* the current revision was built in full
  before,     \* the revision a full build replaced although nothing had changed
  phase,      \* of the build under way: "idle" between builds
  incremental, affected, drafts, seen, done,   \* its state
  changes

vars == <<inputs, decided, ops, dirty, fresh, before, phase, incremental, affected, drafts, seen, done, changes>>
source == <<inputs, decided, dirty, changes>>
revision == <<ops, fresh, before>>

-----------------------------------------------------------------------------
(* Paths.                                                                  *)

Fold(n) == IF n \in DOMAIN Lower THEN Lower[n] ELSE n
Key(p) == [i \in DOMAIN p |-> Fold(p[i])]
Folders(p) == {Key(SubSeq(p, 1, i)) : i \in 1..Len(p)}

Each(Op(_), s) == [i \in DOMAIN s |-> Op(s[i])]

\* collision_key.
CollisionKey(dest, name) == <<Key(dest), Key(name)>>

\* collision_name.
CollisionName(name, ordinal) == Append(name, ToString(ordinal))

\* fit_machine_path: the destination is cut to the maximal depth.
Fit(dest, depth) == SubSeq(dest, 1, IF Len(dest) < depth THEN Len(dest) ELSE depth)

\* existing_structure_is_useful.
Useful(dir, dest) ==
  LET there == {Fold(dest[i]) : i \in DOMAIN dest}
      matching == Cardinality({i \in DOMAIN dir : Fold(dir[i]) \in there})
      least == IF Len(dir) < Cardinality(there) THEN Len(dir) ELSE Cardinality(there)
  IN  /\ dir # <<>> /\ Len(dir) <= MaxDepth
      /\ Fold(dir[1]) \in {"business", "personal"}
      /\ matching >= 2 /\ matching * 2 >= least

-----------------------------------------------------------------------------
(* One file: compile_operation.                                            *)

Opt(x) == IF x = None THEN <<>> ELSE <<x>>

\* The folders of a destination: those it must have, and the tail of those a
\* small group does without.
Place(must, tail) == [must |-> must, tail |-> tail]

\* destination_policy.
DestinationPolicy(in) ==
  LET identity ==
        IF in.customer # None THEN <<"clients", in.customer>> \o Opt(in.project)
        ELSE IF in.project # None THEN <<"projects", in.project>>
        ELSE IF in.supplier # None THEN <<"suppliers", in.supplier>>
        ELSE in.area
  IN  IF in.context = "personal" THEN Place(<<"personal">> \o in.area, Opt(in.year))
      ELSE IF in.project # None /\ in.inproject
        THEN Place(<<"business", "projects", in.project>>, Opt(in.type) \o Opt(in.year))
      ELSE IF ClientFirst THEN Place(<<"business">> \o identity, Opt(in.year) \o Opt(in.type))
      ELSE Place(<<"business">> \o (IF in.type = None THEN in.area ELSE <<in.type>>)
                   \o (IF in.customer # None THEN <<in.customer>> ELSE Opt(in.supplier)) \o Opt(in.project),
                 Opt(in.year))

\* Held in TO_REVIEW: the context is unknown or the confidence low.
Uncertain(in) == in.context = "unknown" \/ in.grade = "low"

\* The rule that wins, the structure there is, or the policy.
MachinePlace(f, in) ==
  LET policy == IF Uncertain(in) THEN Place(<<"TO_REVIEW">>, <<>>) ELSE DestinationPolicy(in)
  IN  IF in.rule = <<"preserve">> THEN Place(Dir[f], <<>>)
      ELSE IF in.rule # None THEN Place(IF Len(in.rule) > MaxDepth THEN <<"TO_REVIEW">> ELSE in.rule, <<>>)
      ELSE IF PreserveExisting /\ in.grade = "high" /\ ~Uncertain(in) /\ Useful(Dir[f], policy.must \o policy.tail)
        THEN Place(Dir[f], <<>>)
      ELSE policy

\* decide_consumer_organization: a program, a shortcut and what is already in
\* its place are left where they are; a rule changes the destination only.
LeaveInPlace(f, in) == in.program \/ Key(Dir[f]) = Key(in.category)
ConsumerPlace(f, in) ==
  IF in.rule # None /\ in.rule # <<"preserve">> THEN Place(in.rule, <<>>)
  ELSE IF in.rule # None \/ LeaveInPlace(f, in) THEN Place(Dir[f], <<>>)
  ELSE Place(in.category, <<>>)

\* A mutant: the folder the user chose is taken below the machine's.
DecideBelow(f, d, dest, name, consumer) ==
  CASE d.action = "destination" -> [dest |-> dest \o d.dest, name |-> name]
    [] d.action = "rename" -> [dest |-> dest, name |-> d.name]
    [] d.action = "keep" -> [dest |-> Dir[f], name |-> Name[f]]
    [] d.action = "review" -> [dest |-> IF consumer THEN <<"a verifier">> ELSE <<"TO_REVIEW">>, name |-> name]

\* What a decision makes of the machine's suggestion.
Decide(f, d, dest, name, consumer) ==
  CASE d.action = "destination" -> [dest |-> d.dest, name |-> name]
    [] d.action = "rename" -> [dest |-> dest, name |-> d.name]
    [] d.action = "keep" -> [dest |-> Dir[f], name |-> Name[f]]
    [] d.action = "review" -> [dest |-> IF consumer THEN <<"a verifier">> ELSE <<"TO_REVIEW">>, name |-> name]

\* The kind of an operation.
KindOf(f, d, dest, name, consumer) ==
  IF inputs[f].duplicate THEN "no_action"
  ELSE IF (d # None /\ d.action = "keep") \/ (consumer /\ LeaveInPlace(f, inputs[f])) THEN "keep"
  ELSE IF dest = <<"TO_REVIEW">> /\ ~consumer THEN "review"
  ELSE IF Key(dest) = Key(Dir[f]) /\ Key(name) = Key(Name[f]) THEN "keep"
  ELSE IF Key(dest) = Key(Dir[f]) THEN "rename" ELSE "move"

\* proposed_filename: a generic name is replaced when the file is well known.
MachineName(f, in) == IF in.name # None /\ in.grade = "high" THEN in.name ELSE Name[f]

\* compile_operation and compile_consumer_operation.
Compile(f, consumer) ==
  LET in == inputs[f]
      d == decided[f]
      depth == IF consumer THEN 32 ELSE MaxDepth
      place == IF consumer THEN ConsumerPlace(f, in) ELSE MachinePlace(f, in)
      machine == Fit(place.must \o place.tail, depth)
      mname == IF consumer THEN Name[f] ELSE MachineName(f, in)
      final == IF d = None THEN [dest |-> machine, name |-> mname] ELSE Decide(f, d, machine, mname, consumer)
  IN  [file |-> f, mdest |-> machine, mname |-> mname, dest |-> final.dest, name |-> final.name,
       tail |-> IF d # None THEN [i \in DOMAIN final.dest |-> FALSE]
                ELSE [i \in 1..Len(place.must \o place.tail) |-> i > Len(place.must)],
       kind |-> KindOf(f, d, final.dest, final.name, consumer),
       conflict |-> IF d # None /\ Len(final.dest) > depth THEN "invalid"
                    ELSE IF in.long THEN "path_too_long" ELSE "none",
       override |-> d # None,
       labels |-> {<<"customer", in.customer>>, <<"supplier", in.supplier>>, <<"project", in.project>>}
                    \ {<<k, None>> : k \in {"customer", "supplier", "project"}}]

-----------------------------------------------------------------------------
(* All files together.                                                     *)

\* How many drafts are in a folder or below it.
Members(group, dest) == Cardinality({i \in DOMAIN group : Key(dest) \in Folders(group[i].dest)})

EndsOptional(x) == x.tail # <<>> /\ Last(x.tail)
Pop(p) == IF p = <<>> THEN p ELSE Front(p)

\* A mutant: a folder with one file fewer is large enough.
CollapseLess(group) ==
  Each(LAMBDA x : IF EndsOptional(x) /\ Members(group, x.dest) < MinGroup - 1
                  THEN [x EXCEPT !.dest = Pop(@), !.mdest = Pop(@), !.tail = Pop(@)] ELSE x, group)

\* One round of apply_minimum_group_policy.
Collapse(group) ==
  Each(LAMBDA x : IF EndsOptional(x) /\ Members(group, x.dest) < MinGroup
                  THEN [x EXCEPT !.dest = Pop(@), !.mdest = Pop(@), !.tail = Pop(@)] ELSE x, group)

\* apply_consumer_folder_bundle_policy: what kind of folder a top-level folder
\* is, and where it goes with its whole subtree.
Protected == {"documents", "images", "archives", "a verifier"}
Below(top, files) == {f \in files : Dir[f] # <<>> /\ Fold(Dir[f][1]) = top}

BundleBase(files, f) ==
  LET there == Below(Fold(Dir[f][1]), files)
      count(sort) == Cardinality({g \in there : inputs[g].sort = sort})
  IN  IF count("manifest") > 0 \/ count("code") >= 2 THEN <<"development", "projects">>
      ELSE IF count("image") > 0 /\ count("image") * 100 >= Cardinality(there) * 70 THEN <<"images", "albums">>
      ELSE IF count("work") > 0 THEN <<"documents", "travail", "projects">>
      ELSE <<"a verifier", "folders">>

\* The folder keeps the name it was first seen with.
CanonicalTop(files, f) == Dir[CHOOSE g \in Below(Fold(Dir[f][1]), files) :
                                \A h \in Below(Fold(Dir[f][1]), files) : g <= h][1]

Bundle(x, base, top) ==
  LET f == x.file  to == base \o <<top>> \o Tail(Dir[f]) IN
  IF inputs[f].long THEN [x EXCEPT !.conflict = "path_too_long"]
  ELSE [x EXCEPT !.dest = to, !.mdest = to, !.name = Name[f], !.mname = Name[f],
                 !.kind = "move", !.conflict = "none", !.tail = [i \in DOMAIN to |-> FALSE]]

InBundle(x) == ~x.override /\ Dir[x.file] # <<>> /\ Fold(Dir[x.file][1]) \notin Protected

\* A mutant: each file is classified by itself.
BundleAlone(group, files) ==
  Each(LAMBDA x : IF InBundle(x) THEN Bundle(x, BundleBase({x.file}, x.file), CanonicalTop(files, x.file))
                  ELSE x, group)

Bundled(group, files) ==
  Each(LAMBDA x : IF InBundle(x) THEN Bundle(x, BundleBase(files, x.file), CanonicalTop(files, x.file))
                  ELSE x, group)

\* The order operations are read back in: destination, name, source path.
Precedes(p, q) ==
  \E i \in DOMAIN q :
    /\ \A j \in 1..(i - 1) : j \in DOMAIN p /\ p[j] = q[j]
    /\ i \in DOMAIN p => Rank[p[i]] < Rank[q[i]]

ReadBefore(x, y) ==
  \/ Precedes(x.dest, y.dest)
  \/ x.dest = y.dest /\ Precedes(x.name, y.name)
  \/ x.dest = y.dest /\ x.name = y.name /\ x.file < y.file

Stored(operations) == SortSeq(operations, ReadBefore)

Catalogued == {f \in Files : inputs[f] # None}

-----------------------------------------------------------------------------
(* An incremental build.                                                   *)

\* expand_invalidation_neighborhood: what shares a name, a folder or a place
\* with the changed files and the drafts.
Shares(x, S) ==
  \E y \in S :
    \/ x.labels \cap y.labels # {}
    \/ CollisionKey(x.mdest, x.mname) = CollisionKey(y.mdest, y.mname)
    \/ (Folders(x.dest) \cup Folders(x.mdest)) \cap (Folders(y.dest) \cup Folders(y.mdest)) # {}

Neighbourhood(seeds) ==
  LET old == Range(ops)
      absorbed == {x \in old : x.file \in dirty} \cup seeds
  IN  dirty \cup {x.file : x \in {y \in old : Shares(y, absorbed)}}

\* draft_from_previous_operation.
Carried(x) == [x EXCEPT !.tail = [i \in DOMAIN x.dest |-> FALSE]]

\* reset_collision_names_for_neighborhood.
ResetName(x) ==
  IF x.file \in affected /\ (x.conflict \in {"auto_resolved", "collision"} \/ x.name # x.mname)
  THEN [x EXCEPT !.name = x.mname, !.conflict = IF x.override THEN @ ELSE "none"]
  ELSE x

-----------------------------------------------------------------------------
(* A build.  Nothing it reads changes on the way.                          *)

Init ==
  /\ inputs \in [Files -> Inputs \cup {None}]
  /\ decided = [f \in Files |-> None] /\ dirty = Files /\ fresh = TRUE /\ before = None /\ changes = 0
  /\ ops = <<>> /\ phase = "full" /\ incremental = FALSE /\ affected = {}
  /\ drafts = <<>> /\ seen = <<>> /\ done = <<>>

\* A file appears, is classified anew or disappears.
FileChanges(f) ==
  /\ phase = "idle" /\ changes < MaxChanges /\ changes' = changes + 1
  /\ \E in \in Inputs \cup {None} : in # inputs[f] /\ inputs' = [inputs EXCEPT ![f] = in]
  /\ dirty' = dirty \cup {f} /\ before' = None
  /\ UNCHANGED <<decided, ops, fresh, phase, incremental, affected, drafts, seen, done>>

\* set_organization_proposal_override: a decision, and a full build.
SetOverride(f, d) ==
  /\ phase = "idle" /\ changes < MaxChanges /\ changes' = changes + 1
  /\ inputs[f] # None /\ decided[f] # d /\ \E x \in Range(ops) : x.file = f
  /\ decided' = [decided EXCEPT ![f] = d]
  /\ dirty' = dirty \cup {f} /\ before' = None /\ phase' = "full"
  /\ UNCHANGED <<inputs, ops, fresh, incremental, affected, drafts, seen, done>>

\* A user asks for a full build.
RequestFull ==
  /\ phase = "idle" /\ phase' = "full"
  /\ UNCHANGED <<source, revision, incremental, affected, drafts, seen, done>>

\* build_full: every file is compiled, in the order of the source paths.
BuildFull ==
  /\ phase = "full" /\ phase' = "group"
  /\ incremental' = FALSE /\ affected' = Files
  /\ drafts' = Each(LAMBDA f : Compile(f, Consumer), SetToSortSeq(Catalogued, <))
  /\ seen' = <<>> /\ done' = <<>>
  /\ UNCHANGED <<source, revision>>

\* build_organization_proposal_incremental and build_incremental: the
\* neighbourhood of the changed files is compiled, the rest carried over.  New
\* files come last, in no particular order.
Orders(S) == {s \in [1..Cardinality(S) -> S] : \A i, j \in DOMAIN s : i # j => s[i] # s[j]}

BuildIncremental ==
  LET near == Neighbourhood({}) \cap Catalogued
      compiled == [f \in near |-> Compile(f, FALSE)]
      kept == SelectSeq(ops, LAMBDA x : x.file \in Catalogued)
  IN  /\ phase = "idle" /\ dirty # {} /\ ops # <<>> /\ phase' = "group"
      /\ incremental' = TRUE /\ affected' = Neighbourhood(Range(compiled))
      /\ \E new \in Orders(near \ {x.file : x \in Range(ops)}) :
           drafts' = Each(LAMBDA x : IF x.file \in near THEN compiled[x.file] ELSE Carried(x), kept)
                       \o Each(LAMBDA f : compiled[f], new)
      /\ seen' = <<>> /\ done' = <<>>
      /\ UNCHANGED <<source, revision>>

\* apply_minimum_group_policy, round by round; then the bundles of consumer
\* mode, or the names an incremental build forgets.
Group ==
  /\ phase = "group"
  /\ LET round == IF MinGroup <= 1 THEN drafts ELSE Collapse(drafts) IN
     IF round # drafts THEN drafts' = round /\ UNCHANGED phase
     ELSE /\ phase' = "resolve"
          /\ drafts' = IF incremental THEN Each(LAMBDA x : ResetName(x), drafts)
                       ELSE IF Consumer THEN Bundled(drafts, Catalogued) ELSE drafts
  /\ UNCHANGED <<source, revision, incremental, affected, seen, done>>

\* resolve_collisions for the next draft.
Count(key) == IF key \in DOMAIN seen THEN seen[key] ELSE 0

\* A mutant: a made-up name, or a clash with a decision, is not noticed.
ResolveForgetting ==
  LET x == Head(drafts)
      key == CollisionKey(x.dest, x.name)
      nth == Count(key) + 1
  IN  /\ phase = "resolve" /\ drafts # <<>> /\ drafts' = Tail(drafts)
      /\ IF x.kind \in {"keep", "no_action"} \/ nth = 1 \/ x.override
         THEN done' = Append(done, x)
         ELSE done' = Append(done, [x EXCEPT !.name = CollisionName(@, nth), !.conflict = "auto_resolved"])
      /\ seen' = (key :> nth) @@ seen
      /\ UNCHANGED <<source, revision, phase, incremental, affected>>

Resolve ==
  LET x == Head(drafts)
      key == CollisionKey(x.dest, x.name)
      nth == Count(key) + 1
      free(s) == CollisionKey(x.dest, CollisionName(x.name, s)) \notin DOMAIN seen
      suffix == CHOOSE s \in nth..(nth + N) : free(s) /\ \A r \in nth..(s - 1) : ~free(r)
      name == CollisionName(x.name, suffix)
  IN  /\ phase = "resolve" /\ drafts # <<>> /\ drafts' = Tail(drafts)
      /\ IF x.kind \in {"keep", "no_action"} THEN done' = Append(done, x) /\ UNCHANGED seen
         ELSE IF nth = 1 THEN done' = Append(done, x) /\ seen' = (key :> nth) @@ seen
         ELSE IF x.override
           THEN /\ done' = Append(done, [x EXCEPT !.conflict = "collision", !.kind = "review"])
                /\ seen' = (key :> nth) @@ seen
         ELSE /\ done' = Append(done, [x EXCEPT !.name = name, !.conflict = "auto_resolved"])
              /\ seen' = (CollisionKey(x.dest, name) :> 1) @@ (key :> nth) @@ seen
      /\ UNCHANGED <<source, revision, phase, incremental, affected>>

Destinations(operations) == {<<x.file, x.dest>> : x \in Range(operations)}

\* The revision is stored: an incremental build's files outside the
\* neighbourhood are copied from the previous one.
Store ==
  LET old(f) == CHOOSE x \in Range(ops) : x.file = f IN
  /\ phase = "resolve" /\ drafts = <<>> /\ phase' = "idle"
  /\ ops' = Stored(Each(LAMBDA x : IF x.file \in affected THEN x ELSE old(x.file), done))
  /\ before' = IF ~incremental /\ dirty = {} THEN Destinations(ops) ELSE None
  /\ dirty' = {} /\ fresh' = ~incremental
  /\ done' = <<>> /\ seen' = <<>> /\ affected' = {} /\ incremental' = FALSE
  /\ UNCHANGED <<inputs, decided, changes, drafts>>

Next ==
  \/ \E f \in Files : FileChanges(f) \/ \E d \in Decisions : SetOverride(f, d)
  \/ RequestFull \/ BuildFull \/ BuildIncremental \/ Group \/ Resolve \/ Store

Spec == Init /\ [][Next]_vars

-----------------------------------------------------------------------------
OpOf(f) == CHOOSE x \in Range(ops) : x.file = f
Current == {f \in Files \ dirty : inputs[f] # None /\ \E x \in Range(ops) : x.file = f}
Carrying(x) == x.kind \notin {"keep", "no_action"} /\ x.conflict \in {"none", "auto_resolved"}

\* One operation for each file.
TypeOK ==
  /\ \A i, j \in DOMAIN ops : ops[i].file = ops[j].file => i = j
  /\ phase = "idle" /\ dirty = {} => {x.file : x \in Range(ops)} = Catalogued
  /\ \A x \in Range(ops) : x.kind \in {"keep", "no_action", "review", "rename", "move"}

\* No two operations the engine calls free of conflict send files to the same
\* place of a volume that ignores case, whatever was built incrementally.
UniqueDestinations ==
  \A x, y \in Range(ops) :
    x # y /\ Carrying(x) /\ Carrying(y) => CollisionKey(x.dest, x.name) # CollisionKey(y.dest, y.name)

\* A year or a type folder of its own is never proposed for fewer files than
\* the preference asks for: "optional singleton year/type tails collapse below
\* the configurable minimum group size".
NoSmallGroup ==
  \A f \in Current :
    LET in == inputs[f]  x == OpOf(f) IN
    /\ ~x.override /\ ~Consumer /\ in.rule = None /\ Key(x.dest) # Key(Dir[f])
    /\ ~Uncertain(in) /\ Len(x.dest) > Len(DestinationPolicy(in).must)
    => Members(ops, x.dest) >= MinGroup

\* Where the user decided a file goes is where it goes, or the operation is
\* held for review: "Destination/name and decision overrides remain
\* authoritative through recomputation".
DestinationHonoured ==
  \A f \in Current :
    LET d == decided[f]  x == OpOf(f) IN
    d # None =>
      /\ d.action = "destination" => x.dest = d.dest
      /\ d.action = "keep" => x.kind = "keep" \/ inputs[f].duplicate
      /\ d.action = "review" => x.dest \in {<<"TO_REVIEW">>, <<"a verifier">>}

\* The same of the name the user gave.
\* The code does not keep it: see the README.
NameHonoured ==
  \A f \in Current :
    decided[f] # None /\ decided[f].action = "rename" => OpOf(f).name = decided[f].name

\* An incremental build proposes what a full one would: "resolve_collisions
\* stays deterministic vs a full rebuild".
\* The code does not keep it: see the README.
SameAsFull == before # None => before = Destinations(ops)

\* No operation free of conflict ends where another file stays: "Collisions
\* are resolved before Apply".
\* The code does not keep it: see the README.
NothingOntoKept ==
  \A x, y \in Range(ops) :
    Carrying(x) /\ y.kind \in {"keep", "no_action"} =>
      CollisionKey(x.dest, x.name) # CollisionKey(Dir[y.file], Name[y.file])

\* Only optional folders are given up.
\* The code does not keep it: see the README.
MandatoryKept ==
  \A f \in Current :
    LET in == inputs[f]  must == DestinationPolicy(in).must IN
    fresh /\ ~OpOf(f).override /\ ~Uncertain(in) /\ in.rule = None =>
      Len(OpOf(f).dest) >= Len(Fit(must, MaxDepth))

\* The files of a folder stay together, each in its place below it, unless the
\* user decided otherwise.
FolderTogether ==
  \A f, g \in Current :
    LET x == OpOf(f)  y == OpOf(g) IN
    /\ Consumer /\ fresh /\ ~x.override /\ ~y.override /\ ~inputs[f].long /\ ~inputs[g].long
    /\ Len(Dir[f]) >= 1 /\ Len(Dir[g]) >= 1 /\ Fold(Dir[f][1]) = Fold(Dir[g][1])
    /\ Fold(Dir[f][1]) \notin Protected
    => /\ SubSeq(x.dest, 1, Len(x.dest) - Len(Dir[f])) = SubSeq(y.dest, 1, Len(y.dest) - Len(Dir[g]))
       /\ Key(SubSeq(x.dest, Len(x.dest) - Len(Dir[f]) + 1, Len(x.dest))) = Key(Dir[f])

\* "Programs, system components, and desktop shortcuts stay in place."
\* The code does not keep it: see the README.
ProgramsStay ==
  \A f \in Current : Consumer /\ fresh /\ inputs[f].program => OpOf(f).kind \in {"keep", "no_action"}
=============================================================================
