------------------------- MODULE IdentityResolution -------------------------
(***************************************************************************)
(* The local identity resolver (crates/persistence/src/identity.rs,        *)
(* crates/application/src/identity.rs, crates/knowledge/src/identity.rs).  *)
(* The semantic analysis of a file names the organization the file comes   *)
(* from and its company identifiers; a resolver run turns that into one    *)
(* occurrence per file, compares occurrences of different files and links  *)
(* them under one identity, or proposes the link for review, or records a  *)
(* conflict.  Meanwhile the user decides proposals, merges identities,     *)
(* unlinks occurrences and corrects analysed fields.                       *)
(*                                                                         *)
(* `db` holds the resolver's tables.  One connection behind a mutex makes  *)
(* every Database function one step; the functions below compute its       *)
(* effect on `db`.  Occurrences and identities are numbered in creation    *)
(* order, which is also the order of their UUIDv7 keys.                    *)
(***************************************************************************)
EXTENDS Integers, FiniteSets, Sequences

CONSTANTS
    Files,          \* file numbers
    Budgets,        \* which files are analysed, what an analysis can find and
                    \* how much the user does:
                    \* [files, contents, analyses, corrections, decisions]
    Corrections,    \* the names a user may correct a file's supplier to
    CoreOf,         \* a name without its legal suffix, itself a name
    Overlap,        \* may commands interleave with a resolver run?
    MaxIdentities   \* at least as many identities as come about

NoName == 0
Names == DOMAIN CoreOf
Content == [name : Names, ids : SUBSET Nat]

\* What is assumed of the parameters.
IdentityAssumption ==
    /\ IsFiniteSet(Files)
    /\ Files \subseteq Nat
    /\ Corrections \subseteq Names
    /\ Names \subseteq Nat \ {NoName}
    /\ \A n \in Names : CoreOf[n] \in Names
    \* canonical_identity_id follows at most 31 merges.
    /\ MaxIdentities \in 0..32
    /\ Budgets \subseteq [files : SUBSET Files, contents : SUBSET Content,
                         analyses : Nat, corrections : Nat, decisions : Nat]
    \* An identity is created for a new value of a file or by an unlink.
    /\ \A x \in Budgets :
          Cardinality(x.files) + x.analyses + x.corrections + x.decisions <= MaxIdentities

OpenStatuses == {"candidate", "conflicting"}
Statuses == OpenStatuses
              \cup {"auto_linked", "user_confirmed", "user_rejected", "superseded"}

VARIABLES
    analysis,   \* analysed file -> its current analysis: [number, name, ids]
    corrected,  \* file -> the active user correction of the name, or NoName
    resolution, \* file -> [status, analysis]: identity_resolution_state
    db,         \* occurrences, identities, candidates, constraints, relations
    run,        \* the resolver run and the thread that executes it
    command,    \* a correction being applied: [stage, file]
    budget,     \* what is left of the behaviour's budget
    apart       \* ghost: pairs of occurrences the user separated

vars == <<analysis, corrected, resolution, db, run, command, budget, apart>>

-----------------------------------------------------------------------------
(* Reading the tables *)

\* The element of a singleton; a chain of singletons computes step by step.
Only(S) == CHOOSE x \in S : TRUE

ActiveIdentity(d, i) == d.ident[i].into = 0

\* canonical_identity_id: follow the merges to an identity that is active.
Canonical(d, i) ==
    LET Step(at) == IF ActiveIdentity(d, at) THEN at ELSE d.ident[at].into
        hop[n \in 0..MaxIdentities] ==
            IF n = 0 THEN i ELSE Only({Step(at) : at \in {hop[n - 1]}})
    IN hop[MaxIdentities]

\* Mutant: the lock is forgotten.
UserLockedNever(d, i) == FALSE

\* identity_user_locked
UserLocked(d, i) == d.ident[i].locked

\* occurrence_ids_for_identity
Holding(d, i) == {o \in DOMAIN d.occ : d.occ[o].identity = i}

ActiveHolding(d, i) == {o \in Holding(d, i) : d.occ[o].active}

Lower(S) == CHOOSE x \in S : \A y \in S : x <= y

-----------------------------------------------------------------------------
(* Derived tables *)

\* Mutant: the group is closed although another candidate of it is open.
RefreshGroupsClose(d, keys) ==
    [d EXCEPT !.listed = @ \ keys]

\* refresh_review_group: a group is listed while a candidate of it is open
\* between two active identities.
RefreshGroups(d, keys) ==
    [d EXCEPT !.listed =
        (@ \ keys)
          \cup {d.cand[p].key : p \in
                  {q \in DOMAIN d.cand :
                     /\ d.cand[q].key \in keys
                     /\ d.cand[q].status \in OpenStatuses
                     /\ \A i \in q : ActiveIdentity(d, i)}}]

\* Mutant: the relations are left as they were.
RefreshFilesNever(d, fs) == d

\* refresh_file_relationships: a file is related to the identity of each of
\* its active occurrences.
RefreshFiles(d, fs) ==
    [d EXCEPT !.rel =
        {r \in @ : r[1] \notin fs}
          \cup {<<d.occ[o].file, d.occ[o].identity>> :
                  o \in {k \in DOMAIN d.occ :
                            /\ d.occ[k].file \in fs
                            /\ d.occ[k].active
                            /\ ActiveIdentity(d, d.occ[k].identity)}}]

Supersede(d, pairs) ==
    RefreshGroups([d EXCEPT !.cand = [p \in DOMAIN @ |->
                      IF p \in pairs THEN [@[p] EXCEPT !.status = "superseded"]
                      ELSE @[p]]],
                  {d.cand[p].key : p \in pairs})

\* supersede_machine_candidates_for_identity
SupersedeOf(d, i) ==
    Supersede(d, {p \in DOMAIN d.cand : i \in p /\ d.cand[p].status \in OpenStatuses})

\* supersede_orphaned_machine_candidates
SupersedeOrphans(d) ==
    Supersede(d, {p \in DOMAIN d.cand :
                    /\ d.cand[p].status \in OpenStatuses
                    /\ \E i \in p : ActiveHolding(d, i) = {}})

\* insert_unresolved_identity; unlink inserts a locked one.
WithIdentity(d, locked) ==
    [d EXCEPT !.ident = Append(@, [into |-> 0, locked |-> locked])]

\* insert_rejection_constraint
Bar(d, i, j) == [d EXCEPT !.barred = @ \cup {{i, j}}]

-----------------------------------------------------------------------------
(* merge_identities *)

\* copy_rejection_constraints: what was kept apart from the source is kept
\* apart from the target.
CopyConstraints(d, source, target) ==
    [d EXCEPT !.barred =
        @ \cup {{target, CHOOSE other \in p : other # source} :
                   p \in {q \in @ : source \in q /\ target \notin q}}]

\* Mutant: retired occurrences stay on the merged identity.
MoveActiveOccurrences(d, source, target) ==
    [d EXCEPT
        !.occ = [o \in DOMAIN @ |->
                    IF @[o].identity = source /\ @[o].active
                    THEN [@[o] EXCEPT !.identity = target] ELSE @[o]],
        !.rel = {IF r[2] = source THEN <<r[1], target>> ELSE r : r \in @},
        !.ident = [@ EXCEPT ![source].into = target]]

MoveOccurrences(d, source, target) ==
    [d EXCEPT
        !.occ = [o \in DOMAIN @ |->
                    IF @[o].identity = source
                    THEN [@[o] EXCEPT !.identity = target] ELSE @[o]],
        !.rel = {IF r[2] = source THEN <<r[1], target>> ELSE r : r \in @},
        !.ident = [@ EXCEPT ![source].into = target]]

\* The user's merge revokes the constraint between the two and locks the
\* result.
LockedIf(b, ident, i) == [ident EXCEPT ![i].locked = @ \/ b]
Decided(d, source, target, byUser) ==
    LET barred == IF byUser THEN d.barred \ {{target, source}} ELSE d.barred
    IN [d EXCEPT !.barred = barred, !.ident = LockedIf(byUser, @, target)]

\* It keeps the identity named first; the resolver keeps the older one.
Merge(d, primary, secondary, byUser) ==
    LET target == IF byUser THEN primary ELSE Lower({primary, secondary})
        source == IF target = primary THEN secondary ELSE primary
    IN Only({RefreshFiles(y, {d.occ[o].file : o \in Holding(d, source)}) :
                y \in {MoveOccurrences(x, source, target) :
                          x \in {CopyConstraints(Decided(d, source, target, byUser), source, target)}}})

-----------------------------------------------------------------------------
(* synchronize_identity_occurrences *)

\* COALESCE(correction, analysed value) of the file's supplier field.
EffectiveName(f) == IF corrected[f] = NoName THEN analysis[f].name ELSE corrected[f]

\* The row of this key, otherwise the row of this analysed field, otherwise 0.
Existing(d, f) ==
    LET byKey == {o \in DOMAIN d.occ :
                    d.occ[o].file = f /\ d.occ[o].name = EffectiveName(f)}
        byField == {o \in DOMAIN d.occ :
                      d.occ[o].file = f /\ d.occ[o].field = analysis[f].number}
    IN IF byKey # {} THEN Lower(byKey)
       ELSE IF byField # {} THEN Lower(byField) ELSE 0

\* The unique index on semantic_field_id refuses a row found by its key while
\* another row still carries the field.
FieldTaken(d, f) ==
    \E o \in DOMAIN d.occ \ {Existing(d, f)} :
        d.occ[o].file = f /\ d.occ[o].field = analysis[f].number

\* The row's identity after the synchronisation: a changed value leaves an
\* unlocked identity that other active occurrences still hold.
Detach(d, f, k) ==
    LET i == Canonical(d, d.occ[k].identity)
        changed == d.occ[k].name # EffectiveName(f) /\ ~UserLocked(d, i)
        superseded == IF changed THEN SupersedeOf(d, i) ELSE d
    IN IF changed /\ ActiveHolding(d, i) \ {k} # {}
       THEN [db |-> WithIdentity(superseded, FALSE), identity |-> Len(d.ident) + 1]
       ELSE [db |-> superseded, identity |-> i]

\* The active rows of the file whose key the analysis no longer has.
Retired(d, f) ==
    [d EXCEPT !.occ = [o \in DOMAIN @ |->
        IF @[o].file = f /\ @[o].name # EffectiveName(f)
        THEN [@[o] EXCEPT !.active = FALSE] ELSE @[o]]]

\* The file's row, found and updated or inserted.
Row(f, i) == [file |-> f, name |-> EffectiveName(f), ids |-> analysis[f].ids,
              field |-> analysis[f].number, identity |-> i, active |-> TRUE]

Observed(d, f) ==
    LET k == Existing(d, f)
        new == WithIdentity(d, FALSE)
    IN IF k = 0
       THEN [new EXCEPT !.occ = Append(@, Row(f, Len(new.ident)))]
       ELSE Only({[kept.db EXCEPT !.occ = [@ EXCEPT ![k] = Row(f, kept.identity)]] :
                     kept \in {Detach(d, f, k)}})

Synchronized(d, f) ==
    Only({RefreshFiles(z, {f}) :
             z \in {SupersedeOrphans(y) : y \in {Observed(x, f) : x \in {Retired(d, f)}}}})

-----------------------------------------------------------------------------
(* Comparing occurrences: blocked_identity_occurrences, assess_match *)

SameCore(l, r) == CoreOf[l.name] = CoreOf[r.name]
SharedIds(l, r) == l.ids \cap r.ids # {}
ConflictingIds(l, r) == l.ids # {} /\ r.ids # {} /\ ~SharedIds(l, r)

BlockRank(l, r) ==
    CASE l.name = r.name -> 0
      [] l.name # r.name /\ SharedIds(l, r) -> 1
      [] OTHER -> 2

\* Active occurrences of other files that share a name or an identifier.
Blocked(d, o) ==
    LET l == d.occ[o]
    IN {k \in DOMAIN d.occ :
           /\ d.occ[k].active
           /\ d.occ[k].file # l.file
           /\ SameCore(l, d.occ[k]) \/ SharedIds(l, d.occ[k])}

\* The best of them is compared first: ORDER BY the kind of the match, then
\* by age. No name or identifier of an occurrence changes in between.
Best(d, o, S) ==
    LET rank(k) == BlockRank(d.occ[o], d.occ[k])
    IN CHOOSE x \in S : \A y \in S : rank(x) < rank(y) \/ (rank(x) = rank(y) /\ x <= y)

\* A compatible name and a shared company identifier link automatically,
\* different identifiers never do, anything else is reviewed.
Assess(l, r) ==
    CASE ConflictingIds(l, r) -> "conflicting"
      [] SameCore(l, r) /\ SharedIds(l, r) -> "auto_linked"
      [] OTHER -> "candidate"

\* Nothing is stored for one identity, for identities the user keeps apart and
\* for a candidate the user has decided.
Settled(d, i, j) ==
    \/ i = j
    \/ {i, j} \in d.barred
    \/ /\ {i, j} \in DOMAIN d.cand
       /\ d.cand[{i, j}].status \in {"user_confirmed", "user_rejected"}

\* store_identity_candidate
StoreCandidate(d, l, r) ==
    LET i == Canonical(d, d.occ[l].identity)
        j == Canonical(d, d.occ[r].identity)
        pair == {i, j}
        key == Lower({CoreOf[d.occ[l].name], CoreOf[d.occ[r].name]})
        allowed == ~UserLocked(d, i) /\ ~UserLocked(d, j)
        assessed == Assess(d.occ[l], d.occ[r])
        status == IF assessed = "auto_linked" /\ ~allowed THEN "candidate" ELSE assessed
        stored == [d EXCEPT !.cand = [p \in DOMAIN @ \cup {pair} |->
                      IF p = pair THEN [status |-> status, key |-> key] ELSE @[p]]]
        linked == IF status = "auto_linked" THEN Merge(stored, i, j, FALSE) ELSE stored
    IN IF Settled(d, i, j) THEN d
       ELSE Only({RefreshGroups(x, {key}) : x \in {linked}})

-----------------------------------------------------------------------------
(* The semantic analysis and the user's corrections *)

Quiet == run.phase \in {"idle", "stuck"} /\ command.stage = "none"

\* A command may start beside a run only when Overlap allows it.
MayStart == command.stage = "none" /\ (Overlap \/ Quiet)

\* A new current analysis of the file replaces the previous one.
Analyse(f, c) ==
    /\ MayStart
    /\ budget.analyses > 0
    /\ analysis' = [analysis EXCEPT ![f] =
                       [number |-> @.number + 1, name |-> c.name, ids |-> c.ids]]
    /\ budget' = [budget EXCEPT !.analyses = @ - 1]
    /\ UNCHANGED <<corrected, resolution, db, run, command, apart>>

\* store_semantic_correction: the correction is stored first ...
Correct(f, n) ==
    /\ MayStart
    /\ budget.corrections > 0
    /\ corrected' = [corrected EXCEPT ![f] = n]
    /\ command' = [stage |-> "stored", file |-> f]
    /\ budget' = [budget EXCEPT !.corrections = @ - 1]
    /\ UNCHANGED <<analysis, resolution, db, run, apart>>

\* Mutant: the file keeps its completed state.
InvalidateNothing ==
    /\ command.stage = "stored"
    /\ command' = [command EXCEPT !.stage = "invalidated"]
    /\ UNCHANGED <<analysis, corrected, resolution, db, run, budget, apart>>

\* ... then the file's resolution is invalidated (last_run_id is cleared) ...
Invalidate ==
    /\ command.stage = "stored"
    /\ LET f == command.file
       IN /\ resolution' = IF resolution[f].status = "none" THEN resolution
                           ELSE [resolution EXCEPT ![f].status = "pending"]
          /\ run' = [run EXCEPT !.seen = @ \ {f}]
    /\ command' = [command EXCEPT !.stage = "invalidated"]
    /\ UNCHANGED <<analysis, corrected, db, budget, apart>>

-----------------------------------------------------------------------------
(* A resolver run *)

NoRun == [phase |-> "idle", force |-> FALSE, seen |-> {}, queue |-> {},
          left |-> 0, rights |-> {}, assessed |-> {}, cancelled |-> FALSE]

Running == run.phase \notin {"idle", "stuck"}

\* begin_identity_resolver_run: a unique index admits one running run.
Begin(force) == run' = [NoRun EXCEPT !.phase = "list", !.force = force]

\* The correction's command goes on with a run, or fails on the running one.
BeginAfterCorrection ==
    /\ command.stage = "invalidated"
    /\ IF run.phase = "idle" THEN Begin(FALSE) ELSE UNCHANGED run
    /\ command' = [stage |-> "none", file |-> 0]
    /\ UNCHANGED <<analysis, corrected, resolution, db, budget, apart>>

\* resolve_identities, and the run that follows a semantic batch.
Resolve(force) ==
    /\ run.phase = "idle"
    /\ MayStart
    /\ Begin(force)
    /\ UNCHANGED <<analysis, corrected, resolution, db, command, budget, apart>>

\* identity_files_to_process; `seen` holds the files whose last run is this one.
FilesToProcess(force) ==
    {f \in DOMAIN analysis \ run.seen :
        \/ force
        \/ resolution[f].status \in {"none", "pending", "cancelled", "failed"}
        \/ resolution[f].analysis # analysis[f].number}

\* The next page of files, or the end of the run.
ListFiles ==
    /\ run.phase = "list"
    /\ LET files == FilesToProcess(run.force)
       IN run' = IF run.cancelled \/ files = {} THEN NoRun
                 ELSE [run EXCEPT !.phase = "file", !.queue = files]
    /\ UNCHANGED <<analysis, corrected, resolution, db, command, budget, apart>>

NextPage ==
    /\ run.phase = "file"
    /\ run.queue = {} \/ run.cancelled
    /\ run' = [run EXCEPT !.phase = "list", !.queue = {}]
    /\ UNCHANGED <<analysis, corrected, resolution, db, command, budget, apart>>

\* An occurrence whose value changed is a new statement of the document: what
\* the user separated was the old one.
Unchanged(d, e) ==
    {p \in apart : \A o \in p : d.occ[o].name = e.occ[o].name}

\* Synchronise one file, then read its occurrence and those to compare it with.
SynchronizeFile ==
    /\ run.phase = "file" /\ run.queue # {} /\ ~run.cancelled
    /\ LET f == Lower(run.queue)
           d == Synchronized(db, f)
           o == Existing(d, f)
       IN /\ ~FieldTaken(db, f)
          /\ db' = d
          /\ apart' = Unchanged(db, d)
          /\ resolution' = [resolution EXCEPT ![f] =
                               [status |-> "pending", analysis |-> analysis[f].number]]
          /\ run' = [run EXCEPT !.phase = "pair", !.left = o, !.rights = Blocked(d, o),
                         !.seen = @ \cup {f}]
    /\ UNCHANGED <<analysis, corrected, command, budget>>

\* The transaction is rolled back and the run ends as failed.
SynchronizeFails ==
    /\ run.phase = "file" /\ run.queue # {} /\ ~run.cancelled
    /\ FieldTaken(db, Lower(run.queue))
    /\ run' = NoRun
    /\ UNCHANGED <<analysis, corrected, resolution, db, command, budget, apart>>

\* Assess one pair, once per run, and store the outcome.
ComparePair ==
    /\ run.phase = "pair" /\ run.rights # {} /\ ~run.cancelled
    /\ LET r == Best(db, run.left, run.rights)
           pair == {run.left, r}
       IN /\ db' = IF pair \in run.assessed THEN db ELSE StoreCandidate(db, run.left, r)
          /\ run' = [run EXCEPT !.rights = @ \ {r}, !.assessed = @ \cup {pair}]
    /\ UNCHANGED <<analysis, corrected, resolution, command, budget, apart>>

\* mark_identity_file_resolution
MarkFile ==
    /\ run.phase = "pair"
    /\ run.rights = {} \/ run.cancelled
    /\ LET f == Lower(run.queue)
       IN /\ resolution' = [resolution EXCEPT ![f].status =
                               IF run.cancelled THEN "cancelled" ELSE "completed"]
          /\ run' = [run EXCEPT !.phase = "file", !.queue = @ \ {f}, !.left = 0,
                         !.rights = {}, !.seen = @ \cup {f}]
    /\ UNCHANGED <<analysis, corrected, db, command, budget, apart>>

\* cancel_identity_resolution
Cancel ==
    /\ Running /\ ~run.cancelled
    /\ run' = [run EXCEPT !.cancelled = TRUE]
    /\ UNCHANGED <<analysis, corrected, resolution, db, command, budget, apart>>

\* The process dies: the run's row stays running and nothing ever ends it.
Crash ==
    /\ Running
    /\ run' = [NoRun EXCEPT !.phase = "stuck"]
    /\ command' = [stage |-> "none", file |-> 0]
    /\ UNCHANGED <<analysis, corrected, resolution, db, budget, apart>>

-----------------------------------------------------------------------------
(* The user's decisions *)

Across(d, i, j) == {{a, b} : a \in Holding(d, i), b \in Holding(d, j)}

Decides == MayStart /\ budget.decisions > 0
              /\ budget' = [budget EXCEPT !.decisions = @ - 1]

\* decide_identity_candidate(Confirm): merge what the candidate's two
\* identities have become.
Confirm(pair) ==
    /\ Decides
    /\ db.cand[pair].status \in OpenStatuses
    /\ LET l == Lower(pair)
           i == Canonical(db, l)
           j == Canonical(db, CHOOSE x \in pair : x # l)
           merged == Merge(db, i, j, TRUE)
       IN /\ i # j
          /\ db' = RefreshGroups([merged EXCEPT !.cand[pair].status = "user_confirmed"],
                                 {db.cand[pair].key})
          /\ apart' = apart \ Across(db, i, j)
    /\ UNCHANGED <<analysis, corrected, resolution, run, command>>

\* decide_identity_candidate(Reject | KeepSeparate)
Reject(pair) ==
    /\ Decides
    /\ db.cand[pair].status \in OpenStatuses
    /\ LET l == Lower(pair)
           i == Canonical(db, l)
           j == Canonical(db, CHOOSE x \in pair : x # l)
       IN /\ i # j
          /\ db' = RefreshGroups([Bar(db, i, j) EXCEPT !.cand[pair].status = "user_rejected"],
                                 {db.cand[pair].key})
          /\ apart' = apart \cup Across(db, i, j)
    /\ UNCHANGED <<analysis, corrected, resolution, run, command>>

\* merge_identity_records
UserMerge(i, j) ==
    /\ Decides
    /\ ActiveIdentity(db, i)
    /\ LET k == Canonical(db, j)
       IN /\ k # i
          /\ db' = Merge(db, i, k, TRUE)
          /\ apart' = apart \ Across(db, i, k)
    /\ UNCHANGED <<analysis, corrected, resolution, run, command>>

\* unlink_identity_occurrence: the occurrence gets a locked identity of its
\* own, kept apart from the one it leaves, which is locked too.
Unlink(o) ==
    /\ Decides
    /\ db.occ[o].active
    /\ LET i == db.occ[o].identity
           new == Len(db.ident) + 1
           split == [WithIdentity(db, TRUE) EXCEPT !.occ[o].identity = new,
                                                   !.ident[i].locked = TRUE]
       IN /\ ActiveHolding(db, i) # {o}
          /\ db' = RefreshFiles(Bar(split, i, new), {db.occ[o].file})
          /\ apart' = apart \cup {{o, k} : k \in Holding(db, i) \ {o}}
    /\ UNCHANGED <<analysis, corrected, resolution, run, command>>

-----------------------------------------------------------------------------

Init ==
    /\ budget \in Budgets
    /\ analysis \in [budget.files -> {[number |-> 1, name |-> c.name, ids |-> c.ids] :
                                         c \in budget.contents}]
    /\ corrected = [f \in Files |-> NoName]
    /\ resolution = [f \in Files |-> [status |-> "none", analysis |-> 0]]
    /\ db = [occ |-> <<>>, ident |-> <<>>, cand |-> <<>>, barred |-> {},
             rel |-> {}, listed |-> {}]
    /\ run = NoRun
    /\ command = [stage |-> "none", file |-> 0]
    /\ apart = {}

UserStep ==
    \/ \E f \in DOMAIN analysis, c \in budget.contents : Analyse(f, c)
    \/ \E f \in DOMAIN analysis, n \in Corrections : Correct(f, n)
    \/ Invalidate
    \/ BeginAfterCorrection
    \/ \E force \in BOOLEAN : Resolve(force)
    \/ Cancel
    \/ \E pair \in DOMAIN db.cand : Confirm(pair) \/ Reject(pair)
    \/ \E i, j \in DOMAIN db.ident : UserMerge(i, j)
    \/ \E o \in DOMAIN db.occ : Unlink(o)

RunStep ==
    \/ ListFiles
    \/ NextPage
    \/ SynchronizeFile
    \/ SynchronizeFails
    \/ ComparePair
    \/ MarkFile

Next == UserStep \/ RunStep \/ Crash

Spec == Init /\ [][Next]_vars

\* The run's thread and a started command's thread are scheduled; no process
\* dies.
FairSpec ==
    /\ Init /\ [][UserStep \/ RunStep]_vars
    /\ WF_vars(RunStep)
    /\ WF_vars(Invalidate) /\ WF_vars(BeginAfterCorrection)

-----------------------------------------------------------------------------

Pairs == {{q[1], q[2]} : q \in {r \in (1..MaxIdentities) \X (1..MaxIdentities) : r[1] # r[2]}}

TypeOK ==
    /\ \A o \in DOMAIN db.occ :
          /\ db.occ[o].file \in Files
          /\ db.occ[o].name \in Names
          /\ db.occ[o].identity \in DOMAIN db.ident
    /\ Len(db.ident) <= MaxIdentities
    /\ \A i \in DOMAIN db.ident : db.ident[i].into \in 0..Len(db.ident)
    /\ \A p \in DOMAIN db.cand : p \in Pairs /\ db.cand[p].status \in Statuses
    /\ db.barred \subseteq Pairs
    /\ db.listed \subseteq Names
    /\ run.seen \subseteq Files

\* Every occurrence, retired ones included, is held by an identity that was
\* not merged away, so a merged identity never comes back with a document.
OccurrencesAreHome ==
    \A o \in DOMAIN db.occ : ActiveIdentity(db, db.occ[o].identity)

\* What the user separated by rejecting a match or unlinking an occurrence
\* stays separate until the user joins it, whatever is merged with either side
\* later, by the resolver or by the user.
KeptApart ==
    \A p \in apart : \A o, k \in p : o # k => db.occ[o].identity # db.occ[k].identity

\* The file's relations are those of its active occurrences.
RelationsAreCurrent ==
    db.rel = {<<db.occ[o].file, db.occ[o].identity>> :
                 o \in {k \in DOMAIN db.occ : db.occ[k].active}}

\* A proposal that awaits the user is in a listed review group.
ProposalIsListed ==
    \A p \in DOMAIN db.cand :
        (/\ db.cand[p].status \in OpenStatuses
         /\ \A i \in p : ActiveIdentity(db, i))
            => db.cand[p].key \in db.listed

LockedIsLeftAloneStep ==
    RunStep =>
         \A o \in DOMAIN db.occ :
            db'.occ[o].identity # db.occ[o].identity =>
               ~db.ident[db.occ[o].identity].locked
                 /\ (db'.occ[o].identity \in DOMAIN db.ident =>
                        ~db.ident[db'.occ[o].identity].locked)

\* The resolver neither moves an occurrence out of an identity the user locked
\* nor moves one into it.
LockedIsLeftAlone == [][LockedIsLeftAloneStep]_vars

\* Once no command or run is under way, a file marked completed for its
\* current analysis is represented by the value the user sees.
CompletedIsCurrent ==
    Quiet => \A f \in DOMAIN analysis :
        (/\ resolution[f].status = "completed"
         /\ resolution[f].analysis = analysis[f].number)
          => {db.occ[o].name : o \in {k \in DOMAIN db.occ :
                 db.occ[k].file = f /\ db.occ[k].active}} = {EffectiveName(f)}

\* Two documents with different company identifiers are not linked by the
\* resolver alone.
\* The code does not keep it: see the README.
ConflictsAreSeparate ==
    (run.phase = "idle" /\ FilesToProcess(FALSE) = {}) =>
        \A a, b \in DOMAIN db.occ :
            (/\ db.occ[a].active /\ db.occ[b].active
             /\ db.occ[a].identity = db.occ[b].identity
             /\ ~db.ident[db.occ[a].identity].locked)
                => ~ConflictingIds(db.occ[a], db.occ[b])

\* A corrected file can be synchronised.
\* The code does not keep it: see the README.
CorrectionIsProcessed ==
    ~(run.phase = "file" /\ run.queue # {} /\ FieldTaken(db, Lower(run.queue)))

\* Every run ends, and a file that was analysed or corrected is resolved by
\* the runs that follow.
RunEnds == Running ~> run.phase = "idle"

=============================================================================
