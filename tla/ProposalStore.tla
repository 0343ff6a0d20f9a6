---------------------------- MODULE ProposalStore ----------------------------
(***************************************************************************)
(* The organization proposals of one monitored folder: numbered revisions   *)
(* of a proposal, the decisions of the user that override the engine, and   *)
(* the builders that compute and store revisions concurrently.              *)
(*                                                                          *)
(* Source: crates/persistence/src/proposal.rs (each function holds the one  *)
(* database connection, so it is one step), crates/application/src/         *)
(* proposal.rs and rules.rs (the builders, a sequence of such steps), and   *)
(* the commands of apps/desktop/src-tauri/src/lib.rs.                       *)
(*                                                                          *)
(* What the engine computes for a file is abstracted to the version of the  *)
(* file it was computed from and the decision it applied.                   *)
(***************************************************************************)
EXTENDS Naturals, FiniteSetsExt

CONSTANTS
  Builders,       \* "generate", "override", "rules" and "monitor": one of each runs at a time
  Files,
  Decisions,      \* what a user may decide for a file
  MaxProposals, MaxRevision, MaxVersion,   \* bounds
  Incremental,    \* monitoring updates the current proposal incrementally
  None

Ids == 1..MaxProposals
Numbers == 1..MaxRevision

VARIABLES
  version,     \* the catalogue: the current version of each file, 0 when unknown
  dirty,       \* files changed since monitoring last built
  status, cur, \* local_organization_proposals: status and current revision
  revs,        \* local_organization_proposal_revisions, with their operations
  decided,     \* local_organization_user_overrides: the active decision
  acked,       \* the command that stored the decision has reported success
  approved,    \* the revision that was current when the proposal was approved
  b            \* the builders

vars == <<version, dirty, status, cur, revs, decided, acked, approved, b>>
store == <<status, cur, revs>>

Active == {"ready_for_review", "reviewed", "approved"}
Statuses == {None, "cancelled", "superseded"} \cup Active

\* One operation of a revision.
Op(v, d) == [version |-> v, decision |-> d, stale |-> FALSE]
Ops == [version : 1..MaxVersion, decision : Decisions \cup {None}, stale : BOOLEAN] \cup {None}
Revision(ops, cancelled) == [ops |-> ops, cancelled |-> cancelled]
Revisions == [ops : [Files -> Ops], cancelled : BOOLEAN]

\* What is assumed of the parameters: a catalogued file has a version, and None
\* is no status, decision or revision.
StoreAssumption ==
  /\ MaxProposals \in Nat /\ MaxRevision \in Nat /\ MaxVersion \in Nat \ {0}
  /\ Incremental \in BOOLEAN
  /\ None \notin Active \cup {"cancelled", "superseded"}
  /\ None \notin Decisions /\ None \notin Revisions

Idle == [pc |-> "idle", id |-> 0, source |-> [f \in Files |-> 0], near |-> {}, base |-> [f \in Files |-> None],
         num |-> 0, overrides |-> [f \in Files |-> None], mode |-> "full", dirty |-> {}, file |-> None]

Init ==
  /\ version = [f \in Files |-> 1] /\ dirty = {}
  /\ status = [i \in Ids |-> None] /\ cur = [i \in Ids |-> 0]
  /\ revs = [i \in Ids |-> [n \in Numbers |-> None]]
  /\ decided = [i \in Ids |-> [f \in Files |-> None]]
  /\ acked = [i \in Ids |-> {}] /\ approved = [i \in Ids |-> 0]
  /\ b = [x \in Builders |-> Idle]

-----------------------------------------------------------------------------
(* Reading.                                                                *)

\* current_organization_proposal_id_for_root.
Current == {i \in Ids : status[i] \in Active}

\* ProposalId::new: an id no builder and no row has.
Unused ==
  LET free == {i \in Ids : status[i] = None /\ \A x \in Builders : b[x].id # i}
  IN  {i \in free : \A j \in free : i <= j}

\* organization_proposal: the operations of the current revision.
CurrentOps(i) == IF cur[i] = 0 THEN [f \in Files |-> None] ELSE revs[i][cur[i]].ops

\* organization_proposal_revision_number, plus one.
NextNumber(i) == 1 + Max({0} \cup {n \in Numbers : revs[i][n] # None})

Stays == UNCHANGED <<version, dirty, store, decided, acked, approved>>

-----------------------------------------------------------------------------
(* The builders.                                                           *)

\* generate_organization_proposal_for_root, with or without recompute_current.
BeginGenerate ==
  /\ "generate" \in Builders /\ b["generate"].pc = "idle"
  /\ \E i \in Current \cup Unused : b' = [b EXCEPT !["generate"] = [Idle EXCEPT !.pc = "source", !.id = i]]
  /\ Stays

\* recompute_after_rule_change.
BeginRules ==
  /\ "rules" \in Builders /\ b["rules"].pc = "idle"
  /\ \E i \in Current : b' = [b EXCEPT !["rules"] = [Idle EXCEPT !.pc = "source", !.id = i]]
  /\ Stays

\* finish_incremental_pipeline and update_organization_proposal_incrementally:
\* a new proposal when there is none, else a revision of the current one.
BeginMonitor ==
  /\ "monitor" \in Builders /\ b["monitor"].pc = "idle" /\ dirty # {}
  /\ \E i \in IF Current = {} THEN Unused ELSE Current :
       b' = [b EXCEPT !["monitor"] =
               [Idle EXCEPT !.pc = IF Incremental /\ i \in Current THEN "base" ELSE "source",
                            !.mode = IF Incremental /\ i \in Current THEN "incremental" ELSE "full",
                            !.id = i, !.dirty = dirty]]
  /\ dirty' = {}
  /\ UNCHANGED <<version, store, decided, acked, approved>>

\* set_organization_proposal_override: store_organization_override, then a
\* full build.
BeginOverride ==
  /\ "override" \in Builders /\ b["override"].pc = "idle"
  /\ \E i \in Ids, f \in Files, d \in Decisions :
       /\ CurrentOps(i)[f] # None
       /\ decided' = [decided EXCEPT ![i][f] = d]
       /\ acked' = [acked EXCEPT ![i] = @ \ {f}]
       /\ b' = [b EXCEPT !["override"] = [Idle EXCEPT !.pc = "source", !.id = i, !.file = f]]
  /\ UNCHANGED <<version, dirty, store, approved>>

\* organization_source_for_root, preferences and rules.
ReadSource(x) ==
  /\ b[x].pc = "source" /\ b[x].mode = "full"
  /\ b' = [b EXCEPT ![x].pc = "number", ![x].source = version]
  /\ Stays

\* build_organization_proposal_incremental: the previous operations, and the
\* files whose names or destinations they share with the changed ones; too many
\* of them make it a full build.
ReadBase(x) ==
  /\ b[x].pc = "base"
  /\ \/ \E near \in SUBSET Files :
          /\ b[x].dirty \subseteq near
          /\ b' = [b EXCEPT ![x].pc = "source", ![x].near = near, ![x].base = CurrentOps(b[x].id)]
     \/ b' = [b EXCEPT ![x].pc = "source", ![x].mode = "full"]
  /\ Stays

\* organization_source_for_files.
ReadNeighbours(x) ==
  /\ b[x].pc = "source" /\ b[x].mode = "incremental"
  /\ b' = [b EXCEPT ![x].pc = "number", ![x].source = version]
  /\ Stays

\* organization_proposal_revision_number.
ReadNumber(x) ==
  /\ b[x].pc = "number"
  /\ b' = [b EXCEPT ![x].pc = "overrides", ![x].num = NextNumber(b[x].id)]
  /\ Stays

\* A mutant: the decisions are those the current revision applies.
ReadApplied(x) ==
  /\ b[x].pc = "overrides"
  /\ b' = [b EXCEPT ![x].pc = "persist",
                   ![x].overrides = [f \in Files |-> LET o == CurrentOps(b[x].id)[f]
                                                    IN  IF o = None THEN None ELSE o.decision]]
  /\ Stays

\* organization_proposal_overrides.
ReadOverrides(x) ==
  /\ b[x].pc = "overrides"
  /\ b' = [b EXCEPT ![x].pc = "persist", ![x].overrides = decided[b[x].id]]
  /\ Stays

\* What the engine makes of what was read: build_full, or build_incremental
\* with the operations outside the neighbourhood copied.
Built(x) ==
  [f \in Files |->
     IF b[x].mode = "incremental" /\ f \notin b[x].near THEN b[x].base[f]
     ELSE IF b[x].source[f] = 0 THEN None
     ELSE Op(b[x].source[f], b[x].overrides[f])]

Done(x) ==
  /\ b' = [b EXCEPT ![x] = Idle]
  /\ UNCHANGED <<version, dirty, decided, approved>>
  /\ acked' = IF b[x].file = None THEN acked ELSE [acked EXCEPT ![b[x].id] = @ \cup {b[x].file}]

\* A mutant: a row with the same number is replaced.
MayReplace(x) ==
  LET i == b[x].id IN
  /\ b[x].num \in Numbers
  /\ status[i] # None => Current \subseteq {i}

\* UNIQUE (proposal_id, revision_number), and one active proposal per root.
MayPersist(x) ==
  LET i == b[x].id IN
  /\ b[x].num \in Numbers /\ revs[i][b[x].num] = None
  /\ status[i] # None => Current \subseteq {i}

\* A mutant of Persist: the status of the proposal is kept.
PersistKeepingStatus(x) ==
  LET i == b[x].id IN
  /\ b[x].pc = "persist" /\ MayPersist(x)
  /\ revs' = [revs EXCEPT ![i][b[x].num] = Revision(Built(x), FALSE)]
  /\ status' = [j \in Ids |-> IF j = i THEN IF status[i] \in Active THEN status[i] ELSE "ready_for_review"
                              ELSE IF status[i] = None /\ status[j] \in Active THEN "superseded"
                              ELSE status[j]]
  /\ cur' = [cur EXCEPT ![i] = b[x].num]
  /\ Done(x)

\* persist_organization_proposal_with_meta and _incremental: a new proposal
\* supersedes the others, and the revision becomes the current one.
Persist(x) ==
  LET i == b[x].id IN
  /\ b[x].pc = "persist" /\ MayPersist(x)
  /\ revs' = [revs EXCEPT ![i][b[x].num] = Revision(Built(x), FALSE)]
  /\ status' = [j \in Ids |-> IF j = i THEN "ready_for_review"
                              ELSE IF status[i] = None /\ status[j] \in Active THEN "superseded"
                              ELSE status[j]]
  /\ cur' = [cur EXCEPT ![i] = b[x].num]
  /\ Done(x)

\* A mutant: the header follows a cancelled build too.
PersistPartial(x) ==
  LET i == b[x].id IN
  /\ x \in {"generate", "monitor"}
  /\ b[x].pc = "persist" /\ b[x].num \in Numbers /\ revs[i][b[x].num] = None
  /\ revs' = [revs EXCEPT ![i][b[x].num] = Revision([f \in Files |-> None], TRUE)]
  /\ status' = [status EXCEPT ![i] = IF @ = None THEN "cancelled" ELSE @]
  /\ cur' = [cur EXCEPT ![i] = b[x].num]
  /\ Done(x)

\* The same when the build was cancelled on the way: the partial revision is
\* stored, and the proposal keeps its status and its current revision.
PersistCancelled(x) ==
  LET i == b[x].id IN
  /\ x \in {"generate", "monitor"}
  /\ b[x].pc = "persist" /\ b[x].num \in Numbers /\ revs[i][b[x].num] = None
  /\ revs' = [revs EXCEPT ![i][b[x].num] = Revision([f \in Files |-> None], TRUE)]
  /\ status' = [status EXCEPT ![i] = IF @ = None THEN "cancelled" ELSE @]
  /\ Done(x) /\ UNCHANGED cur

\* The transaction fails; monitoring takes up its job again.
PersistRefused(x) ==
  /\ b[x].pc = "persist" /\ ~MayPersist(x)
  /\ dirty' = dirty \cup b[x].dirty
  /\ b' = [b EXCEPT ![x] = Idle]
  /\ UNCHANGED <<version, store, decided, acked, approved>>

-----------------------------------------------------------------------------
(* What else changes the tables.                                           *)

\* set_organization_proposal_status.
SetStatus(i, s) ==
  /\ s \in {"reviewed", "approved"} => status[i] \in {"ready_for_review", "reviewed"}
  /\ s = "cancelled" => status[i] \notin {None, "superseded"}
  /\ status' = [status EXCEPT ![i] = s]
  /\ approved' = IF s = "approved" THEN [approved EXCEPT ![i] = cur[i]] ELSE approved
  /\ UNCHANGED <<version, dirty, cur, revs, decided, acked, b>>

\* refresh_organization_proposal_drift.
RefreshDrift(i) ==
  /\ cur[i] # 0
  /\ revs' = [revs EXCEPT ![i][cur[i]].ops =
                [f \in Files |-> IF @[f] # None /\ @[f].version # version[f] THEN [@[f] EXCEPT !.stale = TRUE] ELSE @[f]]]
  /\ UNCHANGED <<version, dirty, status, cur, decided, acked, approved, b>>

\* A scan catalogues a new version of a file.
FileChanges(f) ==
  /\ version[f] < MaxVersion
  /\ version' = [version EXCEPT ![f] = @ + 1] /\ dirty' = dirty \cup {f}
  /\ UNCHANGED <<store, decided, acked, approved, b>>

Build(x) ==
  \/ ReadSource(x) \/ ReadBase(x) \/ ReadNeighbours(x) \/ ReadNumber(x) \/ ReadOverrides(x)
  \/ Persist(x) \/ PersistCancelled(x) \/ PersistRefused(x)

Next ==
  \/ BeginGenerate \/ BeginRules \/ BeginMonitor \/ BeginOverride
  \/ \E x \in Builders : Build(x)
  \/ \E i \in Ids : RefreshDrift(i) \/ \E s \in {"reviewed", "approved", "cancelled"} : SetStatus(i, s)
  \/ \E f \in Files : FileChanges(f)

Spec == Init /\ [][Next]_vars

-----------------------------------------------------------------------------
TypeOK ==
  /\ version \in [Files -> 0..MaxVersion] /\ dirty \subseteq Files
  /\ status \in [Ids -> Statuses] /\ cur \in [Ids -> 0..MaxRevision]
  /\ \A i \in Ids, n \in Numbers : revs[i][n] # None => revs[i][n].ops \in [Files -> Ops]
  /\ decided \in [Ids -> [Files -> Decisions \cup {None}]]
  /\ \A x \in Builders : b[x].num \in 0..(MaxRevision + 1)

\* A decision the user was told is stored is the one the current revision
\* applies, whatever builds run beside it: "overrides remain authoritative
\* through recomputation".
OverrideHonoured ==
  \A i \in Current : \A f \in acked[i] :
    CurrentOps(i)[f] # None => CurrentOps(i)[f].decision = decided[i][f]

\* An approval is for the revision that was current when it was given: a later
\* revision, however it comes about, has to be approved again.
ApprovedRevision ==
  \A i \in Ids : status[i] = "approved" => cur[i] = approved[i]

\* What is offered for review was computed to the end: "Cancelled partial
\* revisions are consistent and do not replace a prior valid proposal".
CurrentIsComplete ==
  \A i \in Ids :
    /\ status[i] \in Active => cur[i] # 0
    /\ cur[i] # 0 => ~revs[i][cur[i]].cancelled

HistoryIsKeptStep ==
  \A i \in Ids, n \in Numbers :
       /\ cur'[i] >= cur[i]
       /\ revs[i][n] # None =>
            \A f \in Files :
              LET old == revs[i][n].ops[f]  new == revs'[i][n].ops[f]
              IN  new = old \/ (old # None /\ new = [old EXCEPT !.stale = TRUE])

\* A slow build never replaces what a later one has stored: a stored revision
\* keeps its operations, except for the mark that a source has drifted.
HistoryIsKept == [][HistoryIsKeptStep]_vars
=============================================================================
