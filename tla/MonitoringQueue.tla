-------------------------- MODULE MonitoringQueue --------------------------
(***************************************************************************)
(* Continuous monitoring of one root: the file-system watcher, the durable *)
(* queue of monitoring jobs, and run_monitoring_cycle, which drains hints, *)
(* reconciles gaps, samples files until they are stable, catalogues them   *)
(* and settles their jobs.                                                 *)
(*                                                                         *)
(* Sources: crates/application/src/monitoring.rs (the cycle and the user's *)
(* commands), crates/persistence/src/monitoring.rs (one transaction per    *)
(* step), crates/platform/src/lib.rs (hints and their coalescing).         *)
(*                                                                         *)
(* append_watch_event reuses any active job of the same coalescing key, so *)
(* the jobs of a root are a function of the key: jobs[k] is the latest job *)
(* of key k.  The two whole-root keys (overflow's NULL and rescan's ".")   *)
(* are one, Root.  Debounce, retry and lease times are not kept: any set   *)
(* of queued jobs may be due.  Cycles of one process are serialised by a   *)
(* mutex, so a claim is fenced by the job's status alone; claims of two    *)
(* processes are the subject of MonitoringLease.                           *)
(***************************************************************************)
EXTENDS Naturals, FiniteSets, SequencesExt

CONSTANTS
  NumPaths,      \* files of the root that may exist
  MaxAttempts,   \* MAXIMUM_ATTEMPTS
  MaxEdits,      \* bound: changes the user makes on disk
  MaxFaults,     \* bound: failures of the watcher, the disk or the database
  MaxCommands,   \* bound: commands the user gives
  MaxCrashes,    \* bound: restarts of the application
  Conditions     \* what else may happen: see AllConditions

AllConditions == {
  "rename",        \* files are renamed
  "reuse",         \* ... and a path is used again before the catalogue knows
                   \* that its file has gone
  "into_excluded", \* a file is renamed to an excluded path
  "vanish",        \* a file goes while its last change is still a hint
  "start_fault",   \* starting the watcher may fail
  "mid_cycle"}     \* the user gives commands while a cycle runs

\* What is assumed of the parameters.
BoundAssumption ==
  /\ NumPaths \in Nat \ {0} /\ MaxAttempts \in Nat \ {0}
  /\ {MaxEdits, MaxFaults, MaxCommands, MaxCrashes} \subseteq Nat
  /\ Conditions \subseteq AllConditions

Paths == 1..NumPaths
None == 0            \* a path that is NULL
Root == 0            \* the coalescing key of the whole root
Keys == Paths \cup {Root}

(* A file: its native identity and its stamp (size and modification time). *)
Absent == [id |-> 0, ver |-> 0]
Versions == 0..(NumPaths + MaxEdits)
Files == [id : Versions, ver : Versions]

Kinds == {"created", "modified", "removed", "moved", "rescan"}
Scopes == {"file", "unknown"}
Active == {"pending", "waiting", "processing"}
Settled == {"none", "completed", "review", "failed", "excluded"}

Jobs == [status : Active \cup Settled, kind : Kinds, before : Keys, after : Keys,
         scope : Scopes, attempts : 0..MaxAttempts, sample : Versions]

NoJob == [status |-> "none", kind |-> "rescan", before |-> None, after |-> None,
          scope |-> "file", attempts |-> 0, sample |-> 0]

VARIABLES
  disk, catalog,      \* what is on disk, and the current file_locations
  excluded,           \* monitoring_exclusions
  paused, pending,    \* workspace_monitoring_state: paused,
                      \* startup_reconciliation_pending
  enabled, status,    \* root_monitoring_settings: enabled, status
  watching, hints,    \* the monitor of the root, and what it has queued
  jobs,               \* monitoring_jobs
  pc, cycle,          \* the thread of the running cycle and its locals
  cmd, newborn,       \* the user's command under way; the monitors that each
                      \* thread has started and not yet published
  told,               \* ghost: what ended in review or failed and was not
                      \* catalogued since
  edits, faults, commands, crashes   \* how much of the bounds is used

world == <<disk, edits, told>>
settings == <<excluded, paused, enabled>>
watch == <<watching, hints, newborn>>
bounds == <<faults, commands, crashes>>
vars == <<disk, catalog, excluded, paused, pending, enabled, status, watching,
          hints, jobs, pc, cycle, cmd, newborn, told, edits, faults, commands, crashes>>

Starters == {"cycle", "command"}

-----------------------------------------------------------------------------
(* Hints.  A hint is [kind, before, after]; its scope is observed when it  *)
(* is drained.                                                             *)

Hint(kind, before, after) == [kind |-> kind, before |-> before, after |-> after]
RescanHint == Hint("rescan", None, None)

\* What an unstarted monitor has heard.
NoMonitor == {Hint("none", None, None)}

\* path_hints and hints_from_notify_event: a removal or a creation knows it
\* is about a file, a write or a rename looks whether the path still exists.
ScopeOf(h) ==
  IF h.kind \in {"created", "removed"} \/ \E p \in {h.before, h.after} \ {None} : disk[p] # Absent
  THEN "file" ELSE "unknown"

Event(h) == [kind |-> h.kind, before |-> h.before, after |-> h.after, scope |-> ScopeOf(h)]

\* merge_event_kinds on one key: a creation absorbs the writes that follow.
Merged(raw) ==
  {h \in raw : ~ (h.kind = "modified" /\ Hint("created", None, h.after) \in raw)}

\* The order of the map's keys, (native_key, path_after, path_before), where
\* only renames have a native key: not the order in which things happened.
Before(g, h) ==
  LET rank(x) == <<IF x.kind = "moved" THEN 1 ELSE 0, x.after, x.before>>
      a == rank(g)
      b == rank(h)
  IN  \/ a[1] < b[1]
      \/ a[1] = b[1] /\ a[2] < b[2]
      \/ a[1] = b[1] /\ a[2] = b[2] /\ a[3] < b[3]

\* coalesce_change_hints: a rescan of the root supersedes everything else.
CoalesceHints(raw) ==
  IF RescanHint \in raw THEN <<RescanHint>> ELSE SetToSortSeq(Merged(raw), Before)

-----------------------------------------------------------------------------
(* The queue: one operator per statement of persistence/monitoring.rs.     *)

KeyOf(e) == IF e.after # None THEN e.after ELSE e.before

WidestScope(a, b) == IF "unknown" \in {a, b} THEN "unknown" ELSE "file"

Coalesced(j, e) ==
  IF j.status \in Active
  THEN [j EXCEPT !.status = "pending", !.kind = e.kind, !.sample = 0,
                 !.scope = WidestScope(@, e.scope),
                 !.before = IF @ # None THEN @ ELSE e.before,
                 !.after = IF e.after # None THEN e.after ELSE @]
  ELSE [NoJob EXCEPT !.status = "pending", !.kind = e.kind, !.scope = e.scope,
                     !.before = e.before, !.after = e.after]

\* append_watch_events_and_coalesce: all events in one transaction.
Enqueue(js, events) ==
  FoldLeft(LAMBDA q, e : [q EXCEPT ![KeyOf(e)] = Coalesced(@, e)], js, events)

\* A mutant of Claimed: a claim discards the sample of the claim before.
ClaimedAfresh(j) == [j EXCEPT !.status = "processing", !.sample = 0]

\* attempt_count + 1, terminal when that reaches maximum_attempts.
Retried(j, next) ==
  [j EXCEPT !.attempts = @ + 1,
            !.status = IF j.attempts + 1 >= MaxAttempts THEN "failed" ELSE next]

\* claim_monitoring_job_ids: the job as it is, stability sample included.
Claimed(j) == [j EXCEPT !.status = "processing"]

Owned(k) == jobs[k].status = "processing"

\* recover_processing_jobs_for_workspace
Recovered(js) ==
  [k \in Keys |-> IF js[k].status = "processing" THEN Retried(js[k], "waiting") ELSE js[k]]

\* normalize_interrupted_monitoring_jobs (no other active job has the key)
Normalized(js) ==
  [k \in Keys |-> IF js[k].status = "processing" THEN Retried(js[k], "pending") ELSE js[k]]

\* update_monitoring_job_stability_sample, of a file that is not stable yet
Sampled(j, ver) == [j EXCEPT !.status = "waiting", !.sample = ver]

\* requeue_monitoring_job_after_cancellation
Requeued(j) == [j EXCEPT !.status = "waiting", !.sample = 0]

ResumedStatus == IF enabled THEN "active" ELSE "paused"

-----------------------------------------------------------------------------
(* Reconciliation: what an enumeration says against the catalogue.         *)

\* reconcile_root_gap and reconcile_directory_gap.  seen is the enumeration:
\* files that it missed because it was cut short or met errors are Absent,
\* and then no absence is inferred.
GapEvents(seen, complete) ==
  LET written == {p \in Paths \ excluded : seen[p] # Absent /\ seen[p].ver # catalog[p].ver}
      gone == IF complete THEN {p \in Paths : seen[p] = Absent /\ catalog[p] # Absent} ELSE {}
      event(p) ==
        IF p \in gone
        THEN [kind |-> "removed", before |-> p, after |-> None, scope |-> "file"]
        ELSE [kind |-> IF catalog[p] = Absent THEN "created" ELSE "modified",
              before |-> None, after |-> p, scope |-> "file"]
  IN  {event(p) : p \in written \cup gone}

EmptyCycle == [seenPending |-> FALSE, cancelled |-> FALSE, exclusions |-> {},
               batch |-> [k \in Keys |-> NoJob], todo |-> {}, prepared |-> {}, current |-> None,
               seen |-> [p \in Paths |-> Absent], complete |-> TRUE, found |-> {}]

Idle == pc = "idle"
Step(from, to) == pc = from /\ pc' = to
Quiet == cmd = "none"

Init ==
  /\ \E present \in SUBSET Paths :
       disk = [p \in Paths |-> IF p \in present THEN [id |-> p, ver |-> p] ELSE Absent]
  /\ catalog = disk
  /\ excluded = {} /\ paused = FALSE /\ pending = TRUE
  /\ enabled = TRUE /\ status = "starting"
  /\ watching = FALSE /\ hints = {}
  /\ newborn = [t \in Starters |-> NoMonitor]
  /\ jobs = [k \in Keys |-> NoJob]
  /\ pc = "idle" /\ cycle = EmptyCycle /\ cmd = "none" /\ told = {}
  /\ edits = 0 /\ faults = 0 /\ commands = 0 /\ crashes = 0

-----------------------------------------------------------------------------
(* The disk changes, and every started monitor hears of it.                *)

Heard(h) ==
  /\ hints' = IF watching THEN hints \cup {h} ELSE hints
  /\ newborn' = [t \in Starters |->
                   IF newborn[t] = NoMonitor THEN NoMonitor ELSE newborn[t] \cup {h}]

Edited ==
  /\ edits < MaxEdits
  /\ edits' = edits + 1
  /\ UNCHANGED <<catalog, excluded, paused, pending, enabled, status, watching, jobs,
                 pc, cycle, cmd, told, bounds>>

\* Hints that no job stands for yet.
Undrained == hints \cup newborn["cycle"] \cup newborn["command"]

\* A rename is still to be catalogued and p is its source, its target.
Vacated(p) ==
  \/ \E k \in Paths \ {p} : jobs[k].status \in Active /\ jobs[k].before = p
  \/ \E h \in Undrained : h.kind = "moved" /\ h.before = p

Target(p) ==
  \/ jobs[p].status \in Active /\ jobs[p].before \notin {None, p}
  \/ \E h \in Undrained : h.kind = "moved" /\ h.after = p

\* Nothing is known or queued about p.
Unused(p) ==
  /\ catalog[p] = Absent /\ jobs[p].status \notin Active /\ ~ Vacated(p)
  /\ \A h \in Undrained : p \notin {h.before, h.after}

CreateFile(p) ==
  /\ disk[p] = Absent
  /\ "reuse" \in Conditions \/ Unused(p)
  /\ LET v == NumPaths + edits + 1 IN disk' = [disk EXCEPT ![p] = [id |-> v, ver |-> v]]
  /\ Heard(Hint("created", None, p)) /\ Edited

WriteFile(p) ==
  /\ disk[p] # Absent
  /\ disk' = [disk EXCEPT ![p].ver = NumPaths + edits + 1]
  /\ Heard(Hint("modified", None, p)) /\ Edited

\* The scope of a change cannot be observed once its file has gone.
Observed(p) == "vanish" \in Conditions \/ \A h \in Undrained : h.after # p

RemoveFile(p) ==
  /\ disk[p] # Absent
  /\ "reuse" \in Conditions \/ ~ Target(p)
  /\ Observed(p)
  /\ disk' = [disk EXCEPT ![p] = Absent]
  /\ Heard(Hint("removed", p, None)) /\ Edited

RenameFile(p, q) ==
  /\ "rename" \in Conditions
  /\ p # q /\ disk[p] # Absent /\ disk[q] = Absent
  /\ Observed(p)
  /\ "into_excluded" \in Conditions \/ q \notin excluded
  /\ "reuse" \in Conditions \/ (Unused(q) /\ ~ Target(p))
  /\ disk' = [disk EXCEPT ![p] = Absent, ![q] = disk[p]]
  /\ Heard(Hint("moved", p, q)) /\ Edited

Edit == \E p \in Paths :
  \/ CreateFile(p) \/ WriteFile(p) \/ RemoveFile(p) \/ \E q \in Paths : RenameFile(p, q)

Fault == faults < MaxFaults /\ faults' = faults + 1
NoFault == UNCHANGED faults

\* The rows that ended in review or failed stay in the user's list.
Tell ==
  LET ended == {k \in Keys : /\ jobs'[k].status \in {"review", "failed"}
                             /\ jobs[k].status # jobs'[k].status}
      news == UNION {{k, jobs'[k].before, jobs'[k].after} \ ({None} \ {k}) : k \in ended}
      past == {p \in Paths : catalog'[p] # catalog[p] /\ catalog'[p] = disk[p]}
              \cup IF jobs'[Root].status = "completed" THEN {Root} ELSE {}
  IN  told' = (told \ past) \cup news

-----------------------------------------------------------------------------
(* run_monitoring_cycle                                                    *)

BeginCycle ==
  /\ ~ paused
  /\ Step("idle", "start")
  /\ cycle' = [EmptyCycle EXCEPT !.seenPending = pending]
  /\ UNCHANGED <<world, catalog, settings, pending, status, watch, jobs, cmd, bounds>>

\* start_workspace_monitors: the pause flag is read again, and a monitor
\* started here hears of changes before it is published.
StartMonitor ==
  /\ IF ~ paused /\ enabled /\ ~ watching
     THEN \/ /\ Step("start", "publish") /\ NoFault
             /\ newborn' = [newborn EXCEPT !["cycle"] = {}]
             /\ UNCHANGED status
          \/ /\ "start_fault" \in Conditions
             /\ Step("start", "drain") /\ Fault
             /\ status' = "failed"
             /\ UNCHANGED newborn
     ELSE Step("start", "drain") /\ NoFault /\ UNCHANGED <<newborn, status>>
  /\ UNCHANGED <<world, catalog, settings, pending, watching, hints, jobs, cycle, cmd,
                 commands, crashes>>

\* The end of start_root_monitor: the map takes the new monitor whatever it
\* held.
Publish(t) ==
  /\ status' = "active"
  /\ watching' = TRUE
  /\ hints' = newborn[t]
  /\ newborn' = [newborn EXCEPT ![t] = NoMonitor]

PublishMonitor ==
  /\ Step("publish", "drain")
  /\ Publish("cycle")
  /\ UNCHANGED <<world, catalog, settings, pending, jobs, cycle, cmd, bounds>>

DrainHints ==
  /\ Step("drain", "reconcile") /\ NoFault
  /\ hints' = {}
  /\ LET raw == CoalesceHints(hints)
     IN  jobs' = Enqueue(jobs, [i \in DOMAIN raw |-> Event(raw[i])])
  /\ UNCHANGED <<world, catalog, settings, pending, status, watching, newborn, cycle, cmd,
                 commands, crashes>>

\* A mutant: no reconciliation is owed for hints that were not persisted.
DrainForgets ==
  /\ watching /\ hints # {}
  /\ Step("drain", "idle") /\ Fault
  /\ hints' = {} /\ cycle' = EmptyCycle
  /\ UNCHANGED <<world, catalog, settings, pending, status, watching, newborn, jobs, cmd,
                 commands, crashes>>

\* persist_change_hints fails: the hints are gone, a reconciliation is owed.
DrainNotPersisted ==
  /\ watching /\ hints # {}
  /\ Step("drain", "idle") /\ Fault
  /\ hints' = {} /\ pending' = TRUE /\ cycle' = EmptyCycle
  /\ UNCHANGED <<world, catalog, settings, status, watching, newborn, jobs, cmd,
                 commands, crashes>>

\* drain_hints_with_cancellation fails, or the channel has overflowed.
DrainFails ==
  /\ watching
  /\ Step("drain", "reconcile") /\ Fault
  /\ \/ status' \in {"offline", "overflowed"} /\ UNCHANGED hints
     \/ UNCHANGED status /\ hints' = {}
  /\ jobs' = Enqueue(jobs, <<Event(RescanHint)>>)
  /\ UNCHANGED <<world, catalog, settings, pending, watching, newborn, cycle, cmd,
                 commands, crashes>>

\* enumerate_regular_files: all files, or those met before a limit or an
\* error; never an absence it cannot prove.
Enumerated(partial) ==
  \/ /\ NoFault
     /\ cycle' = [cycle EXCEPT !.seen = disk, !.complete = TRUE]
  \/ /\ partial /\ Fault
     /\ \E met \in SUBSET Paths :
          cycle' = [cycle EXCEPT !.seen = [p \in Paths |-> IF p \in met THEN disk[p] ELSE Absent],
                                 !.complete = FALSE]

\* run_startup_reconciliation, when the pending flag read at the start says so.
Reconcile ==
  /\ IF cycle.seenPending /\ ~ cycle.cancelled
     THEN IF enabled
          THEN Step("reconcile", "diff") /\ status' = "reconciling" /\ Enumerated(TRUE)
          ELSE Step("reconcile", "complete") /\ NoFault /\ UNCHANGED <<status, cycle>>
     ELSE Step("reconcile", "claim") /\ NoFault /\ UNCHANGED <<status, cycle>>
  /\ UNCHANGED <<world, catalog, settings, pending, watch, jobs, cmd, commands, crashes>>

\* enumerate_regular_files itself fails: the root waits for a rescan job.
ReconcileFails ==
  /\ cycle.seenPending /\ ~ cycle.cancelled /\ enabled
  /\ Step("reconcile", "complete") /\ Fault
  /\ status' = "failed"
  /\ jobs' = Enqueue(jobs, <<Event(RescanHint)>>)
  /\ UNCHANGED <<world, catalog, settings, pending, watch, cycle, cmd, commands, crashes>>

\* What a reconciliation leaves in the root's status.
GapStatus(events) ==
  IF ~ cycle.complete THEN "overflowed"
  ELSE IF events = {} THEN ResumedStatus ELSE "reconciling"

\* The events of reconcile_root_gap; an incomplete one also defers itself.
DiffRoot ==
  /\ pc = "diff" /\ NoFault
  /\ IF cycle.cancelled
     THEN pc' = "claim" /\ UNCHANGED <<jobs, status>>
     ELSE LET events == GapEvents(cycle.seen, cycle.complete)
              later == IF cycle.complete THEN {} ELSE {Event(RescanHint)}
          IN  /\ pc' = "complete"
              /\ status' = GapStatus(events)
              /\ jobs' = Enqueue(jobs, SetToSeq(events \cup later))
  /\ cycle' = [cycle EXCEPT !.seen = EmptyCycle.seen, !.complete = TRUE]
  /\ UNCHANGED <<world, catalog, settings, pending, watch, cmd, commands, crashes>>

\* mark_startup_reconciliation_completed
CompleteReconciliation ==
  /\ Step("complete", "claim")
  /\ IF cycle.cancelled
     THEN UNCHANGED <<pending, status>>
     ELSE /\ pending' = FALSE
          /\ status' = IF status = "reconciling" THEN ResumedStatus ELSE status
  /\ UNCHANGED <<world, catalog, settings, watch, jobs, cycle, cmd, bounds>>

-----------------------------------------------------------------------------
(* process_due_monitoring_jobs: claim, screen one job after the other,     *)
(* then catalogue the prepared ones together.                              *)

\* due_monitoring_job_ids: a processing job is due once its lease has expired.
DueJobs == {k \in Keys : jobs[k].status \in Active}

\* The exclusions are read before the claim; a processing job is due when a
\* recovery failed and its lease has expired.
ClaimDue ==
  /\ pc = "claim"
  /\ IF cycle.cancelled \/ ~ enabled
     THEN pc' = "idle" /\ cycle' = EmptyCycle /\ UNCHANGED jobs
     ELSE \E due \in SUBSET DueJobs :
            IF due = {} THEN pc' = "idle" /\ cycle' = EmptyCycle /\ UNCHANGED jobs
            ELSE /\ pc' = "screen"
                 /\ jobs' = [k \in Keys |-> IF k \in due THEN Claimed(jobs[k]) ELSE jobs[k]]
                 /\ cycle' = [cycle EXCEPT !.exclusions = excluded, !.todo = due,
                              !.batch = [k \in Keys |-> IF k \in due THEN jobs'[k] ELSE NoJob]]
  /\ UNCHANGED <<world, catalog, settings, pending, status, watch, cmd, bounds>>

Screened(k) ==
  cycle' = [cycle EXCEPT !.todo = @ \ {k}, !.batch[k] = NoJob, !.current = None,
                         !.seen = EmptyCycle.seen, !.complete = TRUE]
PreparedJob(k) == cycle' = [cycle EXCEPT !.todo = @ \ {k}, !.prepared = @ \cup {k}]

\* A fenced update: it changes nothing when the job was queued again since.
Fenced(k, j) == jobs' = IF Owned(k) THEN [jobs EXCEPT ![k] = j] ELSE jobs
Finish(k, outcome) == Fenced(k, [jobs[k] EXCEPT !.status = outcome])

\* An error that leaves process_due_monitoring_jobs.  (When prepared jobs
\* are rescheduled first, the recovery finds only the others; both count one
\* attempt and queue the job again.)
Abort == pc' = "recover" /\ UNCHANGED <<jobs, cycle>>

\* reschedule_monitoring_job, or the error when the job is no longer ours.
Reschedule(k) ==
  IF Owned(k)
  THEN /\ jobs' = [jobs EXCEPT ![k] = Retried(@, "waiting")]
       /\ Screened(k) /\ UNCHANGED pc
  ELSE Abort

\* Whole-root work: a rescan, or an event whose scope was not a file's.
NeedsGap(j) == j.kind = "rescan" \/ j.scope # "file"

EffectivePath(j) == IF j.after # None THEN j.after ELSE j.before

ScreenRest == UNCHANGED <<disk, edits, catalog, settings, pending, watch, cmd, commands, crashes>> /\ Tell

ScreenCancelled(k) ==
  /\ cycle.cancelled
  /\ Fenced(k, Requeued(jobs[k])) /\ Screened(k)
  /\ UNCHANGED <<pc, status>> /\ NoFault

ScreenGap(k) ==
  /\ ~ cycle.cancelled /\ NeedsGap(cycle.batch[k])
  /\ pc' = "gap"
  /\ \/ /\ NoFault /\ cycle' = [cycle EXCEPT !.current = k, !.seen = disk, !.complete = TRUE]
     \/ /\ Fault
        /\ \E met \in SUBSET Paths :
             cycle' = [cycle EXCEPT !.current = k, !.complete = FALSE,
                         !.seen = [p \in Paths |-> IF p \in met THEN disk[p] ELSE Absent]]
  /\ UNCHANGED <<jobs, status>>

ScreenFile(k) ==
  LET j == cycle.batch[k]
      p == j.after
  IN  /\ ~ cycle.cancelled /\ ~ NeedsGap(j)
      /\ UNCHANGED status
      /\ CASE EffectivePath(j) \in cycle.exclusions ->
                Finish(k, "excluded") /\ Screened(k) /\ UNCHANGED pc /\ NoFault
           [] EffectivePath(j) \notin cycle.exclusions /\ j.kind = "removed" ->
                PreparedJob(k) /\ UNCHANGED <<pc, jobs>> /\ NoFault
           [] OTHER ->
                \* sample_stability
                \/ /\ disk[p] # Absent /\ NoFault
                   /\ IF j.sample = disk[p].ver
                      THEN PreparedJob(k) /\ UNCHANGED <<pc, jobs>>
                      ELSE IF Owned(k)
                      THEN /\ jobs' = [jobs EXCEPT ![k] = Sampled(@, disk[p].ver)]
                           /\ Screened(k) /\ UNCHANGED pc
                      ELSE Abort
                \/ disk[p] = Absent /\ Reschedule(k) /\ NoFault
                \/ Reschedule(k) /\ Fault                \* the file cannot be read
                \/ disk[p] # Absent /\ Fault             \* hidden, remote or too large
                   /\ Finish(k, "review") /\ Screened(k) /\ UNCHANGED pc

ScreenJob ==
  /\ pc = "screen"
  /\ \E k \in cycle.todo : ScreenCancelled(k) \/ ScreenGap(k) \/ ScreenFile(k)
  /\ ScreenRest

\* The second half of a whole-root job.  A rescan cut short is retried; an
\* event of unknown scope is done with whatever the enumeration saw.
GapJob ==
  /\ pc = "gap" /\ NoFault
  /\ LET k == cycle.current
         events == GapEvents(cycle.seen, cycle.complete)
         queued == Enqueue(jobs, SetToSeq(events))
         retry == cycle.batch[k].kind = "rescan" /\ ~ cycle.complete
     IN  IF cycle.cancelled
         THEN /\ Fenced(k, Requeued(jobs[k])) /\ Screened(k)
              /\ pc' = "screen" /\ UNCHANGED status
         ELSE /\ status' = GapStatus(events)
              /\ jobs' = [queued EXCEPT ![k] =
                   IF queued[k].status # "processing" THEN @
                   ELSE IF retry THEN Retried(@, "waiting")
                   ELSE [@ EXCEPT !.status = "completed"]]
              /\ Screened(k) /\ pc' = "screen"
  /\ ScreenRest

\* recover_processing_jobs_for_workspace, which may fail in turn: its jobs
\* then stay claimed until their lease expires.
RecoverJobs ==
  /\ Step("recover", "idle")
  /\ \/ NoFault /\ jobs' = Recovered(jobs)
     \/ Fault /\ UNCHANGED jobs
  /\ cycle' = EmptyCycle
  /\ UNCHANGED <<disk, edits, catalog, settings, pending, status, watch, cmd, commands, crashes>>
  /\ Tell

EndScreen ==
  /\ pc = "screen" /\ cycle.todo = {}
  /\ pc' = IF cycle.prepared = {} THEN "wrap" ELSE "catalog"
  /\ UNCHANGED <<world, catalog, settings, pending, status, watch, jobs, cycle, cmd, bounds>>

-----------------------------------------------------------------------------
(* reconcile_prepared_jobs and finish_incremental_pipeline                 *)

Prepared == {cycle.batch[k] : k \in cycle.prepared}
CurrentPath(j) == IF j.kind = "removed" THEN None ELSE j.after

\* PreparedJob.missing_path (moved_source_path for a move)
MissingPath(j) ==
  IF j.kind = "removed" \/ (j.kind = "moved" /\ j.before # j.after) THEN j.before ELSE None

\* persist_observation: an identity has one current location, and a location
\* one current file.
Persisted(files) ==
  [p \in Paths |->
     IF p \in files THEN disk[p]
     ELSE IF \E q \in files : disk[q].id = catalog[p].id THEN Absent
     ELSE catalog[p]]

\* advance_monitoring_job_stage(Catalog), the targeted scan (the prepared
\* paths and same-size duplicate candidates of the catalogue), the check that
\* no file drifted from its stable sample, and the persisted output.
CatalogPrepared ==
  LET wanted == {CurrentPath(j) : j \in Prepared} \ {None}
      drifted == \E j \in Prepared :
        /\ CurrentPath(j) # None
        /\ disk[CurrentPath(j)] # Absent /\ disk[CurrentPath(j)].ver # j.sample
  IN  /\ pc = "catalog"
      /\ \/ /\ (\E k \in cycle.prepared : ~ Owned(k)) \/ drifted
            /\ NoFault
            /\ Abort /\ UNCHANGED catalog
         \/ Fault /\ Abort /\ UNCHANGED catalog
         \/ /\ \A k \in cycle.prepared : Owned(k)
            /\ ~ drifted /\ NoFault
            /\ \E extra \in SUBSET {p \in Paths : wanted # {} /\ catalog[p] # Absent} :
                 \E met \in SUBSET {p \in wanted \cup extra : disk[p] # Absent} :
                   /\ cycle.cancelled \/ met = {p \in wanted \cup extra : disk[p] # Absent}
                   /\ catalog' = Persisted(met)
                   /\ cycle' = [cycle EXCEPT !.found = met]
            /\ pc' = "missing"
            /\ UNCHANGED jobs
      /\ UNCHANGED <<disk, edits, settings, pending, status, watch, cmd, commands, crashes>>
      /\ Tell

\* mark_current_path_missing
Without(paths) == [p \in Paths |-> IF p \in paths THEN Absent ELSE catalog[p]]

\* The sources of moves and the removed paths leave the catalogue; a move
\* whose destination was not catalogued fails the batch, after what the jobs
\* before it did.
RetireMissing ==
  LET gone == {MissingPath(j) : j \in Prepared} \ {None}
      lost == {j \in Prepared : j.kind = "moved" /\ MissingPath(j) # None
                                /\ j.after \notin cycle.found}
  IN  /\ pc = "missing"
      /\ IF lost = {}
         THEN /\ catalog' = Without(gone)
              /\ status' = IF status = "overflowed" THEN status ELSE ResumedStatus
              /\ pc' = "finish" /\ UNCHANGED <<jobs, cycle>>
         ELSE /\ \E done \in SUBSET (gone \ {MissingPath(j) : j \in lost}) : catalog' = Without(done)
              /\ Abort /\ UNCHANGED status
      /\ UNCHANGED <<disk, edits, settings, pending, watch, cmd, bounds>>
      /\ Tell

\* Content, semantics, proposal and search; then each job is settled.
FinishPipeline ==
  /\ pc = "finish"
  /\ \/ /\ cycle.cancelled /\ NoFault
        /\ jobs' = [k \in Keys |-> IF k \in cycle.prepared /\ Owned(k) THEN Requeued(jobs[k]) ELSE jobs[k]]
        /\ pc' = "wrap" /\ UNCHANGED cycle
     \/ Fault /\ Abort
     \/ /\ ~ cycle.cancelled /\ NoFault
        /\ jobs' = [k \in Keys |->
             IF k \notin cycle.prepared \/ ~ Owned(k) THEN jobs[k]
             ELSE [jobs[k] EXCEPT !.status =
                     IF CurrentPath(cycle.batch[k]) \in cycle.found \cup {None}
                     THEN "completed" ELSE "review"]]
        /\ pc' = "wrap" /\ UNCHANGED cycle
  /\ UNCHANGED <<disk, edits, catalog, settings, pending, status, watch, cmd, commands, crashes>>
  /\ Tell

\* The end of process_due_monitoring_jobs.
WrapUp ==
  /\ Step("wrap", "idle")
  /\ status' = IF status = "reconciling" /\ \A k \in Keys : jobs[k].status \notin Active
               THEN "active" ELSE status
  /\ cycle' = EmptyCycle
  /\ UNCHANGED <<world, catalog, settings, pending, watch, jobs, cmd, bounds>>

-----------------------------------------------------------------------------
(* The user's commands, and restarts.                                      *)

Command ==
  /\ Quiet /\ commands < MaxCommands /\ commands' = commands + 1
  /\ Idle \/ "mid_cycle" \in Conditions
  /\ UNCHANGED <<world, catalog, jobs, pc, faults, crashes>>

\* pause_monitoring: the desktop cancels the running cycle first; then the
\* flag, then the monitor.
PauseMonitoring ==
  /\ Command /\ ~ paused
  /\ paused' = TRUE /\ cmd' = "stop"
  /\ cycle' = [cycle EXCEPT !.cancelled = TRUE]
  /\ UNCHANGED <<excluded, pending, enabled, status, watch>>

StopMonitor ==
  /\ cmd = "stop" /\ cmd' = "none"
  /\ watching' = FALSE /\ hints' = {}
  /\ status' = "paused"
  /\ UNCHANGED <<world, catalog, settings, pending, newborn, jobs, pc, cycle, bounds>>

\* resume_monitoring
ResumeMonitoring ==
  /\ Command /\ paused
  /\ paused' = FALSE /\ cmd' = "owe"
  /\ UNCHANGED <<excluded, pending, enabled, status, watch, cycle>>

\* set_monitored_root_enabled
EnableRoot ==
  /\ Command /\ ~ enabled
  /\ enabled' = TRUE /\ status' = "active" /\ cmd' = "owe"
  /\ UNCHANGED <<excluded, paused, pending, watch, cycle>>

DisableRoot ==
  /\ Command /\ enabled
  /\ enabled' = FALSE /\ status' = "paused" /\ cmd' = "stop"
  /\ UNCHANGED <<excluded, paused, pending, watch, cycle>>

\* mark_startup_reconciliation_pending, before the monitor is started again.
OweReconciliation ==
  /\ cmd = "owe" /\ cmd' = "start"
  /\ pending' = TRUE
  /\ UNCHANGED <<world, catalog, settings, status, watch, jobs, pc, cycle, bounds>>

RestartMonitor ==
  /\ cmd = "start"
  /\ IF ~ paused /\ enabled /\ ~ watching
     THEN cmd' = "publish" /\ newborn' = [newborn EXCEPT !["command"] = {}]
     ELSE cmd' = "none" /\ UNCHANGED newborn
  /\ UNCHANGED <<world, catalog, settings, pending, status, watching, hints, jobs, pc, cycle, bounds>>

PublishRestarted ==
  /\ cmd = "publish" /\ cmd' = "none"
  /\ Publish("command")
  /\ UNCHANGED <<world, catalog, settings, pending, jobs, pc, cycle, bounds>>

AddExclusion(p) ==
  /\ Command /\ p \notin excluded
  /\ "into_excluded" \in Conditions \/ ~ Target(p)
  /\ excluded' = excluded \cup {p}
  /\ UNCHANGED <<paused, pending, enabled, status, watch, cycle, cmd>>

\* remove_monitoring_exclusion: one transaction with the owed reconciliation.
RemoveExclusion(p) ==
  /\ Command /\ p \in excluded
  /\ excluded' = excluded \ {p} /\ pending' = TRUE
  /\ UNCHANGED <<paused, enabled, status, watch, cycle, cmd>>

\* cancel_monitoring
CancelCycle ==
  /\ Command /\ ~ Idle
  /\ cycle' = [cycle EXCEPT !.cancelled = TRUE]
  /\ UNCHANGED <<settings, pending, status, watch, cmd>>

UserCommand ==
  \/ PauseMonitoring \/ ResumeMonitoring \/ EnableRoot \/ DisableRoot \/ CancelCycle
  \/ \E p \in Paths : AddExclusion(p) \/ RemoveExclusion(p)

\* The application stops anywhere and is launched again:
\* restore_monitoring_runtime (its start of the monitor is the next cycle's).
Restart ==
  /\ crashes < MaxCrashes /\ crashes' = crashes + 1
  /\ jobs' = Normalized(jobs) /\ pending' = TRUE
  /\ watching' = FALSE /\ hints' = {} /\ newborn' = [t \in Starters |-> NoMonitor]
  /\ pc' = "idle" /\ cycle' = EmptyCycle /\ cmd' = "none"
  /\ UNCHANGED <<disk, edits, catalog, settings, status, faults, commands>>
  /\ Tell

CycleStep ==
  \/ BeginCycle \/ StartMonitor \/ PublishMonitor
  \/ DrainHints \/ DrainNotPersisted \/ DrainFails
  \/ Reconcile \/ ReconcileFails \/ DiffRoot \/ CompleteReconciliation
  \/ ClaimDue \/ ScreenJob \/ GapJob \/ RecoverJobs \/ EndScreen
  \/ CatalogPrepared \/ RetireMissing \/ FinishPipeline \/ WrapUp

CommandStep == StopMonitor \/ OweReconciliation \/ RestartMonitor \/ PublishRestarted

Next == Edit \/ CycleStep \/ UserCommand \/ CommandStep \/ Restart

Spec == Init /\ [][Next]_vars

\* The loop of start_monitoring_loop runs cycles for ever, a queued job becomes
\* due, and a command that was begun runs to its end.
Fairness ==
  /\ WF_vars(CycleStep)
  /\ WF_vars(CommandStep)
  /\ \A k \in Keys : SF_vars(ClaimDue /\ k \in cycle'.todo)

LiveSpec == Spec /\ Fairness

-----------------------------------------------------------------------------
TypeOK ==
  /\ disk \in [Paths -> Files] /\ catalog \in [Paths -> Files]
  /\ excluded \subseteq Paths
  /\ {paused, pending, enabled, watching} \subseteq BOOLEAN
  /\ status \in {"starting", "active", "paused", "reconciling", "overflowed", "offline", "failed"}
  /\ jobs \in [Keys -> Jobs] /\ told \subseteq Keys
  /\ pc \in {"idle", "start", "publish", "drain", "reconcile", "diff", "complete", "claim",
             "screen", "gap", "recover", "catalog", "missing", "finish", "wrap"}
  /\ cmd \in {"none", "stop", "owe", "start", "publish"}
  /\ edits \in 0..MaxEdits /\ faults \in 0..MaxFaults
  /\ commands \in 0..MaxCommands /\ crashes \in 0..MaxCrashes

\* Nothing is left to do: no hint, no queued job, no owed reconciliation.
Settles ==
  /\ Idle /\ Quiet /\ watching /\ ~ paused /\ enabled /\ ~ pending
  /\ hints = {} /\ \A k \in Keys : jobs[k].status \notin Active

\* The user can see that a path was not catalogued: its job ended in review
\* or failed, or the root is marked overflowed or failed.
Reported(p) == {p, Root} \cap told # {} \/ status \in {"overflowed", "failed"}

\* No change is lost: when monitoring has nothing left to do, the catalogue is
\* what is on disk, except for excluded paths and for paths the user is told
\* about.
NoLostChange ==
  Settles => \A p \in Paths \ excluded : catalog[p] = disk[p] \/ Reported(p)

\* A cycle gives back every job it claimed, however it ends: screened,
\* cancelled, failed half way, or raced by an event that queued the job again.
\* (Only a recovery that itself fails leaves a claim, until its lease expires.)
ClaimsReleased ==
  Idle /\ faults = 0 => \A k \in Keys : jobs[k].status # "processing"

\* Once the user leaves the disk alone, the queue empties: no job is sampled,
\* retried or queued again for ever.
QueueEmpties == <>[](paused \/ ~ enabled \/ \A k \in Keys : jobs[k].status \notin Active)
=============================================================================
