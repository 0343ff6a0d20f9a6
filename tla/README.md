# TLA+ models of ZEMO

ZEMO (working name *Supremacy*) is a local desktop file organizer: it watches
and catalogues folders, reads what the files are about, proposes a new
organization, and, after the user approves a frozen plan, moves the files.
Everything happens on one machine; what makes it hard is that many threads, a
second process, the operating system and the user work on the same rows and the
same files, and that any of them may stop.

These modules model the system from the event of a changed file to the rename on
disk and back. The heart, with proofs, is the **execution coordinator** with its
consent, its two journals and its recovery: moving somebody's files is the one
thing the program must not get wrong.

Paths below are relative to `src/`. `PROJECT.json` maps every definition to the
lines it models.

## The system

| Part | State | Operations | Talks to |
|---|---|---|---|
| Change monitors, `crates/platform/src/lib.rs` | bounded event channel, overflow flag, pending renames; previous snapshot of the poll | drain, pair renames, coalesce; poll and compare | monitoring |
| Monitoring, `crates/{application,persistence}/src/monitoring.rs` | watch events, one job per path, leases, exclusions, pending flags | cycle, claim, sample, reschedule, finish, recover, normalise at startup | monitors, scanner, proposals |
| Automatic mode, `apps/desktop/src-tauri/src/lib.rs` | mode, cancellation registry | activate, loop, gate, apply | monitoring, proposals, execution |
| Scanner and catalogue, `crates/{application/src/scanner.rs,catalog,persistence/src/lib.rs}` | scan sessions, files, locations, versions, digests, duplicate groups | full, consumer and targeted scans, mark missing | disk, database |
| Content analysis, `crates/application/src/{content,semantic}.rs`, `crates/persistence/src/lib.rs` | batches, extraction rows, search documents, review items, semantic analyses, corrections | run a batch over a worker pool, store results, retry, resolve, correct | catalogue, search |
| Semantic fields, `crates/knowledge/src/semantic.rs` | none (a function of the text) | classify, extract totals and dates, resolve conflicts | analysis |
| Identities, `crates/{application,persistence,knowledge}/src/identity.rs` | runs, occurrences, identities, candidates, constraints, relations, review groups | synchronise, compare, link, merge, reject, unlink, correct | analysis, search |
| Vector index, `crates/search/src/ann_index.rs`, `crates/persistence/src/ann_chunks.rs` | chunk rows, index in memory, snapshot, metadata | sync, rebuild, load, search | analysis, search |
| Embedding model, `crates/search/src/{model_manager,model_download,onnx_provider}.rs` | directory, staging, backup, status file, session | install, verify, load, embed, remove | index |
| Search, `crates/persistence/src/hybrid_search.rs`, `crates/search/src/ranking.rs` | (reads) | collect candidates, filter, score, page | all of the above |
| Rules and learning, `crates/{application,persistence,organizer}/src/rules.rs` | rules, order, suggestions, observations, projection | create, reorder, observe, accept, dismiss, refresh | engine, search |
| Organization engine, `crates/organizer/src` | none | compile a file, group, bundle, resolve collisions, update incrementally | proposals |
| Proposals, `crates/{application,persistence}/src/proposal.rs` | proposals, revisions, decisions, reviews | generate, update, override, approve, cancel, supersede | engine, execution |
| Execution planning, `crates/application/src/execution.rs` | none | from candidates to an ordered, reversible plan | proposals, coordinator |
| Execution coordinator, `crates/application/src/execution.rs` | journal lock, recovery guard (in memory); everything else in the database | approve, start, pause, cancel, recover, rollback, restart | database, external journal, worker, disk |
| Execution persistence, `crates/persistence/src/execution.rs` | sessions, consents, operations, executor requests, journal events | one transaction per method | coordinator |
| External journal, `crates/operations/src/lib.rs` | encrypted append-only file, hash chain per execution | append, flush, events | coordinator |
| Executor client, `apps/desktop/src-tauri/src/executor_client.rs` | child process, deadlines | open session, prepare, dispatch, reap | worker |
| Isolated executor, `workers/operation-executor` | session: next sequence, nonces seen, operations attempted | create directory, remove directory, rename without replacement | disk; coordinator over pipes |
| Platform adapters, `crates/platform-{macos,windows}` | open descriptors | no-replace rename, create and remove a directory | disk |
| Cross-volume transfer, `crates/operations/src/transfer.rs` | vault, temporary copy, journal | copy, verify, vault, publish, restore | disk (gate closed in every build) |

What makes it hard:

* **Concurrency.** Tauri runs each command on a blocking thread and no lock
  spans a command: only a single database call is atomic. `RecoveryGuard` keeps
  two recoveries apart and nothing else. Scans, analysis batches, resolver runs,
  monitoring cycles and user commands write the same rows from what they read
  some transactions earlier.
* **Two journals.** An event is committed to the database and afterwards
  appended to and flushed in the external journal. A crash, or a second command,
  can come in between.
* **A second process.** The worker outlives a crashed coordinator, may die
  before or after the mutation, and may answer too late. Other processes change
  names, files and folders between two system calls.
* **Copies.** Search documents, projections, relations, review groups, chunk
  rows and the vector index are copies of facts that change; each writer has to
  refresh the ones it touches.
* **Bounded things.** The event channel, poll budgets, retry limits, the fusion
  limit and page sizes decide what is dropped, and something must remember it.
* **Recovery** infers what happened from the disk, with a user who may have
  changed files meanwhile. **Consent** is checked in several transactions with
  times read earlier.

## Modules

| Module | What it is | Checked in |
|---|---|---|
| `ExecutionCoordinator` | the coordinator with both journals, the worker and the disk: one execution, any number of commands | `serial`, `overlap`, ... |
| `WriteAhead` | abstract: an effect only after its durable grant, and once | refined |
| `ConsentLifecycle` | challenge, dialog, attestation, expiry, invalidation, consumption, cancel, with times and nonces | `consent`, ... |
| `ConsentGate` | abstract: the states consent and session go through together | refined |
| `ExecutionPlanning` | from accepted candidates to an ordered plan, carried out and undone | `moving` |
| `ExecutorProtocol` | the authenticated session of client and worker over an unreliable wire | `moving`, `progress` |
| `SafeRename` | the adapters' three mutations, call by call, beside another process | `moving` |
| `RecoveryJournal` | the external journal as a file of lines, with failed writes and power loss | `moving` |
| `CrossVolumeTransfer` | copy, vault, publication and the way back | `moving` |
| `MonitoringQueue` | watcher, durable jobs and the monitoring cycle of one root | `monitoring`, `progress` |
| `MonitoringLease` | one job claimed by several processes | `monitoring` |
| `EventLedger` | abstract: a job ends only for the events it covered | refined |
| `ChangeHints` | what a batch of hints says about paths; coalescing shared by both monitors | (used by the next two) |
| `NativeWatcher` | channel, overflow flag and rename pairing on three platforms | `monitoring`, `progress` |
| `PollingMonitor` | the polling fallback with its budgets | `monitoring` |
| `AutomaticMode` | activation, loop, gates and the commands beside them | `monitoring`, `progress` |
| `Catalogue` | full, consumer and targeted scans and their transactions | `monitoring` |
| `ProposalStore` | proposals, revisions, decisions and concurrent builders | `organizing` |
| `ProposalEngine` | destinations, groups, bundles, collisions; full and incremental builds | `organizing` |
| `Rules` | rules, order, learning and the projection | `organizing` |
| `IdentityResolution` | resolver runs beside merges, rejections, unlinks and corrections | `organizing`, `progress` |
| `AnalysisStore` | versions, extraction results, search document, review items and analyses of one file | `understanding` |
| `AnalysisPool` | the worker pool of a content or semantic batch | `progress` |
| `SemanticFields` | document type, totals, dates, conflicts and status of one text | `understanding` |
| `AnnIndex` | chunk rows, memory index, snapshot and metadata | `understanding`, `progress` |
| `EmbeddingModel` | directory, staging, backup, status and session of the model | `understanding`, `progress` |
| `HybridSearch` | candidates, fusion, filters, scores and pages | `understanding` |
| `ExecutionCoordinatorProofs` | types, write-ahead and its refinement, consent before effects, applied means journalled, for overlapping commands; blocking, final statuses, cycles, and the records against the disk, one command at a time | |
| `ConsentLifecycleProofs` | the consent, through its refinement | |
| `MonitoringProofs` | the lease and its refinement; one monitoring cycle at a time and the gate of the automatic mode; the catalogue's group of the run `monitoring` | |
| `CatalogueProofs` | locations, digests and duplicate groups under overlapping scans | |
| `MovingProofs` | the worker's session, the adapters' system calls, the external journal, the transfer between volumes, and three groups of properties of the run `moving` | |
| `OrganizingProofs` | the order of the rules, the identities, and three groups of properties of the run `organizing` | |
| `ProposalStoreProofs` | history, completeness, approval and decisions under concurrent builds | |
| `AnalysisPoolProofs` | one worker per candidate, and what the counts and the end of a batch say | |
| `MC*` | the instances TLC checks | |

### ExecutionCoordinator

*State.* `status`, `recovery`, `pauseReq`, `cancelReq`, `consent`, `opStatus`,
`requests` and `journal` are the database rows of one execution; `ext` is how
long a prefix of `journal` the external journal holds; `locked` is the
in-memory journal diagnostics; `loc[o]` is what the disk shows of operation `o`:
exactly where it was (`src`), exactly where the plan puts it (`dst`), or neither
(`other`). `pc`, `cur` (the journal cursor), `todo`, `done`, `op`, `rid`,
`seen`, `facts`, `amb` are the locals of a command; `unsynced` says that its
last event is committed and not yet appended. `worker[t]` is the child process
of a moving command, `orphans` the requests of workers whose coordinator
crashed. `moved` and `touched` are ghosts: the requests that had their effect
and the operations whose files the user changed.

*Steps.* A step is one transaction, one journal append and flush, one message to
or from the worker, or one effect on the disk. `PersistEvent` is
`persist_execution_event_inner`: cursor check, event, session status, recovery
state and operation status in one step; `SyncEvent` and `SyncFails` are the
`synchronize_external_journal` that follows. `start_execution` and
`rollback_execution` share their loop (`Loop*`, `Intent`, `Dispatch`,
`Receive`, `Observe`, ...), parameterised by the direction, as their code is
parallel. `RecoverBegin` to `Assess` are `recover_execution`; `CrashRestart` is
the end of every thread and the constructor of the next service, which then
reconciles (`booting`) before it serves commands.

*Abstractions.* A request is its index; sessions, digests and MACs are left out,
and `executor_request_binding_error` is the check that the stored sequence
number leads to exactly the request's own intent event. Removing an emptied
source directory is an operation like a move (its object is there or not).
Recovery reads cursor, events and facts in one step: an event appended between
these reads would only make the cursor stale, which is an error the model has.
`UserChange` concerns objects no applied operation depends on. Counters,
retention rows, progress callbacks and error texts are left out. The database
chain is valid (`require_valid_database_journal` does not fail): corruption of
the encrypted database is not modelled.

### ConsentLifecycle

*State.* `state`, `stored`, `attestedAt`, `consumedAt` are the consent row,
`status` the session, `current` whether proposal, policy, root and sources still
are what the plan was frozen from, `now` the wall clock, which may be set back.
Each command holds the challenge it works with (`held`) and the time it read
(`at`). The MAC covers nonce, times and the frozen plan, so its checks come
down to comparing the challenge. `cancel_execution` of an approved session ends
in `finish_execution`, which may fail on a stale cursor: either outcome is
possible here. `clear_execution_consent_challenge` changes nothing because its
transaction is dropped without a commit.

### Planning, session, renames, journal, transfer

`ExecutionPlanning` starts from any candidates of a small tree, drops the
blocked ones and what depends on them, stages cycles and swaps, adds
directories and clean-up, orders the result (`dependency_order`), then runs it
and rolls it back step by step. Fingerprints, quotas and the safety policies are
one nondeterministic refusal per candidate. A destination that is a directory
prefix of another destination is not detected when planning; the step then fails
and no file is lost.

`ExecutorProtocol` keeps every frame on the wire and delivers any of them at any
time: late, twice, out of order, to a later child, or never. A MAC is the fact
that a frame is genuine. The handler checks the paths again before each of its
attempts, so a retried rename is never applied twice; what a retry could get
wrong is the answer.

`SafeRename` is for the adapter of either `platform`, which the initial state
chooses. It has one name per directory; a chain of parents is opened without
following links in one step per path; sizes are identified with contents. The
operating system's calls are external, Windows' share modes and locks included.
The other process makes up to `MaxChanges` changes between any two calls. On
Windows a failed query after the rename is reported as an I/O error, which the
executor treats as ambiguous. The rename call itself may report one of the
errors `Misreports` although the system performed it; the handler retries a
sharing or lock violation and answers any other error. That those two mean that
nothing was done is assumed of the call (`Misreports` has `"io"` only): with
`"sharing"` in it TLC finds a rename performed by one attempt and answered as
declined by the next.

`RecoveryJournal` leaves the cipher out; a write may stop after any line or in
the middle of one (`Cuts`). `CrossVolumeTransfer` models the code behind a gate
that every build keeps closed (`Enabled = TRUE`). Its way back has no intent of
its own, restores whatever the vault holds, and an error other than a failed
publication after the vault rename leaves the source in the vault; there is no
recovery code to model. Link counts are left out.

### Monitoring

`MonitoringQueue`: `append_watch_event` reuses any active job of the same key,
so the jobs of a root are a function of the key. Debounce, retry and lease times
are not kept: any set of queued jobs may be due. `Conditions` names what else may
happen in an instance (renames, reuse of a path, a command in mid-cycle, a
watcher that cannot start...). Cycles of one process are serialised by a mutex;
claims of two processes are `MonitoringLease`, with tokens, expiry, renewal,
attempts, recovery and normalisation at launch, which refines `EventLedger`.

`NativeWatcher` and `PollingMonitor` share the small tree and the meaning of
hints of `ChangeHints`; which events a change causes is external and differs per
`Backend`. The poll's snapshot is one step; a cancelled one returns nothing and
promotes nothing. Stopping and starting the native watcher is not modelled.

`AutomaticMode` has one workspace with one root: a job is attempted, a revision
is eligible or not, and `Race` says which commands run beside the loop.

`Catalogue` has one path per inode (no hard links); a fingerprint is read in one
step; directories, labels, media types, progress and issues are left out.
`complete_scan` never retires vanished files: only monitoring does. Duplicate
groups are refreshed by full and targeted scans, not by consumer scans.

### Proposals, engine, rules, identities

`ProposalStore` has one step per transaction of the builders (full, override,
rules, monitoring); the content of a revision is, per file, the version and the
decision it was made from. A proposal is approved by its id, without its
revision number. `ProposalEngine` leaves out text sanitising, path lengths,
scores, summaries, diffs and the virtual tree; a name is a sequence of parts
whose folded and sorted order the instance gives. Incremental updates never use
the consumer mode, as in the code. `Rules`: one condition per rule, kinds of
actions not told apart. `IdentityResolution`: one supplier organization per
file, with its name, the name without its legal suffix, and its company
identifiers; a run has one step per transaction. Person and project policies,
aliases, roles and merge history are left out.

### Analysis, fields, index, model, search

`AnalysisStore` is one file written by scans, batches, retries, deletion,
semantic analyses, corrections and review commands, which overlap in every part.
A result or an analysis stored when its version had ended, because a newer one
was scanned or the file is gone, is `late`: a ghost, like `last`, the last
finished result of each version that was not cancelled. `AnalysisPool` is one batch: page loop,
workers sharing an index and two flags, bounded channel, receiving loop.
`SemanticFields` computes confidences in ten-thousandths (the code uses f32) on
texts given as lists of mentions; ties never decide a value; invoices are the
one document type with business fields. `AnnIndex` has one chunk per file and
both mutexes as they are taken; the copies that replace the snapshot or the
metadata may be cut short (`PersistCutShort`, `CopyFails`), and metadata that do
not parse fail to open. `EmbeddingModel` has assets that are good or
bad, no lock on the disk, and a mutex on the session; with `OneCommand` the
buttons of the view wait for the command, without it the view was reopened
meanwhile. `HybridSearch` scores in
ten-thousandths; amounts and dates are equal or not; a change of the database
starts the pages again. Query parsing, text ranking, currencies, and the filters
on size, status and confidence are left out.

## Runs

| Run | What is checked | Result |
|---|---|---|
| `serial` | directory + cycle stage + dependent move; one command at a time; 1 crash, 1 fault, 1 user change | 603,274 states, all hold |
| `overlap` | one move; finalize, start, two rollbacks, cancel and recovery overlap; 1 crash; late workers | 1,207,601 states, all hold |
| `consent` | 2 approve, 2 start, 1 cancel commands; clock 0..1 with lifetime 1; 2 challenges; 1 context change | 301,326 states, all hold |
| `moving` | planning, protocol, renames on macOS and Windows, journal, transfer | 2,920,727 states, all hold |
| `monitoring` | lease, queue, watchers of three platforms, poll, automatic mode, three kinds of scans | 1,752,561 states, all hold |
| `organizing` | two sets of builders, three folders to organize, rules with learning, identities | 1,899,359 states, all hold |
| `understanding` | five sides of the analysis store, types, totals, dates, index, restart, model, removal, three sides of search | 1,712,661 states, all hold |
| `progress` | liveness of eight components | 195,857 states, all hold |
| `crash_locks`, `cancel_race`, `second_rollback`, `consent_drift` | see *Where the documents and the code differ* | violated |

The five runs from `moving` to `progress` check several components **side by
side**. Their MC module instantiates each component with constants of its own;
the initial state chooses a `part`, the steps are those of that part, and the
variables of the others are `Off`. A property reads `part = "x" => X!P`. The
parts do not interact: this is one run for what would otherwise be six to twelve,
and each part is explored completely. Each component's `...Assumption` on its
parameters is assumed by the MC module, so TLC evaluates it.

*Bounds of the coordinator and the consent.* Three operations give a directory
that must outlive its content, a stage that must not be left alone and an
operation that depends on both. One crash covers every point of every command
because it is possible in every state; the interplay of two crashes is the
subject of `second_rollback`. `MaxFaults` limits worker and journal faults
together, `MaxUserChanges` what the user does to the files, `MaxEvents` the
journal length at which the last rollback may begin (without it rollbacks of an
execution that cannot progress would repeat for ever). With a lifetime of one
tick the clock values 0 and 1 put a time before and at the deadline and, the
clock being settable, back again; the run also passes with `MaxClock = 2` and
without symmetry (12.4 million states), which takes too long to keep. Two
challenges let one replace another.

*Bounds of the other parts.*

| Part | Instance | Why it is enough |
|---|---|---|
| planning | 3 candidates, 5 paths on two levels, two of them equal but for case | chains, swaps, cycles of three, case-only renames, nested clean-up |
| protocol | a directory and a move into it, 2 sessions, 2 attempts, clock 0..2 | an answer of the first session can reach the second; requests and sessions can expire |
| rename (macOS and Windows) | 3 operations, 3 attempts, 3 changes by another process | a swap and a swap back fit between two calls |
| journal | 2 executions, 3 events, 2 stops | a torn line, its repair at launch, and a second stop |
| transfer | 2 changes by another process, a crash, a failure at every step | source and copy can both be changed |
| lease | 2 processes, lease of 2 ticks, 2 attempts, 3 events, 3 claims | an expired holder, its successor, and an event for each |
| queue, commanded | 2 paths, 2 edits, renames; 1 fault, or 1 command of the user | a rename between two watched paths while a cycle works; a failed step or a command at each point of it |
| linux, macos, windows (watchers) | channel of 3, 1 pending rename, 3 changes | overflow, both halves of a rename in different drains, no room for a half |
| polling | budget of 2 hints, 6 changes | a difference larger than the budget, twice |
| automatic | 1 job, 2 proposals and revisions, 2 switches, all commands beside it | on and off again while a proposal is checked and applied |
| scans, watched, consumer | 2 or 3 paths, 2 inodes, 1 change on disk, 2 scans, batches of 2 | overlapping scans, a move, duplicates, a last partial batch |
| builders, monitored | 1 file, 3 builders and 3 revisions, or 2 proposals with 2 revisions and 2 versions | two builders race for one number; a new proposal supersedes an approved one |
| office, ruled, desktop | 3 files, up to 6 kinds of input, 1 decision or change | a group below, at and above the minimum, names equal but for case |
| rules | 2 rules at a time out of 3 ids, 2 roots, 2 overlapping commands, 4 observations with a threshold of 3 | a stale order, a deleted rule whose projection is still being written, an observation after the answer |
| identities | one of two budgets: 3 files and 1 decision; 2 files, 1 later analysis, 1 correction and 1 decision, overlapping | a link through a third document; a decision between reading and storing |
| reviews, versions, evidence, problems, outcomes | 3 batches of one version; 2 versions, readable or not, 2 batches and deletions; 2 versions, 2 batches and an analysis; 1 version that may fail, 2 batches and an analysis; 2 batches with every result; all overlapping | a retry beside a batch; a new version or a deletion between queueing, reading and storing; an analysis between two batches; every order of two results |
| types, totals, dates | every combination of hints; up to 3 totals; up to 2 dates with locales and qualities | repetitions, ambiguity and quality factors meet |
| ann, restart | 2 files, 2 indexing threads and a rebuild; 1 thread with crash, torn copy, removal, cancel | every pair of mutex sections; every point of a crash, and a copy of either file cut short |
| model, removal | 2 assets, installer, 2 embedding threads or a remover, 4 or 5 commands one at a time, 2 crashes | verification between two assets; a crash on each side of the promotion and of the deletion |
| filters, text, fusion | 2 files, 2 attributes, 2 values, pages of 1 | a file on each page; ties; a corrected and an uncorrected file |

`monitoring` takes renames but no reuse of a path, no command in the middle of a
cycle and no watcher that fails to start; the journal no line cut at its newline;
the catalogue's identities no full scan beside the monitor; the builders no
incremental one where decisions are concerned; the `ann` part has no crash, the
model one command at a time and no embedding beside a removal, and the watchers no
reuse of a directory's name. In each case the excluded combination
is one the code gets wrong, listed below. In the analysis store nothing is
excluded: late results are told apart by their ghost.

Symmetry is over processes, inodes, executions, workers, threads and assets that
no property names, and never in a run with liveness. Runs stop when all commands
have returned and the bounds are used up, as the program waits for its user:
deadlock is not checked.

*Fairness.* `FairSpec` of the coordinator asks that a running command takes its
next step: its thread is scheduled, and the protocol's deadlines end the wait for
a silent worker. The starting service reconciles without being asked. In
`progress` weak fairness is asked of: the monitoring cycle and its drains, which
the loop repeats every two seconds, and the expiry of a rename half; the
client's and the worker's steps and the clock; the automatic loop and a command
that has started; the command thread and each worker of a batch; the resolver
run's thread and a correction that has begun; each thread of the index once it
has begun; each command on the model, whose transfers time out after 120 s.
Nothing asks the user to give a command; crashes, faults, cancellations and
changes on disk are never forced. The resolver's part has no crash: see below.

*Instances of `progress`.* Liveness is checked on smaller instances: one watched
path with a crash, a failing start and a command in mid-cycle; one session of the
worker; two arrivals of the automatic loop; 5 files in pages of 4 with a channel
of 1, and 4 files in pages of 2 with one leaving; two files for the resolver and
the index; the model with a crash and 2 commands.

### What the properties say

Where a run checks several components, each of its properties is a conjunction
named for what it promises; the parts have names of their own in the MC module.
An action property or a liveness property of a group is the conjunction of
temporal formulas. The conjunctions also hold the components' type invariants.

*Coordinator and consent.*

* `IntentBeforeMutation`: no file moves, and no worker is even at work, unless
  the request's own intent event is in both journals.
* `ImplementsWriteAhead`: moreover no request has its effect twice.
* `MutationNeedsConsent`: effects only on a consumed consent.
* `AppliedIsJournalled`: what the table calls applied has its applied event in
  the database journal, so `rollback_authorization` never refuses to undo it.
* `ProofsAreTrue`, `ReportMatchesDisk`: what requests and operations are
  recorded as is what happened on the disk, unless the user interfered.
* `FinalIsSettled`, `RolledBackRestores`: final statuses mean what they say.
* `CycleNotSplit`: pausing or cancelling never leaves half a rename cycle.
* `NoMutationWhileBlocked`: the journal lock and an ambiguous recovery stop
  everything.
* `InterruptedSettles`: a running or rolling-back session reaches another status
  unless the journal lock has stopped the service.
* `ConsentWasGiven`, `StartedOnce`, `SessionMatchesConsent`, `CancelIsFinal`,
  `ImplementsGate`: the consent is the user's, spent once, and never revived.

`ProofsAreTrue` and `ReportMatchesDisk` are checked where a worker dies with its
coordinator (`LateMutation = FALSE`). They do not hold otherwise: a worker left
behind by a crash can act after recovery recorded `proven_not_started`. What
still holds then is the write-ahead contract, checked in `overlap` and proved.
They are also checked for commands that do not overlap: a recovery and a
rollback on the same request take turns in the panel.

*Moving.* `PlanIsSound` (`EveryStepPossible`, `Delivered`, `Restored`,
`Topological`): a plan can
be carried out to the end, leaves every file at its destination, and can be
undone from any prefix. `AnswersAreTrue`: what the client accepts is what the
worker did (`SessionAnswersAreTrue`), a declined rename moved nothing
in any of its attempts, whatever error the call reported
(`DeclinedIsUntouched`), an acknowledged event can be read again
(`AckedIsReadable`), an unlocked journal agrees with the database
(`UnlockedInStep`), and a transfer left the file where it says
(`TransferAnswerIsTrue`, `TransferLosesNothing`). `OnlyApprovedIsDone`
(`DependenciesOnDisk`, `AuthorizedOnly`, and `OnlyApprovedIsMoved` on Windows):
nothing outside the session, its permit and its order. `NothingIsLost`
(`AppliedIsApproved`, `RenameLosesNothing`, `OutsideIsUntouched`,
`EveryMoveIsAnnounced`, `PublishedIsApproved`): a step beside another process.
On macOS `AppliedIsApproved` says what an answer of success means, not that no
other file was ever moved.

*Monitoring.* `EndedCoversEvents`, `OneOwner`, `ImplementsLedger`: the lease.
`NoChangeIsLost`: whatever the catalogue and the disk disagree about is owed, as
a hint, a job or a flag (`NoLostChange`), no job stays claimed without a cycle
(`ClaimsReleased`), and the monitors tell of everything (`WatcherLosesNothing`,
`PollLosesNothing`). `AutomaticIsGuarded` (`OneCycle`, `FailsClosed`).
`CatalogueIsTrue` (`OneHome`, `DigestIsOfVersion`, `GroupsAreCurrent`).
`FinishedIsComplete` (`PollTellsAll`, `DuplicatesFound`, `MoveKeepsIdentity`,
`DiscoversToTheEnd`).

*Organizing.* `ProposalIsSound`: revisions under concurrent builders
(`OverrideHonoured`, `ApprovedRevision`, `CurrentIsComplete`) and what the engine
computes (`UniqueDestinations`, `NoSmallGroup`, `DestinationHonoured`,
`FolderTogether`). `RulesDecide` (`UserOrderDecides`, `NoDeadBoost`,
`LearnedOnce`). `IdentitiesAreSound` (`KeptApart`, `RelationsAreCurrent`,
`ProposalIsListed`, `OccurrencesAreHome`). `DecisionsLast` (`HistoryIsKept`,
`AnswerIsDurable`, `LockedIsLeftAlone`). A rejection concerns occurrences, so it
has to survive merges of the identities around them.

*Understanding.* `ResultsAreTrue`: the analysis store (`RetriesAreCapped`,
`ProblemIsListed`, `FailedItemIsTrue`, `EvidenceIsCurrent`, `IndexIsOfVersion`,
`DenialIsTrue`, `DeletedIsNotFound`): the problem of a version's last result is
listed whichever of the overlapping writers comes last, and what rests on no late
result matches the current version. `FieldsAreExactOrFlagged`
(`HintIsNotEnough`, `EmptyIsQuiet`, `WellWrittenIsExact`, `GoodConflictIsRouted`,
`AmbiguousStaysAmbiguous`, `CorrectionIsCertain`). `VectorsAreTrue`: index and
model (`HitIsItsRow`, `SearchIsComplete`, `StaleIsFiltered`, `ReadyIsWhole`,
`RemovalHolds`).
`SearchIsSound` (`FilterFindsAll`, `PagesPartition`, `MismatchHides`,
`ConfirmedOutranksNeighbours`, `LexicalIsListed`). `NothingUsableIsLost`
(`UsableIndexKept`, `IgnoredStays`, `LoadedIsDescribed`, `WholeIsKept`).

*Progress.* `MonitoringSettles` (`QueueEmpties`, `CycleLearns`,
`ArrivalsSettle`), `WorkEnds` (`EveryWaitEnds`, `BatchEnds`, `RunEnds`,
`RebuildEnds`, `LoadingEnds`, `CommandsEnd`), and of the same instances
`WorkIsCounted` (`OneWorkerPerFile`, `CountsAreTrue`, `CompletedIsComplete` up to
the files that left the set while it was paged by offset, `CompletedIsCurrent`).

### Where the documents and the code differ

Four disagreements of the execution core are kept as runs that must fail:

* `crash_locks`: `docs/architecture/README.md:85` promises that an interruption
  leaves a recoverable journal. A crash between commit and append leaves the
  external journal one event short; the restarted service, which tolerates no
  missing event, locks itself and reconciles nothing.
* `cancel_race`: `docs/CURRENT_STATE.md:196` says a cancel is observed between
  units only. A cancel that read `approved` finishes the session as `cancelled`
  while the start command is in the middle of an operation, which stays
  `running`.
* `second_rollback`: `docs/recovery/README.md:26-33` reserves ambiguity for an
  object in both places, in none, or changed. After two interrupted rollbacks of
  one operation the first request's settled proof is held against the second
  one's effect, and the session ends `recovery_ambiguous`.
* `consent_drift`: `docs/CURRENT_STATE.md:168` says drift blocks the start. The
  context is revalidated before the worker session opens and not again when the
  consent is consumed.

The others were found the same way: TLC refutes the property on the instance
named, and the passing runs use instances without the combination. `CS` is
`docs/CURRENT_STATE.md`. Properties that hold on the passing instance are the
ones of the runs; the others (marked *) stay in their modules with a remark.

*Moving.*

| Property | Instance | The code, against the document |
|---|---|---|
| `RecoveryJournal!AckedIsReadable` | `Cuts = {"bare"}`, 1 execution, 3 events, 2 stops | A record whose newline was not written is accepted at the next launch, the next record is written onto the same line, acknowledged, and neither can be read again (`crates/operations/src/lib.rs:409`); `docs/recovery/README.md:145` "journal durable avant tout nouvel effet". |
| `ExecutionPlanning!CleanupFindsEmpty`* | two paths equal but for case | Clean-up compares directories as strings, the rest of the plan folded: moving `d/x` to `D/y` plans the removal of `d`, which the worker refuses (`execution.rs:4206`; the plan's own precondition at `:2887`). |
| `SafeRename!OnlyApprovedIsMoved` without its `platform` | macOS | `renameatx_np` gets the leaf name, so what holds the name at that instant is moved; the answer is then ambiguous (`platform-macos/src/lib.rs:1069`); ADR 0004:36 "une chaîne de chemin seule ne permet jamais une mutation". |
| `SafeRename!RemovedWasCreated`* | `rmdir` | No identity of the created directory is kept; an empty one another process made at the path is removed (`platform-macos/src/lib.rs:1131`; CS:198). |

*Monitoring.*

| Property | Instance | The code, against the document |
|---|---|---|
| `MonitoringQueue!NoLostChange` | `Conditions = {"mid_cycle"}`, 1 path, 1 edit, 2 commands | Removing an exclusion sets the pending flag; a cycle that has already enumerated clears it unconditionally (`application/src/monitoring.rs:688`; CS:141). |
| | `"start_fault"` | A watcher that fails to start and starts in a later cycle owes no reconciliation for the gap (`:440`; CS:136). |
| | `"rename", "reuse"`, 2 paths, 2 edits | A move retires its source path without looking whether the path was used again (`:1374`, `:1390`; CS:136, CS:138). |
| | `"rename", "into_excluded"` | A rename into an excluded path ends as excluded; its source is never retired (`:1090`; CS:138). |
| `MonitoringQueue!QueueEmpties` | `"vanish", "reuse"`, 2 paths, 3 edits | A job whose gap reconciliation appends an event of its own key loses its claim and is queued again, with no attempt counted (`:1067`; CS:135 "bounded retries"). |
| `NativeWatcher!NoChangeIsLost` | `Reuse = TRUE` | The scope of an event is read when the event is, after a file may have taken a directory's name: nothing below is reconciled (`platform/src/lib.rs:1325`; CS:136). |
| `PollingMonitor!PollLosesNothing` | `SwellsLater = TRUE` | A snapshot over budget asks for a rescan and keeps the older snapshot; what the rescan catalogued and then vanished is equal to the older snapshot (`:970`; CS:136). |
| `AutomaticMode!FreshProposal`* | any | The trigger `automatic_monitoring` is accepted neither by `validate_proposal` nor by the CHECK of migration 0007: every automatic batch with a new file fails (`application/src/proposal.rs:227`; `docs/automatic-monitoring.md:11`). |
| `CleanActivation`*, `PrudentAtOnce`* | `Race = {"switch"}` | Activation checks before a dialog that stays open, and the loop uses the mode of the dashboard the cycle returned (`src-tauri/src/lib.rs:198`, `:3726`; `automatic-monitoring.md:7`, `:32`). |
| `OnlyEligible`* | `"user"` too | Eligibility is checked on one revision and approval is by id (`:3662`; `automatic-monitoring.md:13`). |
| `Catalogue!DiscoversToTheEnd` | `BadLabel` not empty | A name `DisplayLabel::new` refuses ends the consumer scan, whose row stays running (`scanner.rs:1019`; `ONE_CLICK_V3_DESIGN.md:9`). |
| `Catalogue!MoveKeepsIdentity` | full and targeted scans, 2 paths, 1 inode, 3 scans | A full scan's older observation persisted between the two transactions of a move gives the old path back, which is then marked missing (`monitoring.rs:1390`, comment at `:1370`). |

*Organizing.*

| Property | Instance | The code, against the document |
|---|---|---|
| `ProposalStore!OverrideHonoured` | `"override"` and `"monitor"` builders, 2 files, 3 revisions | The incremental build reads the operations it copies before the revision number, and so drops a decision applied in between (`application/src/proposal.rs:494`; CS:215). The full build reads the number first and is refused. |
| `ProposalEngine!NameHonoured`* | decisions that rename | An incremental update resets the user's name to the machine's (`organization.rs:1140`; CS:215). |
| `SameAsFull`* | office | A new file's neighbours are chosen before its destination is known, so the result differs from a full build (`:689`; CS:73). |
| `NothingOntoKept`* | preserving folder | Places of kept files are not recorded when collisions are resolved (`:2138`; `ONE_CLICK_V3_DESIGN.md:23`). |
| `MandatoryKept`* | `MaxDepth = 2` | `fit_machine_path` truncates the destination and not the optional tail, so the group policy pops mandatory folders (`path_safety.rs:101`; CS:209). |
| `ProgramsStay`* | desktop | A program inside an ordinary top-level folder moves with the bundle (`organization.rs:922`; comment `consumer.rs:4`). |
| `Rules!ProjectionComplete`* | two roots | A build of one root replaces the projection of the workspace (`proposal.rs:445`; CS:123). |
| `Rules!SuggestionSupported`* | `MaxObservations = 3` | Observations are counted per supplier, whatever the user decided: three moves away suggest keeping (`application/src/rules.rs:296`; CS:121). |
| `IdentityResolution!ConflictsAreSeparate`* | three files in a chain | Two documents with conflicting identifiers are linked through a third (`persistence/src/identity.rs:790`; CS:227). |
| `CompletedIsCurrent` | `Overlap`, one correction | The run's mark overwrites the pending state a correction wrote (`:634`; CS:228). |
| `CorrectionIsProcessed`* | a correction back to an older value | The unique index refuses the row, and the run fails at that file every time (`:469`; CS:228). |

*Understanding.*

| Property | Instance | The code, against the document |
|---|---|---|
| `AnalysisStore!DenialIsTrue` | readability `not_checked` | A consumer scan never checks readability; extraction then reports that the scanner found the file unreadable (`content.rs:315`, `:320`). |
| `FailedItemIsTrue` | partial results with `parser_failure` | A completed batch lists stored partial results as failed (`persistence/src/lib.rs:3975`, `:1164`). |
| `EvidenceMatchesVersion`*, and `EvidenceIsCurrent`, `IndexIsOfVersion` without `late` | 2 versions, 2 batches, 1 analysis | Late results of an older version become current or replace the newer text (`:1560`, `:3760`; CS:138, CS:261). |
| `DeletedIsNotFound` without `late` | 2 versions | A late extraction makes the search document of a deleted file again (`:3744`; CS:138). |
| `AnnIndex!SearchIsComplete` | crash, cancel or removal | Rows are committed before the index; after a crash the older snapshot is taken as ready (`application/src/search.rs:222`; CS:155). |
| `MetadataOpens`* | crash and copy | Metadata cut short in the copy fallback do not parse, the error is dropped, and no command, a rebuild included, gets an index any more (`ann_index.rs:235`, `:611`, `scanner.rs:184`; CS:155). |
| `RemovalNeedsRebuild`* | removal | A sync that read the status earlier writes ready after a removal (`:240`; CS:155). |
| `EmbeddingModel!CancelIsClean`* | an installer | A cancellation inside a transfer leaves staging and status `downloading` (`model_download.rs:173`; test at `:416`). |
| `EmbeddingModel!ReadyIsWhole` | two installers, `OneCommand = FALSE` | The second installation moves the model to its backup between the first one's verification and its save of ready (`model_download.rs:213`, `SearchView.tsx:58`; CS:153). |
| `RemovalHolds` | a remover and an embedding | A thread that verified the model before its removal saves ready afterwards (`model_manager.rs:342`, comment `onnx_provider.rs:99`; CS:155). |
| `HybridSearch!FilterFindsAll` | corrected types; contained names; a re-analysis without the field | Candidates come from a projection, a one-sided LIKE and the current field rows, the filter from corrected facts (`hybrid_search.rs:561`, `:684`, `:1221`; CS:149, :151, :249). |
| `ConfirmedOutranksNeighbours` | correction of an unknown type | A corrected value keeps the machine's confidence 0 and scores below a vector neighbour (`:1264`; test `ranking.rs:537`). |
| `VectorDoesNotRescue`* | type, amount and date confirmed | A near vector lifts a file with a confirmed other supplier over the threshold (`ranking.rs:333`; CS:152). |
| `SemanticFields!EmptyIsUnknown`* | empty text of a known media type | The media type alone confirms a document type (`semantic.rs:1358`; CS:247). |
| `ConflictIsRouted`*, `DegradedIsNotBetter`* | degraded totals | Repetition in a degraded text outweighs the conflict margin, and weakening one side removes the conflict (`:1755`, `:1686`; CS:247). |
| `MoneyIsExact`* | a total of `12` and `<<5>>` | "12.5 EUR" is read as 5.00 EUR and confirmed (`:3428`; test `:3575`). |

Seen while modelling, without a document that says otherwise:

* *Execution.* A rollback of a created directory that is already gone is accepted
  by `revalidate_rollback` and then refused by the worker, so the session ends
  `rollback_partial`. `acknowledged_success` cannot become `proven_not_started`,
  so if the user moves a file back by hand after the answer and before its
  verification, recovery fails each time. A crash between the attestation and
  its `approved_durable` event lets the execution run without that event. A
  paused execution cannot be resumed, only cancelled or rolled back.
* *Monitoring.* Coalescing a move with a removal retires the wrong path, and the
  order of a removal and a creation is lost. A job of unknown scope is completed
  although its enumeration was truncated. Recovery and normalisation at launch
  do not ask whether another process holds the claim. `latest_organization_
  proposal` fails with two roots, so automatic mode never applies there; a
  prepare that fails leaves the proposal approved without a user; the recovery
  state is only asked at the loop's gate.
* *Catalogue.* A cancelled scan persists versions without digests, so groups
  dissolve; errors leave targeted and consumer scans running.
* *Proposals.* Rebuilding a cancelled proposal makes it ready for review; a
  decision whose own rebuild is refused stays active and unapplied; a full build
  may store a newer revision made from older sources, which is caught as drift.
* *Analysis.* A failed page query or a failed store in a retry leaves the batch
  running; deletion leaves review items open; the end of a batch opens an item
  again that the user resolved; paging by offset skips files of a shrinking set.
* *Identities.* A crash leaves its run row running, and the unique index then
  refuses every later run; one file whose synchronisation fails starves the ones
  after it; a correction made during a run reports an error although it is
  stored; review groups of other keys may stay listed.
* *Index, model and search.* `tombstone_file_chunks` is never called; a failed
  transfer leaves the status `downloading`; while the model loads, documents are
  silently not embedded; filters apply after the cap of 2,500 per signal;
  unknown dates sort as the newest.
* *Fields.* A date with equal readings such as 03/03 is called ambiguous and is
  refused as a correction; "$" is taken as USD; the order of repetitions changes
  the merged confidence.

## Proofs

Everything below is checked by TLAPS for every plan, every number of commands or
processes and every bound, from the named assumptions of the modules (the plan's
sets are what they are called, the kinds of commands are disjoint, bounds are
natural numbers).

`ExecutionCoordinatorProofs`:

* `TypeCorrect`: `Spec => []TypeOK`. `TypeOK` alone is not inductive: an event is
  well typed only because a command between choosing an operation and letting it
  go holds a real one (`InHand`).
* `IntentFirst`: `Spec => []IntentBeforeMutation`.
* `Refinement`: `Spec => ImplementsWriteAhead`.

The inductive invariant is `TypeOK /\ LogInv`. `LogInv` adds to `InHand` that a
request's sequence number leads to its own intent event (`TablesAgree`), that
the request a command has dispatched is flushed (`HeldFlushed`), that no two
commands, and no command and an orphan, hold the same request, nor one that
already had its effect (`HeldOnce`), and that every effect's intent is flushed
(`EffectsFlushed`). Most steps do not touch any of this: each is shown to be
*quiet* (`Quiet`), one lemma shows that quiet steps keep the invariant, and only
intent, dispatch, the worker's mutation, orphans and the crash are argued one by
one.

The same module, on the records, with commands that overlap, late workers and
crashes:

* `ConsentFirst`: `Spec => []MutationNeedsConsent`. The invariant is about the
  past of the consent: as long as it is not consumed, no request exists and no
  command is past the transaction that consumes it (`ConsentInv`).
* `AppliedRecorded`: `Spec => []AppliedIsJournalled`. `RecordInv` says
  of every operation that the table calls applied, that a command is about to
  undo, or that a request asks to undo, that the database journal holds an event of
  its application. The external journal may lack it after a crash between commit
  and append (`crash_locks`), so the theorem does not speak of `ext`.

Its second half, for commands that do not overlap (`~Overlap`: the panel
disables its buttons while a command runs):

* `BlockedMeansStill`: `Spec => NoMutationWhileBlocked`, where moreover a worker
  does not act after its coordinator is gone (`~LateMutation`). It rests on one
  running command (`OneCommand`) and on requests without an owner being at rest
  (`NoOrphans`).
* `FinalMeansSettled`: `Spec => []FinalIsSettled`. A command about to write a
  final status has nothing left to do (`SettledInv`).
* `CyclesStayWhole`: `CycleTogether /\ Spec => []CycleNotSplit`. Paused and
  cancelled are reached only from a loop that stands between two units, so
  `CycleInv` says what a loop knows: what was not attempted is scheduled behind
  the operation in hand, what is applied it applied itself (`Standing`, `Sweep`).
  `CycleTogether` says that the stages and the moves that depend on them stand
  together in the plan, as `prepare_execution` appends them in one block
  (`crates/application/src/execution.rs:452-506`). The qualification policy
  `allow_qualified_case_only_rename` instead interleaves independent pairs of one
  stage and one move; the group is then several groups and the theorem does not
  speak of it.

And under `~Overlap /\ ~LateMutation`:

* `DiskAgrees`: the inductive invariant itself, `Spec => []DiskSafe`.
* `ProofsHold`: `ProofsAreTrue`; `ReportsHold`: `ReportMatchesDisk`;
  `RollbackHolds`: `RolledBackRestores`.

`DiskInv` has seven parts: an operation has one forward request and rollbacks
follow it (`Tables`), every settled request that no user touched is what the disk
shows (`ProofsAreTrue`), a blocked rollback makes the session partial and `rolled_back` leaves nothing
applied (`Reports`), what the running command holds in hand (`Hand`), where the one effect
in progress may be (`Effect`), what the facts it has read still say (`Snapshot`),
and that an operation is in one place (`Places`). Both hypotheses are needed: two
overlapping commands, or a worker left behind by a crash, can move a file after
it was read.

With these, every invariant and action property the coordinator's passing runs
check is a theorem. TLC checked each inductive invariant first, on the instance
of `serial` and, for the disk, on one of two operations.

`ConsentLifecycleProofs`: `GateRefinement` first, then `StartsOnce`,
`TablesMatch` and `CancelledForGood` from the gate's own steps, with the
invariant that a command about to write `cancelled` has already made the consent
unusable (`CancelMoved`). `OnlyGivenConsent` needs to know which challenges
commands hold (`Answers`): every one was issued, to one command each, and a
command past the dialog holds one the user accepted.

`MonitoringProofs`, on the lease: for any number of processes, events, claims and ticks
`TypeCorrect`, `EndedCovers` (a job that ended has covered every event that
reached it), `SingleOwner` (at most one process holds a claim that the fence
accepts), `Attempts` (a job that may be claimed has attempts left) and `Refines`
(`Spec => ImplementsLedger`). The inductive
invariant adds that a token is given to one holder only (`TokensFresh`,
`TokensDistinct`) and that the holder whose token is in a processing row has seen
every event (`OwnerIsCurrent`): this is what the fence rests on.

`MonitoringProofs`, on the automatic mode: `AutomaticGuarded`
(`MCSpec => []AutomaticIsGuarded`), for any number of proposals, revisions, jobs,
attempts and switches and any commands beside the loop. `AutomaticInv` says that
the registry holds exactly the holders that run (`Registered`), which is why the
loop and the command never run at once; that one proposal is current
(`OneCurrent`), so that superseding it leaves no second one; that the proposal the
loop decides about is still there when it asks for the gate and executes
(`Loop`); and that a job given up is one that arrived (`Jobs`). An instance has a
`Cardinality` of its own in the prover; `SameCardinality` says that it is the
library's.

`MovingProofs` proves of `MCMoving`, of which the initial state says what part a
behaviour is about, three groups of properties of the run: `AnswersHold`
(`AnswersAreTrue`), `OnlyApprovedHolds` (`OnlyApprovedIsDone`) and
`NothingLostHolds` (`NothingIsLost`). `MovingInv` is the inductive invariant of
the part:

* `SessionInv`, of the session between client and worker, for any operations,
  dependencies, lifetimes, attempts of the handler and number of sessions
  (`SessionAnswers`, `SessionAuthorized`, `SessionOrder`). The wire hands over any
  frame at any time, so it is about what the frames of the current session can
  say. An operation is sent under one number (`Numbered`), and the worker has
  reached a number for each operation it attempted (`Spent`), so a repeated frame
  cannot make it act twice. An answer is final when it is given (`AnsweredTrue`),
  with one exception the code has: a worker that refuses a repeated frame says so
  of an operation it may have performed. That operation was sent under an earlier
  number as well, and the client waits for the number it sent last. `OrderOnDisk`
  says that the worker's own lists bound what is on the disk, which is how a new
  process can check an order it did not establish.
* `RenameInv`, of the system calls of both adapters, for any operations, attempts
  and changes by another process (`RenameSafe`, `RenameSteps`). The handler
  changes the disk in one call only, and never answers `declined` after it
  (`Touching`), because an error that may hide a performed rename is answered as
  `recovery`. What it holds are directories inside the root and the object it
  opened; on Windows that object still has its name until the call, because of
  the share mode the handle was opened with (`Holding`). Only a link leads out of
  the root, and a folder has one name (`Homes`), so a call through a held parent
  cannot change a directory outside.
* `JournalInv`, of the external journal, for any executions, events and stops
  (`AckedForEver`, `InStepWhenUnlocked`). One execution runs at a time
  (`OneRunner`), an open journal agrees with the file (`InStep`), and what was
  acknowledged lies in the part that no power loss takes away (`Durable`). It
  assumes `Tearing`: no cut takes exactly the newline of a line. With such a cut
  the reader still accepts the record, the next line is appended to it, and both
  are lost; `Moving.cfg` therefore has torn lines only (`Cuts`), and the theorem
  says that this cut is the only way.
* `TransferInv`, of the transfer between volumes, for any number of changes by
  another process (`TransferHolds`). The four paths are apart, the temporary file
  even when the seal alone does not say so (`Sealed`); nothing happened before the
  journal is open (`Unopened`); the last event is the intent of the next change
  (`Announced`); and the copy and the original are where the program counter says
  unless the other process was at that path (`Placed`).

The assumptions are `RenameAssumption` (the objects and the directories of the
example are different ones, `None` and the link are no directory) and
`TransferAssumption` (`None` is no file and no refusal), and `PartsAssumption` has
the contract of the rename call (`"sharing" \notin Misreports`). The operations
and dependencies of the session are constants, of which `Moving.cfg` has two.

`CatalogueProofs`, from `CatalogueAssumption`: for any paths, inodes, contents,
kinds of scans, batch size and bounds `OneHomeHolds` (`OneHome`), `DigestsHold`
(`DigestIsOfVersion`) and, without consumer scans, which do not rebuild the groups,
`GroupsHoldAlways` (`GroupsAreCurrent`). A scan observes the disk in one step and
persists in another, with other scans and changes between them; so the invariant
speaks of what the disk *was*: `was` holds the content each inode had at each
stamp, what the disk is now is in it (`Remembered`), and so is the content behind
every digest that a scan has in hand (`Truthful`) or the catalogue holds (`Sound`).
An entry may be out of date and is never false. `Sound` also has identities and
locations one to one, which each persisted observation keeps alone; that a list of
observations keeps it (`PersistAllSound`) is shown on the least prefix that would
not, because the library's induction theorems cannot be used. `MonitoringProofs`
takes the three settings of the run `monitoring` from there: `CatalogueTrue`
(`MCSpec => []CatalogueIsTrue`).

`ProposalStoreProofs`, from `StoreAssumption` (a catalogued file has a version, and
`None` is no status, decision or revision): for any builders, files, decisions and
bounds `TypeCorrect`, `CompleteOffered` (`CurrentIsComplete`), `ApprovalHolds`
(`ApprovedRevision`) and `HistoryKept` (`HistoryIsKept`). Each function of
`persistence/src/proposal.rs` is one step, and a build is several; what protects a
stored revision is the number it read. The invariant says that the numbers of a
proposal are used without a gap and that nobody has read one above the next
(`NoGaps`), so that whoever finds its number free stores the newest revision.
`DecisionsHonoured` (`OverrideHonoured`) is for builds that are all full ones
(`~Incremental`): a build whose number is still free has read every decision the
user was told of, since the build that carries the decision stores a revision
before the command answers (`Fresh`), and the current revision applies them
(`Applied`). With incremental updates the property fails (*Where the documents and
the code differ*), because the operations that are copied are read before the
number.

`OrganizingProofs` proves of `MCOrganizing`, whose initial state says what part a
behaviour is about, three groups of properties of the run: `RulesDecideHolds`
(`RulesDecide`), `IdentitiesHold` (`IdentitiesAreSound`) and `DecisionsHold`
(`DecisionsLast`, whose part on revisions is `HistoryStep` of
`ProposalStoreProofs`). The rules and the identities are for any constants;
`PartsAssumption` has what is asked of them. The parts of `OrganizingInv` are that
of the store, which `ProposalStoreProofs` has, and:

* `RulesInv`. A rule stands at its position in the order the user was told, and
  each one in that order has its position (`Ranked`): so positions have no gap
  and no two rules the same, a command that reorders, deletes or appends keeps
  them so, and `ORDER BY position` decides as the user expects. That deleting
  leaves each later rule one further up is counted (`CountBefore`). A row of the
  projection whose rule is gone is replaced by a command still at work
  (`Projected`), and the one learned rule is that of the accepted suggestion
  (`Learned`).
* `IdentityInv`. Merges form a forest: some height, no more than there were
  merges, falls along every merge (`Forest`), so `canonical_identity_id`, which
  follows at most 31 of them, ends at an identity that was not merged away
  (`CanonicalIs`); that is where `Room`, a budget for the identities that may yet
  come about, is needed. Every occurrence, retired ones included, is with such an
  identity (`Home`), candidates and constraints are pairs of identities
  (`Paired`), and two occurrences the user separated are with identities between
  which there is a constraint or of which one is locked (`Separate`). The
  constraint alone would not do: the user's own merge revokes it and locks the
  result instead, and an unlinked occurrence is kept by the lock of its new
  identity. Merging copies the constraints of what is merged away (`CopyHolds`),
  which is why a third document does not join the two again.

`AnalysisPoolProofs`, from `PoolAssumption`: for both kinds of batch and any number
of candidates, page size, workers, channel capacity, faults and candidates that
leave the set, `TypeCorrect`, `OneWorkerEach` (`OneWorkerPerFile`), `CountsHold`
(`CountsAreTrue`) and `NothingMissed` (`CompletedIsComplete`). An index that was
taken is with one worker, in the channel once, or done with (`InHand`); the
candidates past the offset are untouched and on no page (`Ahead`); as long as
nothing went wrong the offset counts what is stored together with the page in hand
(`Covered`), which is what makes the end of the last page the end of the work.

Only model-checked:

* Liveness (`InterruptedSettles` and the temporal properties of `progress`),
  which is out of the prover's reach.
* `PlanIsSound`, `ProposalIsSound` and the groups of `understanding`: plans,
  destinations, fields and scores are computed by recursive functions, and what
  these compute for every input needs an induction for each, which the installed
  provers do not have as a rule (`PersistAllSound` spells out the only one). The
  proposal store's part of `ProposalIsSound` is proved (`ProposalStoreProofs`).
* `WorkIsCounted` as a group: its parts are theorems of `AnalysisPoolProofs`.
* `NoChangeIsLost`, of the monitoring queue and the watchers: it rests on what
  external events a change of the disk causes on each platform, case by case.
* Action properties of the catalogue (`FinishedIsComplete`), which are about what a
  scan of a quiet disk finds, and of the groups not proved.

The second half of `ExecutionCoordinatorProofs` is not claimed for overlapping
commands (`cancel_race` shows why).

## Plan

1. Done: coordinator, consent, their abstract specifications and proofs.
2. Done: the rest of the system, as listed under *Modules*, with the lease
   proved.
3. Done: the coordinator's invariants and `NoMutationWhileBlocked`.
4. Done: the executor protocol and the recovery journal.
5. Done: the proposal store and the analysis pool.
6. Done: the system calls and the transfer, and with them the groups of the run
   `moving`; the automatic mode; the catalogue.
7. Done: the rules and the identities, and with them the groups of the run
   `organizing` but for the engine.
8. Open: `HitIsItsRow` on the index; that `ExecutorProtocol`
   implements the one-shot worker of `ExecutionCoordinator`, and
   `RecoveryJournal` its flushed prefix `ext`.

## Not modelled

* Content extraction: parsers and format detection are input and data
  transformation.
* AI gateway and privacy: no command of the desktop application builds a
  gateway; its consent ledger is one map behind a mutex.
* The virtual simulation of `crates/simulation` and the in-memory flow of
  `crates/application/src/lib.rs` that uses it: superseded by proposals and
  execution planning in the commands of the desktop shell.
* Of partly modelled parts: entities, identifiers, parties, language and the
  search for terms in `semantic.rs`; person and project policies of identities;
  query interpretation; scores, summaries, diffs and the virtual tree of the
  engine; enumeration, volume inspection and secret storage of the adapters;
  the byte layout of frames; migrations.
* Cryptography is assumed to work. The user interface is represented by the
  commands it gives.
