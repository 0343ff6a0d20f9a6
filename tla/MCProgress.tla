----------------------------- MODULE MCProgress ------------------------------
(***************************************************************************)
(* What must eventually happen: loops, batches, runs and commands end, and *)
(* waits are not for ever.  The parts are checked side by side: the        *)
(* initial state says which of them a behaviour is about, and the          *)
(* variables of the others are Off.  The fairness of a part is the one its *)
(* module states.                                                          *)
(***************************************************************************)
EXTENDS Naturals, Sequences

CONSTANT Nil

VARIABLES
  part,       \* the part that this behaviour is about
  queueDisk, catalog, excluded, queuePaused, queuePending, enabled, status,
  watching, hints, queueJobs, queuePc, cycle, queueCmd, newborn, queueTold,
  edits, faults, queueCommands, queueCrashes,
  now, client, worker, requests, replies, done, count, results,
  mode, autoPaused, startup, autoJobs, arrived, failed, gate, props, holders,
  autoCancelled, dialog, loop, autoCmd, applied, unclean, switches,
  watchDisk, watchTold, watchChannel, overflowed, watchPc, watchBatch,
  watchPending, watchGone, changes,
  rows, here, poolBatch, main, next, stop, workers, poolChannel, poolCancelled,
  analysis, corrected, resolution, db, run, command, budget, apart,
  present, current, row, nextKey, analyses, installed, opened, index, annLock,
  meta, snapshot, saved, annThread, events, removed,
  dir, staging, backup, loaded, modelLock, cancel, modelThread, modelCommands,
  modelCrashes, modelGone

\* A directory and a move into it.
PlanOps == {"mkdir", "move"}
PlanDeps == [o \in PlanOps |-> IF o = "move" THEN {"mkdir"} ELSE {}]

AllFaults == {"mark", "store", "page", "provider"}

\* Two organizations that share a company identifier.
Cores == <<1, 1, 3>>
Organizations == {[name |-> 1, ids |-> {1}], [name |-> 3, ids |-> {1}]}

Queue == INSTANCE MonitoringQueue WITH
  NumPaths <- 1, MaxAttempts <- 2,
  MaxEdits <- 1, MaxFaults <- 1, MaxCommands <- 1, MaxCrashes <- 1,
  Conditions <- {"start_fault", "mid_cycle"}, disk <- queueDisk,
  paused <- queuePaused, pending <- queuePending, jobs <- queueJobs,
  pc <- queuePc, cmd <- queueCmd, told <- queueTold, commands <- queueCommands,
  crashes <- queueCrashes
Protocol == INSTANCE ExecutorProtocol WITH
  Ops <- PlanOps, Deps <- PlanDeps,
  SessionLife <- 2, MessageLife <- 1, Attempts <- 1, MaxSessions <- 1,
  MaxTime <- 2
Automatic == INSTANCE AutomaticMode WITH
  None <- Nil, MaxProposals <- 2,
  MaxRevision <- 3, MaxJobs <- 2, MaxSwitches <- 1, MaxAttempts <- 2,
  Race <- {"switch", "pause", "command"}, paused <- autoPaused,
  jobs <- autoJobs, cancelled <- autoCancelled, cmd <- autoCmd
Watcher == INSTANCE NativeWatcher WITH
  None <- Nil, Backend <- "linux",
  Reuse <- FALSE, ChannelSize <- 3, MaxPending <- 1, MaxChanges <- 2,
  disk <- watchDisk, told <- watchTold, channel <- watchChannel, pc <- watchPc,
  batch <- watchBatch, pending <- watchPending, gone <- watchGone
Content == INSTANCE AnalysisPool WITH
  Kind <- "content", Files <- 5,
  PageSize <- 4, MaxWorkers <- 2, Capacity <- 1, Faults <- AllFaults,
  MayCancel <- TRUE, MaxLeft <- 0, batch <- poolBatch, channel <- poolChannel,
  cancelled <- poolCancelled
Semantic == INSTANCE AnalysisPool WITH
  Kind <- "semantic", Files <- 4,
  PageSize <- 2, MaxWorkers <- 2, Capacity <- 2, Faults <- AllFaults,
  MayCancel <- TRUE, MaxLeft <- 1, batch <- poolBatch, channel <- poolChannel,
  cancelled <- poolCancelled
Identity == INSTANCE IdentityResolution WITH
  Files <- {1, 2},
  Budgets <- {[files |-> {1, 2}, contents |-> Organizations,
               analyses |-> 0, corrections |-> 1, decisions |-> 0]},
  Corrections <- {3}, CoreOf <- Cores, Overlap <- FALSE, MaxIdentities <- 3
Ann == INSTANCE AnnIndex WITH
  Files <- {"f1", "f2"}, Indexers <- {"index"},
  Rebuilders <- {"rebuild"}, MaxAnalyses <- 2, MaxEvents <- 2, Faults <- {},
  lock <- annLock, thread <- annThread
Model == INSTANCE EmbeddingModel WITH
  Assets <- {"a1", "a2"},
  EnvSources <- {{}, {"a1"}, {"a1", "a2"}}, Installers <- {"install"},
  Removers <- {"remove"}, Embedders <- {"e1", "e2"}, MaxCommands <- 2,
  MaxCrashes <- 1, OneCommand <- FALSE, Bad <- TRUE, lock <- modelLock, thread <- modelThread,
  commands <- modelCommands, crashes <- modelCrashes, gone <- modelGone

ASSUME PartsAssumption ==
  /\ Queue!BoundAssumption /\ Protocol!ProtocolAssumption /\ Automatic!AutomaticAssumption
  /\ Content!PoolAssumption /\ Semantic!PoolAssumption
  /\ Identity!IdentityAssumption /\ Ann!FaultsAssumption

\* The variables of a part that does not run.
Off == "off"
QueueOff ==
  /\ queueDisk = Off /\ catalog = Off /\ excluded = Off
  /\ queuePaused = Off /\ queuePending = Off /\ enabled = Off /\ status = Off
  /\ watching = Off /\ hints = Off /\ queueJobs = Off /\ queuePc = Off
  /\ cycle = Off /\ queueCmd = Off /\ newborn = Off /\ queueTold = Off
  /\ edits = Off /\ faults = Off /\ queueCommands = Off /\ queueCrashes = Off
ProtocolOff ==
  /\ now = Off /\ client = Off /\ worker = Off /\ requests = Off
  /\ replies = Off /\ done = Off /\ count = Off /\ results = Off
AutomaticOff ==
  /\ mode = Off /\ autoPaused = Off /\ startup = Off
  /\ autoJobs = Off /\ arrived = Off /\ failed = Off /\ gate = Off
  /\ props = Off /\ holders = Off /\ autoCancelled = Off /\ dialog = Off
  /\ loop = Off /\ autoCmd = Off /\ applied = Off /\ unclean = Off
  /\ switches = Off
WatcherOff ==
  /\ watchDisk = Off /\ watchTold = Off /\ watchChannel = Off
  /\ overflowed = Off /\ watchPc = Off /\ watchBatch = Off
  /\ watchPending = Off /\ watchGone = Off /\ changes = Off
ContentOff ==
  /\ rows = Off /\ here = Off /\ poolBatch = Off /\ main = Off
  /\ next = Off /\ stop = Off /\ workers = Off /\ poolChannel = Off
  /\ poolCancelled = Off
IdentityOff ==
  /\ analysis = Off /\ corrected = Off /\ resolution = Off
  /\ db = Off /\ run = Off /\ command = Off /\ budget = Off /\ apart = Off
AnnOff ==
  /\ present = Off /\ current = Off /\ row = Off /\ nextKey = Off
  /\ analyses = Off /\ installed = Off /\ opened = Off /\ index = Off
  /\ annLock = Off /\ meta = Off /\ snapshot = Off /\ saved = Off
  /\ annThread = Off /\ events = Off /\ removed = Off
ModelOff ==
  /\ dir = Off /\ staging = Off /\ backup = Off /\ loaded = Off
  /\ modelLock = Off /\ cancel = Off /\ modelThread = Off
  /\ modelCommands = Off /\ modelCrashes = Off /\ modelGone = Off

queueVars ==
  <<queueDisk, catalog, excluded, queuePaused, queuePending,
    enabled, status, watching, hints, queueJobs, queuePc, cycle, queueCmd,
    newborn, queueTold, edits, faults, queueCommands, queueCrashes>>
sessionVars ==
  <<now, client, worker, requests, replies, done, count,
    results>>
autoVars ==
  <<mode, autoPaused, startup, autoJobs, arrived, failed, gate,
    props, holders, autoCancelled, dialog, loop, autoCmd, applied, unclean,
    switches>>
watchVars ==
  <<watchDisk, watchTold, watchChannel, overflowed, watchPc,
    watchBatch, watchPending, watchGone, changes>>
poolVars ==
  <<rows, here, poolBatch, main, next, stop, workers, poolChannel,
    poolCancelled>>
identityVars ==
  <<analysis, corrected, resolution, db, run, command, budget,
    apart>>
annVars ==
  <<present, current, row, nextKey, analyses, installed, opened,
    index, annLock, meta, snapshot, saved, annThread, events, removed>>
modelVars ==
  <<dir, staging, backup, loaded, modelLock, cancel, modelThread,
    modelCommands, modelCrashes, modelGone>>

Init ==
  \/ part = "queue" /\ Queue!Init /\ ProtocolOff /\ AutomaticOff /\
       WatcherOff /\ ContentOff /\ IdentityOff /\ AnnOff /\ ModelOff
  \/ part = "protocol" /\ Protocol!Init /\ QueueOff /\ AutomaticOff /\
       WatcherOff /\ ContentOff /\ IdentityOff /\ AnnOff /\ ModelOff
  \/ part = "automatic" /\ Automatic!Init /\ QueueOff /\ ProtocolOff /\
       WatcherOff /\ ContentOff /\ IdentityOff /\ AnnOff /\ ModelOff
  \/ part = "watcher" /\ Watcher!Init /\ QueueOff /\ ProtocolOff /\
       AutomaticOff /\ ContentOff /\ IdentityOff /\ AnnOff /\ ModelOff
  \/ part = "content" /\ Content!Init /\ QueueOff /\ ProtocolOff /\
       AutomaticOff /\ WatcherOff /\ IdentityOff /\ AnnOff /\ ModelOff
  \/ part = "semantic" /\ Semantic!Init /\ QueueOff /\ ProtocolOff /\
       AutomaticOff /\ WatcherOff /\ IdentityOff /\ AnnOff /\ ModelOff
  \/ part = "identity" /\ Identity!Init /\ QueueOff /\ ProtocolOff /\
       AutomaticOff /\ WatcherOff /\ ContentOff /\ AnnOff /\ ModelOff
  \/ part = "ann" /\ Ann!Init /\ QueueOff /\ ProtocolOff /\ AutomaticOff /\
       WatcherOff /\ ContentOff /\ IdentityOff /\ ModelOff
  \/ part = "model" /\ Model!Init /\ QueueOff /\ ProtocolOff /\ AutomaticOff /\
       WatcherOff /\ ContentOff /\ IdentityOff /\ AnnOff

Next ==
  \/ part = "queue" /\ Queue!Next /\ UNCHANGED <<part, sessionVars, autoVars,
       watchVars, poolVars, identityVars, annVars, modelVars>>
  \/ part = "protocol" /\ Protocol!Next /\ UNCHANGED <<part, queueVars,
       autoVars, watchVars, poolVars, identityVars, annVars, modelVars>>
  \/ part = "automatic" /\ Automatic!Next /\ UNCHANGED <<part, queueVars,
       sessionVars, watchVars, poolVars, identityVars, annVars, modelVars>>
  \/ part = "watcher" /\ Watcher!Next /\ UNCHANGED <<part, queueVars,
       sessionVars, autoVars, poolVars, identityVars, annVars, modelVars>>
  \/ part = "content" /\ Content!Next /\ UNCHANGED <<part, queueVars,
       sessionVars, autoVars, watchVars, identityVars, annVars, modelVars>>
  \/ part = "semantic" /\ Semantic!Next /\ UNCHANGED <<part, queueVars,
       sessionVars, autoVars, watchVars, identityVars, annVars, modelVars>>
  \/ part = "identity" /\ (Identity!UserStep \/ Identity!RunStep) /\ UNCHANGED <<
       part, queueVars, sessionVars, autoVars, watchVars, poolVars, annVars,
       modelVars>>
  \/ part = "ann" /\ Ann!Next /\ UNCHANGED <<part, queueVars, sessionVars,
       autoVars, watchVars, poolVars, identityVars, modelVars>>
  \/ part = "model" /\ Model!Next /\ UNCHANGED <<part, queueVars, sessionVars,
       autoVars, watchVars, poolVars, identityVars, annVars>>

vars == <<part, queueVars, sessionVars, autoVars, watchVars, poolVars,
         identityVars, annVars, modelVars>>

\* The cycle and a started command of monitoring go on, and a job that is due
\* again and again is claimed; receives time out and children are killed and
\* reaped; the automatic loop wakes up; the watcher is drained and its halves
\* expire; the threads of a batch, of a resolver run, of an indexing and of a
\* command on the model take their steps.
Fairness ==
  /\ WF_queueVars(part = "queue" /\ Queue!CycleStep)
  /\ WF_queueVars(part = "queue" /\ Queue!CommandStep)
  /\ \A k \in Queue!Keys :
       SF_queueVars(part = "queue" /\ Queue!ClaimDue /\ k \in cycle'.todo)
  /\ WF_sessionVars(part = "protocol" /\ Protocol!ReceiveFails)
  /\ WF_sessionVars(part = "protocol" /\ Protocol!WorkerStops)
  /\ WF_sessionVars(part = "protocol" /\ Protocol!Reaped)
  /\ WF_autoVars(part = "automatic" /\ Automatic!LoopStep)
  /\ WF_autoVars(part = "automatic" /\ Automatic!CommandCycle)
  /\ WF_watchVars(part = "watcher" /\ Watcher!Drain)
  /\ WF_watchVars(part = "watcher" /\ Watcher!Expire)
  /\ WF_poolVars(part = "content" /\ Content!MainStep)
  /\ WF_poolVars(part = "semantic" /\ Semantic!MainStep)
  /\ \A w \in Content!Worker : WF_poolVars(part = "content" /\ Content!WorkerStep(w))
  /\ \A w \in Semantic!Worker : WF_poolVars(part = "semantic" /\ Semantic!WorkerStep(w))
  /\ WF_identityVars(part = "identity" /\ Identity!RunStep)
  /\ WF_identityVars(part = "identity" /\ Identity!Invalidate)
  /\ WF_identityVars(part = "identity" /\ Identity!BeginAfterCorrection)
  /\ WF_annVars(part = "ann" /\ (Ann!IndexerStep("index") \/ Ann!SharedStep("index")))
  /\ WF_annVars(part = "ann" /\ (Ann!RebuilderStep("rebuild") \/ Ann!SharedStep("rebuild")))
  /\ \A t \in {"install", "remove", "e1", "e2"} : WF_modelVars(part = "model" /\ Model!Hash(t))
  /\ WF_modelVars(part = "model" /\ Model!InstallerStep("install"))
  /\ WF_modelVars(part = "model" /\ Model!RemoverStep("remove"))
  /\ \A t \in {"e1", "e2"} : WF_modelVars(part = "model" /\ Model!EmbedderStep(t))

Spec == Init /\ [][Next]_vars /\ Fairness

\* No two workers handle one candidate: neither at the same time nor one after
\* the other has sent its result.
OneWorkerPerFile ==
  /\ part = "content" => Content!OneWorkerPerFile
  /\ part = "semantic" => Semantic!OneWorkerPerFile

\* The count shown to the user is the number of results in the database, and a
\* finished extraction batch accounts for every file it was queued with,
\* however it ended.
CountsAreTrue ==
  /\ part = "content" => Content!CountsAreTrue
  /\ part = "semantic" => Semantic!CountsAreTrue

\* A batch called completed has a worker's own result for every candidate:
\* pages, workers and the channel lose none. While candidates leave the set
\* behind the offset, it misses at most as many as left.
CompletedIsComplete == part = "semantic" => Semantic!CompletedIsComplete

\* Once no command or run is under way, a file marked completed for its
\* current analysis is represented by the value the user sees.
CompletedIsCurrent == part = "identity" => Identity!CompletedIsCurrent

\* Once the user leaves the disk alone, the monitoring queue empties: no job is
\* sampled, retried or queued again for ever.
QueueEmpties ==
  <>[](part # "queue" \/ queuePaused \/ ~ enabled
         \/ \A k \in Queue!Keys : queueJobs[k].status \notin Queue!Active)

\* The coordinator never waits for ever: for an answer of the worker, or for
\* the end of a child it has closed.
EveryWaitEnds == []<>(part # "protocol" \/ client.pc \notin {"waiting", "closing"})

\* A file that arrives is dealt with in the end: the automatic loop comes back
\* after an ineligible proposal, a closed gate, a failed batch or a failed
\* execution.
ArrivalsSettle == []<>(part # "automatic" \/ autoJobs = <<>> \/ autoPaused)

\* Once the disk is quiet the monitoring cycle comes to know it: a rename half
\* whose other half never comes expires into a rescan.
CycleLearns == <>[](part # "watcher" \/ watchTold = watchDisk)

\* A batch ends, or loses its database, whatever fails and whenever it is
\* cancelled: no worker waits on the channel for ever and the command waits for
\* no worker that has stopped.
BatchEnds == <>[](part \notin {"content", "semantic"} \/ main.pc \in {"done", "lost"})

\* A resolver run ends, also one that a correction asked for: its rounds stop
\* although it queues files again.
RunEnds == []<>(part # "identity" \/ run.phase = "idle")

\* A rebuild that started ends, with an index that is ready or not available,
\* although indexing threads and deletions interleave with it.
RebuildEnds ==
  (part = "ann" /\ annThread["rebuild"].pc = "clear")
    ~> (part = "ann" /\ annThread["rebuild"] = Ann!Idle
          /\ meta.status \in {"ready", "not_available"})

\* The model is not loading for ever, whatever thread was loading it when the
\* application stopped or another command began.
LoadingEnds == []<>(part # "model" \/ Model!Status # "loading")

\* Every command on the model and every embedding ends: none waits for ever for
\* the session or for a transfer.
CommandsEnd ==
  \A t \in {"install", "remove", "e1", "e2"} : []<>(part # "model" \/ modelThread[t].pc = "idle")

\* The account of a batch is true while its threads run, fail and are
\* cancelled: a file has one worker, the counters are of what was done, and a
\* batch or a resolver run that ends as completed left nothing behind.
WorkIsCounted ==
  /\ part = "content" => Content!TypeOK
  /\ part = "semantic" => Semantic!TypeOK
  /\ part = "identity" => Identity!TypeOK
  /\ OneWorkerPerFile /\ CountsAreTrue /\ CompletedIsComplete
  /\ CompletedIsCurrent

\* Once the disk is left alone, monitoring comes to rest with all of it known:
\* the queue empties, the watcher has told everything, and what arrived was
\* settled by the automatic loop.
MonitoringSettles == QueueEmpties /\ CycleLearns /\ ArrivalsSettle

\* What was started ends: no wait for the worker, batch, resolver run, rebuild
\* of the index, loading of the model or command lasts for ever.
WorkEnds ==
  /\ EveryWaitEnds /\ BatchEnds /\ RunEnds /\ RebuildEnds /\ LoadingEnds
  /\ CommandsEnd
==============================================================================
