---------------------------- MODULE MCMonitoring -----------------------------
(***************************************************************************)
(* Continuous monitoring, from the change of a file to the catalogue and   *)
(* to the automatic execution.  The parts are checked side by side: the    *)
(* initial state says which of them a behaviour is about, and the          *)
(* variables of the others are Off.  The lease, whose module is extended,  *)
(* keeps its initial state meanwhile.                                      *)
(***************************************************************************)
EXTENDS MonitoringLease, TLC

CONSTANTS
  Nil,
  MaxProposals, MaxRevision, MaxJobs, MaxSwitches, Race,  \* the automatic mode
  Inodes                                                  \* the catalogue

VARIABLES
  part,       \* the part that this behaviour is about
  queueDisk, catalog, excluded, queuePaused, queuePending, enabled,
  queueStatus, watching, hints, queueJobs, queuePc, cycle, queueCmd, newborn,
  queueTold, edits, faults, commands, crashes,
  watchDisk, watchTold, channel, overflowed, watchPc, batch, watchPending,
  gone, watchChanges,
  pollDisk, pollTold, swollen, running, snapshot, pendingRescan, pollChanges,
  mode, autoPaused, startup, autoJobs, arrived, failed, gate, props, holders,
  cancelled, dialog, loop, autoCmd, applied, unclean, switches,
  catDisk, obj, clock, was, cat, groups, rows, proc

\* Two contents of one size, and for the monitored folder one of another size.
TwoSizes == [c \in {"x", "y", "z"} |-> IF c = "z" THEN 2 ELSE 1]
OneSize == [c \in {"x", "y"} |-> 1]

\* Processes and inodes are interchangeable.
Symmetry == Permutations(Holders) \cup Permutations(Inodes)

Queue == INSTANCE MonitoringQueue WITH
  NumPaths <- 2, MaxEdits <- 2,
  MaxFaults <- 1, MaxCommands <- 0, MaxCrashes <- 0, Conditions <- {"rename"},
  disk <- queueDisk, paused <- queuePaused, pending <- queuePending,
  status <- queueStatus, jobs <- queueJobs, pc <- queuePc, cmd <- queueCmd,
  told <- queueTold
Commanded == INSTANCE MonitoringQueue WITH
  NumPaths <- 2, MaxEdits <- 2,
  MaxFaults <- 0, MaxCommands <- 1, MaxCrashes <- 0, Conditions <- {"rename"},
  disk <- queueDisk, paused <- queuePaused, pending <- queuePending,
  status <- queueStatus, jobs <- queueJobs, pc <- queuePc, cmd <- queueCmd,
  told <- queueTold
Linux == INSTANCE NativeWatcher WITH
  None <- Nil, Backend <- "linux",
  Reuse <- FALSE, ChannelSize <- 3, MaxPending <- 1, MaxChanges <- 3,
  disk <- watchDisk, told <- watchTold, pc <- watchPc, pending <- watchPending,
  changes <- watchChanges
MacOS == INSTANCE NativeWatcher WITH
  None <- Nil, Backend <- "macos",
  Reuse <- FALSE, ChannelSize <- 3, MaxPending <- 1, MaxChanges <- 3,
  disk <- watchDisk, told <- watchTold, pc <- watchPc, pending <- watchPending,
  changes <- watchChanges
Windows == INSTANCE NativeWatcher WITH
  None <- Nil, Backend <- "windows",
  Reuse <- FALSE, ChannelSize <- 3, MaxPending <- 1, MaxChanges <- 3,
  disk <- watchDisk, told <- watchTold, pc <- watchPc, pending <- watchPending,
  changes <- watchChanges
Polling == INSTANCE PollingMonitor WITH
  None <- Nil, HintBudget <- 2,
  SwellsLater <- FALSE, MaxChanges <- 6, disk <- pollDisk, told <- pollTold,
  changes <- pollChanges
Automatic == INSTANCE AutomaticMode WITH
  None <- Nil, paused <- autoPaused, jobs <- autoJobs, cmd <- autoCmd
Scans == INSTANCE CatalogueProofs WITH
  None <- Nil, Paths <- {"a", "b"},
  Contents <- {"x", "y"}, Size <- OneSize, Big <- {}, Hidden <- {},
  BadLabel <- {}, Kinds <- {"full", "targeted"}, BatchSize <- 2,
  MaxChanges <- 1, MaxScans <- 2, disk <- catDisk
Watched == INSTANCE CatalogueProofs WITH
  None <- Nil, Paths <- {"a", "b", "c"},
  Contents <- {"x", "y", "z"}, Size <- TwoSizes, Big <- {}, Hidden <- {},
  BadLabel <- {}, Kinds <- {"targeted"}, BatchSize <- 2, MaxChanges <- 1,
  MaxScans <- 2, disk <- catDisk
Consumer == INSTANCE CatalogueProofs WITH
  None <- Nil, Paths <- {"a", "b", "c"},
  Contents <- {"x"}, Size <- [c \in {"x"} |-> 1], Big <- {}, Hidden <- {"c"},
  BadLabel <- {}, Kinds <- {"consumer"}, BatchSize <- 2, MaxChanges <- 1,
  MaxScans <- 2, disk <- catDisk

ASSUME PartsAssumption ==
  /\ Queue!BoundAssumption /\ Commanded!BoundAssumption
  /\ Automatic!AutomaticAssumption
  /\ Scans!CatalogueAssumption /\ Watched!CatalogueAssumption /\ Consumer!CatalogueAssumption

\* The variables of a part that does not run.
Off == "off"
QueueOff ==
  /\ queueDisk = Off /\ catalog = Off /\ excluded = Off
  /\ queuePaused = Off /\ queuePending = Off /\ enabled = Off
  /\ queueStatus = Off /\ watching = Off /\ hints = Off /\ queueJobs = Off
  /\ queuePc = Off /\ cycle = Off /\ queueCmd = Off /\ newborn = Off
  /\ queueTold = Off /\ edits = Off /\ faults = Off /\ commands = Off
  /\ crashes = Off
LinuxOff ==
  /\ watchDisk = Off /\ watchTold = Off /\ channel = Off
  /\ overflowed = Off /\ watchPc = Off /\ batch = Off /\ watchPending = Off
  /\ gone = Off /\ watchChanges = Off
PollingOff ==
  /\ pollDisk = Off /\ pollTold = Off /\ swollen = Off
  /\ running = Off /\ snapshot = Off /\ pendingRescan = Off
  /\ pollChanges = Off
AutomaticOff ==
  /\ mode = Off /\ autoPaused = Off /\ startup = Off
  /\ autoJobs = Off /\ arrived = Off /\ failed = Off /\ gate = Off
  /\ props = Off /\ holders = Off /\ cancelled = Off /\ dialog = Off
  /\ loop = Off /\ autoCmd = Off /\ applied = Off /\ unclean = Off
  /\ switches = Off
ScansOff ==
  /\ catDisk = Off /\ obj = Off /\ clock = Off /\ was = Off
  /\ cat = Off /\ groups = Off /\ rows = Off /\ proc = Off

queueVars ==
  <<queueDisk, catalog, excluded, queuePaused, queuePending,
    enabled, queueStatus, watching, hints, queueJobs, queuePc, cycle, queueCmd,
    newborn, queueTold, edits, faults, commands, crashes>>
watchVars ==
  <<watchDisk, watchTold, channel, overflowed, watchPc, batch,
    watchPending, gone, watchChanges>>
pollVars ==
  <<pollDisk, pollTold, swollen, running, snapshot, pendingRescan,
    pollChanges>>
autoVars ==
  <<mode, autoPaused, startup, autoJobs, arrived, failed, gate,
    props, holders, cancelled, dialog, loop, autoCmd, applied, unclean,
    switches>>
catVars ==
  <<catDisk, obj, clock, was, cat, groups, rows, proc>>

MCInit ==
  \/ part = "lease" /\ Init /\ QueueOff /\ LinuxOff /\ PollingOff /\
       AutomaticOff /\ ScansOff
  \/ part = "queue" /\ Queue!Init /\ Init /\ LinuxOff /\ PollingOff /\
       AutomaticOff /\ ScansOff
  \/ part = "commanded" /\ Commanded!Init /\ Init /\ LinuxOff /\ PollingOff /\
       AutomaticOff /\ ScansOff
  \/ part = "linux" /\ Linux!Init /\ Init /\ QueueOff /\ PollingOff /\
       AutomaticOff /\ ScansOff
  \/ part = "macos" /\ MacOS!Init /\ Init /\ QueueOff /\ PollingOff /\
       AutomaticOff /\ ScansOff
  \/ part = "windows" /\ Windows!Init /\ Init /\ QueueOff /\ PollingOff /\
       AutomaticOff /\ ScansOff
  \/ part = "polling" /\ Polling!Init /\ Init /\ QueueOff /\ LinuxOff /\
       AutomaticOff /\ ScansOff
  \/ part = "automatic" /\ Automatic!Init /\ Init /\ QueueOff /\ LinuxOff /\
       PollingOff /\ ScansOff
  \/ part = "scans" /\ Scans!Init /\ Init /\ QueueOff /\ LinuxOff /\
       PollingOff /\ AutomaticOff
  \/ part = "watched" /\ Watched!Init /\ Init /\ QueueOff /\ LinuxOff /\
       PollingOff /\ AutomaticOff
  \/ part = "consumer" /\ Consumer!Init /\ Init /\ QueueOff /\ LinuxOff /\
       PollingOff /\ AutomaticOff

MCNext ==
  \/ part = "lease" /\ Next /\ UNCHANGED <<part, queueVars, watchVars,
       pollVars, autoVars, catVars>>
  \/ part = "queue" /\ Queue!Next /\ UNCHANGED <<part, vars, watchVars,
       pollVars, autoVars, catVars>>
  \/ part = "commanded" /\ Commanded!Next /\ UNCHANGED <<part, vars, watchVars,
       pollVars, autoVars, catVars>>
  \/ part = "linux" /\ Linux!Next /\ UNCHANGED <<part, vars, queueVars,
       pollVars, autoVars, catVars>>
  \/ part = "macos" /\ MacOS!Next /\ UNCHANGED <<part, vars, queueVars,
       pollVars, autoVars, catVars>>
  \/ part = "windows" /\ Windows!Next /\ UNCHANGED <<part, vars, queueVars,
       pollVars, autoVars, catVars>>
  \/ part = "polling" /\ Polling!Next /\ UNCHANGED <<part, vars, queueVars,
       watchVars, autoVars, catVars>>
  \/ part = "automatic" /\ Automatic!Next /\ UNCHANGED <<part, vars, queueVars,
       watchVars, pollVars, catVars>>
  \/ part = "scans" /\ Scans!Next /\ UNCHANGED <<part, vars, queueVars,
       watchVars, pollVars, autoVars>>
  \/ part = "watched" /\ Watched!Next /\ UNCHANGED <<part, vars, queueVars,
       watchVars, pollVars, autoVars>>
  \/ part = "consumer" /\ Consumer!Next /\ UNCHANGED <<part, vars, queueVars,
       watchVars, pollVars, autoVars>>

all == <<part, vars, queueVars, watchVars, pollVars, autoVars, catVars>>

MCSpec == MCInit /\ [][MCNext]_all

\* No change is lost: when monitoring has nothing left to do, the catalogue is
\* what is on disk, except for excluded paths and for paths the user is told
\* about.
NoLostChange ==
  /\ part = "queue" => Queue!NoLostChange
  /\ part = "commanded" => Commanded!NoLostChange

\* A cycle gives back every job it claimed, however it ends: screened,
\* cancelled, failed half way, or raced by an event that queued the job again.
\* (Only a recovery that itself fails leaves a claim, until its lease
\* expires.)
ClaimsReleased ==
  /\ part = "queue" => Queue!ClaimsReleased
  /\ part = "commanded" => Commanded!ClaimsReleased

\* No change of the disk is lost: whatever the cycle does not know yet is in
\* the channel, in the flag, in the batch of the drain in progress or among
\* the rename halves kept over drains, although the channel may be full, the
\* halves arrive in different drains, and events are read after the path has
\* changed again (drain_hints, resolve_native_rename_hints,
\* coalesce_change_hints).
WatcherLosesNothing ==
  /\ part = "linux" => Linux!NoChangeIsLost
  /\ part = "macos" => MacOS!NoChangeIsLost
  /\ part = "windows" => Windows!NoChangeIsLost

\* While the monitor runs, what the cycle does not know will differ from the
\* snapshot kept when the next one is taken, or a rescan is owed: no change is
\* lost to the guess of renames, to the budgets, or to a snapshot that was not
\* kept (drain_hints_with_cancellation, diff_snapshots).
PollLosesNothing == part = "polling" => Polling!PollLosesNothing

\* After a complete poll the cycle knows the root as the snapshot has it: the
\* hints of one difference, with their scopes and after they were reduced,
\* cover every path that changed.
PollTellsAll == [][part = "polling" => Polling!PollTellsAllStep]_all

\* The loop and the command never run a cycle of the workspace at once: an
\* entry of the registry is taken by one of them and kept until its end, in
\* every order of starting, pausing and finishing.
OneCycle == part = "automatic" => Automatic!OneCycle

\* Automatic work fails closed: nothing is executed while Apply is
\* unavailable, even when it became so after the loop had asked.
FailsClosed == part = "automatic" => Automatic!FailsClosed

\* However scans overlap, a path has one file, a file one path and an inode
\* one file in the catalogue.
OneHome ==
  /\ part = "scans" => Scans!OneHome
  /\ part = "watched" => Watched!OneHome
  /\ part = "consumer" => Consumer!OneHome

\* The digest of a version is of the content the file had at the size and time
\* the version states, although the file may be written or replaced between
\* its inspection and its hashing.
DigestIsOfVersion ==
  /\ part = "scans" => Scans!DigestIsOfVersion
  /\ part = "watched" => Watched!DigestIsOfVersion

\* Members of a duplicate group are the latest versions of files that are in
\* the catalogue, with one digest, and at least two.
GroupsAreCurrent ==
  /\ part = "scans" => Scans!GroupsAreCurrent
  /\ part = "watched" => Watched!GroupsAreCurrent

\* A scan that ends while the disk was quiet finds the duplicates: a full scan
\* all of them, a targeted scan those of its file among the files the
\* catalogue knows at their size.
DuplicatesFound == [][part = "watched" => Watched!DuplicatesFoundStep]_all

\* A file that monitoring found again at the destination of its move, on a
\* disk that is quiet since, keeps its identity when the source is marked
\* missing (reconcile_prepared_jobs persists destinations first).
MoveKeepsIdentity ==
  [][part = "watched" => Watched!MoveKeepsIdentityStep]_all

\* A consumer scan that was not cancelled and could read the volume ends with
\* every visible file of a quiet disk in the catalogue.
DiscoversToTheEnd ==
  [][part = "consumer" => Consumer!DiscoversToTheEndStep]_all

\* A change of a file on disk is never forgotten on its way into the queue:
\* what a watcher or a poll was told of is with it, in a hint, in a pending
\* rescan or in a job until a cycle has dealt with it, and a claim outlives no
\* cycle that gave up.
NoChangeIsLost ==
  /\ part = "queue" => Queue!TypeOK
  /\ part = "commanded" => Commanded!TypeOK
  /\ part = "linux" => Linux!TypeOK
  /\ part = "macos" => MacOS!TypeOK
  /\ part = "windows" => Windows!TypeOK
  /\ part = "polling" => Polling!TypeOK
  /\ NoLostChange /\ ClaimsReleased /\ WatcherLosesNothing
  /\ PollLosesNothing

\* The automatic execution is one at a time and starts only with every gate
\* open at the moment it starts: two commands, the loop and a switch of the
\* mode race for it.
AutomaticIsGuarded ==
  /\ part = "automatic" => Automatic!TypeOK
  /\ OneCycle /\ FailsClosed

\* The catalogue has one live entry per file, digests that are of the version
\* they stand beside, and groups of duplicates that hold present files with
\* equal digests, while scans, monitored changes and cancellations follow each
\* other.
CatalogueIsTrue ==
  /\ part = "scans" => Scans!TypeOK
  /\ part = "watched" => Watched!TypeOK
  /\ part = "consumer" => Consumer!TypeOK
  /\ OneHome /\ DigestIsOfVersion /\ GroupsAreCurrent

\* What ends as complete left nothing out: a poll tells of every difference, a
\* scan finds every pair of equal files, keeps the identity of a file that
\* moved, and visited every folder it was to visit.
FinishedIsComplete ==
  /\ PollTellsAll /\ DuplicatesFound /\ MoveKeepsIdentity
  /\ DiscoversToTheEnd
==============================================================================
