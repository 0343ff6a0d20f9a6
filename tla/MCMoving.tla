------------------------------ MODULE MCMoving -------------------------------
(***************************************************************************)
(* What lies below the execution coordinator when files are moved: the     *)
(* plan, the protocol with the worker, the worker's system calls (whose    *)
(* module is extended), the recovery journal and the transfer between      *)
(* volumes.  The parts are checked side by side: the initial state says    *)
(* which of them a behaviour is about, and the variables of the others are *)
(* Off.                                                                    *)
(***************************************************************************)
EXTENDS SafeRename, TLC

CONSTANTS
  Ops, Deps, SessionLife, MessageLife, Attempts, MaxSessions, MaxTime,  \* the protocol
  Executions, Cuts, MaxEvents, MaxStops,                     \* the journal
  Enabled, TransferChanges                                   \* the transfer

VARIABLES
  part,       \* the part that this behaviour is about
  source, dest, planAt, dirs, phase, blocked, deps, sources, k, remaining,
  order, cyclic, planPlan, planStep,
  now, client, worker, requests, replies, done, count, results,
  file, synced, journalJournal, heads, locked, events, active, acked,
  journalPc, stops,
  transferPlan, approval, volume, transferAt, transferJournal, transferPc,
  print, outcome, alive, transferTouched, transferChanges

\* Five paths in two levels of directories, two of which differ in case only:
\* room for chains, swaps and cycles of three.  No file has the name of a
\* directory.
Tree == {<<"x">>, <<"X">>, <<"d", "x">>, <<"d", "e", "x">>, <<"c", "y">>}
Cases == [n \in {"X", "D"} |-> IF n = "X" THEN "x" ELSE "d"]

\* A directory and a move into it.
PlanOps == {"mkdir", "move"}
PlanDeps == [o \in PlanOps |-> IF o = "move" THEN {"mkdir"} ELSE {}]

\* The executions are interchangeable.
Symmetry == Permutations(Executions)

Planning == INSTANCE ExecutionPlanning WITH
  N <- 3, Paths <- Tree,
  Lower <- Cases, AllowCaseOnly <- TRUE, AllowSubset <- TRUE, at <- planAt,
  plan <- planPlan, step <- planStep
Protocol == INSTANCE ExecutorProtocol
Journal == INSTANCE RecoveryJournal WITH
  journal <- journalJournal, pc <- journalPc
Transfer == INSTANCE CrossVolumeTransfer WITH
  MaxChanges <- TransferChanges, plan <- transferPlan, at <- transferAt,
  journal <- transferJournal, pc <- transferPc, touched <- transferTouched,
  changes <- transferChanges

ASSUME PartsAssumption ==
  /\ Planning!PlanningAssumption
  /\ Protocol!ProtocolAssumption
  \* No write is cut exactly at its newline.
  /\ Journal!JournalAssumption /\ "bare" \notin Cuts
  /\ Transfer!TransferAssumption
  \* A call that reports a sharing or lock violation has done nothing.
  /\ "sharing" \notin Misreports

\* The variables of a part that does not run.
Off == "off"
PlanningOff ==
  /\ source = Off /\ dest = Off /\ planAt = Off /\ dirs = Off
  /\ phase = Off /\ blocked = Off /\ deps = Off /\ sources = Off /\ k = Off
  /\ remaining = Off /\ order = Off /\ cyclic = Off /\ planPlan = Off
  /\ planStep = Off
ProtocolOff ==
  /\ now = Off /\ client = Off /\ worker = Off /\ requests = Off
  /\ replies = Off /\ done = Off /\ count = Off /\ results = Off
RenameOff ==
  /\ platform = Off /\ dirAt = Off /\ linked = Off /\ entry = Off
  /\ content = Off /\ stamp = Off /\ filled = Off /\ op = Off /\ step = Off
  /\ held = Off /\ attempt = Off /\ result = Off /\ touched = Off
  /\ changes = Off
JournalOff ==
  /\ file = Off /\ synced = Off /\ journalJournal = Off
  /\ heads = Off /\ locked = Off /\ events = Off /\ active = Off /\ acked = Off
  /\ journalPc = Off /\ stops = Off
TransferOff ==
  /\ transferPlan = Off /\ approval = Off /\ volume = Off
  /\ transferAt = Off /\ transferJournal = Off /\ transferPc = Off
  /\ print = Off /\ outcome = Off /\ alive = Off /\ transferTouched = Off
  /\ transferChanges = Off

planVars ==
  <<source, dest, planAt, dirs, phase, blocked, deps, sources, k,
    remaining, order, cyclic, planPlan, planStep>>
sessionVars ==
  <<now, client, worker, requests, replies, done, count,
    results>>
journalVars ==
  <<file, synced, journalJournal, heads, locked, events, active,
    acked, journalPc, stops>>
transferVars ==
  <<transferPlan, approval, volume, transferAt,
    transferJournal, transferPc, print, outcome, alive, transferTouched,
    transferChanges>>

MCInit ==
  \/ part = "planning" /\ Planning!Init /\ ProtocolOff /\ RenameOff /\
       JournalOff /\ TransferOff
  \/ part = "protocol" /\ Protocol!Init /\ PlanningOff /\ RenameOff /\
       JournalOff /\ TransferOff
  \/ part = "rename" /\ Init /\ PlanningOff /\ ProtocolOff /\
       JournalOff /\ TransferOff
  \/ part = "journal" /\ Journal!Init /\ PlanningOff /\ ProtocolOff /\
       RenameOff /\ TransferOff
  \/ part = "transfer" /\ Transfer!Init /\ PlanningOff /\ ProtocolOff /\
       RenameOff /\ JournalOff

MCNext ==
  \/ part = "planning" /\ Planning!Next /\ UNCHANGED <<part, vars,
       sessionVars, journalVars, transferVars>>
  \/ part = "protocol" /\ Protocol!Next /\ UNCHANGED <<part, vars,
       planVars, journalVars, transferVars>>
  \/ part = "rename" /\ Next /\ UNCHANGED <<part, planVars, sessionVars,
       journalVars, transferVars>>
  \/ part = "journal" /\ Journal!Next /\ UNCHANGED <<part, vars,
       planVars, sessionVars, transferVars>>
  \/ part = "transfer" /\ Transfer!Next /\ UNCHANGED <<part, vars,
       planVars, sessionVars, journalVars>>

all == <<part, vars, planVars, sessionVars, journalVars, transferVars>>

MCSpec == MCInit /\ [][MCNext]_all

\* A frozen plan can be carried out to its end when nothing else touches the
\* folder: directories exist before they are used, a destination is vacated
\* before it is taken, a directory is empty when it is removed; and from any
\* point the way back is open too.
EveryStepPossible == part = "planning" => Planning!EveryStepPossible

\* A plan that has run has put every accepted file at its destination, with
\* the requested case, and has touched no other file: chains, swaps, several
\* cycles, changes of case and blocked neighbours included.
Delivered == part = "planning" => Planning!Delivered

\* A rollback, from wherever it starts, ends with the folder as it was.
Restored == part = "planning" => Planning!Restored

\* Every operation comes after those it needs, so that the worker, which
\* checks it again, never refuses one; and every accepted file is delivered
\* once.
Topological == part = "planning" => Planning!Topological

\* What the coordinator is told is true, then and for the rest of the session:
\* success means performed exactly once, not applied and refused mean never
\* performed, however frames are repeated, delayed or mixed up and whatever
\* the handler retries.
SessionAnswersAreTrue == part = "protocol" => Protocol!AnswersAreTrue

\* An operation is on disk only with everything it depends on: the order of
\* the plan holds forward, and in reverse for a rollback.
DependenciesOnDisk == part = "protocol" => Protocol!DependenciesOnDisk

\* Only what the session authorises is performed: forward in the session that
\* applies, backward in one that rolls back.
AuthorizedOnly == part = "protocol" => Protocol!AuthorizedOnly

\* An event on which a mutation may follow is durable and can be read back,
\* for ever, whatever fails around it: "journal durable avant tout nouvel
\* effet" (docs/recovery/README.md).
AckedIsReadable == part = "journal" => Journal!AckedIsReadable

\* A service that accepts mutations has both journals in step, but for the
\* event that a running execution is about to write.
UnlockedInStep == part = "journal" => Journal!UnlockedInStep

\* Whatever the service answers, fails at or is stopped at, every file the
\* other process has not itself removed is still under one of the names: no
\* rename and no copy of execute puts a file in the place of another.
TransferLosesNothing == part = "transfer" => Transfer!NothingIsLost

\* What the answer says of the disk is true unless the other process has been
\* there: a receipt means the approved content at the destination and the
\* original in the vault; "restored" the file of the vault back at the source;
\* a refusal before the journal was opened that nothing was done.
TransferAnswerIsTrue == part = "transfer" => Transfer!AnswerIsTrue

\* Each change execute makes to the disk follows the intent of that change as
\* the last event of the journal, so that a crash after it is explained
\* (append_intent before copy_verified and before each rename). Only the way
\* back from a failed publication has no intent of its own.
EveryMoveIsAnnounced ==
  [][part = "transfer" => Transfer!EveryMoveIsAnnouncedStep]_all

\* The file that appears at the destination has the approved content, and the
\* approved original is in the vault by then, unless the other process has
\* been there: neither an edit of the copy after its verification nor one of
\* the source before the vault gets through.
PublishedIsApproved ==
  [][part = "transfer" => Transfer!PublishedIsApprovedStep]_all

\* A plan of chains, swaps and cycles of renames can be carried out step by
\* step on a disk that does not replace files, delivers every file, is in the
\* order of its dependencies, and its undo restores the tree from wherever it
\* stopped.
PlanIsSound ==
  /\ part = "planning" => Planning!TypeOK
  /\ EveryStepPossible /\ Delivered /\ Restored /\ Topological

\* What the coordinator is told is so on disk: an accepted answer of the
\* worker is about its own operation, a declined rename moved nothing, an
\* acknowledged journal event can be read after a crash by whoever takes the
\* lock, and a transfer that reports an outcome left the file where it says,
\* with no copy lost.
AnswersAreTrue ==
  /\ part = "protocol" => Protocol!TypeOK
  /\ part = "rename" => TypeOK /\ DeclinedIsUntouched
  /\ part = "journal" => Journal!TypeOK
  /\ part = "transfer" => Transfer!TypeOK
  /\ SessionAnswersAreTrue /\ AckedIsReadable
  /\ UnlockedInStep /\ TransferAnswerIsTrue /\ TransferLosesNothing

\* Nothing runs that was not permitted: no operation outside its session, its
\* permit or before what it depends on, whatever messages are delayed,
\* repeated or lost, and no other file than the approved one is moved when
\* another process exchanges files in between.
OnlyApprovedIsDone ==
  /\ DependenciesOnDisk /\ AuthorizedOnly
  /\ part = "rename" => OnlyApprovedIsMoved

\* No step of the worker destroys or touches what is not its own: it applies
\* to the approved file only, replaces no other process's file, stays below
\* the root, and a transfer announces each change of the disk in the journal
\* before it publishes the approved content only.
NothingIsLost ==
  /\ [][part = "rename" =>
          AppliedIsApprovedStep /\ ObjectsSurviveStep /\ OutsideIsUntouchedStep]_all
  /\ EveryMoveIsAnnounced /\ PublishedIsApproved
==============================================================================
