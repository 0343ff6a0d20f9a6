------------------------ MODULE ExecutionCoordinator ------------------------
(***************************************************************************)
(* One local execution as the coordinator runs it: consent, start, pause,  *)
(* cancel, rollback, recovery and restart, against the SQLCipher catalogue,*)
(* the encrypted external journal, the isolated worker and the disk.       *)
(*                                                                         *)
(* Sources: crates/application/src/execution.rs (the service),             *)
(* crates/persistence/src/execution.rs (its transactions),                 *)
(* crates/domain/src/execution.rs (its enumerations).                      *)
(*                                                                         *)
(* A step is one database transaction, one journal append, one message to  *)
(* or from the worker, or one effect on the disk.  Tauri runs every command*)
(* on a blocking thread of its own and nothing serialises the commands, so *)
(* the steps of two commands interleave freely.                            *)
(***************************************************************************)
EXTENDS Naturals, Sequences, FiniteSets

CONSTANTS
  NOps,           \* number of planned operations, numbered in plan order
  Directories,    \* the operations that create a directory
  Stages,         \* the internal-stage operations that break a cycle
  Deps,           \* Deps[o]: the operations o depends on
  FinalizeCmds,   \* threads that run finalize_execution_consent
  StartCmds,      \* threads that run start_execution
  RollbackCmds,   \* threads that run rollback_execution
  CancelCmds,     \* threads that run cancel_execution
  Recovery,       \* the one thread RecoveryGuard lets run recover_execution
  MaxCrashes,     \* bound: coordinator crashes
  MaxFaults,      \* bound: worker or journal faults
  MaxUserChanges, \* bound: changes the user makes to the files meanwhile
  MaxEvents,      \* bound: no rollback begins on a longer journal
  LateMutation,   \* may a worker act after its caller gave up on it
  Overlap         \* may the user give a command while another one runs

Ops == 1..NOps

NoOp == 0

Movers == StartCmds \cup RollbackCmds

Threads == Movers \cup CancelCmds \cup FinalizeCmds \cup {Recovery}

ASSUME PlanAssumption ==
  /\ NOps \in Nat \ {0}
  /\ Directories \subseteq Ops
  /\ Stages \subseteq Ops \ Directories
  /\ Deps \in [Ops -> SUBSET Ops]

ASSUME ThreadAssumption ==
  /\ StartCmds \cap (RollbackCmds \cup CancelCmds \cup FinalizeCmds) = {}
  /\ RollbackCmds \cap (CancelCmds \cup FinalizeCmds) = {}
  /\ CancelCmds \cap FinalizeCmds = {}
  /\ Recovery \notin Movers \cup CancelCmds \cup FinalizeCmds

ASSUME BoundAssumption ==
  /\ MaxCrashes \in Nat
  /\ MaxFaults \in Nat
  /\ MaxUserChanges \in Nat
  /\ MaxEvents \in Nat
  /\ LateMutation \in BOOLEAN
  /\ Overlap \in BOOLEAN

VARIABLES
  status, recovery,        \* local_execution_sessions.status, .recovery_state
  pauseReq, cancelReq,     \* .pause_requested, .cancel_requested
  consent,                 \* local_execution_consents.state
  opStatus,                \* local_execution_operations.status
  requests,                \* local_executor_requests, in creation order
  journal,                 \* local_execution_journal
  ext,                     \* length of the prefix the external journal holds
  locked,                  \* journal diagnostics are recorded (in memory)
  booting,                 \* the service is still reconciling at startup
  loc,                     \* what the disk shows of each operation
  touched,                 \* ghost: operations whose files the user changed
  moved,                   \* ghost: requests whose mutation has happened
  pc, unsynced, cur, todo, done, op, rid, seen, facts, amb,  \* thread locals
  worker,                  \* the worker process of each moving thread
  orphans,                 \* requests still running in workers left behind
  crashes, faults, changes \* how much of each bound is used

session == <<status, recovery, pauseReq, cancelReq, consent>>
db == <<session, opStatus, requests, journal>>
disk == <<loc, touched, moved>>
local == <<pc, unsynced, cur, todo, done, op, rid, seen, facts, amb, worker>>
bounds == <<crashes, faults, changes>>
vars == <<db, ext, locked, booting, disk, local, orphans, bounds>>

-----------------------------------------------------------------------------
(* The enumerations of crates/domain/src/execution.rs *)

SessionStatus ==
  {"awaiting_confirmation", "approved", "running", "paused", "cancelled",
   "completed", "partial", "failed", "recovery_required",
   "recovery_available", "recovery_ambiguous", "rolling_back",
   "rolled_back", "rollback_partial"}

RecoveryStates == {"not_required", "required", "available", "ambiguous"}

ConsentStates == {"pending", "attested", "consumed", "expired", "invalidated"}

OpStatuses ==
  {"preflight_ok", "blocked", "running", "applied", "failed", "recovered",
   "rolling_back", "rolled_back", "rollback_blocked"}

Directions == {"forward", "rollback"}

RequestStates ==
  {"intent_durable", "acknowledged_success", "proven_not_applied",
   "recovery_required", "proven_not_started", "proven_applied", "ambiguous"}

EventKinds ==
  {"approved_durable", "preconditions_validated", "intent_durable",
   "applied_observed", "step_failed", "rollback_intent",
   "rolled_back_observed", "conflict", "execution_finished"}

Events == [kind : EventKinds, op : Ops \cup {NoOp}, req : Nat]

Requests == [op : Ops, dir : Directions, seq : Nat, state : RequestStates]

\* ExecutorRequestState::may_transition_to
MayTransition(from, to) ==
  \/ from = to
  \/ /\ from = "intent_durable"
     /\ to \in RequestStates \ {"intent_durable"}
  \/ /\ from = "acknowledged_success"
     /\ to \in {"proven_applied", "recovery_required", "ambiguous"}
  \/ /\ from = "recovery_required"
     /\ to \in {"proven_not_started", "proven_applied", "ambiguous"}
  \/ /\ from = "proven_not_applied"
     /\ to \in {"recovery_required", "proven_not_started", "ambiguous"}
  \/ /\ from \in {"proven_not_started", "proven_applied"}
     /\ to = "ambiguous"

\* Statuses that clear recovery_state when an event sets them.
Resolving ==
  {"completed", "partial", "failed", "cancelled", "rolled_back",
   "rollback_partial"}

NeedsRecovery ==
  {"recovery_required", "recovery_available", "recovery_ambiguous"}

MayRollBack ==
  {"completed", "partial", "cancelled", "failed", "recovery_available",
   "paused"}

Interrupted == {"running", "rolling_back"}

\* Mutant: operations that recovery proved applied are forgotten.
AppliedWithoutRecovered == {"applied"}

AppliedStatuses == {"applied", "recovered"}

-----------------------------------------------------------------------------
(* What the disk shows.  loc[o] is "src" when the object of operation o is  *)
(* exactly where it was before o, "dst" when it is exactly where o puts it, *)
(* "other" when it changed, vanished or met a foreign object.               *)

Locations == {"src", "dst", "other"}

DepsInPlace(o) == \A d \in Deps[o] : loc[d] = "dst"

\* A later operation of this plan uses what o put in place.
InUse(o) == \E p \in Ops : o \in Deps[p] /\ loc[p] = "dst"

\* revalidate_operation: exact source, absent destination.
ForwardReady(o) == loc[o] = "src" /\ DepsInPlace(o)

\* revalidate_rollback: a created directory that is already gone is accepted.
RollbackReady(o) ==
  \/ loc[o] = "dst" /\ ~InUse(o)
  \/ o \in Directories /\ loc[o] = "src"

Ready(dir, o) == IF dir = "forward" THEN ForwardReady(o) ELSE RollbackReady(o)

\* The preconditions the worker checks itself before it mutates.
WorkerReady(dir, o) ==
  IF dir = "forward" THEN ForwardReady(o) ELSE loc[o] = "dst" /\ ~InUse(o)

Target(dir) == IF dir = "forward" THEN "dst" ELSE "src"

\* verify_postcondition, verify_rollback_postcondition
Verified(dir, o) == loc[o] = Target(dir)

\* Mutant: the places are not swapped for a rollback.
ObservationSameBothWays(dir, o) ==
  CASE loc[o] = "src" -> "not_started"
    [] loc[o] = "dst" -> "applied"
    [] OTHER          -> "ambiguous"

\* observe_recovery, observe_rollback_recovery
Observation(dir, o) ==
  LET before == loc[o] = "src" /\ (o \in Directories \/ DepsInPlace(o))
      after  == loc[o] = "dst" /\ (o \in Directories \/ ~InUse(o))
  IN IF before THEN IF dir = "forward" THEN "not_started" ELSE "applied"
     ELSE IF after THEN IF dir = "forward" THEN "applied" ELSE "not_started"
     ELSE "ambiguous"

-----------------------------------------------------------------------------
(* The pieces every command is made of *)

Dir(t) == IF t \in StartCmds THEN "forward" ELSE "rollback"

NoSnapshot == [o \in Ops |-> "preflight_ok"]

Goto(t, label) == pc' = [pc EXCEPT ![t] = label]

\* The command returns, with or without an error: its locals are dropped and
\* its worker process is reaped.
Return(t) ==
  /\ Goto(t, "idle")
  /\ unsynced' = [unsynced EXCEPT ![t] = FALSE]
  /\ cur' = [cur EXCEPT ![t] = 0]
  /\ todo' = [todo EXCEPT ![t] = {}]
  /\ done' = [done EXCEPT ![t] = {}]
  /\ op' = [op EXCEPT ![t] = NoOp]
  /\ rid' = [rid EXCEPT ![t] = 0]
  /\ seen' = [seen EXCEPT ![t] = NoSnapshot]
  /\ worker' = [worker EXCEPT ![t] = "none"]
  /\ facts' = IF t = Recovery THEN <<>> ELSE facts
  /\ amb' = (amb /\ t # Recovery)
  /\ booting' = (booting /\ t # Recovery)

\* require_apply_gate / require_mutations_unlocked, for a command the user
\* gives once the service is constructed.  The panel disables its buttons while
\* a command runs; a pause or cancel request enables them again (Overlap).
MayCall(t) ==
  /\ pc[t] = "idle"
  /\ ~booting
  /\ ~locked
  /\ Overlap \/ \A u \in Threads : pc[u] = "idle"

\* synchronize_external_journal(_, false) finds the external journal complete
ExternalComplete == ext = Len(journal)

\* synchronize_external_journal(_, false) fails: the diagnostics lock the
\* service and the command returns.
LockOn(t) ==
  /\ ~ExternalComplete
  /\ locked' = TRUE
  /\ Return(t)
  /\ UNCHANGED <<db, ext, disk, orphans, bounds>>

\* persist_execution_event_inner: the cursor must be the end of the stored
\* chain; the event, the session status and the operation status commit as one.
PersistEvent(t, kind, o, req, newOp, newStatus, next) ==
  /\ ~unsynced[t]
  /\ cur[t] = Len(journal)
  /\ journal' = Append(journal, [kind |-> kind, op |-> o, req |-> req])
  /\ status' = newStatus
  /\ recovery' = IF newStatus \in Resolving THEN "not_required" ELSE recovery
  /\ opStatus' = IF o = NoOp THEN opStatus ELSE [opStatus EXCEPT ![o] = newOp]
  /\ unsynced' = [unsynced EXCEPT ![t] = TRUE]
  /\ Goto(t, next)
  /\ UNCHANGED <<pauseReq, cancelReq, consent, ext, locked, booting, disk,
                 cur, seen, facts, worker, orphans, bounds>>

\* finish_execution: the last event of a command.
FinishExecution(t, newStatus) ==
  /\ PersistEvent(t, "execution_finished", NoOp, 0, "", newStatus, "end")
  /\ UNCHANGED <<requests, todo, done, op, rid, amb>>

\* The labels at which a command next persists an event.
EventLabels ==
  {"next", "intent", "mark", "refuse", "finish", "cancel", "approve",
   "reconcile"}

\* persist_execution_event_inner refuses a cursor that another command has
\* overtaken: the command returns the error and leaves the state as it is.
StaleCursor(t) ==
  /\ pc[t] \in EventLabels \ {"reconcile"}
  /\ ~unsynced[t]
  /\ cur[t] # Len(journal)
  /\ Return(t)
  /\ UNCHANGED <<db, ext, locked, disk, orphans, bounds>>

\* Mutant: an intent is buffered and only a later event flushes it.
AppendEventBuffered ==
  ext' = IF journal[Len(journal)].kind \in {"intent_durable", "rollback_intent"}
         THEN ext ELSE Len(journal)

\* DurableJournal::append and flush, for at most one missing event.
AppendEvent == ext' = Len(journal)

\* synchronize_external_journal(_, true) after a committed event.
SyncEvent(t) ==
  /\ unsynced[t]
  /\ Len(journal) - ext <= 1
  /\ AppendEvent
  /\ IF pc[t] = "end"
     THEN Return(t)
     ELSE /\ unsynced' = [unsynced EXCEPT ![t] = FALSE]
          /\ cur' = [cur EXCEPT ![t] = @ + 1]
          /\ UNCHANGED <<pc, todo, done, op, rid, seen, facts, amb, worker,
                         booting>>
  /\ UNCHANGED <<db, locked, disk, orphans, bounds>>

\* Mutant: an interrupted rollback is not marked.
MarkOnlyRunning ==
  /\ status' = IF status = "running" THEN "recovery_required" ELSE status
  /\ recovery' = IF status = "running" THEN "required" ELSE recovery

\* mark_execution_recovery_required, mark_interrupted_executions_for_recovery
MarkRecoveryRequired ==
  /\ status' = IF status \in Interrupted THEN "recovery_required" ELSE status
  /\ recovery' = IF status \in Interrupted THEN "required" ELSE recovery

\* The external append or flush fails, or another command's event is missing
\* as well: diagnostics lock the service and the session is marked.
SyncFails(t) ==
  /\ unsynced[t]
  /\ \/ /\ Len(journal) - ext > 1
        /\ UNCHANGED <<ext, faults>>
     \/ /\ Len(journal) - ext <= 1
        /\ faults < MaxFaults
        /\ faults' = faults + 1
        /\ ext' \in {ext, Len(journal)}
  /\ locked' = TRUE
  /\ MarkRecoveryRequired
  /\ Return(t)
  /\ UNCHANGED <<pauseReq, cancelReq, consent, opStatus, requests, journal,
                 disk, orphans, crashes, changes>>

-----------------------------------------------------------------------------
(* Consent: create_execution_consent_challenge, finalize_execution_consent.  *)
(* Nonces, deadlines and authenticators are in ConsentLifecycle; here only   *)
(* the consent state and what it does to the session matter.                 *)

\* issue_execution_consent_challenge reopens an expired consent.
IssueChallenge ==
  /\ ~booting /\ ~locked
  /\ status = "awaiting_confirmation"
  /\ consent = "expired"
  /\ IF ExternalComplete
     THEN consent' = "pending" /\ UNCHANGED locked
     ELSE locked' = TRUE /\ UNCHANGED consent
  /\ UNCHANGED <<status, recovery, pauseReq, cancelReq, opStatus, requests,
                 journal, ext, booting, disk, local, orphans, bounds>>

\* attest_execution_consent: consent and session change in one transaction.
FinalizeAttest(t) ==
  /\ MayCall(t)
  /\ ExternalComplete
  /\ status = "awaiting_confirmation"
  /\ consent = "pending"
  /\ consent' = "attested"
  /\ status' = "approved"
  /\ Goto(t, "attested")
  /\ UNCHANGED <<recovery, pauseReq, cancelReq, opStatus, requests, journal,
                 ext, locked, booting, disk, unsynced, cur, todo, done, op,
                 rid, seen, facts, amb, worker, orphans, bounds>>

FinalizeLocks(t) == MayCall(t) /\ LockOn(t)

\* The journal decides whether the approval still has to be recorded.
FinalizeRead(t) ==
  /\ pc[t] = "attested"
  /\ \/ /\ journal = <<>>
        /\ Goto(t, "approve")
        /\ UNCHANGED <<locked, booting, unsynced, cur, todo, done, op, rid,
                       seen, facts, amb, worker>>
     \/ /\ journal # <<>>
        /\ locked' = (locked \/ (/\ journal[1].kind = "approved_durable"
                                 /\ ~ExternalComplete))
        /\ Return(t)
  /\ UNCHANGED <<db, ext, disk, orphans, bounds>>

FinalizeApprove(t) ==
  /\ pc[t] = "approve"
  /\ PersistEvent(t, "approved_durable", NoOp, 0, "", "approved", "end")
  /\ UNCHANGED <<requests, todo, done, op, rid, amb>>

-----------------------------------------------------------------------------
(* start_execution up to its loop *)

\* The detail read, the journal checks and the consent checks.
StartBegin(t) ==
  /\ MayCall(t)
  /\ recovery = "not_required"
  /\ ExternalComplete
  /\ status = "approved"
  /\ consent = "attested"
  /\ Goto(t, "consume")
  /\ UNCHANGED <<db, ext, locked, booting, disk, unsynced, cur, todo, done,
                 op, rid, seen, facts, amb, worker, orphans, bounds>>

\* The journal check comes before the status check.
StartLocks(t) ==
  /\ MayCall(t)
  /\ recovery = "not_required"
  /\ LockOn(t)

\* revalidate_consent_context_or_invalidate, expire_execution_consent
StartLapses(t) ==
  /\ MayCall(t)
  /\ recovery = "not_required"
  /\ ExternalComplete
  /\ status = "approved"
  /\ consent = "attested"
  /\ consent' \in {"expired", "invalidated"}
  /\ status' = "awaiting_confirmation"
  /\ UNCHANGED <<recovery, pauseReq, cancelReq, opStatus, requests, journal,
                 ext, locked, booting, disk, local, orphans, bounds>>

\* Mutant: the session starts and the consent stays usable.
RunWithoutConsuming == status' = "running" /\ UNCHANGED consent

\* consume_execution_consent, once its row and the session still match.
ConsumeConsent == consent' = "consumed" /\ status' = "running"

\* Consumption in one transaction, and the operations it returns.
StartConsume(t) ==
  /\ pc[t] = "consume"
  /\ IF consent = "attested" /\ status = "approved"
     THEN /\ ConsumeConsent
          /\ todo' = [todo EXCEPT ![t] =
                        {o \in Ops : opStatus[o] = "preflight_ok"}]
          /\ done' = [done EXCEPT ![t] =
                        {o \in Ops : opStatus[o] \in AppliedStatuses}]
          /\ Goto(t, "cursor")
          /\ UNCHANGED <<booting, unsynced, cur, op, rid, seen, facts, amb,
                         worker>>
     ELSE Return(t) /\ UNCHANGED <<consent, status>>
  /\ UNCHANGED <<recovery, pauseReq, cancelReq, opStatus, requests, journal,
                 ext, locked, disk, orphans, bounds>>

\* journal_cursor, for every command that appends to the journal.
ReadCursor(t) ==
  /\ pc[t] = "cursor"
  /\ cur' = [cur EXCEPT ![t] = Len(journal)]
  /\ Goto(t, CASE t \in Movers -> "next"
               [] t \in CancelCmds -> "cancel"
               [] OTHER -> "reconcile")
  /\ IF t = Recovery
     THEN facts' = requests /\ rid' = [rid EXCEPT ![t] = 1]
     ELSE UNCHANGED <<facts, rid>>
  /\ UNCHANGED <<db, ext, locked, booting, disk, unsynced, todo, done, op,
                 seen, amb, worker, orphans, bounds>>

-----------------------------------------------------------------------------
(* rollback_execution up to its loop *)

\* rollback_authorization: every applied operation has its applied event.
Authorized(os) ==
  \A o \in os : \E i \in 1..Len(journal) :
     journal[i].op = o /\ journal[i].kind = "applied_observed"

\* Mutant: what recovery concluded is not looked at.
RollbackOpenAfterRecovery == status \in MayRollBack \cup NeedsRecovery

RollbackOpen == recovery # "ambiguous" /\ status \in MayRollBack

RollbackBegin(t) ==
  /\ MayCall(t)
  /\ Len(journal) < MaxEvents
  /\ RollbackOpen
  /\ ExternalComplete
  /\ LET applied == {o \in Ops : opStatus[o] \in AppliedStatuses} IN
       /\ Authorized(applied)
       /\ todo' = [todo EXCEPT ![t] = applied]
  /\ seen' = [seen EXCEPT ![t] = opStatus]
  /\ Goto(t, "cursor")
  /\ UNCHANGED <<db, ext, locked, booting, disk, unsynced, cur, done, op, rid,
                 facts, amb, worker, orphans, bounds>>

RollbackLocks(t) ==
  /\ MayCall(t)
  /\ RollbackOpen
  /\ LockOn(t)

\* open_session or persist_executor_session fails: nothing was recorded yet.  An
\* empty rollback opens no session.
OpenSessionFails(t) ==
  /\ \/ t \in StartCmds /\ pc[t] = "consume"
     \/ t \in RollbackCmds /\ pc[t] = "cursor" /\ todo[t] # {}
  /\ Return(t)
  /\ UNCHANGED <<db, ext, locked, disk, orphans, bounds>>

-----------------------------------------------------------------------------
(* The loop both directions share: start_execution with                      *)
(* apply_scheduled_operation, and rollback_execution.                        *)

\* Operations run in plan order and are rolled back in the reverse order.
IsNext(t, o) ==
  /\ o \in todo[t]
  /\ \A p \in todo[t] : IF Dir(t) = "forward" THEN o <= p ELSE o >= p

CycleGroup == Stages \cup {o \in Ops : Deps[o] \cap Stages # {}}

\* Mutant: a request is honoured at once, also inside a cycle.
StopAtOnce(t, o) == Dir(t) = "forward" /\ (pauseReq \/ cancelReq)

\* A pause or cancel request is honoured, except inside a cycle whose stage
\* operation this thread has already applied.
StopRequested(t, o) ==
  /\ Dir(t) = "forward"
  /\ pauseReq \/ cancelReq
  /\ ~(o \in CycleGroup /\ done[t] \cap Stages # {})

MayValidate(t, o) ==
  /\ Ready(Dir(t), o)
  /\ Dir(t) = "forward" => Deps[o] \subseteq done[t]

RunningOp(t) == IF Dir(t) = "forward" THEN "running" ELSE "rolling_back"

RunningSession(t) == RunningOp(t)

CompletionStatus(t) ==
  IF Dir(t) = "rollback" THEN "rolled_back"
  ELSE IF \E o \in Ops : opStatus[o] \in {"blocked", "failed"}
       THEN "partial"
       ELSE "completed"

LoopFinish(t) ==
  /\ pc[t] = "next"
  /\ todo[t] = {}
  /\ FinishExecution(t, CompletionStatus(t))

LoopStop(t) ==
  /\ pc[t] = "next"
  /\ \E o \in todo[t] : IsNext(t, o) /\ StopRequested(t, o)
  /\ FinishExecution(t, IF cancelReq THEN "cancelled" ELSE "paused")

\* fail_operation, or the rollback_blocked event: nothing was mutated.
RefuseStatus(t) == IF Dir(t) = "forward" THEN "failed" ELSE "rollback_partial"

Refuse(t, o) ==
  /\ IF Dir(t) = "forward"
     THEN PersistEvent(t, "step_failed", o, 0, "failed", "failed", "finish")
     ELSE PersistEvent(t, "conflict", o, 0, "rollback_blocked",
                       "rollback_partial", "finish")
  /\ UNCHANGED <<requests, todo, done, op, rid, amb>>

LoopRefuse(t) ==
  /\ pc[t] = "next"
  /\ \E o \in todo[t] : /\ IsNext(t, o)
                        /\ ~StopRequested(t, o)
                        /\ ~MayValidate(t, o)
                        /\ Refuse(t, o)

\* preconditions_validated keeps the operation's status: preflight_ok, or the
\* applied status that rollback_execution read when it began.
LoopValidate(t) ==
  /\ pc[t] = "next"
  /\ \E o \in todo[t] :
       /\ IsNext(t, o)
       /\ ~StopRequested(t, o)
       /\ MayValidate(t, o)
       /\ PersistEvent(t, "preconditions_validated", o, 0,
                       IF Dir(t) = "forward" THEN "preflight_ok" ELSE seen[t][o],
                       RunningSession(t), "intent")
       /\ op' = [op EXCEPT ![t] = o]
  /\ UNCHANGED <<requests, todo, done, rid, amb>>

\* The requests an earlier attempt left for the same operation and direction.
Prior(t) ==
  {i \in 1..Len(requests) :
     requests[i].op = op[t] /\ requests[i].dir = Dir(t)}

MayRequest(t) ==
  IF Dir(t) = "forward"
  THEN Prior(t) = {}
  ELSE \A i \in Prior(t) :
         requests[i].state \in {"proven_not_applied", "proven_not_started"}

\* persist_request_intent: the intent event and the request row commit together.
Intent(t) ==
  /\ pc[t] = "intent"
  /\ MayRequest(t)
  /\ PersistEvent(t,
       IF Dir(t) = "forward" THEN "intent_durable" ELSE "rollback_intent",
       op[t], Len(requests) + 1, RunningOp(t), RunningSession(t), "dispatch")
  /\ requests' = Append(requests,
       [op |-> op[t], dir |-> Dir(t), seq |-> Len(journal) + 1,
        state |-> "intent_durable"])
  /\ rid' = [rid EXCEPT ![t] = Len(requests) + 1]
  /\ UNCHANGED <<todo, done, op, amb>>

IntentRefused(t) ==
  /\ pc[t] = "intent"
  /\ ~unsynced[t]
  /\ ~MayRequest(t)
  /\ Return(t)
  /\ UNCHANGED <<db, ext, locked, disk, orphans, bounds>>

\* transition_executor_request_state
SetRequest(i, state) ==
  /\ MayTransition(requests[i].state, state)
  /\ requests' = [requests EXCEPT ![i].state = state]

\* One request transition in a transaction of its own, then on to the label.
Transition(t, state, label) ==
  /\ SetRequest(rid[t], state)
  /\ Goto(t, label)
  /\ UNCHANGED <<session, opStatus, journal, ext, locked, booting, disk,
                 unsynced, cur, todo, done, op, rid, seen, facts, amb,
                 orphans>>

\* The transition is not one may_transition_to allows: the command returns.
TransitionRefused(t, state) ==
  /\ ~MayTransition(requests[rid[t]].state, state)
  /\ Return(t)
  /\ UNCHANGED <<db, ext, locked, disk, orphans, bounds>>

\* Mutant: the request leaves while its intent is only in the database.
AtDispatchUnflushed(t) == pc[t] = "dispatch"

\* persist_request_intent has returned: the intent is in both journals.
AtDispatch(t) == pc[t] = "dispatch" /\ ~unsynced[t]

\* rollback_execution looks once more right before it dispatches.
Dispatch(t) ==
  /\ AtDispatch(t)
  /\ Dir(t) = "rollback" => RollbackReady(op[t])
  /\ worker' = [worker EXCEPT ![t] = "working"]
  /\ Goto(t, "wait")
  /\ UNCHANGED <<db, ext, locked, booting, disk, unsynced, cur, todo, done,
                 op, rid, seen, facts, amb, orphans, bounds>>

DispatchRefused(t) ==
  /\ AtDispatch(t)
  /\ Dir(t) = "rollback" /\ ~RollbackReady(op[t])
  /\ \/ Transition(t, "proven_not_started", "refuse")
        /\ UNCHANGED <<worker, bounds>>
     \/ TransitionRefused(t, "proven_not_started")

\* record_executor_response
ResponseState(reply) ==
  CASE reply = "success"     -> "acknowledged_success"
    [] reply = "not_applied" -> "proven_not_applied"
    [] OTHER                 -> "recovery_required"

AfterResponse(reply) ==
  CASE reply = "success"   -> "verify"
    [] reply = "ambiguous" -> "mark"
    [] OTHER               -> "contradict"

Replies == {"success", "not_applied", "refused", "ambiguous"}

Receive(t) ==
  /\ pc[t] = "wait"
  /\ worker[t] \in Replies
  /\ \/ /\ Transition(t, ResponseState(worker[t]), AfterResponse(worker[t]))
        /\ worker' = [worker EXCEPT ![t] = "none"]
        /\ UNCHANGED bounds
     \/ TransitionRefused(t, ResponseState(worker[t]))

\* dispatch_prepared fails: the worker is gone, or it is silent for longer
\* than the protocol allows and keeps running until the command returns.
DispatchFails(t) ==
  /\ pc[t] = "wait"
  /\ \/ /\ worker[t] = "gone"
        /\ \/ Transition(t, "recovery_required", "mark")
              /\ UNCHANGED <<worker, bounds>>
           \/ TransitionRefused(t, "recovery_required")
     \/ /\ worker[t] = "working"
        /\ faults < MaxFaults
        /\ Transition(t, "recovery_required", "mark")
        /\ faults' = faults + 1
        /\ worker' = IF LateMutation THEN worker
                     ELSE [worker EXCEPT ![t] = "gone"]
        /\ UNCHANGED <<crashes, changes>>

\* proven_not_applied or a protocol refusal: the disk must agree.
CheckNotApplied(t) ==
  /\ pc[t] = "contradict"
  /\ LET ready == Ready(Dir(t), op[t])
         state == IF ready THEN "proven_not_started" ELSE "recovery_required"
     IN \/ Transition(t, state, IF ready THEN "refuse" ELSE "mark")
           /\ UNCHANGED <<worker, bounds>>
        \/ TransitionRefused(t, state)

\* A success the disk does not confirm needs recovery.
VerifyFails(t) ==
  /\ pc[t] = "verify"
  /\ ~Verified(Dir(t), op[t])
  /\ \/ Transition(t, "recovery_required", "mark")
        /\ UNCHANGED <<worker, bounds>>
     \/ TransitionRefused(t, "recovery_required")

\* applied_observed / rolled_back_observed with the request's proof.
Observe(t) ==
  /\ pc[t] = "verify"
  /\ Verified(Dir(t), op[t])
  /\ SetRequest(rid[t], "proven_applied")
  /\ IF Dir(t) = "forward"
     THEN PersistEvent(t, "applied_observed", op[t], 0, "applied", "running",
                       "next")
     ELSE PersistEvent(t, "rolled_back_observed", op[t], 0, "rolled_back",
                       "rolling_back", "next")
  /\ todo' = [todo EXCEPT ![t] = @ \ {op[t]}]
  /\ done' = [done EXCEPT ![t] = @ \cup {op[t]}]
  /\ op' = [op EXCEPT ![t] = NoOp]
  /\ rid' = [rid EXCEPT ![t] = 0]
  /\ UNCHANGED amb

ObserveRefused(t) ==
  /\ pc[t] = "verify" /\ ~unsynced[t]
  /\ Verified(Dir(t), op[t])
  /\ \/ cur[t] # Len(journal)
     \/ ~MayTransition(requests[rid[t]].state, "proven_applied")
  /\ Return(t)
  /\ UNCHANGED <<db, ext, locked, disk, orphans, bounds>>

\* Mutant: an unknown outcome ends the session as a plain failure.
MarkOutcomeFailed(t) ==
  /\ pc[t] = "mark"
  /\ PersistEvent(t, "step_failed", op[t], 0, RunningOp(t), "failed", "end")
  /\ UNCHANGED <<requests, todo, done, op, rid, amb>>

\* mark_executor_recovery_required, mark_rollback_recovery_required
MarkAmbiguousOutcome(t) ==
  /\ pc[t] = "mark"
  /\ PersistEvent(t, "step_failed", op[t], 0, RunningOp(t),
                  "recovery_required", "end")
  /\ UNCHANGED <<requests, todo, done, op, rid, amb>>

RefuseAfterRequest(t) == pc[t] = "refuse" /\ Refuse(t, op[t])

FinishRefused(t) ==
  /\ pc[t] = "finish"
  /\ FinishExecution(t, RefuseStatus(t))

-----------------------------------------------------------------------------
(* The isolated worker (workers/operation-executor).  It checks the           *)
(* preconditions again, mutates at most once and answers.                     *)

Answer(t, reply) == worker' = [worker EXCEPT ![t] = reply]

UseFault == faults < MaxFaults /\ faults' = faults + 1

\* The mutation happens.  The answer reaches the coordinator, or the outcome
\* cannot be established afterwards, or the worker dies before it answers.
WorkerMutates(t) ==
  /\ worker[t] = "working"
  /\ WorkerReady(Dir(t), op[t])
  /\ loc' = [loc EXCEPT ![op[t]] = Target(Dir(t))]
  /\ moved' = moved \cup {rid[t]}
  /\ \/ Answer(t, "success") /\ UNCHANGED faults
     \/ Answer(t, "ambiguous") /\ UseFault
     \/ Answer(t, "gone") /\ UseFault
  /\ UNCHANGED <<db, ext, locked, booting, touched, pc, unsynced, cur, todo,
                 done, op, rid, seen, facts, amb, orphans, crashes, changes>>

\* Nothing is mutated: a precondition fails, or a fault comes first.
WorkerDeclines(t) ==
  /\ worker[t] = "working"
  /\ \/ /\ ~WorkerReady(Dir(t), op[t])
        /\ Answer(t, "not_applied")
        /\ UNCHANGED faults
     \/ /\ \E reply \in {"not_applied", "refused", "ambiguous", "gone"} :
             Answer(t, reply)
        /\ UseFault
  /\ UNCHANGED <<db, ext, locked, booting, disk, pc, unsynced, cur, todo, done,
                 op, rid, seen, facts, amb, orphans, crashes, changes>>

\* A worker whose coordinator crashed finishes the request it was running.
OrphanMutates(i) ==
  /\ i \in orphans
  /\ WorkerReady(requests[i].dir, requests[i].op)
  /\ loc' = [loc EXCEPT ![requests[i].op] = Target(requests[i].dir)]
  /\ moved' = moved \cup {i}
  /\ orphans' = orphans \ {i}
  /\ UNCHANGED <<db, ext, locked, booting, touched, local, bounds>>

OrphanDies(i) ==
  /\ i \in orphans
  /\ orphans' = orphans \ {i}
  /\ UNCHANGED <<db, ext, locked, booting, disk, local, bounds>>

-----------------------------------------------------------------------------
(* recover_execution, by the user or while the service starts *)

MayRecover ==
  /\ pc[Recovery] = "idle"
  /\ booting \/ MayCall(Recovery)
  /\ ~locked
  /\ status \in NeedsRecovery

RecoverBegin ==
  /\ MayRecover
  /\ ExternalComplete
  /\ seen' = [seen EXCEPT ![Recovery] = opStatus]
  /\ Goto(Recovery, "cursor")
  /\ UNCHANGED <<db, ext, locked, booting, disk, unsynced, cur, todo, done,
                 op, rid, facts, amb, worker, orphans, bounds>>

RecoverLocks == MayRecover /\ LockOn(Recovery)

\* The request fact reconcile_one_interrupted_request looks at.
Fact == facts[rid[Recovery]]

\* executor_request_binding_error
Bound(i, r) ==
  /\ r.seq \in 1..Len(journal)
  /\ journal[r.seq] =
       [kind |-> IF r.dir = "forward" THEN "intent_durable"
                 ELSE "rollback_intent",
        op |-> r.op, req |-> i]

OpInterrupted(r) ==
  seen[Recovery][r.op] = IF r.dir = "forward" THEN "running" ELSE "rolling_back"

\* A request whose stored state is taken over as it is.
Settled(r) ==
  \/ r.state = "ambiguous"
  \/ /\ r.state \in {"proven_not_applied", "proven_not_started",
                     "proven_applied"}
     /\ ~OpInterrupted(r)

AtFact ==
  /\ pc[Recovery] = "reconcile"
  /\ ~unsynced[Recovery]
  /\ rid[Recovery] <= Len(facts)

NextFact == rid' = [rid EXCEPT ![Recovery] = @ + 1]

ReconcileSettled ==
  /\ AtFact
  /\ Bound(rid[Recovery], Fact)
  /\ Settled(Fact)
  /\ amb' = (amb \/ Fact.state = "ambiguous")
  /\ NextFact
  /\ UNCHANGED <<db, ext, locked, booting, disk, pc, unsynced, cur, todo, done,
                 op, seen, facts, worker, orphans, bounds>>

\* What recovery concludes about an unsettled request from the disk.
Verdict(r) ==
  LET found == Observation(r.dir, r.op) IN
  CASE ~Bound(rid[Recovery], r) -> "ambiguous"
    [] found = "not_started" /\ r.state # "proven_applied" ->
         "proven_not_started"
    [] found = "applied" /\ r.state \notin {"proven_not_applied",
                                            "proven_not_started"} ->
         "proven_applied"
    [] OTHER -> "ambiguous"

\* Mutant: a rollback that did not start is reported as done.
VerdictOpForgetsDirection(r) ==
  CASE Verdict(r) = "proven_not_started" ->
         IF r.dir = "forward" THEN "preflight_ok" ELSE "rolled_back"
    [] Verdict(r) = "proven_applied" ->
         IF r.dir = "forward" THEN "recovered" ELSE "rolled_back"
    [] OTHER -> opStatus[r.op]

\* Mutant: the observation's name is stored as the operation's status.
VerdictOpStoresObservation(r) == Verdict(r)

VerdictOp(r) ==
  CASE Verdict(r) = "proven_not_started" ->
         IF r.dir = "forward" THEN "preflight_ok" ELSE "applied"
    [] Verdict(r) = "proven_applied" ->
         IF r.dir = "forward" THEN "recovered" ELSE "rolled_back"
    [] OTHER -> opStatus[r.op]

\* Mutant: every reconciliation is journalled as a conflict.
VerdictKindAlwaysConflict(r) == "conflict"

VerdictKind(r) ==
  IF Verdict(r) = "proven_applied" THEN "applied_observed" ELSE "conflict"

\* persist_event_with_request_proof with the verdict.
ReconcileRequest ==
  /\ AtFact
  /\ ~(Bound(rid[Recovery], Fact) /\ Settled(Fact))
  /\ SetRequest(rid[Recovery], Verdict(Fact))
  /\ PersistEvent(Recovery, VerdictKind(Fact), Fact.op, rid[Recovery],
       VerdictOp(Fact),
       IF Verdict(Fact) = "ambiguous" THEN "recovery_ambiguous"
       ELSE "recovery_required",
       "reconcile")
  /\ amb' = (amb \/ Verdict(Fact) = "ambiguous")
  /\ NextFact
  /\ UNCHANGED <<todo, done, op>>

\* The cursor is stale, or may_transition_to forbids the verdict.
ReconcileRefused ==
  /\ AtFact
  /\ ~(Bound(rid[Recovery], Fact) /\ Settled(Fact))
  /\ \/ cur[Recovery] # Len(journal)
     \/ ~MayTransition(requests[rid[Recovery]].state, Verdict(Fact))
  /\ Return(Recovery)
  /\ UNCHANGED <<db, ext, locked, disk, orphans, bounds>>

\* Operations no request names: an interrupted or unproven one is ambiguous.
UnrequestedAmbiguous ==
  \E o \in Ops \ {facts[i].op : i \in 1..Len(facts)} :
     \/ seen[Recovery][o] \in {"running", "rolling_back"}
     \/ seen[Recovery][o] \in AppliedStatuses /\ ~Authorized({o})

\* persist_recovery_assessment overwrites the session unconditionally.
Assess ==
  /\ pc[Recovery] = "reconcile"
  /\ ~unsynced[Recovery]
  /\ rid[Recovery] > Len(facts)
  /\ LET ambiguous == amb \/ UnrequestedAmbiguous IN
       /\ status' = IF ambiguous THEN "recovery_ambiguous"
                    ELSE "recovery_available"
       /\ recovery' = IF ambiguous THEN "ambiguous" ELSE "available"
  /\ Return(Recovery)
  /\ UNCHANGED <<pauseReq, cancelReq, consent, opStatus, requests, journal,
                 ext, locked, disk, orphans, bounds>>

-----------------------------------------------------------------------------
(* pause_execution, cancel_execution *)

RequestPause ==
  /\ ~booting /\ ~locked
  /\ status = "running"
  /\ pauseReq' = TRUE
  /\ UNCHANGED <<status, recovery, cancelReq, consent, opStatus, requests,
                 journal, ext, locked, booting, disk, local, orphans, bounds>>

RequestCancel ==
  /\ ~booting /\ ~locked
  /\ status = "running"
  /\ cancelReq' = TRUE
  /\ UNCHANGED <<status, recovery, pauseReq, consent, opStatus, requests,
                 journal, ext, locked, booting, disk, local, orphans, bounds>>

\* The status read decides what the command does, later steps do not look again.
CancelBegin(t) ==
  /\ MayCall(t)
  /\ \/ status = "awaiting_confirmation" /\ Goto(t, "withdraw")
     \/ status = "approved" /\ ExternalComplete /\ Goto(t, "revoke")
     \/ status = "paused" /\ ExternalComplete /\ Goto(t, "cursor")
  /\ UNCHANGED <<db, ext, locked, booting, disk, unsynced, cur, todo, done,
                 op, rid, seen, facts, amb, worker, orphans, bounds>>

CancelLocks(t) ==
  /\ MayCall(t)
  /\ status \in {"approved", "paused"}
  /\ LockOn(t)

\* invalidate_execution_consent with reset_legacy_execution_approval: an open
\* consent of a session that left the approval states is an error.
CancelInvalidate(t) ==
  /\ pc[t] \in {"withdraw", "revoke"}
  /\ LET open == consent \in {"pending", "attested", "expired"}
         resettable == status \in {"awaiting_confirmation", "approved"}
     IN IF open /\ ~resettable
        THEN Return(t) /\ UNCHANGED <<consent, status>>
        ELSE /\ consent' = IF open THEN "invalidated" ELSE consent
             /\ status' = IF open THEN "awaiting_confirmation" ELSE status
             /\ Goto(t, IF pc[t] = "withdraw" THEN "unstarted" ELSE "cursor")
             /\ UNCHANGED <<booting, unsynced, cur, todo, done, op, rid, seen,
                            facts, amb, worker>>
  /\ UNCHANGED <<recovery, pauseReq, cancelReq, opStatus, requests, journal,
                 ext, locked, disk, orphans, bounds>>

\* cancel_unstarted_execution
CancelUnstarted(t) ==
  /\ pc[t] = "unstarted"
  /\ IF /\ status \in {"awaiting_confirmation", "approved", "paused"}
        /\ \A o \in Ops : opStatus[o] \notin {"running", "applied", "recovered"}
     THEN status' = "cancelled" /\ cancelReq' = TRUE
     ELSE UNCHANGED <<status, cancelReq>>
  /\ Return(t)
  /\ UNCHANGED <<recovery, pauseReq, consent, opStatus, requests, journal, ext,
                 locked, disk, orphans, bounds>>

CancelFinish(t) ==
  /\ pc[t] = "cancel"
  /\ FinishExecution(t, "cancelled")

-----------------------------------------------------------------------------
(* The environment: crash and restart of the coordinator, and the user *)

\* Every command dies where it is.  The new service compares both journals,
\* and only when they agree marks what was interrupted and reconciles it
\* before it serves the next command.
CrashRestart ==
  /\ crashes < MaxCrashes
  /\ crashes' = crashes + 1
  /\ pc' = [t \in Threads |-> "idle"]
  /\ unsynced' = [t \in Threads |-> FALSE]
  /\ cur' = [t \in Threads |-> 0]
  /\ todo' = [t \in Threads |-> {}]
  /\ done' = [t \in Threads |-> {}]
  /\ op' = [t \in Threads |-> NoOp]
  /\ rid' = [t \in Threads |-> 0]
  /\ seen' = [t \in Threads |-> NoSnapshot]
  /\ worker' = [t \in Threads |-> "none"]
  /\ facts' = <<>>
  /\ amb' = FALSE
  /\ orphans' = IF LateMutation
                THEN orphans \cup {rid[t] : t \in {u \in Movers :
                                                     worker[u] = "working"}}
                ELSE {}
  /\ locked' = (journal # <<>> /\ ~ExternalComplete)
  /\ IF journal # <<>> /\ ~ExternalComplete
     THEN booting' = FALSE /\ UNCHANGED <<status, recovery>>
     ELSE /\ MarkRecoveryRequired
          /\ booting' = (status \in NeedsRecovery \cup Interrupted)
  /\ UNCHANGED <<pauseReq, cancelReq, consent, opStatus, requests, journal,
                 ext, disk, faults, changes>>

\* The user moves, edits or deletes a file, or undoes one move by hand.
UserChange(o) ==
  /\ changes < MaxUserChanges
  /\ changes' = changes + 1
  /\ ~InUse(o)
  /\ \/ loc[o] # "other" /\ loc' = [loc EXCEPT ![o] = "other"]
     \/ loc[o] = "dst" /\ loc' = [loc EXCEPT ![o] = "src"]
  /\ touched' = touched \cup {o}
  /\ UNCHANGED <<db, ext, locked, booting, moved, local, orphans, crashes,
                 faults>>

-----------------------------------------------------------------------------
(* The specification *)

\* persist_prepared_execution: some operations may be blocked by the preflight,
\* and everything that depends on a blocked one is blocked too.
Init ==
  /\ status = "awaiting_confirmation"
  /\ recovery = "not_required"
  /\ pauseReq = FALSE /\ cancelReq = FALSE
  /\ consent = "pending"
  /\ opStatus \in [Ops -> {"preflight_ok", "blocked"}]
  /\ \E o \in Ops : opStatus[o] = "preflight_ok"
  /\ \A o \in Ops : \A d \in Deps[o] :
       opStatus[d] = "blocked" => opStatus[o] = "blocked"
  /\ requests = <<>> /\ journal = <<>> /\ ext = 0
  /\ locked = FALSE /\ booting = FALSE
  /\ loc = [o \in Ops |-> "src"]
  /\ touched = {} /\ moved = {}
  /\ pc = [t \in Threads |-> "idle"]
  /\ unsynced = [t \in Threads |-> FALSE]
  /\ cur = [t \in Threads |-> 0]
  /\ todo = [t \in Threads |-> {}]
  /\ done = [t \in Threads |-> {}]
  /\ op = [t \in Threads |-> NoOp]
  /\ rid = [t \in Threads |-> 0]
  /\ seen = [t \in Threads |-> NoSnapshot]
  /\ facts = <<>>
  /\ amb = FALSE
  /\ worker = [t \in Threads |-> "none"]
  /\ orphans = {}
  /\ crashes = 0 /\ faults = 0 /\ changes = 0

Journalling(t) ==
  \/ ReadCursor(t) \/ StaleCursor(t) \/ SyncEvent(t) \/ SyncFails(t)

FinalizeSteps(t) == FinalizeRead(t) \/ FinalizeApprove(t)

MoveSteps(t) ==
  \/ OpenSessionFails(t)
  \/ LoopFinish(t) \/ LoopStop(t) \/ LoopRefuse(t) \/ LoopValidate(t)
  \/ Intent(t) \/ IntentRefused(t) \/ Dispatch(t) \/ DispatchRefused(t)
  \/ Receive(t) \/ DispatchFails(t) \/ CheckNotApplied(t) \/ VerifyFails(t)
  \/ Observe(t) \/ ObserveRefused(t) \/ MarkAmbiguousOutcome(t)
  \/ RefuseAfterRequest(t) \/ FinishRefused(t)

WorkerSteps(t) == WorkerMutates(t) \/ WorkerDeclines(t)

CancelSteps(t) == CancelInvalidate(t) \/ CancelUnstarted(t) \/ CancelFinish(t)

RecoverySteps ==
  ReconcileSettled \/ ReconcileRequest \/ ReconcileRefused \/ Assess

Next ==
  \/ \E t \in Threads : Journalling(t)
  \/ IssueChallenge
  \/ \E t \in FinalizeCmds :
       FinalizeAttest(t) \/ FinalizeLocks(t) \/ FinalizeSteps(t)
  \/ \E t \in StartCmds :
       StartBegin(t) \/ StartLocks(t) \/ StartLapses(t) \/ StartConsume(t)
  \/ \E t \in RollbackCmds : RollbackBegin(t) \/ RollbackLocks(t)
  \/ \E t \in Movers : MoveSteps(t) \/ WorkerSteps(t)
  \/ \E t \in CancelCmds : CancelBegin(t) \/ CancelLocks(t) \/ CancelSteps(t)
  \/ RequestPause \/ RequestCancel
  \/ RecoverBegin \/ RecoverLocks \/ RecoverySteps
  \/ \E i \in orphans : OrphanMutates(i) \/ OrphanDies(i)
  \/ CrashRestart
  \/ \E o \in Ops : UserChange(o)

Spec == Init /\ [][Next]_vars

\* A running command goes on: its thread is scheduled, its worker answers or
\* dies, the protocol timeout covers silence.  A starting service reconciles.
\* Nobody has to give a command.
Progress(t) ==
  \/ Journalling(t)
  \/ t \in FinalizeCmds /\ FinalizeSteps(t)
  \/ t \in StartCmds /\ StartConsume(t)
  \/ t \in Movers /\ (MoveSteps(t) \/ WorkerSteps(t))
  \/ t \in CancelCmds /\ CancelSteps(t)
  \/ t = Recovery /\ RecoverySteps
  \/ t = Recovery /\ booting /\ (RecoverBegin \/ RecoverLocks)

FairSpec == Spec /\ \A t \in Threads : WF_vars(Progress(t))

-----------------------------------------------------------------------------
(* Properties *)

Labels ==
  {"idle", "attested", "approve", "consume", "cursor", "next", "intent",
   "dispatch", "wait", "verify", "contradict", "mark", "refuse", "finish",
   "end", "cancel", "withdraw", "revoke", "unstarted", "reconcile"}

SessionType ==
  /\ status \in SessionStatus
  /\ recovery \in RecoveryStates
  /\ pauseReq \in BOOLEAN
  /\ cancelReq \in BOOLEAN
  /\ consent \in ConsentStates

TableType ==
  /\ opStatus \in [Ops -> OpStatuses]
  /\ requests \in Seq(Requests)
  /\ journal \in Seq(Events)
  /\ ext \in Nat
  /\ locked \in BOOLEAN

DiskType ==
  /\ loc \in [Ops -> Locations]
  /\ touched \in SUBSET Ops
  /\ moved \in SUBSET Nat
  /\ orphans \in SUBSET Nat

PositionType ==
  /\ pc \in [Threads -> Labels]
  /\ unsynced \in [Threads -> BOOLEAN]
  /\ booting \in BOOLEAN

LocalType ==
  /\ cur \in [Threads -> Nat]
  /\ todo \in [Threads -> SUBSET Ops]
  /\ done \in [Threads -> SUBSET Ops]
  /\ op \in [Threads -> Ops \cup {NoOp}]
  /\ rid \in [Threads -> Nat]
  /\ seen \in [Threads -> [Ops -> OpStatuses]]
  /\ facts \in Seq(Requests)
  /\ amb \in BOOLEAN
  /\ worker \in [Threads -> {"none", "working", "gone"} \cup Replies]

BoundType ==
  /\ crashes \in 0..MaxCrashes
  /\ faults \in 0..MaxFaults
  /\ changes \in 0..MaxUserChanges

\* Every variable keeps the type the schema and the service give it: session
\* and operation statuses stay in their own enumerations, whichever of the
\* commands, recovery or restart writes them.
TypeOK ==
  /\ SessionType
  /\ TableType
  /\ DiskType
  /\ PositionType
  /\ LocalType
  /\ BoundType

\* The intent of request i has reached both journals.
IntentOnBothJournals(i) ==
  /\ i \in 1..Len(requests)
  /\ Bound(i, requests[i])
  /\ requests[i].seq <= ext

\* No effect on the disk without its intent event, bound to exactly this
\* request, in the database and in the external journal: persist_request_intent
\* appends and flushes before dispatch, whatever else runs or crashes.
IntentBeforeMutation ==
  /\ \A i \in moved \cup orphans : IntentOnBothJournals(i)
  /\ \A t \in Movers : worker[t] = "working" => IntentOnBothJournals(rid[t])

\* Every operation reported applied has an applied event in the journal, so
\* rollback_authorization never refuses to undo what was done, whichever
\* command or recovery reported it.
AppliedIsJournalled ==
  Authorized({o \in Ops : opStatus[o] \in AppliedStatuses})

\* What the request table calls proven is true of the disk's history, for the
\* files the user leaves alone.
ProofsAreTrue ==
  \A i \in 1..Len(requests) :
     requests[i].op \notin touched =>
       /\ requests[i].state \in {"proven_not_applied", "proven_not_started"}
            => i \notin moved
       /\ requests[i].state \in {"acknowledged_success", "proven_applied"}
            => i \in moved

Unresolved ==
  {"intent_durable", "acknowledged_success", "recovery_required"}

\* A session that reports a final status leaves nothing half done: no operation
\* is still running and no request waits for its outcome.
FinalIsSettled ==
  status \in Resolving =>
    /\ \A o \in Ops : opStatus[o] \notin {"running", "rolling_back"}
    /\ \A i \in 1..Len(requests) : requests[i].state \notin Unresolved

\* rolled_back promises that every file the user left alone is back where it
\* was before the execution.
RolledBackRestores ==
  status = "rolled_back" => \A o \in Ops \ touched : loc[o] = "src"

\* What the operation table reports agrees with the disk for every operation
\* the user left alone and no request is open for.
ReportMatchesDisk ==
  \A o \in Ops \ touched :
    (\A i \in 1..Len(requests) :
       requests[i].op = o => requests[i].state \notin Unresolved \cup {"ambiguous"})
    => /\ opStatus[o] \in AppliedStatuses => loc[o] = "dst"
       /\ opStatus[o] \in {"preflight_ok", "blocked", "rolled_back"}
            => loc[o] = "src"

\* A pause or a cancel never leaves a rename cycle half way: once a stage is
\* applied, nothing of its group is left unattempted.
CycleNotSplit ==
  status \in {"paused", "cancelled"} =>
    ((\E o \in Stages : opStatus[o] \in AppliedStatuses)
       => \A o \in CycleGroup : opStatus[o] # "preflight_ok")

\* The journal lock and an ambiguous recovery stop every mutation: "Recovery is
\* ambiguous; no further mutation is allowed." (recover_execution's message).
NoMutationWhileBlocked ==
  [][locked \/ recovery = "ambiguous" => moved' = moved]_vars

\* Nothing touches the disk before a start command has consumed the consent,
\* and a consent that was spent on a mutation is never open again, whatever
\* finalize, start and cancel commands race with each other.
MutationNeedsConsent ==
  moved # {} \/ orphans # {} \/ (\E t \in Movers : worker[t] = "working")
    => consent = "consumed"

\* A session that runs or rolls back reaches another status, unless the journal
\* lock has stopped the service: no command leaves it there and no restart
\* forgets it.
InterruptedSettles ==
  status \in Interrupted ~> (status \notin Interrupted \/ locked)

-----------------------------------------------------------------------------
(* What the documents say of the code and the code does not do *)

\* docs/architecture: an interruption leaves a journal that can be recovered.
\* Without any journal fault the service is therefore never locked.
InterruptionIsRecoverable == faults = 0 => ~locked

\* docs/CURRENT_STATE: cancel requests are observed only between operation
\* units; a unit in flight is never interrupted half way.  Once every command
\* has returned, a cancelled session has no running operation.
CancelBetweenUnits ==
  status = "cancelled" /\ ~locked /\ (\A t \in Threads : pc[t] = "idle")
    => \A o \in Ops : opStatus[o] # "running"

\* docs/recovery: recovery is ambiguous only when a file is in both places, in
\* neither, or another identity is found, which takes somebody else's change.
AmbiguousOnlyWhenTouched ==
  status = "recovery_ambiguous" => touched # {}

-----------------------------------------------------------------------------
(* The write-ahead contract the coordinator implements *)

\* Requests whose intent is in both journals are granted, mutations of the disk
\* perform them: no effect before its grant, none twice.
Ledger ==
  INSTANCE WriteAhead
    WITH granted <- {i \in 1..Len(requests) : requests[i].seq <= ext},
         performed <- moved

\* Commands, races, crashes and late workers included, every step grants,
\* performs one granted request, or does neither.
ImplementsWriteAhead == Ledger!Spec

=============================================================================
