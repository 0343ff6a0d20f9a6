--------------------- MODULE ExecutionCoordinatorProofs ---------------------
(***************************************************************************)
(* What TLAPS proves of ExecutionCoordinator for every plan, every set of  *)
(* command threads and every value of the bounds.  The first part, with    *)
(* commands that overlap and workers that act late: the types, the         *)
(* write-ahead contract, and the records an execution leaves.  The second, *)
(* for commands that do not overlap: blocking, final statuses and cycles,  *)
(* and the records against the disk.                                       *)
(***************************************************************************)
EXTENDS ExecutionCoordinator, TLAPS

-----------------------------------------------------------------------------
(* Lemmas about the pieces every command is made of *)

\* Facts about the constants that several proofs need.
LEMMA ConstantFacts ==
  /\ Ops \subseteq Nat
  /\ NoOp \notin Ops
  /\ NoSnapshot \in [Ops -> OpStatuses]
  /\ Movers \subseteq Threads
  /\ StartCmds \subseteq Movers /\ RollbackCmds \subseteq Movers
  /\ FinalizeCmds \subseteq Threads /\ CancelCmds \subseteq Threads
  /\ Recovery \in Threads
  /\ MaxCrashes \in Nat /\ MaxFaults \in Nat /\ MaxUserChanges \in Nat
  BY PlanAssumption, BoundAssumption
     DEF Ops, NoOp, NoSnapshot, OpStatuses, Movers, Threads

\* The empty tables are typed.
LEMMA EmptyTables == <<>> \in Seq(Requests) /\ <<>> \in Seq(Events)
  OBVIOUS

\* A command that returns leaves every thread at a label with typed locals.
LEMMA ReturnType ==
  ASSUME TypeOK, NEW t \in Threads, Return(t)
  PROVE  PositionType' /\ LocalType'
  <1>1. PositionType'
    BY DEF TypeOK, PositionType, Return, Goto, Labels
  <1>2. LocalType'
    BY ConstantFacts DEF TypeOK, LocalType, Return, Goto, Replies
  <1>3. QED BY <1>1, <1>2

\* What a persisted event keeps typed; the rest is its caller's.
EventTyped ==
  /\ SessionType' /\ DiskType' /\ PositionType' /\ BoundType'
  /\ journal' \in Seq(Events)
  /\ opStatus' \in [Ops -> OpStatuses]
  /\ ext' \in Nat /\ locked' \in BOOLEAN
  /\ cur' = cur /\ seen' = seen /\ facts' = facts /\ worker' = worker

\* An event keeps the tables, the session and the position typed.
LEMMA EventType ==
  ASSUME TypeOK, NEW t \in Threads, NEW kind \in EventKinds,
         NEW o \in Ops \cup {NoOp}, NEW req \in Nat, NEW newOp,
         o \in Ops => newOp \in OpStatuses,
         NEW newStatus \in SessionStatus, NEW next \in Labels,
         PersistEvent(t, kind, o, req, newOp, newStatus, next)
  PROVE  EventTyped
  <1> USE DEF TypeOK, PersistEvent
  <1>1. SessionType'
    BY DEF SessionType, RecoveryStates
  <1>2. DiskType' /\ BoundType'
    BY DEF DiskType, BoundType, disk, bounds
  <1>3. PositionType'
    BY DEF PositionType, Goto
  <1>4. journal' \in Seq(Events)
    BY DEF TableType, Events
  <1>5. opStatus' \in [Ops -> OpStatuses]
    BY DEF TableType, NoOp
  <1>6. QED BY <1>1, <1>2, <1>3, <1>4, <1>5 DEF TableType, EventTyped

\* transition_executor_request_state changes the state of one row and nothing
\* else about the request table.
LEMMA SetRequestFacts ==
  ASSUME requests \in Seq(Requests), NEW i, NEW state \in RequestStates,
         SetRequest(i, state)
  PROVE  /\ requests' \in Seq(Requests)
         /\ Len(requests') = Len(requests)
         /\ \A j \in 1..Len(requests) :
              /\ requests'[j].op = requests[j].op
              /\ requests'[j].dir = requests[j].dir
              /\ requests'[j].seq = requests[j].seq
  <1>1. requests' = [j \in 1..Len(requests) |->
                       IF j = i THEN [requests[j] EXCEPT !.state = state]
                       ELSE requests[j]]
    <2>1. DOMAIN requests = 1..Len(requests)
      OBVIOUS
    <2>2. requests' = [requests EXCEPT ![i].state = state]
      BY DEF SetRequest
    <2>3. QED BY <2>1, <2>2, Zenon
  <1>2. \A j \in 1..Len(requests) :
          /\ [requests[j] EXCEPT !.state = state] \in Requests
          /\ [requests[j] EXCEPT !.state = state].op = requests[j].op
          /\ [requests[j] EXCEPT !.state = state].dir = requests[j].dir
          /\ [requests[j] EXCEPT !.state = state].seq = requests[j].seq
    <2>1. \A r \in Requests :
            /\ [r EXCEPT !.state = state] \in Requests
            /\ [r EXCEPT !.state = state].op = r.op
            /\ [r EXCEPT !.state = state].dir = r.dir
            /\ [r EXCEPT !.state = state].seq = r.seq
      BY DEF Requests
    <2>2. \A j \in 1..Len(requests) : requests[j] \in Requests
      OBVIOUS
    <2>3. QED BY <2>1, <2>2, Zenon
  <1>3. \A j \in 1..Len(requests) : requests[j] \in Requests
    OBVIOUS
  <1>4. requests' \in [1..Len(requests) -> Requests]
    BY <1>1, <1>2, <1>3
  <1>5. Len(requests) \in Nat
    OBVIOUS
  <1>6. requests' \in Seq(Requests) /\ Len(requests') = Len(requests)
    BY <1>4, <1>5
  <1>7. QED BY <1>1, <1>2, <1>6

\* The event that ends a command.
LEMMA FinishType ==
  ASSUME TypeOK, NEW t \in Threads, NEW newStatus \in SessionStatus,
         FinishExecution(t, newStatus)
  PROVE  TypeOK'
  <1>1. PersistEvent(t, "execution_finished", NoOp, 0, "", newStatus, "end")
    BY DEF FinishExecution
  <1>2. EventTyped
    <2>1. "execution_finished" \in EventKinds /\ "end" \in Labels
      BY DEF EventKinds, Labels
    <2>2. NoOp \in Ops \cup {NoOp} /\ NoOp \notin Ops
      BY ConstantFacts
    <2>3. QED BY <1>1, <2>1, <2>2, EventType
  <1>3. TableType' /\ LocalType'
    BY <1>2 DEF FinishExecution, EventTyped, TypeOK, TableType, LocalType
  <1>4. QED BY <1>2, <1>3 DEF TypeOK, EventTyped

-----------------------------------------------------------------------------
(* Type correctness, one lemma per part of the system *)

LEMMA JournallingType ==
  ASSUME TypeOK, NEW t \in Threads, Journalling(t)
  PROVE  TypeOK'
  <1>1. CASE ReadCursor(t)
    BY SMTT(20), <1>1, ConstantFacts
       DEF ReadCursor, TypeOK, SessionType, TableType, DiskType, PositionType,
           LocalType, BoundType, Goto, Labels, db, session, disk, bounds
  <1>2. CASE StaleCursor(t)
    BY <1>2, ReturnType
       DEF StaleCursor, TypeOK, SessionType, TableType, DiskType, BoundType,
           db, session, disk, bounds
  <1>3. CASE SyncEvent(t)
    <2>1. PositionType' /\ LocalType'
      <3>1. CASE pc[t] = "end"
        BY <1>3, <3>1, ReturnType DEF SyncEvent
      <3>2. CASE pc[t] # "end"
        <4>1. /\ unsynced' = [unsynced EXCEPT ![t] = FALSE]
              /\ cur' = [cur EXCEPT ![t] = @ + 1]
              /\ UNCHANGED <<pc, todo, done, op, rid, seen, facts, amb, worker,
                             booting>>
          BY <1>3, <3>2 DEF SyncEvent
        <4>2. PositionType'
          BY <4>1 DEF TypeOK, PositionType
        <4>3. LocalType'
          BY <4>1 DEF TypeOK, LocalType
        <4>4. QED BY <4>2, <4>3
      <3>3. QED BY <3>1, <3>2
    <2>2. QED
      BY <1>3, <2>1
         DEF SyncEvent, AppendEvent, TypeOK, SessionType, TableType, DiskType,
             BoundType, db, session, disk, bounds
  <1>4. CASE SyncFails(t)
    <2>1. PositionType' /\ LocalType'
      BY <1>4, ReturnType DEF SyncFails
    <2>2. BoundType'
      BY <1>4, ConstantFacts DEF SyncFails, TypeOK, BoundType
    <2>3. SessionType' /\ TableType' /\ DiskType'
      BY <1>4
         DEF SyncFails, MarkRecoveryRequired, Interrupted, TypeOK, SessionType,
             TableType, DiskType, SessionStatus, RecoveryStates, disk
    <2>4. QED BY <2>1, <2>2, <2>3 DEF TypeOK
  <1>5. QED BY <1>1, <1>2, <1>3, <1>4 DEF Journalling

\* finalize_execution_consent and the reopening of an expired consent.
LEMMA ConsentType ==
  ASSUME TypeOK
  PROVE  /\ IssueChallenge => TypeOK'
         /\ \A t \in FinalizeCmds :
              FinalizeAttest(t) \/ FinalizeLocks(t) \/ FinalizeSteps(t)
                => TypeOK'
  <1>1. ASSUME IssueChallenge PROVE TypeOK'
    BY <1>1
       DEF IssueChallenge, TypeOK, SessionType, TableType, DiskType,
           PositionType, LocalType, BoundType, ConsentStates, disk, local,
           bounds
  <1>2. ASSUME NEW t \in FinalizeCmds,
               FinalizeAttest(t) \/ FinalizeLocks(t) \/ FinalizeSteps(t)
        PROVE  TypeOK'
    <2>0. t \in Threads
      BY ConstantFacts
    <2>1. CASE FinalizeAttest(t)
      BY <2>0, <2>1
         DEF FinalizeAttest, TypeOK, SessionType, TableType, DiskType,
             PositionType, LocalType, BoundType, ConsentStates, SessionStatus,
             Goto, Labels, disk, bounds
    <2>2. CASE FinalizeLocks(t)
      BY <2>0, <2>2, ReturnType
         DEF FinalizeLocks, LockOn, TypeOK, SessionType, TableType, DiskType,
             BoundType, db, session, disk, bounds
    <2>3. CASE FinalizeRead(t)
      <3>1. PositionType' /\ LocalType'
        <4>1. CASE journal = <<>>
          BY <2>0, <2>3, <4>1
             DEF FinalizeRead, TypeOK, PositionType, LocalType, Goto, Labels
        <4>2. CASE journal # <<>>
          BY <2>0, <2>3, <4>2, ReturnType DEF FinalizeRead
        <4>3. QED BY <4>1, <4>2
      <3>2. SessionType' /\ TableType' /\ DiskType' /\ BoundType'
        BY <2>3
           DEF FinalizeRead, TypeOK, SessionType, TableType, DiskType,
               BoundType, db, session, disk, bounds
      <3>3. QED BY <3>1, <3>2 DEF TypeOK
    <2>4. CASE FinalizeApprove(t)
      <3>1. EventTyped
        <4>1. /\ "approved_durable" \in EventKinds /\ "end" \in Labels
              /\ "approved" \in SessionStatus
          BY DEF EventKinds, Labels, SessionStatus
        <4>2. QED BY <2>0, <2>4, <4>1, EventType, ConstantFacts
                     DEF FinalizeApprove
      <3>2. QED BY <2>4, <3>1
                   DEF FinalizeApprove, EventTyped, TypeOK, TableType,
                       LocalType
    <2>5. QED BY <1>2, <2>1, <2>2, <2>3, <2>4 DEF FinalizeSteps
  <1>3. QED BY <1>1, <1>2

\* start_execution up to its loop.
LEMMA StartType ==
  ASSUME TypeOK, NEW t \in StartCmds,
         StartBegin(t) \/ StartLocks(t) \/ StartLapses(t) \/ StartConsume(t)
  PROVE  TypeOK'
  <1>0. t \in Threads
    BY ConstantFacts
  <1>1. CASE StartBegin(t)
    BY <1>0, <1>1
       DEF StartBegin, TypeOK, SessionType, TableType, DiskType, PositionType,
           LocalType, BoundType, Goto, Labels, db, session, disk, bounds
  <1>2. CASE StartLocks(t)
    BY <1>0, <1>2, ReturnType
       DEF StartLocks, LockOn, TypeOK, SessionType, TableType, DiskType,
           BoundType, db, session, disk, bounds
  <1>3. CASE StartLapses(t)
    BY <1>3
       DEF StartLapses, TypeOK, SessionType, TableType, DiskType,
           PositionType, LocalType, BoundType, ConsentStates, SessionStatus,
           disk, local, bounds
  <1>4. CASE StartConsume(t)
    <2>1. SessionType'
      BY <1>4
         DEF StartConsume, ConsumeConsent, TypeOK, SessionType, ConsentStates,
             SessionStatus
    <2>2. TableType' /\ DiskType' /\ BoundType'
      BY <1>4 DEF StartConsume, TypeOK, TableType, DiskType, BoundType, disk,
                  bounds
    <2>3. PositionType' /\ LocalType'
      <3>1. CASE consent = "attested" /\ status = "approved"
        <4>1. PositionType'
          BY <1>0, <1>4, <3>1
             DEF StartConsume, TypeOK, PositionType, Goto, Labels
        <4>2. LocalType'
          <5>1. /\ todo' = [todo EXCEPT ![t] =
                              {o \in Ops : opStatus[o] = "preflight_ok"}]
                /\ done' = [done EXCEPT ![t] =
                              {o \in Ops : opStatus[o] \in AppliedStatuses}]
                /\ UNCHANGED <<cur, op, rid, seen, facts, amb, worker>>
            BY <1>4, <3>1 DEF StartConsume
          <5>2. QED BY <1>0, <5>1 DEF TypeOK, LocalType
        <4>3. QED BY <4>1, <4>2
      <3>2. CASE ~(consent = "attested" /\ status = "approved")
        BY <1>0, <1>4, <3>2, ReturnType DEF StartConsume
      <3>3. QED BY <3>1, <3>2
    <2>4. QED BY <2>1, <2>2, <2>3 DEF TypeOK
  <1>5. QED BY <1>1, <1>2, <1>3, <1>4

\* rollback_execution up to its loop.
LEMMA RollbackType ==
  ASSUME TypeOK, NEW t \in RollbackCmds, RollbackBegin(t) \/ RollbackLocks(t)
  PROVE  TypeOK'
  <1>0. t \in Threads
    BY ConstantFacts
  <1>1. CASE RollbackBegin(t)
    <2>1. PositionType'
      BY <1>0, <1>1 DEF RollbackBegin, TypeOK, PositionType, Goto, Labels
    <2>2. LocalType'
      BY <1>0, <1>1 DEF RollbackBegin, TypeOK, LocalType, TableType
    <2>3. SessionType' /\ TableType' /\ DiskType' /\ BoundType'
      BY <1>1 DEF RollbackBegin, TypeOK, SessionType, TableType, DiskType,
                  BoundType, db, session, disk, bounds
    <2>4. QED BY <2>1, <2>2, <2>3 DEF TypeOK
  <1>2. CASE RollbackLocks(t)
    BY <1>0, <1>2, ReturnType
       DEF RollbackLocks, LockOn, TypeOK, SessionType, TableType, DiskType,
           BoundType, db, session, disk, bounds
  <1>3. QED BY <1>1, <1>2

\* One event of the loop that changes no other local.
LEMMA LoopEventType ==
  ASSUME TypeOK, NEW t \in Threads, NEW kind \in EventKinds, NEW o \in Ops,
         NEW newOp \in OpStatuses, NEW newStatus \in SessionStatus,
         NEW next \in Labels,
         PersistEvent(t, kind, o, 0, newOp, newStatus, next),
         UNCHANGED <<requests, todo, done, op, rid, amb>>
  PROVE  TypeOK'
  <1>1. EventTyped
    BY EventType
  <1>2. QED BY <1>1 DEF EventTyped, TypeOK, TableType, LocalType

LEMMA RefuseType ==
  ASSUME TypeOK, NEW t \in Threads, NEW o \in Ops, Refuse(t, o)
  PROVE  TypeOK'
  <1>1. /\ {"step_failed", "conflict"} \subseteq EventKinds
        /\ {"failed", "rollback_blocked"} \subseteq OpStatuses
        /\ {"failed", "rollback_partial"} \subseteq SessionStatus
        /\ "finish" \in Labels
    BY DEF EventKinds, OpStatuses, SessionStatus, Labels
  <1>2. CASE Dir(t) = "forward"
    BY <1>1, <1>2, LoopEventType DEF Refuse
  <1>3. CASE Dir(t) # "forward"
    BY <1>1, <1>3, LoopEventType DEF Refuse
  <1>4. QED BY <1>2, <1>3

\* A request transition in a transaction of its own, or its refusal.
LEMMA TransitionType ==
  ASSUME TypeOK, NEW t \in Threads, NEW state \in RequestStates,
         NEW label \in Labels
  PROVE  /\ Transition(t, state, label)
              => /\ SessionType' /\ TableType' /\ DiskType' /\ PositionType'
                 /\ (worker' \in [Threads -> {"none", "working", "gone"}
                                               \cup Replies] => LocalType')
         /\ TransitionRefused(t, state) => TypeOK'
  <1>1. ASSUME Transition(t, state, label)
        PROVE  /\ SessionType' /\ TableType' /\ DiskType' /\ PositionType'
               /\ (worker' \in [Threads -> {"none", "working", "gone"}
                                             \cup Replies] => LocalType')
    <2>1. requests' \in Seq(Requests)
      BY <1>1, SetRequestFacts DEF Transition, TypeOK, TableType
    <2>2. SessionType' /\ TableType' /\ DiskType'
      BY <1>1, <2>1 DEF Transition, TypeOK, SessionType, TableType, DiskType,
                        session, disk
    <2>3. PositionType'
      BY <1>1 DEF Transition, TypeOK, PositionType, Goto
    <2>4. worker' \in [Threads -> {"none", "working", "gone"} \cup Replies]
            => LocalType'
      BY <1>1 DEF Transition, TypeOK, LocalType
    <2>5. QED BY <2>2, <2>3, <2>4
  <1>2. ASSUME TransitionRefused(t, state) PROVE TypeOK'
    BY <1>2, ReturnType
       DEF TransitionRefused, TypeOK, SessionType, TableType, DiskType,
           BoundType, db, session, disk, bounds
  <1>3. QED BY <1>1, <1>2

\* The statuses the loop writes are members of their enumerations.
LEMMA LoopStatuses ==
  ASSUME NEW t
  PROVE  /\ RunningOp(t) \in OpStatuses
         /\ RunningSession(t) \in SessionStatus
         /\ CompletionStatus(t) \in SessionStatus
         /\ RefuseStatus(t) \in SessionStatus
  BY DEF RunningOp, RunningSession, CompletionStatus, RefuseStatus, OpStatuses,
         SessionStatus

\* The steps of the loop in which a command decides what comes next.
LEMMA LoopType ==
  ASSUME TypeOK, NEW t \in Movers,
         LoopFinish(t) \/ LoopStop(t) \/ LoopRefuse(t) \/ LoopValidate(t)
           \/ FinishRefused(t)
  PROVE  TypeOK'
  <1>0. t \in Threads
    BY ConstantFacts
  <1>1. CASE LoopFinish(t)
    BY <1>0, <1>1, LoopStatuses, FinishType DEF LoopFinish
  <1>2. CASE LoopStop(t)
    <2>1. {"cancelled", "paused"} \subseteq SessionStatus
      BY DEF SessionStatus
    <2>2. QED BY <1>0, <1>2, <2>1, FinishType DEF LoopStop
  <1>3. CASE LoopRefuse(t)
    <2>1. PICK o \in todo[t] : Refuse(t, o)
      BY <1>3 DEF LoopRefuse
    <2>2. o \in Ops
      BY <1>0 DEF TypeOK, LocalType
    <2>3. QED BY <1>0, <2>1, <2>2, RefuseType
  <1>4. CASE LoopValidate(t)
    <2> DEFINE newOp(o) ==
           IF Dir(t) = "forward" THEN "preflight_ok" ELSE seen[t][o]
    <2>1. PICK o \in todo[t] :
            /\ PersistEvent(t, "preconditions_validated", o, 0, newOp(o),
                            RunningSession(t), "intent")
            /\ op' = [op EXCEPT ![t] = o]
      BY <1>4 DEF LoopValidate
    <2>2. o \in Ops
      BY <1>0 DEF TypeOK, LocalType
    <2>3. newOp(o) \in OpStatuses
      BY <1>0, <2>2 DEF TypeOK, LocalType, OpStatuses
    <2>4. "preconditions_validated" \in EventKinds /\ "intent" \in Labels
      BY DEF EventKinds, Labels
    <2>5. EventTyped
      <3> HIDE DEF newOp
      <3> QED BY <1>0, <2>1, <2>2, <2>3, <2>4, LoopStatuses, EventType
    <2>6. QED BY <1>0, <1>4, <2>1, <2>2, <2>5
                 DEF LoopValidate, EventTyped, TypeOK, TableType, LocalType
  <1>5. CASE FinishRefused(t)
    BY <1>0, <1>5, LoopStatuses, FinishType DEF FinishRefused
  <1>6. QED BY <1>1, <1>2, <1>3, <1>4, <1>5

\* The labels at which a moving command has chosen its operation, and those at
\* which it has also persisted a request for it.
Requested == {"dispatch", "wait", "verify", "contradict", "mark", "refuse"}

Chosen == {"intent"} \cup Requested

\* A command at such a label holds a real operation, and recovery a request
\* index: without this TypeOK is not inductive.
InHand ==
  /\ \A t \in Movers : pc[t] \in Chosen => op[t] \in Ops
  /\ pc[Recovery] = "reconcile" => rid[Recovery] >= 1

\* Persisting the intent, sending the request and receiving the answer.
LEMMA RequestType ==
  ASSUME TypeOK, InHand, NEW t \in Movers,
         OpenSessionFails(t) \/ Intent(t) \/ IntentRefused(t) \/ Dispatch(t)
           \/ DispatchRefused(t) \/ Receive(t) \/ DispatchFails(t)
  PROVE  TypeOK'
  <1>0. t \in Threads
    BY ConstantFacts
  <1>s. /\ {"proven_not_started", "recovery_required"} \subseteq RequestStates
        /\ {"refuse", "mark"} \subseteq Labels
    BY DEF RequestStates, Labels
  <1>1. CASE Intent(t)
    <2>1. op[t] \in Ops
      BY <1>1 DEF Intent, InHand, Chosen
    <2> DEFINE kind == IF Dir(t) = "forward" THEN "intent_durable"
                       ELSE "rollback_intent"
               new == [op |-> op[t], dir |-> Dir(t), seq |-> Len(journal) + 1,
                       state |-> "intent_durable"]
    <2>2. /\ kind \in EventKinds /\ "dispatch" \in Labels
          /\ Len(requests) + 1 \in Nat
      BY DEF EventKinds, Labels, TypeOK, TableType
    <2>3. EventTyped
      <3>1. PersistEvent(t, kind, op[t], Len(requests) + 1, RunningOp(t),
                         RunningSession(t), "dispatch")
        BY <1>1 DEF Intent
      <3> HIDE DEF kind
      <3>2. QED BY <1>0, <2>1, <2>2, <3>1, LoopStatuses, EventType
    <2>4. new \in Requests
      BY <2>1 DEF Requests, Dir, Directions, RequestStates, TypeOK, TableType
    <2>5. requests' \in Seq(Requests)
      <3>1. requests' = Append(requests, new)
        BY <1>1 DEF Intent
      <3> HIDE DEF new
      <3>2. QED BY <2>4, <3>1 DEF TypeOK, TableType
    <2>6. TableType'
      BY <2>3, <2>5 DEF EventTyped, TableType
    <2>7. LocalType'
      BY <1>0, <1>1, <2>2, <2>3 DEF Intent, EventTyped, TypeOK, LocalType
    <2>8. QED BY <2>3, <2>6, <2>7 DEF EventTyped, TypeOK
  <1>2. CASE IntentRefused(t) \/ OpenSessionFails(t)
    BY <1>0, <1>2, ReturnType
       DEF IntentRefused, OpenSessionFails, TypeOK, SessionType, TableType, DiskType, BoundType,
           db, session, disk, bounds
  <1>3. CASE Dispatch(t)
    BY <1>0, <1>3
       DEF Dispatch, TypeOK, SessionType, TableType, DiskType, PositionType,
           LocalType, BoundType, Goto, Labels, db, session, disk, bounds
  <1>4. CASE DispatchRefused(t)
    <2>1. CASE /\ Transition(t, "proven_not_started", "refuse")
               /\ UNCHANGED <<worker, bounds>>
      <3>1. worker' \in [Threads -> {"none", "working", "gone"} \cup Replies]
        BY <2>1 DEF TypeOK, LocalType
      <3>2. BoundType'
        BY <2>1 DEF TypeOK, BoundType, bounds
      <3>3. QED BY <1>0, <1>s, <2>1, <3>1, <3>2, TransitionType DEF TypeOK
    <2>2. CASE TransitionRefused(t, "proven_not_started")
      BY <1>0, <1>s, <2>2, TransitionType
    <2>3. QED BY <1>4, <2>1, <2>2 DEF DispatchRefused
  <1>5. CASE Receive(t)
    <2> DEFINE state == ResponseState(worker[t])
               label == AfterResponse(worker[t])
    <2>1. state \in RequestStates /\ label \in Labels
      BY <1>5 DEF Receive, Replies, ResponseState, AfterResponse,
                  RequestStates, Labels
    <2>2. CASE /\ Transition(t, state, label)
               /\ worker' = [worker EXCEPT ![t] = "none"]
               /\ UNCHANGED bounds
      <3>1. worker' \in [Threads -> {"none", "working", "gone"} \cup Replies]
        BY <1>0, <2>2 DEF TypeOK, LocalType
      <3>2. BoundType'
        BY <2>2 DEF TypeOK, BoundType, bounds
      <3> HIDE DEF state, label
      <3>3. QED BY <1>0, <2>1, <2>2, <3>1, <3>2, TransitionType DEF TypeOK
    <2>3. CASE TransitionRefused(t, state)
      <3> HIDE DEF state, label
      <3> QED BY <1>0, <2>1, <2>3, TransitionType
    <2>4. QED BY <1>5, <2>2, <2>3 DEF Receive
  <1>6. CASE DispatchFails(t)
    <2>1. CASE TransitionRefused(t, "recovery_required")
      BY <1>0, <1>s, <2>1, TransitionType
    <2>2. CASE /\ Transition(t, "recovery_required", "mark")
               /\ UNCHANGED <<worker, bounds>>
      <3>1. worker' \in [Threads -> {"none", "working", "gone"} \cup Replies]
        BY <2>2 DEF TypeOK, LocalType
      <3>2. BoundType'
        BY <2>2 DEF TypeOK, BoundType, bounds
      <3>3. QED BY <1>0, <1>s, <2>2, <3>1, <3>2, TransitionType DEF TypeOK
    <2>3. CASE /\ faults < MaxFaults
               /\ Transition(t, "recovery_required", "mark")
               /\ faults' = faults + 1
               /\ worker' = IF LateMutation THEN worker
                            ELSE [worker EXCEPT ![t] = "gone"]
               /\ UNCHANGED <<crashes, changes>>
      <3>1. worker' \in [Threads -> {"none", "working", "gone"} \cup Replies]
        BY <1>0, <2>3 DEF TypeOK, LocalType
      <3>2. BoundType'
        BY <2>3, ConstantFacts DEF TypeOK, BoundType
      <3>3. QED BY <1>0, <1>s, <2>3, <3>1, <3>2, TransitionType DEF TypeOK
    <2>4. QED BY <1>6, <2>1, <2>2, <2>3 DEF DispatchFails
  <1>7. QED BY <1>1, <1>2, <1>3, <1>4, <1>5, <1>6

\* What follows the answer: comparing it with the disk and recording it.
LEMMA OutcomeType ==
  ASSUME TypeOK, InHand, NEW t \in Movers,
         CheckNotApplied(t) \/ VerifyFails(t) \/ Observe(t)
           \/ ObserveRefused(t) \/ MarkAmbiguousOutcome(t)
           \/ RefuseAfterRequest(t)
  PROVE  TypeOK'
  <1>0. t \in Threads
    BY ConstantFacts
  <1>s. /\ {"proven_not_started", "recovery_required", "proven_applied"}
             \subseteq RequestStates
        /\ {"refuse", "mark", "next", "end"} \subseteq Labels
        /\ {"applied_observed", "rolled_back_observed", "step_failed"}
             \subseteq EventKinds
        /\ {"running", "rolling_back", "recovery_required"}
             \subseteq SessionStatus
        /\ {"applied", "rolled_back"} \subseteq OpStatuses
    BY DEF RequestStates, Labels, EventKinds, SessionStatus, OpStatuses
  <1>t. ASSUME NEW state \in RequestStates, NEW label \in Labels,
               \/ Transition(t, state, label) /\ UNCHANGED <<worker, bounds>>
               \/ TransitionRefused(t, state)
        PROVE  TypeOK'
    <2>1. CASE Transition(t, state, label) /\ UNCHANGED <<worker, bounds>>
      <3>1. worker' \in [Threads -> {"none", "working", "gone"} \cup Replies]
        BY <2>1 DEF TypeOK, LocalType
      <3>2. BoundType'
        BY <2>1 DEF TypeOK, BoundType, bounds
      <3>3. QED BY <1>0, <2>1, <3>1, <3>2, TransitionType DEF TypeOK
    <2>2. CASE TransitionRefused(t, state)
      BY <1>0, <2>2, TransitionType
    <2>3. QED BY <1>t, <2>1, <2>2
  <1>1. CASE CheckNotApplied(t)
    <2>1. CASE Ready(Dir(t), op[t])
      BY <1>1, <1>s, <1>t, <2>1 DEF CheckNotApplied
    <2>2. CASE ~Ready(Dir(t), op[t])
      BY <1>1, <1>s, <1>t, <2>2 DEF CheckNotApplied
    <2>3. QED BY <2>1, <2>2
  <1>2. CASE VerifyFails(t)
    BY <1>2, <1>s, <1>t DEF VerifyFails
  <1>3. CASE Observe(t)
    <2>1. op[t] \in Ops
      BY <1>3 DEF Observe, InHand, Chosen, Requested
    <2>2. EventTyped
      <3>1. CASE Dir(t) = "forward"
        BY <1>0, <1>3, <1>s, <2>1, <3>1, EventType DEF Observe
      <3>2. CASE Dir(t) # "forward"
        BY <1>0, <1>3, <1>s, <2>1, <3>2, EventType DEF Observe
      <3>3. QED BY <3>1, <3>2
    <2>3. requests' \in Seq(Requests)
      BY <1>3, <1>s, SetRequestFacts DEF Observe, TypeOK, TableType
    <2>4. TableType'
      BY <2>2, <2>3 DEF EventTyped, TableType
    <2>5. LocalType'
      BY <1>0, <1>3, <2>1, <2>2 DEF Observe, EventTyped, TypeOK, LocalType
    <2>6. QED BY <2>2, <2>4, <2>5 DEF EventTyped, TypeOK
  <1>4. CASE ObserveRefused(t)
    BY <1>0, <1>4, ReturnType
       DEF ObserveRefused, TypeOK, SessionType, TableType, DiskType, BoundType,
           db, session, disk, bounds
  <1>5. CASE MarkAmbiguousOutcome(t)
    <2>1. op[t] \in Ops
      BY <1>5 DEF MarkAmbiguousOutcome, InHand, Chosen, Requested
    <2>2. QED BY <1>0, <1>5, <1>s, <2>1, LoopStatuses, LoopEventType
                 DEF MarkAmbiguousOutcome
  <1>6. CASE RefuseAfterRequest(t)
    <2>1. op[t] \in Ops
      BY <1>6 DEF RefuseAfterRequest, InHand, Chosen, Requested
    <2>2. QED BY <1>0, <1>6, <2>1, RefuseType DEF RefuseAfterRequest
  <1>7. QED BY <1>1, <1>2, <1>3, <1>4, <1>5, <1>6

\* The worker, attended or left behind.
LEMMA WorkerType ==
  ASSUME TypeOK
  PROVE  /\ \A t \in Movers : WorkerSteps(t) => TypeOK'
         /\ \A i \in orphans : OrphanMutates(i) \/ OrphanDies(i) => TypeOK'
  <1>d. \A dir : Target(dir) \in Locations
    BY DEF Target, Locations
  <1>1. ASSUME NEW t \in Movers, WorkerSteps(t) PROVE TypeOK'
    <2>0. t \in Threads
      BY ConstantFacts
    <2>1. CASE WorkerMutates(t)
      <3>1. /\ loc' = [loc EXCEPT ![op[t]] = Target(Dir(t))]
            /\ moved' = moved \cup {rid[t]}
            /\ UNCHANGED <<touched, orphans>>
        BY <2>1 DEF WorkerMutates
      <3>2. DiskType'
        BY <1>d, <2>0, <3>1 DEF TypeOK, DiskType, LocalType
      <3>3. LocalType' /\ BoundType'
        <4>1. /\ UNCHANGED <<cur, todo, done, op, rid, seen, facts, amb>>
              /\ UNCHANGED <<crashes, changes>>
          BY <2>1 DEF WorkerMutates
        <4>2. \E reply \in Replies \cup {"gone"} :
                worker' = [worker EXCEPT ![t] = reply]
          BY <2>1 DEF WorkerMutates, Answer, Replies
        <4>3. \/ faults' = faults
              \/ faults < MaxFaults /\ faults' = faults + 1
          BY <2>1 DEF WorkerMutates, UseFault
        <4>4. LocalType'
          BY <2>0, <4>1, <4>2 DEF TypeOK, LocalType
        <4>5. BoundType'
          BY <4>1, <4>3, ConstantFacts DEF TypeOK, BoundType
        <4>6. QED BY <4>4, <4>5
      <3>4. SessionType' /\ TableType' /\ PositionType'
        BY <2>1 DEF WorkerMutates, TypeOK, SessionType, TableType,
                    PositionType, db, session
      <3>5. QED BY <3>2, <3>3, <3>4 DEF TypeOK
    <2>2. CASE WorkerDeclines(t)
      <3>1. DiskType'
        BY <2>2 DEF WorkerDeclines, TypeOK, DiskType, disk
      <3>2. LocalType' /\ BoundType'
        <4>1. /\ UNCHANGED <<cur, todo, done, op, rid, seen, facts, amb>>
              /\ UNCHANGED <<crashes, changes>>
          BY <2>2 DEF WorkerDeclines
        <4>2. \E reply \in Replies \cup {"gone"} :
                worker' = [worker EXCEPT ![t] = reply]
          BY <2>2 DEF WorkerDeclines, Answer, Replies
        <4>3. \/ faults' = faults
              \/ faults < MaxFaults /\ faults' = faults + 1
          BY <2>2 DEF WorkerDeclines, UseFault
        <4>4. LocalType'
          BY <2>0, <4>1, <4>2 DEF TypeOK, LocalType
        <4>5. BoundType'
          BY <4>1, <4>3, ConstantFacts DEF TypeOK, BoundType
        <4>6. QED BY <4>4, <4>5
      <3>3. SessionType' /\ TableType' /\ PositionType'
        BY <2>2 DEF WorkerDeclines, TypeOK, SessionType, TableType,
                    PositionType, db, session
      <3>4. QED BY <3>1, <3>2, <3>3 DEF TypeOK
    <2>3. QED BY <1>1, <2>1, <2>2 DEF WorkerSteps
  <1>2. ASSUME NEW i \in orphans, OrphanMutates(i) \/ OrphanDies(i)
        PROVE  TypeOK'
    <2>1. DiskType'
      <3>1. CASE OrphanMutates(i)
        BY <1>d, <3>1 DEF OrphanMutates, TypeOK, DiskType
      <3>2. CASE OrphanDies(i)
        BY <3>2 DEF OrphanDies, TypeOK, DiskType, disk
      <3>3. QED BY <1>2, <3>1, <3>2
    <2>2. SessionType' /\ TableType' /\ PositionType' /\ LocalType'
            /\ BoundType'
      BY <1>2 DEF OrphanMutates, OrphanDies, TypeOK, SessionType, TableType,
                  PositionType, LocalType, BoundType, db, session, local,
                  bounds
    <2>3. QED BY <2>1, <2>2 DEF TypeOK
  <1>3. QED BY <1>1, <1>2

\* recover_execution.
LEMMA RecoveryType ==
  ASSUME TypeOK, InHand, RecoverBegin \/ RecoverLocks \/ RecoverySteps
  PROVE  TypeOK'
  <1>0. Recovery \in Threads
    BY ConstantFacts
  <1>1. CASE RecoverBegin
    <2>1. PositionType'
      BY <1>0, <1>1 DEF RecoverBegin, TypeOK, PositionType, Goto, Labels
    <2>2. LocalType'
      BY <1>0, <1>1 DEF RecoverBegin, TypeOK, LocalType, TableType
    <2>3. SessionType' /\ TableType' /\ DiskType' /\ BoundType'
      BY <1>1 DEF RecoverBegin, TypeOK, SessionType, TableType, DiskType,
                  BoundType, db, session, disk, bounds
    <2>4. QED BY <2>1, <2>2, <2>3 DEF TypeOK
  <1>2. CASE RecoverLocks
    BY <1>0, <1>2, ReturnType
       DEF RecoverLocks, LockOn, TypeOK, SessionType, TableType, DiskType,
           BoundType, db, session, disk, bounds
  <1>3. CASE ReconcileSettled
    BY SMTT(20), <1>0, <1>3
       DEF ReconcileSettled, NextFact, TypeOK, SessionType, TableType,
           DiskType, PositionType, LocalType, BoundType, db, session, disk,
           bounds
  <1>4. CASE ReconcileRequest
    <2>1. Fact \in Requests /\ Fact.op \in Ops
      <3>1. rid[Recovery] \in 1..Len(facts)
        BY <1>0, <1>4 DEF ReconcileRequest, AtFact, InHand, TypeOK, LocalType
      <3>2. Fact \in Requests
        BY <3>1 DEF Fact, TypeOK, LocalType
      <3>3. QED BY <3>2 DEF Requests
    <2>2. /\ Verdict(Fact) \in RequestStates
          /\ VerdictKind(Fact) \in EventKinds
      BY DEF Verdict, VerdictKind, RequestStates, EventKinds
    <2>3. VerdictOp(Fact) \in OpStatuses
      BY <2>1 DEF VerdictOp, OpStatuses, TypeOK, TableType
    <2> DEFINE newStatus == IF Verdict(Fact) = "ambiguous"
                            THEN "recovery_ambiguous"
                            ELSE "recovery_required"
    <2>4. newStatus \in SessionStatus /\ "reconcile" \in Labels
      BY DEF SessionStatus, Labels
    <2>5. EventTyped
      <3>1. PersistEvent(Recovery, VerdictKind(Fact), Fact.op, rid[Recovery],
                         VerdictOp(Fact), newStatus, "reconcile")
        BY <1>4 DEF ReconcileRequest
      <3>2. rid[Recovery] \in Nat
        BY <1>0 DEF TypeOK, LocalType
      <3> HIDE DEF newStatus
      <3>3. QED BY <1>0, <2>1, <2>2, <2>3, <2>4, <3>1, <3>2, EventType
    <2>6. requests' \in Seq(Requests)
      BY <1>4, <2>2, SetRequestFacts DEF ReconcileRequest, TypeOK, TableType
    <2>7. TableType'
      BY <2>5, <2>6 DEF EventTyped, TableType
    <2>8. LocalType'
      BY <1>0, <1>4, <2>5
         DEF ReconcileRequest, NextFact, EventTyped, TypeOK, LocalType
    <2>9. QED BY <2>5, <2>7, <2>8 DEF EventTyped, TypeOK
  <1>5. CASE ReconcileRefused
    BY <1>0, <1>5, ReturnType
       DEF ReconcileRefused, TypeOK, SessionType, TableType, DiskType,
           BoundType, db, session, disk, bounds
  <1>6. CASE Assess
    <2>1. PositionType' /\ LocalType'
      BY <1>0, <1>6, ReturnType DEF Assess
    <2>2. SessionType'
      BY <1>6 DEF Assess, TypeOK, SessionType, SessionStatus, RecoveryStates
    <2>3. TableType' /\ DiskType' /\ BoundType'
      BY <1>6 DEF Assess, TypeOK, TableType, DiskType, BoundType, disk, bounds
    <2>4. QED BY <2>1, <2>2, <2>3 DEF TypeOK
  <1>7. QED BY <1>1, <1>2, <1>3, <1>4, <1>5, <1>6 DEF RecoverySteps

\* pause_execution and cancel_execution.
LEMMA ControlType ==
  ASSUME TypeOK
  PROVE  /\ RequestPause \/ RequestCancel => TypeOK'
         /\ \A t \in CancelCmds :
              CancelBegin(t) \/ CancelLocks(t) \/ CancelSteps(t) => TypeOK'
  <1>1. ASSUME RequestPause \/ RequestCancel PROVE TypeOK'
    BY <1>1
       DEF RequestPause, RequestCancel, TypeOK, SessionType, TableType,
           DiskType, PositionType, LocalType, BoundType, disk, local, bounds
  <1>2. ASSUME NEW t \in CancelCmds,
               CancelBegin(t) \/ CancelLocks(t) \/ CancelSteps(t)
        PROVE  TypeOK'
    <2>0. t \in Threads
      BY ConstantFacts
    <2>1. CASE CancelBegin(t)
      <3>1. PositionType'
        BY <2>0, <2>1 DEF CancelBegin, TypeOK, PositionType, Goto, Labels
      <3>2. SessionType' /\ TableType' /\ DiskType' /\ LocalType' /\ BoundType'
        BY <2>1 DEF CancelBegin, TypeOK, SessionType, TableType, DiskType,
                    LocalType, BoundType, db, session, disk, bounds
      <3>3. QED BY <3>1, <3>2 DEF TypeOK
    <2>2. CASE CancelLocks(t)
      BY <2>0, <2>2, ReturnType
         DEF CancelLocks, LockOn, TypeOK, SessionType, TableType, DiskType,
             BoundType, db, session, disk, bounds
    <2>3. CASE CancelInvalidate(t)
      <3>1. SessionType' /\ TableType' /\ DiskType' /\ BoundType'
        BY <2>3 DEF CancelInvalidate, TypeOK, SessionType, TableType, DiskType,
                    BoundType, SessionStatus, ConsentStates, disk, bounds
      <3>2. PositionType' /\ LocalType'
        <4>1. CASE Return(t)
          BY <2>0, <4>1, ReturnType
        <4>2. CASE ~Return(t)
          <5>1. /\ Goto(t, IF pc[t] = "withdraw" THEN "unstarted"
                           ELSE "cursor")
                /\ UNCHANGED <<booting, unsynced, cur, todo, done, op, rid,
                               seen, facts, amb, worker>>
            BY <2>3, <4>2 DEF CancelInvalidate
          <5>2. QED BY <2>0, <5>1 DEF TypeOK, PositionType, LocalType, Goto,
                                      Labels
        <4>3. QED BY <4>1, <4>2
      <3>3. QED BY <3>1, <3>2 DEF TypeOK
    <2>4. CASE CancelUnstarted(t)
      <3>1. PositionType' /\ LocalType'
        BY <2>0, <2>4, ReturnType DEF CancelUnstarted
      <3>2. SessionType' /\ TableType' /\ DiskType' /\ BoundType'
        BY <2>4 DEF CancelUnstarted, TypeOK, SessionType, TableType, DiskType,
                    BoundType, SessionStatus, disk, bounds
      <3>3. QED BY <3>1, <3>2 DEF TypeOK
    <2>5. CASE CancelFinish(t)
      <3>1. "cancelled" \in SessionStatus
        BY DEF SessionStatus
      <3>2. QED BY <2>0, <2>5, <3>1, FinishType DEF CancelFinish
    <2>6. QED BY <1>2, <2>1, <2>2, <2>3, <2>4, <2>5 DEF CancelSteps
  <1>3. QED BY <1>1, <1>2

\* Crash, restart and the user's own changes.
LEMMA EnvironmentType ==
  ASSUME TypeOK
  PROVE  /\ CrashRestart => TypeOK'
         /\ \A o \in Ops : UserChange(o) => TypeOK'
  <1>1. ASSUME CrashRestart PROVE TypeOK'
    <2>1. PositionType' /\ LocalType'
      <3>1. PositionType'
        <4>1. booting' \in BOOLEAN
          <5>1. CASE journal # <<>> /\ ~ExternalComplete
            BY <1>1, <5>1 DEF CrashRestart
          <5>2. CASE ~(journal # <<>> /\ ~ExternalComplete)
            <6>1. booting' = (status \in NeedsRecovery \cup Interrupted)
              BY <1>1, <5>2 DEF CrashRestart
            <6>2. QED BY <6>1, SMT
          <5>3. QED BY <5>1, <5>2
        <4>2. QED BY <1>1, <4>1 DEF CrashRestart, PositionType, Labels
      <3>2. /\ cur' \in [Threads -> Nat]
            /\ todo' \in [Threads -> SUBSET Ops]
            /\ done' \in [Threads -> SUBSET Ops]
            /\ op' \in [Threads -> Ops \cup {NoOp}]
            /\ rid' \in [Threads -> Nat]
        BY <1>1 DEF CrashRestart
      <3>3. /\ seen' \in [Threads -> [Ops -> OpStatuses]]
            /\ facts' \in Seq(Requests) /\ amb' \in BOOLEAN
        BY <1>1, ConstantFacts, EmptyTables DEF CrashRestart
      <3>4. worker' \in [Threads -> {"none", "working", "gone"} \cup Replies]
        BY <1>1 DEF CrashRestart
      <3>5. QED BY <3>1, <3>2, <3>3, <3>4 DEF LocalType
    <2>2. DiskType'
      <3>1. {rid[t] : t \in {u \in Movers : worker[u] = "working"}}
              \subseteq Nat
        BY ConstantFacts DEF TypeOK, LocalType
      <3>2. QED BY <1>1, <3>1 DEF CrashRestart, TypeOK, DiskType, disk
    <2>3. SessionType' /\ TableType'
      BY <1>1 DEF CrashRestart, MarkRecoveryRequired, Interrupted, TypeOK,
                  SessionType, TableType, SessionStatus, RecoveryStates
    <2>4. BoundType'
      BY <1>1, ConstantFacts DEF CrashRestart, TypeOK, BoundType
    <2>5. QED BY <2>1, <2>2, <2>3, <2>4 DEF TypeOK
  <1>2. ASSUME NEW o \in Ops, UserChange(o) PROVE TypeOK'
    <2>1. DiskType' /\ BoundType'
      BY <1>2, ConstantFacts
         DEF UserChange, TypeOK, DiskType, BoundType, Locations
    <2>2. SessionType' /\ TableType' /\ PositionType' /\ LocalType'
      BY <1>2 DEF UserChange, TypeOK, SessionType, TableType, PositionType,
                  LocalType, db, session, local
    <2>3. QED BY <2>1, <2>2 DEF TypeOK
  <1>3. QED BY <1>1, <1>2

-----------------------------------------------------------------------------
(* TypeOK is inductive together with InHand *)

LEMMA TypeInit ==
  Init => TypeOK /\ InHand
  <1> SUFFICES ASSUME Init PROVE TypeOK /\ InHand
    OBVIOUS
  <1>1. SessionType
    BY DEF Init, SessionType, SessionStatus, RecoveryStates, ConsentStates
  <1>2. TableType
    <2>1. opStatus \in [Ops -> OpStatuses]
      BY DEF Init, OpStatuses
    <2>2. QED BY <2>1, EmptyTables DEF Init, TableType
  <1>3. DiskType /\ BoundType
    BY ConstantFacts DEF Init, DiskType, BoundType, Locations
  <1>4. PositionType
    BY DEF Init, PositionType, Labels
  <1>5. LocalType
    BY ConstantFacts, EmptyTables DEF Init, LocalType
  <1>6. InHand
    BY ConstantFacts DEF Init, InHand, Chosen, Requested
  <1>7. QED BY <1>1, <1>2, <1>3, <1>4, <1>5, <1>6 DEF TypeOK

LEMMA TypeStep ==
  ASSUME TypeOK, InHand, Next
  PROVE  TypeOK'
  <1>1. CASE \E t \in Threads : Journalling(t)
    BY <1>1, JournallingType
  <1>2. CASE \/ IssueChallenge
             \/ \E t \in FinalizeCmds :
                  FinalizeAttest(t) \/ FinalizeLocks(t) \/ FinalizeSteps(t)
    BY <1>2, ConsentType
  <1>3. CASE \E t \in StartCmds : \/ StartBegin(t) \/ StartLocks(t)
                                  \/ StartLapses(t) \/ StartConsume(t)
    BY <1>3, StartType
  <1>4. CASE \E t \in RollbackCmds : RollbackBegin(t) \/ RollbackLocks(t)
    BY <1>4, RollbackType
  <1>5. CASE \E t \in Movers : MoveSteps(t)
    <2>1. PICK t \in Movers : MoveSteps(t)
      BY <1>5
    <2>2. QED BY <2>1, LoopType, RequestType, OutcomeType DEF MoveSteps
  <1>6. CASE \/ \E t \in Movers : WorkerSteps(t)
             \/ \E i \in orphans : OrphanMutates(i) \/ OrphanDies(i)
    BY <1>6, WorkerType
  <1>7. CASE \/ \E t \in CancelCmds :
                  CancelBegin(t) \/ CancelLocks(t) \/ CancelSteps(t)
             \/ RequestPause \/ RequestCancel
    BY <1>7, ControlType
  <1>8. CASE RecoverBegin \/ RecoverLocks \/ RecoverySteps
    BY <1>8, RecoveryType
  <1>9. CASE CrashRestart \/ \E o \in Ops : UserChange(o)
    BY <1>9, EnvironmentType
  <1>10. QED
    BY <1>1, <1>2, <1>3, <1>4, <1>5, <1>6, <1>7, <1>8, <1>9 DEF Next

-----------------------------------------------------------------------------
(* The write-ahead invariant *)

\* The places where a command may be while its worker still runs.
Attended == {"wait", "mark", "end"}

\* The thread holds a request that may still be performed.
Holds(t) == pc[t] = "dispatch" \/ worker[t] = "working"

\* The intent of request i is in the external journal.
Flushed(i) == i \in 1..Len(requests) /\ requests[i].seq <= ext

\* The external journal is a prefix of the stored one, and every request row is
\* bound to its own intent event.
TablesAgree ==
  /\ ext <= Len(journal)
  /\ \A i \in 1..Len(requests) : Bound(i, requests[i])

\* A command that is past its intent holds an existing request; once the intent
\* is synchronized the request is flushed, and it stays so while a worker runs.
HeldFlushed ==
  \A t \in Movers :
    /\ pc[t] \in Requested => rid[t] \in 1..Len(requests)
    /\ pc[t] = "dispatch" /\ ~unsynced[t] => Flushed(rid[t])
    /\ worker[t] = "working" => pc[t] \in Attended /\ Flushed(rid[t])

\* No two commands hold one request, and none holds a request that is already
\* performed or that a worker left behind may perform.
HeldOnce ==
  /\ \A t \in Movers : Holds(t) => rid[t] \notin moved \cup orphans
  /\ \A t, u \in Movers : t # u /\ Holds(t) /\ Holds(u) => rid[t] # rid[u]

\* What is performed, or may be by a worker left behind, is flushed.
EffectsFlushed ==
  /\ \A i \in moved \cup orphans : Flushed(i)
  /\ moved \cap orphans = {}

LogInv == InHand /\ TablesAgree /\ HeldFlushed /\ HeldOnce /\ EffectsFlushed

\* A step of thread t that sends nothing and performs nothing: request rows keep
\* their identity, journals only grow, and no other command is disturbed.
SameRequests ==
  /\ Len(requests') = Len(requests)
  /\ \A i \in 1..Len(requests) :
       /\ requests'[i].op = requests[i].op
       /\ requests'[i].dir = requests[i].dir
       /\ requests'[i].seq = requests[i].seq

JournalGrows ==
  /\ Len(journal') >= Len(journal)
  /\ \A i \in 1..Len(journal) : journal'[i] = journal[i]
  /\ ext <= ext' /\ ext' <= Len(journal')

OthersKept(t) ==
  \A u \in Movers \ {t} :
    /\ pc'[u] = pc[u] /\ unsynced'[u] = unsynced[u] /\ rid'[u] = rid[u]
    /\ op'[u] = op[u] /\ worker'[u] = worker[u]

QuietThread(t) ==
  /\ t \in Movers =>
       /\ pc'[t] = "dispatch" =>
            pc[t] = "dispatch" /\ (unsynced'[t] \/ Flushed(rid[t])')
       /\ pc'[t] \in Requested => pc[t] \in Requested /\ rid'[t] = rid[t]
       /\ pc'[t] \in Chosen => op'[t] \in Ops
       /\ worker'[t] = "working" =>
            worker[t] = "working" /\ pc'[t] \in Attended /\ rid'[t] = rid[t]
  /\ pc'[Recovery] = "reconcile" => rid'[Recovery] >= 1

Quiet(t) ==
  /\ SameRequests /\ JournalGrows
  /\ moved' = moved /\ orphans' = orphans
  /\ OthersKept(t) /\ QuietThread(t)

\* Every row of a typed request table names a position of the journal.
LEMMA RequestRows ==
  ASSUME TypeOK
  PROVE  \A i \in 1..Len(requests) :
           requests[i] \in Requests /\ requests[i].seq \in Nat
  <1>1. \A i \in 1..Len(requests) : requests[i] \in Requests
    BY DEF TypeOK, TableType
  <1>2. \A r \in Requests : r.seq \in Nat
    BY DEF Requests
  <1>3. QED BY <1>1, <1>2

\* Such a step preserves the write-ahead invariant.
LEMMA QuietKeepsLog ==
  ASSUME TypeOK, TypeOK', LogInv, NEW t, Quiet(t)
  PROVE  LogInv'
  <1> USE DEF LogInv, Quiet
  <1>a. \A i \in 1..Len(requests) : requests[i].seq \in Nat
    BY RequestRows
  <1>b. /\ Len(requests) \in Nat /\ Len(journal) \in Nat
        /\ Len(journal') \in Nat /\ ext \in Nat /\ ext' \in Nat
    BY DEF TypeOK, TableType
  <1>c. \A i : Flushed(i) => Flushed(i)'
    BY <1>a, <1>b DEF Flushed, SameRequests, JournalGrows
  <1>1. InHand'
    BY DEF InHand, OthersKept, QuietThread
  <1>2. TablesAgree'
    <2>1. ASSUME NEW i \in 1..Len(requests), Bound(i, requests[i])
          PROVE  Bound(i, requests[i])'
      <3>1. requests[i].seq \in 1..Len(journal')
        BY <1>a, <1>b, <2>1 DEF Bound, JournalGrows
      <3>2. journal'[requests[i].seq] = journal[requests[i].seq]
        BY <2>1 DEF Bound, JournalGrows
      <3>3. QED BY <2>1, <3>1, <3>2 DEF Bound, SameRequests
    <2>2. \A i \in 1..Len(requests') : Bound(i, requests[i])'
      BY <2>1 DEF TablesAgree, SameRequests
    <2>3. QED BY <2>2 DEF TablesAgree, JournalGrows
  <1>3. HeldFlushed'
    <2>1. ASSUME NEW u \in Movers
          PROVE  /\ pc'[u] \in Requested => rid'[u] \in 1..Len(requests')
                 /\ pc'[u] = "dispatch" /\ ~unsynced'[u] => Flushed(rid[u])'
                 /\ worker'[u] = "working" =>
                      pc'[u] \in Attended /\ Flushed(rid[u])'
      <3>1. CASE u = t
        BY <1>c, <3>1 DEF HeldFlushed, QuietThread, SameRequests
      <3>2. CASE u # t
        BY <1>c, <3>2 DEF HeldFlushed, OthersKept, SameRequests
      <3>3. QED BY <3>1, <3>2
    <2>2. QED BY <2>1 DEF HeldFlushed
  <1>4. HeldOnce'
    <2>1. \A u \in Movers : Holds(u)' => Holds(u) /\ rid'[u] = rid[u]
      BY DEF Holds, OthersKept, QuietThread, Requested
    <2>2. QED BY <2>1 DEF HeldOnce
  <1>5. EffectsFlushed'
    BY <1>c DEF EffectsFlushed
  <1>6. QED BY <1>1, <1>2, <1>3, <1>4, <1>5

\* A command that returns is quiet when it touches no request.
LEMMA QuietReturn ==
  ASSUME TypeOK, LogInv, NEW t \in Threads, Return(t),
         UNCHANGED <<requests, journal, moved, orphans>>,
         ext <= ext', ext' <= Len(journal')
  PROVE  Quiet(t)
  <1>1. SameRequests /\ JournalGrows
    BY DEF SameRequests, JournalGrows, TypeOK, TableType
  <1>2. OthersKept(t)
    BY DEF OthersKept, Return, Goto, TypeOK, PositionType, LocalType, Movers,
           Threads
  <1>3. QuietThread(t)
    BY ConstantFacts
       DEF QuietThread, Return, Goto, Requested, Chosen, LogInv, InHand, TypeOK,
           PositionType, LocalType
  <1>4. QED BY <1>1, <1>2, <1>3 DEF Quiet

\* An event is quiet when its caller keeps the request of a running worker.
LEMMA QuietEvent ==
  ASSUME TypeOK, LogInv, NEW t \in Threads, NEW kind, NEW o, NEW req,
         NEW newOp, NEW newStatus, NEW next,
         PersistEvent(t, kind, o, req, newOp, newStatus, next),
         SameRequests,
         \A u \in Movers \ {t} : rid'[u] = rid[u] /\ op'[u] = op[u],
         next # "dispatch",
         t \in Movers =>
           /\ worker[t] = "working" => next \in Attended /\ rid'[t] = rid[t]
           /\ next \in Requested => pc[t] \in Requested /\ rid'[t] = rid[t]
           /\ next \in Chosen => op'[t] \in Ops,
         pc'[Recovery] = "reconcile" => rid'[Recovery] >= 1
  PROVE  Quiet(t)
  <1>1. JournalGrows
    <2>1. /\ journal' = Append(journal, [kind |-> kind, op |-> o, req |-> req])
          /\ ext' = ext
      BY DEF PersistEvent
    <2>2. journal \in Seq(Events) /\ ext \in Nat /\ ext <= Len(journal)
      BY DEF TypeOK, TableType, LogInv, TablesAgree
    <2>3. QED BY <2>1, <2>2 DEF JournalGrows
  <1>2. OthersKept(t)
    BY DEF OthersKept, PersistEvent, Goto, TypeOK, PositionType, Movers,
           Threads
  <1>3. QuietThread(t)
    BY ConstantFacts DEF QuietThread, PersistEvent, Goto, TypeOK, PositionType
  <1>4. QED BY <1>1, <1>2, <1>3 DEF Quiet, PersistEvent, disk

\* The threads that move files run no other command.
LEMMA OtherThreads ==
  /\ \A t \in FinalizeCmds \cup CancelCmds : t \notin Movers /\ t # Recovery
  /\ Recovery \notin Movers
  BY ThreadAssumption DEF Movers

LEMMA QuietJournalling ==
  ASSUME TypeOK, LogInv, NEW t \in Threads, Journalling(t)
  PROVE  Quiet(t)
  <1>1. CASE ReadCursor(t)
    <2>1. SameRequests /\ JournalGrows /\ moved' = moved /\ orphans' = orphans
      BY <1>1 DEF ReadCursor, SameRequests, JournalGrows, LogInv, TablesAgree,
                  TypeOK, TableType, db, disk
    <2>2. OthersKept(t)
      BY <1>1, OtherThreads
         DEF ReadCursor, OthersKept, Goto, TypeOK, PositionType, LocalType,
             Movers, Threads
    <2>3. QuietThread(t)
      <3>1. CASE t \in Movers
        BY <1>1, <3>1, OtherThreads, ConstantFacts
           DEF ReadCursor, QuietThread, Goto, Requested, Chosen, TypeOK,
               PositionType, LocalType, LogInv, HeldFlushed, Attended, InHand
      <3>2. CASE t \notin Movers
        BY <1>1, <3>2, ConstantFacts
           DEF ReadCursor, QuietThread, Goto, TypeOK, PositionType, LocalType,
               LogInv, InHand
      <3>3. QED BY <3>1, <3>2
    <2>4. QED BY <2>1, <2>2, <2>3 DEF Quiet
  <1>2. CASE StaleCursor(t)
    <2>1. /\ Return(t) /\ UNCHANGED <<requests, journal, moved, orphans, ext>>
      BY <1>2 DEF StaleCursor, db, disk
    <2>2. ext <= ext' /\ ext' <= Len(journal')
      BY <2>1 DEF LogInv, TablesAgree, TypeOK, TableType
    <2>3. QED BY <2>1, <2>2, QuietReturn
  <1>3. CASE SyncEvent(t)
    <2>1. /\ UNCHANGED <<requests, journal, moved, orphans>>
          /\ ext' = Len(journal)
      BY <1>3 DEF SyncEvent, AppendEvent, db, disk
    <2>2. ext <= ext' /\ ext' <= Len(journal')
      BY <2>1 DEF LogInv, TablesAgree, TypeOK, TableType
    <2>3. CASE pc[t] = "end"
      BY <1>3, <2>1, <2>2, <2>3, QuietReturn DEF SyncEvent
    <2>4. CASE pc[t] # "end"
      <3>1. /\ unsynced' = [unsynced EXCEPT ![t] = FALSE]
            /\ UNCHANGED <<pc, rid, op, worker>>
        BY <1>3, <2>4 DEF SyncEvent
      <3>2. SameRequests /\ JournalGrows
        BY <2>1, <2>2 DEF SameRequests, JournalGrows, TypeOK, TableType
      <3>3. OthersKept(t)
        BY <3>1 DEF OthersKept, TypeOK, PositionType, Movers, Threads
      <3>4. t \in Movers /\ pc[t] = "dispatch" => Flushed(rid[t])'
        <4>1. SUFFICES ASSUME t \in Movers, pc[t] = "dispatch"
                       PROVE  Flushed(rid[t])'
          OBVIOUS
        <4>2. rid[t] \in 1..Len(requests)
          BY <4>1 DEF LogInv, HeldFlushed, Requested
        <4>3. requests[rid[t]].seq \in 1..Len(journal)
          BY <4>2 DEF LogInv, TablesAgree, Bound
        <4>4. requests[rid[t]].seq <= Len(journal)
          BY <4>3 DEF TypeOK, TableType
        <4>5. QED BY <2>1, <3>1, <4>2, <4>4 DEF Flushed
      <3>5. QuietThread(t)
        BY <3>1, <3>4 DEF QuietThread, LogInv, HeldFlushed, InHand
      <3>6. QED BY <2>1, <3>2, <3>3, <3>5 DEF Quiet
    <2>5. QED BY <2>3, <2>4
  <1>4. CASE SyncFails(t)
    <2>1. /\ Return(t) /\ UNCHANGED <<requests, journal, moved, orphans>>
          /\ ext' = ext \/ ext' = Len(journal)
      BY <1>4 DEF SyncFails, disk
    <2>2. ext <= ext' /\ ext' <= Len(journal')
      BY <2>1 DEF LogInv, TablesAgree, TypeOK, TableType
    <2>3. QED BY <2>1, <2>2, QuietReturn
  <1>5. QED BY <1>1, <1>2, <1>3, <1>4 DEF Journalling

\* A step that leaves journals, requests and effects alone and takes thread t
\* to a label that holds no request.
LEMMA QuietGoto ==
  ASSUME TypeOK, LogInv, NEW t \in Threads, NEW label,
         Goto(t, label), label \notin Chosen \cup {"reconcile"},
         t \in Movers => worker[t] # "working",
         UNCHANGED <<requests, journal, ext, moved, orphans, unsynced, rid, op,
                     worker>>
  PROVE  Quiet(t)
  <1>1. SameRequests /\ JournalGrows
    BY DEF SameRequests, JournalGrows, LogInv, TablesAgree, TypeOK, TableType
  <1>2. OthersKept(t)
    BY DEF OthersKept, Goto, TypeOK, PositionType, Movers, Threads
  <1>3. QuietThread(t)
    BY ConstantFacts
       DEF QuietThread, Goto, Chosen, Requested, TypeOK, PositionType, LogInv,
           InHand
  <1>4. QED BY <1>1, <1>2, <1>3 DEF Quiet

\* A step that leaves journals, requests, effects and threads alone.
LEMMA QuietStutter ==
  ASSUME TypeOK, LogInv,
         UNCHANGED <<requests, journal, ext, moved, orphans, pc, unsynced, rid,
                     op, worker>>
  PROVE  Quiet(Recovery)
  <1>1. SameRequests /\ JournalGrows
    BY DEF SameRequests, JournalGrows, LogInv, TablesAgree, TypeOK, TableType
  <1>2. OthersKept(Recovery) /\ QuietThread(Recovery)
    BY OtherThreads DEF OthersKept, QuietThread, LogInv, InHand
  <1>3. QED BY <1>1, <1>2 DEF Quiet

\* A final event is quiet.
LEMMA QuietFinish ==
  ASSUME TypeOK, LogInv, NEW t \in Threads, NEW newStatus,
         FinishExecution(t, newStatus)
  PROVE  Quiet(t)
  <1>1. /\ PersistEvent(t, "execution_finished", NoOp, 0, "", newStatus, "end")
        /\ UNCHANGED <<requests, rid, op>>
    BY DEF FinishExecution
  <1>2. SameRequests
    BY <1>1 DEF SameRequests
  <1>3. pc' = [pc EXCEPT ![t] = "end"]
    BY <1>1 DEF PersistEvent, Goto
  <1>4. pc'[Recovery] = "reconcile" => rid'[Recovery] >= 1
    BY <1>1, <1>3, ConstantFacts DEF LogInv, InHand, TypeOK, PositionType
  <1>5. QED BY <1>1, <1>2, <1>4, QuietEvent DEF Attended, Requested, Chosen

\* A command of a mover that is about to begin, or is between its operations,
\* has no running worker.
LEMMA NoWorker ==
  ASSUME LogInv, NEW t \in Movers, pc[t] \notin Attended
  PROVE  worker[t] # "working"
  BY DEF LogInv, HeldFlushed

\* A command that returns without touching any table is quiet.
LEMMA QuietRefusal ==
  ASSUME TypeOK, LogInv, NEW t \in Threads, Return(t),
         UNCHANGED <<requests, journal, ext, moved, orphans>>
  PROVE  Quiet(t)
  <1>1. ext <= ext' /\ ext' <= Len(journal')
    BY DEF LogInv, TablesAgree, TypeOK, TableType
  <1>2. QED BY <1>1, QuietReturn

\* Consent commands never disturb the log.
LEMMA QuietConsent ==
  ASSUME TypeOK, LogInv
  PROVE  /\ IssueChallenge => Quiet(Recovery)
         /\ \A t \in FinalizeCmds :
              FinalizeAttest(t) \/ FinalizeLocks(t) \/ FinalizeSteps(t)
                => Quiet(t)
  <1>1. ASSUME IssueChallenge PROVE Quiet(Recovery)
    BY <1>1, QuietStutter DEF IssueChallenge, disk, local
  <1>2. ASSUME NEW t \in FinalizeCmds,
               FinalizeAttest(t) \/ FinalizeLocks(t) \/ FinalizeSteps(t)
        PROVE  Quiet(t)
    <2>0. t \in Threads /\ t \notin Movers /\ t # Recovery
      BY ConstantFacts, OtherThreads
    <2>1. CASE FinalizeAttest(t)
      BY <2>0, <2>1, QuietGoto
         DEF FinalizeAttest, disk, Chosen, Requested
    <2>2. CASE FinalizeLocks(t)
      BY <2>0, <2>2, QuietRefusal DEF FinalizeLocks, LockOn, db, disk
    <2>3. CASE FinalizeRead(t)
      BY <2>0, <2>3, QuietGoto, QuietRefusal
         DEF FinalizeRead, db, disk, Chosen, Requested
    <2>4. CASE FinalizeApprove(t)
      <3>1. /\ PersistEvent(t, "approved_durable", NoOp, 0, "", "approved",
                            "end")
            /\ UNCHANGED <<requests, rid, op>>
        BY <2>4 DEF FinalizeApprove
      <3>2. pc'[Recovery] = "reconcile" => rid'[Recovery] >= 1
        BY <2>0, <3>1, ConstantFacts
           DEF PersistEvent, Goto, LogInv, InHand, TypeOK, PositionType
      <3>3. QED BY <2>0, <3>1, <3>2, QuietEvent DEF SameRequests
    <2>5. QED BY <1>2, <2>1, <2>2, <2>3, <2>4 DEF FinalizeSteps
  <1>3. QED BY <1>1, <1>2

LEMMA QuietBegin ==
  ASSUME TypeOK, LogInv
  PROVE  /\ \A t \in StartCmds :
              StartBegin(t) \/ StartLocks(t) \/ StartConsume(t) => Quiet(t)
         /\ \A t \in StartCmds : StartLapses(t) => Quiet(Recovery)
         /\ \A t \in RollbackCmds :
              RollbackBegin(t) \/ RollbackLocks(t) => Quiet(t)
  <1>1. ASSUME NEW t \in StartCmds,
               StartBegin(t) \/ StartLocks(t) \/ StartConsume(t)
        PROVE  Quiet(t)
    <2>0. t \in Threads /\ t \in Movers
      BY ConstantFacts
    <2>1. CASE StartBegin(t)
      BY <2>0, <2>1, QuietGoto, NoWorker
         DEF StartBegin, MayCall, db, disk, Chosen, Requested, Attended
    <2>2. CASE StartLocks(t)
      BY <2>0, <2>2, QuietRefusal DEF StartLocks, LockOn, db, disk
    <2>3. CASE StartConsume(t)
      BY <2>0, <2>3, QuietGoto, QuietRefusal, NoWorker
         DEF StartConsume, disk, Chosen, Requested, Attended
    <2>4. QED BY <1>1, <2>1, <2>2, <2>3
  <1>2. ASSUME NEW t \in StartCmds, StartLapses(t) PROVE Quiet(Recovery)
    BY <1>2, QuietStutter DEF StartLapses, disk, local
  <1>3. ASSUME NEW t \in RollbackCmds, RollbackBegin(t) \/ RollbackLocks(t)
        PROVE  Quiet(t)
    <2>0. t \in Threads /\ t \in Movers
      BY ConstantFacts
    <2>1. CASE RollbackBegin(t)
      BY <2>0, <2>1, QuietGoto, NoWorker
         DEF RollbackBegin, MayCall, db, disk, Chosen, Requested, Attended
    <2>2. CASE RollbackLocks(t)
      BY <2>0, <2>2, QuietRefusal DEF RollbackLocks, LockOn, db, disk
    <2>3. QED BY <1>3, <2>1, <2>2
  <1>4. QED BY <1>1, <1>2, <1>3

LEMMA QuietControl ==
  ASSUME TypeOK, LogInv
  PROVE  /\ RequestPause \/ RequestCancel => Quiet(Recovery)
         /\ \A o \in Ops : UserChange(o) => Quiet(Recovery)
         /\ \A t \in CancelCmds :
              CancelBegin(t) \/ CancelLocks(t) \/ CancelSteps(t) => Quiet(t)
  <1>1. ASSUME RequestPause \/ RequestCancel PROVE Quiet(Recovery)
    BY <1>1, QuietStutter DEF RequestPause, RequestCancel, disk, local
  <1>2. ASSUME NEW o \in Ops, UserChange(o) PROVE Quiet(Recovery)
    BY <1>2, QuietStutter DEF UserChange, db, local
  <1>3. ASSUME NEW t \in CancelCmds,
               CancelBegin(t) \/ CancelLocks(t) \/ CancelSteps(t)
        PROVE  Quiet(t)
    <2>0. t \in Threads /\ t \notin Movers /\ t # Recovery
      BY ConstantFacts, OtherThreads
    <2>1. CASE CancelBegin(t)
      BY <2>0, <2>1, QuietGoto
         DEF CancelBegin, db, disk, Chosen, Requested
    <2>2. CASE CancelLocks(t)
      BY <2>0, <2>2, QuietRefusal DEF CancelLocks, LockOn, db, disk
    <2>3. CASE CancelInvalidate(t)
      <3>1. UNCHANGED <<requests, journal, ext, moved, orphans>>
        BY <2>3 DEF CancelInvalidate, disk
      <3>2. \/ Return(t)
            \/ /\ UNCHANGED <<unsynced, op, rid, worker>>
               /\ Goto(t, IF pc[t] = "withdraw" THEN "unstarted" ELSE "cursor")
        BY <2>3 DEF CancelInvalidate
      <3>3. CASE Return(t)
        BY <2>0, <3>1, <3>3, QuietRefusal
      <3>4. CASE /\ UNCHANGED <<unsynced, op, rid, worker>>
                 /\ Goto(t, IF pc[t] = "withdraw" THEN "unstarted"
                            ELSE "cursor")
        BY <2>0, <3>1, <3>4, QuietGoto DEF Chosen, Requested
      <3>5. QED BY <3>2, <3>3, <3>4
    <2>4. CASE CancelUnstarted(t)
      BY <2>0, <2>4, QuietRefusal DEF CancelUnstarted, disk
    <2>5. CASE CancelFinish(t)
      BY <2>0, <2>5, QuietFinish DEF CancelFinish
    <2>6. QED BY <1>3, <2>1, <2>2, <2>3, <2>4, <2>5 DEF CancelSteps
  <1>4. QED BY <1>1, <1>2, <1>3

\* An event of the loop that names no request is quiet.
LEMMA QuietLoopEvent ==
  ASSUME TypeOK, LogInv, NEW t \in Movers, NEW kind, NEW o, NEW newOp,
         NEW newStatus, NEW next,
         PersistEvent(t, kind, o, 0, newOp, newStatus, next),
         UNCHANGED <<requests, rid>>,
         \A u \in Movers \ {t} : op'[u] = op[u],
         next \notin Requested,
         next = "intent" => op'[t] \in Ops,
         next = "end" \/ pc[t] \notin Attended
  PROVE  Quiet(t)
  <1>0. t \in Threads /\ t # Recovery
    BY ConstantFacts, OtherThreads
  <1>1. SameRequests
    BY DEF SameRequests
  <1>2. pc'[Recovery] = "reconcile" => rid'[Recovery] >= 1
    BY <1>0, ConstantFacts
       DEF PersistEvent, Goto, LogInv, InHand, TypeOK, PositionType
  <1>3. worker[t] = "working" => next \in Attended
    BY NoWorker DEF Attended
  <1>4. QED
    BY <1>0, <1>1, <1>2, <1>3, QuietEvent DEF Requested, Chosen

LEMMA QuietRefuse ==
  ASSUME TypeOK, LogInv, NEW t \in Movers, NEW o, Refuse(t, o),
         pc[t] \notin Attended
  PROVE  Quiet(t)
  BY QuietLoopEvent DEF Refuse, Requested

LEMMA QuietLoop ==
  ASSUME TypeOK, LogInv, NEW t \in Movers,
         \/ LoopFinish(t) \/ LoopStop(t) \/ LoopRefuse(t) \/ LoopValidate(t)
         \/ MarkAmbiguousOutcome(t) \/ RefuseAfterRequest(t)
         \/ FinishRefused(t)
  PROVE  Quiet(t)
  <1>0. t \in Threads
    BY ConstantFacts
  <1>1. CASE LoopFinish(t) \/ LoopStop(t) \/ FinishRefused(t)
    BY <1>0, <1>1, QuietFinish DEF LoopFinish, LoopStop, FinishRefused
  <1>2. CASE LoopRefuse(t)
    BY <1>2, QuietRefuse DEF LoopRefuse, Attended
  <1>3. CASE LoopValidate(t)
    <2>1. PICK o \in todo[t] :
            /\ PersistEvent(t, "preconditions_validated", o, 0,
                 IF Dir(t) = "forward" THEN "preflight_ok" ELSE seen[t][o],
                 RunningSession(t), "intent")
            /\ op' = [op EXCEPT ![t] = o]
      BY <1>3 DEF LoopValidate
    <2>2. o \in Ops
      BY <1>0, <2>1 DEF TypeOK, LocalType
    <2>3. op'[t] \in Ops /\ \A u \in Movers \ {t} : op'[u] = op[u]
      BY <1>0, <2>1, <2>2, ConstantFacts DEF TypeOK, LocalType
    <2>4. UNCHANGED <<requests, rid>> /\ pc[t] \notin Attended
      BY <1>3 DEF LoopValidate, Attended
    <2>5. QED BY <2>1, <2>3, <2>4, QuietLoopEvent DEF Requested
  <1>4. CASE MarkAmbiguousOutcome(t)
    BY <1>4, QuietLoopEvent DEF MarkAmbiguousOutcome, Requested
  <1>5. CASE RefuseAfterRequest(t)
    BY <1>5, QuietRefuse DEF RefuseAfterRequest, Attended
  <1>6. QED BY <1>1, <1>2, <1>3, <1>4, <1>5

\* A request transition is quiet unless it would start a worker.
LEMMA QuietTransition ==
  ASSUME TypeOK, LogInv, NEW t \in Movers, NEW state \in RequestStates,
         NEW label, Transition(t, state, label),
         label \in Requested \ {"dispatch"}, pc[t] \in Requested,
         \A u \in Movers \ {t} : worker'[u] = worker[u],
         worker'[t] = "working" => worker[t] = "working" /\ label \in Attended
  PROVE  Quiet(t)
  <1>0. t \in Threads /\ t # Recovery
    BY ConstantFacts, OtherThreads
  <1>1. /\ SetRequest(rid[t], state)
        /\ Goto(t, label)
        /\ UNCHANGED <<journal, ext, moved, unsynced, op, rid, orphans>>
    BY DEF Transition, disk
  <1>2. SameRequests
    BY <1>1, SetRequestFacts DEF SameRequests, TypeOK, TableType
  <1>3. JournalGrows
    BY <1>1 DEF JournalGrows, LogInv, TablesAgree, TypeOK, TableType
  <1>4. pc' = [pc EXCEPT ![t] = label] /\ pc \in [Threads -> Labels]
    BY <1>1 DEF Goto, TypeOK, PositionType
  <1>5. OthersKept(t)
    BY <1>0, <1>1, <1>4, ConstantFacts DEF OthersKept
  <1>6. op[t] \in Ops
    BY DEF LogInv, InHand, Chosen
  <1>7. QuietThread(t)
    BY <1>0, <1>1, <1>4, <1>6, ConstantFacts DEF QuietThread, LogInv, InHand
  <1>8. QED BY <1>1, <1>2, <1>3, <1>5, <1>7 DEF Quiet

LEMMA QuietTransitionRefused ==
  ASSUME TypeOK, LogInv, NEW t \in Movers, NEW state,
         TransitionRefused(t, state)
  PROVE  Quiet(t)
  BY QuietRefusal, ConstantFacts DEF TransitionRefused, db, disk

\* What follows the worker's answer, and every refusal, is quiet.
LEMMA QuietOutcome ==
  ASSUME TypeOK, LogInv, NEW t \in Movers,
         \/ DispatchRefused(t) \/ Receive(t) \/ DispatchFails(t)
         \/ CheckNotApplied(t) \/ VerifyFails(t) \/ IntentRefused(t)
         \/ ObserveRefused(t) \/ OpenSessionFails(t)
  PROVE  Quiet(t)
  <1>0. t \in Threads
    BY ConstantFacts
  <1>s. /\ {"proven_not_started", "recovery_required"} \subseteq RequestStates
        /\ \A r : ResponseState(r) \in RequestStates
        /\ \A r : AfterResponse(r) \in Requested \ {"dispatch"}
    BY DEF RequestStates, ResponseState, AfterResponse, Requested
  <1>w. worker \in [Threads -> {"none", "working", "gone"} \cup Replies]
    BY DEF TypeOK, LocalType
  <1>1. CASE DispatchRefused(t)
    <2>1. pc[t] = "dispatch" /\ worker[t] # "working"
      BY <1>1, NoWorker DEF DispatchRefused, AtDispatch, Attended
    <2>2. CASE TransitionRefused(t, "proven_not_started")
      BY <2>2, QuietTransitionRefused
    <2>3. CASE Transition(t, "proven_not_started", "refuse") /\ worker' = worker
      BY <1>s, <2>1, <2>3, QuietTransition DEF Requested
    <2>4. QED BY <1>1, <2>2, <2>3 DEF DispatchRefused
  <1>2. CASE Receive(t)
    <2>1. pc[t] = "wait"
      BY <1>2 DEF Receive
    <2>2. CASE TransitionRefused(t, ResponseState(worker[t]))
      BY <2>2, QuietTransitionRefused
    <2>3. CASE /\ Transition(t, ResponseState(worker[t]),
                             AfterResponse(worker[t]))
               /\ worker' = [worker EXCEPT ![t] = "none"]
      <3>1. /\ worker'[t] # "working"
            /\ \A u \in Movers \ {t} : worker'[u] = worker[u]
        BY <1>0, <1>w, <2>3, ConstantFacts
      <3>2. PICK s, l : s = ResponseState(worker[t])
                        /\ l = AfterResponse(worker[t])
        OBVIOUS
      <3>3. s \in RequestStates /\ l \in Requested \ {"dispatch"}
            /\ Transition(t, s, l)
        BY <1>s, <2>3, <3>2
      <3>4. QED BY <2>1, <3>1, <3>3, QuietTransition DEF Requested
    <2>4. QED BY <1>2, <2>2, <2>3 DEF Receive
  <1>3. CASE DispatchFails(t)
    <2>1. pc[t] = "wait"
      BY <1>3 DEF DispatchFails
    <2>2. CASE TransitionRefused(t, "recovery_required")
      BY <2>2, QuietTransitionRefused
    <2>3. CASE Transition(t, "recovery_required", "mark")
               /\ (worker' = worker \/ worker' = [worker EXCEPT ![t] = "gone"])
      <3>1. /\ worker'[t] = "working" => worker[t] = "working"
            /\ \A u \in Movers \ {t} : worker'[u] = worker[u]
        BY <1>0, <1>w, <2>3, ConstantFacts
      <3>2. QED
        BY <1>s, <2>1, <2>3, <3>1, QuietTransition DEF Requested, Attended
    <2>4. QED BY <1>3, <2>2, <2>3 DEF DispatchFails
  <1>4. CASE CheckNotApplied(t)
    <2>1. pc[t] = "contradict" /\ worker[t] # "working"
      BY <1>4, NoWorker DEF CheckNotApplied, Attended
    <2>2. PICK state \in {"proven_not_started", "recovery_required"},
               label \in {"refuse", "mark"} :
            \/ Transition(t, state, label) /\ worker' = worker
            \/ TransitionRefused(t, state)
      BY <1>4 DEF CheckNotApplied
    <2>3. CASE TransitionRefused(t, state)
      BY <2>3, QuietTransitionRefused
    <2>4. CASE Transition(t, state, label) /\ worker' = worker
      BY <1>s, <2>1, <2>4, QuietTransition DEF Requested
    <2>5. QED BY <2>2, <2>3, <2>4
  <1>5. CASE VerifyFails(t)
    <2>1. pc[t] = "verify" /\ worker[t] # "working"
      BY <1>5, NoWorker DEF VerifyFails, Attended
    <2>2. CASE TransitionRefused(t, "recovery_required")
      BY <2>2, QuietTransitionRefused
    <2>3. CASE Transition(t, "recovery_required", "mark") /\ worker' = worker
      BY <1>s, <2>1, <2>3, QuietTransition DEF Requested
    <2>4. QED BY <1>5, <2>2, <2>3 DEF VerifyFails
  <1>6. CASE IntentRefused(t) \/ ObserveRefused(t) \/ OpenSessionFails(t)
    BY <1>0, <1>6, QuietRefusal
       DEF IntentRefused, ObserveRefused, OpenSessionFails, db, disk
  <1>7. QED BY <1>1, <1>2, <1>3, <1>4, <1>5, <1>6

\* Observing the postcondition lets the request go.
LEMMA QuietObserve ==
  ASSUME TypeOK, LogInv, NEW t \in Movers, Observe(t)
  PROVE  Quiet(t)
  <1>0. t \in Threads /\ t # Recovery
    BY ConstantFacts, OtherThreads
  <1>1. PICK kind, newOp, newStatus :
          PersistEvent(t, kind, op[t], 0, newOp, newStatus, "next")
    BY DEF Observe
  <1>2. /\ SetRequest(rid[t], "proven_applied")
        /\ pc[t] = "verify"
        /\ op' = [op EXCEPT ![t] = NoOp]
        /\ rid' = [rid EXCEPT ![t] = 0]
    BY DEF Observe
  <1>3. SameRequests
    BY <1>2, SetRequestFacts DEF SameRequests, RequestStates, TypeOK, TableType
  <1>4. /\ \A u \in Movers \ {t} : rid'[u] = rid[u] /\ op'[u] = op[u]
        /\ rid'[Recovery] = rid[Recovery]
    BY <1>0, <1>2, ConstantFacts DEF TypeOK, LocalType
  <1>5. worker[t] # "working"
    BY <1>2, NoWorker DEF Attended
  <1>6. pc'[Recovery] = "reconcile" => rid'[Recovery] >= 1
    BY <1>0, <1>1, <1>4, ConstantFacts
       DEF PersistEvent, Goto, LogInv, InHand, TypeOK, PositionType
  <1>7. "next" \notin Chosen /\ "next" \notin Requested
    BY DEF Chosen, Requested
  <1>8. QED BY <1>0, <1>1, <1>3, <1>4, <1>5, <1>6, <1>7, QuietEvent

\* A worker that declines and a worker left behind that dies.
LEMMA QuietWorker ==
  ASSUME TypeOK, LogInv, NEW t \in Movers, WorkerDeclines(t)
  PROVE  Quiet(t)
  <1>0. t \in Threads /\ t # Recovery
    BY ConstantFacts, OtherThreads
  <1>1. UNCHANGED <<requests, journal, ext, moved, orphans, pc, unsynced, rid,
                    op>>
    BY DEF WorkerDeclines, db, disk
  <1>2. PICK reply \in {"not_applied", "refused", "ambiguous", "gone"} :
          worker' = [worker EXCEPT ![t] = reply]
    BY DEF WorkerDeclines, Answer
  <1>3. /\ worker'[t] # "working"
        /\ \A u \in Movers \ {t} : worker'[u] = worker[u]
    BY <1>0, <1>2, ConstantFacts DEF TypeOK, LocalType
  <1>4. SameRequests /\ JournalGrows
    BY <1>1 DEF SameRequests, JournalGrows, LogInv, TablesAgree, TypeOK,
                TableType
  <1>5. OthersKept(t)
    BY <1>1, <1>3 DEF OthersKept
  <1>6. QuietThread(t)
    <2>1. pc[t] # "dispatch"
      BY DEF WorkerDeclines, LogInv, HeldFlushed, Attended
    <2>2. QED BY <1>1, <1>3, <2>1 DEF QuietThread, LogInv, InHand
  <1>7. QED BY <1>1, <1>4, <1>5, <1>6 DEF Quiet

\* Recovery sends nothing, whatever it concludes.
LEMMA QuietRecovery ==
  ASSUME TypeOK, LogInv, RecoverBegin \/ RecoverLocks \/ RecoverySteps
  PROVE  Quiet(Recovery)
  <1>0. Recovery \in Threads /\ Recovery \notin Movers
    BY ConstantFacts, OtherThreads
  <1>1. CASE RecoverBegin
    BY <1>0, <1>1, QuietGoto
       DEF RecoverBegin, db, disk, Chosen, Requested
  <1>2. CASE RecoverLocks
    BY <1>0, <1>2, QuietRefusal DEF RecoverLocks, LockOn, db, disk
  <1>3. ASSUME NextFact, pc[Recovery] = "reconcile"
        PROVE  /\ rid'[Recovery] >= 1
               /\ \A u \in Movers : rid'[u] = rid[u]
    <2>1. rid[Recovery] \in Nat /\ rid' = [rid EXCEPT ![Recovery] = @ + 1]
      BY <1>0, <1>3 DEF NextFact, TypeOK, LocalType
    <2>2. rid'[Recovery] = rid[Recovery] + 1
      BY <1>0, <2>1 DEF TypeOK, LocalType
    <2>3. QED BY <1>0, <2>1, <2>2, ConstantFacts DEF TypeOK, LocalType
  <1>4. CASE ReconcileSettled
    <2>1. UNCHANGED <<requests, journal, ext, moved, orphans, pc, unsynced, op,
                      worker>>
      BY <1>4 DEF ReconcileSettled, db, disk
    <2>2. SameRequests /\ JournalGrows
      BY <2>1 DEF SameRequests, JournalGrows, LogInv, TablesAgree, TypeOK,
                  TableType
    <2>3. OthersKept(Recovery) /\ QuietThread(Recovery)
      BY <1>0, <1>3, <1>4, <2>1
         DEF OthersKept, QuietThread, ReconcileSettled, AtFact
    <2>4. QED BY <2>1, <2>2, <2>3 DEF Quiet
  <1>5. CASE ReconcileRequest
    <2>1. PICK v : v = Verdict(Fact)
      OBVIOUS
    <2>2. v \in RequestStates
      BY <2>1 DEF Verdict, RequestStates
    <2>3. SetRequest(rid[Recovery], v) /\ NextFact /\ op' = op
          /\ pc[Recovery] = "reconcile"
      BY <1>5, <2>1 DEF ReconcileRequest, AtFact
    <2>4. SameRequests
      BY <2>2, <2>3, SetRequestFacts DEF SameRequests, TypeOK, TableType
    <2>5. PICK kind, o, newOp, newStatus :
            PersistEvent(Recovery, kind, o, rid[Recovery], newOp, newStatus,
                         "reconcile")
      BY <1>5 DEF ReconcileRequest
    <2>6. QED BY <1>0, <1>3, <2>3, <2>4, <2>5, QuietEvent
  <1>6. CASE ReconcileRefused \/ Assess
    BY <1>0, <1>6, QuietRefusal DEF ReconcileRefused, Assess, db, disk
  <1>7. QED BY <1>1, <1>2, <1>4, <1>5, <1>6 DEF RecoverySteps

-----------------------------------------------------------------------------
(* The steps that are not quiet *)

\* A new intent creates a request nobody holds and nobody has performed.
LEMMA IntentKeepsLog ==
  ASSUME TypeOK, TypeOK', LogInv, NEW t \in Movers, Intent(t)
  PROVE  LogInv'
  <1> USE DEF LogInv
  <1>0. t \in Threads /\ t # Recovery
    BY ConstantFacts, OtherThreads
  <1>a. /\ pc[t] = "intent" /\ worker[t] # "working"
        /\ op[t] \in Ops
    BY NoWorker DEF Intent, Attended, InHand, Chosen
  <1>b. PICK ev \in Events :
          /\ ev = [kind |-> IF Dir(t) = "forward" THEN "intent_durable"
                            ELSE "rollback_intent",
                   op |-> op[t], req |-> Len(requests) + 1]
          /\ journal' = Append(journal, ev)
    BY SMTT(20), <1>a DEF Intent, PersistEvent, Events, EventKinds, TypeOK, TableType
  <1>c. PICK row \in Requests :
          /\ row = [op |-> op[t], dir |-> Dir(t), seq |-> Len(journal) + 1,
                    state |-> "intent_durable"]
          /\ requests' = Append(requests, row)
    BY SMTT(20), <1>a DEF Intent, Requests, RequestStates, Directions, Dir, TypeOK,
                TableType
  <1>d. /\ requests \in Seq(Requests) /\ journal \in Seq(Events)
        /\ Len(requests) \in Nat /\ Len(journal) \in Nat
        /\ ext \in Nat
    BY DEF TypeOK, TableType
  <1>e. /\ Len(requests') = Len(requests) + 1
        /\ \A i \in 1..Len(requests) : requests'[i] = requests[i]
        /\ requests'[Len(requests) + 1] = row
    BY <1>c, <1>d
  <1>f. /\ Len(journal') = Len(journal) + 1
        /\ \A i \in 1..Len(journal) : journal'[i] = journal[i]
        /\ journal'[Len(journal) + 1] = ev
    BY <1>b, <1>d
  <1>g. /\ pc' = [pc EXCEPT ![t] = "dispatch"]
        /\ unsynced' = [unsynced EXCEPT ![t] = TRUE]
        /\ rid' = [rid EXCEPT ![t] = Len(requests) + 1]
        /\ UNCHANGED <<op, worker, ext, moved, orphans>>
    BY DEF Intent, PersistEvent, Goto, disk
  <1>h. /\ pc'[t] = "dispatch" /\ unsynced'[t]
        /\ rid'[t] = Len(requests) + 1
        /\ \A u \in Threads \ {t} : /\ pc'[u] = pc[u] /\ rid'[u] = rid[u]
                                    /\ unsynced'[u] = unsynced[u]
    BY <1>0, <1>g DEF TypeOK, PositionType, LocalType
  <1>i. \A i : Flushed(i) => i \in 1..Len(requests) /\ Flushed(i)'
    BY <1>d, <1>e, <1>g DEF Flushed
  <1>1. InHand'
    BY <1>0, <1>a, <1>g, <1>h, ConstantFacts DEF InHand
  <1>2. TablesAgree'
    <2>1. ASSUME NEW i \in 1..Len(requests)
          PROVE  Bound(i, requests[i])'
      <3>1. Bound(i, requests[i]) /\ requests'[i] = requests[i]
        BY <1>e DEF TablesAgree
      <3>2. /\ requests[i].seq \in 1..Len(journal)
            /\ journal'[requests[i].seq] = journal[requests[i].seq]
        BY <1>f, <3>1 DEF Bound
      <3>3. requests[i].seq \in 1..Len(journal')
        BY <1>d, <1>f, <3>2
      <3>4. QED BY <3>1, <3>2, <3>3 DEF Bound
    <2>2. Bound(Len(requests), requests[Len(requests)])'
      <3>1. /\ row.seq = Len(journal) + 1 /\ row.dir = Dir(t)
            /\ row.op = op[t]
        BY <1>c
      <3>2. row.seq \in 1..Len(journal')
        BY <1>d, <1>f, <3>1
      <3>3. Len(requests') = Len(requests) + 1 /\ requests'[Len(requests')] = row
        BY <1>e
      <3>4. journal'[row.seq] =
              [kind |-> IF row.dir = "forward" THEN "intent_durable"
                        ELSE "rollback_intent",
               op |-> row.op, req |-> Len(requests')]
        BY <1>b, <1>f, <3>1, <3>3
      <3>5. QED BY <3>2, <3>3, <3>4 DEF Bound
    <2>3. ASSUME NEW i \in 1..Len(requests')
          PROVE  Bound(i, requests[i])'
      <3>1. i \in 1..Len(requests) \/ i = Len(requests')
        BY <1>d, <1>e
      <3>2. QED BY <2>1, <2>2, <3>1
    <2>4. ext' <= Len(journal')
      BY <1>d, <1>f, <1>g DEF TablesAgree
    <2>5. QED BY <2>3, <2>4 DEF TablesAgree
  <1>3. HeldFlushed'
    <2>1. ASSUME NEW u \in Movers
          PROVE  /\ pc'[u] \in Requested => rid'[u] \in 1..Len(requests')
                 /\ pc'[u] = "dispatch" /\ ~unsynced'[u] => Flushed(rid[u])'
                 /\ worker'[u] = "working" =>
                      pc'[u] \in Attended /\ Flushed(rid[u])'
      <3>1. CASE u = t
        BY <1>a, <1>d, <1>e, <1>g, <1>h, <3>1
      <3>2. CASE u # t
        <4>1. /\ pc'[u] = pc[u] /\ rid'[u] = rid[u]
              /\ unsynced'[u] = unsynced[u] /\ worker'[u] = worker[u]
          BY <1>g, <1>h, <3>2, ConstantFacts
        <4>2. pc[u] \in Requested => rid[u] \in 1..Len(requests')
          BY <1>d, <1>e DEF HeldFlushed
        <4>3. Flushed(rid[u]) => Flushed(rid[u])'
          BY <1>i, <4>1 DEF Flushed
        <4>4. QED BY <4>1, <4>2, <4>3 DEF HeldFlushed
      <3>3. QED BY <3>1, <3>2
    <2>2. QED BY <2>1 DEF HeldFlushed
  <1>4. HeldOnce'
    <2>1. \A u \in Movers \ {t} : Holds(u)' =>
            /\ Holds(u) /\ rid'[u] = rid[u]
            /\ rid[u] \in 1..Len(requests)
      BY <1>g, <1>h, ConstantFacts DEF Holds, HeldFlushed, Requested, Flushed
    <2>2. rid'[t] \notin moved' \cup orphans'
      BY <1>d, <1>g, <1>h DEF EffectsFlushed, Flushed
    <2>3. \A u \in Movers \ {t} : Holds(u)' => rid'[u] # rid'[t]
      BY <1>d, <1>h, <2>1
    <2>4. QED BY <1>g, <2>1, <2>2, <2>3 DEF HeldOnce
  <1>5. EffectsFlushed'
    BY <1>g, <1>i DEF EffectsFlushed
  <1>6. QED BY <1>1, <1>2, <1>3, <1>4, <1>5

\* With both journals and the requests as they were, what was flushed and bound
\* stays so.
LEMMA TablesKept ==
  ASSUME TablesAgree, UNCHANGED <<requests, journal, ext>>
  PROVE  TablesAgree' /\ \A i : Flushed(i) => Flushed(i)'
  BY DEF TablesAgree, Bound, Flushed

\* The worker gets a request whose intent is in both journals.
LEMMA DispatchKeepsLog ==
  ASSUME TypeOK, LogInv, NEW t \in Movers, Dispatch(t)
  PROVE  LogInv'
  <1> USE DEF LogInv
  <1>0. t \in Threads /\ t # Recovery
    BY ConstantFacts, OtherThreads
  <1>1. /\ pc[t] = "dispatch" /\ ~unsynced[t]
        /\ pc' = [pc EXCEPT ![t] = "wait"]
        /\ worker' = [worker EXCEPT ![t] = "working"]
        /\ UNCHANGED <<requests, journal, ext, moved, orphans, unsynced, op,
                       rid>>
    BY DEF Dispatch, AtDispatch, Goto, db, disk
  <1>2. /\ pc'[t] = "wait" /\ worker'[t] = "working"
        /\ \A u \in Threads \ {t} : pc'[u] = pc[u] /\ worker'[u] = worker[u]
    BY <1>0, <1>1 DEF TypeOK, PositionType, LocalType
  <1>3. TablesAgree' /\ \A i : Flushed(i) => Flushed(i)'
    BY <1>1, TablesKept
  <1>4. InHand'
    BY <1>0, <1>1, <1>2, ConstantFacts DEF InHand, Chosen, Requested
  <1>5. HeldFlushed'
    <2>1. ASSUME NEW u \in Movers
          PROVE  /\ pc'[u] \in Requested => rid'[u] \in 1..Len(requests')
                 /\ pc'[u] = "dispatch" /\ ~unsynced'[u] => Flushed(rid[u])'
                 /\ worker'[u] = "working" =>
                      pc'[u] \in Attended /\ Flushed(rid[u])'
      <3>1. CASE u = t
        BY <1>1, <1>2, <1>3, <3>1 DEF HeldFlushed, Requested, Attended
      <3>2. CASE u # t
        BY <1>1, <1>2, <1>3, <3>2, ConstantFacts DEF HeldFlushed
      <3>3. QED BY <3>1, <3>2
    <2>2. QED BY <2>1 DEF HeldFlushed
  <1>6. HeldOnce'
    <2>1. \A u \in Movers : Holds(u)' => Holds(u) /\ rid'[u] = rid[u]
      BY <1>1, <1>2, ConstantFacts DEF Holds
    <2>2. QED BY <1>1, <2>1 DEF HeldOnce
  <1>7. EffectsFlushed'
    BY <1>1, <1>3 DEF EffectsFlushed
  <1>8. QED BY <1>3, <1>4, <1>5, <1>6, <1>7

\* A worker performs the request its command holds.
LEMMA MutationKeepsLog ==
  ASSUME TypeOK, LogInv, NEW t \in Movers, WorkerMutates(t)
  PROVE  /\ LogInv'
         /\ Flushed(rid[t]) /\ rid[t] \notin moved
  <1> USE DEF LogInv
  <1>0. t \in Threads
    BY ConstantFacts
  <1>1. /\ worker[t] = "working"
        /\ moved' = moved \cup {rid[t]}
        /\ UNCHANGED <<requests, journal, ext, orphans, pc, unsynced, op, rid>>
    BY DEF WorkerMutates, db
  <1>2. PICK reply \in {"success", "ambiguous", "gone"} :
          worker' = [worker EXCEPT ![t] = reply]
    BY DEF WorkerMutates, Answer
  <1>3. /\ worker'[t] # "working"
        /\ \A u \in Movers \ {t} : worker'[u] = worker[u]
    BY <1>0, <1>2, ConstantFacts DEF TypeOK, LocalType
  <1>4. TablesAgree' /\ \A i : Flushed(i) => Flushed(i)'
    BY <1>1, TablesKept
  <1>5. /\ pc[t] # "dispatch" /\ Flushed(rid[t])
        /\ rid[t] \notin moved \cup orphans
    BY <1>1 DEF HeldFlushed, HeldOnce, Holds, Attended
  <1>6. InHand'
    BY <1>1 DEF InHand
  <1>7. HeldFlushed'
    BY <1>1, <1>3, <1>4 DEF HeldFlushed
  <1>8. HeldOnce'
    <2>1. \A u \in Movers : Holds(u)' =>
            u # t /\ Holds(u) /\ rid'[u] = rid[u]
      BY <1>1, <1>3, <1>5 DEF Holds
    <2>2. Holds(t)
      BY <1>1 DEF Holds
    <2>3. QED BY <1>1, <2>1, <2>2 DEF HeldOnce
  <1>9. EffectsFlushed'
    BY <1>1, <1>4, <1>5 DEF EffectsFlushed
  <1>10. QED BY <1>4, <1>5, <1>6, <1>7, <1>8, <1>9

\* A worker left behind performs its request, or dies.
LEMMA OrphanKeepsLog ==
  ASSUME TypeOK, LogInv, NEW i \in orphans, OrphanMutates(i) \/ OrphanDies(i)
  PROVE  /\ LogInv'
         /\ Flushed(i) /\ i \notin moved
  <1> USE DEF LogInv
  <1>1. /\ moved' \subseteq moved \cup {i} /\ orphans' = orphans \ {i}
        /\ UNCHANGED <<requests, journal, ext, pc, unsynced, op, rid, worker>>
    BY DEF OrphanMutates, OrphanDies, db, disk, local
  <1>2. TablesAgree' /\ \A j : Flushed(j) => Flushed(j)'
    BY <1>1, TablesKept
  <1>3. InHand' /\ HeldFlushed'
    BY <1>1, <1>2 DEF InHand, HeldFlushed
  <1>4. HeldOnce'
    BY <1>1 DEF HeldOnce, Holds
  <1>5. EffectsFlushed'
    BY <1>1, <1>2 DEF EffectsFlushed
  <1>6. Flushed(i) /\ i \notin moved
    BY DEF EffectsFlushed
  <1>7. QED BY <1>2, <1>3, <1>4, <1>5, <1>6

\* A crash drops every command; what their workers were running stays flushed.
LEMMA CrashKeepsLog ==
  ASSUME TypeOK, LogInv, CrashRestart
  PROVE  LogInv'
  <1> USE DEF LogInv
  <1>1. /\ pc' = [t \in Threads |-> "idle"]
        /\ worker' = [t \in Threads |-> "none"]
        /\ UNCHANGED <<requests, journal, ext, moved>>
    BY DEF CrashRestart, disk
  <1>2. \A i \in orphans' :
          i \in orphans \/ \E t \in Movers : worker[t] = "working" /\ i = rid[t]
    BY DEF CrashRestart
  <1>3. TablesAgree' /\ \A i : Flushed(i) => Flushed(i)'
    BY <1>1, TablesKept
  <1>4. InHand' /\ HeldFlushed' /\ HeldOnce'
    BY <1>1, ConstantFacts
       DEF InHand, HeldFlushed, HeldOnce, Holds, Chosen, Requested
  <1>5. \A i \in orphans' : Flushed(i) /\ i \notin moved
    BY <1>2 DEF HeldFlushed, HeldOnce, Holds, EffectsFlushed
  <1>6. EffectsFlushed'
    BY <1>1, <1>3, <1>5 DEF EffectsFlushed
  <1>7. QED BY <1>3, <1>4, <1>6

\* Every step of the coordinator is quiet or one of the six above.
LEMMA StepKinds ==
  ASSUME TypeOK, LogInv, Next
  PROVE  \/ \E t \in Threads : Quiet(t)
         \/ \E t \in Movers : Intent(t) \/ Dispatch(t) \/ WorkerMutates(t)
         \/ \E i \in orphans : OrphanMutates(i) \/ OrphanDies(i)
         \/ CrashRestart
  <1>1. CASE \E t \in Threads : Journalling(t)
    BY <1>1, QuietJournalling
  <1>2. CASE \/ IssueChallenge
             \/ \E t \in FinalizeCmds :
                  FinalizeAttest(t) \/ FinalizeLocks(t) \/ FinalizeSteps(t)
    BY <1>2, QuietConsent, ConstantFacts
  <1>3. CASE \E t \in StartCmds : \/ StartBegin(t) \/ StartLocks(t)
                                  \/ StartLapses(t) \/ StartConsume(t)
    <2>1. PICK t \in StartCmds : \/ StartBegin(t) \/ StartLocks(t)
                                 \/ StartLapses(t) \/ StartConsume(t)
      BY <1>3
    <2>2. Quiet(t) \/ Quiet(Recovery)
      BY <2>1, QuietBegin
    <2>3. QED BY <2>2, ConstantFacts
  <1>4. CASE \E t \in RollbackCmds : RollbackBegin(t) \/ RollbackLocks(t)
    BY <1>4, QuietBegin, ConstantFacts
  <1>5. CASE \E t \in Movers : MoveSteps(t)
    <2>1. PICK t \in Movers : MoveSteps(t)
      BY <1>5
    <2>2. CASE Intent(t) \/ Dispatch(t)
      BY <2>2
    <2>3. CASE ~(Intent(t) \/ Dispatch(t))
      <3>1. Quiet(t)
        BY <2>1, <2>3, QuietLoop, QuietOutcome, QuietObserve DEF MoveSteps
      <3>2. QED BY <3>1, ConstantFacts
    <2>4. QED BY <2>2, <2>3
  <1>6. CASE \E t \in Movers : WorkerSteps(t)
    <2>1. PICK t \in Movers : WorkerMutates(t) \/ WorkerDeclines(t)
      BY <1>6 DEF WorkerSteps
    <2>2. QED BY <2>1, QuietWorker, ConstantFacts
  <1>7. CASE \/ \E t \in CancelCmds :
                  CancelBegin(t) \/ CancelLocks(t) \/ CancelSteps(t)
             \/ RequestPause \/ RequestCancel
             \/ \E o \in Ops : UserChange(o)
    BY <1>7, QuietControl, ConstantFacts
  <1>8. CASE RecoverBegin \/ RecoverLocks \/ RecoverySteps
    BY <1>8, QuietRecovery, ConstantFacts
  <1>9. QED
    BY <1>1, <1>2, <1>3, <1>4, <1>5, <1>6, <1>7, <1>8 DEF Next

LEMMA LogInit ==
  Init => LogInv
  <1> SUFFICES ASSUME Init PROVE LogInv
    OBVIOUS
  <1>1. InHand
    BY TypeInit
  <1>2. TablesAgree /\ HeldFlushed /\ HeldOnce /\ EffectsFlushed
    BY ConstantFacts
       DEF Init, TablesAgree, HeldFlushed, HeldOnce, Holds, EffectsFlushed,
           Requested, Attended
  <1>3. QED BY <1>1, <1>2 DEF LogInv

LEMMA LogStep ==
  ASSUME TypeOK, LogInv, [Next]_vars
  PROVE  TypeOK' /\ LogInv'
  <1>1. CASE Next
    <2>1. TypeOK'
      BY <1>1, TypeStep DEF LogInv
    <2>2. CASE \E t \in Threads : Quiet(t)
      BY <2>1, <2>2, QuietKeepsLog
    <2>3. CASE \E t \in Movers : Intent(t) \/ Dispatch(t) \/ WorkerMutates(t)
      BY <2>1, <2>3, IntentKeepsLog, DispatchKeepsLog, MutationKeepsLog
    <2>4. CASE \E i \in orphans : OrphanMutates(i) \/ OrphanDies(i)
      BY <2>1, <2>4, OrphanKeepsLog
    <2>5. CASE CrashRestart
      BY <2>1, <2>5, CrashKeepsLog
    <2>6. QED BY <1>1, <2>1, <2>2, <2>3, <2>4, <2>5, StepKinds
  <1>2. CASE UNCHANGED vars
    <2>1. TypeOK'
      BY <1>2 DEF TypeOK, SessionType, TableType, DiskType, PositionType,
                  LocalType, BoundType, vars, db, session, disk, local, bounds
    <2>2. Quiet(Recovery)
      BY <1>2, QuietStutter DEF vars, db, disk, local
    <2>3. QED BY <2>1, <2>2, QuietKeepsLog
  <1>3. QED BY <1>1, <1>2

-----------------------------------------------------------------------------
(* The theorems *)

\* Whatever the number of operations, commands, crashes and faults, every
\* variable keeps its type: no command, recovery or restart of
\* crates/application/src/execution.rs stores a status of another enumeration.
THEOREM TypeCorrect == Spec => []TypeOK
  <1>1. Init => TypeOK /\ LogInv
    BY TypeInit, LogInit
  <1>2. TypeOK /\ LogInv /\ [Next]_vars => (TypeOK /\ LogInv)'
    BY LogStep
  <1>3. QED BY <1>1, <1>2, PTL DEF Spec

\* The coordinator never lets the disk change before the intent event of exactly
\* that request is in the database and in the external journal, for any number
\* of racing commands, crashes, faults and late workers (persist_request_intent
\* before dispatch).
THEOREM IntentFirst == Spec => []IntentBeforeMutation
  <1>1. Init => TypeOK /\ LogInv
    BY TypeInit, LogInit
  <1>2. TypeOK /\ LogInv /\ [Next]_vars => (TypeOK /\ LogInv)'
    BY LogStep
  <1>3. TypeOK /\ LogInv => IntentBeforeMutation
    <2>1. ASSUME TablesAgree, NEW i, Flushed(i) PROVE IntentOnBothJournals(i)
      BY <2>1 DEF TablesAgree, Flushed, IntentOnBothJournals
    <2>2. QED
      BY <2>1 DEF LogInv, IntentBeforeMutation, EffectsFlushed, HeldFlushed
  <1>4. QED BY <1>1, <1>2, <1>3, PTL DEF Spec

\* Under the write-ahead invariant a step grants requests, performs a granted
\* one that was not performed before, or does neither.
LEMMA LedgerStep ==
  ASSUME TypeOK, LogInv, TypeOK', [Next]_vars
  PROVE  [Ledger!Next]_(Ledger!vars)
  <1> DEFINE granted == {i \in 1..Len(requests) : requests[i].seq <= ext}
  <1>t. /\ Len(requests) \in Nat /\ Len(requests') \in Nat
        /\ Len(journal) \in Nat /\ ext \in Nat /\ ext' \in Nat
    BY DEF TypeOK, TableType
  <1>n. granted' \in SUBSET Nat
    BY <1>t
  <1>r. \A i \in 1..Len(requests) : requests[i].seq \in Nat
    BY RequestRows
  <1>f. \A i : Flushed(i) <=> i \in granted
    BY DEF Flushed
  <1>g. ASSUME granted \subseteq granted', moved' = moved
        PROVE  Ledger!Grant
    BY <1>n, <1>g DEF Ledger!Grant
  <1>p. ASSUME NEW i, i \in granted \ moved, moved' = moved \cup {i},
               UNCHANGED <<requests, ext>>
        PROVE  \E j \in granted : Ledger!Perform(j)
    BY <1>p DEF Ledger!Perform
  <1>1. CASE \E t \in Threads : Quiet(t)
    <2>1. SameRequests /\ ext <= ext' /\ moved' = moved
      BY <1>1 DEF Quiet, JournalGrows
    <2>2. granted \subseteq granted'
      BY <1>t, <1>r, <2>1 DEF SameRequests
    <2>3. QED BY <1>g, <2>1, <2>2 DEF Ledger!Next
  <1>2. CASE \E t \in Movers : Intent(t)
    <2>1. PICK row : requests' = Append(requests, row)
      BY <1>2 DEF Intent
    <2>2. ext' = ext /\ moved' = moved
      BY <1>2 DEF Intent, PersistEvent, disk
    <2>3. requests \in Seq(Requests) /\ requests' \in Seq(Requests)
      BY DEF TypeOK, TableType
    <2>4. /\ Len(requests') = Len(requests) + 1
          /\ \A i \in 1..Len(requests) : requests'[i] = requests[i]
      BY <2>1, <2>3
    <2>5. granted \subseteq granted'
      BY <1>t, <2>2, <2>4
    <2>6. QED BY <1>g, <2>2, <2>5 DEF Ledger!Next
  <1>3. CASE \/ \E t \in Movers : Dispatch(t)
             \/ \E i \in orphans : OrphanDies(i)
             \/ CrashRestart \/ UNCHANGED vars
    <2>1. UNCHANGED <<requests, ext, moved>>
      BY <1>3 DEF Dispatch, OrphanDies, CrashRestart, vars, db, disk
    <2>2. granted \subseteq granted'
      BY <2>1
    <2>3. QED BY <1>g, <2>1, <2>2 DEF Ledger!Next
  <1>4. CASE \E t \in Movers : WorkerMutates(t)
    <2>1. PICK t \in Movers : WorkerMutates(t)
      BY <1>4
    <2>2. rid[t] \in granted \ moved
      BY <1>f, <2>1, MutationKeepsLog
    <2>3. moved' = moved \cup {rid[t]} /\ UNCHANGED <<requests, ext>>
      BY <2>1 DEF WorkerMutates, db
    <2>4. QED BY <1>p, <2>2, <2>3 DEF Ledger!Next
  <1>5. CASE \E i \in orphans : OrphanMutates(i)
    <2>1. PICK i \in orphans : OrphanMutates(i)
      BY <1>5
    <2>2. i \in granted \ moved
      BY <1>f, <2>1, OrphanKeepsLog
    <2>3. moved' = moved \cup {i} /\ UNCHANGED <<requests, ext>>
      BY <2>1 DEF OrphanMutates, db
    <2>4. QED BY <1>p, <2>2, <2>3 DEF Ledger!Next
  <1>6. QED BY <1>1, <1>2, <1>3, <1>4, <1>5, StepKinds

\* The coordinator implements the write-ahead contract of WriteAhead for every
\* plan, command set and failure bound: each granted request is performed at
\* most once, and nothing else touches the disk.
THEOREM Refinement == Spec => ImplementsWriteAhead
  <1>1. Init => TypeOK /\ LogInv
    BY TypeInit, LogInit
  <1>2. TypeOK /\ LogInv /\ [Next]_vars => (TypeOK /\ LogInv)'
    BY LogStep
  <1>3. Init => Ledger!Init
    BY DEF Init, Ledger!Init
  <1>4. TypeOK /\ LogInv /\ [Next]_vars => [Ledger!Next]_(Ledger!vars)
    BY LogStep, LedgerStep
  <1>5. QED
    BY <1>1, <1>2, <1>3, <1>4, PTL DEF Spec, ImplementsWriteAhead, Ledger!Spec

-----------------------------------------------------------------------------
(* The consent is spent before anything else happens *)

\* Until the consent is spent no operation has left its preflight status and no
\* request exists; a start command is at its transaction at most, a rollback
\* has nothing to roll back, and recovery has nothing to recover.  Without the
\* labels the statement about the disk is not inductive.
Unspent ==
  /\ \A o \in Ops : opStatus[o] \in {"preflight_ok", "blocked"}
  /\ status \notin Interrupted \cup NeedsRecovery
  /\ moved = {} /\ orphans = {}
  /\ \A t \in Movers : worker[t] = "none" /\ todo[t] = {}
  /\ \A t \in StartCmds : pc[t] \in {"idle", "consume"}
  /\ \A t \in RollbackCmds : pc[t] \in {"idle", "cursor", "next", "end"}
  /\ pc[Recovery] = "idle"
  /\ ~booting

ConsentInv == consent # "consumed" => Unspent

\* The kinds of threads are different.
LEMMA ThreadKinds ==
  /\ \A t \in StartCmds : t \notin RollbackCmds /\ t \in Threads /\ t \in Movers
  /\ \A t \in RollbackCmds : t \notin StartCmds /\ t \in Threads /\ t \in Movers
  /\ \A t \in CancelCmds \cup FinalizeCmds :
       t \in Threads /\ t \notin Movers /\ t # Recovery
  /\ Recovery \in Threads /\ Recovery \notin Movers
  /\ Recovery \notin CancelCmds \cup FinalizeCmds
  /\ FinalizeCmds \cap CancelCmds = {}
  /\ Movers = StartCmds \cup RollbackCmds
  BY ThreadAssumption DEF Movers, Threads

\* A step inside a moving command leaves the consent, the journal lock and the
\* effects on the disk alone.
LEMMA MoveFrame ==
  ASSUME NEW t, MoveSteps(t)
  PROVE  UNCHANGED <<consent, locked, disk, orphans>>
  <1>1. ASSUME NEW kind, NEW o, NEW req, NEW newOp, NEW newStatus, NEW next,
               PersistEvent(t, kind, o, req, newOp, newStatus, next)
        PROVE  UNCHANGED <<consent, locked, disk, orphans>>
    BY <1>1 DEF PersistEvent
  <1>2. ASSUME NEW o, Refuse(t, o)
        PROVE  UNCHANGED <<consent, locked, disk, orphans>>
    BY <1>1, <1>2 DEF Refuse
  <1>3. ASSUME NEW state, NEW label, Transition(t, state, label)
        PROVE  UNCHANGED <<consent, locked, disk, orphans>>
    BY <1>3 DEF Transition, session
  <1>4. ASSUME NEW state, TransitionRefused(t, state)
        PROVE  UNCHANGED <<consent, locked, disk, orphans>>
    BY <1>4 DEF TransitionRefused, db, session
  <1>5. CASE OpenSessionFails(t) \/ IntentRefused(t) \/ ObserveRefused(t)
    BY <1>5 DEF OpenSessionFails, IntentRefused, ObserveRefused, db, session
  <1>6. CASE LoopFinish(t) \/ LoopStop(t) \/ FinishRefused(t)
    BY <1>1, <1>6 DEF LoopFinish, LoopStop, FinishRefused, FinishExecution
  <1>7. CASE LoopRefuse(t) \/ RefuseAfterRequest(t)
    BY <1>2, <1>7 DEF LoopRefuse, RefuseAfterRequest
  <1>8. CASE LoopValidate(t) \/ Intent(t) \/ MarkAmbiguousOutcome(t)
    BY <1>1, <1>8 DEF LoopValidate, Intent, MarkAmbiguousOutcome
  <1>9. CASE Observe(t)
    BY <1>1, <1>9 DEF Observe
  <1>10. CASE Dispatch(t)
    BY <1>10 DEF Dispatch, db, session
  <1>11. CASE DispatchRefused(t) \/ VerifyFails(t)
    BY <1>3, <1>4, <1>11 DEF DispatchRefused, VerifyFails
  <1>12. CASE Receive(t)
    BY <1>3, <1>4, <1>12 DEF Receive
  <1>13. CASE DispatchFails(t)
    BY <1>3, <1>4, <1>13 DEF DispatchFails
  <1>14. CASE CheckNotApplied(t)
    BY <1>3, <1>4, <1>14 DEF CheckNotApplied
  <1>15. QED
    BY <1>5, <1>6, <1>7, <1>8, <1>9, <1>10, <1>11, <1>12, <1>13, <1>14
       DEF MoveSteps

\* So does a step of recovery.
LEMMA RecoveryFrame ==
  ASSUME RecoverySteps
  PROVE  UNCHANGED <<consent, locked, disk, orphans>>
  <1>1. CASE ReconcileSettled \/ ReconcileRefused
    BY <1>1 DEF ReconcileSettled, ReconcileRefused, db, session
  <1>2. CASE ReconcileRequest
    BY <1>2 DEF ReconcileRequest, PersistEvent
  <1>3. CASE Assess
    BY <1>3 DEF Assess
  <1>4. QED BY <1>1, <1>2, <1>3 DEF RecoverySteps

\* No step takes a spent consent back.
LEMMA SpentForGood ==
  ASSUME Next, consent = "consumed"
  PROVE  consent' = "consumed"
  <1> USE DEF LockOn, db, session
  <1>1. CASE \E t \in Threads : Journalling(t)
    BY <1>1 DEF Journalling, ReadCursor, StaleCursor, SyncEvent, SyncFails
  <1>2. CASE \/ IssueChallenge
             \/ \E t \in FinalizeCmds :
                  FinalizeAttest(t) \/ FinalizeLocks(t) \/ FinalizeSteps(t)
    BY <1>2 DEF IssueChallenge, FinalizeAttest, FinalizeLocks, FinalizeSteps,
                FinalizeRead, FinalizeApprove, PersistEvent
  <1>3. CASE \/ \E t \in StartCmds : \/ StartBegin(t) \/ StartLocks(t)
                                     \/ StartLapses(t) \/ StartConsume(t)
             \/ \E t \in RollbackCmds : RollbackBegin(t) \/ RollbackLocks(t)
    BY <1>3 DEF StartBegin, StartLocks, StartLapses, StartConsume,
                ConsumeConsent, RollbackBegin, RollbackLocks
  <1>4. CASE \E t \in Movers : MoveSteps(t)
    BY <1>4, MoveFrame
  <1>5. CASE \E t \in Movers : WorkerSteps(t)
    BY <1>5 DEF WorkerSteps, WorkerMutates, WorkerDeclines
  <1>6. CASE \/ \E t \in CancelCmds :
                  CancelBegin(t) \/ CancelLocks(t) \/ CancelSteps(t)
             \/ RequestPause \/ RequestCancel
    BY <1>6 DEF CancelBegin, CancelLocks, CancelSteps, CancelInvalidate,
                CancelUnstarted, CancelFinish, FinishExecution, PersistEvent,
                RequestPause, RequestCancel
  <1>7. CASE RecoverBegin \/ RecoverLocks \/ RecoverySteps
    BY <1>7, RecoveryFrame DEF RecoverBegin, RecoverLocks
  <1>8. CASE \/ \E i \in orphans : OrphanMutates(i) \/ OrphanDies(i)
             \/ CrashRestart
             \/ \E o \in Ops : UserChange(o)
    BY <1>8 DEF OrphanMutates, OrphanDies, CrashRestart, UserChange
  <1>9. QED
    BY <1>1, <1>2, <1>3, <1>4, <1>5, <1>6, <1>7, <1>8 DEF Next

\* A command that returns is back at the beginning, and no other one moved.
LEMMA UnspentReturn ==
  ASSUME TypeOK, Unspent, NEW t \in Threads, Return(t),
         UNCHANGED <<opStatus, moved, orphans>>,
         status' \notin Interrupted \cup NeedsRecovery
  PROVE  Unspent'
  BY ThreadKinds DEF Unspent, Return, Goto, TypeOK, PositionType, LocalType

\* A command that goes on to a label of an unspent execution, nothing else
\* changed.
LEMMA UnspentGoto ==
  ASSUME TypeOK, Unspent, NEW t \in Threads, NEW label, Goto(t, label),
         UNCHANGED <<opStatus, moved, orphans, worker, todo, booting>>,
         status' \notin Interrupted \cup NeedsRecovery,
         t \in StartCmds => label \in {"idle", "consume"},
         t \in RollbackCmds => label \in {"idle", "cursor", "next", "end"},
         t # Recovery
  PROVE  Unspent'
  BY ThreadKinds DEF Unspent, Goto, TypeOK, PositionType

\* Nobody's position changes.
LEMMA UnspentStutter ==
  ASSUME Unspent,
         UNCHANGED <<opStatus, moved, orphans, worker, todo, booting, pc>>,
         status' \notin Interrupted \cup NeedsRecovery
  PROVE  Unspent'
  BY DEF Unspent

\* The final event of a command that has done nothing.
LEMMA UnspentFinish ==
  ASSUME TypeOK, Unspent, NEW t \in Threads, t \notin StartCmds, t # Recovery,
         NEW newStatus \in SessionStatus \ (Interrupted \cup NeedsRecovery),
         FinishExecution(t, newStatus)
  PROVE  Unspent'
  <1>1. /\ Goto(t, "end") /\ status' = newStatus
        /\ UNCHANGED <<opStatus, moved, orphans, worker, todo, booting>>
    BY DEF FinishExecution, PersistEvent, disk, NoOp
  <1>2. QED BY <1>1, UnspentGoto

LEMMA UnspentJournalling ==
  ASSUME TypeOK, Unspent, NEW t \in Threads, Journalling(t)
  PROVE  Unspent'
  <1>1. CASE ReadCursor(t)
    <2>1. t \notin StartCmds /\ t # Recovery
      BY <1>1 DEF Unspent, ReadCursor
    <2>2. \E label : /\ Goto(t, label)
                     /\ t \in RollbackCmds => label = "next"
      BY <1>1, ThreadKinds DEF ReadCursor
    <2>3. /\ UNCHANGED <<opStatus, moved, orphans, worker, todo, booting>>
          /\ status' \notin Interrupted \cup NeedsRecovery
      BY <1>1 DEF ReadCursor, db, session, disk, Unspent
    <2>4. QED BY <2>1, <2>2, <2>3, UnspentGoto
  <1>2. CASE StaleCursor(t)
    BY <1>2, UnspentReturn DEF StaleCursor, db, session, disk, Unspent
  <1>3. CASE SyncEvent(t)
    <2>1. /\ UNCHANGED <<opStatus, moved, orphans>>
          /\ status' \notin Interrupted \cup NeedsRecovery
      BY <1>3 DEF SyncEvent, db, session, disk, Unspent
    <2>2. Return(t) \/ UNCHANGED <<pc, worker, todo, booting>>
      BY <1>3 DEF SyncEvent
    <2>3. QED BY <2>1, <2>2, UnspentReturn, UnspentStutter
  <1>4. CASE SyncFails(t)
    <2>1. /\ UNCHANGED <<opStatus, moved, orphans>>
          /\ status' \notin Interrupted \cup NeedsRecovery
      BY <1>4 DEF SyncFails, MarkRecoveryRequired, disk, Unspent
    <2>2. QED BY <1>4, <2>1, UnspentReturn DEF SyncFails
  <1>5. QED BY <1>1, <1>2, <1>3, <1>4 DEF Journalling

LEMMA UnspentConsent ==
  ASSUME TypeOK, Unspent,
         \/ IssueChallenge
         \/ \E t \in FinalizeCmds :
              FinalizeAttest(t) \/ FinalizeLocks(t) \/ FinalizeSteps(t)
  PROVE  Unspent'
  <1>1. CASE IssueChallenge
    BY <1>1, UnspentStutter DEF IssueChallenge, disk, local, Unspent
  <1>2. ASSUME NEW t \in FinalizeCmds,
               FinalizeAttest(t) \/ FinalizeLocks(t) \/ FinalizeSteps(t)
        PROVE  Unspent'
    <2>0. t \in Threads /\ t # Recovery /\ t \notin StartCmds \cup RollbackCmds
      BY ThreadKinds
    <2>1. CASE FinalizeAttest(t)
      BY <2>0, <2>1, UnspentGoto
         DEF FinalizeAttest, disk, Interrupted, NeedsRecovery
    <2>2. CASE FinalizeLocks(t)
      BY <2>0, <2>2, UnspentReturn
         DEF FinalizeLocks, LockOn, db, session, disk, Unspent
    <2>3. CASE FinalizeRead(t)
      <3>1. /\ UNCHANGED <<opStatus, moved, orphans>>
            /\ status' \notin Interrupted \cup NeedsRecovery
        BY <2>3 DEF FinalizeRead, db, session, disk, Unspent
      <3>2. \/ Return(t)
            \/ Goto(t, "approve") /\ UNCHANGED <<worker, todo, booting>>
        BY <2>3 DEF FinalizeRead
      <3>3. QED BY <2>0, <3>1, <3>2, UnspentReturn, UnspentGoto
    <2>4. CASE FinalizeApprove(t)
      BY <2>0, <2>4, UnspentGoto
         DEF FinalizeApprove, PersistEvent, disk, NoOp, Interrupted,
             NeedsRecovery
    <2>5. QED BY <1>2, <2>1, <2>2, <2>3, <2>4 DEF FinalizeSteps
  <1>3. QED BY <1>1, <1>2

\* A start command that does not consume the consent starts nothing; a rollback
\* finds nothing applied.
LEMMA UnspentBegin ==
  ASSUME TypeOK, Unspent, consent' # "consumed",
         \/ \E t \in StartCmds : \/ StartBegin(t) \/ StartLocks(t)
                                 \/ StartLapses(t) \/ StartConsume(t)
         \/ \E t \in RollbackCmds : RollbackBegin(t) \/ RollbackLocks(t)
  PROVE  Unspent'
  <1>1. ASSUME NEW t \in StartCmds,
               \/ StartBegin(t) \/ StartLocks(t)
               \/ StartLapses(t) \/ StartConsume(t)
        PROVE  Unspent'
    <2>0. t \in Threads /\ t # Recovery /\ t \notin RollbackCmds
      BY ThreadKinds
    <2>1. CASE StartBegin(t)
      BY <2>0, <2>1, UnspentGoto DEF StartBegin, db, session, disk, Unspent
    <2>2. CASE StartLocks(t)
      BY <2>0, <2>2, UnspentReturn
         DEF StartLocks, LockOn, db, session, disk, Unspent
    <2>3. CASE StartLapses(t)
      BY <2>3, UnspentStutter
         DEF StartLapses, disk, local, Interrupted, NeedsRecovery
    <2>4. CASE StartConsume(t)
      <3>1. ~(consent = "attested" /\ status = "approved")
        BY <2>4 DEF StartConsume, ConsumeConsent
      <3>2. Return(t) /\ status' = status
        BY <2>4, <3>1 DEF StartConsume
      <3>3. UNCHANGED <<opStatus, moved, orphans>>
        BY <2>4 DEF StartConsume, disk
      <3>4. QED BY <2>0, <3>2, <3>3, UnspentReturn DEF Unspent
    <2>5. QED BY <1>1, <2>1, <2>2, <2>3, <2>4
  <1>2. ASSUME NEW t \in RollbackCmds, RollbackBegin(t) \/ RollbackLocks(t)
        PROVE  Unspent'
    <2>0. t \in Threads /\ t # Recovery /\ t \notin StartCmds
      BY ThreadKinds
    <2>1. CASE RollbackBegin(t)
      <3>1. {o \in Ops : opStatus[o] \in AppliedStatuses} = {}
        BY DEF Unspent, AppliedStatuses
      <3>2. todo' = [todo EXCEPT ![t] = {}]
        BY <2>1, <3>1 DEF RollbackBegin
      <3>3. todo' = todo
        BY <3>2, ThreadKinds DEF Unspent, TypeOK, LocalType
      <3>4. QED
        BY <2>0, <2>1, <3>3, UnspentGoto
           DEF RollbackBegin, db, session, disk, Unspent
    <2>2. CASE RollbackLocks(t)
      BY <2>0, <2>2, UnspentReturn
         DEF RollbackLocks, LockOn, db, session, disk, Unspent
    <2>3. QED BY <1>2, <2>1, <2>2
  <1>3. QED BY <1>1, <1>2

\* Of the steps inside a moving command only a failed start and the end of an
\* empty rollback are possible.
LEMMA UnspentMove ==
  ASSUME TypeOK, Unspent, NEW t \in Movers, MoveSteps(t) \/ WorkerSteps(t)
  PROVE  Unspent'
  <1>0. t \in Threads /\ t # Recovery /\ worker[t] = "none" /\ todo[t] = {}
    BY ThreadKinds DEF Unspent
  <1>1. pc[t] \in {"idle", "consume", "cursor", "next", "end"}
    BY ThreadKinds DEF Unspent
  <1>2. OpenSessionFails(t) \/ LoopFinish(t)
    <2>1. ~WorkerSteps(t)
      BY <1>0 DEF WorkerSteps, WorkerMutates, WorkerDeclines
    <2>2. ~(LoopStop(t) \/ LoopRefuse(t) \/ LoopValidate(t))
      BY <1>0 DEF LoopStop, LoopRefuse, LoopValidate
    <2>3. ~(Intent(t) \/ IntentRefused(t) \/ Dispatch(t) \/ DispatchRefused(t))
      BY <1>1 DEF Intent, IntentRefused, Dispatch, DispatchRefused, AtDispatch
    <2>4. ~(\/ Receive(t) \/ DispatchFails(t) \/ CheckNotApplied(t)
            \/ VerifyFails(t) \/ Observe(t) \/ ObserveRefused(t))
      BY <1>1 DEF Receive, DispatchFails, CheckNotApplied, VerifyFails,
                  Observe, ObserveRefused
    <2>5. ~(\/ MarkAmbiguousOutcome(t) \/ RefuseAfterRequest(t)
            \/ FinishRefused(t))
      BY <1>1 DEF MarkAmbiguousOutcome, RefuseAfterRequest, FinishRefused
    <2>6. QED BY <2>1, <2>2, <2>3, <2>4, <2>5 DEF MoveSteps
  <1>3. CASE OpenSessionFails(t)
    BY <1>0, <1>3, UnspentReturn
       DEF OpenSessionFails, db, session, disk, Unspent
  <1>4. CASE LoopFinish(t)
    <2>1. t \in RollbackCmds /\ t \notin StartCmds
      BY <1>4, ThreadKinds DEF LoopFinish, Unspent
    <2>2. CompletionStatus(t) = "rolled_back"
      BY <2>1 DEF CompletionStatus, Dir
    <2>3. QED
      BY <1>0, <1>4, <2>1, <2>2, UnspentFinish
         DEF LoopFinish, SessionStatus, Interrupted, NeedsRecovery
  <1>5. QED BY <1>2, <1>3, <1>4

LEMMA UnspentCancel ==
  ASSUME TypeOK, Unspent,
         \/ \E t \in CancelCmds :
              CancelBegin(t) \/ CancelLocks(t) \/ CancelSteps(t)
         \/ RequestPause \/ RequestCancel
  PROVE  Unspent'
  <1>1. CASE RequestPause \/ RequestCancel
    BY <1>1, UnspentStutter
       DEF RequestPause, RequestCancel, disk, local, Unspent
  <1>2. ASSUME NEW t \in CancelCmds,
               CancelBegin(t) \/ CancelLocks(t) \/ CancelSteps(t)
        PROVE  Unspent'
    <2>0. t \in Threads /\ t # Recovery /\ t \notin StartCmds \cup RollbackCmds
      BY ThreadKinds
    <2>1. CASE CancelBegin(t)
      <3>1. \E label : Goto(t, label)
        BY <2>1 DEF CancelBegin
      <3>2. QED
        BY <2>0, <2>1, <3>1, UnspentGoto
           DEF CancelBegin, db, session, disk, Unspent
    <2>2. CASE CancelLocks(t)
      BY <2>0, <2>2, UnspentReturn
         DEF CancelLocks, LockOn, db, session, disk, Unspent
    <2>3. CASE CancelInvalidate(t)
      <3>1. /\ UNCHANGED <<opStatus, moved, orphans>>
            /\ status' \notin Interrupted \cup NeedsRecovery
        BY <2>3 DEF CancelInvalidate, disk, Unspent, Interrupted,
                    NeedsRecovery
      <3>2. \/ Return(t)
            \/ /\ \E label : Goto(t, label)
               /\ UNCHANGED <<worker, todo, booting>>
        BY <2>3 DEF CancelInvalidate
      <3>3. QED BY <2>0, <3>1, <3>2, UnspentReturn, UnspentGoto
    <2>4. CASE CancelUnstarted(t)
      BY <2>0, <2>4, UnspentReturn
         DEF CancelUnstarted, disk, Unspent, Interrupted, NeedsRecovery
    <2>5. CASE CancelFinish(t)
      BY <2>0, <2>5, UnspentFinish
         DEF CancelFinish, SessionStatus, Interrupted, NeedsRecovery
    <2>6. QED BY <1>2, <2>1, <2>2, <2>3, <2>4, <2>5 DEF CancelSteps
  <1>3. QED BY <1>1, <1>2

\* Nothing needs recovery yet, and a restart changes nothing.
LEMMA UnspentRecovery ==
  ASSUME TypeOK, Unspent,
         \/ RecoverBegin \/ RecoverLocks \/ RecoverySteps
         \/ \E i \in orphans : OrphanMutates(i) \/ OrphanDies(i)
         \/ CrashRestart
         \/ \E o \in Ops : UserChange(o)
  PROVE  Unspent'
  <1>1. ~(RecoverBegin \/ RecoverLocks \/ RecoverySteps)
    BY DEF Unspent, RecoverBegin, RecoverLocks, MayRecover, RecoverySteps,
           ReconcileSettled, ReconcileRequest, ReconcileRefused, Assess,
           AtFact
  <1>2. ~(\E i \in orphans : OrphanMutates(i) \/ OrphanDies(i))
    BY DEF Unspent
  <1>3. CASE CrashRestart
    <2>1. {rid[t] : t \in {u \in Movers : worker[u] = "working"}} = {}
      BY DEF Unspent
    <2>2. orphans' = {} /\ UNCHANGED <<opStatus, moved>>
      BY <1>3, <2>1 DEF CrashRestart, disk, Unspent
    <2>3. status' = status
      BY <1>3 DEF CrashRestart, MarkRecoveryRequired, Unspent
    <2>4. ~booting'
      BY <1>3 DEF CrashRestart, Unspent
    <2>5. QED BY <1>3, <2>2, <2>3, <2>4, ThreadKinds DEF CrashRestart, Unspent
  <1>4. CASE \E o \in Ops : UserChange(o)
    BY <1>4, UnspentStutter DEF UserChange, db, session, local, Unspent
  <1>5. QED BY <1>1, <1>2, <1>3, <1>4

LEMMA ConsentStep ==
  ASSUME TypeOK, ConsentInv, [Next]_vars
  PROVE  ConsentInv'
  <1>1. CASE Next
    <2> SUFFICES ASSUME consent' # "consumed" PROVE Unspent'
      BY DEF ConsentInv
    <2>1. Unspent
      BY <1>1, SpentForGood DEF ConsentInv
    <2>2. QED
      BY <1>1, <2>1, UnspentJournalling, UnspentConsent, UnspentBegin,
         UnspentMove, UnspentCancel, UnspentRecovery DEF Next
  <1>2. CASE UNCHANGED vars
    BY <1>2 DEF ConsentInv, Unspent, vars, db, session, disk, local
  <1>3. QED BY <1>1, <1>2

\* Nothing touches the disk before a start command has consumed the consent
\* (start_execution, consume_execution_consent), however finalize, start,
\* cancel and rollback commands, recovery and restarts interleave.
THEOREM ConsentFirst == Spec => []MutationNeedsConsent
  <1>1. Init => TypeOK /\ LogInv /\ ConsentInv
    <2>1. Init => ConsentInv
      BY ThreadKinds DEF Init, ConsentInv, Unspent, Interrupted, NeedsRecovery
    <2>2. QED BY <2>1, TypeInit, LogInit
  <1>2. TypeOK /\ LogInv /\ ConsentInv /\ [Next]_vars
          => (TypeOK /\ LogInv /\ ConsentInv)'
    BY LogStep, ConsentStep
  <1>3. ConsentInv => MutationNeedsConsent
    BY DEF ConsentInv, Unspent, MutationNeedsConsent
  <1>4. QED BY <1>1, <1>2, <1>3, PTL DEF Spec

-----------------------------------------------------------------------------
(* What a moving command does after the worker's answer *)

\* A refused step returns and leaves every table as it is.
Refusal(t) ==
  Return(t) /\ UNCHANGED <<db, ext, locked, disk, orphans, bounds>>

\* The states a moving command gives its request before it has observed the
\* effect.
AnswerStates ==
  {"proven_not_started", "recovery_required", "acknowledged_success",
   "proven_not_applied"}

\* A request transition of thread t, whose worker has stopped unless workers
\* may act late, and what the state and the next label say of the answer.
Answered(t, state, label) ==
  /\ Transition(t, state, label)
  /\ pc[t] \in Requested
  /\ worker \in [Threads -> {"none", "working", "gone"} \cup Replies]
  /\ \A u \in Threads \ {t} : worker'[u] = worker[u]
  /\ worker'[t] = "working" => LateMutation /\ worker[t] = "working"
  /\ \/ worker'[t] \in {"none", "gone"} \/ LateMutation
     \/ pc[t] # "wait" /\ worker'[t] = worker[t]
  /\ label = "refuse" <=> state = "proven_not_started"
  /\ state = "proven_not_started" => pc[t] \in {"dispatch", "contradict"}
  /\ label = "verify" => pc[t] = "wait" /\ worker[t] = "success"
  /\ state = "acknowledged_success" => label = "verify"
  /\ label = "contradict" =>
       pc[t] = "wait" /\ worker[t] \in {"not_applied", "refused"}
  /\ state = "proven_not_applied" =>
       pc[t] = "wait" /\ worker[t] = "not_applied"

\* Whatever the worker answers, the command returns or records one transition.
LEMMA AnswerShapes ==
  ASSUME TypeOK, LogInv, NEW t \in Movers,
         \/ DispatchRefused(t) \/ Receive(t) \/ DispatchFails(t)
         \/ CheckNotApplied(t) \/ VerifyFails(t)
  PROVE  \/ Refusal(t)
         \/ \E state \in AnswerStates,
               label \in {"refuse", "mark", "verify", "contradict"} :
              Answered(t, state, label)
  <1>0. t \in Threads
    BY ConstantFacts
  <1>w. worker \in [Threads -> {"none", "working", "gone"} \cup Replies]
    BY DEF TypeOK, LocalType
  <1>r. ASSUME NEW state, TransitionRefused(t, state) PROVE Refusal(t)
    BY <1>r DEF TransitionRefused, Refusal
  <1>a. ASSUME NEW state \in {"proven_not_started", "recovery_required"},
               NEW label \in {"refuse", "mark"},
               Transition(t, state, label), worker' = worker,
               pc[t] \in {"dispatch", "contradict", "verify"},
               pc[t] = "verify" => state = "recovery_required",
               label = "refuse" <=> state = "proven_not_started"
        PROVE  Answered(t, state, label)
    <2>1. pc[t] \in Requested \ Attended
      BY <1>a DEF Requested, Attended
    <2>2. QED BY <1>w, <1>a, <2>1, NoWorker DEF Answered
  <1>1. CASE DispatchRefused(t)
    <2>1. pc[t] = "dispatch"
      BY <1>1 DEF DispatchRefused, AtDispatch
    <2>2. QED BY <1>1, <1>r, <1>a, <2>1 DEF DispatchRefused, AnswerStates
  <1>2. CASE Receive(t)
    <2>1. pc[t] = "wait" /\ pc[t] \in Requested /\ worker[t] \in Replies
      BY <1>2 DEF Receive, Requested
    <2>2. PICK s, l : s = ResponseState(worker[t]) /\ l = AfterResponse(worker[t])
      OBVIOUS
    <2>3. /\ s \in {"recovery_required", "acknowledged_success",
                    "proven_not_applied"}
          /\ s = "acknowledged_success" <=> worker[t] = "success"
          /\ s = "proven_not_applied" <=> worker[t] = "not_applied"
      BY <2>2 DEF ResponseState
    <2>4. /\ l \in {"mark", "verify", "contradict"}
          /\ l = "verify" <=> worker[t] = "success"
          /\ l = "contradict" => worker[t] \in {"not_applied", "refused"}
      BY <2>1, <2>2 DEF AfterResponse, Replies
    <2>5. \/ Refusal(t)
          \/ Transition(t, s, l) /\ worker' = [worker EXCEPT ![t] = "none"]
      BY <1>2, <1>r, <2>2 DEF Receive
    <2>6. ASSUME Transition(t, s, l), worker' = [worker EXCEPT ![t] = "none"]
          PROVE  Answered(t, s, l)
      BY <1>0, <1>w, <2>1, <2>3, <2>4, <2>6 DEF Answered
    <2>7. QED BY <2>3, <2>4, <2>5, <2>6 DEF AnswerStates
  <1>3. CASE DispatchFails(t)
    <2>1. pc[t] \in Requested
      BY <1>3 DEF DispatchFails, Requested
    <2>2. \/ Refusal(t)
          \/ /\ Transition(t, "recovery_required", "mark")
             /\ \/ worker[t] = "gone" /\ worker' = worker
                \/ worker' = IF LateMutation THEN worker
                             ELSE [worker EXCEPT ![t] = "gone"]
      BY <1>3, <1>r DEF DispatchFails
    <2>3. ASSUME Transition(t, "recovery_required", "mark"),
                 \/ worker[t] = "gone" /\ worker' = worker
                 \/ worker' = IF LateMutation THEN worker
                              ELSE [worker EXCEPT ![t] = "gone"]
          PROVE  Answered(t, "recovery_required", "mark")
      <3>1. /\ worker'[t] = "working" => LateMutation /\ worker[t] = "working"
            /\ worker'[t] = "gone" \/ LateMutation
        BY <1>0, <1>w, <2>3
      <3>2. \A u \in Threads \ {t} : worker'[u] = worker[u]
        BY <1>0, <1>w, <2>3
      <3>3. QED BY <1>w, <2>1, <2>3, <3>1, <3>2 DEF Answered
    <2>4. QED BY <2>2, <2>3 DEF AnswerStates
  <1>4. CASE CheckNotApplied(t)
    <2>1. pc[t] = "contradict"
      BY <1>4 DEF CheckNotApplied
    <2>2. PICK state \in {"proven_not_started", "recovery_required"},
               label \in {"refuse", "mark"} :
            /\ label = "refuse" <=> state = "proven_not_started"
            /\ \/ Transition(t, state, label) /\ worker' = worker
               \/ TransitionRefused(t, state)
      BY <1>4 DEF CheckNotApplied
    <2>3. QED BY <1>r, <1>a, <2>1, <2>2 DEF AnswerStates
  <1>5. CASE VerifyFails(t)
    <2>1. pc[t] = "verify"
      BY <1>5 DEF VerifyFails
    <2>2. QED BY <1>5, <1>r, <1>a, <2>1 DEF VerifyFails, AnswerStates
  <1>6. QED BY <1>1, <1>2, <1>3, <1>4, <1>5

\* The other steps inside a moving command that return at once.
LEMMA MoveRefusals ==
  ASSUME NEW t,
         OpenSessionFails(t) \/ IntentRefused(t) \/ ObserveRefused(t)
  PROVE  Refusal(t)
  BY DEF OpenSessionFails, IntentRefused, ObserveRefused, Refusal

-----------------------------------------------------------------------------
(* The journal names what was applied *)

\* The journal holds an applied event of operation o.
Recorded(o) ==
  \E i \in 1..Len(journal) :
    journal[i].op = o /\ journal[i].kind = "applied_observed"

\* Every operation that is applied, that a rollback is about to undo or has
\* requested to undo, or that recovery may call applied again, is recorded.
RecordInv ==
  /\ \A o \in Ops : opStatus[o] \in AppliedStatuses => Recorded(o)
  /\ \A t \in RollbackCmds : \A o \in todo[t] : Recorded(o)
  /\ \A t \in RollbackCmds : pc[t] = "intent" => Recorded(op[t])
  /\ \A i \in 1..Len(requests) :
       requests[i].dir = "rollback" => Recorded(requests[i].op)
  /\ \A i \in 1..Len(facts) :
       facts[i].dir = "rollback" => Recorded(facts[i].op)

\* What a step must see to of what it makes applied, of what it is about to
\* undo, and of what it requests to undo.
StatusRecorded ==
  \A o \in Ops : opStatus'[o] \in AppliedStatuses =>
    opStatus[o] \in AppliedStatuses \/ Recorded(o)'

CommandsRecorded ==
  \A t \in RollbackCmds :
    /\ \A o \in todo'[t] : o \in todo[t] \/ Recorded(o)'
    /\ pc'[t] = "intent" =>
         (pc[t] = "intent" /\ op'[t] = op[t]) \/ Recorded(op[t])'

RequestsRecorded ==
  /\ \A i \in 1..Len(requests') : requests'[i].dir = "rollback" =>
       \/ /\ i \in 1..Len(requests)
          /\ requests'[i].op = requests[i].op
          /\ requests'[i].dir = requests[i].dir
       \/ Recorded(requests[i].op)'
  /\ facts' \in {facts, requests, <<>>}

\* The journal never loses an event.
JournalKept ==
  /\ Len(journal') >= Len(journal)
  /\ \A i \in 1..Len(journal) : journal'[i] = journal[i]

LEMMA JournalOnlyGrows ==
  ASSUME TypeOK, LogInv, Next
  PROVE  JournalKept
  <1>1. CASE \E t \in Threads : Quiet(t)
    BY <1>1 DEF Quiet, JournalGrows, JournalKept
  <1>2. CASE \E t \in Movers : Intent(t)
    <2>1. PICK e : journal' = Append(journal, e)
      BY <1>2 DEF Intent, PersistEvent
    <2>2. QED BY <2>1 DEF JournalKept, TypeOK, TableType
  <1>3. CASE \/ \E t \in Movers : Dispatch(t) \/ WorkerMutates(t)
             \/ \E i \in orphans : OrphanMutates(i) \/ OrphanDies(i)
             \/ CrashRestart
    <2>1. journal' = journal
      BY <1>3 DEF Dispatch, WorkerMutates, OrphanMutates, OrphanDies,
                  CrashRestart, db
    <2>2. QED BY <2>1 DEF JournalKept, TypeOK, TableType
  <1>4. QED BY <1>1, <1>2, <1>3, StepKinds

\* An applied event stays.
LEMMA RecordedForGood ==
  ASSUME TypeOK, JournalKept, NEW o, Recorded(o), Len(journal') \in Nat
  PROVE  Recorded(o)'
  BY DEF Recorded, JournalKept, TypeOK, TableType

LEMMA KeepsRecord ==
  ASSUME TypeOK, TypeOK', RecordInv, JournalKept,
         StatusRecorded, CommandsRecorded, RequestsRecorded
  PROVE  RecordInv'
  <1>1. \A o : Recorded(o) => Recorded(o)'
    BY RecordedForGood DEF TypeOK, TableType
  <1>2. \A o \in Ops : opStatus'[o] \in AppliedStatuses => Recorded(o)'
    BY <1>1 DEF RecordInv, StatusRecorded
  <1>3. /\ \A t \in RollbackCmds : \A o \in todo'[t] : Recorded(o)'
        /\ \A t \in RollbackCmds : pc'[t] = "intent" => Recorded(op[t])'
    <2>1. \A t \in RollbackCmds : \A o \in todo'[t] : Recorded(o)'
      BY <1>1 DEF RecordInv, CommandsRecorded
    <2>2. ASSUME NEW t \in RollbackCmds, pc'[t] = "intent"
          PROVE  Recorded(op[t])'
      <3>1. CASE pc[t] = "intent" /\ op'[t] = op[t]
        <4>1. Recorded(op[t])
          BY <3>1 DEF RecordInv
        <4>2. \E i \in 1..Len(journal') :
                journal'[i].op = op[t] /\ journal'[i].kind = "applied_observed"
          BY <1>1, <4>1 DEF Recorded
        <4>3. QED BY <3>1, <4>2 DEF Recorded
      <3>2. QED BY <2>2, <3>1 DEF CommandsRecorded
    <2>3. QED BY <2>1, <2>2
  <1>4. /\ \A i \in 1..Len(requests) : requests[i].dir = "rollback" =>
             \E j \in 1..Len(journal') :
               /\ journal'[j].op = requests[i].op
               /\ journal'[j].kind = "applied_observed"
        /\ \A i \in 1..Len(facts) : facts[i].dir = "rollback" =>
             \E j \in 1..Len(journal') :
               /\ journal'[j].op = facts[i].op
               /\ journal'[j].kind = "applied_observed"
    <2>1. \A o : Recorded(o) => \E j \in 1..Len(journal') :
                                journal'[j].op = o
                                  /\ journal'[j].kind = "applied_observed"
      BY <1>1 DEF Recorded
    <2>2. QED BY <2>1, Zenon DEF RecordInv
  <1>5. \A i \in 1..Len(requests') :
          requests'[i].dir = "rollback" => Recorded(requests[i].op)'
    <2>1. SUFFICES ASSUME NEW i \in 1..Len(requests'),
                          requests'[i].dir = "rollback"
                   PROVE  Recorded(requests[i].op)'
      OBVIOUS
    <2>2. CASE /\ i \in 1..Len(requests)
               /\ requests'[i].op = requests[i].op
               /\ requests'[i].dir = requests[i].dir
      BY <1>4, <2>1, <2>2 DEF Recorded
    <2>3. QED BY <2>1, <2>2 DEF RequestsRecorded
  <1>6. \A i \in 1..Len(facts') :
          facts'[i].dir = "rollback" => Recorded(facts[i].op)'
    <2>1. CASE facts' = <<>>
      BY <2>1
    <2>2. CASE facts' = facts
      BY <1>4, <2>2 DEF Recorded
    <2>3. CASE facts' = requests
      BY <1>4, <2>3 DEF Recorded
    <2>4. QED BY <2>1, <2>2, <2>3 DEF RequestsRecorded
  <1>7. QED BY <1>2, <1>3, <1>5, <1>6 DEF RecordInv

\* What a step must see to, together.
RecordSafe == StatusRecorded /\ CommandsRecorded /\ RequestsRecorded

\* The rows of the request table keep their operation and direction.
LEMMA RowsRecorded ==
  ASSUME SameRequests \/ requests' = requests, Len(requests) \in Nat,
         facts' \in {facts, requests, <<>>}
  PROVE  RequestsRecorded
  BY DEF SameRequests, RequestsRecorded

\* A command that returns is about to undo nothing.
LEMMA ReturnRecorded ==
  ASSUME TypeOK, NEW t \in Threads, Return(t), UNCHANGED <<opStatus, requests>>
  PROVE  RecordSafe
  <1>1. RequestsRecorded
    BY RowsRecorded DEF Return, TypeOK, TableType
  <1>2. CommandsRecorded
    BY ThreadKinds
       DEF CommandsRecorded, Return, Goto, TypeOK, PositionType, LocalType
  <1>3. QED BY <1>1, <1>2 DEF RecordSafe, StatusRecorded

\* A command that goes on to a label other than its intent.
LEMMA GotoRecorded ==
  ASSUME TypeOK, NEW t \in Threads, NEW label, label # "intent",
         Goto(t, label), UNCHANGED <<opStatus, todo, op>>,
         SameRequests \/ requests' = requests,
         facts' \in {facts, requests, <<>>}
  PROVE  RecordSafe
  <1>1. RequestsRecorded
    BY RowsRecorded DEF TypeOK, TableType
  <1>2. CommandsRecorded
    BY ThreadKinds DEF CommandsRecorded, Goto, TypeOK, PositionType
  <1>3. QED BY <1>1, <1>2 DEF RecordSafe, StatusRecorded

\* No command takes a step.
LEMMA StutterRecorded ==
  ASSUME TypeOK, UNCHANGED <<opStatus, requests, todo, op, pc, facts>>
  PROVE  RecordSafe
  BY RowsRecorded
     DEF RecordSafe, StatusRecorded, CommandsRecorded, TypeOK, TableType

\* An event that calls nothing applied.
LEMMA EventRecorded ==
  ASSUME TypeOK, NEW t \in Threads, NEW kind, NEW o, NEW req, NEW newOp,
         NEW newStatus, NEW next, next # "intent",
         PersistEvent(t, kind, o, req, newOp, newStatus, next),
         o = NoOp \/ newOp \notin AppliedStatuses,
         SameRequests \/ requests' = requests,
         CommandsRecorded \/ UNCHANGED <<todo, op>>
  PROVE  RecordSafe
  <1>1. RequestsRecorded
    BY RowsRecorded DEF TypeOK, TableType, PersistEvent
  <1>2. CommandsRecorded
    BY ThreadKinds
       DEF CommandsRecorded, PersistEvent, Goto, TypeOK, PositionType
  <1>3. StatusRecorded
    BY DEF StatusRecorded, PersistEvent, TypeOK, TableType
  <1>4. QED BY <1>1, <1>2, <1>3 DEF RecordSafe

LEMMA FinishRecorded ==
  ASSUME TypeOK, NEW t \in Threads, NEW newStatus,
         FinishExecution(t, newStatus)
  PROVE  RecordSafe
  BY EventRecorded DEF FinishExecution

LEMMA JournallingRecorded ==
  ASSUME TypeOK, NEW t \in Threads, Journalling(t)
  PROVE  RecordSafe
  <1>1. CASE ReadCursor(t)
    <2>1. \E label : label # "intent" /\ Goto(t, label)
      BY <1>1 DEF ReadCursor
    <2>2. facts' \in {facts, requests}
      BY <1>1 DEF ReadCursor
    <2>3. UNCHANGED <<opStatus, requests, todo, op>>
      BY <1>1 DEF ReadCursor, db
    <2>4. QED BY <2>1, <2>2, <2>3, GotoRecorded
  <1>2. CASE StaleCursor(t)
    BY <1>2, ReturnRecorded DEF StaleCursor, db
  <1>3. CASE SyncEvent(t)
    <2>1. UNCHANGED <<opStatus, requests>>
      BY <1>3 DEF SyncEvent, db
    <2>2. Return(t) \/ UNCHANGED <<todo, op, pc, facts>>
      BY <1>3 DEF SyncEvent
    <2>3. QED BY <2>1, <2>2, ReturnRecorded, StutterRecorded
  <1>4. CASE SyncFails(t)
    BY <1>4, ReturnRecorded DEF SyncFails
  <1>5. QED BY <1>1, <1>2, <1>3, <1>4 DEF Journalling

LEMMA ConsentRecorded ==
  ASSUME TypeOK,
         \/ IssueChallenge
         \/ \E t \in FinalizeCmds :
              FinalizeAttest(t) \/ FinalizeLocks(t) \/ FinalizeSteps(t)
  PROVE  RecordSafe
  <1>1. CASE IssueChallenge
    BY <1>1, StutterRecorded DEF IssueChallenge, local
  <1>2. ASSUME NEW t \in FinalizeCmds,
               FinalizeAttest(t) \/ FinalizeLocks(t) \/ FinalizeSteps(t)
        PROVE  RecordSafe
    <2>0. t \in Threads
      BY ThreadKinds
    <2>1. CASE FinalizeAttest(t)
      BY <2>0, <2>1, GotoRecorded DEF FinalizeAttest
    <2>2. CASE FinalizeLocks(t)
      BY <2>0, <2>2, ReturnRecorded DEF FinalizeLocks, LockOn, db
    <2>3. CASE FinalizeRead(t)
      <3>1. UNCHANGED <<opStatus, requests>>
        BY <2>3 DEF FinalizeRead, db
      <3>2. \/ Return(t)
            \/ Goto(t, "approve") /\ UNCHANGED <<todo, op, facts>>
        BY <2>3 DEF FinalizeRead
      <3>3. QED BY <2>0, <3>1, <3>2, ReturnRecorded, GotoRecorded
    <2>4. CASE FinalizeApprove(t)
      BY <2>0, <2>4, EventRecorded DEF FinalizeApprove
    <2>5. QED BY <1>2, <2>1, <2>2, <2>3, <2>4 DEF FinalizeSteps
  <1>3. QED BY <1>1, <1>2

\* A rollback begins only when every applied operation is recorded
\* (rollback_authorization).
LEMMA BeginRecorded ==
  ASSUME TypeOK,
         \/ \E t \in StartCmds : \/ StartBegin(t) \/ StartLocks(t)
                                 \/ StartLapses(t) \/ StartConsume(t)
         \/ \E t \in RollbackCmds : RollbackBegin(t) \/ RollbackLocks(t)
  PROVE  RecordSafe
  <1>1. ASSUME NEW t \in StartCmds,
               \/ StartBegin(t) \/ StartLocks(t)
               \/ StartLapses(t) \/ StartConsume(t)
        PROVE  RecordSafe
    <2>0. t \in Threads /\ t \notin RollbackCmds
      BY ThreadKinds
    <2>1. CASE StartBegin(t)
      BY <2>0, <2>1, GotoRecorded DEF StartBegin, db
    <2>2. CASE StartLocks(t)
      BY <2>0, <2>2, ReturnRecorded DEF StartLocks, LockOn, db
    <2>3. CASE StartLapses(t)
      BY <2>3, StutterRecorded DEF StartLapses, local
    <2>4. CASE StartConsume(t)
      <3>1. UNCHANGED <<opStatus, requests>>
        BY <2>4 DEF StartConsume
      <3>2. CASE Return(t)
        BY <2>0, <3>1, <3>2, ReturnRecorded
      <3>3. CASE ~Return(t)
        <4>1. /\ Goto(t, "cursor") /\ UNCHANGED <<op, facts>>
              /\ \A u \in Threads \ {t} : todo'[u] = todo[u]
          BY <2>4, <3>3 DEF StartConsume, TypeOK, LocalType
        <4>2. CommandsRecorded
          BY <2>0, <4>1, ThreadKinds
             DEF CommandsRecorded, Goto, TypeOK, PositionType
        <4>3. QED
          BY <3>1, <4>1, <4>2, RowsRecorded
             DEF RecordSafe, StatusRecorded, TypeOK, TableType
      <3>4. QED BY <3>2, <3>3
    <2>5. QED BY <1>1, <2>1, <2>2, <2>3, <2>4
  <1>2. ASSUME NEW t \in RollbackCmds, RollbackBegin(t) \/ RollbackLocks(t)
        PROVE  RecordSafe
    <2>0. t \in Threads
      BY ThreadKinds
    <2>1. CASE RollbackBegin(t)
      <3>1. PICK applied :
              /\ \A o \in applied : Recorded(o)
              /\ todo' = [todo EXCEPT ![t] = applied]
        BY <2>1 DEF RollbackBegin, Authorized, Recorded
      <3>2. Goto(t, "cursor") /\ UNCHANGED <<op, facts, opStatus, requests>>
            /\ journal' = journal
        BY <2>1 DEF RollbackBegin, db
      <3>3. \A o : Recorded(o) => Recorded(o)'
        BY <3>2 DEF Recorded
      <3>4. CommandsRecorded
        BY <2>0, <3>1, <3>2, <3>3, ThreadKinds
           DEF CommandsRecorded, Goto, TypeOK, PositionType, LocalType
      <3>5. QED
        BY <3>2, <3>4, RowsRecorded
           DEF RecordSafe, StatusRecorded, TypeOK, TableType
    <2>2. CASE RollbackLocks(t)
      BY <2>0, <2>2, ReturnRecorded DEF RollbackLocks, LockOn, db
    <2>3. QED BY <1>2, <2>1, <2>2
  <1>3. QED BY <1>1, <1>2

\* An operation that is validated is one the rollback found recorded, and it
\* keeps the status the rollback read.
LEMMA ValidateRecorded ==
  ASSUME TypeOK, JournalKept, RecordInv, NEW t \in Movers, LoopValidate(t)
  PROVE  RecordSafe
  <1>0. t \in Threads
    BY ThreadKinds
  <1>1. PICK o \in todo[t] :
          /\ PersistEvent(t, "preconditions_validated", o, 0,
               IF Dir(t) = "forward" THEN "preflight_ok" ELSE seen[t][o],
               RunningSession(t), "intent")
          /\ op' = [op EXCEPT ![t] = o]
    BY <1>0 DEF LoopValidate
  <1>2. UNCHANGED <<requests, todo, facts>> /\ Goto(t, "intent")
    BY <1>1 DEF LoopValidate, PersistEvent
  <1>3. \A p : Recorded(p) => Recorded(p)'
    BY <1>1, RecordedForGood DEF PersistEvent, TypeOK, TableType
  <1>4. t \in RollbackCmds => Recorded(o)
    BY <1>1 DEF RecordInv
  <1>5. StatusRecorded
    <2>1. opStatus' = IF o = NoOp THEN opStatus
            ELSE [opStatus EXCEPT ![o] = IF Dir(t) = "forward"
                                         THEN "preflight_ok" ELSE seen[t][o]]
      BY <1>1 DEF PersistEvent
    <2>2. Dir(t) = "forward" \/ Recorded(o)'
      BY <1>3, <1>4, ThreadKinds DEF Dir
    <2>3. "preflight_ok" \notin AppliedStatuses
      BY DEF AppliedStatuses
    <2>4. ASSUME NEW p \in Ops, opStatus'[p] \in AppliedStatuses
          PROVE  opStatus[p] \in AppliedStatuses \/ Recorded(p)'
      <3>1. CASE p = o /\ o # NoOp
        BY <2>1, <2>2, <2>3, <2>4, <3>1 DEF TypeOK, TableType
      <3>2. CASE ~(p = o /\ o # NoOp)
        BY <2>1, <2>4, <3>2 DEF TypeOK, TableType
      <3>3. QED BY <3>1, <3>2
    <2>5. QED BY <2>4 DEF StatusRecorded
  <1>6. CommandsRecorded
    <2>1. ASSUME NEW u \in RollbackCmds, pc'[u] = "intent"
          PROVE  (pc[u] = "intent" /\ op'[u] = op[u]) \/ Recorded(op[u])'
      <3>1. CASE u = t
        <4>1. op'[u] = o
          BY <1>0, <1>1, <3>1 DEF TypeOK, LocalType
        <4>2. \E i \in 1..Len(journal') :
                journal'[i].op = o /\ journal'[i].kind = "applied_observed"
          BY <1>3, <1>4, <2>1, <3>1 DEF Recorded
        <4>3. QED BY <4>1, <4>2 DEF Recorded
      <3>2. CASE u # t
        BY <1>1, <1>2, <2>1, <3>2, ThreadKinds
           DEF Goto, TypeOK, PositionType, LocalType
      <3>3. QED BY <3>1, <3>2
    <2>2. QED BY <1>2, <2>1 DEF CommandsRecorded
  <1>7. RequestsRecorded
    BY <1>2, RowsRecorded DEF TypeOK, TableType
  <1>8. QED BY <1>5, <1>6, <1>7 DEF RecordSafe

\* A rollback requests to undo what it has validated.
LEMMA IntentRecorded ==
  ASSUME TypeOK, JournalKept, RecordInv, NEW t \in Movers, Intent(t)
  PROVE  RecordSafe
  <1>0. t \in Threads
    BY ThreadKinds
  <1>1. PICK k, q :
          PersistEvent(t, k, op[t], q, RunningOp(t), RunningSession(t),
                       "dispatch")
    BY DEF Intent
  <1>2. /\ requests' = Append(requests,
             [op |-> op[t], dir |-> Dir(t), seq |-> Len(journal) + 1,
              state |-> "intent_durable"])
        /\ UNCHANGED <<todo, op, facts>> /\ Goto(t, "dispatch")
    BY <1>1 DEF Intent, PersistEvent
  <1>3. \A p : Recorded(p) => Recorded(p)'
    BY <1>1, RecordedForGood DEF PersistEvent, TypeOK, TableType
  <1>4. RunningOp(t) \notin AppliedStatuses
    BY DEF RunningOp, AppliedStatuses
  <1>5. StatusRecorded
    BY <1>1, <1>4 DEF StatusRecorded, PersistEvent, TypeOK, TableType
  <1>6. CommandsRecorded
    BY <1>0, <1>2, ThreadKinds DEF CommandsRecorded, Goto, TypeOK, PositionType
  <1>7. ASSUME NEW i \in 1..Len(requests'), requests'[i].dir = "rollback"
        PROVE  \/ /\ i \in 1..Len(requests)
                  /\ requests'[i].op = requests[i].op
                  /\ requests'[i].dir = requests[i].dir
               \/ Recorded(requests[i].op)'
    <2>1. CASE i \in 1..Len(requests)
      BY <1>2, <2>1 DEF TypeOK, TableType
    <2>2. CASE i \notin 1..Len(requests)
      <3>1. requests'[i] = [op |-> op[t], dir |-> Dir(t),
                            seq |-> Len(journal) + 1,
                            state |-> "intent_durable"]
        BY <1>2, <2>2 DEF TypeOK, TableType
      <3>2. Dir(t) = "rollback" /\ requests'[i].op = op[t]
        BY <1>7, <3>1
      <3>3. Recorded(op[t])
        BY <3>2, ThreadKinds DEF Dir, Intent, RecordInv
      <3>4. \E j \in 1..Len(journal') :
              journal'[j].op = op[t] /\ journal'[j].kind = "applied_observed"
        BY <1>3, <3>3 DEF Recorded
      <3>5. QED BY <3>2, <3>4 DEF Recorded
    <2>3. QED BY <2>1, <2>2
  <1>8. RequestsRecorded
    BY <1>2, <1>7 DEF RequestsRecorded
  <1>9. QED BY <1>5, <1>6, <1>8 DEF RecordSafe

\* The event of an observed success is the record itself.
LEMMA ObserveRecorded ==
  ASSUME TypeOK, NEW t \in Movers, Observe(t)
  PROVE  RecordSafe
  <1>0. t \in Threads
    BY ThreadKinds
  <1>1. SameRequests
    BY SetRequestFacts
       DEF Observe, SameRequests, TypeOK, TableType, RequestStates
  <1>2. /\ todo' = [todo EXCEPT ![t] = @ \ {op[t]}]
        /\ op' = [op EXCEPT ![t] = NoOp]
        /\ Goto(t, "next") /\ facts' = facts
    BY DEF Observe, PersistEvent
  <1>3. CommandsRecorded
    BY <1>0, <1>2, ThreadKinds
       DEF CommandsRecorded, Goto, TypeOK, PositionType, LocalType
  <1>4. CASE Dir(t) = "forward"
    <2>1. PersistEvent(t, "applied_observed", op[t], 0, "applied", "running",
                       "next")
      BY <1>4 DEF Observe
    <2>2. ASSUME NEW p \in Ops, opStatus'[p] \in AppliedStatuses
          PROVE  opStatus[p] \in AppliedStatuses \/ Recorded(p)'
      <3>1. CASE p = op[t]
        <4>1. /\ Len(journal') \in 1..Len(journal')
              /\ journal'[Len(journal')].op = p
              /\ journal'[Len(journal')].kind = "applied_observed"
          BY <2>1, <3>1 DEF PersistEvent, TypeOK, TableType
        <4>2. QED BY <4>1 DEF Recorded
      <3>2. CASE p # op[t]
        BY <2>1, <2>2, <3>2 DEF PersistEvent, TypeOK, TableType
      <3>3. QED BY <3>1, <3>2
    <2>3. StatusRecorded
      BY <2>2 DEF StatusRecorded
    <2>4. QED
      BY <1>1, <1>2, <1>3, <2>3, RowsRecorded DEF RecordSafe, TypeOK, TableType
  <1>5. CASE Dir(t) # "forward"
    <2>1. PersistEvent(t, "rolled_back_observed", op[t], 0, "rolled_back",
                       "rolling_back", "next")
      BY <1>5 DEF Observe
    <2>2. QED
      BY <1>0, <1>1, <1>3, <2>1, EventRecorded DEF AppliedStatuses
  <1>6. QED BY <1>4, <1>5

LEMMA RefuseRecorded ==
  ASSUME TypeOK, NEW t \in Threads, NEW o, Refuse(t, o)
  PROVE  RecordSafe
  <1>1. \E k, s, st : /\ PersistEvent(t, k, o, 0, s, st, "finish")
                      /\ s \notin AppliedStatuses
    BY DEF Refuse, AppliedStatuses
  <1>2. QED BY <1>1, EventRecorded DEF Refuse

LEMMA MoveRecorded ==
  ASSUME TypeOK, LogInv, JournalKept, RecordInv, NEW t \in Movers,
         MoveSteps(t) \/ WorkerSteps(t)
  PROVE  RecordSafe
  <1>0. t \in Threads
    BY ThreadKinds
  <1>r. ASSUME Refusal(t) PROVE RecordSafe
    BY <1>0, <1>r, ReturnRecorded DEF Refusal, db
  <1>1. CASE OpenSessionFails(t) \/ IntentRefused(t) \/ ObserveRefused(t)
    BY <1>1, <1>r, MoveRefusals
  <1>2. CASE \/ DispatchRefused(t) \/ Receive(t) \/ DispatchFails(t)
             \/ CheckNotApplied(t) \/ VerifyFails(t)
    <2>1. ASSUME NEW state \in AnswerStates,
                 NEW label \in {"refuse", "mark", "verify", "contradict"},
                 Answered(t, state, label)
          PROVE  RecordSafe
      <3>1. SameRequests
        BY <2>1, SetRequestFacts
           DEF Answered, Transition, SameRequests, TypeOK, TableType,
               AnswerStates, RequestStates
      <3>2. QED
        BY <1>0, <2>1, <3>1, GotoRecorded DEF Answered, Transition
    <2>2. QED BY <1>2, <1>r, <2>1, AnswerShapes
  <1>3. CASE LoopFinish(t) \/ LoopStop(t) \/ FinishRefused(t)
    BY <1>0, <1>3, FinishRecorded DEF LoopFinish, LoopStop, FinishRefused
  <1>4. CASE LoopRefuse(t) \/ RefuseAfterRequest(t)
    BY <1>0, <1>4, RefuseRecorded DEF LoopRefuse, RefuseAfterRequest
  <1>5. CASE LoopValidate(t) \/ Intent(t) \/ Observe(t)
    BY <1>5, ValidateRecorded, IntentRecorded, ObserveRecorded
  <1>6. CASE MarkAmbiguousOutcome(t)
    BY <1>0, <1>6, EventRecorded
       DEF MarkAmbiguousOutcome, RunningOp, AppliedStatuses
  <1>7. CASE Dispatch(t)
    BY <1>0, <1>7, GotoRecorded DEF Dispatch, db
  <1>8. CASE WorkerSteps(t)
    BY <1>8, StutterRecorded DEF WorkerSteps, WorkerMutates, WorkerDeclines, db
  <1>9. QED
    BY <1>1, <1>2, <1>3, <1>4, <1>5, <1>6, <1>7, <1>8 DEF MoveSteps

\* Recovery calls an operation applied when its own event says so, when the
\* rollback it did not start was to undo it, or when it was applied before.
LEMMA ReconcileRecorded ==
  ASSUME TypeOK, LogInv, JournalKept, RecordInv, ReconcileRequest
  PROVE  RecordSafe
  <1>0. Recovery \in Threads
    BY ThreadKinds
  <1>1. rid[Recovery] \in 1..Len(facts) /\ Fact \in Requests
    <2>1. rid[Recovery] \in 1..Len(facts)
      BY <1>0 DEF ReconcileRequest, AtFact, LogInv, InHand, TypeOK, LocalType
    <2>2. QED BY <2>1 DEF Fact, TypeOK, LocalType
  <1>2. PICK kind, verdict, newOp, newStatus :
          /\ verdict = Verdict(Fact) /\ kind = VerdictKind(Fact)
          /\ newOp = VerdictOp(Fact)
          /\ PersistEvent(Recovery, kind, Fact.op, rid[Recovery], newOp,
                          newStatus, "reconcile")
    BY DEF ReconcileRequest
  <1>3. verdict \in RequestStates
    BY <1>2 DEF Verdict, RequestStates
  <1>4. SameRequests
    BY <1>2, <1>3, SetRequestFacts
       DEF ReconcileRequest, SameRequests, TypeOK, TableType
  <1>5. /\ UNCHANGED <<todo, op, facts>> /\ Goto(Recovery, "reconcile")
        /\ journal' = Append(journal, [kind |-> kind, op |-> Fact.op,
                                       req |-> rid[Recovery]])
        /\ opStatus' = IF Fact.op = NoOp THEN opStatus
                       ELSE [opStatus EXCEPT ![Fact.op] = newOp]
    BY <1>2 DEF ReconcileRequest, PersistEvent
  <1>6. ASSUME newOp \in AppliedStatuses
        PROVE  \/ opStatus[Fact.op] \in AppliedStatuses
               \/ \E j \in 1..Len(journal') :
                    /\ journal'[j].op = Fact.op
                    /\ journal'[j].kind = "applied_observed"
    <2>1. \/ verdict = "proven_not_started" /\ Fact.dir # "forward"
          \/ verdict = "proven_applied"
          \/ newOp = opStatus[Fact.op]
      BY <1>2, <1>6 DEF VerdictOp, AppliedStatuses
    <2>2. CASE verdict = "proven_not_started" /\ Fact.dir # "forward"
      <3>1. Fact.dir = "rollback"
        BY <1>1, <2>2 DEF Requests, Directions
      <3>2. Recorded(Fact.op)
        BY <1>1, <3>1 DEF Fact, RecordInv
      <3>3. Recorded(Fact.op) => \E j \in 1..Len(journal') :
                                   /\ journal'[j].op = Fact.op
                                   /\ journal'[j].kind = "applied_observed"
        BY <1>5 DEF Recorded, TypeOK, TableType
      <3>4. QED BY <3>2, <3>3
    <2>3. CASE verdict = "proven_applied"
      <3>1. kind = "applied_observed"
        BY <1>2, <2>3 DEF VerdictKind
      <3>2. /\ Len(journal') \in 1..Len(journal')
            /\ journal'[Len(journal')].op = Fact.op
            /\ journal'[Len(journal')].kind = "applied_observed"
        BY <1>5, <3>1 DEF TypeOK, TableType
      <3>3. QED BY <3>2
    <2>4. CASE newOp = opStatus[Fact.op]
      BY <1>6, <2>4
    <2>5. QED BY <2>1, <2>2, <2>3, <2>4
  <1>7. StatusRecorded
    <2>1. ASSUME NEW p \in Ops, opStatus'[p] \in AppliedStatuses
          PROVE  opStatus[p] \in AppliedStatuses \/ Recorded(p)'
      <3>1. CASE p = Fact.op
        <4>1. newOp \in AppliedStatuses \/ opStatus[p] \in AppliedStatuses
          BY <1>5, <2>1, <3>1 DEF TypeOK, TableType
        <4>2. QED BY <1>6, <3>1, <4>1 DEF Recorded
      <3>2. CASE p # Fact.op
        BY <1>5, <2>1, <3>2 DEF TypeOK, TableType
      <3>3. QED BY <3>1, <3>2
    <2>2. QED BY <2>1 DEF StatusRecorded
  <1>8. CommandsRecorded
    BY <1>0, <1>5, ThreadKinds DEF CommandsRecorded, Goto, TypeOK, PositionType
  <1>9. QED
    BY <1>4, <1>5, <1>7, <1>8, RowsRecorded DEF RecordSafe, TypeOK, TableType

LEMMA RecoveryRecorded ==
  ASSUME TypeOK, LogInv, JournalKept, RecordInv,
         RecoverBegin \/ RecoverLocks \/ RecoverySteps
  PROVE  RecordSafe
  <1>0. Recovery \in Threads
    BY ThreadKinds
  <1>1. CASE RecoverBegin
    BY <1>0, <1>1, GotoRecorded DEF RecoverBegin, db
  <1>2. CASE RecoverLocks
    BY <1>0, <1>2, ReturnRecorded DEF RecoverLocks, LockOn, db
  <1>3. CASE ReconcileSettled
    BY <1>3, StutterRecorded DEF ReconcileSettled, db
  <1>4. CASE ReconcileRefused
    BY <1>0, <1>4, ReturnRecorded DEF ReconcileRefused, db
  <1>5. CASE Assess
    BY <1>0, <1>5, ReturnRecorded DEF Assess
  <1>6. QED
    BY <1>1, <1>2, <1>3, <1>4, <1>5, ReconcileRecorded DEF RecoverySteps

LEMMA CancelRecorded ==
  ASSUME TypeOK,
         \/ \E t \in CancelCmds :
              CancelBegin(t) \/ CancelLocks(t) \/ CancelSteps(t)
         \/ RequestPause \/ RequestCancel
  PROVE  RecordSafe
  <1>1. CASE RequestPause \/ RequestCancel
    BY <1>1, StutterRecorded DEF RequestPause, RequestCancel, local
  <1>2. ASSUME NEW t \in CancelCmds,
               CancelBegin(t) \/ CancelLocks(t) \/ CancelSteps(t)
        PROVE  RecordSafe
    <2>0. t \in Threads
      BY ThreadKinds
    <2>1. CASE CancelBegin(t)
      <3>1. \E label : label # "intent" /\ Goto(t, label)
        BY <2>1 DEF CancelBegin
      <3>2. QED BY <2>0, <2>1, <3>1, GotoRecorded DEF CancelBegin, db
    <2>2. CASE CancelLocks(t)
      BY <2>0, <2>2, ReturnRecorded DEF CancelLocks, LockOn, db
    <2>3. CASE CancelInvalidate(t)
      <3>1. UNCHANGED <<opStatus, requests>>
        BY <2>3 DEF CancelInvalidate
      <3>2. \/ Return(t)
            \/ /\ \E label : label # "intent" /\ Goto(t, label)
               /\ UNCHANGED <<todo, op, facts>>
        BY <2>3 DEF CancelInvalidate
      <3>3. QED BY <2>0, <3>1, <3>2, ReturnRecorded, GotoRecorded
    <2>4. CASE CancelUnstarted(t)
      BY <2>0, <2>4, ReturnRecorded DEF CancelUnstarted
    <2>5. CASE CancelFinish(t)
      BY <2>0, <2>5, FinishRecorded DEF CancelFinish
    <2>6. QED BY <1>2, <2>1, <2>2, <2>3, <2>4, <2>5 DEF CancelSteps
  <1>3. QED BY <1>1, <1>2

LEMMA EnvironmentRecorded ==
  ASSUME TypeOK,
         \/ \E i \in orphans : OrphanMutates(i) \/ OrphanDies(i)
         \/ CrashRestart
         \/ \E o \in Ops : UserChange(o)
  PROVE  RecordSafe
  <1>1. CASE \/ \E i \in orphans : OrphanMutates(i) \/ OrphanDies(i)
             \/ \E o \in Ops : UserChange(o)
    BY <1>1, StutterRecorded DEF OrphanMutates, OrphanDies, UserChange, db, local
  <1>2. CASE CrashRestart
    <2>1. /\ UNCHANGED <<opStatus, requests>> /\ facts' = <<>>
          /\ \A t \in Threads : pc'[t] = "idle" /\ todo'[t] = {}
      BY <1>2 DEF CrashRestart
    <2>2. QED
      BY <2>1, RowsRecorded, ThreadKinds
         DEF RecordSafe, StatusRecorded, CommandsRecorded, TypeOK, TableType
  <1>3. QED BY <1>1, <1>2

LEMMA RecordStep ==
  ASSUME TypeOK, TypeOK', LogInv, RecordInv, [Next]_vars
  PROVE  RecordInv'
  <1>1. CASE Next
    <2>1. JournalKept
      BY <1>1, JournalOnlyGrows
    <2>2. RecordSafe
      BY <1>1, <2>1, JournallingRecorded, ConsentRecorded, BeginRecorded,
         MoveRecorded, CancelRecorded, RecoveryRecorded, EnvironmentRecorded
         DEF Next
    <2>3. QED BY <2>1, <2>2, KeepsRecord DEF RecordSafe
  <1>2. CASE UNCHANGED vars
    <2>1. UNCHANGED <<opStatus, todo, pc, op, requests, facts, journal>>
      BY <1>2 DEF vars, db, local
    <2>2. QED BY <2>1 DEF RecordInv, Recorded
  <1>3. QED BY <1>1, <1>2

\* Every operation reported applied has an applied event in the journal
\* (persist_request_outcome, persist_event_with_request_proof), whichever
\* command or recovery reported it, so rollback_authorization never refuses to
\* undo what was done.
THEOREM AppliedRecorded == Spec => []AppliedIsJournalled
  <1>1. Init => TypeOK /\ LogInv /\ RecordInv
    <2>1. Init => RecordInv
      BY ThreadKinds DEF Init, RecordInv, AppliedStatuses
    <2>2. QED BY <2>1, TypeInit, LogInit
  <1>2. TypeOK /\ LogInv /\ RecordInv /\ [Next]_vars
          => (TypeOK /\ LogInv /\ RecordInv)'
    BY LogStep, RecordStep
  <1>3. RecordInv => AppliedIsJournalled
    BY DEF RecordInv, Recorded, AppliedIsJournalled, Authorized
  <1>4. QED BY <1>1, <1>2, <1>3, PTL DEF Spec

-----------------------------------------------------------------------------
(***************************************************************************)
(* Executions whose commands do not overlap: the panel disables its        *)
(* buttons while a command runs, so until it enables them again (Overlap)  *)
(* the user gives one command at a time.  Every plan, every set of         *)
(* threads, crash, fault and user change is covered.  What is said of the  *)
(* disk, after the sections on blocking, final statuses and cycles, is     *)
(* also for workers that do not act after their caller gave up on them,    *)
(* and is said of the files the user leaves alone.                         *)
(***************************************************************************)

-----------------------------------------------------------------------------
(* One command at a time *)

\* At most one thread is in a command, none but recovery while the service
\* starts, and a moving command runs only while nothing blocks it.  The session
\* status keeps the one request that could lock the journal meanwhile,
\* issue_execution_consent_challenge, away from a moving command.
OneCommand ==
  /\ ~Overlap
  /\ \A t, u \in Threads : t = u \/ pc[t] = "idle" \/ pc[u] = "idle"
  /\ \A t \in Threads : pc[t] = "idle" => ~unsynced[t]
  /\ booting => \A t \in Threads \ {Recovery} : pc[t] = "idle"
  /\ \A t \in Movers : pc[t] # "idle" =>
       ~locked /\ recovery # "ambiguous" /\ status # "awaiting_confirmation"

\* Thread t may take a step: it is in a command, or nobody is.
Turn(t) ==
  \/ pc[t] # "idle"
  \/ (\A u \in Threads : pc[u] = "idle") /\ (booting => t = Recovery)

\* What one step of thread t leaves alone and must see to.
Alone(t) ==
  /\ Turn(t)
  /\ \A u \in Threads \ {t} : pc'[u] = pc[u] /\ unsynced'[u] = unsynced[u]
  /\ pc'[t] = "idle" => ~unsynced'[t]
  /\ booting' => booting
  /\ t \in Movers /\ pc'[t] # "idle" =>
       ~locked' /\ recovery' # "ambiguous" /\ status' # "awaiting_confirmation"

\* A step nobody's command takes.
Aside ==
  /\ UNCHANGED <<pc, unsynced, booting>>
  /\ \A t \in Movers : pc[t] # "idle" =>
       ~locked' /\ recovery' # "ambiguous" /\ status' # "awaiting_confirmation"

LEMMA AloneKeeps ==
  ASSUME OneCommand, NEW t \in Threads, Alone(t)
  PROVE  OneCommand'
  BY ThreadKinds DEF OneCommand, Alone, Turn

LEMMA AsideKeeps ==
  ASSUME OneCommand, Aside
  PROVE  OneCommand'
  BY ThreadKinds DEF OneCommand, Aside

\* A command begins when nobody is in one.
LEMMA MayCallTurn ==
  ASSUME OneCommand, NEW t, MayCall(t)
  PROVE  /\ \A u \in Threads : pc[u] = "idle"
         /\ ~booting /\ ~locked /\ Turn(t)
  BY DEF OneCommand, MayCall, Turn

LEMMA AloneReturn ==
  ASSUME TypeOK, NEW t \in Threads, Turn(t), Return(t)
  PROVE  Alone(t)
  BY DEF Alone, Return, Goto, TypeOK, PositionType

\* A command goes on to another label; whatever a moving command writes leaves
\* it unblocked.
LEMMA AloneGoto ==
  ASSUME TypeOK, NEW t \in Threads, Turn(t), NEW label, label # "idle",
         Goto(t, label), booting' = booting,
         \A u \in Threads \ {t} : unsynced'[u] = unsynced[u],
         t \in Movers => /\ ~locked' /\ recovery' # "ambiguous"
                         /\ status' # "awaiting_confirmation"
  PROVE  Alone(t)
  BY DEF Alone, Goto, TypeOK, PositionType

LEMMA AloneEvent ==
  ASSUME TypeOK, OneCommand, NEW t \in Threads, pc[t] # "idle", NEW kind, NEW o,
         NEW req, NEW newOp, NEW newStatus, NEW next,
         newStatus # "awaiting_confirmation", next # "idle",
         PersistEvent(t, kind, o, req, newOp, newStatus, next)
  PROVE  Alone(t)
  <1>1. /\ Goto(t, next) /\ booting' = booting /\ locked' = locked
        /\ status' = newStatus /\ recovery' \in {"not_required", recovery}
        /\ \A u \in Threads \ {t} : unsynced'[u] = unsynced[u]
    BY DEF PersistEvent, TypeOK, PositionType
  <1>2. t \in Movers => ~locked /\ recovery # "ambiguous"
    BY DEF OneCommand
  <1>3. Turn(t)
    BY DEF Turn
  <1>4. t \in Movers => /\ ~locked' /\ recovery' # "ambiguous"
                        /\ status' # "awaiting_confirmation"
    BY <1>1, <1>2
  <1>5. QED BY <1>1, <1>3, <1>4, AloneGoto

LEMMA AloneFinish ==
  ASSUME TypeOK, OneCommand, NEW t \in Threads, pc[t] # "idle", NEW newStatus,
         newStatus # "awaiting_confirmation", FinishExecution(t, newStatus)
  PROVE  Alone(t)
  BY AloneEvent DEF FinishExecution

LEMMA AloneJournalling ==
  ASSUME TypeOK, OneCommand, NEW t \in Threads, Journalling(t)
  PROVE  Alone(t)
  <1>1. CASE ReadCursor(t)
    <2>1. \E label : label # "idle" /\ Goto(t, label)
      BY <1>1 DEF ReadCursor
    <2>2. Turn(t)
      BY <1>1 DEF ReadCursor, Turn
    <2>3. /\ UNCHANGED <<unsynced, booting, locked, recovery, status>>
          /\ t \in Movers => /\ ~locked /\ recovery # "ambiguous"
                             /\ status # "awaiting_confirmation"
      BY <1>1 DEF ReadCursor, db, session, OneCommand
    <2>4. QED BY <2>1, <2>2, <2>3, AloneGoto
  <1>2. CASE StaleCursor(t)
    BY <1>2, AloneReturn DEF StaleCursor, EventLabels, Turn
  <1>3. CASE SyncEvent(t)
    <2>1. pc[t] # "idle" /\ Turn(t)
      BY <1>3 DEF SyncEvent, OneCommand, Turn
    <2>2. CASE Return(t)
      BY <2>1, <2>2, AloneReturn
    <2>3. CASE ~Return(t)
      <3>1. UNCHANGED <<pc, booting, locked, recovery, status>>
        BY <1>3, <2>3 DEF SyncEvent, db, session
      <3>2. \A u \in Threads \ {t} : unsynced'[u] = unsynced[u]
        BY <1>3, <2>3 DEF SyncEvent, TypeOK, PositionType
      <3>3. QED BY <2>1, <3>1, <3>2 DEF Alone, OneCommand
    <2>4. QED BY <2>2, <2>3
  <1>4. CASE SyncFails(t)
    BY <1>4, AloneReturn DEF SyncFails, OneCommand, Turn
  <1>5. QED BY <1>1, <1>2, <1>3, <1>4 DEF Journalling

LEMMA AloneConsent ==
  ASSUME TypeOK, OneCommand,
         \/ IssueChallenge
         \/ \E t \in FinalizeCmds :
              FinalizeAttest(t) \/ FinalizeLocks(t) \/ FinalizeSteps(t)
  PROVE  Aside \/ \E t \in Threads : Alone(t)
  <1>1. CASE IssueChallenge
    BY <1>1 DEF IssueChallenge, local, OneCommand, Aside
  <1>2. ASSUME NEW t \in FinalizeCmds,
               FinalizeAttest(t) \/ FinalizeLocks(t) \/ FinalizeSteps(t)
        PROVE  Alone(t)
    <2>0. t \in Threads /\ t \notin Movers
      BY ThreadKinds
    <2>1. CASE FinalizeAttest(t)
      BY <2>0, <2>1, MayCallTurn, AloneGoto DEF FinalizeAttest
    <2>2. CASE FinalizeLocks(t)
      BY <2>0, <2>2, MayCallTurn, AloneReturn DEF FinalizeLocks, LockOn
    <2>3. CASE FinalizeRead(t)
      <3>1. Turn(t)
        BY <2>3 DEF FinalizeRead, Turn
      <3>2. \/ Return(t)
            \/ Goto(t, "approve") /\ UNCHANGED <<unsynced, booting>>
        BY <2>3 DEF FinalizeRead
      <3>3. QED BY <2>0, <3>1, <3>2, AloneReturn, AloneGoto
    <2>4. CASE FinalizeApprove(t)
      BY <2>0, <2>4, AloneEvent DEF FinalizeApprove
    <2>5. QED BY <1>2, <2>1, <2>2, <2>3, <2>4 DEF FinalizeSteps
  <1>3. QED BY <1>1, <1>2, ThreadKinds

LEMMA AloneBegin ==
  ASSUME TypeOK, OneCommand,
         \/ \E t \in StartCmds : \/ StartBegin(t) \/ StartLocks(t)
                                 \/ StartLapses(t) \/ StartConsume(t)
         \/ \E t \in RollbackCmds : RollbackBegin(t) \/ RollbackLocks(t)
  PROVE  Aside \/ \E t \in Threads : Alone(t)
  <1>1. ASSUME NEW t \in StartCmds,
               StartBegin(t) \/ StartLocks(t) \/ StartConsume(t)
        PROVE  Alone(t)
    <2>0. t \in Threads /\ t \in Movers
      BY ThreadKinds
    <2>1. CASE StartBegin(t)
      <3>1. Turn(t) /\ ~locked
        BY <2>1, MayCallTurn DEF StartBegin
      <3>2. /\ UNCHANGED <<unsynced, booting, locked, recovery, status>>
            /\ recovery = "not_required" /\ status = "approved"
            /\ Goto(t, "consume")
        BY <2>1 DEF StartBegin, db, session
      <3>3. QED BY <2>0, <3>1, <3>2, AloneGoto
    <2>2. CASE StartLocks(t)
      BY <2>0, <2>2, MayCallTurn, AloneReturn DEF StartLocks, LockOn
    <2>3. CASE StartConsume(t)
      <3>1. pc[t] # "idle" /\ Turn(t)
        BY <2>3 DEF StartConsume, Turn
      <3>2. \/ Return(t)
            \/ /\ Goto(t, "cursor") /\ status' = "running"
               /\ UNCHANGED <<unsynced, booting, locked, recovery>>
        BY <2>3 DEF StartConsume, ConsumeConsent
      <3>3. ~locked /\ recovery # "ambiguous"
        BY <2>0, <3>1 DEF OneCommand
      <3>4. QED BY <2>0, <3>1, <3>2, <3>3, AloneReturn, AloneGoto
    <2>4. QED BY <1>1, <2>1, <2>2, <2>3
  <1>2. ASSUME NEW t \in StartCmds, StartLapses(t)
        PROVE  Aside
    <2>1. \A u \in Movers : pc[u] = "idle"
      BY <1>2, MayCallTurn, ThreadKinds DEF StartLapses
    <2>2. QED BY <1>2, <2>1 DEF StartLapses, local, Aside
  <1>3. ASSUME NEW t \in RollbackCmds, RollbackBegin(t) \/ RollbackLocks(t)
        PROVE  Alone(t)
    <2>0. t \in Threads /\ t \in Movers
      BY ThreadKinds
    <2>1. CASE RollbackBegin(t)
      <3>1. Turn(t) /\ ~locked
        BY <2>1, MayCallTurn DEF RollbackBegin
      <3>2. /\ UNCHANGED <<unsynced, booting, locked, recovery, status>>
            /\ recovery # "ambiguous" /\ status # "awaiting_confirmation"
            /\ Goto(t, "cursor")
        BY <2>1 DEF RollbackBegin, RollbackOpen, MayRollBack, db, session
      <3>3. QED BY <2>0, <3>1, <3>2, AloneGoto
    <2>2. CASE RollbackLocks(t)
      BY <2>0, <2>2, MayCallTurn, AloneReturn DEF RollbackLocks, LockOn
    <2>3. QED BY <1>3, <2>1, <2>2
  <1>4. QED BY <1>1, <1>2, <1>3, ThreadKinds

\* No moving command is at a label of MoveSteps while it is idle, and none of
\* its events hands the session back for confirmation.
LEMMA AloneMove ==
  ASSUME TypeOK, LogInv, OneCommand, NEW t \in Movers,
         MoveSteps(t) \/ WorkerSteps(t)
  PROVE  Aside \/ Alone(t)
  <1>0. t \in Threads
    BY ThreadKinds
  <1>u. ASSUME pc[t] # "idle"
        PROVE  /\ Turn(t) /\ ~locked /\ recovery # "ambiguous"
               /\ status # "awaiting_confirmation"
    BY <1>u DEF Turn, OneCommand
  <1>r. ASSUME Refusal(t), pc[t] # "idle" PROVE Alone(t)
    BY <1>0, <1>u, <1>r, AloneReturn DEF Refusal
  <1>1. CASE OpenSessionFails(t) \/ IntentRefused(t) \/ ObserveRefused(t)
    <2>1. pc[t] # "idle"
      BY <1>1 DEF OpenSessionFails, IntentRefused, ObserveRefused
    <2>2. QED BY <1>1, <1>r, <2>1, MoveRefusals
  <1>2. CASE \/ DispatchRefused(t) \/ Receive(t) \/ DispatchFails(t)
             \/ CheckNotApplied(t) \/ VerifyFails(t)
    <2>1. pc[t] # "idle"
      BY <1>2 DEF DispatchRefused, AtDispatch, Receive, DispatchFails,
                  CheckNotApplied, VerifyFails
    <2>2. ASSUME NEW state \in AnswerStates,
                 NEW label \in {"refuse", "mark", "verify", "contradict"},
                 Answered(t, state, label)
          PROVE  Alone(t)
      BY <1>0, <1>u, <2>1, <2>2, AloneGoto DEF Answered, Transition, session
    <2>3. QED BY <1>2, <1>r, <2>1, <2>2, AnswerShapes
  <1>3. CASE LoopFinish(t) \/ LoopStop(t) \/ FinishRefused(t)
    <2>1. pc[t] # "idle"
      BY <1>3 DEF LoopFinish, LoopStop, FinishRefused
    <2>2. \E s : s # "awaiting_confirmation" /\ FinishExecution(t, s)
      BY <1>3 DEF LoopFinish, LoopStop, FinishRefused, CompletionStatus,
                  RefuseStatus
    <2>3. QED BY <1>0, <2>1, <2>2, AloneFinish
  <1>4. CASE LoopRefuse(t) \/ RefuseAfterRequest(t)
    <2>1. pc[t] # "idle" /\ \E o : Refuse(t, o)
      BY <1>4 DEF LoopRefuse, RefuseAfterRequest
    <2>2. QED BY <1>0, <2>1, AloneEvent DEF Refuse
  <1>5. CASE LoopValidate(t)
    <2>1. pc[t] # "idle"
      BY <1>5 DEF LoopValidate
    <2>2. RunningSession(t) # "awaiting_confirmation"
      BY DEF RunningSession, RunningOp
    <2>3. PICK o, s : PersistEvent(t, "preconditions_validated", o, 0, s,
                                   RunningSession(t), "intent")
      BY <1>5 DEF LoopValidate
    <2>4. QED BY <1>0, <2>1, <2>2, <2>3, AloneEvent
  <1>6. CASE Intent(t)
    <2>1. pc[t] # "idle"
      BY <1>6 DEF Intent
    <2>2. RunningSession(t) # "awaiting_confirmation"
      BY DEF RunningSession, RunningOp
    <2>3. PICK k, q : PersistEvent(t, k, op[t], q, RunningOp(t),
                                   RunningSession(t), "dispatch")
      BY <1>6 DEF Intent
    <2>4. QED BY <1>0, <2>1, <2>2, <2>3, AloneEvent
  <1>7. CASE Observe(t)
    BY <1>0, <1>7, AloneEvent DEF Observe
  <1>8. CASE MarkAmbiguousOutcome(t)
    BY <1>0, <1>8, AloneEvent DEF MarkAmbiguousOutcome
  <1>9. CASE Dispatch(t)
    <2>1. pc[t] # "idle"
      BY <1>9 DEF Dispatch, AtDispatch
    <2>2. QED
      BY <1>0, <1>9, <1>u, <2>1, AloneGoto DEF Dispatch, db, session
  <1>10. CASE WorkerSteps(t)
    BY <1>10 DEF WorkerSteps, WorkerMutates, WorkerDeclines, db, session,
                 OneCommand, Aside
  <1>11. QED
    BY <1>1, <1>2, <1>3, <1>4, <1>5, <1>6, <1>7, <1>8, <1>9, <1>10
       DEF MoveSteps

LEMMA AloneCancel ==
  ASSUME TypeOK, OneCommand,
         \/ \E t \in CancelCmds :
              CancelBegin(t) \/ CancelLocks(t) \/ CancelSteps(t)
         \/ RequestPause \/ RequestCancel
  PROVE  Aside \/ \E t \in Threads : Alone(t)
  <1>1. CASE RequestPause \/ RequestCancel
    BY <1>1 DEF RequestPause, RequestCancel, local, OneCommand, Aside
  <1>2. ASSUME NEW t \in CancelCmds,
               CancelBegin(t) \/ CancelLocks(t) \/ CancelSteps(t)
        PROVE  Alone(t)
    <2>0. t \in Threads /\ t \notin Movers
      BY ThreadKinds
    <2>1. CASE CancelBegin(t)
      <3>1. \E label : label # "idle" /\ Goto(t, label)
        BY <2>1 DEF CancelBegin
      <3>2. QED BY <2>0, <2>1, <3>1, MayCallTurn, AloneGoto DEF CancelBegin
    <2>2. CASE CancelLocks(t)
      BY <2>0, <2>2, MayCallTurn, AloneReturn DEF CancelLocks, LockOn
    <2>3. CASE CancelInvalidate(t)
      <3>1. Turn(t)
        BY <2>3 DEF CancelInvalidate, Turn
      <3>2. \/ Return(t)
            \/ /\ \E label : label # "idle" /\ Goto(t, label)
               /\ UNCHANGED <<unsynced, booting>>
        BY <2>3 DEF CancelInvalidate
      <3>3. QED BY <2>0, <3>1, <3>2, AloneReturn, AloneGoto
    <2>4. CASE CancelUnstarted(t)
      BY <2>0, <2>4, AloneReturn DEF CancelUnstarted, Turn
    <2>5. CASE CancelFinish(t)
      BY <2>0, <2>5, AloneFinish DEF CancelFinish
    <2>6. QED BY <1>2, <2>1, <2>2, <2>3, <2>4, <2>5 DEF CancelSteps
  <1>3. QED BY <1>1, <1>2, ThreadKinds

LEMMA AloneRecovery ==
  ASSUME TypeOK, OneCommand, RecoverBegin \/ RecoverLocks \/ RecoverySteps
  PROVE  Alone(Recovery)
  <1>0. Recovery \in Threads /\ Recovery \notin Movers
    BY ThreadKinds
  <1>1. ASSUME MayRecover PROVE Turn(Recovery)
    BY <1>1, MayCallTurn DEF MayRecover, OneCommand, Turn
  <1>2. CASE RecoverBegin
    BY <1>0, <1>1, <1>2, AloneGoto DEF RecoverBegin
  <1>3. CASE RecoverLocks
    BY <1>0, <1>1, <1>3, AloneReturn DEF RecoverLocks, LockOn
  <1>4. CASE ReconcileSettled
    BY <1>0, <1>4 DEF ReconcileSettled, AtFact, Alone, Turn, OneCommand
  <1>5. CASE ReconcileRequest
    <2>1. pc[Recovery] # "idle"
      BY <1>5 DEF ReconcileRequest, AtFact
    <2>2. PICK k, s : PersistEvent(Recovery, k, Fact.op, rid[Recovery], s,
            IF Verdict(Fact) = "ambiguous" THEN "recovery_ambiguous"
            ELSE "recovery_required", "reconcile")
      BY <1>5 DEF ReconcileRequest
    <2>3. QED BY <1>0, <2>1, <2>2, AloneEvent
  <1>6. CASE ReconcileRefused
    BY <1>0, <1>6, AloneReturn DEF ReconcileRefused, AtFact, Turn
  <1>7. CASE Assess
    BY <1>0, <1>7, AloneReturn DEF Assess, Turn
  <1>8. QED
    BY <1>2, <1>3, <1>4, <1>5, <1>6, <1>7 DEF RecoverySteps

LEMMA OneCommandStep ==
  ASSUME TypeOK, LogInv, OneCommand, [Next]_vars
  PROVE  OneCommand'
  <1>1. CASE \/ \E i \in orphans : OrphanMutates(i) \/ OrphanDies(i)
             \/ \E o \in Ops : UserChange(o)
             \/ UNCHANGED vars
    <2>1. UNCHANGED <<pc, unsynced, booting, locked, recovery, status>>
      BY <1>1 DEF OrphanMutates, OrphanDies, UserChange, vars, db, session,
                  local
    <2>2. QED BY <2>1 DEF OneCommand
  <1>2. CASE CrashRestart
    BY <1>2, ThreadKinds DEF CrashRestart, OneCommand
  <1>3. CASE \/ \E t \in Threads : Journalling(t)
             \/ \E t \in Movers : MoveSteps(t) \/ WorkerSteps(t)
             \/ RecoverBegin \/ RecoverLocks \/ RecoverySteps
    BY <1>3, AloneJournalling, AloneMove, AloneRecovery, AloneKeeps,
       AsideKeeps, ThreadKinds
  <1>4. CASE \/ IssueChallenge
             \/ \E t \in FinalizeCmds :
                  FinalizeAttest(t) \/ FinalizeLocks(t) \/ FinalizeSteps(t)
             \/ \E t \in StartCmds : \/ StartBegin(t) \/ StartLocks(t)
                                     \/ StartLapses(t) \/ StartConsume(t)
             \/ \E t \in RollbackCmds : RollbackBegin(t) \/ RollbackLocks(t)
             \/ \E t \in CancelCmds :
                  CancelBegin(t) \/ CancelLocks(t) \/ CancelSteps(t)
             \/ RequestPause \/ RequestCancel
    BY <1>4, AloneConsent, AloneBegin, AloneCancel, AloneKeeps, AsideKeeps
  <1>5. QED BY <1>1, <1>2, <1>3, <1>4 DEF Next

LEMMA OneCommandInit ==
  ASSUME Init, ~Overlap
  PROVE  OneCommand
  BY ThreadKinds DEF Init, OneCommand

-----------------------------------------------------------------------------
(* Nothing moves while the service is blocked *)

\* Workers that cannot act late are gone with the coordinator that crashed.
NoOrphans == ~LateMutation /\ orphans = {}

LEMMA NoOrphansStep ==
  ASSUME TypeOK, LogInv, NoOrphans, [Next]_vars
  PROVE  NoOrphans'
  <1>1. CASE CrashRestart
    BY <1>1 DEF CrashRestart, NoOrphans
  <1>2. CASE UNCHANGED vars
    BY <1>2 DEF vars, NoOrphans
  <1>3. CASE Next /\ ~CrashRestart
    <2>1. CASE \E t \in Threads : Quiet(t)
      BY <2>1 DEF Quiet, NoOrphans
    <2>2. CASE \E t \in Movers : Intent(t) \/ Dispatch(t) \/ WorkerMutates(t)
      BY <2>2 DEF Intent, Dispatch, WorkerMutates, PersistEvent, NoOrphans
    <2>3. QED BY <1>3, <2>1, <2>2, StepKinds DEF NoOrphans
  <1>4. QED BY <1>1, <1>2, <1>3

\* Only a worker or an orphan touches the disk.
LEMMA MovedByWorkers ==
  ASSUME TypeOK, LogInv, Next, orphans = {}
  PROVE  moved' = moved \/ \E t \in Movers : WorkerMutates(t)
  <1>1. CASE \E t \in Threads : Quiet(t)
    BY <1>1 DEF Quiet
  <1>2. CASE \E t \in Movers : Intent(t) \/ Dispatch(t)
    BY <1>2 DEF Intent, Dispatch, PersistEvent, disk
  <1>3. CASE CrashRestart
    BY <1>3 DEF CrashRestart, disk
  <1>4. QED BY <1>1, <1>2, <1>3, StepKinds

\* The journal lock and an ambiguous recovery stop every mutation, whatever
\* crashes and faults came before: a command that may mutate began unblocked
\* (require_apply_gate), and nothing blocks the service behind its back.
THEOREM BlockedMeansStill ==
  ~Overlap /\ ~LateMutation /\ Spec => NoMutationWhileBlocked
  <1> DEFINE SerialInv == TypeOK /\ LogInv /\ OneCommand /\ NoOrphans
  <1>1. ~Overlap /\ ~LateMutation /\ Init => SerialInv
    <2>1. ~LateMutation /\ Init => NoOrphans
      BY DEF Init, NoOrphans
    <2>2. QED BY <2>1, TypeInit, LogInit, OneCommandInit
  <1>2. SerialInv /\ [Next]_vars => SerialInv'
    BY LogStep, OneCommandStep, NoOrphansStep
  <1>3. SerialInv /\ [Next]_vars
          => [locked \/ recovery = "ambiguous" => moved' = moved]_vars
    <2>1. SUFFICES ASSUME SerialInv, Next, locked \/ recovery = "ambiguous"
                   PROVE  moved' = moved
      OBVIOUS
    <2>2. ASSUME NEW t \in Movers, WorkerMutates(t) PROVE FALSE
      <3>1. worker[t] = "working"
        BY <2>2 DEF WorkerMutates
      <3>2. pc[t] # "idle"
        BY <2>1, <3>1 DEF LogInv, HeldFlushed, Attended
      <3>3. QED BY <2>1, <3>2 DEF OneCommand
    <2>3. QED BY <2>1, <2>2, MovedByWorkers DEF NoOrphans
  <1>4. QED BY <1>1, <1>2, <1>3, PTL DEF Spec, NoMutationWhileBlocked

-----------------------------------------------------------------------------
(* What a session claims is settled *)

\* Every status but the running ones and those that wait for recovery claims
\* that nothing is half done.
Claims ==
  Resolving \cup {"awaiting_confirmation", "approved", "paused",
                  "recovery_available"}

\* The states of a request whose effect is not established.
Pending == Unresolved \cup {"ambiguous"}

\* No operation is half done and the outcome of every request is established.
Clean ==
  /\ \A o \in Ops : opStatus[o] \notin Interrupted
  /\ \A i \in 1..Len(requests) : requests[i].state \notin Pending

\* None but the operation and the request that command t has in hand.
CleanBut(t) ==
  /\ \A o \in Ops \ {op[t]} : opStatus[o] \notin Interrupted
  /\ \A i \in 1..Len(requests) : i = rid[t] \/ requests[i].state \notin Pending

\* Where a command between two operations and one inside an operation stand,
\* and what a rollback read when it began.
Position(t) ==
  /\ t # Recovery /\ pc[t] \notin {"idle", "end"} \cup Requested => Clean
  /\ t \in Movers /\ pc[t] \in Requested =>
       /\ status \in Interrupted
       /\ opStatus[op[t]] = RunningOp(t)
       /\ CleanBut(t)
       /\ pc[t] = "refuse" => requests[rid[t]].state \notin Pending
  /\ t \in RollbackCmds /\ pc[t] # "idle" =>
       \A o \in todo[t] : seen[t][o] \in AppliedStatuses

\* A half-done operation has a request in the direction it was going.
HalfDoneRequested ==
  /\ \A o \in Ops : opStatus[o] = "running" =>
       \E i \in 1..Len(requests) :
         requests[i].op = o /\ requests[i].dir = "forward"
  /\ \A o \in Ops : opStatus[o] = "rolling_back" =>
       \E i \in 1..Len(requests) :
         requests[i].op = o /\ requests[i].dir = "rollback"

\* Recovery has settled the requests before its position and has not touched
\* the later ones; a half-done operation it has not called ambiguous is still
\* named by a later request.
Reconciling ==
  /\ pc[Recovery] = "cursor" => seen[Recovery] = opStatus
  /\ pc[Recovery] = "reconcile" =>
       /\ Len(facts) = Len(requests)
       /\ \A i \in 1..Len(facts) :
            IF i < rid[Recovery]
            THEN /\ requests[i].state \notin Unresolved
                 /\ requests[i].state = "ambiguous" => amb
            ELSE requests[i] = facts[i]
       /\ \A o \in Ops : opStatus[o] \in Interrupted =>
            \/ amb
            \/ /\ seen[Recovery][o] = opStatus[o]
               /\ \E i \in rid[Recovery]..Len(facts) :
                    facts[i].op = o /\ OpInterrupted(facts[i])

SettledInv ==
  /\ status \in Claims => Clean
  /\ \A t \in Threads : Position(t)
  /\ HalfDoneRequested
  /\ Reconciling

\* The step of thread t leaves all other threads idle.
OnlyMine(t) == \A u \in Threads \ {t} : pc'[u] = "idle"

LEMMA OthersIdle ==
  ASSUME TypeOK, OneCommand, NEW t \in Threads, Turn(t),
         (\E label : Goto(t, label)) \/ pc' = pc
  PROVE  OnlyMine(t)
  BY DEF OnlyMine, OneCommand, Turn, Goto, TypeOK, PositionType

\* Every thread is idle after the step.
LEMMA SettledRest ==
  ASSUME SettledInv, \A u \in Threads : pc'[u] = "idle",
         UNCHANGED <<opStatus, requests>>,
         status' \in Claims => status \in Claims \/ Clean
  PROVE  SettledInv'
  <1>1. Clean => Clean'
    BY DEF Clean
  <1>2. \A t \in Threads : Position(t)'
    BY DEF Position, Requested
  <1>3. HalfDoneRequested' /\ Reconciling'
    BY ThreadKinds DEF SettledInv, HalfDoneRequested, Reconciling
  <1>4. QED BY <1>1, <1>2, <1>3 DEF SettledInv

LEMMA SettledReturn ==
  ASSUME TypeOK, OneCommand, SettledInv, NEW t \in Threads, Turn(t), Return(t),
         UNCHANGED <<opStatus, requests>>,
         status' \in Claims => status \in Claims \/ Clean
  PROVE  SettledInv'
  <1>1. \A u \in Threads : pc'[u] = "idle"
    BY OthersIdle DEF OnlyMine, Return, Goto, TypeOK, PositionType
  <1>2. QED BY <1>1, SettledRest

\* Nothing the invariant speaks of changes.
LEMMA SettledStutter ==
  ASSUME SettledInv,
         UNCHANGED <<status, opStatus, requests, pc, op, rid, todo, seen,
                     facts, amb>>
  PROVE  SettledInv'
  <1>1. Clean' = Clean /\ \A t : CleanBut(t)' = CleanBut(t)
    BY DEF Clean, CleanBut
  <1>2. \A t \in Threads : Position(t)'
    BY <1>1 DEF SettledInv, Position
  <1>3. HalfDoneRequested' /\ Reconciling'
    BY DEF SettledInv, HalfDoneRequested, Reconciling, OpInterrupted
  <1>4. QED BY <1>1, <1>2, <1>3 DEF SettledInv

\* A command other than recovery ends up between two operations.
LEMMA SettledClean ==
  ASSUME NEW t \in Threads, t # Recovery, OnlyMine(t), Clean',
         pc'[t] \notin Requested,
         t \in RollbackCmds => \A o \in todo'[t] : seen'[t][o] \in AppliedStatuses
  PROVE  SettledInv'
  <1>1. \A u \in Threads : Position(u)'
    BY DEF OnlyMine, Position, Requested
  <1>2. HalfDoneRequested'
    BY DEF Clean, HalfDoneRequested, Interrupted
  <1>3. Reconciling'
    BY ThreadKinds DEF OnlyMine, Reconciling
  <1>4. QED BY <1>1, <1>2, <1>3 DEF SettledInv

\* The same for a step that only moves on.
LEMMA SettledGoto ==
  ASSUME TypeOK, OneCommand, SettledInv, NEW t \in Threads, t # Recovery,
         Turn(t), NEW label, label \notin Requested, Goto(t, label), Clean,
         UNCHANGED <<opStatus, requests>>,
         t \in RollbackCmds => \A o \in todo'[t] : seen'[t][o] \in AppliedStatuses
  PROVE  SettledInv'
  <1>1. OnlyMine(t)
    BY OthersIdle
  <1>2. Clean'
    BY DEF Clean
  <1>3. pc'[t] \notin Requested
    BY DEF Goto, TypeOK, PositionType
  <1>4. QED BY <1>1, <1>2, <1>3, SettledClean

\* An event between two operations leaves none half done.
LEMMA SettledEvent ==
  ASSUME TypeOK, OneCommand, SettledInv, NEW t \in Threads, t # Recovery,
         pc[t] \notin {"idle", "end"} \cup Requested,
         NEW kind, NEW o, NEW req, NEW newOp, NEW newStatus, NEW next,
         next \notin Requested, newOp \notin Interrupted \/ o = NoOp,
         PersistEvent(t, kind, o, req, newOp, newStatus, next),
         UNCHANGED <<requests, todo>>
  PROVE  SettledInv'
  <1>1. OnlyMine(t)
    BY OthersIdle DEF Turn, PersistEvent
  <1>2. Clean
    BY DEF SettledInv, Position
  <1>3. Clean'
    BY <1>2 DEF Clean, PersistEvent, TypeOK, TableType
  <1>4. pc'[t] \notin Requested
    BY DEF PersistEvent, Goto, TypeOK, PositionType
  <1>5. t \in RollbackCmds => \A p \in todo'[t] : seen'[t][p] \in AppliedStatuses
    BY DEF SettledInv, Position, PersistEvent
  <1>6. QED BY <1>1, <1>3, <1>4, <1>5, SettledClean

LEMMA SettledFinish ==
  ASSUME TypeOK, OneCommand, SettledInv, NEW t \in Threads, t # Recovery,
         pc[t] \notin {"idle", "end"} \cup Requested, NEW newStatus,
         FinishExecution(t, newStatus)
  PROVE  SettledInv'
  <1>1. "end" \notin Requested
    BY DEF Requested
  <1>2. QED BY <1>1, SettledEvent DEF FinishExecution

LEMMA SettledJournalling ==
  ASSUME TypeOK, OneCommand, SettledInv, NEW t \in Threads, Journalling(t)
  PROVE  SettledInv'
  <1>1. CASE StaleCursor(t)
    <2>1. Turn(t) /\ Return(t) /\ UNCHANGED <<opStatus, requests, status>>
      BY <1>1 DEF StaleCursor, EventLabels, Turn, db, session
    <2>2. QED BY <2>1, SettledReturn
  <1>2. CASE SyncEvent(t)
    <2>1. UNCHANGED <<opStatus, requests, status>> /\ Turn(t)
      BY <1>2 DEF SyncEvent, db, session, OneCommand, Turn
    <2>2. Return(t) \/ UNCHANGED <<pc, op, rid, todo, seen, facts, amb>>
      BY <1>2 DEF SyncEvent
    <2>3. QED BY <2>1, <2>2, SettledReturn, SettledStutter
  <1>3. CASE SyncFails(t)
    <2>1. UNCHANGED <<opStatus, requests>> /\ Turn(t) /\ Return(t)
      BY <1>3 DEF SyncFails, OneCommand, Turn
    <2>2. status' \in {status, "recovery_required"}
      BY <1>3 DEF SyncFails, MarkRecoveryRequired
    <2>3. "recovery_required" \notin Claims
      BY DEF Claims, Resolving
    <2>4. QED BY <2>1, <2>2, <2>3, SettledReturn
  <1>4. CASE ReadCursor(t) /\ t # Recovery
    <2>1. \E label : label \notin Requested /\ Goto(t, label)
      BY <1>4 DEF ReadCursor, Requested
    <2>2. Turn(t) /\ pc[t] = "cursor" /\ UNCHANGED <<opStatus, requests, todo, seen>>
      BY <1>4 DEF ReadCursor, Turn, db
    <2>3. Clean
      BY <1>4, <2>2 DEF SettledInv, Position, Requested
    <2>4. t \in RollbackCmds => \A o \in todo'[t] : seen'[t][o] \in AppliedStatuses
      BY <2>2 DEF SettledInv, Position
    <2>5. QED BY <1>4, <2>1, <2>2, <2>3, <2>4, SettledGoto
  <1>5. CASE ReadCursor(t) /\ t = Recovery
    <2>1. /\ Goto(Recovery, "reconcile") /\ pc[Recovery] = "cursor"
          /\ facts' = requests /\ rid' = [rid EXCEPT ![Recovery] = 1]
          /\ UNCHANGED <<opStatus, requests, status, seen>>
      BY <1>5, ThreadKinds DEF ReadCursor, db, session
    <2>2. OnlyMine(Recovery)
      BY <1>5, <2>1, OthersIdle DEF Turn
    <2>3. \A u \in Threads : Position(u)'
      BY <2>1, <2>2, ThreadKinds DEF OnlyMine, Position, Requested
    <2>4. HalfDoneRequested' /\ (Clean => Clean')
      BY <2>1 DEF SettledInv, HalfDoneRequested, Clean
    <2>5. rid'[Recovery] = 1 /\ pc'[Recovery] = "reconcile"
      BY <2>1, ThreadKinds DEF Goto, TypeOK, PositionType, LocalType
    <2>6. Len(requests) \in Nat
      BY DEF TypeOK, TableType
    <2>7. ASSUME NEW o \in Ops, opStatus[o] \in Interrupted
          PROVE  /\ seen[Recovery][o] = opStatus[o]
                 /\ \E i \in 1..Len(requests) :
                      /\ requests[i].op = o
                      /\ seen[Recovery][o] =
                           IF requests[i].dir = "forward" THEN "running"
                           ELSE "rolling_back"
      BY <2>1, <2>7 DEF SettledInv, Reconciling, HalfDoneRequested, Interrupted
    <2>8. Reconciling'
      <3>1. \A i \in 1..Len(facts') : ~(i < rid'[Recovery])
        BY <2>1, <2>5, <2>6
      <3>2. \A o \in Ops : opStatus'[o] \in Interrupted =>
              /\ seen'[Recovery][o] = opStatus'[o]
              /\ \E i \in rid'[Recovery]..Len(facts') :
                   /\ facts'[i].op = o
                   /\ seen'[Recovery][facts'[i].op] =
                        IF facts'[i].dir = "forward" THEN "running"
                        ELSE "rolling_back"
        BY <2>1, <2>5, <2>7
      <3>3. QED BY <2>1, <2>5, <3>1, <3>2 DEF Reconciling, OpInterrupted
    <2>9. QED BY <2>1, <2>3, <2>4, <2>8 DEF SettledInv
  <1>6. QED BY <1>1, <1>2, <1>3, <1>4, <1>5 DEF Journalling

LEMMA SettledConsent ==
  ASSUME TypeOK, OneCommand, SettledInv,
         \/ IssueChallenge
         \/ \E t \in FinalizeCmds :
              FinalizeAttest(t) \/ FinalizeLocks(t) \/ FinalizeSteps(t)
  PROVE  SettledInv'
  <1>1. CASE IssueChallenge
    BY <1>1, SettledStutter DEF IssueChallenge, local
  <1>2. ASSUME NEW t \in FinalizeCmds,
               FinalizeAttest(t) \/ FinalizeLocks(t) \/ FinalizeSteps(t)
        PROVE  SettledInv'
    <2>0. t \in Threads /\ t # Recovery /\ t \notin RollbackCmds
      BY ThreadKinds
    <2>1. CASE FinalizeAttest(t)
      <3>1. Clean
        BY <2>1 DEF FinalizeAttest, SettledInv, Claims
      <3>2. "attested" \notin Requested
        BY DEF Requested
      <3>3. QED
        BY <2>0, <2>1, <3>1, <3>2, MayCallTurn, SettledGoto DEF FinalizeAttest
    <2>2. CASE FinalizeLocks(t)
      BY <2>0, <2>2, MayCallTurn, SettledReturn
         DEF FinalizeLocks, LockOn, db, session
    <2>3. CASE FinalizeRead(t)
      <3>1. /\ UNCHANGED <<opStatus, requests, status>> /\ Turn(t)
            /\ pc[t] = "attested"
        BY <2>3 DEF FinalizeRead, db, session, Turn
      <3>2. Clean /\ "approve" \notin Requested
        BY <2>0, <3>1 DEF SettledInv, Position, Requested
      <3>3. Return(t) \/ Goto(t, "approve")
        BY <2>3 DEF FinalizeRead
      <3>4. QED BY <2>0, <3>1, <3>2, <3>3, SettledReturn, SettledGoto
    <2>4. CASE FinalizeApprove(t)
      <3>1. pc[t] \notin {"idle", "end"} \cup Requested /\ "end" \notin Requested
        BY <2>4 DEF FinalizeApprove, Requested
      <3>2. QED BY <2>0, <2>4, <3>1, SettledEvent DEF FinalizeApprove
    <2>5. QED BY <1>2, <2>1, <2>2, <2>3, <2>4 DEF FinalizeSteps
  <1>3. QED BY <1>1, <1>2

LEMMA SettledBegin ==
  ASSUME TypeOK, OneCommand, SettledInv,
         \/ \E t \in StartCmds : \/ StartBegin(t) \/ StartLocks(t)
                                 \/ StartLapses(t) \/ StartConsume(t)
         \/ \E t \in RollbackCmds : RollbackBegin(t) \/ RollbackLocks(t)
  PROVE  SettledInv'
  <1>1. ASSUME NEW t \in StartCmds,
               \/ StartBegin(t) \/ StartLocks(t)
               \/ StartLapses(t) \/ StartConsume(t)
        PROVE  SettledInv'
    <2>0. t \in Threads /\ t # Recovery /\ t \notin RollbackCmds
      BY ThreadKinds
    <2>1. CASE StartBegin(t)
      <3>1. Clean /\ "consume" \notin Requested
        BY <2>1 DEF StartBegin, SettledInv, Claims, Requested
      <3>2. UNCHANGED <<opStatus, requests>> /\ Goto(t, "consume") /\ Turn(t)
        BY <2>1, MayCallTurn DEF StartBegin, db
      <3>3. QED BY <2>0, <3>1, <3>2, SettledGoto
    <2>2. CASE StartLocks(t)
      BY <2>0, <2>2, MayCallTurn, SettledReturn
         DEF StartLocks, LockOn, db, session
    <2>3. CASE StartLapses(t)
      <3>1. \A u \in Threads : pc[u] = "idle"
        BY <2>3, MayCallTurn DEF StartLapses
      <3>2. status \in Claims
        BY <2>3 DEF StartLapses, Claims
      <3>3. QED BY <2>3, <3>1, <3>2, SettledRest DEF StartLapses, local
    <2>4. CASE StartConsume(t)
      <3>1. Turn(t) /\ pc[t] = "consume" /\ UNCHANGED <<opStatus, requests>>
        BY <2>4 DEF StartConsume, Turn
      <3>2. Clean /\ "cursor" \notin Requested
        BY <2>0, <3>1 DEF SettledInv, Position, Requested
      <3>3. Goto(t, "cursor") \/ Return(t)
        BY <2>4 DEF StartConsume
      <3>4. QED BY <2>0, <3>1, <3>2, <3>3, SettledGoto, SettledReturn
    <2>5. QED BY <1>1, <2>1, <2>2, <2>3, <2>4
  <1>2. ASSUME NEW t \in RollbackCmds, RollbackBegin(t) \/ RollbackLocks(t)
        PROVE  SettledInv'
    <2>0. t \in Threads /\ t # Recovery
      BY ThreadKinds
    <2>1. CASE RollbackBegin(t)
      <3>1. Clean /\ "cursor" \notin Requested
        BY <2>1 DEF RollbackBegin, RollbackOpen, MayRollBack, SettledInv,
                    Claims, Resolving, Requested
      <3>2. UNCHANGED <<opStatus, requests>> /\ Goto(t, "cursor") /\ Turn(t)
        BY <2>1, MayCallTurn DEF RollbackBegin, db
      <3>3. \A o \in todo'[t] : seen'[t][o] \in AppliedStatuses
        BY <2>0, <2>1 DEF RollbackBegin, TypeOK, LocalType
      <3>4. QED BY <2>0, <3>1, <3>2, <3>3, SettledGoto
    <2>2. CASE RollbackLocks(t)
      BY <2>0, <2>2, MayCallTurn, SettledReturn
         DEF RollbackLocks, LockOn, db, session
    <2>3. QED BY <1>2, <2>1, <2>2
  <1>3. QED BY <1>1, <1>2

LEMMA SettledCancel ==
  ASSUME TypeOK, OneCommand, SettledInv,
         \/ \E t \in CancelCmds :
              CancelBegin(t) \/ CancelLocks(t) \/ CancelSteps(t)
         \/ RequestPause \/ RequestCancel
  PROVE  SettledInv'
  <1>1. CASE RequestPause \/ RequestCancel
    BY <1>1, SettledStutter DEF RequestPause, RequestCancel, local
  <1>2. ASSUME NEW t \in CancelCmds,
               CancelBegin(t) \/ CancelLocks(t) \/ CancelSteps(t)
        PROVE  SettledInv'
    <2>0. t \in Threads /\ t # Recovery /\ t \notin RollbackCmds
      BY ThreadKinds
    <2>1. CASE CancelBegin(t)
      <3>1. Clean
        BY <2>1 DEF CancelBegin, SettledInv, Claims
      <3>2. \E label : label \notin Requested /\ Goto(t, label)
        BY <2>1 DEF CancelBegin, Requested
      <3>3. UNCHANGED <<opStatus, requests>> /\ Turn(t)
        BY <2>1, MayCallTurn DEF CancelBegin, db
      <3>4. QED BY <2>0, <3>1, <3>2, <3>3, SettledGoto
    <2>2. CASE CancelLocks(t)
      BY <2>0, <2>2, MayCallTurn, SettledReturn
         DEF CancelLocks, LockOn, db, session
    <2>3. CASE CancelInvalidate(t)
      <3>1. /\ UNCHANGED <<opStatus, requests>> /\ Turn(t)
            /\ pc[t] \notin {"idle", "end"} \cup Requested
        BY <2>3 DEF CancelInvalidate, Turn, Requested
      <3>2. Clean
        BY <2>0, <3>1 DEF SettledInv, Position
      <3>3. Return(t) \/ \E label : label \notin Requested /\ Goto(t, label)
        BY <2>3 DEF CancelInvalidate, Requested
      <3>4. QED BY <2>0, <3>1, <3>2, <3>3, SettledReturn, SettledGoto
    <2>4. CASE CancelUnstarted(t)
      <3>1. /\ UNCHANGED <<opStatus, requests>> /\ Turn(t) /\ Return(t)
            /\ pc[t] \notin {"idle", "end"} \cup Requested
        BY <2>4 DEF CancelUnstarted, Turn, Requested
      <3>2. Clean
        BY <2>0, <3>1 DEF SettledInv, Position
      <3>3. QED BY <2>0, <3>1, <3>2, SettledReturn
    <2>5. CASE CancelFinish(t)
      <3>1. pc[t] \notin {"idle", "end"} \cup Requested
        BY <2>5 DEF CancelFinish, Requested
      <3>2. QED BY <2>0, <2>5, <3>1, SettledFinish DEF CancelFinish
    <2>6. QED BY <1>2, <2>1, <2>2, <2>3, <2>4, <2>5 DEF CancelSteps
  <1>3. QED BY <1>1, <1>2

\* The state of the row that transition_executor_request_state rewrites.
LEMMA SetRequestState ==
  ASSUME requests \in Seq(Requests), NEW i, NEW state, SetRequest(i, state)
  PROVE  \A j \in 1..Len(requests) :
           requests'[j].state = IF j = i THEN state ELSE requests[j].state
  <1>1. requests' = [requests EXCEPT ![i].state = state]
    BY DEF SetRequest
  <1>2. DOMAIN requests = 1..Len(requests)
    OBVIOUS
  <1>3. \A j \in 1..Len(requests) :
          requests'[j] = IF j = i THEN [requests[j] EXCEPT !.state = state]
                         ELSE requests[j]
    BY <1>1, <1>2, Zenon
  <1>4. \A r \in Requests : [r EXCEPT !.state = state].state = state
    BY DEF Requests
  <1>5. \A j \in 1..Len(requests) : requests[j] \in Requests
    OBVIOUS
  <1>6. QED BY <1>3, <1>4, <1>5

\* A command inside an operation, all other threads idle.
LEMMA SettledAt ==
  ASSUME NEW t \in Threads, t # Recovery, OnlyMine(t), HalfDoneRequested',
         Position(t)', status' \in Claims => Clean'
  PROVE  SettledInv'
  <1>1. \A u \in Threads : Position(u)'
    BY DEF OnlyMine, Position, Requested
  <1>2. Reconciling'
    BY ThreadKinds DEF OnlyMine, Reconciling
  <1>3. QED BY <1>1, <1>2 DEF SettledInv

\* The worker's answer ends in a request transition: the operation and the
\* request in hand stay the only unsettled ones.
LEMMA SettledAnswer ==
  ASSUME TypeOK, LogInv, OneCommand, SettledInv, NEW t \in Movers,
         NEW state \in AnswerStates,
         NEW label \in {"refuse", "mark", "verify", "contradict"},
         Answered(t, state, label)
  PROVE  SettledInv'
  <1>0. t \in Threads /\ t # Recovery
    BY ThreadKinds
  <1>1. /\ Goto(t, label) /\ pc[t] \in Requested
        /\ label = "refuse" <=> state = "proven_not_started"
        /\ SetRequest(rid[t], state)
        /\ UNCHANGED <<status, opStatus, op, rid, todo, seen>>
    BY DEF Answered, Transition, session
  <1>2. pc[t] # "idle" /\ OnlyMine(t)
    BY <1>0, <1>1, OthersIdle DEF Requested, Turn
  <1>3. status \in Interrupted /\ CleanBut(t) /\ opStatus[op[t]] = RunningOp(t)
    BY <1>0, <1>1 DEF SettledInv, Position
  <1>4. SameRequests /\ rid[t] \in 1..Len(requests)
    BY <1>1, SetRequestFacts
       DEF SameRequests, TypeOK, TableType, LogInv, HeldFlushed, AnswerStates,
           RequestStates
  <1>5. \A i \in 1..Len(requests) :
          requests'[i].state = IF i = rid[t] THEN state ELSE requests[i].state
    BY <1>1, <1>4, SetRequestState DEF TypeOK, TableType
  <1>6. HalfDoneRequested'
    BY <1>1, <1>4 DEF SettledInv, HalfDoneRequested, SameRequests
  <1>7. Position(t)'
    <2>1. CleanBut(t)'
      BY <1>1, <1>3, <1>4, <1>5 DEF CleanBut, SameRequests
    <2>2. pc'[t] = label
      BY <1>0, <1>1 DEF Goto, TypeOK, PositionType
    <2>3. label = "refuse" => requests'[rid[t]].state \notin Pending
      BY <1>1, <1>4, <1>5 DEF Pending, Unresolved
    <2>4. label \in Requested
      BY DEF Requested
    <2>5. \A o \in todo[t] : t \in RollbackCmds => seen[t][o] \in AppliedStatuses
      BY <1>0, <1>2 DEF SettledInv, Position
    <2>6. QED
      BY <1>1, <1>3, <2>1, <2>2, <2>3, <2>4, <2>5
         DEF Position, RunningOp, Dir
  <1>8. status' \notin Claims
    BY <1>1, <1>3 DEF Interrupted, Claims, Resolving
  <1>9. QED BY <1>0, <1>2, <1>6, <1>7, <1>8, SettledAt

\* The intent puts one operation and its new request in hand.
LEMMA SettledIntent ==
  ASSUME TypeOK, LogInv, OneCommand, SettledInv, NEW t \in Movers, Intent(t)
  PROVE  SettledInv'
  <1>0. t \in Threads /\ t # Recovery
    BY ThreadKinds
  <1>1. PICK k, q : PersistEvent(t, k, op[t], q, RunningOp(t),
                                 RunningSession(t), "dispatch")
    BY DEF Intent
  <1>2. /\ Goto(t, "dispatch") /\ pc[t] = "intent"
        /\ requests' = Append(requests,
             [op |-> op[t], dir |-> Dir(t), seq |-> Len(journal) + 1,
              state |-> "intent_durable"])
        /\ rid' = [rid EXCEPT ![t] = Len(requests) + 1]
        /\ status' = RunningSession(t)
        /\ opStatus' = IF op[t] = NoOp THEN opStatus
                       ELSE [opStatus EXCEPT ![op[t]] = RunningOp(t)]
        /\ UNCHANGED <<todo, op, seen>>
    BY <1>1 DEF Intent, PersistEvent
  <1>3. OnlyMine(t)
    BY <1>0, <1>2, OthersIdle DEF Turn
  <1>4. Clean
    BY <1>0, <1>2 DEF SettledInv, Position, Requested
  <1>5. /\ Len(requests) \in Nat /\ Len(requests') = Len(requests) + 1
        /\ \A i \in 1..Len(requests) : requests'[i] = requests[i]
        /\ requests'[Len(requests) + 1].op = op[t]
        /\ requests'[Len(requests) + 1].dir = Dir(t)
    BY <1>2 DEF TypeOK, TableType
  <1>6. op[t] \in Ops
    BY <1>2 DEF LogInv, InHand, Chosen
  <1>7. /\ RunningOp(t) = IF Dir(t) = "forward" THEN "running"
                          ELSE "rolling_back"
        /\ Dir(t) \in {"forward", "rollback"}
        /\ RunningSession(t) \in Interrupted
    BY DEF RunningOp, RunningSession, Dir, Interrupted
  <1>8. opStatus' = [opStatus EXCEPT ![op[t]] = RunningOp(t)]
    BY <1>2, <1>6, ConstantFacts
  <1>9. HalfDoneRequested'
    <2>1. ASSUME NEW o \in Ops, opStatus'[o] \in Interrupted
          PROVE  /\ requests'[Len(requests) + 1].op = o
                 /\ opStatus'[o] = RunningOp(t)
      BY <1>4, <1>5, <1>8, <2>1 DEF Clean, TypeOK, TableType
    <2>2. Len(requests) + 1 \in 1..Len(requests')
      BY <1>5
    <2>3. QED
      BY <1>5, <1>7, <2>1, <2>2 DEF HalfDoneRequested, Interrupted
  <1>10. Position(t)'
    <2>1. CleanBut(t)'
      <3>1. rid'[t] = Len(requests) + 1
        BY <1>0, <1>2 DEF TypeOK, LocalType
      <3>2. \A i \in 1..Len(requests') :
              i = rid'[t] \/ requests'[i].state \notin Pending
        BY <1>4, <1>5, <3>1 DEF Clean
      <3>3. \A o \in Ops \ {op[t]} : opStatus'[o] \notin Interrupted
        BY <1>4, <1>8 DEF Clean, TypeOK, TableType
      <3>4. QED BY <1>2, <3>2, <3>3 DEF CleanBut
    <2>2. pc'[t] = "dispatch"
      BY <1>0, <1>2 DEF Goto, TypeOK, PositionType
    <2>3. \A o \in todo[t] : t \in RollbackCmds => seen[t][o] \in AppliedStatuses
      BY <1>0, <1>2 DEF SettledInv, Position
    <2>4. opStatus'[op'[t]] = RunningOp(t)'
      BY <1>2, <1>6, <1>8 DEF TypeOK, TableType, RunningOp, Dir
    <2>5. QED
      BY <1>2, <1>7, <2>1, <2>2, <2>3, <2>4 DEF Position, Requested
  <1>11. status' \notin Claims
    BY <1>2, <1>7 DEF Interrupted, Claims, Resolving
  <1>12. QED BY <1>0, <1>3, <1>9, <1>10, <1>11, SettledAt

\* What settles the operation in hand once its request is settled.
LEMMA SettledInHand ==
  ASSUME TypeOK, OneCommand, SettledInv, NEW t \in Movers, pc[t] \in Requested,
         NEW kind, NEW newOp, newOp \notin Interrupted, NEW newStatus,
         NEW next, next \notin Requested,
         PersistEvent(t, kind, op[t], 0, newOp, newStatus, next),
         op[t] \in Ops, todo'[t] \subseteq todo[t],
         Len(requests') = Len(requests),
         \A i \in 1..Len(requests) :
           IF i = rid[t] THEN requests'[i].state \notin Pending
           ELSE requests'[i].state = requests[i].state
  PROVE  SettledInv'
  <1>0. t \in Threads /\ t # Recovery /\ pc[t] # "idle"
    BY ThreadKinds DEF Requested
  <1>1. CleanBut(t)
    BY <1>0 DEF SettledInv, Position
  <1>2. /\ Goto(t, next) /\ seen' = seen
        /\ opStatus' = [opStatus EXCEPT ![op[t]] = newOp]
    BY ConstantFacts DEF PersistEvent
  <1>3. OnlyMine(t)
    BY <1>0, <1>2, OthersIdle DEF Turn
  <1>4. Clean'
    BY <1>1, <1>2 DEF Clean, CleanBut, TypeOK, TableType
  <1>5. pc'[t] \notin Requested
    BY <1>0, <1>2 DEF Goto, TypeOK, PositionType
  <1>6. t \in RollbackCmds => \A o \in todo'[t] : seen'[t][o] \in AppliedStatuses
    BY <1>0, <1>2 DEF SettledInv, Position
  <1>7. QED BY <1>0, <1>3, <1>4, <1>5, <1>6, SettledClean

LEMMA SettledOutcome ==
  ASSUME TypeOK, LogInv, OneCommand, SettledInv, NEW t \in Movers,
         Observe(t) \/ RefuseAfterRequest(t) \/ MarkAmbiguousOutcome(t)
  PROVE  SettledInv'
  <1>0. t \in Threads /\ t # Recovery
    BY ThreadKinds
  <1>1. pc[t] \in Requested
    BY DEF Observe, RefuseAfterRequest, MarkAmbiguousOutcome, Requested
  <1>2. op[t] \in Ops /\ rid[t] \in 1..Len(requests)
    BY <1>1 DEF LogInv, InHand, Chosen, HeldFlushed
  <1>3. CASE Observe(t)
    <2>1. /\ Len(requests') = Len(requests)
          /\ \A i \in 1..Len(requests) :
               requests'[i].state = IF i = rid[t] THEN "proven_applied"
                                    ELSE requests[i].state
      BY <1>3, SetRequestState, SetRequestFacts
         DEF Observe, TypeOK, TableType, RequestStates
    <2>2. "proven_applied" \notin Pending
      BY DEF Pending, Unresolved
    <2>3. todo'[t] \subseteq todo[t]
      BY <1>0, <1>3 DEF Observe, TypeOK, LocalType
    <2>4. PICK kind, newOp, newStatus :
            /\ PersistEvent(t, kind, op[t], 0, newOp, newStatus, "next")
            /\ newOp \notin Interrupted
      BY <1>3 DEF Observe, Interrupted
    <2>5. "next" \notin Requested
      BY DEF Requested
    <2>6. QED
      BY <1>1, <1>2, <2>1, <2>2, <2>3, <2>4, <2>5, SettledInHand
  <1>4. CASE RefuseAfterRequest(t)
    <2>1. requests[rid[t]].state \notin Pending
      BY <1>0, <1>4 DEF RefuseAfterRequest, SettledInv, Position, Requested
    <2>2. PICK kind, newOp, newStatus :
            /\ PersistEvent(t, kind, op[t], 0, newOp, newStatus, "finish")
            /\ newOp \notin Interrupted
      BY <1>4 DEF RefuseAfterRequest, Refuse, Interrupted
    <2>3. UNCHANGED <<requests, todo>>
      BY <1>4 DEF RefuseAfterRequest, Refuse
    <2>4. "finish" \notin Requested
      BY DEF Requested
    <2>5. QED BY <1>1, <1>2, <2>1, <2>2, <2>3, <2>4, SettledInHand
  <1>5. CASE MarkAmbiguousOutcome(t)
    <2>1. /\ PersistEvent(t, "step_failed", op[t], 0, RunningOp(t),
                          "recovery_required", "end")
          /\ UNCHANGED <<requests, todo>> /\ pc[t] = "mark"
      BY <1>5 DEF MarkAmbiguousOutcome
    <2>2. /\ Goto(t, "end") /\ seen' = seen /\ status' = "recovery_required"
          /\ opStatus' = [opStatus EXCEPT ![op[t]] = RunningOp(t)]
      BY <1>2, <2>1, ConstantFacts DEF PersistEvent
    <2>3. OnlyMine(t)
      BY <1>0, <2>1, <2>2, OthersIdle DEF Turn
    <2>4. Position(t)'
      <3>1. pc'[t] = "end"
        BY <1>0, <2>2 DEF Goto, TypeOK, PositionType
      <3>2. \A o \in todo[t] :
              t \in RollbackCmds => seen[t][o] \in AppliedStatuses
        BY <1>0, <2>1 DEF SettledInv, Position
      <3>3. QED BY <2>1, <2>2, <3>1, <3>2 DEF Position, Requested
    <2>5. opStatus' = opStatus
      BY <1>0, <1>1, <2>2 DEF SettledInv, Position, TypeOK, TableType
    <2>6. HalfDoneRequested'
      BY <2>1, <2>5 DEF SettledInv, HalfDoneRequested
    <2>7. status' \notin Claims
      BY <2>2 DEF Claims, Resolving
    <2>8. QED BY <1>0, <2>3, <2>4, <2>6, <2>7, SettledAt
  <1>6. QED BY <1>3, <1>4, <1>5

LEMMA SettledMove ==
  ASSUME TypeOK, LogInv, OneCommand, SettledInv, NEW t \in Movers,
         MoveSteps(t) \/ WorkerSteps(t)
  PROVE  SettledInv'
  <1>0. t \in Threads /\ t # Recovery
    BY ThreadKinds
  <1>l. ASSUME pc[t] \in {"next", "intent", "finish"}
        PROVE  pc[t] \notin {"idle", "end"} \cup Requested
    BY <1>l DEF Requested
  <1>r. ASSUME Refusal(t), pc[t] # "idle" PROVE SettledInv'
    BY <1>0, <1>r, SettledReturn DEF Refusal, Turn, db, session
  <1>1. CASE OpenSessionFails(t) \/ IntentRefused(t) \/ ObserveRefused(t)
    <2>1. pc[t] # "idle"
      BY <1>1 DEF OpenSessionFails, IntentRefused, ObserveRefused
    <2>2. QED BY <1>1, <1>r, <2>1, MoveRefusals
  <1>2. CASE \/ DispatchRefused(t) \/ Receive(t) \/ DispatchFails(t)
             \/ CheckNotApplied(t) \/ VerifyFails(t)
    <2>1. pc[t] # "idle"
      BY <1>2 DEF DispatchRefused, AtDispatch, Receive, DispatchFails,
                  CheckNotApplied, VerifyFails
    <2>2. QED BY <1>2, <1>r, <2>1, SettledAnswer, AnswerShapes
  <1>3. CASE LoopFinish(t) \/ LoopStop(t) \/ FinishRefused(t)
    <2>1. pc[t] \in {"next", "intent", "finish"}
      BY <1>3 DEF LoopFinish, LoopStop, FinishRefused
    <2>2. \E s : FinishExecution(t, s)
      BY <1>3 DEF LoopFinish, LoopStop, FinishRefused
    <2>3. QED BY <1>0, <1>l, <2>1, <2>2, SettledFinish
  <1>4. CASE LoopRefuse(t)
    <2>1. pc[t] = "next" /\ \E o : Refuse(t, o)
      BY <1>4 DEF LoopRefuse
    <2>2. PICK kind, o, newOp, newStatus :
            /\ PersistEvent(t, kind, o, 0, newOp, newStatus, "finish")
            /\ newOp \notin Interrupted
            /\ UNCHANGED <<requests, todo>>
      BY <2>1 DEF Refuse, Interrupted
    <2>3. "finish" \notin Requested
      BY DEF Requested
    <2>4. QED BY <1>0, <1>l, <2>1, <2>2, <2>3, SettledEvent
  <1>5. CASE LoopValidate(t)
    <2>1. pc[t] = "next"
      BY <1>5 DEF LoopValidate
    <2>2. PICK o \in todo[t] :
            PersistEvent(t, "preconditions_validated", o, 0,
              IF Dir(t) = "forward" THEN "preflight_ok" ELSE seen[t][o],
              RunningSession(t), "intent")
      BY <1>5 DEF LoopValidate
    <2>3. (IF Dir(t) = "forward" THEN "preflight_ok" ELSE seen[t][o])
            \notin Interrupted
      <3>1. Dir(t) # "forward" => seen[t][o] \in AppliedStatuses
        BY <1>0, <2>1, <2>2, ThreadKinds DEF Dir, SettledInv, Position
      <3>2. QED BY <3>1 DEF AppliedStatuses, Interrupted
    <2>4. UNCHANGED <<requests, todo>> /\ "intent" \notin Requested
      BY <1>5 DEF LoopValidate, Requested
    <2>5. QED BY <1>0, <1>l, <2>1, <2>2, <2>3, <2>4, SettledEvent
  <1>6. CASE Dispatch(t)
    <2>1. /\ Goto(t, "wait") /\ pc[t] = "dispatch"
          /\ UNCHANGED <<opStatus, requests, status, op, rid, todo, seen>>
      BY <1>6 DEF Dispatch, AtDispatch, db, session
    <2>2. OnlyMine(t)
      BY <1>0, <2>1, OthersIdle DEF Turn
    <2>3. /\ HalfDoneRequested' /\ (Clean => Clean')
          /\ CleanBut(t) => CleanBut(t)'
      BY <2>1 DEF SettledInv, HalfDoneRequested, Clean, CleanBut
    <2>4. pc'[t] = "wait"
      BY <1>0, <2>1 DEF Goto, TypeOK, PositionType
    <2>5. Position(t)'
      BY <1>0, <2>1, <2>3, <2>4
         DEF SettledInv, Position, Requested, RunningOp, Dir
    <2>6. QED BY <1>0, <2>1, <2>2, <2>3, <2>5, SettledAt DEF SettledInv
  <1>7. CASE WorkerSteps(t)
    BY <1>7, SettledStutter
       DEF WorkerSteps, WorkerMutates, WorkerDeclines, db, session
  <1>8. QED
    BY <1>1, <1>2, <1>3, <1>4, <1>5, <1>6, <1>7, SettledIntent, SettledOutcome
       DEF MoveSteps

\* Recovery is in its loop and all other threads are idle.
LEMMA SettledRecovering ==
  ASSUME OnlyMine(Recovery), status' \in Claims => Clean', HalfDoneRequested',
         Reconciling'
  PROVE  SettledInv'
  <1>1. \A u \in Threads : Position(u)'
    BY ThreadKinds DEF OnlyMine, Position, Requested
  <1>2. QED BY <1>1 DEF SettledInv


\* A request that is taken over as it is settled already; the operation it
\* leaves half done, if any, makes the session ambiguous.
LEMMA SettledFact ==
  ASSUME TypeOK, LogInv, OneCommand, SettledInv, ReconcileSettled
  PROVE  SettledInv'
  <1> DEFINE r == rid[Recovery]
  <1>0. Recovery \in Threads
    BY ThreadKinds
  <1>1. /\ pc[Recovery] = "reconcile" /\ r <= Len(facts) /\ Settled(Fact)
        /\ amb' = (amb \/ Fact.state = "ambiguous")
        /\ rid' = [rid EXCEPT ![Recovery] = @ + 1]
        /\ UNCHANGED <<opStatus, requests, status, facts, seen, pc>>
    BY DEF ReconcileSettled, AtFact, NextFact, db, session
  <1>2. r \in 1..Len(facts) /\ r \in Nat /\ rid'[Recovery] = r + 1
    BY <1>0, <1>1 DEF LogInv, InHand, TypeOK, LocalType
  <1>3. OnlyMine(Recovery)
    BY <1>0, <1>1, OthersIdle DEF Turn
  <1>4. HalfDoneRequested' /\ (Clean => Clean')
    BY <1>1 DEF SettledInv, HalfDoneRequested, Clean
  <1>5. Fact = facts[r] /\ Fact = requests[r] /\ Len(facts) = Len(requests)
    BY <1>1, <1>2 DEF Fact, SettledInv, Reconciling
  <1>6. Fact.state \notin Unresolved
    BY <1>1 DEF Settled, Unresolved
  <1>7. \A i \in 1..Len(facts) :
          IF i < r + 1
          THEN /\ requests[i].state \notin Unresolved
               /\ requests[i].state = "ambiguous" => amb'
          ELSE requests[i] = facts[i]
    <2>1. ASSUME NEW i \in 1..Len(facts)
          PROVE  IF i < r + 1
                 THEN /\ requests[i].state \notin Unresolved
                      /\ requests[i].state = "ambiguous" => amb'
                 ELSE requests[i] = facts[i]
      <3>1. CASE i < r
        <4>1. /\ requests[i].state \notin Unresolved
              /\ requests[i].state = "ambiguous" => amb
          BY <1>1, <2>1, <3>1 DEF SettledInv, Reconciling
        <4>2. amb => amb'
          BY <1>1
        <4>3. QED BY <1>2, <2>1, <3>1, <4>1, <4>2
      <3>2. CASE i = r
        <4>1. Fact.state = "ambiguous" => amb'
          BY <1>1
        <4>2. QED BY <1>2, <1>5, <1>6, <2>1, <3>2, <4>1
      <3>3. CASE i > r
        <4>1. requests[i] = facts[i]
          BY <1>1, <1>2, <2>1, <3>3 DEF SettledInv, Reconciling
        <4>2. QED BY <1>2, <2>1, <3>3, <4>1
      <3>4. QED BY <1>2, <2>1, <3>1, <3>2, <3>3
    <2>2. QED BY <2>1
  <1>8. ASSUME NEW o \in Ops, opStatus[o] \in Interrupted, ~amb'
        PROVE  /\ seen[Recovery][o] = opStatus[o]
               /\ \E i \in (r + 1)..Len(facts) :
                    facts[i].op = o /\ OpInterrupted(facts[i])
    <2>1. /\ seen[Recovery][o] = opStatus[o]
          /\ \E i \in r..Len(facts) :
               facts[i].op = o /\ OpInterrupted(facts[i])
      BY <1>1, <1>8 DEF SettledInv, Reconciling
    <2>2. ~OpInterrupted(Fact)
      BY <1>1, <1>8 DEF Settled
    <2>3. PICK i \in r..Len(facts) : facts[i].op = o /\ OpInterrupted(facts[i])
      BY <2>1
    <2>4. i # r
      BY <1>5, <2>2, <2>3
    <2>5. i \in (r + 1)..Len(facts)
      BY <1>2, <2>4 DEF TypeOK, LocalType
    <2>6. QED BY <2>1, <2>3, <2>5
  <1>9. Reconciling'
    BY <1>1, <1>2, <1>5, <1>7, <1>8 DEF Reconciling, OpInterrupted
  <1>10. QED
    BY <1>1, <1>3, <1>4, <1>9, SettledRecovering DEF SettledInv

\* What recovery writes of an operation and of its request is settled, or it
\* calls the session ambiguous.
LEMMA SettledVerdict ==
  ASSUME TypeOK, LogInv, OneCommand, SettledInv, ReconcileRequest
  PROVE  SettledInv'
  <1> DEFINE r == rid[Recovery]
  <1>0. Recovery \in Threads
    BY ThreadKinds
  <1>1. PICK kind, verdict, newOp, newStatus :
          /\ verdict = Verdict(Fact) /\ newOp = VerdictOp(Fact)
          /\ newStatus \in {"recovery_ambiguous", "recovery_required"}
          /\ PersistEvent(Recovery, kind, Fact.op, r, newOp, newStatus,
                          "reconcile")
    BY DEF ReconcileRequest
  <1>2. /\ pc[Recovery] = "reconcile" /\ r <= Len(facts)
        /\ SetRequest(r, verdict)
        /\ amb' = (amb \/ verdict = "ambiguous")
        /\ rid' = [rid EXCEPT ![Recovery] = @ + 1]
    BY <1>1 DEF ReconcileRequest, AtFact, NextFact
  <1>3. /\ Goto(Recovery, "reconcile") /\ UNCHANGED <<facts, seen>>
        /\ status' = newStatus
        /\ opStatus' = IF Fact.op = NoOp THEN opStatus
                       ELSE [opStatus EXCEPT ![Fact.op] = newOp]
    BY <1>1 DEF PersistEvent
  <1>4. r \in 1..Len(facts) /\ r \in Nat /\ rid'[Recovery] = r + 1
    BY <1>0, <1>2 DEF LogInv, InHand, TypeOK, LocalType
  <1>5. OnlyMine(Recovery)
    BY <1>0, <1>2, <1>3, OthersIdle DEF Turn
  <1>6. /\ verdict \in {"proven_not_started", "proven_applied", "ambiguous"}
        /\ verdict = "ambiguous" \/ newOp \notin Interrupted
    BY <1>1 DEF Verdict, VerdictOp, Interrupted
  <1>7. verdict = "ambiguous" => newOp = opStatus[Fact.op]
    BY <1>1 DEF VerdictOp
  <1>8. /\ SameRequests
        /\ \A i \in 1..Len(requests) :
             requests'[i].state = IF i = r THEN verdict ELSE requests[i].state
    <2>1. verdict \in RequestStates
      BY <1>6 DEF RequestStates
    <2>2. QED
      BY <1>2, <2>1, SetRequestFacts, SetRequestState
         DEF SameRequests, TypeOK, TableType
  <1>9. /\ Fact = facts[r] /\ Len(facts) = Len(requests)
        /\ Len(requests') = Len(requests)
    BY <1>2, <1>8 DEF Fact, SettledInv, Reconciling, SameRequests
  <1>10. \A i \in 1..Len(requests) : i # r => requests'[i] = requests[i]
    BY <1>2 DEF SetRequest, TypeOK, TableType
  <1>11. \A o \in Ops : opStatus'[o] \in Interrupted =>
           /\ opStatus'[o] = opStatus[o]
           /\ amb' \/ o # Fact.op
    <2>1. ASSUME NEW o \in Ops, opStatus'[o] \in Interrupted
          PROVE  opStatus'[o] = opStatus[o] /\ (amb' \/ o # Fact.op)
      <3>1. CASE o = Fact.op
        <4>1. opStatus'[o] = newOp
          BY <1>3, <3>1, ConstantFacts DEF TypeOK, TableType
        <4>2. QED BY <1>2, <1>6, <1>7, <2>1, <3>1, <4>1
      <3>2. CASE o # Fact.op
        BY <1>3, <3>2 DEF TypeOK, TableType
      <3>3. QED BY <3>1, <3>2
    <2>2. QED BY <2>1
  <1>12. HalfDoneRequested'
    BY <1>8, <1>11
       DEF SettledInv, HalfDoneRequested, SameRequests, Interrupted
  <1>13. \A i \in 1..Len(facts) :
           IF i < r + 1
           THEN /\ requests'[i].state \notin Unresolved
                /\ requests'[i].state = "ambiguous" => amb'
           ELSE requests'[i] = facts[i]
    <2>1. verdict \notin Unresolved
      BY <1>6 DEF Unresolved
    <2>2. \A i \in 1..Len(facts) :
            IF i < r
            THEN /\ requests[i].state \notin Unresolved
                 /\ requests[i].state = "ambiguous" => amb
            ELSE requests[i] = facts[i]
      BY <1>2 DEF SettledInv, Reconciling
    <2>3. ASSUME NEW i \in 1..Len(facts)
          PROVE  IF i < r + 1
                 THEN /\ requests'[i].state \notin Unresolved
                      /\ requests'[i].state = "ambiguous" => amb'
                 ELSE requests'[i] = facts[i]
      <3>1. CASE i < r
        <4>1. i < r + 1 /\ requests'[i].state = requests[i].state
          BY <1>4, <1>8, <1>9, <2>3, <3>1
        <4>2. /\ requests[i].state \notin Unresolved
              /\ requests[i].state = "ambiguous" => amb
          BY <2>2, <2>3, <3>1
        <4>3. amb => amb'
          BY <1>2
        <4>4. QED BY <4>1, <4>2, <4>3
      <3>2. CASE i = r
        <4>1. i < r + 1 /\ requests'[i].state = verdict
          BY <1>4, <1>8, <1>9, <2>3, <3>2
        <4>2. verdict = "ambiguous" => amb'
          BY <1>2
        <4>3. QED BY <2>1, <4>1, <4>2
      <3>3. CASE i > r
        <4>1. ~(i < r + 1) /\ ~(i < r) /\ requests'[i] = requests[i]
          BY <1>4, <1>9, <1>10, <2>3, <3>3
        <4>2. QED BY <2>2, <2>3, <4>1
      <3>4. QED BY <1>4, <2>3, <3>1, <3>2, <3>3
    <2>4. QED BY <2>3
  <1>14. ASSUME NEW o \in Ops, opStatus'[o] \in Interrupted, ~amb'
         PROVE  /\ seen[Recovery][o] = opStatus'[o]
                /\ \E i \in (r + 1)..Len(facts) :
                     facts[i].op = o /\ OpInterrupted(facts[i])
    <2>1. opStatus'[o] = opStatus[o] /\ o # Fact.op
      BY <1>11, <1>14
    <2>2. /\ seen[Recovery][o] = opStatus[o]
          /\ \E i \in r..Len(facts) :
               facts[i].op = o /\ OpInterrupted(facts[i])
      BY <1>2, <1>14, <2>1 DEF SettledInv, Reconciling
    <2>3. QED BY <1>4, <1>9, <2>1, <2>2
  <1>15. Reconciling'
    <2>1. pc'[Recovery] = "reconcile"
      BY <1>0, <1>3 DEF Goto, TypeOK, PositionType
    <2>2. QED
      BY <1>3, <1>4, <1>9, <1>13, <1>14, <2>1 DEF Reconciling, OpInterrupted
  <1>16. status' \notin Claims
    BY <1>1, <1>3 DEF Claims, Resolving
  <1>17. QED BY <1>5, <1>12, <1>15, <1>16, SettledRecovering

LEMMA SettledRecovery ==
  ASSUME TypeOK, LogInv, OneCommand, SettledInv,
         RecoverBegin \/ RecoverLocks \/ RecoverySteps
  PROVE  SettledInv'
  <1>0. Recovery \in Threads
    BY ThreadKinds
  <1>1. ASSUME MayRecover PROVE Turn(Recovery)
    BY <1>1, MayCallTurn DEF MayRecover, OneCommand, Turn
  <1>2. CASE RecoverBegin
    <2>1. /\ Goto(Recovery, "cursor") /\ UNCHANGED <<opStatus, requests, status>>
          /\ seen' = [seen EXCEPT ![Recovery] = opStatus]
      BY <1>2 DEF RecoverBegin, db, session
    <2>2. OnlyMine(Recovery)
      BY <1>0, <1>1, <1>2, <2>1, OthersIdle DEF RecoverBegin
    <2>3. HalfDoneRequested' /\ (Clean => Clean')
      BY <2>1 DEF SettledInv, HalfDoneRequested, Clean
    <2>4. Reconciling'
      BY <1>0, <2>1
         DEF Reconciling, Goto, TypeOK, PositionType, LocalType, TableType
    <2>5. QED BY <2>1, <2>2, <2>3, <2>4, SettledRecovering DEF SettledInv
  <1>3. CASE RecoverLocks
    BY <1>0, <1>1, <1>3, SettledReturn
       DEF RecoverLocks, LockOn, db, session
  <1>4. CASE ReconcileRefused
    BY <1>0, <1>4, SettledReturn
       DEF ReconcileRefused, AtFact, Turn, db, session
  <1>5. CASE Assess
    <2>1. /\ pc[Recovery] = "reconcile" /\ rid[Recovery] > Len(facts)
          /\ UNCHANGED <<opStatus, requests>> /\ Return(Recovery)
          /\ status' # "recovery_ambiguous" => ~amb
          /\ status' \in {"recovery_ambiguous", "recovery_available"}
      BY <1>5 DEF Assess
    <2>2. "recovery_ambiguous" \notin Claims
      BY DEF Claims, Resolving
    <2>3. ~amb => Clean
      <3>1. rid[Recovery] \in Nat /\ Len(facts) \in Nat
        BY <1>0 DEF TypeOK, LocalType
      <3>2. ~amb => \A i \in 1..Len(requests) : requests[i].state \notin Pending
        BY <2>1, <3>1 DEF SettledInv, Reconciling, Pending
      <3>3. ~amb => \A o \in Ops : opStatus[o] \notin Interrupted
        BY <2>1, <3>1 DEF SettledInv, Reconciling
      <3>4. QED BY <3>2, <3>3 DEF Clean
    <2>4. QED BY <1>0, <2>1, <2>2, <2>3, SettledReturn DEF Turn
  <1>6. QED
    BY <1>2, <1>3, <1>4, <1>5, SettledFact, SettledVerdict DEF RecoverySteps

LEMMA SettledStep ==
  ASSUME TypeOK, LogInv, OneCommand, SettledInv, [Next]_vars
  PROVE  SettledInv'
  <1>1. CASE \/ \E i \in orphans : OrphanMutates(i) \/ OrphanDies(i)
             \/ \E o \in Ops : UserChange(o)
             \/ UNCHANGED vars
    <2>1. UNCHANGED <<status, opStatus, requests, pc, op, rid, todo, seen,
                      facts, amb>>
      BY <1>1 DEF OrphanMutates, OrphanDies, UserChange, vars, db, session,
                  local
    <2>2. QED BY <2>1, SettledStutter
  <1>2. CASE CrashRestart
    <2>1. /\ \A u \in Threads : pc'[u] = "idle"
          /\ UNCHANGED <<opStatus, requests>>
          /\ status' \in {status, "recovery_required"}
      BY <1>2 DEF CrashRestart, MarkRecoveryRequired
    <2>2. "recovery_required" \notin Claims
      BY DEF Claims, Resolving
    <2>3. QED BY <2>1, <2>2, SettledRest
  <1>3. QED
    BY <1>1, <1>2, SettledJournalling, SettledConsent, SettledBegin,
       SettledMove, SettledCancel, SettledRecovery DEF Next

LEMMA SettledInit ==
  ASSUME Init
  PROVE  SettledInv
  <1>1. Clean /\ \A t \in Threads : pc[t] = "idle"
    BY DEF Init, Clean, Interrupted
  <1>2. QED
    BY <1>1, ThreadKinds
       DEF SettledInv, Position, Requested, HalfDoneRequested, Reconciling,
           Clean, Interrupted

\* A session that reports a final status leaves no operation half done and no
\* request that waits for its outcome, whatever crashed, failed or was recovered
\* before (finish_execution, persist_recovery_assessment).
THEOREM FinalMeansSettled == ~Overlap /\ Spec => []FinalIsSettled
  <1> DEFINE FinalInv == TypeOK /\ LogInv /\ OneCommand /\ SettledInv
  <1>1. ~Overlap /\ Init => FinalInv
    BY TypeInit, LogInit, OneCommandInit, SettledInit
  <1>2. FinalInv /\ [Next]_vars => FinalInv'
    BY LogStep, OneCommandStep, SettledStep
  <1>3. FinalInv => FinalIsSettled
    BY DEF SettledInv, FinalIsSettled, Clean, Claims, Interrupted, Pending
  <1>4. QED BY <1>1, <1>2, <1>3, PTL DEF Spec


-----------------------------------------------------------------------------
(* Where a started execution stands in the plan *)

\* prepare_execution puts all stages and then all staged moves in one block,
\* before the directory cleanup: nothing else stands between them.
CycleTogether ==
  \A a, b \in CycleGroup : \A o \in Ops : a <= o /\ o <= b => o \in CycleGroup

\* No operation has been attempted.
Untried == \A o \in Ops : opStatus[o] \in {"preflight_ok", "blocked"}

\* Once a stage is applied, every operation of the cycle has been attempted.
CycleWhole ==
  (\E o \in Stages : opStatus[o] \in AppliedStatuses)
    => \A o \in CycleGroup : opStatus[o] # "preflight_ok"

\* What the loop of start_execution_at has ahead of it and behind it: whatever
\* was not attempted is scheduled, whatever is applied it has applied itself,
\* and the operation in hand is the first one scheduled.
Sweep(t) ==
  /\ \A o \in Ops : opStatus[o] = "preflight_ok" => o \in todo[t]
  /\ \A o \in Ops : opStatus[o] \in AppliedStatuses => o \in done[t]
  /\ \A d \in done[t] : \A p \in todo[t] : d < p
  /\ pc[t] \in Chosen =>
       op[t] \in todo[t] /\ \A p \in todo[t] : op[t] <= p

\* Where the command of thread t stands.
Standing(t) ==
  /\ t \in CancelCmds /\ pc[t] # "idle" => CycleWhole
  /\ t \in FinalizeCmds /\ pc[t] # "idle" => Untried
  /\ t \in StartCmds /\ pc[t] = "consume" => Untried
  /\ t \in StartCmds /\ pc[t] \notin {"idle", "consume"} => Sweep(t)

CycleInv ==
  /\ status \in {"awaiting_confirmation", "approved"} => Untried
  /\ status \in {"paused", "cancelled"} => CycleWhole
  /\ \A t \in Threads : Standing(t)

\* The statuses that promise something about the cycle.
Promising == {"awaiting_confirmation", "approved", "paused", "cancelled"}

LEMMA UntriedWhole ==
  ASSUME Untried
  PROVE  CycleWhole
  BY PlanAssumption DEF Untried, CycleWhole, AppliedStatuses

\* While the operation table stays as it is, so do both facts.
LEMMA CycleFacts ==
  ASSUME opStatus' = opStatus
  PROVE  (Untried => Untried') /\ (CycleWhole => CycleWhole')
  BY DEF Untried, CycleWhole

\* The step of thread t leaves the others idle: only what the session and this
\* thread promise has to be shown.
LEMMA CycleMine ==
  ASSUME NEW t \in Threads, OnlyMine(t),
         status' \in {"awaiting_confirmation", "approved"} => Untried',
         status' \in {"paused", "cancelled"} => CycleWhole',
         Standing(t)'
  PROVE  CycleInv'
  <1>1. ASSUME NEW u \in Threads PROVE Standing(u)'
    BY DEF OnlyMine, Standing
  <1>2. QED BY <1>1 DEF CycleInv

\* Every thread is idle after a step that leaves the operation table alone.
LEMMA CycleRest ==
  ASSUME CycleInv, \A u \in Threads : pc'[u] = "idle", opStatus' = opStatus,
         status' \in {"awaiting_confirmation", "approved"} =>
           status \in {"awaiting_confirmation", "approved"} \/ Untried,
         status' \in {"paused", "cancelled"} => status' = status \/ CycleWhole
  PROVE  CycleInv'
  <1>1. ASSUME NEW u \in Threads PROVE Standing(u)'
    BY DEF Standing
  <1>2. QED BY <1>1, CycleFacts DEF CycleInv

LEMMA CycleReturn ==
  ASSUME TypeOK, OneCommand, CycleInv, NEW t \in Threads, Turn(t), Return(t),
         opStatus' = opStatus, status' = status \/ status' \notin Promising
  PROVE  CycleInv'
  <1>1. \A u \in Threads : pc'[u] = "idle"
    BY OthersIdle DEF OnlyMine, Return, Goto, TypeOK, PositionType
  <1>2. QED BY <1>1, CycleRest DEF Promising

\* Nothing the invariant speaks of changes.
LEMMA CycleStutter ==
  ASSUME CycleInv, UNCHANGED <<status, opStatus, pc, op, todo, done>>
  PROVE  CycleInv'
  <1>1. ASSUME NEW t \in Threads PROVE Standing(t)'
    BY CycleFacts DEF CycleInv, Standing, Sweep
  <1>2. QED BY <1>1, CycleFacts DEF CycleInv

\* A command that goes on without touching the tables.
LEMMA CycleGoto ==
  ASSUME TypeOK, OneCommand, CycleInv, NEW t \in Threads, Turn(t), NEW label,
         Goto(t, label), UNCHANGED <<status, opStatus>>,
         t \in CancelCmds => CycleWhole,
         t \in FinalizeCmds => Untried,
         t \in StartCmds => \/ label = "consume" /\ Untried
                            \/ label # "consume" /\ Sweep(t)'
  PROVE  CycleInv'
  <1>1. OnlyMine(t)
    BY OthersIdle
  <1>2. pc'[t] = label
    BY DEF Goto, TypeOK, PositionType
  <1>3. Standing(t)'
    BY <1>2, CycleFacts DEF Standing
  <1>4. QED BY <1>1, <1>3, CycleFacts, CycleMine DEF CycleInv

\* An event of a command that promises nothing of the cycle.
LEMMA CycleEvent ==
  ASSUME TypeOK, OneCommand, NEW t \in Threads, pc[t] # "idle",
         t \notin CancelCmds \cup FinalizeCmds,
         NEW kind, NEW o, NEW req, NEW newOp, NEW newStatus, NEW next,
         newStatus \notin Promising, next # "consume",
         PersistEvent(t, kind, o, req, newOp, newStatus, next),
         t \in StartCmds => Sweep(t)'
  PROVE  CycleInv'
  <1>1. Goto(t, next) /\ status' = newStatus
    BY DEF PersistEvent
  <1>2. OnlyMine(t)
    BY <1>1, OthersIdle DEF Turn
  <1>3. pc'[t] = next
    BY <1>1 DEF Goto, TypeOK, PositionType
  <1>4. Standing(t)'
    BY <1>3 DEF Standing
  <1>5. QED BY <1>1, <1>2, <1>4, CycleMine DEF Promising

LEMMA CycleJournalling ==
  ASSUME TypeOK, OneCommand, CycleInv, NEW t \in Threads, Journalling(t)
  PROVE  CycleInv'
  <1>1. CASE StaleCursor(t)
    BY <1>1, CycleReturn DEF StaleCursor, EventLabels, Turn, db, session
  <1>2. CASE SyncEvent(t)
    <2>1. UNCHANGED <<opStatus, status>> /\ Turn(t)
      BY <1>2 DEF SyncEvent, db, session, OneCommand, Turn
    <2>2. Return(t) \/ UNCHANGED <<pc, op, todo, done>>
      BY <1>2 DEF SyncEvent
    <2>3. QED BY <2>1, <2>2, CycleReturn, CycleStutter
  <1>3. CASE SyncFails(t)
    <2>1. opStatus' = opStatus /\ Turn(t) /\ Return(t)
      BY <1>3 DEF SyncFails, OneCommand, Turn
    <2>2. status' \in {status, "recovery_required"}
      BY <1>3 DEF SyncFails, MarkRecoveryRequired
    <2>3. QED BY <2>1, <2>2, CycleReturn DEF Promising
  <1>4. CASE ReadCursor(t)
    <2>1. PICK label \in {"next", "cancel", "reconcile"} :
            /\ Goto(t, label)
            /\ UNCHANGED <<status, opStatus, todo, done>>
      BY <1>4 DEF ReadCursor, db, session
    <2>2. pc[t] = "cursor" /\ Turn(t)
      BY <1>4 DEF ReadCursor, Turn
    <2>3. t \in FinalizeCmds => Untried
      BY <2>2 DEF CycleInv, Standing
    <2>4. t \in CancelCmds => CycleWhole
      BY <2>2 DEF CycleInv, Standing
    <2>5. t \in StartCmds => Sweep(t)'
      <3>1. pc'[t] \notin Chosen
        BY <2>1 DEF Goto, TypeOK, PositionType, Chosen, Requested
      <3>2. QED BY <2>1, <2>2, <3>1 DEF CycleInv, Standing, Sweep
    <2>6. QED BY <2>1, <2>2, <2>3, <2>4, <2>5, CycleGoto
  <1>5. QED BY <1>1, <1>2, <1>3, <1>4 DEF Journalling

LEMMA CycleConsent ==
  ASSUME TypeOK, OneCommand, CycleInv,
         \/ IssueChallenge
         \/ \E t \in FinalizeCmds :
              FinalizeAttest(t) \/ FinalizeLocks(t) \/ FinalizeSteps(t)
  PROVE  CycleInv'
  <1>1. CASE IssueChallenge
    BY <1>1, CycleStutter DEF IssueChallenge, local
  <1>2. ASSUME NEW t \in FinalizeCmds,
               FinalizeAttest(t) \/ FinalizeLocks(t) \/ FinalizeSteps(t)
        PROVE  CycleInv'
    <2>0. t \in Threads /\ t \notin StartCmds \cup CancelCmds
      BY ThreadKinds
    <2>1. CASE FinalizeAttest(t)
      <3>1. Untried /\ Untried' /\ OnlyMine(t) /\ status' = "approved"
        BY <2>0, <2>1, MayCallTurn, OthersIdle, CycleFacts
           DEF FinalizeAttest, CycleInv
      <3>2. Standing(t)'
        BY <2>0, <3>1 DEF Standing
      <3>3. QED BY <2>0, <3>1, <3>2, CycleMine
    <2>2. CASE FinalizeLocks(t)
      BY <2>0, <2>2, MayCallTurn, CycleReturn
         DEF FinalizeLocks, LockOn, db, session
    <2>3. CASE FinalizeRead(t)
      <3>1. UNCHANGED <<opStatus, status>> /\ Turn(t) /\ pc[t] = "attested"
        BY <2>3 DEF FinalizeRead, db, session, Turn
      <3>2. Untried
        BY <2>0, <3>1 DEF CycleInv, Standing
      <3>3. Return(t) \/ Goto(t, "approve")
        BY <2>3 DEF FinalizeRead
      <3>4. QED BY <2>0, <3>1, <3>2, <3>3, CycleReturn, CycleGoto
    <2>4. CASE FinalizeApprove(t)
      <3>1. /\ Goto(t, "end") /\ opStatus' = opStatus /\ status' = "approved"
            /\ pc[t] = "approve"
        BY <2>4 DEF FinalizeApprove, PersistEvent
      <3>2. Untried /\ Untried' /\ OnlyMine(t)
        BY <2>0, <3>1, OthersIdle, CycleFacts DEF CycleInv, Standing, Turn
      <3>3. Standing(t)'
        BY <2>0, <3>2 DEF Standing
      <3>4. QED BY <2>0, <3>1, <3>2, <3>3, CycleMine
    <2>5. QED BY <1>2, <2>1, <2>2, <2>3, <2>4 DEF FinalizeSteps
  <1>3. QED BY <1>1, <1>2

LEMMA CycleBegin ==
  ASSUME TypeOK, OneCommand, CycleInv,
         \/ \E t \in StartCmds : \/ StartBegin(t) \/ StartLocks(t)
                                 \/ StartLapses(t) \/ StartConsume(t)
         \/ \E t \in RollbackCmds : RollbackBegin(t) \/ RollbackLocks(t)
  PROVE  CycleInv'
  <1>1. ASSUME NEW t \in StartCmds,
               \/ StartBegin(t) \/ StartLocks(t)
               \/ StartLapses(t) \/ StartConsume(t)
        PROVE  CycleInv'
    <2>0. t \in Threads /\ t \notin CancelCmds \cup FinalizeCmds
      BY ThreadKinds
    <2>1. CASE StartBegin(t)
      <3>1. Untried /\ UNCHANGED <<status, opStatus>> /\ Goto(t, "consume")
        BY <2>1 DEF StartBegin, CycleInv, db, session
      <3>2. QED BY <2>0, <2>1, <3>1, MayCallTurn, CycleGoto DEF StartBegin
    <2>2. CASE StartLocks(t)
      BY <2>0, <2>2, MayCallTurn, CycleReturn
         DEF StartLocks, LockOn, db, session
    <2>3. CASE StartLapses(t)
      <3>1. \A u \in Threads : pc'[u] = "idle"
        BY <2>3, MayCallTurn DEF StartLapses, local
      <3>2. QED BY <2>3, <3>1, CycleRest DEF StartLapses
    <2>4. CASE StartConsume(t)
      <3>1. Turn(t) /\ pc[t] = "consume" /\ opStatus' = opStatus
        BY <2>4 DEF StartConsume, Turn
      <3>2. Untried
        BY <2>0, <3>1 DEF CycleInv, Standing
      <3>3. CASE Return(t) /\ status' = status
        BY <2>0, <3>1, <3>3, CycleReturn
      <3>4. CASE ~(Return(t) /\ status' = status)
        <4>1. /\ Goto(t, "cursor") /\ status' = "running"
              /\ todo' = [todo EXCEPT ![t] =
                            {o \in Ops : opStatus[o] = "preflight_ok"}]
              /\ done' = [done EXCEPT ![t] =
                            {o \in Ops : opStatus[o] \in AppliedStatuses}]
          BY <2>4, <3>4 DEF StartConsume, ConsumeConsent
        <4>2. OnlyMine(t) /\ pc'[t] = "cursor"
          BY <2>0, <3>1, <4>1, OthersIdle DEF Goto, TypeOK, PositionType
        <4>3. /\ todo'[t] = {o \in Ops : opStatus[o] = "preflight_ok"}
              /\ done'[t] = {}
          BY <2>0, <3>2, <4>1
             DEF TypeOK, LocalType, Untried, AppliedStatuses
        <4>4. Sweep(t)'
          BY <3>1, <3>2, <4>2, <4>3
             DEF Sweep, Untried, AppliedStatuses, Chosen, Requested
        <4>5. Standing(t)'
          BY <2>0, <4>2, <4>4 DEF Standing
        <4>6. QED BY <2>0, <4>1, <4>2, <4>5, CycleMine
      <3>5. QED BY <3>3, <3>4
    <2>5. QED BY <1>1, <2>1, <2>2, <2>3, <2>4
  <1>2. ASSUME NEW t \in RollbackCmds, RollbackBegin(t) \/ RollbackLocks(t)
        PROVE  CycleInv'
    <2>0. t \in Threads /\ t \notin StartCmds \cup CancelCmds \cup FinalizeCmds
      BY ThreadKinds, ThreadAssumption
    <2>1. CASE RollbackBegin(t)
      <3>1. UNCHANGED <<status, opStatus>> /\ Goto(t, "cursor")
        BY <2>1 DEF RollbackBegin, db, session
      <3>2. QED BY <2>0, <2>1, <3>1, MayCallTurn, CycleGoto DEF RollbackBegin
    <2>2. CASE RollbackLocks(t)
      BY <2>0, <2>2, MayCallTurn, CycleReturn
         DEF RollbackLocks, LockOn, db, session
    <2>3. QED BY <1>2, <2>1, <2>2
  <1>3. QED BY <1>1, <1>2

LEMMA CycleCancel ==
  ASSUME TypeOK, OneCommand, CycleInv,
         \/ \E t \in CancelCmds :
              CancelBegin(t) \/ CancelLocks(t) \/ CancelSteps(t)
         \/ RequestPause \/ RequestCancel
  PROVE  CycleInv'
  <1>1. CASE RequestPause \/ RequestCancel
    BY <1>1, CycleStutter DEF RequestPause, RequestCancel, local
  <1>2. ASSUME NEW t \in CancelCmds,
               CancelBegin(t) \/ CancelLocks(t) \/ CancelSteps(t)
        PROVE  CycleInv'
    <2>0. t \in Threads /\ t \notin StartCmds \cup FinalizeCmds
      BY ThreadKinds
    <2>1. CASE CancelBegin(t)
      <3>1. CycleWhole /\ UNCHANGED <<status, opStatus>>
        BY <2>1, UntriedWhole DEF CancelBegin, CycleInv, db, session
      <3>2. \E label : Goto(t, label)
        BY <2>1 DEF CancelBegin
      <3>3. QED BY <2>0, <2>1, <3>1, <3>2, MayCallTurn, CycleGoto DEF CancelBegin
    <2>2. CASE CancelLocks(t)
      BY <2>0, <2>2, MayCallTurn, CycleReturn
         DEF CancelLocks, LockOn, db, session
    <2>3. CASE CancelInvalidate(t)
      <3>1. opStatus' = opStatus /\ Turn(t) /\ pc[t] # "idle"
        BY <2>3 DEF CancelInvalidate, Turn
      <3>2. CycleWhole
        BY <2>0, <3>1 DEF CycleInv, Standing
      <3>3. CASE Return(t) /\ status' = status
        BY <2>0, <3>1, <3>3, CycleReturn
      <3>4. CASE ~(Return(t) /\ status' = status)
        <4>1. /\ \E label : Goto(t, label)
              /\ \/ status' = status
                 \/ /\ status' = "awaiting_confirmation"
                    /\ status \in {"awaiting_confirmation", "approved"}
          BY <2>3, <3>4 DEF CancelInvalidate
        <4>2. OnlyMine(t)
          BY <2>0, <3>1, <4>1, OthersIdle
        <4>3. Standing(t)'
          BY <2>0, <3>1, <3>2, CycleFacts DEF Standing
        <4>4. QED
          BY <2>0, <3>1, <4>1, <4>2, <4>3, CycleMine, CycleFacts DEF CycleInv
      <3>5. QED BY <3>3, <3>4
    <2>4. CASE CancelUnstarted(t)
      <3>1. /\ opStatus' = opStatus /\ Turn(t) /\ Return(t) /\ pc[t] # "idle"
            /\ status' \in {status, "cancelled"}
        BY <2>4 DEF CancelUnstarted, Turn
      <3>2. CycleWhole
        BY <2>0, <3>1 DEF CycleInv, Standing
      <3>3. \A u \in Threads : pc'[u] = "idle"
        BY <2>0, <3>1, OthersIdle
           DEF OnlyMine, Return, Goto, TypeOK, PositionType
      <3>4. QED BY <3>1, <3>2, <3>3, CycleRest
    <2>5. CASE CancelFinish(t)
      <3>1. /\ Goto(t, "end") /\ opStatus' = opStatus /\ pc[t] # "idle"
            /\ status' = "cancelled"
        BY <2>5 DEF CancelFinish, FinishExecution, PersistEvent
      <3>2. CycleWhole /\ CycleWhole' /\ OnlyMine(t)
        BY <2>0, <3>1, OthersIdle, CycleFacts DEF CycleInv, Standing, Turn
      <3>3. Standing(t)'
        BY <2>0, <3>2 DEF Standing
      <3>4. QED BY <2>0, <3>1, <3>2, <3>3, CycleMine
    <2>6. QED BY <1>2, <2>1, <2>2, <2>3, <2>4, <2>5 DEF CancelSteps
  <1>3. QED BY <1>1, <1>2

LEMMA CycleRecovery ==
  ASSUME TypeOK, OneCommand, CycleInv, RecoverBegin \/ RecoverLocks \/ RecoverySteps
  PROVE  CycleInv'
  <1>0. /\ Recovery \in Threads
        /\ Recovery \notin StartCmds \cup CancelCmds \cup FinalizeCmds
    BY ThreadKinds
  <1>1. ASSUME MayRecover PROVE Turn(Recovery)
    BY <1>1, MayCallTurn DEF MayRecover, OneCommand, Turn
  <1>2. CASE RecoverBegin
    <2>1. UNCHANGED <<status, opStatus>> /\ Goto(Recovery, "cursor")
      BY <1>2 DEF RecoverBegin, db, session
    <2>2. QED BY <1>0, <1>1, <1>2, <2>1, CycleGoto DEF RecoverBegin
  <1>3. CASE RecoverLocks
    BY <1>0, <1>1, <1>3, CycleReturn DEF RecoverLocks, LockOn, db, session
  <1>4. CASE ReconcileSettled
    BY <1>4, CycleStutter DEF ReconcileSettled, db, session
  <1>5. CASE ReconcileRequest
    <2>1. pc[Recovery] # "idle"
      BY <1>5 DEF ReconcileRequest, AtFact
    <2>2. PICK k, s, n : /\ n \notin Promising
                         /\ PersistEvent(Recovery, k, Fact.op, rid[Recovery],
                                         s, n, "reconcile")
      BY <1>5 DEF ReconcileRequest, Promising
    <2>3. QED BY <1>0, <2>1, <2>2, CycleEvent
  <1>6. CASE ReconcileRefused
    BY <1>0, <1>6, CycleReturn DEF ReconcileRefused, AtFact, Turn, db, session
  <1>7. CASE Assess
    BY <1>0, <1>7, CycleReturn DEF Assess, Turn, Promising
  <1>8. QED
    BY <1>2, <1>3, <1>4, <1>5, <1>6, <1>7 DEF RecoverySteps

\* An event of the loop that leaves what is scheduled and done alone: only the
\* operation in hand changes its status, and none becomes applied.
LEMMA SweepEvent ==
  ASSUME TypeOK, CycleInv, NEW t \in StartCmds,
         pc[t] \notin {"idle", "consume"},
         NEW kind, NEW o \in Ops \cup {NoOp}, NEW req, NEW newOp,
         NEW newStatus, NEW next,
         newOp \notin AppliedStatuses \/ o = NoOp,
         newOp = "preflight_ok" => o = NoOp \/ o \in todo[t],
         next \in Chosen => op'[t] \in todo[t] /\ \A p \in todo[t] : op'[t] <= p,
         PersistEvent(t, kind, o, req, newOp, newStatus, next),
         UNCHANGED <<todo, done>>
  PROVE  Sweep(t)'
  <1>0. t \in Threads
    BY ThreadKinds
  <1>1. Sweep(t)
    BY <1>0 DEF CycleInv, Standing
  <1>2. pc'[t] = next
    BY <1>0 DEF PersistEvent, Goto, TypeOK, PositionType
  <1>3. \A p \in Ops : opStatus'[p] = opStatus[p] \/ (p = o /\ opStatus'[p] = newOp)
    BY DEF PersistEvent, TypeOK, TableType
  <1>4. NoOp \notin Ops
    BY PlanAssumption DEF Ops, NoOp
  <1>5. QED BY <1>1, <1>2, <1>3, <1>4 DEF Sweep

\* finish_execution at the end of the loop or after a refusal.
LEMMA SweepFinish ==
  ASSUME TypeOK, CycleInv, NEW t \in StartCmds,
         pc[t] \notin {"idle", "consume"}, NEW newStatus,
         FinishExecution(t, newStatus)
  PROVE  Sweep(t)'
  <1>1. "end" \notin Chosen /\ NoOp \in Ops \cup {NoOp}
    BY DEF Chosen, Requested
  <1>2. QED BY <1>1, SweepEvent DEF FinishExecution

\* A pause or cancel is honoured before the first operation of the cycle, or
\* after the last one: what is done comes before the next operation, and what
\* is left comes after it.
LEMMA StopBetween ==
  ASSUME CycleTogether, TypeOK, NEW t \in StartCmds, Sweep(t),
         NEW o \in todo[t], IsNext(t, o), StopRequested(t, o)
  PROVE  CycleWhole
  <1>0. t \in Threads /\ Dir(t) = "forward"
    BY ThreadKinds DEF Dir
  <1>t. todo[t] \subseteq Ops /\ done[t] \subseteq Ops /\ Ops \subseteq Nat
    BY <1>0 DEF TypeOK, LocalType, Ops
  <1>1. SUFFICES ASSUME NEW s \in Stages, opStatus[s] \in AppliedStatuses,
                        NEW c \in CycleGroup, opStatus[c] = "preflight_ok"
                 PROVE  FALSE
    BY DEF CycleWhole
  <1>2. s \in Ops /\ s \in CycleGroup /\ c \in Ops
    BY PlanAssumption DEF CycleGroup
  <1>3. s \in done[t] /\ c \in todo[t]
    BY <1>1, <1>2 DEF Sweep
  <1>4. s <= o /\ o <= c
    <2>1. s < o
      BY <1>3 DEF Sweep
    <2>2. o <= c
      BY <1>0, <1>3 DEF IsNext
    <2>3. s \in Nat /\ o \in Nat
      BY <1>t, <1>2
    <2>4. QED BY <2>1, <2>2, <2>3
  <1>5. o \in CycleGroup
    BY <1>t, <1>2, <1>4 DEF CycleTogether
  <1>6. QED BY <1>3, <1>5 DEF StopRequested

\* The operation is observed applied: it leaves what is scheduled.
LEMMA SweepObserve ==
  ASSUME TypeOK, CycleInv, NEW t \in StartCmds, Observe(t)
  PROVE  Sweep(t)'
  <1>0. t \in Threads /\ Dir(t) = "forward"
    BY ThreadKinds DEF Dir
  <1>1. Sweep(t) /\ pc[t] \in Chosen
    BY <1>0 DEF CycleInv, Standing, Observe, Chosen, Requested
  <1>2. /\ opStatus' = [opStatus EXCEPT ![op[t]] = "applied"]
        /\ Goto(t, "next")
    <2>1. op[t] \in Ops
      BY <1>0, <1>1 DEF Sweep, TypeOK, LocalType
    <2>2. op[t] # NoOp
      BY <2>1, PlanAssumption DEF Ops, NoOp
    <2>3. QED BY <1>0, <2>2 DEF Observe, PersistEvent
  <1>3. /\ todo'[t] = todo[t] \ {op[t]}
        /\ done'[t] = done[t] \cup {op[t]}
        /\ pc'[t] = "next" /\ todo[t] \subseteq Ops /\ done[t] \subseteq Ops
    BY <1>0, <1>2 DEF Observe, Goto, TypeOK, PositionType, LocalType
  <1>4. \A p \in Ops : opStatus'[p] = IF p = op[t] THEN "applied" ELSE opStatus[p]
    BY <1>2 DEF TypeOK, TableType
  <1>5. \A d \in done'[t] : \A p \in todo'[t] : d < p
    <2>1. ASSUME NEW p \in todo'[t] PROVE op[t] < p
      <3>1. p \in todo[t] /\ p # op[t] /\ op[t] \in todo[t] /\ op[t] <= p
        BY <1>1, <1>3, <2>1 DEF Sweep
      <3>2. QED BY <1>3, <3>1 DEF Ops
    <2>2. QED BY <1>1, <1>3, <2>1 DEF Sweep
  <1>6. pc'[t] \notin Chosen
    BY <1>3 DEF Chosen, Requested
  <1>7. \A p \in Ops : opStatus'[p] = "preflight_ok" => p \in todo'[t]
    BY <1>1, <1>3, <1>4 DEF Sweep
  <1>8. \A p \in Ops : opStatus'[p] \in AppliedStatuses => p \in done'[t]
    BY <1>1, <1>3, <1>4 DEF Sweep
  <1>9. QED BY <1>5, <1>6, <1>7, <1>8 DEF Sweep

LEMMA CycleMove ==
  ASSUME CycleTogether, TypeOK, LogInv, OneCommand, CycleInv, NEW t \in Movers,
         MoveSteps(t) \/ WorkerSteps(t)
  PROVE  CycleInv'
  <1>0. t \in Threads /\ t \notin CancelCmds \cup FinalizeCmds
    BY ThreadKinds, ThreadAssumption
  <1>f. t \in StartCmds => Dir(t) = "forward"
    BY DEF Dir
  <1>s. ASSUME t \in StartCmds, pc[t] \notin {"idle", "consume"} PROVE Sweep(t)
    BY <1>0, <1>s DEF CycleInv, Standing
  <1>r. ASSUME Refusal(t), pc[t] # "idle" PROVE CycleInv'
    BY <1>0, <1>r, CycleReturn DEF Refusal, Turn, db, session
  <1>1. CASE OpenSessionFails(t) \/ IntentRefused(t) \/ ObserveRefused(t)
    <2>1. pc[t] # "idle"
      BY <1>1 DEF OpenSessionFails, IntentRefused, ObserveRefused
    <2>2. QED BY <1>1, <1>r, <2>1, MoveRefusals
  <1>2. CASE \/ DispatchRefused(t) \/ Receive(t) \/ DispatchFails(t)
             \/ CheckNotApplied(t) \/ VerifyFails(t)
    <2>1. pc[t] # "idle"
      BY <1>2 DEF DispatchRefused, AtDispatch, Receive, DispatchFails,
                  CheckNotApplied, VerifyFails
    <2>2. ASSUME NEW state \in AnswerStates,
                 NEW label \in {"refuse", "mark", "verify", "contradict"},
                 Answered(t, state, label)
          PROVE  CycleInv'
      <3>1. /\ UNCHANGED <<status, opStatus, todo, done, op>> /\ Goto(t, label)
            /\ pc[t] \in Requested
        BY <2>2 DEF Answered, Transition, session
      <3>2. t \in StartCmds => Sweep(t)'
        BY <1>s, <3>1 DEF Sweep, Chosen, Requested
      <3>3. QED BY <1>0, <2>1, <3>1, <3>2, CycleGoto DEF Turn
    <2>3. QED BY <1>2, <1>r, <2>1, <2>2, AnswerShapes
  <1>3. CASE LoopFinish(t) \/ FinishRefused(t)
    <2>1. pc[t] \in {"next", "finish"}
      BY <1>3 DEF LoopFinish, FinishRefused
    <2>2. PICK s : s \notin Promising /\ FinishExecution(t, s)
      BY <1>3 DEF LoopFinish, FinishRefused, CompletionStatus, RefuseStatus,
                  Promising
    <2>3. t \in StartCmds => Sweep(t)'
      BY <2>1, <2>2, SweepFinish
    <2>4. QED BY <1>0, <2>1, <2>2, <2>3, CycleEvent DEF FinishExecution
  <1>4. CASE LoopStop(t)
    <2>1. t \in StartCmds /\ pc[t] = "next"
      BY <1>4, ThreadKinds DEF LoopStop, StopRequested, Dir
    <2>2. CycleWhole
      BY <1>4, <1>s, <2>1, StopBetween DEF LoopStop
    <2>3. PICK s \in {"paused", "cancelled"} : FinishExecution(t, s)
      BY <1>4 DEF LoopStop
    <2>4. Sweep(t)'
      BY <2>1, <2>3, SweepFinish
    <2>5. status' = s /\ opStatus' = opStatus /\ Goto(t, "end")
      BY <2>3 DEF FinishExecution, PersistEvent
    <2>6. OnlyMine(t) /\ pc'[t] = "end" /\ CycleWhole'
      BY <1>0, <2>1, <2>2, <2>5, OthersIdle, CycleFacts
         DEF Turn, Goto, TypeOK, PositionType
    <2>7. Standing(t)'
      BY <1>0, <2>4, <2>6 DEF Standing
    <2>8. QED BY <1>0, <2>5, <2>6, <2>7, CycleMine
  <1>5. CASE LoopRefuse(t) \/ RefuseAfterRequest(t)
    <2>1. pc[t] \in {"next", "refuse"}
      BY <1>5 DEF LoopRefuse, RefuseAfterRequest
    <2>2. PICK o \in Ops \cup {NoOp} : Refuse(t, o)
      BY <1>0, <1>5 DEF LoopRefuse, RefuseAfterRequest, TypeOK, LocalType
    <2>3. PICK k, n, s : /\ PersistEvent(t, k, o, 0, n, s, "finish")
                         /\ s \notin Promising
                         /\ n \notin AppliedStatuses \cup {"preflight_ok"}
      BY <2>2 DEF Refuse, Promising, AppliedStatuses
    <2>4. t \in StartCmds => Sweep(t)'
      <3>1. UNCHANGED <<todo, done>> /\ "finish" \notin Chosen
        BY <2>2 DEF Refuse, Chosen, Requested
      <3>2. QED BY <2>1, <2>3, <3>1, SweepEvent
    <2>5. QED BY <1>0, <2>1, <2>3, <2>4, CycleEvent
  <1>6. CASE LoopValidate(t)
    <2>1. pc[t] = "next" /\ RunningSession(t) \notin Promising
      BY <1>6 DEF LoopValidate, RunningSession, RunningOp, Promising
    <2>2. PICK o \in todo[t] :
            /\ IsNext(t, o)
            /\ PersistEvent(t, "preconditions_validated", o, 0,
                 IF Dir(t) = "forward" THEN "preflight_ok" ELSE seen[t][o],
                 RunningSession(t), "intent")
            /\ op' = [op EXCEPT ![t] = o] /\ UNCHANGED <<todo, done>>
      BY <1>6 DEF LoopValidate
    <2>3. t \in StartCmds => Sweep(t)'
      <3>1. o \in Ops \cup {NoOp} /\ op'[t] = o
        BY <1>0, <2>2 DEF TypeOK, LocalType
      <3>2. t \in StartCmds => \A p \in todo[t] : o <= p
        BY <1>f, <2>2 DEF IsNext
      <3>3. "preflight_ok" \notin AppliedStatuses
        BY DEF AppliedStatuses
      <3>4. QED BY <1>f, <2>1, <2>2, <3>1, <3>2, <3>3, SweepEvent
    <2>4. QED BY <1>0, <2>1, <2>2, <2>3, CycleEvent
  <1>7. CASE Intent(t) \/ MarkAmbiguousOutcome(t)
    <2>1. pc[t] \in {"intent", "mark"} /\ pc[t] \in Chosen
      BY <1>7 DEF Intent, MarkAmbiguousOutcome, Chosen, Requested
    <2>2. PICK k, q, n, s, l :
            /\ PersistEvent(t, k, op[t], q, n, s, l)
            /\ s \notin Promising /\ l \in {"dispatch", "end"}
            /\ n \notin AppliedStatuses \cup {"preflight_ok"}
            /\ UNCHANGED <<todo, done, op>>
      BY <1>7 DEF Intent, MarkAmbiguousOutcome, RunningSession, RunningOp,
                  Promising, AppliedStatuses
    <2>3. t \in StartCmds => Sweep(t)'
      <3>1. op[t] \in Ops \cup {NoOp}
        BY <1>0 DEF TypeOK, LocalType
      <3>2. t \in StartCmds => op[t] \in todo[t] /\ \A p \in todo[t] : op[t] <= p
        BY <1>s, <2>1 DEF Sweep
      <3>3. QED BY <2>1, <2>2, <3>1, <3>2, SweepEvent
    <2>4. QED BY <1>0, <2>1, <2>2, <2>3, CycleEvent
  <1>8. CASE Observe(t)
    <2>1. pc[t] = "verify"
      BY <1>8 DEF Observe
    <2>2. PICK k, n, s : /\ PersistEvent(t, k, op[t], 0, n, s, "next")
                         /\ s \notin Promising
      BY <1>8 DEF Observe, Promising
    <2>3. t \in StartCmds => Sweep(t)'
      BY <1>8, SweepObserve
    <2>4. QED BY <1>0, <2>1, <2>2, <2>3, CycleEvent
  <1>9. CASE Dispatch(t)
    <2>1. /\ UNCHANGED <<status, opStatus, todo, done, op>> /\ Goto(t, "wait")
          /\ pc[t] = "dispatch"
      BY <1>9 DEF Dispatch, AtDispatch, db, session
    <2>2. t \in StartCmds => Sweep(t)'
      BY <1>s, <2>1 DEF Sweep, Chosen, Requested
    <2>3. QED BY <1>0, <2>1, <2>2, CycleGoto DEF Turn
  <1>10. CASE WorkerSteps(t)
    BY <1>10, CycleStutter
       DEF WorkerSteps, WorkerMutates, WorkerDeclines, db, session
  <1>11. QED
    BY <1>1, <1>2, <1>3, <1>4, <1>5, <1>6, <1>7, <1>8, <1>9, <1>10
       DEF MoveSteps

LEMMA CycleStep ==
  ASSUME CycleTogether, TypeOK, LogInv, OneCommand, CycleInv, [Next]_vars
  PROVE  CycleInv'
  <1>1. CASE \/ \E i \in orphans : OrphanMutates(i) \/ OrphanDies(i)
             \/ \E o \in Ops : UserChange(o)
             \/ UNCHANGED vars
    <2>1. UNCHANGED <<status, opStatus, pc, op, todo, done>>
      BY <1>1 DEF OrphanMutates, OrphanDies, UserChange, vars, db, session,
                  local
    <2>2. QED BY <2>1, CycleStutter
  <1>2. CASE CrashRestart
    <2>1. /\ \A u \in Threads : pc'[u] = "idle"
          /\ opStatus' = opStatus
          /\ status' \in {status, "recovery_required"}
      BY <1>2 DEF CrashRestart, MarkRecoveryRequired
    <2>2. QED BY <2>1, CycleRest
  <1>3. QED
    BY <1>1, <1>2, CycleJournalling, CycleConsent, CycleBegin, CycleMove,
       CycleCancel, CycleRecovery DEF Next

\* A paused or cancelled session has not stopped inside a rename cycle: either
\* no stage was applied, or everything of the cycle was attempted
\* (start_execution_at's cycle_group_started).
THEOREM CyclesStayWhole ==
  CycleTogether /\ ~Overlap /\ Spec => []CycleNotSplit
  <1> DEFINE Inv == TypeOK /\ LogInv /\ OneCommand /\ CycleInv
  <1>1. ~Overlap /\ Init => Inv
    <2>1. Init => CycleInv
      BY DEF Init, CycleInv, Standing, Untried
    <2>2. QED BY <2>1, TypeInit, LogInit, OneCommandInit
  <1>2. CycleTogether /\ Inv /\ [Next]_vars => Inv'
    BY LogStep, OneCommandStep, CycleStep
  <1>3. Inv => CycleNotSplit
    BY DEF CycleInv, CycleWhole, CycleNotSplit
  <1>4. CASE CycleTogether
    BY <1>1, <1>2, <1>3, <1>4, PTL DEF Spec
  <1>5. QED BY <1>4

-----------------------------------------------------------------------------
(* The inductive invariant of the tables and the disk *)

Rows == 1..Len(requests)

\* The statuses of an operation whose effect was established once.
Done == AppliedStatuses \cup {"rolling_back", "rolled_back", "rollback_blocked"}

\* The states that prove a request had no effect.
NotDone == {"proven_not_applied", "proven_not_started"}

\* Row i asks for operation o in direction d.
Asks(i, o, d) == requests[i].op = o /\ requests[i].dir = d

\* An operation is requested forward once at most (UNIQUE of the request table),
\* and rolled back only after its forward request is proven applied.  Of two
\* rollback requests for it, the earlier one had no proven effect.
OneForward ==
  \A i, j \in Rows :
    requests[i].dir = "forward" /\ requests[j].dir = "forward"
      /\ requests[i].op = requests[j].op => i = j

RollbackFollows ==
  \A i \in Rows : requests[i].dir = "rollback" => opStatus[requests[i].op] \in Done

DoneIsProven ==
  \A o \in Ops : opStatus[o] \in Done <=>
    \E i \in Rows : Asks(i, o, "forward") /\ requests[i].state = "proven_applied"

UndoneIsProven ==
  \A o \in Ops : opStatus[o] = "rolled_back" <=>
    \E i \in Rows : Asks(i, o, "rollback") /\ requests[i].state = "proven_applied"

LastRollback ==
  \A i, j \in Rows :
    i < j /\ requests[i].dir = "rollback" /\ requests[j].dir = "rollback"
      /\ requests[i].op = requests[j].op
      => requests[i].state \in NotDone \cup {"ambiguous"}

Tables ==
  OneForward /\ RollbackFollows /\ DoneIsProven /\ UndoneIsProven /\ LastRollback

\* A blocked rollback ends the session for good, and a session that reports
\* rolled_back has nothing applied.
Reports ==
  /\ \A o \in Ops : opStatus[o] = "rollback_blocked" => status = "rollback_partial"
  /\ status = "rolled_back" =>
       \A o \in Ops : opStatus[o] \notin AppliedStatuses \cup Interrupted

\* What command t has in hand and what it still has to do.
Busy(t, o) == pc[t] \in Requested /\ o = op[t]

InCommand(t) == pc[t] \notin {"idle", "finish", "end"}

Hand(t) ==
  /\ InCommand(t) => status # "rollback_partial"
  /\ t \in StartCmds /\ pc[t] = "finish" => status # "rollback_partial"
  /\ t \in Movers /\ pc[t] \in Requested =>
       rid[t] = Len(requests) /\ Asks(rid[t], op[t], Dir(t))
  /\ t \in Movers /\ pc[t] \in {"dispatch", "wait"} =>
       requests[rid[t]].state = "intent_durable"
  /\ t \in Movers /\ pc[t] = "intent" => op[t] \in todo[t]
  /\ t \in RollbackCmds /\ InCommand(t) =>
       \A o \in Ops : Busy(t, o) \/ (o \in todo[t] <=> opStatus[o] \in AppliedStatuses)
  /\ t \in StartCmds /\ InCommand(t) /\ pc[t] # "consume" =>
       \A o \in todo[t] : Busy(t, o) \/ opStatus[o] = "preflight_ok"

\* Whether the mutation of the request in hand has happened.
Effect(t) ==
  /\ pc[t] # "wait" => worker[t] \in {"none", "gone"}
  /\ worker[t] = "success" \/ pc[t] = "verify" => rid[t] \in moved
  /\ worker[t] \in {"working", "not_applied", "refused"}
       \/ pc[t] \in {"dispatch", "contradict"} => rid[t] \notin moved

\* The snapshot recovery reconciles belongs together.
Snapshot ==
  pc[Recovery] = "reconcile" =>
    \A i \in 1..Len(facts) :
      /\ seen[Recovery][facts[i].op] = "running" =>
           facts[i].dir = "forward" /\ facts[i].state # "proven_applied"
      /\ facts[i].dir = "rollback" /\ facts[i].state = "proven_applied" =>
           seen[Recovery][facts[i].op] = "rolled_back"

\* Where the object of an operation is follows from the mutations that happened.
Forth(o) == \E i \in moved : Asks(i, o, "forward")

Back(o) == \E i \in moved : Asks(i, o, "rollback")

Places ==
  \A o \in Ops \ touched :
    /\ loc[o] = IF Forth(o) /\ ~Back(o) THEN "dst" ELSE "src"
    /\ \A i, j \in Rows :
         i < j /\ Asks(i, o, "rollback") /\ Asks(j, o, "rollback") => i \notin moved

DiskInv ==
  /\ Tables /\ Reports
  /\ \A t \in Threads : Hand(t)
  /\ \A t \in Movers : Effect(t)
  /\ Snapshot /\ Places /\ ProofsAreTrue

-----------------------------------------------------------------------------
(* What the parts rest on *)

\* Moved requests are rows of the table.
LEMMA MovedRows ==
  ASSUME TypeOK, LogInv
  PROVE  moved \subseteq Rows /\ Len(requests) \in Nat
  BY DEF LogInv, EffectsFlushed, Flushed, Rows, TypeOK, TableType

LEMMA RowTypes ==
  ASSUME TypeOK
  PROVE  \A i \in Rows :
           /\ requests[i].op \in Ops
           /\ requests[i].dir \in {"forward", "rollback"}
           /\ requests[i].state \in RequestStates
  <1>1. \A i \in Rows : requests[i] \in Requests
    BY DEF TypeOK, TableType, Rows
  <1>2. QED BY <1>1 DEF Requests, Directions

LEMMA TablesKept2 ==
  ASSUME Tables, UNCHANGED <<opStatus, requests>>
  PROVE  Tables'
  BY DEF Tables, OneForward, RollbackFollows, DoneIsProven, UndoneIsProven,
         LastRollback, Rows, Asks

LEMMA PlacesKept ==
  ASSUME Places, ProofsAreTrue, UNCHANGED <<requests, loc, touched, moved>>
  PROVE  Places' /\ ProofsAreTrue'
  BY DEF Places, ProofsAreTrue, Rows, Asks, Forth, Back

\* The rows keep what they ask for, the disk stays as it is.
LEMMA PlacesSame ==
  ASSUME TypeOK, LogInv, Places, SameRequests, UNCHANGED <<loc, touched, moved>>
  PROVE  Places'
  <1>1. \A i \in Rows : \A o, d : Asks(i, o, d)' = Asks(i, o, d)
    BY DEF SameRequests, Asks, Rows
  <1>2. \A o : Forth(o)' = Forth(o) /\ Back(o)' = Back(o)
    BY <1>1, MovedRows DEF Forth, Back
  <1>3. Rows' = Rows
    BY DEF SameRequests, Rows
  <1>4. QED BY <1>1, <1>2, <1>3 DEF Places

\* An operation changes its status and no row changes.
LEMMA TablesOp ==
  ASSUME TypeOK, Tables, NEW o \in Ops, NEW s,
         opStatus' = [opStatus EXCEPT ![o] = s], requests' = requests,
         s \in Done <=> opStatus[o] \in Done,
         s = "rolled_back" <=> opStatus[o] = "rolled_back"
  PROVE  Tables'
  <1>1. \A p \in Ops : /\ opStatus'[p] \in Done <=> opStatus[p] \in Done
                       /\ opStatus'[p] = "rolled_back" <=> opStatus[p] = "rolled_back"
    BY DEF TypeOK, TableType
  <1>2. OneForward' /\ LastRollback'
    BY DEF Tables, OneForward, LastRollback, Rows
  <1>3. RollbackFollows'
    BY <1>1, RowTypes DEF Tables, RollbackFollows, Rows
  <1>4. DoneIsProven' /\ UndoneIsProven'
    BY <1>1 DEF Tables, DoneIsProven, UndoneIsProven, Rows, Asks
  <1>5. QED BY <1>2, <1>3, <1>4 DEF Tables

\* Nothing changes in the tables and the session leaves no final report.
LEMMA ReportsKept ==
  ASSUME Reports, opStatus' = opStatus,
         \/ status' = status
         \/ status # "rollback_partial" /\ status' # "rolled_back"
  PROVE  Reports'
  BY DEF Reports

LEMMA ReportsOp ==
  ASSUME TypeOK, Reports, NEW o \in Ops, NEW s,
         opStatus' = [opStatus EXCEPT ![o] = s],
         status # "rollback_partial", status' # "rolled_back",
         s = "rollback_blocked" => status' = "rollback_partial"
  PROVE  Reports'
  BY DEF Reports, TypeOK, TableType

\* The step of thread t leaves the other threads idle, their workers stopped.
LEMMA DiskAt ==
  ASSUME TypeOK, OneCommand, DiskInv, NEW t \in Threads, Turn(t), OnlyMine(t),
         \A u \in Movers \ {t} : worker'[u] = worker[u],
         Tables', Reports', Hand(t)', t \in Movers => Effect(t)',
         Snapshot', Places', ProofsAreTrue'
  PROVE  DiskInv'
  <1>1. \A u \in Threads : Hand(u)'
    BY DEF Hand, OnlyMine, InCommand, Requested
  <1>2. \A u \in Movers \ {t} : Effect(u)'
    <2>1. ASSUME NEW u \in Movers, u # t PROVE Effect(u)'
      <3>1. pc[u] = "idle" /\ pc'[u] = "idle" /\ worker'[u] = worker[u]
        BY <2>1, ThreadKinds DEF OneCommand, Turn, OnlyMine
      <3>2. worker[u] \in {"none", "gone"}
        BY <3>1 DEF DiskInv, Effect
      <3>3. QED BY <3>1, <3>2 DEF Effect
    <2>2. QED BY <2>1
  <1>3. QED BY <1>1, <1>2 DEF DiskInv

\* A command that returns.
LEMMA DiskReturn ==
  ASSUME TypeOK, OneCommand, DiskInv, NEW t \in Threads, Turn(t), Return(t),
         UNCHANGED <<opStatus, requests, loc, touched, moved>>,
         \/ status' = status
         \/ status # "rollback_partial" /\ status' # "rolled_back"
  PROVE  DiskInv'
  <1>1. OnlyMine(t) /\ pc'[t] = "idle"
    BY OthersIdle DEF Return, Goto, TypeOK, PositionType
  <1>2. \A u \in Movers \ {t} : worker'[u] = worker[u]
    BY ThreadKinds DEF Return, TypeOK, LocalType
  <1>3. Hand(t)'
    BY <1>1 DEF Hand, InCommand, Requested
  <1>4. t \in Movers => Effect(t)'
    BY <1>1 DEF Effect, Return, TypeOK, LocalType
  <1>5. Snapshot'
    BY <1>1, ThreadKinds DEF Snapshot, OnlyMine
  <1>6. Tables' /\ Reports' /\ Places' /\ ProofsAreTrue'
    BY TablesKept2, ReportsKept, PlacesKept DEF DiskInv
  <1>7. QED BY <1>1, <1>2, <1>3, <1>4, <1>5, <1>6, DiskAt

\* Nothing the invariant speaks of changes.
LEMMA DiskStutter ==
  ASSUME DiskInv,
         UNCHANGED <<status, opStatus, requests, pc, op, rid, todo, seen,
                     facts, worker, loc, touched, moved>>
  PROVE  DiskInv'
  <1>1. Tables' /\ Reports' /\ Places' /\ ProofsAreTrue'
    BY TablesKept2, ReportsKept, PlacesKept DEF DiskInv
  <1>2. \A t \in Threads : Hand(t)'
    BY DEF DiskInv, Hand, InCommand, Busy, Asks, Dir
  <1>3. \A t \in Movers : Effect(t)'
    BY DEF DiskInv, Effect
  <1>4. Snapshot'
    BY DEF DiskInv, Snapshot
  <1>5. QED BY <1>1, <1>2, <1>3, <1>4 DEF DiskInv

\* A command goes on between two operations.
LEMMA DiskGoto ==
  ASSUME TypeOK, OneCommand, DiskInv, NEW t \in Threads, t # Recovery, Turn(t),
         pc[t] # "wait",
         NEW label \in Labels \ ({"idle", "finish", "intent"} \cup Requested),
         Goto(t, label),
         UNCHANGED <<opStatus, requests, worker, loc, touched, moved>>,
         \/ status' = status
         \/ status # "rollback_partial" /\ status' # "rolled_back",
         label = "end" \/ status' # "rollback_partial",
         t \in RollbackCmds /\ label # "end" =>
           \A o \in Ops : o \in todo'[t] <=> opStatus[o] \in AppliedStatuses,
         t \in StartCmds /\ label \notin {"consume", "end"} =>
           \A o \in todo'[t] : opStatus[o] = "preflight_ok"
  PROVE  DiskInv'
  <1>1. OnlyMine(t) /\ pc'[t] = label
    BY OthersIdle DEF Goto, TypeOK, PositionType
  <1>2. Hand(t)'
    BY <1>1 DEF Hand, InCommand, Requested
  <1>3. t \in Movers => Effect(t)'
    BY <1>1 DEF Effect, DiskInv, Requested
  <1>4. Snapshot'
    BY <1>1, ThreadKinds DEF Snapshot, OnlyMine
  <1>5. Tables' /\ Reports' /\ Places' /\ ProofsAreTrue'
    BY TablesKept2, ReportsKept, PlacesKept DEF DiskInv
  <1>6. QED BY <1>1, <1>2, <1>3, <1>4, <1>5, DiskAt

\* The last event of a command.
LEMMA DiskFinish ==
  ASSUME TypeOK, OneCommand, DiskInv, NEW t \in Threads, t # Recovery,
         pc[t] \notin {"idle", "wait"}, NEW newStatus, newStatus # "rolled_back",
         \/ newStatus = "rollback_partial" /\ status = "rollback_partial"
         \/ status # "rollback_partial",
         FinishExecution(t, newStatus)
  PROVE  DiskInv'
  <1>1. /\ Goto(t, "end") /\ status' = newStatus
        /\ UNCHANGED <<opStatus, requests, worker, loc, touched, moved>>
    BY ConstantFacts DEF FinishExecution, PersistEvent, disk
  <1>2. "end" \in Labels \ ({"idle", "finish", "intent"} \cup Requested)
    BY DEF Labels, Requested
  <1>3. Turn(t)
    BY DEF Turn
  <1>4. QED BY <1>1, <1>2, <1>3, DiskGoto

-----------------------------------------------------------------------------
(* Journalling, and the commands up to their loops *)

LEMMA DiskJournalling ==
  ASSUME TypeOK, LogInv, OneCommand, SettledInv, DiskInv, NEW t \in Threads,
         Journalling(t)
  PROVE  DiskInv'
  <1>1. CASE ReadCursor(t)
    <2>1. /\ pc[t] = "cursor" /\ Turn(t)
          /\ UNCHANGED <<status, opStatus, requests, worker, loc, touched,
                         moved, todo, seen>>
      BY <1>1 DEF ReadCursor, db, session, disk, Turn
    <2>2. Hand(t) /\ InCommand(t) /\ ~(\E o : Busy(t, o))
      BY <2>1 DEF DiskInv, InCommand, Busy, Requested
    <2>3. CASE t # Recovery
      <3>1. \E label \in {"next", "cancel", "reconcile"} : Goto(t, label)
        BY <1>1 DEF ReadCursor
      <3>2. {"next", "cancel", "reconcile"} \subseteq
              Labels \ ({"idle", "finish", "intent"} \cup Requested)
        BY DEF Labels, Requested
      <3>3. QED BY <2>1, <2>2, <2>3, <3>1, <3>2, DiskGoto DEF Hand
    <2>4. CASE t = Recovery
      <3>1. /\ Goto(t, "reconcile") /\ facts' = requests
        BY <1>1, <2>4, ThreadKinds DEF ReadCursor
      <3>2. OnlyMine(t) /\ pc'[t] = "reconcile"
        BY <2>1, <3>1, OthersIdle DEF Goto, TypeOK, PositionType
      <3>3. seen[Recovery] = opStatus
        BY <2>1, <2>4 DEF SettledInv, Reconciling
      <3>4. \A i \in Rows :
              /\ opStatus[requests[i].op] = "running" =>
                   /\ requests[i].dir = "forward"
                   /\ requests[i].state # "proven_applied"
              /\ requests[i].dir = "rollback"
                   /\ requests[i].state = "proven_applied" =>
                   opStatus[requests[i].op] = "rolled_back"
        <4>1. "running" \notin Done
          BY DEF Done, AppliedStatuses
        <4>2. QED
          BY <4>1, RowTypes
             DEF DiskInv, Tables, RollbackFollows, DoneIsProven,
                 UndoneIsProven, Asks
      <3>5. Snapshot'
        BY <2>1, <3>1, <3>3, <3>4 DEF Snapshot, Rows
      <3>6. Hand(t)'
        BY <2>1, <2>2, <2>4, <3>2, ThreadKinds DEF Hand, InCommand, Requested
      <3>7. Tables' /\ Reports' /\ Places' /\ ProofsAreTrue'
        BY <2>1, TablesKept2, ReportsKept, PlacesKept DEF DiskInv
      <3>8. QED
        BY <2>1, <2>4, <3>2, <3>5, <3>6, <3>7, DiskAt, ThreadKinds
    <2>5. QED BY <2>3, <2>4
  <1>2. CASE StaleCursor(t)
    BY <1>2, DiskReturn DEF StaleCursor, EventLabels, Turn, db, session, disk
  <1>3. CASE SyncEvent(t)
    <2>1. Turn(t) /\ UNCHANGED <<status, opStatus, requests, loc, touched, moved>>
      BY <1>3 DEF SyncEvent, OneCommand, Turn, db, session, disk
    <2>2. Return(t) \/ UNCHANGED <<pc, op, rid, todo, seen, facts, worker>>
      BY <1>3 DEF SyncEvent
    <2>3. QED BY <2>1, <2>2, DiskReturn, DiskStutter
  <1>4. CASE SyncFails(t)
    <2>1. Turn(t) /\ UNCHANGED <<opStatus, requests, loc, touched, moved>>
      BY <1>4 DEF SyncFails, OneCommand, Turn, disk
    <2>2. \/ status' = status
          \/ status # "rollback_partial" /\ status' # "rolled_back"
      BY <1>4 DEF SyncFails, MarkRecoveryRequired, Interrupted
    <2>3. QED BY <1>4, <2>1, <2>2, DiskReturn DEF SyncFails
  <1>5. QED BY <1>1, <1>2, <1>3, <1>4 DEF Journalling

LEMMA DiskConsent ==
  ASSUME TypeOK, OneCommand, DiskInv,
         \/ IssueChallenge
         \/ \E t \in FinalizeCmds :
              FinalizeAttest(t) \/ FinalizeLocks(t) \/ FinalizeSteps(t)
  PROVE  DiskInv'
  <1>1. CASE IssueChallenge
    BY <1>1, DiskStutter DEF IssueChallenge, local, disk
  <1>l. {"attested", "approve", "end"} \subseteq
          Labels \ ({"idle", "finish", "intent"} \cup Requested)
    BY DEF Labels, Requested
  <1>2. ASSUME NEW t \in FinalizeCmds,
               FinalizeAttest(t) \/ FinalizeLocks(t) \/ FinalizeSteps(t)
        PROVE  DiskInv'
    <2>0. t \in Threads /\ t \notin Movers /\ t # Recovery
      BY ThreadKinds
    <2>h. t \notin RollbackCmds /\ t \notin StartCmds
      BY <2>0 DEF Movers
    <2>1. CASE FinalizeAttest(t)
      <3>1. Turn(t) /\ pc[t] # "wait"
        BY <2>1, MayCallTurn DEF FinalizeAttest, MayCall
      <3>2. QED
        BY <1>l, <2>0, <2>h, <2>1, <3>1, DiskGoto DEF FinalizeAttest, disk
    <2>2. CASE FinalizeLocks(t)
      BY <2>0, <2>2, MayCallTurn, DiskReturn
         DEF FinalizeLocks, LockOn, db, session, disk
    <2>3. CASE FinalizeRead(t)
      <3>1. /\ Turn(t) /\ pc[t] = "attested"
            /\ UNCHANGED <<status, opStatus, requests, loc, touched, moved>>
        BY <2>3 DEF FinalizeRead, Turn, db, session, disk
      <3>2. \/ Return(t)
            \/ Goto(t, "approve") /\ worker' = worker
        BY <2>3 DEF FinalizeRead
      <3>3. status # "rollback_partial"
        BY <2>0, <3>1 DEF DiskInv, Hand, InCommand
      <3>4. QED
        BY <1>l, <2>0, <2>h, <3>1, <3>2, <3>3, DiskReturn, DiskGoto
    <2>4. CASE FinalizeApprove(t)
      <3>1. /\ Turn(t) /\ pc[t] = "approve" /\ Goto(t, "end")
            /\ status' = "approved"
            /\ UNCHANGED <<opStatus, requests, worker, loc, touched, moved>>
        BY <2>4, ConstantFacts DEF FinalizeApprove, PersistEvent, Turn, disk
      <3>2. status # "rollback_partial"
        BY <2>0, <3>1 DEF DiskInv, Hand, InCommand
      <3>3. QED BY <1>l, <2>0, <2>h, <3>1, <3>2, DiskGoto
    <2>5. QED BY <1>2, <2>1, <2>2, <2>3, <2>4 DEF FinalizeSteps
  <1>3. QED BY <1>1, <1>2

LEMMA DiskBegin ==
  ASSUME TypeOK, OneCommand, DiskInv,
         \/ \E t \in StartCmds : \/ StartBegin(t) \/ StartLocks(t)
                                 \/ StartLapses(t) \/ StartConsume(t)
         \/ \E t \in RollbackCmds : RollbackBegin(t) \/ RollbackLocks(t)
  PROVE  DiskInv'
  <1>l. {"consume", "cursor"} \subseteq
          Labels \ ({"idle", "finish", "intent"} \cup Requested)
    BY DEF Labels, Requested
  <1>1. ASSUME NEW t \in StartCmds,
               \/ StartBegin(t) \/ StartLocks(t)
               \/ StartLapses(t) \/ StartConsume(t)
        PROVE  DiskInv'
    <2>0. t \in Threads /\ t \in Movers /\ t # Recovery /\ t \notin RollbackCmds
      BY ThreadKinds
    <2>1. CASE StartBegin(t)
      <3>1. Turn(t) /\ pc[t] = "idle" /\ Goto(t, "consume")
        BY <2>1, MayCallTurn DEF StartBegin, MayCall
      <3>2. /\ status = "approved"
            /\ UNCHANGED <<status, opStatus, requests, worker, loc, touched,
                           moved, todo>>
        BY <2>1 DEF StartBegin, db, session, disk
      <3>3. QED BY <1>l, <2>0, <3>1, <3>2, DiskGoto
    <2>2. CASE StartLocks(t)
      BY <2>0, <2>2, MayCallTurn, DiskReturn
         DEF StartLocks, LockOn, db, session, disk
    <2>3. CASE StartLapses(t)
      <3>1. /\ status = "approved" /\ status' = "awaiting_confirmation"
            /\ UNCHANGED <<opStatus, requests, pc, op, rid, todo, seen, facts,
                           worker, loc, touched, moved>>
        BY <2>3 DEF StartLapses, disk, local
      <3>2. \A u \in Threads : pc[u] = "idle"
        BY <2>3, MayCallTurn DEF StartLapses
      <3>3. Turn(t) /\ OnlyMine(t)
        BY <2>0, <2>3, <3>1, <3>2, MayCallTurn DEF StartLapses, OnlyMine
      <3>4. Hand(t)' /\ Effect(t)'
        BY <2>0, <3>1, <3>2
           DEF Hand, InCommand, Requested, DiskInv, Effect
      <3>5. Snapshot'
        BY <3>1, <3>2, ThreadKinds DEF Snapshot
      <3>6. Tables' /\ Reports' /\ Places' /\ ProofsAreTrue'
        BY <3>1, TablesKept2, ReportsKept, PlacesKept DEF DiskInv
      <3>7. QED BY <2>0, <3>1, <3>3, <3>4, <3>5, <3>6, DiskAt
    <2>4. CASE StartConsume(t)
      <3>1. /\ Turn(t) /\ pc[t] = "consume"
            /\ UNCHANGED <<opStatus, requests, loc, touched, moved>>
        BY <2>4 DEF StartConsume, Turn, disk
      <3>2. \/ Return(t) /\ status' = status
            \/ /\ Goto(t, "cursor") /\ status' = "running" /\ worker' = worker
               /\ todo' = [todo EXCEPT ![t] =
                             {o \in Ops : opStatus[o] = "preflight_ok"}]
        BY <2>4 DEF StartConsume, ConsumeConsent
      <3>3. status # "rollback_partial"
        BY <2>0, <3>1 DEF DiskInv, Hand, InCommand
      <3>4. CASE Return(t) /\ status' = status
        BY <2>0, <3>1, <3>4, DiskReturn
      <3>5. CASE /\ Goto(t, "cursor") /\ status' = "running" /\ worker' = worker
                 /\ todo' = [todo EXCEPT ![t] =
                               {o \in Ops : opStatus[o] = "preflight_ok"}]
        <4>1. \A o \in todo'[t] : opStatus[o] = "preflight_ok"
          BY <2>0, <3>5 DEF TypeOK, LocalType
        <4>2. QED BY <1>l, <2>0, <3>1, <3>3, <3>5, <4>1, DiskGoto
      <3>6. QED BY <3>2, <3>4, <3>5
    <2>5. QED BY <1>1, <2>1, <2>2, <2>3, <2>4
  <1>2. ASSUME NEW t \in RollbackCmds, RollbackBegin(t) \/ RollbackLocks(t)
        PROVE  DiskInv'
    <2>0. t \in Threads /\ t \in Movers /\ t # Recovery /\ t \notin StartCmds
      BY ThreadKinds
    <2>1. CASE RollbackBegin(t)
      <3>1. Turn(t) /\ pc[t] = "idle" /\ Goto(t, "cursor")
        BY <2>1, MayCallTurn DEF RollbackBegin, MayCall
      <3>2. /\ status # "rollback_partial"
            /\ todo' = [todo EXCEPT ![t] =
                          {o \in Ops : opStatus[o] \in AppliedStatuses}]
            /\ UNCHANGED <<status, opStatus, requests, worker, loc, touched,
                           moved>>
        BY <2>1 DEF RollbackBegin, RollbackOpen, MayRollBack, db, session, disk
      <3>3. \A o \in Ops : o \in todo'[t] <=> opStatus[o] \in AppliedStatuses
        BY <2>0, <3>2 DEF TypeOK, LocalType
      <3>4. QED BY <1>l, <2>0, <3>1, <3>2, <3>3, DiskGoto
    <2>2. CASE RollbackLocks(t)
      BY <2>0, <2>2, MayCallTurn, DiskReturn
         DEF RollbackLocks, LockOn, db, session, disk
    <2>3. QED BY <1>2, <2>1, <2>2
  <1>3. QED BY <1>1, <1>2

LEMMA DiskCancel ==
  ASSUME TypeOK, OneCommand, DiskInv,
         \/ \E t \in CancelCmds :
              CancelBegin(t) \/ CancelLocks(t) \/ CancelSteps(t)
         \/ RequestPause \/ RequestCancel
  PROVE  DiskInv'
  <1>1. CASE RequestPause \/ RequestCancel
    BY <1>1, DiskStutter DEF RequestPause, RequestCancel, local, disk
  <1>l. {"withdraw", "revoke", "cursor", "unstarted"} \subseteq
          Labels \ ({"idle", "finish", "intent"} \cup Requested)
    BY DEF Labels, Requested
  <1>2. ASSUME NEW t \in CancelCmds,
               CancelBegin(t) \/ CancelLocks(t) \/ CancelSteps(t)
        PROVE  DiskInv'
    <2>0. t \in Threads /\ t # Recovery
      BY ThreadKinds
    <2>h. t \notin RollbackCmds /\ t \notin StartCmds
      BY ThreadKinds
    <2>u. ASSUME pc[t] \in {"withdraw", "revoke", "unstarted", "cancel"}
          PROVE  Turn(t) /\ pc[t] # "wait" /\ status # "rollback_partial"
      BY <2>0, <2>u DEF DiskInv, Hand, InCommand, Turn
    <2>1. CASE CancelBegin(t)
      <3>1. /\ Turn(t) /\ pc[t] = "idle"
            /\ \E label \in {"withdraw", "revoke", "cursor"} : Goto(t, label)
        BY <2>1, MayCallTurn DEF CancelBegin, MayCall
      <3>2. /\ status # "rollback_partial"
            /\ UNCHANGED <<status, opStatus, requests, worker, loc, touched,
                           moved>>
        BY <2>1 DEF CancelBegin, db, session, disk
      <3>3. QED BY <1>l, <2>0, <2>h, <3>1, <3>2, DiskGoto
    <2>2. CASE CancelLocks(t)
      BY <2>0, <2>2, MayCallTurn, DiskReturn
         DEF CancelLocks, LockOn, db, session, disk
    <2>3. CASE CancelInvalidate(t)
      <3>1. /\ pc[t] \in {"withdraw", "revoke"}
            /\ UNCHANGED <<opStatus, requests, loc, touched, moved>>
        BY <2>3 DEF CancelInvalidate, disk
      <3>2. status' \in {status, "awaiting_confirmation"}
        BY <2>3 DEF CancelInvalidate
      <3>3. \/ Return(t)
            \/ /\ \E label \in {"unstarted", "cursor"} : Goto(t, label)
               /\ worker' = worker
        BY <2>3 DEF CancelInvalidate
      <3>4. QED
        BY <1>l, <2>0, <2>h, <2>u, <3>1, <3>2, <3>3, DiskReturn, DiskGoto
    <2>4. CASE CancelUnstarted(t)
      <3>1. /\ pc[t] = "unstarted" /\ Return(t)
            /\ UNCHANGED <<opStatus, requests, loc, touched, moved>>
            /\ status' \in {status, "cancelled"}
        BY <2>4 DEF CancelUnstarted, disk
      <3>2. QED BY <2>0, <2>u, <3>1, DiskReturn
    <2>5. CASE CancelFinish(t)
      BY <2>0, <2>u, <2>5, DiskFinish DEF CancelFinish
    <2>6. QED BY <1>2, <2>1, <2>2, <2>3, <2>4, <2>5 DEF CancelSteps
  <1>3. QED BY <1>1, <1>2

-----------------------------------------------------------------------------
(* The loop of a moving command *)

\* One row gets another state, and its operation the status that goes with it;
\* the row was not proven applied before.
LEMMA TablesRow ==
  ASSUME TypeOK, Tables, NEW i \in Rows, NEW s, NEW n,
         SameRequests,
         \A j \in Rows :
           requests'[j].state = IF j = i THEN s ELSE requests[j].state,
         opStatus' = [opStatus EXCEPT ![requests[i].op] = n],
         requests[i].state # "proven_applied",
         requests[i].dir = "forward" =>
           (n \in Done <=> s = "proven_applied") /\ n # "rolled_back",
         requests[i].dir = "rollback" =>
           /\ n \in Done
           /\ n = "rolled_back" <=>
                s = "proven_applied" \/ opStatus[requests[i].op] = "rolled_back"
           /\ (\E j \in Rows : i < j /\ Asks(j, requests[i].op, "rollback")) =>
                s \in NotDone \cup {"ambiguous"}
  PROVE  Tables'
  <1> DEFINE o == requests[i].op
  <1>0. o \in Ops /\ requests[i].dir \in {"forward", "rollback"}
    BY RowTypes
  <1>1. /\ Rows' = Rows
        /\ \A j \in Rows : \A p, d : Asks(j, p, d)' = Asks(j, p, d)
        /\ \A j \in Rows : /\ requests'[j].op = requests[j].op
                           /\ requests'[j].dir = requests[j].dir
    BY DEF SameRequests, Rows, Asks
  <1>2. /\ opStatus'[o] = n
        /\ \A p \in Ops : p # o => opStatus'[p] = opStatus[p]
    BY <1>0 DEF TypeOK, TableType
  <1>3. OneForward'
    BY <1>1 DEF Tables, OneForward
  <1>f. requests[i].dir = "forward" =>
          opStatus[o] \notin Done /\ \A j \in Rows : ~Asks(j, o, "rollback")
    BY <1>0 DEF Tables, OneForward, DoneIsProven, RollbackFollows, Asks
  <1>4. RollbackFollows'
    <2>1. ASSUME NEW j \in Rows, requests[j].dir = "rollback"
          PROVE  opStatus'[requests[j].op] \in Done
      <3>1. opStatus[requests[j].op] \in Done /\ requests[j].op \in Ops
        BY <2>1, RowTypes DEF Tables, RollbackFollows
      <3>2. CASE requests[j].op = o
        BY <1>0, <1>2, <1>f, <2>1, <3>2 DEF Asks
      <3>3. QED BY <1>2, <3>1, <3>2
    <2>2. QED BY <1>1, <2>1 DEF RollbackFollows
  <1>5. DoneIsProven'
    <2>1. ASSUME NEW p \in Ops
          PROVE  opStatus'[p] \in Done <=>
                   \E j \in Rows : /\ Asks(j, p, "forward")
                                   /\ requests'[j].state = "proven_applied"
      <3>1. CASE p # o
        <4>1. \A j \in Rows : Asks(j, p, "forward") =>
                requests'[j].state = requests[j].state
          BY <3>1 DEF Asks
        <4>2. QED BY <1>2, <3>1, <4>1 DEF Tables, DoneIsProven
      <3>2. CASE p = o /\ requests[i].dir = "forward"
        <4>1. \A j \in Rows : Asks(j, o, "forward") <=> j = i
          BY <3>2 DEF Tables, OneForward, Asks
        <4>2. QED BY <1>2, <3>2, <4>1
      <3>3. CASE p = o /\ requests[i].dir = "rollback"
        <4>1. opStatus[o] \in Done /\ n \in Done
          BY <3>3 DEF Tables, RollbackFollows
        <4>2. \A j \in Rows : Asks(j, o, "forward") =>
                requests'[j].state = requests[j].state
          BY <3>3 DEF Asks
        <4>3. QED BY <1>0, <1>2, <3>3, <4>1, <4>2 DEF Tables, DoneIsProven
      <3>4. QED BY <1>0, <3>1, <3>2, <3>3
    <2>2. QED BY <1>1, <2>1 DEF DoneIsProven
  <1>6. UndoneIsProven'
    <2>1. ASSUME NEW p \in Ops
          PROVE  opStatus'[p] = "rolled_back" <=>
                   \E j \in Rows : /\ Asks(j, p, "rollback")
                                   /\ requests'[j].state = "proven_applied"
      <3>1. CASE p # o
        <4>1. \A j \in Rows : Asks(j, p, "rollback") =>
                requests'[j].state = requests[j].state
          BY <3>1 DEF Asks
        <4>2. QED BY <1>2, <3>1, <4>1 DEF Tables, UndoneIsProven
      <3>2. CASE p = o /\ requests[i].dir = "forward"
        BY <1>2, <1>f, <3>2
      <3>3. CASE p = o /\ requests[i].dir = "rollback"
        <4>1. opStatus[o] = "rolled_back" <=>
                \E j \in Rows : /\ Asks(j, o, "rollback")
                                /\ requests[j].state = "proven_applied"
          BY <1>0 DEF Tables, UndoneIsProven
        <4>2. Asks(i, o, "rollback")
          BY <3>3 DEF Asks
        <4>3. opStatus'[p] = "rolled_back" <=>
                s = "proven_applied" \/ opStatus[o] = "rolled_back"
          BY <1>2, <3>3
        <4>4. QED BY <4>1, <4>2, <4>3, <3>3
      <3>4. QED BY <1>0, <3>1, <3>2, <3>3
    <2>2. QED BY <1>1, <2>1 DEF UndoneIsProven
  <1>7. LastRollback'
    BY <1>1 DEF Tables, LastRollback, Asks
  <1>8. QED BY <1>3, <1>4, <1>5, <1>6, <1>7 DEF Tables

\* What the step into or inside an operation must see to.
LEMMA DiskInside ==
  ASSUME TypeOK, OneCommand, DiskInv, NEW t \in Movers, pc[t] # "idle",
         NEW label, Goto(t, label),
         \A u \in Movers \ {t} : worker'[u] = worker[u],
         Tables', Reports', Hand(t)', Effect(t)', Places', ProofsAreTrue'
  PROVE  DiskInv'
  <1>0. t \in Threads
    BY ThreadKinds
  <1>1. Turn(t) /\ OnlyMine(t)
    BY <1>0, OthersIdle DEF Turn
  <1>2. Snapshot'
    BY <1>1, ThreadKinds DEF Snapshot, OnlyMine
  <1>3. QED BY <1>0, <1>1, <1>2, DiskAt

\* A refusal: nothing of this operation was mutated, or its effect stays.
LEMMA DiskRefuse ==
  ASSUME TypeOK, LogInv, OneCommand, SettledInv, DiskInv, NEW t \in Movers,
         LoopRefuse(t) \/ RefuseAfterRequest(t)
  PROVE  DiskInv'
  <1>0. t \in Threads /\ t # Recovery
    BY ThreadKinds
  <1>1. PICK o \in Ops :
          /\ Refuse(t, o)
          /\ pc[t] \in {"next", "refuse"}
          /\ \/ pc[t] = "next" /\ o \in todo[t]
             \/ pc[t] = "refuse" /\ o = op[t]
    <2>1. CASE LoopRefuse(t)
      BY <1>0, <2>1 DEF LoopRefuse, TypeOK, LocalType
    <2>2. CASE RefuseAfterRequest(t)
      BY <2>2 DEF RefuseAfterRequest, LogInv, InHand, Chosen, Requested
    <2>3. QED BY <2>1, <2>2
  <1>2. PICK n, s :
          /\ Goto(t, "finish") /\ status' = s
          /\ opStatus' = [opStatus EXCEPT ![o] = n]
          /\ UNCHANGED <<requests, worker, loc, touched, moved>>
          /\ \/ Dir(t) = "forward" /\ n = "failed" /\ s = "failed"
             \/ /\ Dir(t) # "forward" /\ n = "rollback_blocked"
                /\ s = "rollback_partial"
    BY <1>1, ConstantFacts DEF Refuse, PersistEvent, disk
  <1>3. Hand(t) /\ InCommand(t) /\ status # "rollback_partial"
    BY <1>0, <1>1 DEF DiskInv, Hand, InCommand
  <1>4. IF Dir(t) = "forward"
        THEN opStatus[o] \in {"preflight_ok", "running"}
        ELSE opStatus[o] \in AppliedStatuses \cup {"rolling_back"}
    <2>1. CASE pc[t] = "next"
      <3>1. ~Busy(t, o)
        BY <2>1 DEF Busy, Requested
      <3>2. QED
        BY <1>0, <1>1, <1>3, <2>1, <3>1, ThreadKinds DEF Hand, Dir
    <2>2. CASE pc[t] = "refuse"
      BY <1>0, <1>1, <2>2 DEF SettledInv, Position, Requested, RunningOp
    <2>3. QED BY <1>1, <2>1, <2>2
  <1>5. Tables'
    <2>1. /\ n \in Done <=> opStatus[o] \in Done
          /\ n = "rolled_back" <=> opStatus[o] = "rolled_back"
      BY <1>2, <1>4 DEF Done, AppliedStatuses
    <2>2. QED BY <1>2, <2>1, TablesOp DEF DiskInv
  <1>6. Reports'
    BY <1>2, <1>3, ReportsOp DEF DiskInv
  <1>7. pc'[t] = "finish" /\ pc[t] \notin {"idle", "wait"}
    BY <1>0, <1>1, <1>2 DEF Goto, TypeOK, PositionType
  <1>8. Hand(t)'
    BY <1>2, <1>7 DEF Hand, InCommand, Requested, Dir
  <1>9. Effect(t)'
    BY <1>2, <1>7 DEF Effect, DiskInv
  <1>10. Places' /\ ProofsAreTrue'
    BY <1>2, PlacesKept DEF DiskInv
  <1>11. QED
    BY <1>2, <1>5, <1>6, <1>7, <1>8, <1>9, <1>10, DiskInside

LEMMA DiskValidate ==
  ASSUME TypeOK, LogInv, OneCommand, SettledInv, DiskInv, NEW t \in Movers,
         LoopValidate(t)
  PROVE  DiskInv'
  <1>0. t \in Threads /\ t # Recovery
    BY ThreadKinds
  <1>1. PICK o \in todo[t] :
          /\ PersistEvent(t, "preconditions_validated", o, 0,
               IF Dir(t) = "forward" THEN "preflight_ok" ELSE seen[t][o],
               RunningSession(t), "intent")
          /\ op' = [op EXCEPT ![t] = o]
    BY DEF LoopValidate
  <1>2. o \in Ops
    BY <1>0 DEF TypeOK, LocalType
  <1>3. PICK n, s :
          /\ n = (IF Dir(t) = "forward" THEN "preflight_ok" ELSE seen[t][o])
          /\ Goto(t, "intent") /\ status' = s /\ s \in Interrupted
          /\ opStatus' = [opStatus EXCEPT ![o] = n]
          /\ op'[t] = o
          /\ pc[t] = "next"
          /\ UNCHANGED <<requests, worker, loc, touched, moved, todo>>
    <2>1. RunningSession(t) \in Interrupted
      BY DEF RunningSession, RunningOp, Interrupted
    <2>2. op'[t] = o
      BY <1>0, <1>1 DEF TypeOK, LocalType
    <2>3. pc[t] = "next" /\ todo' = todo /\ requests' = requests
      BY DEF LoopValidate
    <2>4. QED
      BY <1>1, <1>2, <2>1, <2>2, <2>3, ConstantFacts DEF PersistEvent, disk
  <1>4. Hand(t) /\ InCommand(t) /\ status # "rollback_partial"
    BY <1>0, <1>3 DEF DiskInv, Hand, InCommand
  <1>5. \A p : ~Busy(t, p)
    BY <1>3 DEF Busy, Requested
  <1>6. IF Dir(t) = "forward"
        THEN opStatus[o] = "preflight_ok" /\ n = "preflight_ok"
        ELSE opStatus[o] \in AppliedStatuses /\ n \in AppliedStatuses
    <2>1. Dir(t) # "forward" => seen[t][o] \in AppliedStatuses
      BY <1>0, <1>3, ThreadKinds DEF Dir, SettledInv, Position
    <2>2. QED
      BY <1>0, <1>2, <1>3, <1>4, <1>5, <2>1, ThreadKinds DEF Hand, Dir
  <1>7. Tables'
    <2>1. /\ n \in Done <=> opStatus[o] \in Done
          /\ n = "rolled_back" <=> opStatus[o] = "rolled_back"
      BY <1>6 DEF Done, AppliedStatuses
    <2>2. QED BY <1>2, <1>3, <2>1, TablesOp DEF DiskInv
  <1>8. Reports'
    <2>1. n # "rollback_blocked" /\ status' # "rolled_back"
      BY <1>3, <1>6 DEF AppliedStatuses, Interrupted
    <2>2. QED BY <1>2, <1>3, <1>4, <2>1, ReportsOp DEF DiskInv
  <1>9. pc'[t] = "intent"
    BY <1>0, <1>3 DEF Goto, TypeOK, PositionType
  <1>10. Hand(t)'
    <2>1. \A p \in Ops : p # o => opStatus'[p] = opStatus[p]
      BY <1>3 DEF TypeOK, TableType
    <2>2. opStatus'[o] = n
      BY <1>2, <1>3 DEF TypeOK, TableType
    <2>3. t \in RollbackCmds =>
            \A p \in Ops : p \in todo[t] <=> opStatus'[p] \in AppliedStatuses
      BY <1>1, <1>2, <1>4, <1>5, <1>6, <2>1, <2>2, ThreadKinds DEF Hand, Dir
    <2>4. t \in StartCmds => \A p \in todo[t] : opStatus'[p] = "preflight_ok"
      <3>1. \A p \in todo[t] : p \in Ops
        BY <1>0 DEF TypeOK, LocalType
      <3>2. QED
        BY <1>3, <1>4, <1>5, <1>6, <2>1, <2>2, <3>1, ThreadKinds DEF Hand, Dir
    <2>5. status' # "rollback_partial"
      BY <1>3 DEF Interrupted
    <2>6. QED
      BY <1>1, <1>3, <1>9, <2>3, <2>4, <2>5 DEF Hand, InCommand, Requested
  <1>11. Effect(t)'
    BY <1>3, <1>9 DEF Effect, DiskInv
  <1>12. Places' /\ ProofsAreTrue'
    BY <1>3, PlacesKept DEF DiskInv
  <1>13. QED
    BY <1>3, <1>7, <1>8, <1>9, <1>10, <1>11, <1>12, DiskInside

\* The intent puts a new row in hand, the last one of the table.
LEMMA DiskIntent ==
  ASSUME TypeOK, LogInv, OneCommand, SettledInv, DiskInv, NEW t \in Movers,
         Intent(t)
  PROVE  DiskInv'
  <1>0. t \in Threads /\ t # Recovery
    BY ThreadKinds
  <1>a. PICK o, n : o = op[t] /\ n = Len(requests) + 1
    OBVIOUS
  <1>1. PICK k, q : PersistEvent(t, k, op[t], q, RunningOp(t),
                                 RunningSession(t), "dispatch")
    BY DEF Intent
  <1>2. o \in Ops
    BY <1>a DEF Intent, LogInv, InHand, Chosen
  <1>3. /\ Goto(t, "dispatch") /\ pc[t] = "intent" /\ MayRequest(t)
        /\ requests' = Append(requests,
             [op |-> o, dir |-> Dir(t), seq |-> Len(journal) + 1,
              state |-> "intent_durable"])
        /\ rid' = [rid EXCEPT ![t] = n]
        /\ status' = RunningSession(t)
        /\ opStatus' = [opStatus EXCEPT ![o] = RunningOp(t)]
        /\ UNCHANGED <<todo, op, seen, worker, loc, touched, moved>>
    BY <1>a, <1>1, <1>2, ConstantFacts DEF Intent, PersistEvent, disk
  <1>4. pc'[t] = "dispatch" /\ rid'[t] = n
    BY <1>0, <1>3 DEF Goto, TypeOK, PositionType, LocalType
  <1>5. /\ Len(requests) \in Nat /\ Rows' = 1..n
        /\ \A i \in Rows : i \in Rows' /\ i # n /\ requests'[i] = requests[i]
        /\ \A i \in Rows' : i = n \/ i \in Rows
        /\ requests'[n].op = o
        /\ requests'[n].dir = Dir(t)
        /\ requests'[n].state = "intent_durable"
    BY <1>a, <1>3 DEF TypeOK, TableType, Rows
  <1>6. /\ \A i \in Rows : \A p, d : Asks(i, p, d)' = Asks(i, p, d)
        /\ \A p, d : Asks(n, p, d)' <=> p = o /\ d = Dir(t)
    BY <1>5 DEF Asks
  <1>7. /\ opStatus'[o] = RunningOp(t)
        /\ \A p \in Ops : p # o => opStatus'[p] = opStatus[p]
    BY <1>2, <1>3 DEF TypeOK, TableType
  <1>8. Hand(t) /\ InCommand(t) /\ o \in todo[t] /\ \A p : ~Busy(t, p)
    BY <1>0, <1>a, <1>3 DEF DiskInv, Hand, InCommand, Busy, Requested
  <1>9. \/ /\ Dir(t) = "forward" /\ RunningOp(t) = "running"
           /\ opStatus[o] = "preflight_ok"
        \/ /\ Dir(t) = "rollback" /\ RunningOp(t) = "rolling_back"
           /\ opStatus[o] \in AppliedStatuses
    BY <1>2, <1>3, <1>8, ThreadKinds DEF Hand, Dir, RunningOp
  <1>10. \A i \in Rows : Asks(i, o, Dir(t)) =>
           Dir(t) = "rollback" /\ requests[i].state \in NotDone
    BY <1>a, <1>3, <1>9 DEF MayRequest, Prior, Asks, Rows, NotDone
  <1>11. \A i \in Rows : requests[i].op \in Ops
    BY RowTypes
  <1>12. Tables'
    <2>1. OneForward'
      BY <1>5, <1>10 DEF DiskInv, Tables, OneForward, Asks
    <2>2. /\ opStatus'[o] \in Done <=> opStatus[o] \in Done
          /\ opStatus'[o] # "rolled_back" /\ opStatus[o] # "rolled_back"
          /\ Dir(t) = "rollback" => opStatus'[o] \in Done
      BY <1>7, <1>9 DEF Done, AppliedStatuses
    <2>3. RollbackFollows'
      BY <1>5, <1>7, <1>11, <2>2 DEF DiskInv, Tables, RollbackFollows
    <2>4. \A p \in Ops : \A d :
            (\E i \in Rows' : Asks(i, p, d)' /\ requests'[i].state = "proven_applied")
            <=> \E i \in Rows : Asks(i, p, d) /\ requests[i].state = "proven_applied"
      BY <1>5, <1>6
    <2>5. \A p \in Ops :
            /\ opStatus'[p] \in Done <=> opStatus[p] \in Done
            /\ opStatus'[p] = "rolled_back" <=> opStatus[p] = "rolled_back"
      BY <1>7, <2>2
    <2>6. DoneIsProven' /\ UndoneIsProven'
      BY <2>4, <2>5 DEF DiskInv, Tables, DoneIsProven, UndoneIsProven
    <2>7. LastRollback'
      BY <1>5, <1>10 DEF DiskInv, Tables, LastRollback, Asks, Rows
    <2>8. QED BY <2>1, <2>3, <2>6, <2>7 DEF Tables
  <1>13. Reports'
    <2>1. /\ RunningOp(t) # "rollback_blocked" /\ status # "rollback_partial"
          /\ status' \notin {"rolled_back", "rollback_partial"}
      BY <1>3, <1>8 DEF Hand, RunningOp, RunningSession
    <2>2. QED BY <1>2, <1>3, <2>1, ReportsOp DEF DiskInv
  <1>14. Hand(t)'
    <2>1. status' # "rollback_partial"
      BY <1>3 DEF RunningOp, RunningSession
    <2>2. rid'[t] = Len(requests') /\ Asks(rid[t], op[t], Dir(t))'
      BY <1>a, <1>3, <1>4, <1>5 DEF Asks, Dir, Rows
    <2>3. \A p \in Ops : p # o /\ t \in RollbackCmds =>
            (p \in todo[t] <=> opStatus'[p] \in AppliedStatuses)
      BY <1>3, <1>7, <1>8 DEF Hand
    <2>4. \A p \in todo[t] : p # o /\ t \in StartCmds =>
            opStatus'[p] = "preflight_ok"
      <3>1. \A p \in todo[t] : p \in Ops
        BY <1>0 DEF TypeOK, LocalType
      <3>2. QED BY <1>3, <1>7, <1>8, <3>1 DEF Hand
    <2>5. QED
      BY <1>a, <1>3, <1>4, <1>5, <2>1, <2>2, <2>3, <2>4
         DEF Hand, Busy, InCommand, Requested
  <1>15. Effect(t)'
    <2>1. n \notin moved
      BY <1>a, <1>5, MovedRows DEF Rows
    <2>2. worker[t] \in {"none", "gone"}
      BY <1>3 DEF DiskInv, Effect
    <2>3. QED BY <1>3, <1>4, <2>1, <2>2 DEF Effect
  <1>16. Places'
    <2>1. \A p : Forth(p)' = Forth(p) /\ Back(p)' = Back(p)
      BY <1>3, <1>6, MovedRows DEF Forth, Back
    <2>2. ASSUME NEW p \in Ops \ touched, NEW i \in Rows', NEW j \in Rows', i < j,
                 Asks(i, p, "rollback")', Asks(j, p, "rollback")'
          PROVE  i \notin moved
      <3>1. i \in Rows
        BY <1>5, <2>2 DEF Rows
      <3>2. CASE j \in Rows
        BY <1>6, <2>2, <3>1, <3>2 DEF DiskInv, Places
      <3>3. CASE j = n
        <4>1. p = o /\ Asks(i, o, "rollback") /\ Dir(t) = "rollback"
          BY <1>6, <2>2, <3>1, <3>3
        <4>2. requests[i].op = o /\ requests[i].state \in NotDone
          BY <1>10, <3>1, <4>1 DEF Asks
        <4>3. QED
          BY <2>2, <3>1, <4>1, <4>2 DEF DiskInv, ProofsAreTrue, NotDone, Rows
      <3>4. QED BY <1>5, <2>2, <3>2, <3>3
    <2>3. QED BY <1>3, <2>1, <2>2 DEF DiskInv, Places
  <1>17. ProofsAreTrue'
    BY <1>3, <1>5 DEF DiskInv, ProofsAreTrue, Rows
  <1>18. QED
    BY <1>3, <1>12, <1>13, <1>14, <1>15, <1>16, <1>17, DiskInside

LEMMA DiskDispatch ==
  ASSUME TypeOK, OneCommand, DiskInv, NEW t \in Movers, Dispatch(t)
  PROVE  DiskInv'
  <1>0. t \in Threads
    BY ThreadKinds
  <1>1. /\ pc[t] = "dispatch" /\ Goto(t, "wait")
        /\ worker' = [worker EXCEPT ![t] = "working"]
        /\ UNCHANGED <<status, opStatus, requests, op, rid, todo, seen, loc,
                       touched, moved>>
    BY DEF Dispatch, AtDispatch, db, session, disk
  <1>2. /\ pc'[t] = "wait" /\ worker'[t] = "working"
        /\ \A u \in Movers \ {t} : worker'[u] = worker[u]
    BY <1>0, <1>1 DEF Goto, TypeOK, PositionType, LocalType
  <1>3. Hand(t)'
    BY <1>0, <1>1, <1>2
       DEF DiskInv, Hand, InCommand, Busy, Requested, Asks, Dir
  <1>4. Effect(t)'
    BY <1>1, <1>2 DEF DiskInv, Effect
  <1>5. Tables' /\ Reports' /\ Places' /\ ProofsAreTrue'
    BY <1>1, TablesKept2, ReportsKept, PlacesKept DEF DiskInv
  <1>6. QED BY <1>1, <1>2, <1>3, <1>4, <1>5, DiskInside

\* The worker mutates what its request asks for, or says that it did not.
LEMMA DiskWorker ==
  ASSUME TypeOK, LogInv, OneCommand, SettledInv, DiskInv, NEW t \in Movers,
         WorkerSteps(t)
  PROVE  DiskInv'
  <1>0. t \in Threads
    BY ThreadKinds
  <1>a. PICK o, r : o = op[t] /\ r = rid[t]
    OBVIOUS
  <1>1. /\ worker[t] = "working" /\ pc[t] = "wait"
        /\ UNCHANGED <<status, opStatus, requests, pc, op, rid, todo, seen,
                       facts, touched>>
    <2>1. /\ worker[t] = "working"
          /\ UNCHANGED <<status, opStatus, requests, pc, op, rid, todo, seen,
                         facts, touched>>
      BY DEF WorkerSteps, WorkerMutates, WorkerDeclines, db, session, disk
    <2>2. QED BY <2>1 DEF DiskInv, Effect
  <1>2. /\ o \in Ops /\ r \in Rows /\ r = Len(requests)
        /\ Asks(r, o, Dir(t)) /\ requests[r].state = "intent_durable"
        /\ opStatus[o] = RunningOp(t)
    BY <1>0, <1>a, <1>1, ThreadKinds
       DEF DiskInv, Hand, LogInv, InHand, HeldFlushed, Chosen, Requested, Rows,
           SettledInv, Position
  <1>3. Tables' /\ Reports'
    BY <1>1, TablesKept2, ReportsKept DEF DiskInv
  <1>4. \A u \in Threads : Hand(u)'
    BY <1>1 DEF DiskInv, Hand, InCommand, Busy, Asks, Dir
  <1>5. Snapshot'
    BY <1>1 DEF DiskInv, Snapshot
  <1>6. \A u \in Movers \ {t} : pc[u] = "idle" /\ worker[u] \in {"none", "gone"}
    BY <1>0, <1>1, ThreadKinds DEF OneCommand, DiskInv, Effect
  <1>7. CASE WorkerMutates(t)
    <2>1. /\ loc' = [loc EXCEPT ![o] = Target(Dir(t))]
          /\ moved' = moved \cup {r}
          /\ \E a \in {"success", "ambiguous", "gone"} : Answer(t, a)
      BY <1>a, <1>7 DEF WorkerMutates
    <2>2. \A u \in Movers : Effect(u)'
      <3>1. /\ worker'[t] \in {"success", "ambiguous", "gone"}
            /\ \A u \in Movers \ {t} : worker'[u] = worker[u]
        BY <1>0, <2>1 DEF Answer, TypeOK, LocalType
      <3>2. QED BY <1>a, <1>1, <1>6, <2>1, <3>1 DEF Effect
    <2>3. /\ \A i, p, d : Asks(i, p, d)' = Asks(i, p, d)
          /\ Rows' = Rows
      BY <1>1 DEF Asks, Rows
    <2>4. Places'
      <3>1. ASSUME NEW p \in Ops \ touched
            PROVE  loc'[p] = IF Forth(p)' /\ ~Back(p)' THEN "dst" ELSE "src"
        <4>1. CASE p # o
          <5>1. ~Asks(r, p, "forward") /\ ~Asks(r, p, "rollback")
            BY <1>2, <4>1 DEF Asks
          <5>2. Forth(p)' = Forth(p) /\ Back(p)' = Back(p)
            BY <2>1, <2>3, <5>1 DEF Forth, Back
          <5>3. loc'[p] = loc[p]
            BY <2>1, <4>1 DEF TypeOK, DiskType
          <5>4. QED BY <5>2, <5>3 DEF DiskInv, Places
        <4>2. CASE p = o /\ Dir(t) = "forward"
          <5>1. opStatus[o] \notin Done
            BY <1>2, <4>2 DEF RunningOp, Done, AppliedStatuses
          <5>2. \A i \in Rows : ~Asks(i, o, "rollback")
            BY <5>1 DEF DiskInv, Tables, RollbackFollows, Asks
          <5>3. Forth(o)' /\ ~Back(o)'
            BY <1>2, <2>1, <2>3, <4>2, <5>2, MovedRows DEF Forth, Back
          <5>4. loc'[o] = "dst"
            BY <1>2, <2>1, <4>2 DEF TypeOK, DiskType, Target
          <5>5. QED BY <4>2, <5>3, <5>4
        <4>3. CASE p = o /\ Dir(t) # "forward"
          <5>1. Back(o)'
            BY <1>2, <2>1, <2>3, <4>3 DEF Back, Dir
          <5>2. loc'[o] = "src"
            BY <1>2, <2>1, <4>3 DEF TypeOK, DiskType, Target
          <5>3. QED BY <4>3, <5>1, <5>2
        <4>4. QED BY <4>1, <4>2, <4>3
      <3>2. ASSUME NEW p \in Ops \ touched, NEW i \in Rows, NEW j \in Rows, i < j,
                   Asks(i, p, "rollback"), Asks(j, p, "rollback")
            PROVE  i \notin moved'
        <4>1. i # r
          BY <1>2, <3>2 DEF Rows
        <4>2. QED BY <2>1, <3>2, <4>1 DEF DiskInv, Places
      <3>3. QED BY <1>1, <2>3, <3>1, <3>2 DEF Places
    <2>5. ProofsAreTrue'
      BY <1>1, <1>2, <2>1 DEF DiskInv, ProofsAreTrue
    <2>6. QED BY <1>3, <1>4, <1>5, <2>2, <2>4, <2>5 DEF DiskInv
  <1>8. CASE WorkerDeclines(t)
    <2>1. /\ UNCHANGED <<loc, moved>>
          /\ \E a \in {"not_applied", "refused", "ambiguous", "gone"} :
               Answer(t, a)
      BY <1>8 DEF WorkerDeclines, disk
    <2>2. r \notin moved
      BY <1>a, <1>1 DEF DiskInv, Effect
    <2>3. /\ worker'[t] \in {"not_applied", "refused", "ambiguous", "gone"}
          /\ \A u \in Movers \ {t} : worker'[u] = worker[u]
      BY <1>0, <2>1 DEF Answer, TypeOK, LocalType
    <2>4. \A u \in Movers : Effect(u)'
      BY <1>a, <1>1, <1>6, <2>1, <2>2, <2>3 DEF Effect
    <2>5. Places' /\ ProofsAreTrue'
      BY <1>1, <2>1, PlacesKept DEF DiskInv
    <2>6. QED BY <1>3, <1>4, <1>5, <2>4, <2>5 DEF DiskInv
  <1>9. QED BY <1>7, <1>8 DEF WorkerSteps

\* A finished rollback has rolled back whatever was applied.
LEMMA DiskLoopFinish ==
  ASSUME TypeOK, OneCommand, SettledInv, DiskInv, NEW t \in Movers,
         LoopFinish(t)
  PROVE  DiskInv'
  <1>0. t \in Threads /\ t # Recovery
    BY ThreadKinds
  <1>1. /\ pc[t] = "next" /\ todo[t] = {} /\ Goto(t, "end")
        /\ status' = CompletionStatus(t)
        /\ UNCHANGED <<opStatus, requests, worker, loc, touched, moved>>
    BY ConstantFacts DEF LoopFinish, FinishExecution, PersistEvent, disk
  <1>2. Hand(t) /\ InCommand(t) /\ \A o : ~Busy(t, o)
    BY <1>0, <1>1 DEF DiskInv, InCommand, Busy, Requested
  <1>3. status # "rollback_partial" /\ status' # "rollback_partial"
    BY <1>1, <1>2 DEF Hand, CompletionStatus
  <1>4. status' = "rolled_back" =>
          \A o \in Ops : opStatus[o] \notin AppliedStatuses \cup Interrupted
    <2>1. ASSUME status' = "rolled_back" PROVE t \in RollbackCmds
      BY <1>1, <2>1, ThreadKinds DEF CompletionStatus, Dir
    <2>2. Clean
      BY <1>0, <1>1 DEF SettledInv, Position, Requested
    <2>3. QED BY <1>1, <1>2, <2>1, <2>2 DEF Hand, Clean
  <1>5. Reports'
    BY <1>1, <1>3, <1>4 DEF DiskInv, Reports
  <1>6. pc'[t] = "end" /\ pc[t] # "idle"
    BY <1>0, <1>1 DEF Goto, TypeOK, PositionType
  <1>7. Hand(t)' /\ Effect(t)'
    BY <1>1, <1>6 DEF Hand, InCommand, Requested, Effect, DiskInv
  <1>8. Tables' /\ Places' /\ ProofsAreTrue'
    BY <1>1, TablesKept2, PlacesKept DEF DiskInv
  <1>9. QED BY <1>1, <1>5, <1>6, <1>7, <1>8, DiskInside

-----------------------------------------------------------------------------
(* The answer and what the command concludes from it *)

\* The row in hand is the last one, asks for the operation in hand, and that
\* operation is half done.
LEMMA InHandFacts ==
  ASSUME TypeOK, LogInv, SettledInv, DiskInv, NEW t \in Movers,
         pc[t] \in Requested
  PROVE  /\ op[t] \in Ops /\ rid[t] \in Rows /\ rid[t] = Len(requests)
         /\ requests[rid[t]].op = op[t] /\ requests[rid[t]].dir = Dir(t)
         /\ opStatus[op[t]] = RunningOp(t)
         /\ status \in Interrupted
         /\ \A j \in Rows : ~(rid[t] < j)
  BY ThreadKinds
     DEF DiskInv, Hand, LogInv, InHand, HeldFlushed, Chosen, Rows, Asks,
         SettledInv, Position

\* No transition takes a proof back but one to ambiguous.
LEMMA NotProvenBefore ==
  ASSUME NEW i, NEW state, SetRequest(i, state), state # "ambiguous",
         state # "proven_applied"
  PROVE  requests[i].state # "proven_applied"
  BY DEF SetRequest, MayTransition

LEMMA DiskAnswer ==
  ASSUME TypeOK, LogInv, OneCommand, SettledInv, DiskInv, ~LateMutation,
         NEW t \in Movers, NEW state \in AnswerStates,
         NEW label \in {"refuse", "mark", "verify", "contradict"},
         Answered(t, state, label)
  PROVE  DiskInv'
  <1>0. t \in Threads /\ t # Recovery
    BY ThreadKinds
  <1>a. PICK o, r : o = op[t] /\ r = rid[t]
    OBVIOUS
  <1>1. /\ Goto(t, label) /\ pc[t] \in Requested
        /\ SetRequest(r, state)
        /\ UNCHANGED <<status, opStatus, op, rid, todo, seen, loc, touched,
                       moved>>
    BY <1>a DEF Answered, Transition, session, disk
  <1>2. /\ o \in Ops /\ r \in Rows /\ r = Len(requests)
        /\ requests[r].op = o /\ requests[r].dir = Dir(t)
        /\ opStatus[o] = RunningOp(t)
        /\ \A j \in Rows : ~(r < j)
    BY <1>a, <1>1, InHandFacts
  <1>3. /\ SameRequests
        /\ \A j \in Rows :
             requests'[j].state = IF j = r THEN state ELSE requests[j].state
    BY <1>1, SetRequestFacts, SetRequestState
       DEF SameRequests, TypeOK, TableType, AnswerStates, RequestStates, Rows
  <1>4. pc'[t] = label /\ label \in Requested /\ pc[t] # "idle"
    BY <1>0, <1>1 DEF Goto, TypeOK, PositionType, Requested
  <1>5. /\ \A u \in Movers \ {t} : worker'[u] = worker[u]
        /\ worker'[t] \in {"none", "gone"}
    <2>1. \/ worker'[t] \in {"none", "gone"}
          \/ pc[t] # "wait" /\ worker'[t] = worker[t]
      BY DEF Answered
    <2>2. pc[t] # "wait" => worker[t] \in {"none", "gone"}
      BY DEF DiskInv, Effect
    <2>3. QED BY <2>1, <2>2, ThreadKinds DEF Answered
  <1>6. /\ label = "verify" => r \in moved
        /\ label = "contradict" => r \notin moved
        /\ state \in NotDone => r \notin moved
        /\ state = "acknowledged_success" => r \in moved
    BY <1>a DEF Answered, DiskInv, Effect, NotDone
  <1>7. Tables'
    <2>1. requests[r].state # "proven_applied" /\ state # "proven_applied"
      BY <1>1, NotProvenBefore DEF AnswerStates
    <2>2. opStatus' = [opStatus EXCEPT ![requests[r].op] = opStatus[o]]
      BY <1>1, <1>2 DEF TypeOK, TableType
    <2>3. IF Dir(t) = "forward"
          THEN opStatus[o] \notin Done
          ELSE opStatus[o] \in Done /\ opStatus[o] # "rolled_back"
      BY <1>2 DEF RunningOp, Done, AppliedStatuses
    <2>4. "rolled_back" \in Done
      BY DEF Done
    <2>5. QED
      BY <1>2, <1>3, <2>1, <2>2, <2>3, <2>4, TablesRow DEF DiskInv, Dir
  <1>8. Reports'
    BY <1>1, ReportsKept DEF DiskInv
  <1>9. Hand(t)'
    <2>1. rid'[t] = Len(requests') /\ Asks(rid[t], op[t], Dir(t))'
      BY <1>a, <1>1, <1>2, <1>3 DEF SameRequests, Asks, Dir, Rows
    <2>2. Hand(t) /\ InCommand(t)
      BY <1>0, <1>1 DEF DiskInv, InCommand, Requested
    <2>3. QED
      BY <1>1, <1>4, <2>1, <2>2, ThreadKinds DEF Hand, InCommand, Busy, Requested
  <1>10. Effect(t)'
    BY <1>a, <1>1, <1>4, <1>5, <1>6 DEF Effect, Requested
  <1>11. Places'
    BY <1>1, <1>3, PlacesSame DEF DiskInv
  <1>12. ProofsAreTrue'
    <2>1. state # "proven_applied"
      BY DEF AnswerStates
    <2>2. QED
      BY <1>1, <1>3, <1>6, <2>1
         DEF DiskInv, ProofsAreTrue, SameRequests, NotDone, Rows
  <1>13. QED
    BY <1>1, <1>4, <1>5, <1>7, <1>8, <1>9, <1>10, <1>11, <1>12, DiskInside

\* The observed effect completes the operation in hand.
LEMMA DiskObserve ==
  ASSUME TypeOK, LogInv, OneCommand, SettledInv, DiskInv, NEW t \in Movers,
         Observe(t)
  PROVE  DiskInv'
  <1>0. t \in Threads /\ t # Recovery
    BY ThreadKinds
  <1>a. PICK o, r : o = op[t] /\ r = rid[t]
    OBVIOUS
  <1>1. /\ pc[t] = "verify" /\ pc[t] \in Requested
        /\ SetRequest(r, "proven_applied")
        /\ todo' = [todo EXCEPT ![t] = @ \ {o}]
    BY <1>a DEF Observe, Requested
  <1>2. /\ o \in Ops /\ r \in Rows /\ r = Len(requests)
        /\ requests[r].op = o /\ requests[r].dir = Dir(t)
        /\ opStatus[o] = RunningOp(t) /\ status \in Interrupted
        /\ \A j \in Rows : ~(r < j)
    BY <1>a, <1>1, InHandFacts
  <1>3. PICK n : /\ \/ Dir(t) = "forward" /\ n = "applied"
                    \/ Dir(t) # "forward" /\ n = "rolled_back"
                 /\ Goto(t, "next") /\ status' \in Interrupted
                 /\ opStatus' = [opStatus EXCEPT ![o] = n]
                 /\ UNCHANGED <<worker, loc, touched, moved>>
    BY <1>a, <1>2, ConstantFacts DEF Observe, PersistEvent, disk, Interrupted
  <1>4. /\ SameRequests
        /\ \A j \in Rows : requests'[j].state =
             IF j = r THEN "proven_applied" ELSE requests[j].state
    BY <1>1, SetRequestFacts, SetRequestState
       DEF SameRequests, TypeOK, TableType, RequestStates, Rows
  <1>5. pc'[t] = "next" /\ pc[t] # "idle" /\ todo'[t] = todo[t] \ {o}
    BY <1>0, <1>1, <1>3 DEF Goto, TypeOK, PositionType, LocalType
  <1>6. Hand(t) /\ InCommand(t)
    BY <1>0, <1>1 DEF DiskInv, InCommand
  <1>7. r \in moved /\ worker[t] \in {"none", "gone"}
    BY <1>a, <1>1 DEF DiskInv, Effect
  <1>8. Tables'
    <2>1. opStatus[o] # "rolled_back"
      BY <1>2 DEF RunningOp
    <2>2. requests[r].state # "proven_applied"
      <3>1. Dir(t) = "forward" => opStatus[o] \notin Done
        BY <1>2 DEF RunningOp, Done, AppliedStatuses
      <3>2. Dir(t) \in {"forward", "rollback"}
        BY DEF Dir
      <3>3. QED
        BY <1>2, <2>1, <3>1, <3>2
           DEF DiskInv, Tables, DoneIsProven, UndoneIsProven, Asks
    <2>3. n \in Done /\ (n = "rolled_back" <=> Dir(t) # "forward")
      BY <1>3 DEF Done, AppliedStatuses
    <2>4. QED
      BY <1>2, <1>3, <1>4, <2>1, <2>2, <2>3, TablesRow DEF DiskInv
  <1>9. Reports'
    <2>1. /\ status # "rollback_partial" /\ status' # "rolled_back"
          /\ n # "rollback_blocked"
      BY <1>2, <1>3 DEF Interrupted
    <2>2. QED BY <1>2, <1>3, <2>1, ReportsOp DEF DiskInv
  <1>10. Hand(t)'
    <2>1. /\ opStatus'[o] = n
          /\ \A p \in Ops : p # o => opStatus'[p] = opStatus[p]
      BY <1>2, <1>3 DEF TypeOK, TableType
    <2>2. t \in RollbackCmds =>
            \A p \in Ops : p \in todo'[t] <=> opStatus'[p] \in AppliedStatuses
      BY <1>a, <1>3, <1>5, <1>6, <2>1, ThreadKinds
         DEF Hand, Busy, Dir, AppliedStatuses
    <2>3. t \in StartCmds => \A p \in todo'[t] : opStatus'[p] = "preflight_ok"
      <3>1. \A p \in todo[t] : p \in Ops
        BY <1>0 DEF TypeOK, LocalType
      <3>2. QED BY <1>a, <1>1, <1>5, <1>6, <2>1, <3>1 DEF Hand, Busy
    <2>4. status' # "rollback_partial"
      BY <1>3 DEF Interrupted
    <2>5. QED BY <1>5, <2>2, <2>3, <2>4 DEF Hand, Requested
  <1>11. Effect(t)'
    BY <1>3, <1>5, <1>7 DEF Effect
  <1>12. Places'
    BY <1>3, <1>4, PlacesSame DEF DiskInv
  <1>13. ProofsAreTrue'
    BY <1>3, <1>4, <1>7 DEF DiskInv, ProofsAreTrue, SameRequests, Rows
  <1>14. QED
    BY <1>3, <1>5, <1>8, <1>9, <1>10, <1>11, <1>12, <1>13, DiskInside

LEMMA DiskMark ==
  ASSUME TypeOK, LogInv, OneCommand, SettledInv, DiskInv, NEW t \in Movers,
         MarkAmbiguousOutcome(t)
  PROVE  DiskInv'
  <1>0. t \in Threads /\ t # Recovery
    BY ThreadKinds
  <1>1. pc[t] = "mark" /\ pc[t] \in Requested
    BY DEF MarkAmbiguousOutcome, Requested
  <1>2. op[t] \in Ops /\ opStatus[op[t]] = RunningOp(t) /\ status \in Interrupted
    BY <1>1, InHandFacts
  <1>3. /\ Goto(t, "end") /\ status' = "recovery_required"
        /\ opStatus' = [opStatus EXCEPT ![op[t]] = RunningOp(t)]
        /\ UNCHANGED <<requests, worker, loc, touched, moved>>
    BY <1>2, ConstantFacts DEF MarkAmbiguousOutcome, PersistEvent, disk
  <1>4. opStatus' = opStatus
    BY <1>2, <1>3 DEF TypeOK, TableType
  <1>5. "end" \in Labels \ ({"idle", "finish", "intent"} \cup Requested)
    BY DEF Labels, Requested
  <1>6. QED
    BY <1>0, <1>1, <1>2, <1>3, <1>4, <1>5, DiskGoto DEF Turn, Interrupted

LEMMA DiskMove ==
  ASSUME TypeOK, LogInv, OneCommand, SettledInv, DiskInv, ~LateMutation,
         NEW t \in Movers, MoveSteps(t) \/ WorkerSteps(t)
  PROVE  DiskInv'
  <1>0. t \in Threads /\ t # Recovery
    BY ThreadKinds
  <1>r. ASSUME Refusal(t), pc[t] # "idle" PROVE DiskInv'
    BY <1>0, <1>r, DiskReturn DEF Refusal, Turn, db, session, disk
  <1>1. CASE OpenSessionFails(t) \/ IntentRefused(t) \/ ObserveRefused(t)
    <2>1. pc[t] # "idle"
      BY <1>1 DEF OpenSessionFails, IntentRefused, ObserveRefused
    <2>2. QED BY <1>1, <1>r, <2>1, MoveRefusals
  <1>2. CASE \/ DispatchRefused(t) \/ Receive(t) \/ DispatchFails(t)
             \/ CheckNotApplied(t) \/ VerifyFails(t)
    <2>1. pc[t] # "idle"
      BY <1>2 DEF DispatchRefused, AtDispatch, Receive, DispatchFails,
                  CheckNotApplied, VerifyFails
    <2>2. QED BY <1>2, <1>r, <2>1, DiskAnswer, AnswerShapes
  <1>3. CASE LoopStop(t) \/ FinishRefused(t)
    <2>1. pc[t] \in {"next", "finish"}
      BY <1>3 DEF LoopStop, FinishRefused
    <2>2. Hand(t)
      BY <1>0 DEF DiskInv
    <2>3. \E s : /\ FinishExecution(t, s)
                 /\ s # "rolled_back"
                 /\ \/ s = "rollback_partial" /\ status = "rollback_partial"
                    \/ status # "rollback_partial"
      <3>1. CASE LoopStop(t)
        <4>1. status # "rollback_partial"
          BY <2>2, <3>1 DEF LoopStop, Hand, InCommand
        <4>2. QED BY <3>1, <4>1 DEF LoopStop
      <3>2. CASE FinishRefused(t)
        <4>1. /\ Dir(t) = "forward" => status # "rollback_partial"
              /\ RefuseStatus(t) =
                   IF Dir(t) = "forward" THEN "failed" ELSE "rollback_partial"
          BY <2>2, <3>2 DEF FinishRefused, Hand, Dir, RefuseStatus
        <4>2. QED BY <3>2, <4>1 DEF FinishRefused
      <3>3. QED BY <1>3, <3>1, <3>2
    <2>4. QED BY <1>0, <2>1, <2>3, DiskFinish
  <1>4. CASE LoopFinish(t)
    BY <1>4, DiskLoopFinish
  <1>5. CASE LoopRefuse(t) \/ RefuseAfterRequest(t)
    BY <1>5, DiskRefuse
  <1>6. CASE MarkAmbiguousOutcome(t)
    BY <1>6, DiskMark
  <1>7. QED
    BY <1>1, <1>2, <1>3, <1>4, <1>5, <1>6, DiskValidate, DiskIntent,
       DiskDispatch, DiskObserve, DiskWorker DEF MoveSteps

-----------------------------------------------------------------------------
(* Recovery, crash and user *)

\* What recovery reads off the disk: where the object of the operation is.
LEMMA ObservedPlace ==
  ASSUME NEW d \in {"forward", "rollback"}, NEW o
  PROVE  /\ Observation(d, o) = "not_started" =>
              loc[o] = IF d = "forward" THEN "src" ELSE "dst"
         /\ Observation(d, o) = "applied" =>
              loc[o] = IF d = "forward" THEN "dst" ELSE "src"
  BY DEF Observation

\* For a file the user left alone, the disk tells whether a request that is not
\* proven yet was performed.
LEMMA PlaceTells ==
  ASSUME TypeOK, LogInv, DiskInv, NEW i \in Rows,
         requests[i].op \notin touched,
         requests[i].state # "proven_applied",
         requests[i].dir = "rollback" =>
           \A j \in Rows : i < j /\ Asks(j, requests[i].op, "rollback") =>
             requests[i].state \in NotDone
  PROVE  /\ requests[i].dir = "forward" =>
              (i \in moved <=> loc[requests[i].op] = "dst")
         /\ requests[i].dir = "rollback" =>
              /\ loc[requests[i].op] = "dst" => i \notin moved
              /\ loc[requests[i].op] = "src" /\ requests[i].state \notin NotDone
                   => i \in moved
  <1>a. PICK o : o = requests[i].op
    OBVIOUS
  <1>1. o \in Ops \ touched
    BY <1>a, RowTypes
  <1>2. loc[o] = IF Forth(o) /\ ~Back(o) THEN "dst" ELSE "src"
    BY <1>1 DEF DiskInv, Places
  <1>3. CASE requests[i].dir = "forward"
    <2>1. \A j \in Rows : Asks(j, o, "forward") <=> j = i
      BY <1>a, <1>3 DEF DiskInv, Tables, OneForward, Asks
    <2>2. opStatus[o] \notin Done
      BY <1>1, <2>1 DEF DiskInv, Tables, DoneIsProven
    <2>3. \A j \in Rows : ~Asks(j, o, "rollback")
      BY <2>2 DEF DiskInv, Tables, RollbackFollows, Asks
    <2>4. (Forth(o) <=> i \in moved) /\ ~Back(o)
      BY <2>1, <2>3, MovedRows DEF Forth, Back
    <2>5. QED BY <1>a, <1>2, <1>3, <2>4
  <1>4. CASE requests[i].dir = "rollback"
    <2>1. opStatus[o] \in Done
      BY <1>a, <1>4 DEF DiskInv, Tables, RollbackFollows
    <2>2. Forth(o)
      <3>1. PICK k \in Rows : /\ Asks(k, o, "forward")
                              /\ requests[k].state = "proven_applied"
        BY <1>1, <2>1 DEF DiskInv, Tables, DoneIsProven
      <3>2. k \in moved
        BY <1>1, <3>1 DEF DiskInv, ProofsAreTrue, Asks, Rows
      <3>3. QED BY <3>1, <3>2 DEF Forth
    <2>3. loc[o] = "dst" => i \notin moved
      BY <1>a, <1>2, <1>4 DEF Back, Asks
    <2>4. ASSUME loc[o] = "src", requests[i].state \notin NotDone
          PROVE  i \in moved
      <3>1. PICK j \in moved : Asks(j, o, "rollback")
        BY <1>2, <2>2, <2>4 DEF Back
      <3>2. j \in Rows /\ Asks(i, o, "rollback")
        BY <1>a, <1>4, MovedRows DEF Asks
      <3>3. ~(j < i)
        BY <1>1, <3>1, <3>2 DEF DiskInv, Places
      <3>4. ~(i < j)
        BY <1>a, <1>4, <2>4, <3>1, <3>2
      <3>5. i = j
        BY <3>2, <3>3, <3>4 DEF Rows
      <3>6. QED BY <3>1, <3>5
    <2>5. QED BY <1>a, <1>4, <2>3, <2>4
  <1>5. QED BY <1>3, <1>4, RowTypes

\* The request at recovery's position and what is known of it.
LEMMA FactInHand ==
  ASSUME TypeOK, LogInv, SettledInv, DiskInv, AtFact
  PROVE  /\ rid[Recovery] \in Rows
         /\ Fact = requests[rid[Recovery]]
         /\ Bound(rid[Recovery], Fact)
         /\ Len(facts) = Len(requests)
         /\ \A j \in Rows : rid[Recovery] <= j => facts[j] = requests[j]
  <1>1. /\ pc[Recovery] = "reconcile" /\ rid[Recovery] <= Len(facts)
        /\ rid[Recovery] \in Nat /\ rid[Recovery] >= 1
    BY ThreadKinds DEF AtFact, LogInv, InHand, TypeOK, LocalType
  <1>2. /\ Len(facts) = Len(requests)
        /\ \A j \in 1..Len(facts) :
             ~(j < rid[Recovery]) => requests[j] = facts[j]
    BY <1>1 DEF SettledInv, Reconciling
  <1>3. rid[Recovery] \in Rows
    BY <1>1, <1>2 DEF Rows
  <1>4. QED
    BY <1>1, <1>2, <1>3 DEF Fact, Rows, LogInv, TablesAgree

LEMMA DiskVerdict ==
  ASSUME TypeOK, LogInv, OneCommand, SettledInv, DiskInv, ReconcileRequest
  PROVE  DiskInv'
  <1>0. Recovery \in Threads /\ Recovery \notin Movers
    BY ThreadKinds
  <1>a. PICK r, o, d, s : /\ r = rid[Recovery] /\ o = Fact.op
                          /\ d = Fact.dir /\ s = Fact.state
    OBVIOUS
  <1>1. PICK kind, v, n, newStatus :
          /\ v = Verdict(Fact) /\ n = VerdictOp(Fact)
          /\ newStatus \in {"recovery_ambiguous", "recovery_required"}
          /\ PersistEvent(Recovery, kind, Fact.op, r, n, newStatus, "reconcile")
    BY <1>a DEF ReconcileRequest
  <1>2. /\ AtFact /\ SetRequest(r, v)
        /\ ~(Bound(r, Fact) /\ Settled(Fact))
    BY <1>a, <1>1 DEF ReconcileRequest
  <1>3. /\ r \in Rows /\ Fact = requests[r] /\ Bound(r, Fact)
        /\ Len(facts) = Len(requests)
        /\ \A j \in Rows : r <= j => facts[j] = requests[j]
    BY <1>a, <1>2, FactInHand
  <1>4. /\ o \in Ops /\ d \in {"forward", "rollback"} /\ ~Settled(Fact)
        /\ requests[r].op = o /\ requests[r].dir = d /\ requests[r].state = s
    BY <1>a, <1>2, <1>3, RowTypes
  <1>5. /\ Goto(Recovery, "reconcile") /\ UNCHANGED <<facts, seen, worker>>
        /\ status' = newStatus
        /\ opStatus' = [opStatus EXCEPT ![o] = n]
        /\ UNCHANGED <<loc, touched, moved>>
        /\ pc[Recovery] = "reconcile"
    BY <1>a, <1>1, <1>2, <1>4, ConstantFacts DEF PersistEvent, disk, AtFact
  <1>6. /\ pc'[Recovery] = "reconcile" /\ Turn(Recovery) /\ OnlyMine(Recovery)
    BY <1>0, <1>5, OthersIdle DEF Turn, Goto, TypeOK, PositionType
  <1>7. /\ s # "ambiguous"
        /\ s \in NotDone \cup {"proven_applied"} => OpInterrupted(Fact)
    BY <1>a, <1>4 DEF Settled, NotDone
  <1>8. s # "proven_applied"
    <2>1. r \in 1..Len(facts) /\ facts[r] = requests[r]
      BY <1>3 DEF Rows
    <2>2. QED
      BY <1>3, <1>4, <1>5, <1>7, <2>1 DEF OpInterrupted, DiskInv, Snapshot
  <1>9. /\ v \in {"proven_not_started", "proven_applied", "ambiguous"}
        /\ v = "proven_not_started" =>
             /\ Observation(d, o) = "not_started"
             /\ n = IF d = "forward" THEN "preflight_ok" ELSE "applied"
        /\ v = "proven_applied" =>
             /\ Observation(d, o) = "applied" /\ s \notin NotDone
             /\ n = IF d = "forward" THEN "recovered" ELSE "rolled_back"
        /\ v = "ambiguous" => n = opStatus[o]
    BY <1>a, <1>1 DEF Verdict, VerdictOp, NotDone
  <1>10. /\ SameRequests
         /\ \A j \in Rows :
              requests'[j].state = IF j = r THEN v ELSE requests[j].state
    BY <1>2, <1>9, SetRequestFacts, SetRequestState
       DEF SameRequests, TypeOK, TableType, RequestStates, Rows
  <1>11. ASSUME d = "rollback", NEW j \in Rows, r < j, Asks(j, o, "rollback")
         PROVE  /\ s \in NotDone /\ requests[j].state # "proven_applied"
    <2>1. s \in NotDone
      BY <1>3, <1>4, <1>7, <1>11 DEF DiskInv, Tables, LastRollback, Asks
    <2>2. seen[Recovery][o] = "rolling_back"
      BY <1>a, <1>7, <1>11, <2>1 DEF OpInterrupted
    <2>3. facts[j] = requests[j] /\ j \in 1..Len(facts)
      BY <1>3, <1>11 DEF Rows
    <2>4. QED
      BY <1>5, <1>11, <2>1, <2>2, <2>3 DEF DiskInv, Snapshot, Asks
  <1>12. Tables'
    <2>1. d = "forward" =>
            (n \in Done <=> v = "proven_applied") /\ n # "rolled_back"
      <3>1. d = "forward" => opStatus[o] \notin Done
        BY <1>3, <1>4, <1>8
           DEF DiskInv, Tables, OneForward, DoneIsProven, Asks
      <3>2. QED BY <1>9, <3>1 DEF Done, AppliedStatuses
    <2>2. ASSUME d = "rollback"
          PROVE  /\ n \in Done
                 /\ n = "rolled_back" <=>
                      v = "proven_applied" \/ opStatus[o] = "rolled_back"
                 /\ (\E j \in Rows : r < j /\ Asks(j, o, "rollback")) =>
                      v \in NotDone \cup {"ambiguous"}
      <3>1. opStatus[o] \in Done
        BY <1>3, <1>4, <2>2 DEF DiskInv, Tables, RollbackFollows
      <3>2. s \in NotDone \/ s \notin NotDone \cup {"ambiguous"}
        BY <1>7
      <3>3. opStatus[o] # "rolled_back"
        <4>1. ASSUME NEW j \in Rows, Asks(j, o, "rollback")
              PROVE  requests[j].state # "proven_applied"
          <5>1. CASE j = r
            BY <1>4, <1>8, <5>1
          <5>2. CASE j < r
            BY <1>3, <1>4, <2>2, <4>1, <5>2
               DEF DiskInv, Tables, LastRollback, Asks, NotDone
          <5>3. CASE r < j
            BY <1>11, <2>2, <4>1, <5>3
          <5>4. QED BY <1>3, <5>1, <5>2, <5>3 DEF Rows
        <4>2. QED BY <1>4, <4>1 DEF DiskInv, Tables, UndoneIsProven
      <3>4. n \in Done /\ (n = "rolled_back" <=> v = "proven_applied")
        BY <1>9, <2>2, <3>1, <3>3 DEF Done, AppliedStatuses
      <3>5. (\E j \in Rows : r < j /\ Asks(j, o, "rollback")) =>
              v \in NotDone \cup {"ambiguous"}
        BY <1>9, <1>11, <2>2 DEF NotDone
      <3>6. QED BY <3>3, <3>4, <3>5
    <2>3. QED
      BY <1>3, <1>4, <1>5, <1>8, <1>10, <2>1, <2>2, TablesRow DEF DiskInv
  <1>13. Hand(Recovery) /\ status # "rollback_partial"
    BY <1>0, <1>5 DEF DiskInv, Hand, InCommand
  <1>14. Reports'
    <2>1. \A p \in Ops : opStatus[p] # "rollback_blocked"
      BY <1>13 DEF DiskInv, Reports
    <2>2. n # "rollback_blocked" /\ status' # "rolled_back"
      BY <1>1, <1>4, <1>5, <1>9, <2>1
    <2>3. QED BY <1>4, <1>5, <1>13, <2>2, ReportsOp DEF DiskInv
  <1>15. Hand(Recovery)'
    BY <1>0, <1>1, <1>5, <1>6, ThreadKinds DEF Hand, Requested
  <1>16. Snapshot'
    BY <1>5 DEF DiskInv, Snapshot
  <1>17. Places'
    BY <1>5, <1>10, PlacesSame DEF DiskInv
  <1>18. ProofsAreTrue'
    <2>1. ASSUME o \notin touched
          PROVE  /\ v = "proven_not_started" => r \notin moved
                 /\ v = "proven_applied" => r \in moved
      <3>1. d = "rollback" =>
              \A j \in Rows : r < j /\ Asks(j, o, "rollback") => s \in NotDone
        BY <1>11
      <3>2. /\ d = "forward" => (r \in moved <=> loc[o] = "dst")
            /\ d = "rollback" =>
                 /\ loc[o] = "dst" => r \notin moved
                 /\ loc[o] = "src" /\ s \notin NotDone => r \in moved
        BY <1>3, <1>4, <1>8, <2>1, <3>1, PlaceTells
      <3>3. /\ v = "proven_not_started" =>
                 loc[o] = IF d = "forward" THEN "src" ELSE "dst"
            /\ v = "proven_applied" => /\ s \notin NotDone
                 /\ loc[o] = IF d = "forward" THEN "dst" ELSE "src"
        BY <1>4, <1>9, ObservedPlace
      <3>4. QED BY <1>4, <3>2, <3>3
    <2>2. QED
      BY <1>3, <1>4, <1>5, <1>9, <1>10, <2>1
         DEF DiskInv, ProofsAreTrue, SameRequests, Rows
  <1>19. \A u \in Movers \ {Recovery} : worker'[u] = worker[u]
    BY <1>5
  <1>20. QED
    BY <1>0, <1>6, <1>12, <1>14, <1>15, <1>16, <1>17, <1>18, <1>19, DiskAt

LEMMA DiskRecovery ==
  ASSUME TypeOK, LogInv, OneCommand, SettledInv, DiskInv,
         RecoverBegin \/ RecoverLocks \/ RecoverySteps
  PROVE  DiskInv'
  <1>0. Recovery \in Threads /\ Recovery \notin Movers
    BY ThreadKinds
  <1>1. ASSUME MayRecover PROVE Turn(Recovery) /\ pc[Recovery] = "idle"
    BY <1>1, MayCallTurn DEF MayRecover, OneCommand, Turn
  <1>2. CASE RecoverBegin
    <2>1. /\ MayRecover /\ Goto(Recovery, "cursor")
          /\ status \in NeedsRecovery
          /\ UNCHANGED <<status, opStatus, requests, worker, loc, touched, moved>>
      BY <1>2 DEF RecoverBegin, MayRecover, db, session, disk
    <2>2. /\ Turn(Recovery) /\ OnlyMine(Recovery)
          /\ pc'[Recovery] = "cursor"
      BY <1>0, <1>1, <2>1, OthersIdle DEF Goto, TypeOK, PositionType
    <2>3. Hand(Recovery)' /\ Snapshot'
      BY <1>0, <2>1, <2>2, ThreadKinds
         DEF Hand, Snapshot, Requested, NeedsRecovery
    <2>4. Tables' /\ Reports' /\ Places' /\ ProofsAreTrue'
      BY <2>1, TablesKept2, ReportsKept, PlacesKept DEF DiskInv
    <2>5. QED BY <1>0, <2>1, <2>2, <2>3, <2>4, DiskAt
  <1>3. CASE RecoverLocks
    BY <1>0, <1>1, <1>3, DiskReturn
       DEF RecoverLocks, LockOn, db, session, disk
  <1>4. CASE ReconcileRefused
    BY <1>0, <1>4, DiskReturn
       DEF ReconcileRefused, AtFact, Turn, db, session, disk
  <1>5. CASE Assess
    <2>1. /\ pc[Recovery] = "reconcile" /\ Return(Recovery)
          /\ UNCHANGED <<opStatus, requests, loc, touched, moved>>
          /\ status' \in {"recovery_ambiguous", "recovery_available"}
      BY <1>5 DEF Assess, disk
    <2>2. status # "rollback_partial"
      BY <1>0, <2>1 DEF DiskInv, Hand, InCommand
    <2>3. QED BY <1>0, <2>1, <2>2, DiskReturn DEF Turn
  <1>6. CASE ReconcileSettled
    <2>1. /\ pc[Recovery] = "reconcile"
          /\ UNCHANGED <<status, opStatus, requests, pc, op, todo, seen, facts,
                         worker, loc, touched, moved>>
          /\ rid' = [rid EXCEPT ![Recovery] = @ + 1]
      BY <1>6 DEF ReconcileSettled, AtFact, NextFact, db, session, disk
    <2>2. \A u \in Movers : rid'[u] = rid[u]
      BY <1>0, <2>1 DEF TypeOK, LocalType
    <2>3. \A u \in Threads : Hand(u)'
      BY <1>0, <2>1, <2>2 DEF DiskInv, Hand, InCommand, Busy, Asks, Dir
    <2>4. \A u \in Movers : Effect(u)'
      BY <2>1, <2>2 DEF DiskInv, Effect
    <2>5. Snapshot'
      BY <2>1 DEF DiskInv, Snapshot
    <2>6. Tables' /\ Reports' /\ Places' /\ ProofsAreTrue'
      BY <2>1, TablesKept2, ReportsKept, PlacesKept DEF DiskInv
    <2>7. QED BY <2>3, <2>4, <2>5, <2>6 DEF DiskInv
  <1>7. QED
    BY <1>2, <1>3, <1>4, <1>5, <1>6, DiskVerdict DEF RecoverySteps

LEMMA DiskEnvironment ==
  ASSUME TypeOK, DiskInv, NoOrphans,
         \/ \E i \in orphans : OrphanMutates(i) \/ OrphanDies(i)
         \/ CrashRestart
         \/ \E o \in Ops : UserChange(o)
         \/ UNCHANGED vars
  PROVE  DiskInv'
  <1>1. CASE CrashRestart
    <2>1. /\ \A u \in Threads : pc'[u] = "idle" /\ worker'[u] = "none"
          /\ UNCHANGED <<opStatus, requests, loc, touched, moved>>
          /\ \/ status' = status
             \/ status \in Interrupted /\ status' = "recovery_required"
      BY <1>1 DEF CrashRestart, MarkRecoveryRequired, disk
    <2>2. Reports'
      BY <2>1, ReportsKept DEF DiskInv, Interrupted
    <2>3. \A u \in Threads : Hand(u)'
      BY <2>1 DEF Hand, InCommand, Requested
    <2>4. (\A u \in Movers : Effect(u)') /\ Snapshot'
      BY <2>1, ThreadKinds DEF Effect, Snapshot
    <2>5. Tables' /\ Places' /\ ProofsAreTrue'
      BY <2>1, TablesKept2, PlacesKept DEF DiskInv
    <2>6. QED BY <2>2, <2>3, <2>4, <2>5 DEF DiskInv
  <1>2. CASE \E o \in Ops : UserChange(o)
    <2>1. PICK o \in Ops : UserChange(o)
      BY <1>2
    <2>2. /\ UNCHANGED <<status, opStatus, requests, pc, op, rid, todo, seen,
                         facts, worker, moved>>
          /\ touched' = touched \cup {o}
          /\ \A p \in Ops : p # o => loc'[p] = loc[p]
      BY <2>1 DEF UserChange, db, session, local, TypeOK, DiskType
    <2>3. Tables' /\ Reports'
      BY <2>2, TablesKept2, ReportsKept DEF DiskInv
    <2>4. \A u \in Threads : Hand(u)'
      BY <2>2 DEF DiskInv, Hand, InCommand, Busy, Asks, Dir
    <2>5. (\A u \in Movers : Effect(u)') /\ Snapshot'
      BY <2>2 DEF DiskInv, Effect, Snapshot
    <2>6. Places'
      <3>1. /\ Rows' = Rows /\ \A i, p, d : Asks(i, p, d)' = Asks(i, p, d)
            /\ \A p : Forth(p)' = Forth(p) /\ Back(p)' = Back(p)
        BY <2>2 DEF Rows, Asks, Forth, Back
      <3>2. QED BY <2>2, <3>1 DEF DiskInv, Places
    <2>7. ProofsAreTrue'
      BY <2>2 DEF DiskInv, ProofsAreTrue
    <2>8. QED BY <2>3, <2>4, <2>5, <2>6, <2>7 DEF DiskInv
  <1>3. CASE UNCHANGED vars
    BY <1>3, DiskStutter DEF vars, db, session, disk, local
  <1>4. QED BY <1>1, <1>2, <1>3 DEF NoOrphans

-----------------------------------------------------------------------------
(* The theorems *)

DiskSafe ==
  TypeOK /\ LogInv /\ OneCommand /\ NoOrphans /\ SettledInv /\ DiskInv

LEMMA DiskInit ==
  ASSUME Init
  PROVE  DiskInv
  <1>1. /\ requests = <<>> /\ Len(requests) = 0 /\ Rows = {}
        /\ moved = {} /\ status = "awaiting_confirmation"
        /\ \A o \in Ops : opStatus[o] \in {"preflight_ok", "blocked"}
        /\ \A o \in Ops : loc[o] = "src"
        /\ \A t \in Threads : pc[t] = "idle" /\ worker[t] = "none"
    BY DEF Init, Rows
  <1>2. Tables
    BY <1>1
       DEF Tables, OneForward, RollbackFollows, DoneIsProven, UndoneIsProven,
           LastRollback, Done, AppliedStatuses
  <1>3. Reports
    BY <1>1 DEF Reports, AppliedStatuses, Interrupted
  <1>4. (\A t \in Threads : Hand(t)) /\ (\A t \in Movers : Effect(t)) /\ Snapshot
    BY <1>1, ThreadKinds DEF Hand, InCommand, Requested, Effect, Snapshot
  <1>5. Places /\ ProofsAreTrue
    BY <1>1 DEF Places, Forth, Back, ProofsAreTrue
  <1>6. QED BY <1>2, <1>3, <1>4, <1>5 DEF DiskInv

LEMMA DiskStep ==
  ASSUME DiskSafe, [Next]_vars
  PROVE  DiskInv'
  <1>1. CASE Next
    <2>1. CASE \E t \in Movers : MoveSteps(t) \/ WorkerSteps(t)
      BY <2>1, DiskMove DEF DiskSafe, NoOrphans
    <2>2. CASE ~\E t \in Movers : MoveSteps(t) \/ WorkerSteps(t)
      BY <1>1, <2>2, DiskJournalling, DiskConsent, DiskBegin, DiskCancel,
         DiskRecovery, DiskEnvironment DEF DiskSafe, Next
    <2>3. QED BY <2>1, <2>2
  <1>2. CASE UNCHANGED vars
    BY <1>2, DiskEnvironment DEF DiskSafe
  <1>3. QED BY <1>1, <1>2

\* The tables and the disk agree in every reachable state.
THEOREM DiskAgrees == ~Overlap /\ ~LateMutation /\ Spec => []DiskSafe
  <1>1. ~Overlap /\ ~LateMutation /\ Init => DiskSafe
    <2>1. ASSUME Init PROVE SettledInv
      BY <2>1, SettledInit
    <2>2. ASSUME ~LateMutation, Init PROVE NoOrphans
      BY <2>2 DEF NoOrphans, Init
    <2>3. QED
      BY <2>1, <2>2, TypeInit, LogInit, OneCommandInit, DiskInit DEF DiskSafe
  <1>2. DiskSafe /\ [Next]_vars => DiskSafe'
    BY LogStep, OneCommandStep, NoOrphansStep, SettledStep, DiskStep
       DEF DiskSafe
  <1>3. QED BY <1>1, <1>2, PTL DEF Spec

\* What the request table calls proven is true of the disk: the worker's
\* answers, the checks after them and recovery's observations never record a
\* proof the disk's history contradicts (record_executor_response,
\* persist_event_with_request_proof).
THEOREM ProofsHold ==
  ~Overlap /\ ~LateMutation /\ Spec => []ProofsAreTrue
  <1>1. DiskSafe => ProofsAreTrue
    BY DEF DiskSafe, DiskInv
  <1>2. QED BY <1>1, DiskAgrees, PTL

\* A settled request tells where the object of its operation is.
LEMMA SettledPlaces ==
  ASSUME DiskSafe, NEW o \in Ops \ touched,
         \A i \in Rows : requests[i].op = o => requests[i].state \notin Pending
  PROVE  loc[o] = IF opStatus[o] \in Done \ {"rolled_back"} THEN "dst" ELSE "src"
  <1>1. \A i \in Rows : requests[i].op = o =>
          (i \in moved <=> requests[i].state = "proven_applied")
    <2>1. ASSUME NEW i \in Rows, requests[i].op = o
          PROVE  i \in moved <=> requests[i].state = "proven_applied"
      <3>1. requests[i].state \in NotDone \cup {"proven_applied"}
        BY <2>1, RowTypes
           DEF DiskSafe, RequestStates, Pending, Unresolved, NotDone
      <3>2. QED
        BY <2>1, <3>1 DEF DiskSafe, DiskInv, ProofsAreTrue, NotDone, Rows
    <2>2. QED BY <2>1
  <1>2. moved \subseteq Rows
    BY MovedRows DEF DiskSafe
  <1>3. Forth(o) <=> opStatus[o] \in Done
    BY <1>1, <1>2 DEF DiskSafe, DiskInv, Tables, DoneIsProven, Forth, Asks
  <1>4. Back(o) <=> opStatus[o] = "rolled_back"
    BY <1>1, <1>2 DEF DiskSafe, DiskInv, Tables, UndoneIsProven, Back, Asks
  <1>5. QED BY <1>3, <1>4 DEF DiskSafe, DiskInv, Places

\* The operation table agrees with the disk wherever no request is open, for
\* every file the user left alone.
THEOREM ReportsHold ==
  ~Overlap /\ ~LateMutation /\ Spec => []ReportMatchesDisk
  <1>1. ASSUME DiskSafe PROVE ReportMatchesDisk
    <2>1. ASSUME NEW o \in Ops \ touched,
                 \A i \in Rows : requests[i].op = o =>
                   requests[i].state \notin Pending
          PROVE  /\ opStatus[o] \in AppliedStatuses => loc[o] = "dst"
                 /\ opStatus[o] \in {"preflight_ok", "blocked", "rolled_back"}
                      => loc[o] = "src"
      BY <1>1, <2>1, SettledPlaces DEF Done, AppliedStatuses
    <2>2. QED BY <2>1 DEF ReportMatchesDisk, Rows, Pending
  <1>2. QED BY <1>1, DiskAgrees, PTL

\* A session that reports rolled_back has put every file the user left alone
\* back where it was (rollback_execution, whatever crashed in between).
THEOREM RollbackHolds ==
  ~Overlap /\ ~LateMutation /\ Spec => []RolledBackRestores
  <1>1. ASSUME DiskSafe, status = "rolled_back", NEW o \in Ops \ touched
        PROVE  loc[o] = "src"
    <2>1. status \in Claims
      BY <1>1 DEF Claims, Resolving
    <2>2. \A i \in Rows : requests[i].state \notin Pending
      BY <1>1, <2>1 DEF DiskSafe, SettledInv, Clean, Rows
    <2>3. opStatus[o] \notin Done \ {"rolled_back"}
      BY <1>1
         DEF DiskSafe, DiskInv, Reports, Done, AppliedStatuses, Interrupted
    <2>4. QED BY <1>1, <2>2, <2>3, SettledPlaces
  <1>2. DiskSafe => RolledBackRestores
    BY <1>1 DEF RolledBackRestores
  <1>3. QED BY <1>2, DiskAgrees, PTL

=============================================================================
