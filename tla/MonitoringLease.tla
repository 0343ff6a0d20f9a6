-------------------------- MODULE MonitoringLease --------------------------
(***************************************************************************)
(* The lease of one monitoring job.  Several processes of the application  *)
(* may share the database (nothing keeps a second one from being launched);*)
(* inside each, cycles are serialised by a mutex, so a process is one      *)
(* holder.  A claim stores a fresh token and a lease; every later update   *)
(* by the holder is fenced by the token and by the status 'processing',    *)
(* while an appended event, a recovery after an error and the              *)
(* normalisation at a launch are not fenced.                               *)
(*                                                                         *)
(* Source: crates/persistence/src/monitoring.rs, one action per            *)
(* transaction, called from crates/application/src/monitoring.rs.          *)
(***************************************************************************)
EXTENDS Naturals

CONSTANTS
  Holders,       \* processes of the application
  Lease,         \* MONITORING_JOB_LEASE_MS, in ticks
  MaxAttempts,   \* MAXIMUM_ATTEMPTS
  MaxEvents,     \* bound: events appended for the path
  MaxClaims,     \* bound: claims made
  MaxTime        \* bound: the clock

ASSUME LeaseAssumption ==
  /\ Lease \in Nat \ {0} /\ MaxAttempts \in Nat \ {0}
  /\ MaxEvents \in Nat /\ MaxClaims \in Nat /\ MaxTime \in Nat

VARIABLES
  status, token, lease, attempts,   \* the row of monitoring_jobs
  events,                           \* watch_events appended for the path
  claims,                           \* tokens given so far (UUIDs: all distinct)
  now,                              \* the clock the processes read
  pc, at, held,                     \* of each process: where it is, the time it
                                    \* read at the start of its batch, and the
                                    \* claimed record it works with
  settled                           \* ghost: the events the last holder to end
                                    \* the job knew of

row == <<status, token, lease, attempts, settled>>
vars == <<row, events, claims, now, pc, at, held>>

NoToken == 0
Never == 0      \* a lease that is NULL
Active == {"pending", "waiting", "processing"}
Ended == {"completed", "review", "excluded", "failed"}
Idle == [tok |-> NoToken, seen |-> 0]

Init ==
  /\ status = "completed" /\ token = NoToken /\ lease = Never /\ attempts = 0
  /\ events = 0 /\ claims = 0 /\ now = 1 /\ settled = 0
  /\ pc = [h \in Holders |-> "idle"]
  /\ at = [h \in Holders |-> 0]
  /\ held = [h \in Holders |-> Idle]

Tick ==
  /\ now < MaxTime /\ now' = now + 1
  /\ UNCHANGED <<row, events, claims, pc, at, held>>

\* A mutant: an event leaves a claimed job to its holder.
AppendKeepsClaim ==
  /\ events < MaxEvents /\ events' = events + 1
  /\ status' = IF status = "processing" THEN status ELSE "pending"
  /\ IF status \in Active
     THEN UNCHANGED <<token, lease, attempts>>
     ELSE token' = NoToken /\ lease' = Never /\ attempts' = 0
  /\ UNCHANGED <<settled, claims, now, pc, at, held>>

\* append_watch_event: a new job, or the active one queued again.  The token
\* and the lease of a claim are left in the row.
AppendEvent ==
  /\ events < MaxEvents /\ events' = events + 1
  /\ status' = "pending"
  /\ IF status \in Active
     THEN UNCHANGED <<token, lease, attempts>>
     ELSE token' = NoToken /\ lease' = Never /\ attempts' = 0
  /\ UNCHANGED <<settled, claims, now, pc, at, held>>

\* The condition of due_monitoring_job_ids and claim_monitoring_job_ids.
Due(time) ==
  \/ status \in {"pending", "waiting"}
  \/ status = "processing" /\ lease # Never /\ lease <= time

\* process_due_monitoring_jobs reads the clock and the due jobs (debounce and
\* retry times may keep this one out) ...
ListDue(h) ==
  /\ pc[h] = "idle" /\ Due(now)
  /\ pc' = [pc EXCEPT ![h] = "listed"]
  /\ at' = [at EXCEPT ![h] = now]
  /\ UNCHANGED <<row, events, claims, now, held>>

\* A mutant: the token is the same for every claim of the job.
ClaimReusesToken(h) ==
  /\ pc[h] = "listed"
  /\ IF Due(at[h])
     THEN /\ claims < MaxClaims /\ claims' = claims + 1
          /\ status' = "processing" /\ token' = 1 /\ lease' = at[h] + Lease
          /\ held' = [held EXCEPT ![h] = [tok |-> 1, seen |-> events]]
          /\ pc' = [pc EXCEPT ![h] = "working"]
     ELSE /\ pc' = [pc EXCEPT ![h] = "idle"]
          /\ UNCHANGED <<status, token, lease, claims, held>>
  /\ UNCHANGED <<attempts, settled, events, now, at>>

\* ... and claims them in a second transaction, with the clock of the first.
Claim(h) ==
  /\ pc[h] = "listed"
  /\ IF Due(at[h])
     THEN /\ claims < MaxClaims /\ claims' = claims + 1
          /\ status' = "processing" /\ token' = claims' /\ lease' = at[h] + Lease
          /\ held' = [held EXCEPT ![h] = [tok |-> claims', seen |-> events]]
          /\ pc' = [pc EXCEPT ![h] = "working"]
     ELSE /\ pc' = [pc EXCEPT ![h] = "idle"]
          /\ UNCHANGED <<status, token, lease, claims, held>>
  /\ UNCHANGED <<attempts, settled, events, now, at>>

-----------------------------------------------------------------------------
(* What a holder does with its claim.                                      *)

\* A mutant: an update is fenced by the status alone.
OwnsByStatus(h) == status = "processing"

Owns(h) == status = "processing" /\ token = held[h].tok

Leaves(h, to) == pc' = [pc EXCEPT ![h] = to] /\ held' = [held EXCEPT ![h] = Idle]

\* update_monitoring_job_stage extends the lease, or fails the batch.
Renew(h) ==
  /\ pc[h] = "working"
  /\ IF Owns(h)
     THEN lease' = now + Lease /\ UNCHANGED <<pc, held>>
     ELSE Leaves(h, "recover") /\ UNCHANGED lease
  /\ UNCHANGED <<status, token, attempts, settled, events, claims, now, at>>

Unclaimed == token' = NoToken /\ lease' = Never

\* update_monitoring_job_stability_sample: the file is not stable yet.
Sample(h) ==
  /\ pc[h] = "working"
  /\ IF Owns(h)
     THEN status' = "waiting" /\ Unclaimed /\ Leaves(h, "idle")
     ELSE Leaves(h, "recover") /\ UNCHANGED <<status, token, lease>>
  /\ UNCHANGED <<attempts, settled, events, claims, now, at>>

\* attempt_count + 1, and the end of the job at maximum_attempts.
Retry(next) ==
  /\ attempts' = IF attempts + 1 <= MaxAttempts THEN attempts + 1 ELSE MaxAttempts
  /\ status' = IF attempts + 1 >= MaxAttempts THEN "failed" ELSE next
  /\ settled' = IF attempts + 1 >= MaxAttempts THEN events ELSE settled
  /\ Unclaimed

\* reschedule_monitoring_job
Reschedule(h) ==
  /\ pc[h] = "working"
  /\ IF Owns(h)
     THEN Retry("waiting") /\ Leaves(h, "idle")
     ELSE Leaves(h, "recover") /\ UNCHANGED row
  /\ UNCHANGED <<events, claims, now, at>>

\* requeue_monitoring_job_after_cancellation; its answer is not looked at.
CancelRequeue(h) ==
  /\ pc[h] = "working" /\ Leaves(h, "idle")
  /\ IF Owns(h) THEN status' = "waiting" /\ Unclaimed ELSE UNCHANGED <<status, token, lease>>
  /\ UNCHANGED <<attempts, settled, events, claims, now, at>>

\* finish_monitoring_job; its answer is not looked at either.
Finish(h, outcome) ==
  /\ pc[h] = "working" /\ Leaves(h, "idle")
  /\ IF Owns(h)
     THEN status' = outcome /\ Unclaimed /\ settled' = held[h].seen
     ELSE UNCHANGED <<status, token, lease, settled>>
  /\ UNCHANGED <<attempts, events, claims, now, at>>

\* recover_processing_jobs_for_workspace, after an error of this process:
\* whoever holds the claim.
Recover(h) ==
  /\ pc[h] = "recover"
  /\ IF status = "processing" THEN Retry("waiting") ELSE UNCHANGED row
  /\ pc' = [pc EXCEPT ![h] = "idle"]
  /\ UNCHANGED <<events, claims, now, at, held>>

\* The process stops anywhere, or its batch fails.
Fail(h) ==
  /\ pc[h] \in {"listed", "working"}
  /\ \E to \in {"recover", "down"} : Leaves(h, to)
  /\ UNCHANGED <<row, events, claims, now, at>>

\* normalize_interrupted_monitoring_jobs, at the launch of a process.
Launch(h) ==
  /\ pc[h] = "down"
  /\ IF status = "processing" THEN Retry("pending") ELSE UNCHANGED row
  /\ pc' = [pc EXCEPT ![h] = "idle"]
  /\ UNCHANGED <<events, claims, now, at, held>>

Work(h) ==
  \/ Renew(h) \/ Sample(h) \/ Reschedule(h) \/ CancelRequeue(h)
  \/ \E outcome \in {"completed", "review", "excluded"} : Finish(h, outcome)

Next ==
  \/ Tick \/ AppendEvent
  \/ \E h \in Holders : ListDue(h) \/ Claim(h) \/ Work(h) \/ Recover(h) \/ Fail(h) \/ Launch(h)

Spec == Init /\ [][Next]_vars

-----------------------------------------------------------------------------
TypeOK ==
  /\ status \in Active \cup Ended
  /\ token \in Nat /\ lease \in Nat /\ attempts \in 0..MaxAttempts
  /\ events \in Nat /\ claims \in Nat /\ now \in Nat /\ settled \in Nat
  /\ pc \in [Holders -> {"idle", "listed", "working", "recover", "down"}]
  /\ at \in [Holders -> Nat]
  /\ held \in [Holders -> [tok : Nat, seen : Nat]]

\* A job ends only for a holder that knew all of its events: one that lost its
\* lease, was queued again or was recovered by another process cannot complete
\* work it has not seen (finish_monitoring_job's fence).
EndedCoversEvents == status \in Ended => settled = events

\* At most one process at a time can still change the job it works on,
\* although several believe they hold it.
OneOwner ==
  \A g, h \in Holders :
    pc[g] = "working" /\ pc[h] = "working" /\ Owns(g) /\ Owns(h) => g = h

\* A job that is still queued has attempts left.
AttemptsLeft == status \in Active => attempts < MaxAttempts

Ledger == INSTANCE EventLedger WITH recorded <- events

\* The queue settles all recorded events or none (EventLedger), whichever
\* processes claim, expire, crash and recover.
ImplementsLedger == Ledger!Spec
=============================================================================
