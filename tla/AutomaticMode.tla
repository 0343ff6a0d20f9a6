----------------------------- MODULE AutomaticMode -----------------------------
(***************************************************************************)
(* Automatic monitoring: the command that turns it on and off, the loop     *)
(* that runs a monitoring cycle and applies what the cycle proposed, and    *)
(* the commands that run beside it.                                         *)
(*                                                                          *)
(* Source: apps/desktop/src-tauri/src/lib.rs (set_monitoring_mode,          *)
(* start_monitoring_loop, try_run_automatic_execution, the cancellation     *)
(* registry), crates/application/src/monitoring.rs (finish_incremental_     *)
(* pipeline) and proposal.rs.  One workspace with one root.  What a cycle   *)
(* does to its job is MonitoringQueue's; here a job is attempted, and a     *)
(* revision of a proposal is either eligible (one confident move) or not.   *)
(***************************************************************************)
EXTENDS Naturals, SequencesExt

CONSTANTS
  MaxProposals, MaxRevision, MaxJobs, MaxSwitches,   \* bounds
  MaxAttempts,     \* MAXIMUM_ATTEMPTS
  Race,            \* what runs beside the loop: a subset of {"switch", "user", "pause", "command"}
  None

Ids == 1..MaxProposals

Proposal == [rev : 1..MaxRevision, eligible : BOOLEAN, status : {"ready", "approved", "superseded"}]

\* What is assumed of the parameters.
AutomaticAssumption ==
  /\ {MaxProposals, MaxJobs, MaxSwitches, MaxAttempts} \subseteq Nat /\ MaxRevision \in Nat \ {0}
  /\ Race \subseteq {"switch", "user", "pause", "command"} /\ None \notin Proposal

VARIABLES
  mode, paused, startup,   \* workspace_monitoring_state
  jobs,       \* jobs waiting, by how often each was attempted
  arrived,    \* jobs so far
  failed,     \* jobs given up although nothing around them failed
  gate,       \* Apply is enabled and the journal is not locked
  props,      \* proposals: revision, whether it is eligible, status
  holders,    \* monitoring_cancellations: who has registered for the workspace
  cancelled,  \* the token of the entry
  dialog,     \* set_monitoring_mode is asking the user
  loop,       \* the monitor thread
  cmd,        \* run_monitoring_cycle
  applied,    \* executions that were started: the revision, the mode and the gate and the eligibility then
  unclean,    \* automatic mode was turned on with work pending
  switches    \* how often the user changed a setting

vars == <<mode, paused, startup, jobs, arrived, failed, gate, props, holders, cancelled, dialog, loop, cmd,
          applied, unclean, switches>>
settings == <<mode, paused, startup, dialog, unclean, switches>>
queue == <<jobs, arrived, failed>>

Idle == [pc |-> "idle", before |-> 0, startup |-> FALSE, id |-> 0, rev |-> 0]

Init ==
  /\ mode = "prudent" /\ paused = FALSE /\ startup = FALSE
  /\ jobs = <<>> /\ arrived = 0 /\ failed = 0 /\ gate = TRUE
  /\ props = [i \in Ids |-> None] /\ holders = {} /\ cancelled = FALSE
  /\ dialog = FALSE /\ loop = Idle /\ cmd = "idle"
  /\ applied = {} /\ unclean = FALSE /\ switches = 0

-----------------------------------------------------------------------------
(* Proposals.                                                              *)

Known == {i \in Ids : props[i] # None}
Active == {i \in Known : props[i].status \in {"ready", "approved"}}

\* latest_organization_proposal, 0 when there is none.
Latest == IF Active = {} THEN 0 ELSE CHOOSE i \in Active : TRUE

\* validate_proposal.
Accepted(trigger) == trigger \in {"initial", "manual_recompute", "user_override"}

\* A new proposal supersedes the current one.
New(trigger) ==
  /\ Accepted(trigger) /\ Known # Ids
  /\ \E ok \in BOOLEAN :
       props' = [i \in Ids |->
                   IF i = Cardinality(Known) + 1 THEN [rev |-> 1, eligible |-> ok, status |-> "ready"]
                   ELSE IF i \in Active THEN [props[i] EXCEPT !.status = "superseded"] ELSE props[i]]

\* A new revision of the current one.
Revise ==
  /\ Latest # 0 /\ props[Latest].rev < MaxRevision
  /\ \E ok \in BOOLEAN :
       props' = [props EXCEPT ![Latest] = [rev |-> @.rev + 1, eligible |-> ok, status |-> "ready"]]

-----------------------------------------------------------------------------
(* A monitoring cycle, run by the loop or by the command.                  *)

\* finish_incremental_pipeline: a batch whose files are all gone has no dirty
\* file and updates the current proposal, or builds the first one.
Settled(n) == jobs' = SubSeq(jobs, n + 1, Len(jobs)) /\ UNCHANGED failed

\* A failed batch is scheduled again until its attempts are used up.
Attempted ==
  IF jobs[1] + 1 < MaxAttempts
  THEN jobs' = [jobs EXCEPT ![1] = @ + 1] /\ UNCHANGED failed
  ELSE jobs' = Tail(jobs) /\ failed' = failed + 1

Batch(removed) ==
  IF mode = "automatic" /\ ~removed
  THEN \/ New("automatic_monitoring") /\ Settled(1)
       \/ ~Accepted("automatic_monitoring") /\ Attempted /\ UNCHANGED props
  ELSE /\ IF Latest # 0 THEN Revise ELSE New("initial")
       /\ Settled(IF mode = "automatic" THEN 1 ELSE Len(jobs))

\* run_monitoring_cycle: nothing when paused or cancelled; reconciliation of
\* the start first, then the jobs that are due.
Cycle ==
  IF paused \/ cancelled
  THEN UNCHANGED <<startup, jobs, failed, props>>
  ELSE /\ startup' = FALSE
       /\ IF jobs = <<>> THEN UNCHANGED <<jobs, failed, props>> ELSE \E removed \in BOOLEAN : Batch(removed)

-----------------------------------------------------------------------------
(* The monitor thread.                                                     *)

\* A mutant: an entry that exists is replaced.
MayRegisterAlways(who) == who \notin holders

\* The registry: one holder for the workspace.
MayRegister(who) == holders = {}

Goto(pc) == loop' = [loop EXCEPT !.pc = pc]
Beside == UNCHANGED <<arrived, gate, mode, paused, dialog, unclean, switches, cmd>>

\* Registered, and what there was before the cycle is read.
LoopStart ==
  /\ loop.pc = "idle" /\ MayRegister("loop")
  /\ holders' = holders \cup {"loop"} /\ cancelled' = FALSE
  /\ loop' = [Idle EXCEPT !.pc = "cycle", !.before = Latest, !.startup = startup]
  /\ Beside /\ UNCHANGED <<startup, jobs, failed, props, applied>>

\* The cycle and the dashboard it returns.
LoopCycle ==
  /\ loop.pc = "cycle" /\ Cycle
  /\ Goto(IF mode = "automatic" /\ ~loop.startup THEN "decide" ELSE "done")
  /\ Beside /\ UNCHANGED <<holders, cancelled, applied>>

LoopStays == Beside /\ UNCHANGED <<startup, jobs, failed, holders, cancelled>>

\* The proposal that was not there before, if it is eligible.
LoopDecide ==
  /\ loop.pc = "decide"
  /\ IF ~cancelled /\ Latest \notin {0, loop.before} /\ props[Latest].status = "ready" /\ props[Latest].eligible
     THEN loop' = [loop EXCEPT !.pc = "gate", !.id = Latest]
     ELSE Goto("done")
  /\ LoopStays /\ UNCHANGED <<props, applied>>

\* system_status.
LoopGate ==
  /\ loop.pc = "gate" /\ Goto(IF gate THEN "approve" ELSE "done")
  /\ LoopStays /\ UNCHANGED <<props, applied>>

\* set_organization_proposal_status, which returns the current revision.
LoopApprove ==
  /\ loop.pc = "approve"
  /\ IF props[loop.id].status = "ready"
     THEN /\ props' = [props EXCEPT ![loop.id].status = "approved"]
          /\ loop' = [loop EXCEPT !.pc = "prepare", !.rev = props[loop.id].rev]
     ELSE Goto("done") /\ UNCHANGED props
  /\ LoopStays /\ UNCHANGED applied

ApprovalCurrent == props[loop.id].status = "approved" /\ props[loop.id].rev = loop.rev

\* A mutant: the gate was open when the loop asked.
RequireGateOnce == TRUE

\* require_apply_gate.
RequireGate == gate

\* prepare_execution, which may find the plan unsafe.
LoopPrepare ==
  /\ loop.pc = "prepare"
  /\ \/ RequireGate /\ ApprovalCurrent /\ Goto("start")
     \/ Goto("done")
  /\ LoopStays /\ UNCHANGED <<props, applied>>

\* Consent and start_execution; when they fail the session is cancelled.
LoopExecute ==
  /\ loop.pc = "start" /\ Goto("done")
  /\ \/ /\ RequireGate /\ ApprovalCurrent
        /\ applied' = applied \cup {[id |-> loop.id, rev |-> loop.rev, mode |-> mode, gate |-> gate,
                                     eligible |-> props[loop.id].eligible]}
     \/ UNCHANGED applied
  /\ LoopStays /\ UNCHANGED props

\* A mutant: a cycle that was cancelled returns before the entry is removed.
LoopDoneLeaking ==
  /\ loop.pc = "done" /\ loop' = Idle
  /\ holders' = IF cancelled THEN holders ELSE holders \ {"loop"}
  /\ Beside /\ UNCHANGED <<startup, jobs, failed, cancelled, props, applied>>

\* The entry is removed.
LoopDone ==
  /\ loop.pc = "done" /\ loop' = Idle
  /\ holders' = holders \ {"loop"}
  /\ Beside /\ UNCHANGED <<startup, jobs, failed, cancelled, props, applied>>

LoopStep == LoopStart \/ LoopCycle \/ LoopDecide \/ LoopGate \/ LoopApprove \/ LoopPrepare \/ LoopExecute \/ LoopDone

-----------------------------------------------------------------------------
(* The commands.                                                           *)

Apart == UNCHANGED <<loop, applied, gate>>

\* run_monitoring_cycle.
CommandStart ==
  /\ "command" \in Race /\ cmd = "idle" /\ MayRegister("command")
  /\ holders' = holders \cup {"command"} /\ cancelled' = FALSE /\ cmd' = "cycle"
  /\ Apart /\ UNCHANGED <<settings, queue, props>>

CommandCycle ==
  /\ cmd = "cycle" /\ Cycle /\ cmd' = "idle" /\ holders' = holders \ {"command"}
  /\ Apart /\ UNCHANGED <<mode, paused, dialog, unclean, switches, arrived, cancelled>>

Switch == switches < MaxSwitches /\ switches' = switches + 1

\* set_monitoring_mode: what must hold is read, then the user is asked.
AskAutomatic ==
  /\ "switch" \in Race /\ Switch /\ mode = "prudent" /\ ~dialog
  /\ ~startup /\ jobs = <<>> /\ gate /\ dialog' = TRUE
  /\ Apart /\ UNCHANGED <<mode, paused, startup, unclean, queue, props, holders, cancelled, cmd>>

AnswerAutomatic ==
  /\ dialog /\ dialog' = FALSE
  /\ \/ mode' = "automatic" /\ unclean' = (unclean \/ startup \/ jobs # <<>>)
     \/ UNCHANGED <<mode, unclean>>
  /\ Apart /\ UNCHANGED <<paused, startup, switches, queue, props, holders, cancelled, cmd>>

SetPrudent ==
  /\ "switch" \in Race /\ Switch /\ mode = "automatic" /\ mode' = "prudent"
  /\ Apart /\ UNCHANGED <<paused, startup, dialog, unclean, queue, props, holders, cancelled, cmd>>

\* pause_monitoring cancels the cycle that runs and stops the monitors.
Pause ==
  /\ "pause" \in Race /\ Switch /\ ~paused
  /\ cancelled' = (holders # {}) /\ paused' = TRUE
  /\ Apart /\ UNCHANGED <<mode, startup, dialog, unclean, queue, props, holders, cmd>>

\* resume_monitoring.
Resume ==
  /\ "pause" \in Race /\ paused /\ paused' = FALSE /\ startup' = TRUE
  /\ Apart /\ UNCHANGED <<mode, dialog, unclean, switches, queue, props, holders, cancelled, cmd>>

\* cancel_monitoring.
Cancel ==
  /\ "pause" \in Race /\ Switch /\ holders # {} /\ cancelled' = TRUE
  /\ Apart /\ UNCHANGED <<mode, paused, startup, dialog, unclean, queue, props, holders, cmd>>

\* A journal that does not verify locks Apply.
GateCloses ==
  /\ gate /\ gate' = FALSE
  /\ UNCHANGED <<settings, queue, props, holders, cancelled, loop, cmd, applied>>

\* generate_organization_proposal, recompute, and an override.
UserGenerates ==
  /\ "user" \in Race /\ New("manual_recompute")
  /\ Apart /\ UNCHANGED <<settings, queue, holders, cancelled, cmd>>

UserRevises ==
  /\ "user" \in Race /\ Revise
  /\ Apart /\ UNCHANGED <<settings, queue, holders, cancelled, cmd>>

\* A watcher reports a change.
FileArrives ==
  /\ arrived < MaxJobs /\ ~paused /\ arrived' = arrived + 1 /\ jobs' = Append(jobs, 0)
  /\ Apart /\ UNCHANGED <<settings, failed, props, holders, cancelled, cmd>>

Next ==
  \/ LoopStep
  \/ CommandStart \/ CommandCycle
  \/ AskAutomatic \/ AnswerAutomatic \/ SetPrudent \/ Pause \/ Resume \/ Cancel \/ GateCloses
  \/ UserGenerates \/ UserRevises \/ FileArrives

\* The monitor thread sleeps two seconds and runs again, and a command that
\* has started returns.
Fairness == WF_vars(LoopStep) /\ WF_vars(CommandCycle)

Spec == Init /\ [][Next]_vars /\ Fairness

-----------------------------------------------------------------------------
(* Properties.                                                             *)

\* Every variable has its type, and a workspace has one current proposal.
TypeOK ==
  /\ mode \in {"prudent", "automatic"} /\ {paused, startup, dialog, cancelled, unclean, gate} \subseteq BOOLEAN
  /\ jobs \in Seq(0..MaxAttempts) /\ arrived \in 0..MaxJobs /\ failed \in 0..MaxJobs /\ switches \in 0..MaxSwitches
  /\ props \in [Ids -> Proposal \cup {None}] /\ Cardinality(Active) <= 1
  /\ holders \subseteq {"loop", "command"} /\ cmd \in {"idle", "cycle"}
  /\ loop.pc \in {"idle", "cycle", "decide", "gate", "approve", "prepare", "start", "done"}
  /\ applied \subseteq [id : Ids, rev : 1..MaxRevision, mode : {"prudent", "automatic"},
                  gate : BOOLEAN, eligible : BOOLEAN]

\* The loop and the command never run a cycle of the workspace at once: an
\* entry of the registry is taken by one of them and kept until its end, in
\* every order of starting, pausing and finishing.
OneCycle == ~(loop.pc # "idle" /\ cmd # "idle")

\* Automatic work fails closed: nothing is executed while Apply is unavailable,
\* even when it became so after the loop had asked.
FailsClosed == \A a \in applied : a.gate

\* A file that arrives is dealt with in the end: the loop comes back after an
\* ineligible proposal, a closed gate, a failed batch or a failed execution.
ArrivalsSettle == jobs # <<>> ~> (jobs = <<>> \/ paused)

\* A batch in automatic mode is never given up without an error around it:
\* the fresh proposal it builds can be stored.
\* The code does not keep it: see the README.
FreshProposal == failed = 0

\* Automatic mode is turned on only with nothing pending.
\* The code does not keep it: see the README.
CleanActivation == ~unclean

\* Nothing is executed automatically once the mode is Prudent again.
\* The code does not keep it: see the README.
PrudentAtOnce == \A a \in applied : a.mode = "automatic"

\* What is executed automatically is a revision with exactly one confident
\* candidate.
\* The code does not keep it: see the README.
OnlyEligible == \A a \in applied : a.eligible
=============================================================================
