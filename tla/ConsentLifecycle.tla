-------------------------- MODULE ConsentLifecycle --------------------------
(***************************************************************************)
(* The consent of one prepared execution: approve_execution (challenge,    *)
(* native dialog, finalize or discard), start_execution up to the consumed *)
(* consent, and cancel_execution, each on a blocking thread of its own.    *)
(*                                                                         *)
(* Sources: crates/application/src/execution.rs (the commands),            *)
(* crates/persistence/src/execution.rs (one transaction per step) and      *)
(* apps/desktop/src-tauri/src/lib.rs (approve_execution).                  *)
(*                                                                         *)
(* A challenge is its nonce with its issue and expiry times; its MAC covers*)
(* them and the frozen plan, so the checks of the MAC come down to         *)
(* comparing these three.                                                  *)
(***************************************************************************)
EXTENDS Naturals

CONSTANTS
  ApproveCmds,    \* threads that run approve_execution
  StartCmds,      \* threads that run start_execution
  CancelCmds,     \* threads that run cancel_execution
  Lifetime,       \* EXECUTION_CONSENT_LIFETIME_MS, in ticks
  MaxClock,       \* bound: the largest wall-clock value
  MaxChallenges,  \* bound: challenges issued
  MaxDrifts       \* bound: changes of the plan's context

Threads == ApproveCmds \cup StartCmds \cup CancelCmds

Clock == 0..MaxClock

\* nonce IS NULL
NoNonce == 0

NoChallenge == [nonce |-> NoNonce, issued |-> 0, expires |-> 0]

ASSUME CommandAssumption ==
  /\ ApproveCmds \cap (StartCmds \cup CancelCmds) = {}
  /\ StartCmds \cap CancelCmds = {}

ASSUME LifetimeAssumption ==
  /\ Lifetime \in Nat \ {0}
  /\ MaxClock \in Nat /\ MaxChallenges \in Nat /\ MaxDrifts \in Nat

VARIABLES
  state,                 \* local_execution_consents.state
  stored,                \* .nonce, .issued_at_unix_ms, .expires_at_unix_ms
  attestedAt,            \* .attested_at_unix_ms (0 while NULL)
  consumedAt,            \* .consumed_at_unix_ms (0 while NULL)
  status,                \* local_execution_sessions.status
  current,               \* the approved proposal, policy, root and sources
                         \* are what the plan was frozen from
  now,                   \* the wall clock
  pc, held, at,          \* thread locals: the challenge and the time it uses
  asked,                 \* ghost: challenges issued so far
  confirmed, declined,   \* ghost: nonces the user accepted, refused
  started,               \* ghost: start commands that went on to run
  drifts                 \* how much of the bound is used

row == <<state, stored, attestedAt, consumedAt>>
local == <<pc, held, at>>
ghosts == <<asked, confirmed, declined, started>>
vars == <<row, status, current, now, local, ghosts, drifts>>

ConsentStates == {"pending", "attested", "consumed", "expired", "invalidated"}

SessionStatus == {"awaiting_confirmation", "approved", "running", "cancelled"}

Challenges == [nonce : Nat, issued : Nat, expires : Nat]

-----------------------------------------------------------------------------
(* Transactions *)

\* reset_legacy_execution_approval
Resettable == status \in {"awaiting_confirmation", "approved"}

\* Mutant: the session stays approved when its consent lapses.
LapseOnly(new) == state' = new /\ UNCHANGED status

\* The consent and the session change together.
LapseTo(new) == state' = new /\ status' = "awaiting_confirmation"

\* Mutant: a consumed consent is invalidated like any other.
InvalidateAlways ==
  /\ state' = "invalidated"
  /\ UNCHANGED <<status, stored, attestedAt, consumedAt>>

\* invalidate_execution_consent; a session that left the approval states makes
\* the transaction roll back.
Invalidate ==
  /\ IF state \in {"pending", "attested", "expired"} /\ Resettable
     THEN LapseTo("invalidated")
     ELSE UNCHANGED <<state, status>>
  /\ UNCHANGED <<stored, attestedAt, consumedAt>>

\* expire_execution_consent, at the command's own time.
Expire(time) ==
  /\ IF /\ state \in {"pending", "attested"} /\ stored.nonce # NoNonce
        /\ stored.expires <= time /\ Resettable
     THEN LapseTo("expired")
     ELSE UNCHANGED <<state, status>>
  /\ UNCHANGED <<stored, attestedAt, consumedAt>>

Goto(t, label) == pc' = [pc EXCEPT ![t] = label]

\* The command returns, with or without an error.
Return(t) ==
  /\ Goto(t, "idle")
  /\ held' = [held EXCEPT ![t] = NoChallenge]
  /\ at' = [at EXCEPT ![t] = 0]

\* revalidate_consent_context_or_invalidate, then on to the label.
Revalidate(t, label) ==
  /\ IF current
     THEN Goto(t, label) /\ UNCHANGED <<row, status, held, at>>
     ELSE Invalidate /\ Return(t)
  /\ UNCHANGED <<current, now, ghosts, drifts>>

-----------------------------------------------------------------------------
(* approve_execution: create_execution_consent_challenge *)

\* The command reads the clock and the session.
CreateBegin(t) ==
  /\ pc[t] = "idle"
  /\ status = "awaiting_confirmation"
  /\ state \in {"pending", "expired"}
  /\ at' = [at EXCEPT ![t] = now]
  /\ Goto(t, "create")
  /\ UNCHANGED <<row, status, current, now, held, ghosts, drifts>>

CreateRevalidate(t) == pc[t] = "create" /\ Revalidate(t, "issue")

\* issue_execution_consent_challenge with a fresh nonce.  It replaces a
\* challenge another approve command still shows.
Issue(t) ==
  /\ pc[t] = "issue"
  /\ asked < MaxChallenges
  /\ IF state \in {"pending", "expired"} /\ status = "awaiting_confirmation"
     THEN LET challenge == [nonce |-> asked + 1, issued |-> at[t],
                            expires |-> at[t] + Lifetime]
          IN /\ state' = "pending"
             /\ stored' = challenge
             /\ attestedAt' = 0 /\ consumedAt' = 0
             /\ asked' = asked + 1
             /\ held' = [held EXCEPT ![t] = challenge]
             /\ Goto(t, "dialog")
             /\ UNCHANGED at
     ELSE Return(t) /\ UNCHANGED <<row, asked>>
  /\ UNCHANGED <<status, current, now, confirmed, declined, started, drifts>>

\* show_native_execution_confirmation: the user accepts, and finalize reads the
\* clock.
Accept(t) ==
  /\ pc[t] = "dialog"
  /\ confirmed' = confirmed \cup {held[t].nonce}
  /\ at' = [at EXCEPT ![t] = now]
  /\ Goto(t, "finalize")
  /\ UNCHANGED <<row, status, current, now, held, asked, declined, started,
                 drifts>>

\* The user refuses.  clear_execution_consent_challenge updates the row and
\* returns without committing, so the transaction rolls back.
Decline(t) ==
  /\ pc[t] = "dialog"
  /\ declined' = declined \cup {held[t].nonce}
  /\ Return(t)
  /\ UNCHANGED <<row, status, current, now, asked, confirmed, started, drifts>>

-----------------------------------------------------------------------------
(* approve_execution: finalize_execution_consent *)

FinalizeTooLate(t) ==
  /\ pc[t] = "finalize"
  /\ at[t] >= held[t].expires
  /\ Expire(at[t])
  /\ Return(t)
  /\ UNCHANGED <<current, now, ghosts, drifts>>

FinalizeRead(t) ==
  /\ pc[t] = "finalize"
  /\ at[t] < held[t].expires
  /\ IF status = "awaiting_confirmation" /\ state = "pending"
     THEN Goto(t, "vet") /\ UNCHANGED <<held, at>>
     ELSE Return(t)
  /\ UNCHANGED <<row, status, current, now, ghosts, drifts>>

FinalizeRevalidate(t) == pc[t] = "vet" /\ Revalidate(t, "attest")

\* Mutant: any pending challenge is attested.
AttestAnyChallenge(t) ==
  /\ state = "pending" /\ status = "awaiting_confirmation"
  /\ at[t] \in stored.issued..stored.expires

\* Mutant: the session's status is not part of the transaction's condition.
AttestAnySession(t) ==
  /\ state \in {"pending", "invalidated"}
  /\ stored = held[t]
  /\ at[t] \in stored.issued..stored.expires

\* The row attest_execution_consent matches.
Attestable(t) ==
  /\ state = "pending" /\ status = "awaiting_confirmation"
  /\ stored = held[t]
  /\ at[t] \in stored.issued..stored.expires

Attest(t) ==
  /\ pc[t] = "attest"
  /\ IF Attestable(t)
     THEN state' = "attested" /\ status' = "approved" /\ attestedAt' = at[t]
     ELSE UNCHANGED <<state, status, attestedAt>>
  /\ Return(t)
  /\ UNCHANGED <<stored, consumedAt, current, now, ghosts, drifts>>

-----------------------------------------------------------------------------
(* start_execution up to its loop *)

\* The authorization time is read once, before anything is checked.
StartBegin(t) ==
  /\ pc[t] = "idle"
  /\ at' = [at EXCEPT ![t] = now]
  /\ Goto(t, "read")
  /\ UNCHANGED <<row, status, current, now, held, ghosts, drifts>>

StartRead(t) ==
  /\ pc[t] = "read"
  /\ IF status = "approved" /\ state = "attested"
     THEN /\ held' = [held EXCEPT ![t] = stored]
          /\ Goto(t, "start")
          /\ UNCHANGED at
     ELSE Return(t)
  /\ UNCHANGED <<row, status, current, now, ghosts, drifts>>

StartRevalidate(t) == pc[t] = "start" /\ Revalidate(t, "deadline")

\* Past the deadline the consent expires; before it the worker session opens.
StartDeadline(t) ==
  /\ pc[t] = "deadline"
  /\ IF at[t] >= held[t].expires
     THEN Expire(at[t]) /\ Return(t)
     ELSE Goto(t, "consume") /\ UNCHANGED <<row, status, held, at>>
  /\ UNCHANGED <<current, now, ghosts, drifts>>

\* open_session or persist_executor_session fails, and the consent stays.
OpenSessionFails(t) ==
  /\ pc[t] = "consume"
  /\ Return(t)
  /\ UNCHANGED <<row, status, current, now, ghosts, drifts>>

\* Mutant: what the command read before it opened the worker is trusted.
ConsumeAsRead(t) == at[t] >= attestedAt /\ at[t] <= held[t].expires

\* The row consume_execution_consent matches; the schema refuses a consumption
\* older than its attestation.
Consumable(t) ==
  /\ state = "attested" /\ status = "approved"
  /\ stored = held[t]
  /\ at[t] <= stored.expires
  /\ at[t] >= attestedAt

Consume(t) ==
  /\ pc[t] = "consume"
  /\ IF Consumable(t)
     THEN /\ state' = "consumed" /\ status' = "running"
          /\ consumedAt' = at[t]
          /\ started' = started \cup {t}
          /\ Goto(t, "running")
          /\ UNCHANGED <<held, at>>
     ELSE Return(t) /\ UNCHANGED <<state, consumedAt, status, started>>
  /\ UNCHANGED <<stored, attestedAt, current, now, asked, confirmed, declined,
                 drifts>>

-----------------------------------------------------------------------------
(* cancel_execution of an execution that did not run when the status was read *)

CancelBegin(t) ==
  /\ pc[t] = "idle"
  /\ Resettable
  /\ Goto(t, IF status = "approved" THEN "revoke" ELSE "withdraw")
  /\ UNCHANGED <<row, status, current, now, held, at, ghosts, drifts>>

\* An open consent of a session that moved on is an error, a consumed or
\* invalidated one is not.
CancelInvalidate(t) ==
  /\ pc[t] \in {"revoke", "withdraw"}
  /\ Invalidate
  /\ IF state \in {"pending", "attested", "expired"} /\ ~Resettable
     THEN Return(t)
     ELSE /\ Goto(t, IF pc[t] = "revoke" THEN "finish" ELSE "unstarted")
          /\ UNCHANGED <<held, at>>
  /\ UNCHANGED <<current, now, ghosts, drifts>>

\* cancel_unstarted_execution
CancelUnstarted(t) ==
  /\ pc[t] = "unstarted"
  /\ status' = IF Resettable THEN "cancelled" ELSE status
  /\ Return(t)
  /\ UNCHANGED <<row, current, now, ghosts, drifts>>

\* finish_execution overwrites the status, unless the cursor is stale by then.
CancelFinish(t) ==
  /\ pc[t] = "finish"
  /\ status' \in {"cancelled", status}
  /\ Return(t)
  /\ UNCHANGED <<row, current, now, ghosts, drifts>>

-----------------------------------------------------------------------------
(* The environment *)

\* Time passes, or somebody sets the clock, also back.
ClockChanges ==
  /\ now' \in Clock \ {now}
  /\ UNCHANGED <<row, status, current, local, ghosts, drifts>>

\* The proposal is superseded, a source changes, a root is unplugged, or what
\* was changed comes back.
ContextChanges ==
  /\ drifts < MaxDrifts
  /\ drifts' = drifts + 1
  /\ current' = ~current
  /\ UNCHANGED <<row, status, now, local, ghosts>>

Init ==
  /\ state = "pending"
  /\ stored = NoChallenge
  /\ attestedAt = 0 /\ consumedAt = 0
  /\ status = "awaiting_confirmation"
  /\ current = TRUE
  /\ now \in Clock
  /\ pc = [t \in Threads |-> "idle"]
  /\ held = [t \in Threads |-> NoChallenge]
  /\ at = [t \in Threads |-> 0]
  /\ asked = 0
  /\ confirmed = {} /\ declined = {} /\ started = {}
  /\ drifts = 0

ApproveSteps(t) ==
  \/ CreateBegin(t) \/ CreateRevalidate(t) \/ Issue(t) \/ Accept(t)
  \/ Decline(t) \/ FinalizeTooLate(t) \/ FinalizeRead(t)
  \/ FinalizeRevalidate(t) \/ Attest(t)

StartSteps(t) ==
  \/ StartBegin(t) \/ StartRead(t) \/ StartRevalidate(t) \/ StartDeadline(t)
  \/ OpenSessionFails(t) \/ Consume(t)

CancelSteps(t) ==
  CancelBegin(t) \/ CancelInvalidate(t) \/ CancelUnstarted(t) \/ CancelFinish(t)

Next ==
  \/ \E t \in ApproveCmds : ApproveSteps(t)
  \/ \E t \in StartCmds : StartSteps(t)
  \/ \E t \in CancelCmds : CancelSteps(t)
  \/ ClockChanges
  \/ ContextChanges

Spec == Init /\ [][Next]_vars

-----------------------------------------------------------------------------
(* Properties *)

Labels ==
  {"idle", "create", "issue", "dialog", "finalize", "vet", "attest", "read",
   "start", "deadline", "consume", "running", "revoke", "withdraw",
   "unstarted", "finish"}

\* The consent row, the session and the locals of every command keep the types
\* the schema and the service give them.
TypeOK ==
  /\ state \in ConsentStates
  /\ stored \in Challenges
  /\ attestedAt \in Clock /\ consumedAt \in Clock
  /\ status \in SessionStatus
  /\ current \in BOOLEAN
  /\ now \in Clock
  /\ pc \in [Threads -> Labels]
  /\ held \in [Threads -> Challenges]
  /\ at \in [Threads -> Clock]
  /\ asked \in 0..MaxChallenges
  /\ confirmed \in SUBSET Nat /\ declined \in SUBSET Nat
  /\ started \in SUBSET StartCmds
  /\ drifts \in 0..MaxDrifts

\* Only a challenge the user accepted in the native dialog is ever attested or
\* consumed, never one that was refused or that another approve command
\* replaced meanwhile.
ConsentWasGiven ==
  state \in {"attested", "consumed"} =>
    stored.nonce \in confirmed \ declined

\* "Attested consent is consumed exactly once": whatever start commands race,
\* at most one of them goes on to run, and none without a consumed consent.
StartedOnce ==
  \A t, u \in started : t = u /\ state = "consumed"

\* The two tables agree: a session is approved exactly while its consent is
\* attested, and runs only on a consumed one.
SessionMatchesConsent ==
  /\ status = "approved" <=> state = "attested"
  /\ status = "running" => state = "consumed"
  /\ state \in {"pending", "expired"} => status = "awaiting_confirmation"

\* Cancelling is final: no approve or start command that was under way revives
\* a cancelled session.
CancelIsFinal == [][status = "cancelled" => status' = "cancelled"]_vars

\* What the coordinator's model relies on: the two tables move only along the
\* steps of ConsentGate.
Gate == INSTANCE ConsentGate WITH consent <- state

ImplementsGate == Gate!Spec

\* docs/CURRENT_STATE: proposal drift and failed revalidation invalidate the
\* consent and block the start, so no consent is consumed for a plan whose
\* context has changed.
DriftBlocksStart ==
  [][state # "consumed" /\ state' = "consumed" => current]_vars

=============================================================================
