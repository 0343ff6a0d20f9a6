----------------------- MODULE ConsentLifecycleProofs -----------------------
(***************************************************************************)
(* Theorems about ConsentLifecycle, for any number of approve, start and   *)
(* cancel commands, challenges, clock values and context changes.          *)
(*                                                                         *)
(* The argument: every step moves the consent and the session along        *)
(* ConsentGate (GateStep), given that a cancel command past its            *)
(* invalidation has seen a terminal consent (CancelMoved).  What ConsentGate*)
(* preserves then holds of the two tables.                                 *)
(***************************************************************************)
EXTENDS ConsentLifecycle, TLAPS

Terminal == {"consumed", "invalidated"}

\* A cancel command that is past its invalidation left a terminal consent.
CancelMoved ==
  \A t \in CancelCmds : pc[t] \in {"unstarted", "finish"} => state \in Terminal

LEMMA CommandFacts ==
  /\ ApproveCmds \subseteq Threads
  /\ StartCmds \subseteq Threads
  /\ CancelCmds \subseteq Threads
  /\ \A t \in ApproveCmds \cup StartCmds : t \notin CancelCmds
  /\ \A t \in StartCmds : t \notin ApproveCmds
  BY CommandAssumption DEF Threads

\* What a command's locals look like after it returns.
LEMMA ReturnFacts ==
  ASSUME TypeOK, NEW t \in Threads, Return(t)
  PROVE  /\ pc' \in [Threads -> Labels]
         /\ held' \in [Threads -> Challenges]
         /\ at' \in [Threads -> Clock]
         /\ pc'[t] = "idle"
         /\ \A u \in Threads \ {t} : pc'[u] = pc[u] /\ held'[u] = held[u]
  <1>1. "idle" \in Labels /\ NoChallenge \in Challenges /\ 0 \in Clock
    BY LifetimeAssumption DEF Labels, NoChallenge, NoNonce, Challenges, Clock
  <1>2. QED BY <1>1 DEF Return, Goto, TypeOK

LEMMA GotoFacts ==
  ASSUME TypeOK, NEW t \in Threads, NEW label \in Labels, Goto(t, label)
  PROVE  /\ pc' \in [Threads -> Labels]
         /\ pc'[t] = label
         /\ \A u \in Threads \ {t} : pc'[u] = pc[u]
  BY DEF Goto, TypeOK

\* invalidate_execution_consent and expire_execution_consent change nothing, or
\* let an open consent of an unstarted session lapse.
LEMMA LapseFacts ==
  ASSUME TypeOK
  PROVE  /\ Invalidate =>
              /\ UNCHANGED <<stored, attestedAt, consumedAt>>
              /\ UNCHANGED <<state, status>> \/ Gate!Lapse
         /\ \A time : Expire(time) =>
              /\ UNCHANGED <<stored, attestedAt, consumedAt>>
              /\ UNCHANGED <<state, status>> \/ Gate!Lapse
  BY DEF Invalidate, Expire, LapseTo, Resettable, Gate!Lapse

-----------------------------------------------------------------------------
(* Every step is a step of ConsentGate *)

LEMMA RevalidateGate ==
  ASSUME TypeOK, NEW t, NEW label, Revalidate(t, label)
  PROVE  UNCHANGED <<state, status>> \/ Gate!Lapse
  BY LapseFacts DEF Revalidate, row

LEMMA GateStep ==
  ASSUME TypeOK, CancelMoved, [Next]_vars
  PROVE  [Gate!Next]_(Gate!vars)
  <1>1. ASSUME NEW t \in ApproveCmds, ApproveSteps(t)
        PROVE  [Gate!Next]_(Gate!vars)
    <2>1. CASE CreateRevalidate(t) \/ FinalizeRevalidate(t)
      BY <2>1, RevalidateGate
         DEF CreateRevalidate, FinalizeRevalidate, Gate!Next, Gate!vars
    <2>2. CASE Issue(t)
      BY <2>2 DEF Issue, Gate!Next, Gate!Reopen, Gate!vars, row
    <2>3. CASE FinalizeTooLate(t)
      BY <2>3, LapseFacts DEF FinalizeTooLate, Gate!Next, Gate!vars
    <2>4. CASE Attest(t)
      BY <2>4 DEF Attest, Attestable, Gate!Next, Gate!Attest, Gate!vars
    <2>5. CASE CreateBegin(t) \/ Accept(t) \/ Decline(t) \/ FinalizeRead(t)
      BY <2>5 DEF CreateBegin, Accept, Decline, FinalizeRead, Gate!vars, row
    <2>6. QED BY <1>1, <2>1, <2>2, <2>3, <2>4, <2>5 DEF ApproveSteps
  <1>2. ASSUME NEW t \in StartCmds, StartSteps(t)
        PROVE  [Gate!Next]_(Gate!vars)
    <2>1. CASE StartRevalidate(t)
      BY <2>1, RevalidateGate DEF StartRevalidate, Gate!Next, Gate!vars
    <2>2. CASE StartDeadline(t)
      BY <2>2, LapseFacts DEF StartDeadline, Gate!Next, Gate!vars, row
    <2>3. CASE Consume(t)
      BY <2>3 DEF Consume, Consumable, Gate!Next, Gate!Consume, Gate!vars
    <2>4. CASE StartBegin(t) \/ StartRead(t) \/ OpenSessionFails(t)
      BY <2>4 DEF StartBegin, StartRead, OpenSessionFails, Gate!vars, row
    <2>5. QED BY <1>2, <2>1, <2>2, <2>3, <2>4 DEF StartSteps
  <1>3. ASSUME NEW t \in CancelCmds, CancelSteps(t)
        PROVE  [Gate!Next]_(Gate!vars)
    <2>1. CASE CancelInvalidate(t)
      BY <2>1, LapseFacts DEF CancelInvalidate, Gate!Next, Gate!vars
    <2>2. CASE CancelUnstarted(t) \/ CancelFinish(t)
      <3>1. state \in Terminal /\ state' = state
        BY <2>2 DEF CancelMoved, CancelUnstarted, CancelFinish, row
      <3>2. status' = "cancelled" \/ status' = status
        BY <2>2 DEF CancelUnstarted, CancelFinish
      <3>3. QED
        BY <3>1, <3>2 DEF Terminal, Gate!Next, Gate!Cancel, Gate!vars
    <2>3. CASE CancelBegin(t)
      BY <2>3 DEF CancelBegin, Gate!vars, row
    <2>4. QED BY <1>3, <2>1, <2>2, <2>3 DEF CancelSteps
  <1>4. CASE ClockChanges \/ ContextChanges \/ UNCHANGED vars
    BY <1>4 DEF ClockChanges, ContextChanges, Gate!vars, vars, row
  <1>5. QED BY <1>1, <1>2, <1>3, <1>4 DEF Next

\* A consumed or invalidated consent stays what it is.
LEMMA TerminalStays ==
  ASSUME [Gate!Next]_(Gate!vars), state \in Terminal
  PROVE  state' = state
  BY DEF Gate!Next, Gate!Reopen, Gate!Attest, Gate!Lapse, Gate!Consume,
         Gate!Cancel, Gate!vars, Terminal

-----------------------------------------------------------------------------
(* Types *)

LEMMA RevalidateType ==
  ASSUME TypeOK, NEW t \in Threads, NEW label \in Labels, Revalidate(t, label)
  PROVE  TypeOK'
  <1>1. CASE current
    <2>1. Goto(t, label) /\ UNCHANGED <<row, status, held, at>>
      BY <1>1 DEF Revalidate
    <2>2. QED BY <2>1, GotoFacts DEF Revalidate, TypeOK, row, ghosts
  <1>2. CASE ~current
    <2>1. Invalidate /\ Return(t)
      BY <1>2 DEF Revalidate
    <2>2. state' \in ConsentStates /\ status' \in SessionStatus
          /\ UNCHANGED <<stored, attestedAt, consumedAt>>
      BY <2>1 DEF Invalidate, LapseTo, TypeOK, ConsentStates, SessionStatus
    <2>3. QED BY <2>1, <2>2, ReturnFacts DEF Revalidate, TypeOK, ghosts
  <1>3. QED BY <1>1, <1>2

LEMMA ApproveType ==
  ASSUME TypeOK, NEW t \in ApproveCmds, ApproveSteps(t)
  PROVE  TypeOK'
  <1>0. t \in Threads
    BY CommandFacts
  <1>l. {"create", "issue", "dialog", "finalize", "vet", "attest"}
          \subseteq Labels
    BY DEF Labels
  <1>a. at[t] \in Clock /\ now \in Clock /\ held[t].nonce \in Nat
    BY <1>0 DEF TypeOK, Challenges
  <1>1. CASE CreateBegin(t)
    <2>1. at' \in [Threads -> Clock]
      BY <1>0, <1>1, <1>a DEF CreateBegin, TypeOK
    <2>2. pc' \in [Threads -> Labels]
      BY <1>0, <1>1, <1>l, GotoFacts DEF CreateBegin
    <2>3. QED BY <1>1, <2>1, <2>2 DEF CreateBegin, TypeOK, row, ghosts
  <1>2. CASE CreateRevalidate(t) \/ FinalizeRevalidate(t)
    BY <1>0, <1>2, <1>l, RevalidateType
       DEF CreateRevalidate, FinalizeRevalidate
  <1>3. CASE Issue(t)
    <2>1. CASE state \in {"pending", "expired"}
               /\ status = "awaiting_confirmation"
      <3>1. PICK challenge :
              /\ challenge = [nonce |-> asked + 1, issued |-> at[t],
                              expires |-> at[t] + Lifetime]
              /\ state' = "pending" /\ stored' = challenge
              /\ attestedAt' = 0 /\ consumedAt' = 0 /\ asked' = asked + 1
              /\ held' = [held EXCEPT ![t] = challenge]
              /\ Goto(t, "dialog") /\ at' = at
        BY <1>3, <2>1 DEF Issue
      <3>2. challenge \in Challenges
        BY <1>a, <3>1, LifetimeAssumption DEF TypeOK, Challenges, Clock
      <3>3. held' \in [Threads -> Challenges]
        BY <1>0, <3>1, <3>2 DEF TypeOK
      <3>4. pc' \in [Threads -> Labels]
        BY <1>0, <1>l, <3>1, GotoFacts
      <3>5. asked' \in 0..MaxChallenges /\ 0 \in Clock
        BY <1>3, <3>1, LifetimeAssumption DEF Issue, TypeOK, Clock
      <3>6. QED
        BY <1>3, <3>1, <3>2, <3>3, <3>4, <3>5 DEF Issue, TypeOK, ConsentStates
    <2>2. CASE ~(state \in {"pending", "expired"}
                 /\ status = "awaiting_confirmation")
      BY <1>0, <1>3, <2>2, ReturnFacts DEF Issue, TypeOK, row
    <2>3. QED BY <2>1, <2>2
  <1>4. CASE Accept(t)
    <2>1. at' \in [Threads -> Clock] /\ confirmed' \in SUBSET Nat
      BY <1>0, <1>4, <1>a DEF Accept, TypeOK
    <2>2. pc' \in [Threads -> Labels]
      BY <1>0, <1>4, <1>l, GotoFacts DEF Accept
    <2>3. QED BY <1>4, <2>1, <2>2 DEF Accept, TypeOK, row
  <1>5. CASE Decline(t)
    <2>1. declined' \in SUBSET Nat
      BY <1>5, <1>a DEF Decline, TypeOK
    <2>2. QED BY <1>0, <1>5, <2>1, ReturnFacts DEF Decline, TypeOK, row
  <1>6. CASE FinalizeTooLate(t)
    <2>1. state' \in ConsentStates /\ status' \in SessionStatus
          /\ UNCHANGED <<stored, attestedAt, consumedAt>>
      BY <1>6 DEF FinalizeTooLate, Expire, LapseTo, TypeOK, ConsentStates,
                  SessionStatus
    <2>2. QED
      BY <1>0, <1>6, <2>1, ReturnFacts DEF FinalizeTooLate, TypeOK, ghosts
  <1>7. CASE FinalizeRead(t)
    <2>1. CASE Return(t)
      BY <1>0, <1>7, <2>1, ReturnFacts DEF FinalizeRead, TypeOK, row, ghosts
    <2>2. CASE Goto(t, "vet") /\ UNCHANGED <<held, at>>
      BY <1>0, <1>7, <1>l, <2>2, GotoFacts
         DEF FinalizeRead, TypeOK, row, ghosts
    <2>3. QED BY <1>7, <2>1, <2>2 DEF FinalizeRead
  <1>8. CASE Attest(t)
    <2>1. state' \in ConsentStates /\ status' \in SessionStatus
          /\ attestedAt' \in Clock
      BY <1>8, <1>a DEF Attest, TypeOK, ConsentStates, SessionStatus
    <2>2. QED BY <1>0, <1>8, <2>1, ReturnFacts DEF Attest, TypeOK, ghosts
  <1>9. QED
    BY <1>1, <1>2, <1>3, <1>4, <1>5, <1>6, <1>7, <1>8 DEF ApproveSteps

LEMMA StartType ==
  ASSUME TypeOK, NEW t \in StartCmds, StartSteps(t)
  PROVE  TypeOK'
  <1>0. t \in Threads
    BY CommandFacts
  <1>l. {"read", "start", "deadline", "consume", "running"} \subseteq Labels
    BY DEF Labels
  <1>a. at[t] \in Clock /\ now \in Clock
    BY <1>0 DEF TypeOK
  <1>1. CASE StartBegin(t)
    <2>1. at' \in [Threads -> Clock]
      BY <1>0, <1>1, <1>a DEF StartBegin, TypeOK
    <2>2. pc' \in [Threads -> Labels]
      BY <1>0, <1>1, <1>l, GotoFacts DEF StartBegin
    <2>3. QED BY <1>1, <2>1, <2>2 DEF StartBegin, TypeOK, row, ghosts
  <1>2. CASE StartRead(t)
    <2>1. CASE Return(t)
      BY <1>0, <1>2, <2>1, ReturnFacts DEF StartRead, TypeOK, row, ghosts
    <2>2. CASE /\ held' = [held EXCEPT ![t] = stored]
               /\ Goto(t, "start") /\ at' = at
      <3>1. held' \in [Threads -> Challenges]
        BY <1>0, <2>2 DEF TypeOK
      <3>2. QED
        BY <1>0, <1>2, <1>l, <2>2, <3>1, GotoFacts
           DEF StartRead, TypeOK, row, ghosts
    <2>3. QED BY <1>2, <2>1, <2>2 DEF StartRead
  <1>3. CASE StartRevalidate(t)
    BY <1>0, <1>3, <1>l, RevalidateType DEF StartRevalidate
  <1>4. CASE StartDeadline(t)
    <2>1. CASE Expire(at[t]) /\ Return(t)
      <3>1. state' \in ConsentStates /\ status' \in SessionStatus
            /\ UNCHANGED <<stored, attestedAt, consumedAt>>
        BY <2>1 DEF Expire, LapseTo, TypeOK, ConsentStates, SessionStatus
      <3>2. QED
        BY <1>0, <1>4, <2>1, <3>1, ReturnFacts
           DEF StartDeadline, TypeOK, ghosts
    <2>2. CASE Goto(t, "consume") /\ UNCHANGED <<row, status, held, at>>
      BY <1>0, <1>4, <1>l, <2>2, GotoFacts
         DEF StartDeadline, TypeOK, row, ghosts
    <2>3. QED BY <1>4, <2>1, <2>2 DEF StartDeadline
  <1>5. CASE Consume(t)
    <2>1. CASE Consumable(t)
      <3>1. started' \in SUBSET StartCmds /\ consumedAt' \in Clock
            /\ state' \in ConsentStates /\ status' \in SessionStatus
        BY <1>5, <1>a, <2>1
           DEF Consume, TypeOK, ConsentStates, SessionStatus
      <3>2. pc' \in [Threads -> Labels] /\ UNCHANGED <<held, at>>
        BY <1>0, <1>5, <1>l, <2>1, GotoFacts DEF Consume
      <3>3. QED BY <1>5, <3>1, <3>2 DEF Consume, TypeOK
    <2>2. CASE ~Consumable(t)
      BY <1>0, <1>5, <2>2, ReturnFacts DEF Consume, TypeOK
    <2>3. QED BY <2>1, <2>2
  <1>6. CASE OpenSessionFails(t)
    BY <1>0, <1>6, ReturnFacts DEF OpenSessionFails, TypeOK, row, ghosts
  <1>7. QED BY <1>1, <1>2, <1>3, <1>4, <1>5, <1>6 DEF StartSteps

LEMMA CancelType ==
  ASSUME TypeOK, NEW t \in CancelCmds, CancelSteps(t)
  PROVE  TypeOK'
  <1>0. t \in Threads
    BY CommandFacts
  <1>l. {"revoke", "withdraw", "finish", "unstarted"} \subseteq Labels
    BY DEF Labels
  <1>1. CASE CancelBegin(t)
    <2>1. PICK label \in Labels : Goto(t, label)
      BY <1>1, <1>l DEF CancelBegin
    <2>2. QED
      BY <1>0, <1>1, <2>1, GotoFacts DEF CancelBegin, TypeOK, row, ghosts
  <1>2. CASE CancelInvalidate(t)
    <2>1. state' \in ConsentStates /\ status' \in SessionStatus
          /\ UNCHANGED <<stored, attestedAt, consumedAt>>
      BY <1>2 DEF CancelInvalidate, Invalidate, LapseTo, TypeOK,
                  ConsentStates, SessionStatus
    <2>2. CASE Return(t)
      BY <1>0, <1>2, <2>1, <2>2, ReturnFacts
         DEF CancelInvalidate, TypeOK, ghosts
    <2>3. CASE (\E label \in Labels : Goto(t, label)) /\ UNCHANGED <<held, at>>
      BY <1>0, <1>2, <2>1, <2>3, GotoFacts
         DEF CancelInvalidate, TypeOK, ghosts
    <2>4. QED BY <1>2, <1>l, <2>2, <2>3 DEF CancelInvalidate
  <1>3. CASE CancelUnstarted(t) \/ CancelFinish(t)
    <2>1. status' \in SessionStatus
      BY <1>3 DEF CancelUnstarted, CancelFinish, TypeOK, SessionStatus
    <2>2. QED
      BY <1>0, <1>3, <2>1, ReturnFacts
         DEF CancelUnstarted, CancelFinish, TypeOK, row, ghosts
  <1>4. QED BY <1>1, <1>2, <1>3 DEF CancelSteps

LEMMA TypeStep ==
  ASSUME TypeOK, [Next]_vars
  PROVE  TypeOK'
  <1>1. CASE ClockChanges
    BY <1>1 DEF ClockChanges, TypeOK, row, local, ghosts
  <1>2. CASE ContextChanges
    <2>1. drifts' \in 0..MaxDrifts
      BY <1>2, LifetimeAssumption DEF ContextChanges, TypeOK
    <2>2. current' \in BOOLEAN
      BY <1>2 DEF ContextChanges
    <2>3. QED
      BY <1>2, <2>1, <2>2 DEF ContextChanges, TypeOK, row, local, ghosts
  <1>3. CASE UNCHANGED vars
    BY <1>3 DEF vars, TypeOK, row, local, ghosts
  <1>4. QED
    BY <1>1, <1>2, <1>3, ApproveType, StartType, CancelType DEF Next

LEMMA TypeInit ==
  Init => TypeOK
  BY LifetimeAssumption
     DEF Init, TypeOK, ConsentStates, SessionStatus, NoChallenge, NoNonce,
         Challenges, Clock, Labels

-----------------------------------------------------------------------------
(* The control invariants *)

LEMMA CancelMovedStep ==
  ASSUME TypeOK, CancelMoved, [Next]_vars
  PROVE  CancelMoved'
  <1> SUFFICES ASSUME NEW u \in CancelCmds, pc'[u] \in {"unstarted", "finish"}
               PROVE  state' \in Terminal
    BY DEF CancelMoved
  <1>0. u \in Threads
    BY CommandFacts
  <1>1. [Gate!Next]_(Gate!vars)
    BY GateStep
  <1>2. CASE pc[u] \in {"unstarted", "finish"}
    BY <1>1, <1>2, TerminalStays DEF CancelMoved
  <1>3. CASE CancelInvalidate(u)
    <2>1. ~(state \in {"pending", "attested", "expired"} /\ ~Resettable)
      BY <1>0, <1>3, ReturnFacts DEF CancelInvalidate
    <2>2. QED
      BY <1>3, <2>1
         DEF CancelInvalidate, Invalidate, LapseTo, Terminal, TypeOK,
             ConsentStates
  <1>4. CASE pc[u] \notin {"unstarted", "finish"} /\ ~CancelInvalidate(u)
    <2>1. \A t \in ApproveCmds : ApproveSteps(t) => pc'[u] = pc[u]
      BY <1>0, CommandFacts
         DEF ApproveSteps, CreateBegin, CreateRevalidate, Issue, Accept,
             Decline, FinalizeTooLate, FinalizeRead, FinalizeRevalidate,
             Attest, Revalidate, Return, Goto, TypeOK
    <2>2. \A t \in StartCmds : StartSteps(t) => pc'[u] = pc[u]
      BY <1>0, CommandFacts
         DEF StartSteps, StartBegin, StartRead, StartRevalidate,
             StartDeadline, OpenSessionFails, Consume, Revalidate, Return,
             Goto, TypeOK
    <2>3. \A t \in CancelCmds \ {u} : CancelSteps(t) => pc'[u] = pc[u]
      BY <1>0, CommandFacts
         DEF CancelSteps, CancelBegin, CancelInvalidate, CancelUnstarted,
             CancelFinish, Return, Goto, TypeOK
    <2>4. CancelSteps(u) => pc'[u] \in {"idle", "revoke", "withdraw"}
      BY <1>0, <1>4
         DEF CancelSteps, CancelBegin, CancelUnstarted, CancelFinish, Return,
             Goto, TypeOK
    <2>5. ClockChanges \/ ContextChanges \/ UNCHANGED vars => pc' = pc
      BY DEF ClockChanges, ContextChanges, vars, local
    <2>6. QED BY <1>4, <2>1, <2>2, <2>3, <2>4, <2>5 DEF Next
  <1>5. QED BY <1>2, <1>3, <1>4

LEMMA StartedStep ==
  ASSUME TypeOK, CancelMoved, StartedOnce, [Next]_vars
  PROVE  StartedOnce'
  <1>1. CASE \E t \in StartCmds : Consume(t) /\ Consumable(t)
    <2>1. PICK t \in StartCmds : Consume(t) /\ Consumable(t)
      BY <1>1
    <2>2. started = {}
      BY <2>1 DEF Consumable, StartedOnce
    <2>3. QED BY <2>1, <2>2 DEF Consume, StartedOnce
  <1>2. CASE started' = started
    <2>1. state = "consumed" => state' = "consumed"
      BY GateStep, TerminalStays DEF Terminal
    <2>2. QED BY <1>2, <2>1 DEF StartedOnce
  <1>3. started' = started \/ \E t \in StartCmds : Consume(t) /\ Consumable(t)
    <2>1. \A t \in ApproveCmds : ApproveSteps(t) => started' = started
      BY DEF ApproveSteps, CreateBegin, CreateRevalidate, Issue, Accept,
             Decline, FinalizeTooLate, FinalizeRead, FinalizeRevalidate,
             Attest, Revalidate, ghosts
    <2>2. \A t \in StartCmds : StartSteps(t) =>
            started' = started \/ (Consume(t) /\ Consumable(t))
      BY DEF StartSteps, StartBegin, StartRead, StartRevalidate,
             StartDeadline, OpenSessionFails, Consume, Revalidate, ghosts
    <2>3. \A t \in CancelCmds : CancelSteps(t) => started' = started
      BY DEF CancelSteps, CancelBegin, CancelInvalidate, CancelUnstarted,
             CancelFinish, ghosts
    <2>4. ClockChanges \/ ContextChanges \/ UNCHANGED vars
            => started' = started
      BY DEF ClockChanges, ContextChanges, vars, ghosts
    <2>5. QED BY <2>1, <2>2, <2>3, <2>4 DEF Next
  <1>4. QED BY <1>1, <1>2, <1>3

-----------------------------------------------------------------------------
(* The theorems *)

GateInv == TypeOK /\ CancelMoved /\ StartedOnce

LEMMA GateInvariant == Spec => []GateInv
  <1>1. Init => GateInv
    BY TypeInit, CommandFacts DEF Init, GateInv, CancelMoved, StartedOnce
  <1>2. GateInv /\ [Next]_vars => GateInv'
    BY TypeStep, CancelMovedStep, StartedStep DEF GateInv
  <1>3. QED BY <1>1, <1>2, PTL DEF Spec

\* For every number of racing approve, start and cancel commands the consent
\* and the session move only along ConsentGate, which is what the coordinator's
\* model takes over from crates/persistence/src/execution.rs.
THEOREM GateRefinement == Spec => ImplementsGate
  <1>1. Init => Gate!Init
    BY DEF Init, Gate!Init
  <1>2. GateInv /\ [Next]_vars => [Gate!Next]_(Gate!vars)
    BY GateStep DEF GateInv
  <1>3. QED
    BY <1>1, <1>2, GateInvariant, PTL DEF Spec, ImplementsGate, Gate!Spec

\* At most one start command ever runs, and only on the consent it consumed
\* (consume_execution_consent), however many race.
THEOREM StartsOnce == Spec => []StartedOnce
  <1>1. GateInv => StartedOnce
    BY DEF GateInv
  <1>2. QED BY <1>1, GateInvariant, PTL

\* The consent row and the session row always agree, across the five
\* transactions that write both.
THEOREM TablesMatch == Spec => []SessionMatchesConsent
  <1>1. Init => SessionMatchesConsent
    BY DEF Init, SessionMatchesConsent
  <1>2. SessionMatchesConsent /\ [Gate!Next]_(Gate!vars)
          => SessionMatchesConsent'
    BY DEF SessionMatchesConsent, Gate!Next, Gate!Reopen, Gate!Attest,
           Gate!Lapse, Gate!Consume, Gate!Cancel, Gate!vars
  <1>3. GateInv /\ [Next]_vars => [Gate!Next]_(Gate!vars)
    BY GateStep DEF GateInv
  <1>4. QED BY <1>1, <1>2, <1>3, GateInvariant, PTL DEF Spec

\* No command under way revives a cancelled session.
THEOREM CancelledForGood == Spec => CancelIsFinal
  <1>1. GateInv /\ [Next]_vars
          => [status = "cancelled" => status' = "cancelled"]_vars
    <2>1. [Gate!Next]_(Gate!vars) =>
            (status = "cancelled" => status' = "cancelled")
      BY DEF Gate!Next, Gate!Reopen, Gate!Attest, Gate!Lapse, Gate!Consume,
             Gate!Cancel, Gate!vars
    <2>2. QED BY <2>1, GateStep DEF GateInv
  <1>2. QED BY <1>1, GateInvariant, PTL DEF Spec, CancelIsFinal

-----------------------------------------------------------------------------
(* What the user agreed to *)

Given == {"finalize", "vet", "attest"}

Shown == {"dialog"} \cup Given

\* The challenge an approve command shows was not answered yet, the one it
\* finalizes was accepted, and no two commands share a challenge.
Answers ==
  /\ \A n \in confirmed \cup declined : n <= asked
  /\ \A t \in ApproveCmds :
       /\ pc[t] \in Shown => held[t].nonce <= asked
       /\ pc[t] = "dialog" => held[t].nonce \notin confirmed \cup declined
       /\ pc[t] \in Given => held[t].nonce \in confirmed \ declined
  /\ \A t, u \in ApproveCmds :
       t # u /\ pc[t] \in Shown /\ pc[u] \in Shown
         => held[t].nonce # held[u].nonce

GivenInv == Answers /\ ConsentWasGiven

\* A step that answers and issues nothing keeps the answers.
LEMMA AnswersKept ==
  ASSUME Answers, UNCHANGED <<asked, confirmed, declined>>,
         \A u \in ApproveCmds : pc'[u] \in Shown =>
           /\ held'[u] = held[u]
           /\ pc[u] \in Shown
           /\ pc'[u] = "dialog" => pc[u] = "dialog"
           /\ pc'[u] \in Given => pc[u] \in Given
  PROVE  Answers'
  BY DEF Answers, Shown, Given

\* And one that neither attests nor replaces a challenge keeps them and the consent.
LEMMA GivenKept ==
  ASSUME GivenInv, UNCHANGED <<asked, confirmed, declined>>,
         \A u \in ApproveCmds : pc'[u] \in Shown =>
           /\ held'[u] = held[u]
           /\ pc[u] \in Shown
           /\ pc'[u] = "dialog" => pc[u] = "dialog"
           /\ pc'[u] \in Given => pc[u] \in Given,
         stored' = stored,
         state' \in {"attested", "consumed"} => state \in {"attested", "consumed"}
  PROVE  GivenInv'
  BY AnswersKept DEF GivenInv, ConsentWasGiven

LEMMA RevalidateGiven ==
  ASSUME TypeOK, GivenInv, NEW t \in Threads, NEW label \in Labels,
         Revalidate(t, label),
         t \in ApproveCmds /\ label \in Shown =>
           pc[t] \in Given /\ label \in Given
  PROVE  GivenInv'
  <1>1. UNCHANGED <<asked, confirmed, declined>>
    BY DEF Revalidate, ghosts
  <1>2. CASE current
    <2>1. Goto(t, label) /\ UNCHANGED <<row, held>>
      BY <1>2 DEF Revalidate
    <2>2. stored' = stored /\ state' = state /\ held' = held
      BY <2>1 DEF row
    <2>3. QED
      BY <1>1, <2>1, <2>2, GotoFacts, GivenKept, CommandFacts DEF Shown, Given
  <1>3. CASE ~current
    <2>1. Invalidate /\ Return(t)
      BY <1>3 DEF Revalidate
    <2>2. /\ stored' = stored
          /\ state' \in {"attested", "consumed"} =>
               state \in {"attested", "consumed"}
      BY <2>1 DEF Invalidate, LapseTo
    <2>3. QED
      BY <1>1, <2>1, <2>2, ReturnFacts, GivenKept, CommandFacts
         DEF Shown, Given
  <1>4. QED BY <1>2, <1>3

LEMMA ApproveGiven ==
  ASSUME TypeOK, GivenInv, NEW t \in ApproveCmds, ApproveSteps(t)
  PROVE  GivenInv'
  <1>0. t \in Threads
    BY CommandFacts
  <1>l. {"create", "issue", "dialog", "finalize", "vet", "attest"}
          \subseteq Labels
    BY DEF Labels
  <1>n. asked \in Nat /\ \A u \in ApproveCmds : held[u].nonce \in Nat
    BY CommandFacts DEF TypeOK, Challenges
  <1>1. CASE CreateBegin(t)
    BY <1>0, <1>1, <1>l, GotoFacts, GivenKept, CommandFacts
       DEF CreateBegin, ghosts, row, Shown, Given
  <1>2. CASE CreateRevalidate(t) \/ FinalizeRevalidate(t)
    BY <1>0, <1>2, <1>l, RevalidateGiven
       DEF CreateRevalidate, FinalizeRevalidate, Shown, Given
  <1>3. CASE Issue(t)
    <2>1. CASE state \in {"pending", "expired"}
               /\ status = "awaiting_confirmation"
      <3>1. PICK challenge :
              /\ challenge.nonce = asked + 1
              /\ state' = "pending" /\ asked' = asked + 1
              /\ held' = [held EXCEPT ![t] = challenge]
              /\ Goto(t, "dialog")
        BY <1>3, <2>1 DEF Issue
      <3>2. /\ pc'[t] = "dialog" /\ held'[t].nonce = asked + 1
            /\ \A u \in ApproveCmds \ {t} :
                 pc'[u] = pc[u] /\ held'[u] = held[u]
        BY <1>0, <1>l, <3>1, GotoFacts, CommandFacts DEF TypeOK
      <3>3. UNCHANGED <<confirmed, declined>>
        BY <1>3 DEF Issue
      <3>a. \A n \in confirmed \cup declined : n \in Nat /\ n <= asked
        BY DEF GivenInv, Answers, TypeOK
      <3>b. \A u \in ApproveCmds \ {t} :
              /\ pc'[u] \in Shown => /\ held'[u].nonce <= asked'
                                     /\ held'[u].nonce # held'[t].nonce
              /\ pc'[u] = "dialog" =>
                   held'[u].nonce \notin confirmed' \cup declined'
              /\ pc'[u] \in Given => held'[u].nonce \in confirmed' \ declined'
        BY <1>n, <3>1, <3>2, <3>3 DEF GivenInv, Answers
      <3>c. /\ held'[t].nonce <= asked'
            /\ held'[t].nonce \notin confirmed' \cup declined'
        BY <1>n, <3>1, <3>2, <3>3, <3>a
      <3>d. \A n \in confirmed' \cup declined' : n <= asked'
        BY <1>n, <3>1, <3>3, <3>a
      <3>e. \A u, v \in ApproveCmds :
              u # v /\ pc'[u] \in Shown /\ pc'[v] \in Shown
                => held'[u].nonce # held'[v].nonce
        BY <3>2, <3>b DEF GivenInv, Answers
      <3>4. Answers'
        BY <3>2, <3>b, <3>c, <3>d, <3>e DEF Answers, Given
      <3>5. QED BY <3>1, <3>4 DEF GivenInv, ConsentWasGiven
    <2>2. CASE ~(state \in {"pending", "expired"}
                 /\ status = "awaiting_confirmation")
      BY <1>0, <1>3, <2>2, ReturnFacts, GivenKept, CommandFacts
         DEF Issue, row, Shown, Given
    <2>3. QED BY <2>1, <2>2
  <1>4. CASE Accept(t)
    <2>1. /\ pc[t] = "dialog" /\ confirmed' = confirmed \cup {held[t].nonce}
          /\ UNCHANGED <<held, asked, declined, state, stored>>
          /\ Goto(t, "finalize")
      BY <1>4 DEF Accept, row
    <2>2. /\ pc'[t] = "finalize"
          /\ \A u \in ApproveCmds \ {t} : pc'[u] = pc[u]
      BY <1>0, <1>l, <2>1, GotoFacts, CommandFacts
    <2>3. Answers'
      BY <2>1, <2>2 DEF GivenInv, Answers, Shown, Given
    <2>4. ConsentWasGiven'
      BY <2>1 DEF GivenInv, ConsentWasGiven
    <2>5. QED BY <2>3, <2>4 DEF GivenInv
  <1>5. CASE Decline(t)
    <2>1. /\ pc[t] = "dialog" /\ declined' = declined \cup {held[t].nonce}
          /\ UNCHANGED <<asked, confirmed, state, stored>>
      BY <1>5 DEF Decline, row
    <2>2. /\ pc'[t] = "idle"
          /\ \A u \in ApproveCmds \ {t} : pc'[u] = pc[u] /\ held'[u] = held[u]
      BY <1>0, <1>5, ReturnFacts, CommandFacts DEF Decline
    <2>3. Answers'
      BY <2>1, <2>2 DEF GivenInv, Answers, Shown, Given
    <2>4. ConsentWasGiven'
      BY <2>1 DEF GivenInv, Answers, ConsentWasGiven
    <2>5. QED BY <2>3, <2>4 DEF GivenInv
  <1>6. CASE FinalizeTooLate(t)
    <2>1. /\ stored' = stored
          /\ state' \in {"attested", "consumed"} =>
               state \in {"attested", "consumed"}
      BY <1>6 DEF FinalizeTooLate, Expire, LapseTo
    <2>2. QED
      BY <1>0, <1>6, <2>1, ReturnFacts, GivenKept, CommandFacts
         DEF FinalizeTooLate, ghosts, Shown, Given
  <1>7. CASE FinalizeRead(t)
    <2>1. pc[t] = "finalize" /\ UNCHANGED <<asked, confirmed, declined, state,
                                            stored>>
      BY <1>7 DEF FinalizeRead, row, ghosts
    <2>2. CASE Return(t)
      BY <1>0, <2>1, <2>2, ReturnFacts, GivenKept, CommandFacts
         DEF Shown, Given
    <2>3. CASE Goto(t, "vet") /\ held' = held
      BY <1>0, <1>l, <2>1, <2>3, GotoFacts, GivenKept, CommandFacts
         DEF Shown, Given
    <2>4. QED BY <1>7, <2>2, <2>3 DEF FinalizeRead
  <1>8. CASE Attest(t)
    <2>1. pc[t] = "attest" /\ UNCHANGED <<asked, confirmed, declined, stored>>
      BY <1>8 DEF Attest, ghosts
    <2>2. Answers'
      BY <1>0, <1>8, <2>1, ReturnFacts, AnswersKept, CommandFacts
         DEF Attest, Shown, Given, GivenInv
    <2>3. ConsentWasGiven'
      BY <1>8, <2>1
         DEF Attest, Attestable, GivenInv, Answers, ConsentWasGiven, Given
    <2>4. QED BY <2>2, <2>3 DEF GivenInv
  <1>9. QED
    BY <1>1, <1>2, <1>3, <1>4, <1>5, <1>6, <1>7, <1>8 DEF ApproveSteps

LEMMA OtherGiven ==
  ASSUME TypeOK, GivenInv,
         \/ \E t \in StartCmds : StartSteps(t)
         \/ \E t \in CancelCmds : CancelSteps(t)
         \/ ClockChanges \/ ContextChanges \/ UNCHANGED vars
  PROVE  GivenInv'
  <1>1. UNCHANGED <<asked, confirmed, declined>>
    BY DEF StartSteps, StartBegin, StartRead, StartRevalidate, StartDeadline,
           OpenSessionFails, Consume, CancelSteps, CancelBegin, CancelInvalidate,
           CancelUnstarted, CancelFinish, Revalidate, ClockChanges,
           ContextChanges, vars, ghosts
  <1>2. /\ stored' = stored
        /\ state' \in {"attested", "consumed"} =>
             state \in {"attested", "consumed"}
    BY DEF StartSteps, StartBegin, StartRead, StartRevalidate, StartDeadline,
           OpenSessionFails, Consume, Consumable, CancelSteps, CancelBegin, CancelInvalidate,
           CancelUnstarted, CancelFinish, Revalidate, Invalidate, Expire,
           LapseTo, ClockChanges, ContextChanges, vars, row
  <1>3. \A u \in ApproveCmds : pc'[u] = pc[u] /\ held'[u] = held[u]
    BY CommandFacts
       DEF StartSteps, StartBegin, StartRead, StartRevalidate, StartDeadline,
           OpenSessionFails, Consume, CancelSteps, CancelBegin, CancelInvalidate,
           CancelUnstarted, CancelFinish, Revalidate, Return, Goto,
           ClockChanges, ContextChanges, vars, local, TypeOK
  <1>4. QED BY <1>1, <1>2, <1>3, GivenKept

\* Only a challenge the user accepted is attested or consumed, for any number
\* of dialogs open at once (attest_execution_consent compares the nonce).
THEOREM OnlyGivenConsent == Spec => []ConsentWasGiven
  <1>1. Init => TypeOK /\ GivenInv
    <2>1. Init => GivenInv
      BY CommandFacts
         DEF Init, GivenInv, Answers, ConsentWasGiven, Shown, Given
    <2>2. QED BY <2>1, TypeInit
  <1>2. TypeOK /\ GivenInv /\ [Next]_vars => (TypeOK /\ GivenInv)'
    BY TypeStep, ApproveGiven, OtherGiven DEF Next
  <1>3. TypeOK /\ GivenInv => ConsentWasGiven
    BY DEF GivenInv
  <1>4. QED BY <1>1, <1>2, <1>3, PTL DEF Spec

=============================================================================
