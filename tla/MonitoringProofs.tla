-------------------------- MODULE MonitoringProofs ---------------------------
(***************************************************************************)
(* Proofs about the monitoring of a folder: the lease of a job             *)
(* (MonitoringLease) for any number of processes, any lease and any        *)
(* bounds, the automatic mode (AutomaticMode), and the catalogue that the  *)
(* scans of MCMonitoring fill (Scans, Watched and Consumer, whose lemmas   *)
(* are in CatalogueProofs). The inductive invariant of the lease says what *)
(* the fence rests on: the token of a holder was given to nobody else, and *)
(* the holder whose token is in a processing row has seen every event.     *)
(* That of the automatic mode says that the registry names exactly the     *)
(* cycle that runs, and that a proposal the loop decided about is still    *)
(* there.                                                                  *)
(***************************************************************************)
EXTENDS MCMonitoring, TLAPS, SequenceTheorems, FiniteSetTheorems

-----------------------------------------------------------------------------
(* The lease *)

Working(h) == pc[h] = "working"

TokensFresh ==
  /\ token <= claims
  /\ \A h \in Holders : Working(h) => held[h].tok <= claims /\ held[h].tok # NoToken

TokensDistinct ==
  \A g, h \in Holders : Working(g) /\ Working(h) /\ held[g].tok = held[h].tok => g = h

\* The owner of the row has seen every event.
OwnerIsCurrent ==
  \A h \in Holders : Working(h) /\ Owns(h) => held[h].seen = events

IInv ==
  /\ TypeOK /\ TokensFresh /\ TokensDistinct /\ OwnerIsCurrent
  /\ EndedCoversEvents /\ AttemptsLeft

LEMMA InitHolds == Init => IInv
BY LeaseAssumption DEF Init, IInv, TypeOK, TokensFresh, TokensDistinct, OwnerIsCurrent, Working,
   Owns, EndedCoversEvents, AttemptsLeft, Active, Ended, Idle, NoToken, Never

\* A retry keeps what the row promises, whoever makes it.
LEMMA RetryHolds ==
  ASSUME IInv, NEW next \in {"waiting", "pending"}, Retry(next), status = "processing",
         UNCHANGED <<events, claims, now, at>>
  PROVE  /\ status' \in Active \cup Ended /\ token' = NoToken /\ lease' = Never
         /\ attempts' \in 0..MaxAttempts /\ settled' \in Nat /\ status' # "processing"
         /\ EndedCoversEvents' /\ AttemptsLeft'
BY LeaseAssumption
   DEF IInv, TypeOK, Retry, Unclaimed, EndedCoversEvents, AttemptsLeft, Active, Ended, NoToken, Never

\* A holder that leaves keeps what the others have.
LEMMA LeavesHolds ==
  ASSUME IInv, NEW h \in Holders, NEW to \in {"idle", "recover", "down"}, Leaves(h, to),
         UNCHANGED <<claims, events>>,
         status' = "processing" => (status = "processing" /\ token' = token),
         token' \in {token, NoToken}
  PROVE  /\ pc' \in [Holders -> {"idle", "listed", "working", "recover", "down"}]
         /\ held' \in [Holders -> [tok : Nat, seen : Nat]]
         /\ TokensFresh' /\ TokensDistinct' /\ OwnerIsCurrent'
<1>1. \A g \in Holders : Working(g)' => g # h /\ Working(g) /\ held'[g] = held[g]
  BY DEF IInv, TypeOK, Leaves, Working
<1>2. /\ pc' \in [Holders -> {"idle", "listed", "working", "recover", "down"}]
      /\ held' \in [Holders -> [tok : Nat, seen : Nat]]
  BY DEF IInv, TypeOK, Leaves, Idle, NoToken
<1>3. TokensFresh'
  BY <1>1 DEF IInv, TypeOK, TokensFresh, NoToken
<1>4. TokensDistinct'
  BY <1>1 DEF IInv, TokensDistinct
<1>5. OwnerIsCurrent'
  BY <1>1 DEF IInv, OwnerIsCurrent, Owns
<1> QED BY <1>2, <1>3, <1>4, <1>5

LEMMA ClaimHolds == ASSUME IInv, NEW h \in Holders, Claim(h) PROVE IInv'
<1>1. CASE Due(at[h])
  <2>1. /\ claims' = claims + 1 /\ status' = "processing" /\ token' = claims + 1
        /\ lease' = at[h] + Lease /\ held' = [held EXCEPT ![h] = [tok |-> claims + 1, seen |-> events]]
        /\ pc' = [pc EXCEPT ![h] = "working"] /\ UNCHANGED <<attempts, settled, events, now, at>>
    BY <1>1 DEF Claim
  <2>2. TypeOK'
    BY <2>1, LeaseAssumption DEF IInv, TypeOK, Active
  <2>3. \A g \in Holders : Working(g)' /\ g # h => Working(g) /\ held'[g] = held[g]
    BY <2>1 DEF IInv, TypeOK, Working
  <2>4. held'[h].tok = claims + 1 /\ held'[h].seen = events
    BY <2>1 DEF IInv, TypeOK
  <2>5. TokensFresh'
    BY <2>1, <2>3, <2>4 DEF IInv, TypeOK, TokensFresh, NoToken
  <2>6. TokensDistinct'
    BY <2>1, <2>3, <2>4 DEF IInv, TypeOK, TokensDistinct, TokensFresh
  <2>7. OwnerIsCurrent'
    BY <2>1, <2>3, <2>4 DEF IInv, TypeOK, OwnerIsCurrent, Owns, TokensFresh
  <2>8. EndedCoversEvents' /\ AttemptsLeft'
    BY <1>1, <2>1 DEF IInv, EndedCoversEvents, AttemptsLeft, Ended, Due, Active
  <2> QED BY <2>2, <2>5, <2>6, <2>7, <2>8 DEF IInv
<1>2. CASE ~ Due(at[h])
  <2>1. /\ pc' = [pc EXCEPT ![h] = "idle"]
        /\ UNCHANGED <<row, claims, held, events, now, at>>
    BY <1>2 DEF Claim, row
  <2>2. \A g \in Holders : Working(g)' => Working(g)
    BY <2>1 DEF IInv, TypeOK, Working
  <2> QED
    BY <2>1, <2>2 DEF IInv, TypeOK, TokensFresh, TokensDistinct, OwnerIsCurrent, Owns,
       EndedCoversEvents, AttemptsLeft, row
<1> QED BY <1>1, <1>2

LEMMA WorkHolds == ASSUME IInv, NEW h \in Holders, Work(h) PROVE IInv'
<1>1. CASE Renew(h)
  <2>1. CASE Owns(h)
    BY <1>1, <2>1, LeaseAssumption DEF Renew, IInv, TypeOK, TokensFresh, TokensDistinct, OwnerIsCurrent,
       Owns, Working, EndedCoversEvents, AttemptsLeft
  <2>2. CASE ~ Owns(h)
    <3>1. Leaves(h, "recover") /\ UNCHANGED <<row, events, claims, now, at>>
      BY <1>1, <2>2 DEF Renew, row
    <3> QED BY <3>1, LeavesHolds DEF IInv, TypeOK, EndedCoversEvents, AttemptsLeft, row
  <2> QED BY <2>1, <2>2
<1>2. CASE Sample(h) \/ CancelRequeue(h)
  <2>1. CASE Owns(h)
    <3>1. /\ status' = "waiting" /\ Unclaimed /\ Leaves(h, "idle")
          /\ UNCHANGED <<attempts, settled, events, claims, now, at>>
      BY <1>2, <2>1 DEF Sample, CancelRequeue
    <3>2. TokensFresh' /\ TokensDistinct' /\ OwnerIsCurrent'
      BY <3>1, LeavesHolds DEF Unclaimed
    <3>3. TypeOK'
      BY <3>1, LeavesHolds DEF IInv, TypeOK, Unclaimed, Active, NoToken, Never
    <3> QED BY <2>1, <3>1, <3>2, <3>3 DEF IInv, EndedCoversEvents, AttemptsLeft, Active, Ended, Owns
  <2>2. CASE ~ Owns(h)
    <3>1. /\ \E to \in {"recover", "idle"} : Leaves(h, to)
          /\ UNCHANGED <<row, events, claims, now, at>>
      BY <1>2, <2>2 DEF Sample, CancelRequeue, row
    <3> QED BY <3>1, LeavesHolds DEF IInv, TypeOK, EndedCoversEvents, AttemptsLeft, row
  <2> QED BY <2>1, <2>2
<1>3. CASE Reschedule(h)
  <2>1. CASE Owns(h)
    <3>1. Retry("waiting") /\ Leaves(h, "idle") /\ status = "processing"
          /\ UNCHANGED <<events, claims, now, at>>
      BY <1>3, <2>1 DEF Reschedule, Owns
    <3>2. /\ status' \in Active \cup Ended /\ token' = NoToken /\ lease' = Never
          /\ attempts' \in 0..MaxAttempts /\ settled' \in Nat /\ status' # "processing"
          /\ EndedCoversEvents' /\ AttemptsLeft'
      BY <3>1, RetryHolds
    <3> QED BY <3>1, <3>2, LeavesHolds DEF IInv, TypeOK, NoToken, Never
  <2>2. CASE ~ Owns(h)
    <3>1. Leaves(h, "recover") /\ UNCHANGED <<row, events, claims, now, at>>
      BY <1>3, <2>2 DEF Reschedule
    <3> QED BY <3>1, LeavesHolds DEF IInv, TypeOK, EndedCoversEvents, AttemptsLeft, row
  <2> QED BY <2>1, <2>2
<1>4. ASSUME NEW outcome \in {"completed", "review", "excluded"}, Finish(h, outcome) PROVE IInv'
  <2>1. CASE Owns(h)
    <3>1. /\ status' = outcome /\ Unclaimed /\ settled' = held[h].seen /\ Leaves(h, "idle")
          /\ Working(h) /\ UNCHANGED <<attempts, events, claims, now, at>>
      BY <1>4, <2>1 DEF Finish, Working
    <3>2. settled' = events
      BY <2>1, <3>1 DEF IInv, OwnerIsCurrent
    <3>3. TokensFresh' /\ TokensDistinct' /\ OwnerIsCurrent'
      BY <3>1, LeavesHolds DEF Unclaimed
    <3>4. TypeOK'
      BY <3>1, <3>2, LeavesHolds DEF IInv, TypeOK, Unclaimed, Ended, NoToken, Never
    <3> QED BY <3>1, <3>2, <3>3, <3>4 DEF IInv, EndedCoversEvents, AttemptsLeft, Active
  <2>2. CASE ~ Owns(h)
    <3>1. Leaves(h, "idle") /\ UNCHANGED <<row, events, claims, now, at>>
      BY <1>4, <2>2 DEF Finish, row
    <3> QED BY <3>1, LeavesHolds DEF IInv, TypeOK, EndedCoversEvents, AttemptsLeft, row
  <2> QED BY <2>1, <2>2
<1> QED BY <1>1, <1>2, <1>3, <1>4 DEF Work

LEMMA RecoverHolds == ASSUME IInv, NEW h \in Holders, Recover(h) \/ Launch(h) PROVE IInv'
<1>1. /\ pc' = [pc EXCEPT ![h] = "idle"] /\ UNCHANGED <<events, claims, now, at, held>>
      /\ IF status = "processing" THEN \E next \in {"waiting", "pending"} : Retry(next)
                                  ELSE UNCHANGED row
  BY DEF Recover, Launch
<1>2. \A g \in Holders : Working(g)' => Working(g)
  BY <1>1 DEF IInv, TypeOK, Working
<1>3. CASE status = "processing"
  <2>1. /\ status' \in Active \cup Ended /\ token' = NoToken /\ lease' = Never
        /\ attempts' \in 0..MaxAttempts /\ settled' \in Nat /\ status' # "processing"
        /\ EndedCoversEvents' /\ AttemptsLeft'
    BY <1>1, <1>3, RetryHolds
  <2> QED BY <1>1, <1>2, <2>1 DEF IInv, TypeOK, TokensFresh, TokensDistinct, OwnerIsCurrent, Owns,
             NoToken, Never
<1>4. CASE status # "processing"
  BY <1>1, <1>2, <1>4 DEF IInv, TypeOK, TokensFresh, TokensDistinct, OwnerIsCurrent, Owns,
     EndedCoversEvents, AttemptsLeft, row
<1> QED BY <1>3, <1>4

LEMMA NextHolds == IInv /\ [Next]_vars => IInv'
<1> SUFFICES ASSUME IInv, [Next]_vars PROVE IInv'
  OBVIOUS
<1>1. CASE Tick
  BY <1>1 DEF Tick, IInv, TypeOK, TokensFresh, TokensDistinct, OwnerIsCurrent, Owns, Working,
     EndedCoversEvents, AttemptsLeft, row
<1>2. CASE AppendEvent
  BY <1>2, LeaseAssumption DEF AppendEvent, IInv, TypeOK, TokensFresh, TokensDistinct, OwnerIsCurrent, Owns,
     Working, EndedCoversEvents, AttemptsLeft, Active, Ended, NoToken, Never
<1>3. ASSUME NEW h \in Holders, ListDue(h) PROVE IInv'
  <2>1. \A g \in Holders : Working(g)' => Working(g)
    BY <1>3 DEF ListDue, IInv, TypeOK, Working
  <2> QED BY <1>3, <2>1 DEF ListDue, IInv, TypeOK, TokensFresh, TokensDistinct, OwnerIsCurrent, Owns,
             EndedCoversEvents, AttemptsLeft, row
<1>4. ASSUME NEW h \in Holders, Claim(h) PROVE IInv'
  BY <1>4, ClaimHolds
<1>5. ASSUME NEW h \in Holders, Work(h) PROVE IInv'
  BY <1>5, WorkHolds
<1>6. ASSUME NEW h \in Holders, Recover(h) \/ Launch(h) PROVE IInv'
  BY <1>6, RecoverHolds
<1>7. ASSUME NEW h \in Holders, Fail(h) PROVE IInv'
  BY <1>7, LeavesHolds DEF Fail, IInv, TypeOK, EndedCoversEvents, AttemptsLeft, row
<1>8. CASE UNCHANGED vars
  BY <1>8 DEF vars, row, IInv, TypeOK, TokensFresh, TokensDistinct, OwnerIsCurrent, Owns, Working,
     EndedCoversEvents, AttemptsLeft
<1> QED BY <1>1, <1>2, <1>3, <1>4, <1>5, <1>6, <1>7, <1>8 DEF Next

\* The inductive invariant holds in every reachable state.
THEOREM LeaseInvariant == Spec => []IInv
BY InitHolds, NextHolds, PTL DEF Spec

\* Every variable keeps its type.
THEOREM TypeCorrect == Spec => []TypeOK
<1>1. IInv => TypeOK
  BY DEF IInv
<1> QED BY <1>1, LeaseInvariant, PTL

\* Every job that ended was ended for all of its events, by a holder that saw
\* them or by the last of its attempts (finish_monitoring_job's fence).
THEOREM EndedCovers == Spec => []EndedCoversEvents
<1>1. IInv => EndedCoversEvents
  BY DEF IInv
<1> QED BY <1>1, LeaseInvariant, PTL

\* Two processes never own the claimed job together.
THEOREM SingleOwner == Spec => []OneOwner
<1>1. IInv => OneOwner
  BY DEF IInv, OneOwner, TokensDistinct, Owns, Working
<1> QED BY <1>1, LeaseInvariant, PTL

\* A queued job has attempts left.
THEOREM Attempts == Spec => []AttemptsLeft
<1>1. IInv => AttemptsLeft
  BY DEF IInv
<1> QED BY <1>1, LeaseInvariant, PTL

\* Settling is all or nothing: the lease protocol implements EventLedger.
THEOREM Refines == Spec => ImplementsLedger
<1>1. Init => Ledger!Init
  BY DEF Init, Ledger!Init
<1>2. ASSUME IInv, [Next]_vars PROVE [Ledger!Next]_<<events, settled>>
  <2>1. CASE AppendEvent
    BY <2>1 DEF AppendEvent, Ledger!Next, Ledger!Record
  <2>2. ASSUME NEW h \in Holders, ListDue(h) \/ Claim(h) \/ Fail(h) PROVE UNCHANGED <<events, settled>>
    BY <2>2 DEF ListDue, Claim, Fail, row
  <2>3. ASSUME NEW h \in Holders, Work(h) PROVE [Ledger!Next]_<<events, settled>>
    <3>1. CASE Renew(h) \/ Sample(h) \/ CancelRequeue(h)
      BY <3>1 DEF Renew, Sample, CancelRequeue
    <3>2. CASE Reschedule(h)
      BY <3>2 DEF Reschedule, Retry, row, Ledger!Next, Ledger!SettleAll
    <3>3. ASSUME NEW outcome \in {"completed", "review", "excluded"}, Finish(h, outcome)
          PROVE [Ledger!Next]_<<events, settled>>
      BY <1>2, <3>3 DEF Finish, IInv, OwnerIsCurrent, Working, Ledger!Next, Ledger!SettleAll
    <3> QED BY <2>3, <3>1, <3>2, <3>3 DEF Work
  <2>4. ASSUME NEW h \in Holders, Recover(h) \/ Launch(h) PROVE [Ledger!Next]_<<events, settled>>
    BY <2>4 DEF Recover, Launch, Retry, row, Ledger!Next, Ledger!SettleAll
  <2>5. CASE Tick \/ UNCHANGED vars
    BY <2>5 DEF Tick, vars, row
  <2> QED BY <1>2, <2>1, <2>2, <2>3, <2>4, <2>5 DEF Next
<1> QED BY <1>1, <1>2, LeaseInvariant, PTL DEF Spec, ImplementsLedger, Ledger!Spec

-----------------------------------------------------------------------------
(* The automatic mode.  The instance has a Cardinality of its own: it is the *)
(* same operator.                                                            *)

LEMMA SameCardinality == ASSUME NEW S PROVE Automatic!Cardinality(S) = Cardinality(S)
BY DEF Automatic!Cardinality, Cardinality

LoopSteps == {"idle", "cycle", "decide", "gate", "approve", "prepare", "start",
              "done"}

\* The settings, the jobs and the proposals are what they should be.
Settings ==
  /\ mode \in {"prudent", "automatic"}
  /\ autoPaused \in BOOLEAN /\ startup \in BOOLEAN /\ dialog \in BOOLEAN
  /\ cancelled \in BOOLEAN /\ unclean \in BOOLEAN /\ gate \in BOOLEAN
  /\ switches \in 0..MaxSwitches

\* A job given up was one that arrived.
Jobs ==
  /\ autoJobs \in Seq(0..MaxAttempts) /\ arrived \in 0..MaxJobs /\ failed \in Nat
  /\ failed + Len(autoJobs) <= arrived

\* One proposal is current.
OneCurrent ==
  /\ props \in [Automatic!Ids -> Automatic!Proposal \cup {Nil}]
  /\ \A i, j \in Automatic!Active : i = j

\* The loop decides about a proposal there is.
Loop ==
  /\ loop \in [pc : LoopSteps, before : Automatic!Ids \cup {0}, startup : BOOLEAN,
               id : Automatic!Ids \cup {0}, rev : 0..MaxRevision]
  /\ loop.pc \in {"gate", "approve", "prepare", "start"} =>
       loop.id \in Automatic!Known

\* The entry of the registry is held, by one, exactly while a cycle runs.
Registered ==
  /\ holders \subseteq {"loop", "command"} /\ autoCmd \in {"idle", "cycle"}
  /\ "loop" \in holders <=> loop.pc # "idle"
  /\ "command" \in holders <=> autoCmd # "idle"
  /\ ~("loop" \in holders /\ "command" \in holders)

\* What was executed was executed with the gate open.
Executed ==
  /\ applied \subseteq [id : Automatic!Ids, rev : 1..MaxRevision,
                        mode : {"prudent", "automatic"},
                       gate : BOOLEAN, eligible : BOOLEAN]
  /\ Automatic!FailsClosed

AutomaticInv == Settings /\ Jobs /\ OneCurrent /\ Loop /\ Registered /\ Executed

\* latest_organization_proposal is a current one.
LEMMA LatestIsActive ==
  ASSUME OneCurrent, Automatic!Latest # 0
  PROVE  Automatic!Latest \in Automatic!Active /\ Automatic!Latest \in Automatic!Ids
           /\ props[Automatic!Latest] \in Automatic!Proposal
  <1>1. Automatic!Active # {}
          /\ Automatic!Latest = (CHOOSE i \in Automatic!Active : TRUE)
    BY DEF Automatic!Latest
  <1>2. Automatic!Latest \in Automatic!Active BY <1>1
  <1> QED BY <1>2 DEF Automatic!Active, Automatic!Known, OneCurrent

LEMMA LatestIsId ==
  ASSUME OneCurrent
  PROVE  Automatic!Latest \in Automatic!Ids \cup {0}
BY LatestIsActive

\* A proposal that was there is still there.
ProposalsKept == OneCurrent' /\ Automatic!Known \subseteq Automatic!Known'

LEMMA NewKeeps ==
  ASSUME Automatic!AutomaticAssumption, OneCurrent, NEW trigger,
         Automatic!New(trigger)
  PROVE  ProposalsKept
  <1>1. PICK ok \in BOOLEAN :
          props' = [i \in Automatic!Ids |->
                     IF i = Cardinality(Automatic!Known) + 1
                     THEN [rev |-> 1, eligible |-> ok, status |-> "ready"]
                     ELSE IF i \in Automatic!Active
                     THEN [props[i] EXCEPT !.status = "superseded"] ELSE props[i]]
    BY SameCardinality DEF Automatic!New
  <1> DEFINE newest == Cardinality(Automatic!Known) + 1
             fresh == [rev |-> 1, eligible |-> ok, status |-> "ready"]
  <1>2. fresh \in Automatic!Proposal /\ fresh # Nil
    BY DEF Automatic!AutomaticAssumption, Automatic!Proposal
  <1>3. \A i \in Automatic!Active : i \in Automatic!Ids
          /\ props[i] \in Automatic!Proposal
    BY DEF Automatic!Active, Automatic!Known, OneCurrent
  <1>4. \A i \in Automatic!Active :
          /\ [props[i] EXCEPT !.status = "superseded"] \in Automatic!Proposal
                          /\ [props[i] EXCEPT !.status = "superseded"].status
                               = "superseded"
    BY <1>3 DEF Automatic!Proposal
  <1> HIDE DEF newest, fresh
  <1>5. \A i \in Automatic!Ids :
          props'[i] = IF i = newest THEN fresh
                      ELSE IF i
                        \in Automatic!Active THEN [props[i] EXCEPT !.status
                          = "superseded"] ELSE props[i]
    BY <1>1 DEF newest, fresh
  <1>6. props' \in [Automatic!Ids -> Automatic!Proposal \cup {Nil}]
    <2>1. \A i \in Automatic!Ids : props'[i] \in Automatic!Proposal \cup {Nil}
      BY <1>2, <1>4, <1>5 DEF OneCurrent
    <2>2. props' = [i \in Automatic!Ids |-> props'[i]] BY <1>1
    <2> QED BY <2>1, <2>2
  <1>7. \A i \in Automatic!Known : i \in Automatic!Known'
    <2> SUFFICES ASSUME NEW i \in Automatic!Known PROVE props'[i] # Nil
      BY DEF Automatic!Known
    <2>1. i \in Automatic!Ids /\ props[i] # Nil BY DEF Automatic!Known
    <2>2. CASE i = newest BY <1>2, <1>5, <2>1, <2>2
    <2>3. CASE i # newest /\ i \in Automatic!Active
      <3>1. props'[i] \in Automatic!Proposal BY <1>4, <1>5, <2>1, <2>3
      <3> QED BY <3>1 DEF Automatic!AutomaticAssumption
    <2>4. CASE i # newest /\ i \notin Automatic!Active BY <1>5, <2>1, <2>4
    <2> QED BY <2>2, <2>3, <2>4
  <1>8. \A i \in Automatic!Active' : i = newest
    <2> SUFFICES ASSUME NEW i \in Automatic!Ids, i # newest, props'[i] # Nil,
                        props'[i].status \in {"ready", "approved"}
                 PROVE  FALSE
      BY DEF Automatic!Active, Automatic!Known
    <2>1. CASE i \in Automatic!Active BY <1>4, <1>5, <2>1
    <2>2. CASE i \notin Automatic!Active
      BY <1>5, <2>2 DEF Automatic!Active, Automatic!Known
    <2> QED BY <2>1, <2>2
  <1> QED BY <1>6, <1>7, <1>8 DEF ProposalsKept, OneCurrent

\* A change of a current proposal that leaves it current.
LEMMA ChangeKeeps ==
  ASSUME Automatic!AutomaticAssumption, OneCurrent, NEW p \in Automatic!Known,
         NEW changed \in Automatic!Proposal,
         props' = [props EXCEPT ![p] = changed],
         changed.status \in {"ready", "approved"} => p \in Automatic!Active
  PROVE  ProposalsKept
  <1>1. p \in Automatic!Ids BY DEF Automatic!Known
  <1>2. props' \in [Automatic!Ids -> Automatic!Proposal \cup {Nil}]
    BY DEF OneCurrent
  <1>3. props'[p] = changed /\ changed # Nil
    BY <1>1 DEF OneCurrent, Automatic!AutomaticAssumption
  <1>4. \A i \in Automatic!Ids \ {p} : props'[i] = props[i] BY DEF OneCurrent
  <1>5. Automatic!Known \subseteq Automatic!Known' BY <1>3, <1>4 DEF Automatic!Known
  <1>6. Automatic!Active' \subseteq Automatic!Active
    BY <1>3, <1>4 DEF Automatic!Active, Automatic!Known
  <1> QED BY <1>2, <1>5, <1>6 DEF ProposalsKept, OneCurrent

LEMMA ReviseKeeps ==
  ASSUME Automatic!AutomaticAssumption, OneCurrent, Automatic!Revise
  PROVE  ProposalsKept
  <1>1. Automatic!Latest \in Automatic!Active
          /\ Automatic!Latest \in Automatic!Known
               /\ props[Automatic!Latest] \in Automatic!Proposal
    BY LatestIsActive DEF Automatic!Revise, Automatic!Active
  <1>2. PICK ok \in BOOLEAN :
          props' = [props EXCEPT ![Automatic!Latest] = [rev |-> @.rev + 1,
                                                        eligible |-> ok,
                                                        status |-> "ready"]]
    BY DEF Automatic!Revise
  <1> DEFINE revised == [rev |-> props[Automatic!Latest].rev + 1, eligible |-> ok,
                         status |-> "ready"]
  <1>3. revised \in Automatic!Proposal
    <2>1. props[Automatic!Latest].rev \in 1..MaxRevision
            /\ props[Automatic!Latest].rev < MaxRevision
      BY <1>1 DEF Automatic!Revise, Automatic!Proposal
    <2>2. props[Automatic!Latest].rev + 1 \in 1..MaxRevision
      BY <2>1 DEF Automatic!AutomaticAssumption
    <2> QED BY <2>2 DEF Automatic!Proposal
  <1>4. props' = [props EXCEPT ![Automatic!Latest] = revised] BY <1>2
  <1> HIDE DEF revised
  <1> QED BY <1>1, <1>3, <1>4, ChangeKeeps

\* What a cycle does to the jobs and the proposals.
CycleKept == startup' \in BOOLEAN /\ ProposalsKept /\ Jobs'

LEMMA SettledKeeps ==
  ASSUME Jobs, NEW n \in 0..Len(autoJobs), Automatic!Settled(n), UNCHANGED arrived
  PROVE  Jobs'
  <1> DEFINE J == 0..MaxAttempts
  <1>1. autoJobs' = SubSeq(autoJobs, n + 1, Len(autoJobs)) /\ failed' = failed
          /\ autoJobs \in Seq(J)
    BY DEF Automatic!Settled, Jobs
  <1> HIDE DEF J
  <1>2. Len(autoJobs) \in Nat /\ n + 1 \in Int
          /\ \A i \in n + 1 .. Len(autoJobs) : autoJobs[i] \in J
    BY <1>1
  <1>3. /\ SubSeq(autoJobs, n + 1, Len(autoJobs)) \in Seq(J)
        /\ Len(SubSeq(autoJobs, n + 1, Len(autoJobs))) =
             IF n + 1 <= Len(autoJobs) THEN Len(autoJobs) - (n + 1) + 1 ELSE 0
    BY <1>2, SubSeqProperties
  <1>4. autoJobs' \in Seq(J) /\ Len(autoJobs') <= Len(autoJobs)
          /\ Len(autoJobs') \in Nat
    BY <1>1, <1>2, <1>3
  <1>5. failed + Len(autoJobs') <= arrived BY <1>2, <1>4 DEF Jobs
  <1> QED BY <1>1, <1>4, <1>5 DEF Jobs, J

LEMMA AttemptedKeeps ==
  ASSUME Automatic!AutomaticAssumption, Jobs, autoJobs # <<>>, Automatic!Attempted,
         UNCHANGED arrived
  PROVE  Jobs'
  <1> DEFINE J == 0..MaxAttempts
  <1>1. autoJobs \in Seq(J) /\ Len(autoJobs) \in Nat \ {0} /\ autoJobs[1] \in J
    <2>1. autoJobs \in Seq(J) BY DEF Jobs
    <2> HIDE DEF J
    <2>2. Len(autoJobs) \in Nat \ {0} BY <2>1
    <2>3. autoJobs[1] \in J BY <2>1, <2>2
    <2> QED BY <2>1, <2>2, <2>3
  <1>2. CASE autoJobs[1] + 1 < MaxAttempts
    <2>1. autoJobs' = [autoJobs EXCEPT ![1] = @ + 1] /\ failed' = failed
      BY <1>2 DEF Automatic!Attempted
    <2>2. autoJobs[1] + 1 \in J /\ 1 \in 1..Len(autoJobs)
      BY SMTT(20), <1>1, <1>2 DEF Automatic!AutomaticAssumption
    <2> HIDE DEF J
    <2> DEFINE e == autoJobs[1] + 1
    <2>3. e \in J BY <2>2
    <2>4. autoJobs' = [autoJobs EXCEPT ![1] = e] BY <2>1
    <2> HIDE DEF e
    <2>5. autoJobs' \in Seq(J) /\ Len(autoJobs') = Len(autoJobs)
      BY <1>1, <2>2, <2>3, <2>4, ExceptSeq
    <2> QED BY <2>1, <2>5 DEF Jobs, J
  <1>3. CASE ~(autoJobs[1] + 1 < MaxAttempts)
    <2>1. autoJobs' = Tail(autoJobs) /\ failed' = failed + 1
      BY <1>3 DEF Automatic!Attempted
    <2> HIDE DEF J
    <2>2. autoJobs' \in Seq(J) /\ Len(autoJobs') = Len(autoJobs) - 1 BY <1>1, <2>1
    <2> QED BY <1>1, <2>1, <2>2 DEF Jobs, J
  <1> QED BY <1>2, <1>3

LEMMA CycleKeeps ==
  ASSUME Automatic!AutomaticAssumption, AutomaticInv, Automatic!Cycle,
         UNCHANGED arrived
  PROVE  CycleKept
  <1> USE DEF AutomaticInv
  <1>1. UNCHANGED props => ProposalsKept
    BY DEF ProposalsKept, OneCurrent, Automatic!Known, Automatic!Active
  <1>2. CASE autoPaused \/ cancelled
    BY <1>1, <1>2 DEF Automatic!Cycle, CycleKept, Settings, Jobs
  <1>3. CASE ~(autoPaused \/ cancelled) /\ autoJobs = <<>>
    BY <1>1, <1>3 DEF Automatic!Cycle, CycleKept, Jobs
  <1>4. CASE ~(autoPaused \/ cancelled) /\ autoJobs # <<>>
    <2>1. startup' = FALSE BY <1>4 DEF Automatic!Cycle
    <2>2. PICK removed \in BOOLEAN : Automatic!Batch(removed)
      BY <1>4 DEF Automatic!Cycle
    <2>3. Len(autoJobs) \in Nat \ {0} BY <1>4 DEF Jobs
    <2>4. CASE mode = "automatic" /\ ~removed
      <3>1. Automatic!Attempted /\ UNCHANGED props
        BY <2>2, <2>4 DEF Automatic!Batch, Automatic!New, Automatic!Accepted
      <3> QED BY <1>1, <1>4, <2>1, <3>1, AttemptedKeeps DEF CycleKept
    <2>5. CASE ~(mode = "automatic" /\ ~removed)
      <3>1. ProposalsKept BY <2>2, <2>5, ReviseKeeps, NewKeeps DEF Automatic!Batch
      <3>2. \E n \in {1, Len(autoJobs)} : Automatic!Settled(n)
        BY <2>2, <2>5 DEF Automatic!Batch
      <3>3. Jobs' BY <2>3, <3>2, SettledKeeps
      <3> QED BY <2>1, <3>1, <3>3 DEF CycleKept
    <2> QED BY <2>4, <2>5
  <1> QED BY <1>2, <1>3, <1>4

LEMMA AutomaticInit ==
  ASSUME Automatic!AutomaticAssumption, Automatic!Init
  PROVE  AutomaticInv
  <1>1. Automatic!Known = {} /\ Automatic!Active = {}
    BY DEF Automatic!Init, Automatic!Known, Automatic!Active
  <1>2. OneCurrent BY <1>1 DEF Automatic!Init, OneCurrent
  <1>3. Settings
    <2>1. MaxSwitches \in Nat BY DEF Automatic!AutomaticAssumption
    <2>2. switches \in 0..MaxSwitches BY <2>1 DEF Automatic!Init
    <2>3. /\ mode \in {"prudent", "automatic"}
          /\ autoPaused \in BOOLEAN /\ startup \in BOOLEAN /\ dialog \in BOOLEAN
          /\ cancelled \in BOOLEAN /\ unclean \in BOOLEAN /\ gate \in BOOLEAN
      BY Zenon DEF Automatic!Init
    <2> QED BY <2>2, <2>3, Zenon DEF Settings
  <1>6. Jobs
    <2>1. autoJobs = <<>> /\ arrived = 0 /\ failed = 0 BY DEF Automatic!Init
    <2>2. autoJobs \in Seq(0..MaxAttempts) /\ Len(autoJobs) = 0 BY <2>1
    <2> QED BY <2>1, <2>2 DEF Jobs, Automatic!AutomaticAssumption
  <1>4. Loop
    BY DEF Automatic!Init, Loop, Automatic!Idle, LoopSteps,
           Automatic!AutomaticAssumption
  <1>5. Registered /\ Executed
    BY DEF Automatic!Init, Registered, Executed, Automatic!FailsClosed,
           Automatic!Idle
  <1> QED BY <1>2, <1>3, <1>4, <1>5, <1>6 DEF AutomaticInv

\* The steps of the loop that only go on, with the registry as it is.
LEMMA LoopGoes ==
  ASSUME Automatic!AutomaticAssumption, AutomaticInv, loop.pc # "idle",
         loop' \in [pc : LoopSteps \ {"idle"}, before : Automatic!Ids \cup {0},
                    startup : BOOLEAN,
                    id : Automatic!Ids \cup {0}, rev : 0..MaxRevision],
         loop'.pc \in {"gate", "approve", "prepare", "start"} =>
           loop'.id \in Automatic!Known',
         Automatic!Beside, UNCHANGED <<holders, cancelled>>, startup' \in BOOLEAN,
         Jobs', OneCurrent',
         Executed'
  PROVE  AutomaticInv'
  <1> USE DEF AutomaticInv
  <1>1. Settings' BY DEF Settings, Automatic!Beside
  <1>2. Loop' BY DEF Loop
  <1>3. Registered' BY DEF Registered, Automatic!Beside
  <1> QED BY <1>1, <1>2, <1>3

\* A step that leaves the proposals and the executions alone.
LEMMA PropsUnchanged ==
  ASSUME OneCurrent, UNCHANGED props
  PROVE  OneCurrent' /\ Automatic!Known' = Automatic!Known /\ ProposalsKept
BY DEF OneCurrent, Automatic!Known, Automatic!Active, ProposalsKept

LEMMA LoopStartStep ==
  ASSUME Automatic!AutomaticAssumption, AutomaticInv, Automatic!LoopStart
  PROVE  AutomaticInv'
  <1> USE DEF AutomaticInv
  <1>1. OneCurrent' /\ Automatic!Known' = Automatic!Known
    BY PropsUnchanged DEF Automatic!LoopStart
  <1>2. Automatic!Latest \in Automatic!Ids \cup {0} BY LatestIsId
  <1>3. Settings' BY DEF Automatic!LoopStart, Automatic!Beside, Settings
  <1>4. Jobs' BY DEF Automatic!LoopStart, Automatic!Beside, Jobs
  <1>5. loop' = [pc |-> "cycle", before |-> Automatic!Latest, startup |-> startup,
                 id |-> 0, rev |-> 0]
    BY DEF Automatic!LoopStart, Automatic!Idle
  <1>6. Loop'
    BY <1>2, <1>5 DEF Loop, LoopSteps, Settings, Automatic!AutomaticAssumption
  <1>7. Registered'
    BY <1>5
    DEF Registered, Automatic!LoopStart, Automatic!MayRegister, Automatic!Beside
  <1>8. Executed' BY DEF Executed, Automatic!FailsClosed, Automatic!LoopStart
  <1> QED BY <1>1, <1>3, <1>4, <1>6, <1>7, <1>8

LEMMA LoopCycleStep ==
  ASSUME Automatic!AutomaticAssumption, AutomaticInv, Automatic!LoopCycle
  PROVE  AutomaticInv'
  <1> USE DEF AutomaticInv
  <1>1. CycleKept BY CycleKeeps DEF Automatic!LoopCycle, Automatic!Beside
  <1>2. loop' \in [pc : {"decide", "done"}, before : Automatic!Ids \cup {0},
                   startup : BOOLEAN,
                   id : Automatic!Ids \cup {0}, rev : 0..MaxRevision]
    BY DEF Automatic!LoopCycle, Automatic!Goto, Loop
  <1>3. Executed' BY DEF Automatic!LoopCycle, Executed, Automatic!FailsClosed
  <1> QED
    BY <1>1, <1>2, <1>3, LoopGoes
    DEF Automatic!LoopCycle, CycleKept, ProposalsKept, LoopSteps

LEMMA LoopDecideStep ==
  ASSUME Automatic!AutomaticAssumption, AutomaticInv, Automatic!LoopDecide
  PROVE  AutomaticInv'
  <1> USE DEF AutomaticInv
  <1>1. OneCurrent' /\ Automatic!Known' = Automatic!Known
    BY PropsUnchanged DEF Automatic!LoopDecide
  <1>2. Jobs' /\ startup' \in BOOLEAN /\ Executed'
    BY DEF Automatic!LoopDecide, Automatic!LoopStays, Automatic!Beside, Jobs,
           Settings, Executed, Automatic!FailsClosed
  <1>3. CASE loop' = [loop EXCEPT !.pc = "gate", !.id = Automatic!Latest]
               /\ Automatic!Latest # 0
    <2>1. Automatic!Latest \in Automatic!Known /\ Automatic!Latest \in Automatic!Ids
      BY <1>3, LatestIsActive DEF Automatic!Active
    <2>2. /\ loop' \in [pc : {"gate"}, before : Automatic!Ids \cup {0},
                        startup : BOOLEAN,
                        id : Automatic!Ids \cup {0}, rev : 0..MaxRevision]
          /\ loop'.id = Automatic!Latest
      BY <1>3, <2>1 DEF Loop
    <2> QED
      BY <1>1, <1>2, <2>1, <2>2, LoopGoes
      DEF Automatic!LoopDecide, Automatic!LoopStays, LoopSteps
  <1>4. CASE Automatic!Goto("done")
    <2>1. loop' \in [pc : {"done"}, before : Automatic!Ids \cup {0},
                     startup : BOOLEAN,
                        id : Automatic!Ids \cup {0}, rev : 0..MaxRevision]
      BY <1>4 DEF Loop, Automatic!Goto
    <2> QED
      BY <1>1, <1>2, <2>1, LoopGoes
      DEF Automatic!LoopDecide, Automatic!LoopStays, LoopSteps
  <1> QED BY <1>3, <1>4 DEF Automatic!LoopDecide

LEMMA LoopGateStep ==
  ASSUME Automatic!AutomaticAssumption, AutomaticInv, Automatic!LoopGate
  PROVE  AutomaticInv'
  <1> USE DEF AutomaticInv
  <1>1. OneCurrent' /\ Automatic!Known' = Automatic!Known
    BY PropsUnchanged DEF Automatic!LoopGate
  <1>2. Jobs' /\ startup' \in BOOLEAN /\ Executed'
    BY DEF Automatic!LoopGate, Automatic!LoopStays, Automatic!Beside, Jobs,
           Settings, Executed, Automatic!FailsClosed
  <1>3. /\ loop' \in [pc : {"approve", "done"}, before : Automatic!Ids \cup {0},
                      startup : BOOLEAN,
                      id : Automatic!Ids \cup {0}, rev : 0..MaxRevision]
        /\ loop'.id = loop.id /\ loop.id \in Automatic!Known
    BY DEF Loop, Automatic!LoopGate, Automatic!Goto
  <1> QED
    BY <1>1, <1>2, <1>3, LoopGoes
    DEF Automatic!LoopGate, Automatic!LoopStays, LoopSteps

LEMMA LoopApproveStep ==
  ASSUME Automatic!AutomaticAssumption, AutomaticInv, Automatic!LoopApprove
  PROVE  AutomaticInv'
  <1> USE DEF AutomaticInv
  <1>1. Jobs' /\ startup' \in BOOLEAN /\ Executed'
    BY DEF Automatic!LoopApprove, Automatic!LoopStays, Automatic!Beside, Jobs,
           Settings, Executed, Automatic!FailsClosed
  <1>2. loop.id \in Automatic!Known /\ loop.id \in Automatic!Ids
          /\ props[loop.id] \in Automatic!Proposal
    BY DEF Automatic!LoopApprove, Loop, Automatic!Known, OneCurrent
  <1>3. CASE /\ props[loop.id].status = "ready"
             /\ props' = [props EXCEPT ![loop.id].status = "approved"]
             /\ loop' = [loop EXCEPT !.pc = "prepare", !.rev = props[loop.id].rev]
    <2> DEFINE approved == [props[loop.id] EXCEPT !.status = "approved"]
    <2>1. approved \in Automatic!Proposal BY <1>2 DEF Automatic!Proposal
    <2>2. props' = [props EXCEPT ![loop.id] = approved] BY <1>3
    <2>3. loop.id \in Automatic!Active BY <1>2, <1>3 DEF Automatic!Active
    <2> HIDE DEF approved
    <2>4. ProposalsKept BY <1>2, <2>1, <2>2, <2>3, ChangeKeeps
    <2>5. props[loop.id].rev \in 0..MaxRevision BY <1>2 DEF Automatic!Proposal
    <2>6. /\ loop' \in [pc : {"prepare"}, before : Automatic!Ids \cup {0},
                        startup : BOOLEAN,
                        id : Automatic!Ids \cup {0}, rev : 0..MaxRevision]
          /\ loop'.id = loop.id
      BY <1>3, <2>5 DEF Loop
    <2> QED
      BY <1>1, <1>2, <2>4, <2>6, LoopGoes
      DEF Automatic!LoopApprove, Automatic!LoopStays, LoopSteps, ProposalsKept
  <1>4. CASE Automatic!Goto("done") /\ UNCHANGED props
    <2>1. loop' \in [pc : {"done"}, before : Automatic!Ids \cup {0},
                     startup : BOOLEAN,
                        id : Automatic!Ids \cup {0}, rev : 0..MaxRevision]
      BY <1>4 DEF Loop, Automatic!Goto
    <2>2. OneCurrent' BY <1>4, PropsUnchanged
    <2> QED
      BY <1>1, <2>1, <2>2, LoopGoes
      DEF Automatic!LoopApprove, Automatic!LoopStays, LoopSteps
  <1> QED BY <1>3, <1>4 DEF Automatic!LoopApprove

LEMMA LoopPrepareStep ==
  ASSUME Automatic!AutomaticAssumption, AutomaticInv, Automatic!LoopPrepare
  PROVE  AutomaticInv'
  <1> USE DEF AutomaticInv
  <1>1. OneCurrent' /\ Automatic!Known' = Automatic!Known
    BY PropsUnchanged DEF Automatic!LoopPrepare
  <1>2. Jobs' /\ startup' \in BOOLEAN /\ Executed'
    BY DEF Automatic!LoopPrepare, Automatic!LoopStays, Automatic!Beside, Jobs,
           Settings, Executed, Automatic!FailsClosed
  <1>3. /\ loop' \in [pc : {"start", "done"}, before : Automatic!Ids \cup {0},
                      startup : BOOLEAN,
                      id : Automatic!Ids \cup {0}, rev : 0..MaxRevision]
        /\ loop'.id = loop.id /\ loop.id \in Automatic!Known
    BY DEF Loop, Automatic!LoopPrepare, Automatic!Goto
  <1> QED
    BY <1>1, <1>2, <1>3, LoopGoes
    DEF Automatic!LoopPrepare, Automatic!LoopStays, LoopSteps

LEMMA LoopExecuteStep ==
  ASSUME Automatic!AutomaticAssumption, AutomaticInv, Automatic!LoopExecute
  PROVE  AutomaticInv'
  <1> USE DEF AutomaticInv
  <1>1. OneCurrent' /\ Automatic!Known' = Automatic!Known
    BY PropsUnchanged DEF Automatic!LoopExecute
  <1>2. Jobs' /\ startup' \in BOOLEAN
    BY DEF Automatic!LoopExecute, Automatic!LoopStays, Automatic!Beside, Jobs,
           Settings
  <1>3. loop' \in [pc : {"done"}, before : Automatic!Ids \cup {0},
                   startup : BOOLEAN,
                      id : Automatic!Ids \cup {0}, rev : 0..MaxRevision]
    BY DEF Loop, Automatic!LoopExecute, Automatic!Goto
  <1>4. loop.id \in Automatic!Ids /\ props[loop.id] \in Automatic!Proposal
    BY DEF Automatic!LoopExecute, Loop, Automatic!Known, OneCurrent
  <1>5. Executed'
    <2> DEFINE executed == [id |-> loop.id, rev |-> loop.rev, mode |-> mode,
                            gate |-> gate,
                            eligible |-> props[loop.id].eligible]
    <2>1. CASE UNCHANGED applied BY <2>1 DEF Executed, Automatic!FailsClosed
    <2>2. CASE Automatic!RequireGate /\ Automatic!ApprovalCurrent
                 /\ applied' = applied \cup {executed}
      <3>1. loop.rev \in 1..MaxRevision /\ props[loop.id].eligible \in BOOLEAN
        BY <1>4, <2>2 DEF Automatic!ApprovalCurrent, Automatic!Proposal
      <3>2. gate = TRUE BY <2>2 DEF Automatic!RequireGate, Settings
      <3>3. executed \in [id : Automatic!Ids, rev : 1..MaxRevision,
                          mode : {"prudent", "automatic"},
                         gate : BOOLEAN, eligible : BOOLEAN]
        BY <1>4, <3>1, <3>2 DEF Settings
      <3>4. executed.gate BY <3>2
      <3> HIDE DEF executed
      <3> QED BY <2>2, <3>3, <3>4 DEF Executed, Automatic!FailsClosed
    <2> QED BY <2>1, <2>2 DEF Automatic!LoopExecute
  <1> QED
    BY <1>1, <1>2, <1>3, <1>5, LoopGoes
    DEF Automatic!LoopExecute, Automatic!LoopStays, LoopSteps

LEMMA LoopDoneStep ==
  ASSUME Automatic!AutomaticAssumption, AutomaticInv, Automatic!LoopDone
  PROVE  AutomaticInv'
  <1> USE DEF AutomaticInv
  <1>1. OneCurrent' BY PropsUnchanged DEF Automatic!LoopDone
  <1>2. Settings' /\ Jobs'
    BY DEF Automatic!LoopDone, Automatic!Beside, Settings, Jobs
  <1>3. Loop'
    BY DEF Automatic!LoopDone, Automatic!Idle, Loop, LoopSteps,
           Automatic!AutomaticAssumption
  <1>4. Registered'
    BY DEF Automatic!LoopDone, Automatic!Idle, Registered, Automatic!Beside
  <1>5. Executed' BY DEF Automatic!LoopDone, Executed, Automatic!FailsClosed
  <1> QED BY <1>1, <1>2, <1>3, <1>4, <1>5

\* A step beside the loop that does not touch what the loop has decided.
LEMMA ApartKeeps ==
  ASSUME AutomaticInv, Automatic!Apart, ProposalsKept PROVE Loop' /\ Executed'
  <1> USE DEF AutomaticInv
  <1>1. Loop' BY DEF Automatic!Apart, Loop, ProposalsKept
  <1>2. Executed' BY DEF Automatic!Apart, Executed, Automatic!FailsClosed
  <1> QED BY <1>1, <1>2

LEMMA CommandStep ==
  ASSUME Automatic!AutomaticAssumption, AutomaticInv,
         Automatic!CommandStart \/ Automatic!CommandCycle
  PROVE  AutomaticInv'
  <1> USE DEF AutomaticInv
  <1>1. CASE Automatic!CommandStart
    <2>1. ProposalsKept BY <1>1, PropsUnchanged DEF Automatic!CommandStart
    <2>2. Loop' /\ Executed' BY <1>1, <2>1, ApartKeeps DEF Automatic!CommandStart
    <2>3. Settings' /\ Jobs'
      BY <1>1
      DEF Automatic!CommandStart, Automatic!Apart, Automatic!settings,
          Automatic!queue, Settings, Jobs
    <2>4. Registered'
      BY <1>1
      DEF Automatic!CommandStart, Automatic!MayRegister, Automatic!Apart, Registered
    <2> QED BY <2>1, <2>2, <2>3, <2>4 DEF ProposalsKept
  <1>2. CASE Automatic!CommandCycle
    <2>1. CycleKept BY <1>2, CycleKeeps DEF Automatic!CommandCycle
    <2>2. Loop' /\ Executed'
      BY <1>2, <2>1, ApartKeeps DEF Automatic!CommandCycle, CycleKept
    <2>3. Settings'
      BY <1>2, <2>1 DEF Automatic!CommandCycle, Automatic!Apart, Settings, CycleKept
    <2>4. Registered'
      BY <1>2 DEF Automatic!CommandCycle, Automatic!Apart, Registered
    <2> QED BY <2>1, <2>2, <2>3, <2>4 DEF ProposalsKept, CycleKept
  <1> QED BY <1>1, <1>2

LEMMA SettingsStep ==
  ASSUME Automatic!AutomaticAssumption, AutomaticInv,
         \/ Automatic!AskAutomatic \/ Automatic!AnswerAutomatic
              \/ Automatic!SetPrudent \/ Automatic!Pause \/ Automatic!Resume
                   \/ Automatic!Cancel
         \/ Automatic!GateCloses
  PROVE  AutomaticInv'
  <1> USE DEF AutomaticInv
  <1>1. UNCHANGED <<props, autoJobs, arrived, failed, holders, autoCmd, loop,
                    applied>>
    BY DEF Automatic!AskAutomatic, Automatic!AnswerAutomatic, Automatic!SetPrudent,
           Automatic!Pause, Automatic!Resume, Automatic!Cancel,
           Automatic!GateCloses,
           Automatic!Apart, Automatic!queue
  <1>2. OneCurrent' /\ Automatic!Known' = Automatic!Known BY <1>1, PropsUnchanged
  <1>3. Jobs' /\ Registered' BY <1>1 DEF Jobs, Registered
  <1>4. Loop' /\ Executed' BY <1>1, <1>2 DEF Loop, Executed, Automatic!FailsClosed
  <1>5. Settings'
    <2>1. CASE Automatic!AskAutomatic
      BY <2>1
      DEF Automatic!AskAutomatic, Automatic!Switch, Automatic!Apart, Settings,
          Automatic!AutomaticAssumption
    <2>2. CASE Automatic!AnswerAutomatic
      BY <2>2 DEF Automatic!AnswerAutomatic, Automatic!Apart, Settings
    <2>3. CASE Automatic!SetPrudent
      BY <2>3
      DEF Automatic!SetPrudent, Automatic!Switch, Automatic!Apart, Settings,
          Automatic!AutomaticAssumption
    <2>4. CASE Automatic!Pause
      BY <2>4
      DEF Automatic!Pause, Automatic!Switch, Automatic!Apart, Settings,
          Automatic!AutomaticAssumption
    <2>5. CASE Automatic!Resume
      BY <2>5 DEF Automatic!Resume, Automatic!Apart, Settings
    <2>6. CASE Automatic!Cancel
      BY <2>6
      DEF Automatic!Cancel, Automatic!Switch, Automatic!Apart, Settings,
          Automatic!AutomaticAssumption
    <2>7. CASE Automatic!GateCloses
      BY <2>7 DEF Automatic!GateCloses, Automatic!settings, Settings
    <2> QED BY <2>1, <2>2, <2>3, <2>4, <2>5, <2>6, <2>7
  <1> QED BY <1>2, <1>3, <1>4, <1>5

LEMMA UserStep ==
  ASSUME Automatic!AutomaticAssumption, AutomaticInv,
         Automatic!UserGenerates \/ Automatic!UserRevises
  PROVE  AutomaticInv'
  <1> USE DEF AutomaticInv
  <1>1. UNCHANGED <<Automatic!settings, Automatic!queue, holders, cancelled,
                    autoCmd>> /\ Automatic!Apart
    BY DEF Automatic!UserGenerates, Automatic!UserRevises
  <1>2. ProposalsKept
    BY NewKeeps, ReviseKeeps DEF Automatic!UserGenerates, Automatic!UserRevises
  <1>3. Loop' /\ Executed' BY <1>1, <1>2, ApartKeeps
  <1>4. Settings' /\ Jobs'
    BY <1>1 DEF Automatic!Apart, Automatic!settings, Automatic!queue, Settings, Jobs
  <1>5. Registered' BY <1>1 DEF Automatic!Apart, Registered
  <1> QED BY <1>2, <1>3, <1>4, <1>5 DEF ProposalsKept

LEMMA FileArrivesStep ==
  ASSUME Automatic!AutomaticAssumption, AutomaticInv, Automatic!FileArrives
  PROVE  AutomaticInv'
  <1> USE DEF AutomaticInv
  <1>1. ProposalsKept BY PropsUnchanged DEF Automatic!FileArrives
  <1>2. Loop' /\ Executed' BY <1>1, ApartKeeps DEF Automatic!FileArrives
  <1>3. Settings'
    BY DEF Automatic!FileArrives, Automatic!Apart, Automatic!settings, Settings
  <1>4. Registered' BY DEF Automatic!FileArrives, Automatic!Apart, Registered
  <1>5. Jobs'
    <2> DEFINE J == 0..MaxAttempts
    <2>1. autoJobs \in Seq(J) /\ 0 \in J BY DEF Jobs, Automatic!AutomaticAssumption
    <2>2. autoJobs' = Append(autoJobs, 0) /\ arrived' = arrived + 1
            /\ arrived < MaxJobs
          /\ failed' = failed
      BY DEF Automatic!FileArrives
    <2> HIDE DEF J
    <2>3. autoJobs' \in Seq(J) /\ Len(autoJobs') = Len(autoJobs) + 1
            /\ Len(autoJobs) \in Nat
      BY <2>1, <2>2
    <2> QED BY <2>2, <2>3 DEF Jobs, J, Automatic!AutomaticAssumption
  <1> QED BY <1>1, <1>2, <1>3, <1>4, <1>5 DEF ProposalsKept

LEMMA AutomaticStep ==
  ASSUME Automatic!AutomaticAssumption, AutomaticInv,
         [Automatic!Next]_(Automatic!vars)
  PROVE  AutomaticInv'
  <1>1. CASE Automatic!LoopStep
    BY <1>1, LoopStartStep, LoopCycleStep, LoopDecideStep, LoopGateStep,
        LoopApproveStep,
       LoopPrepareStep, LoopExecuteStep, LoopDoneStep DEF Automatic!LoopStep
  <1>2. CASE Automatic!CommandStart \/ Automatic!CommandCycle BY <1>2, CommandStep
  <1>3. CASE \/ Automatic!AskAutomatic \/ Automatic!AnswerAutomatic
                  \/ Automatic!SetPrudent \/ Automatic!Pause \/ Automatic!Resume
                       \/ Automatic!Cancel
             \/ Automatic!GateCloses
    BY <1>3, SettingsStep
  <1>4. CASE Automatic!UserGenerates \/ Automatic!UserRevises BY <1>4, UserStep
  <1>5. CASE Automatic!FileArrives BY <1>5, FileArrivesStep
  <1>6. CASE UNCHANGED Automatic!vars
    BY <1>6
    DEF Automatic!vars, AutomaticInv, Settings, Jobs, OneCurrent, Automatic!Known,
        Automatic!Active, Loop, Registered,
        Executed, Automatic!FailsClosed
  <1> QED BY <1>1, <1>2, <1>3, <1>4, <1>5, <1>6 DEF Automatic!Next

\* What the run checks follows from the invariant.
LEMMA AutomaticTells ==
  ASSUME Automatic!AutomaticAssumption, AutomaticInv
  PROVE  Automatic!TypeOK /\ Automatic!OneCycle /\ Automatic!FailsClosed
  <1> USE DEF AutomaticInv
  <1>1. Automatic!OneCycle BY DEF Registered, Automatic!OneCycle
  <1>2. Cardinality(Automatic!Active) <= 1
    <2>1. CASE Automatic!Active = {} BY <2>1, FS_EmptySet
    <2>2. CASE Automatic!Active # {}
      <3>1. \A i, j \in Automatic!Active : i = j BY DEF OneCurrent
      <3>2. PICK i : i \in Automatic!Active BY <2>2
      <3>3. Automatic!Active = {i} BY <3>1, <3>2
      <3>4. Cardinality(Automatic!Active) = 1 BY SMTT(20), <3>3, FS_Singleton
      <3> QED BY <3>4
    <2> QED BY <2>1, <2>2
  <1>3. failed \in 0..MaxJobs
    <2> DEFINE J == 0..MaxAttempts
    <2>1. autoJobs \in Seq(J) BY DEF Jobs
    <2> HIDE DEF J
    <2>2. Len(autoJobs) \in Nat BY <2>1
    <2> QED BY <2>2 DEF Jobs, Automatic!AutomaticAssumption
  <1>4. Automatic!TypeOK
    BY <1>2, <1>3, SameCardinality
    DEF Automatic!TypeOK, Settings, Jobs, OneCurrent, Loop, LoopSteps, Registered,
        Executed
  <1> QED BY <1>1, <1>4 DEF Executed, Automatic!FailsClosed

-----------------------------------------------------------------------------
(* The parts together *)

\* The invariant of the part that a behaviour is about.
MonitoringInv ==
  /\ part = "automatic" => AutomaticInv
  /\ part = "scans" => Scans!IInv
  /\ part = "watched" => Watched!IInv
  /\ part = "consumer" => Consumer!IInv

LEMMA MonitoringInit == ASSUME MCInit PROVE MonitoringInv
  <1>1. /\ part = "automatic" => Automatic!Init
        /\ part = "scans" => Scans!Init
        /\ part = "watched" => Watched!Init
        /\ part = "consumer" => Consumer!Init
    BY DEF MCInit
  <1>2. part = "automatic" => AutomaticInv
    BY <1>1, PartsAssumption, AutomaticInit
  <1>3. part = "scans" => Scans!IInv
    BY <1>1, PartsAssumption, Scans!InitHolds
  <1>4. part = "watched" => Watched!IInv
    BY <1>1, PartsAssumption, Watched!InitHolds
  <1>5. part = "consumer" => Consumer!IInv
    BY <1>1, PartsAssumption, Consumer!InitHolds
  <1> QED BY <1>2, <1>3, <1>4, <1>5 DEF MonitoringInv

\* A step of the whole is one of the part that runs, or stutters.
LEMMA PartSteps ==
  ASSUME [MCNext]_all
  PROVE  /\ part' = part
         /\ part = "automatic" => [Automatic!Next]_(Automatic!vars)
         /\ part = "scans" => [Scans!Next]_(Scans!vars)
         /\ part = "watched" => [Watched!Next]_(Watched!vars)
         /\ part = "consumer" => [Consumer!Next]_(Consumer!vars)
  <1>1. CASE MCNext
    BY <1>1 DEF MCNext
  <1>2. CASE UNCHANGED all
    <2>1. part' = part /\ UNCHANGED <<autoVars, catVars>>
      BY <1>2 DEF all
    <2>2. UNCHANGED Automatic!vars
      BY <2>1 DEF autoVars, Automatic!vars
    <2>3. UNCHANGED <<Scans!vars, Watched!vars, Consumer!vars>>
      BY <2>1 DEF catVars, Scans!vars, Watched!vars, Consumer!vars
    <2> QED BY <2>1, <2>2, <2>3
  <1> QED BY <1>1, <1>2

LEMMA MonitoringStep == ASSUME MonitoringInv, [MCNext]_all PROVE MonitoringInv'
  <1>1. part = "automatic" => AutomaticInv'
    BY PartSteps, PartsAssumption, AutomaticStep DEF MonitoringInv
  <1>2. part = "scans" => Scans!IInv'
    BY PartSteps, PartsAssumption, Scans!StepHolds DEF MonitoringInv
  <1>3. part = "watched" => Watched!IInv'
    BY PartSteps, PartsAssumption, Watched!StepHolds DEF MonitoringInv
  <1>4. part = "consumer" => Consumer!IInv'
    BY PartSteps, PartsAssumption, Consumer!StepHolds DEF MonitoringInv
  <1> QED BY <1>1, <1>2, <1>3, <1>4, PartSteps DEF MonitoringInv

LEMMA MonitoringHolds == MCSpec => []MonitoringInv
  <1>1. MCInit => MonitoringInv
    BY MonitoringInit
  <1>2. MonitoringInv /\ [MCNext]_all => MonitoringInv'
    BY MonitoringStep
  <1> QED BY <1>1, <1>2, PTL DEF MCSpec

\* The automatic execution is one at a time and starts only with every gate
\* open: the registry of monitoring_cancellations, taken by the loop or by the
\* command, and require_apply_gate before each execution (start_monitoring_loop,
\* run_monitoring_cycle, try_run_automatic_execution).
THEOREM AutomaticGuarded == MCSpec => []AutomaticIsGuarded
  <1>1. MonitoringInv => AutomaticIsGuarded
    BY PartsAssumption, AutomaticTells
    DEF MonitoringInv, AutomaticIsGuarded, OneCycle, FailsClosed
  <1>2. QED BY <1>1, MonitoringHolds, PTL

\* The catalogue is true however the full, consumer and targeted scans overlap
\* and whatever is written, moved or exchanged on disk between the inspection
\* of a file, its hashing and the transaction that persists it: one location
\* per file (persist_observation), digests of the versions they stand beside
\* (fingerprint_unchanged_file), groups of present files with equal digests
\* (refresh_duplicate_groups).
THEOREM CatalogueTrue == MCSpec => []CatalogueIsTrue
  <1>1. MonitoringInv => CatalogueIsTrue
    <2>1. ASSUME MonitoringInv, part = "scans"
          PROVE  /\ Scans!TypeOK /\ Scans!OneHome /\ Scans!DigestIsOfVersion
                 /\ Scans!GroupsAreCurrent
      BY <2>1, Scans!Tells DEF MonitoringInv
    <2>2. ASSUME MonitoringInv, part = "watched"
          PROVE  /\ Watched!TypeOK /\ Watched!OneHome /\ Watched!DigestIsOfVersion
                 /\ Watched!GroupsAreCurrent
      BY <2>2, Watched!Tells DEF MonitoringInv
    <2>3. ASSUME MonitoringInv, part = "consumer"
          PROVE  Consumer!TypeOK /\ Consumer!OneHome
      BY <2>3, Consumer!Tells DEF MonitoringInv
    <2> QED
      BY <2>1, <2>2, <2>3
      DEF CatalogueIsTrue, OneHome, DigestIsOfVersion, GroupsAreCurrent
  <1> QED BY <1>1, MonitoringHolds, PTL
=============================================================================
