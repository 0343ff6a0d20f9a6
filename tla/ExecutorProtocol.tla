-------------------------- MODULE ExecutorProtocol --------------------------
(***************************************************************************)
(* The authenticated session between the coordinator's executor client and *)
(* the isolated worker process: handshake, numbered and timed requests,    *)
(* the worker's checks, the handler with its bounded retries, and the      *)
(* checks of the answer.                                                   *)
(*                                                                         *)
(* Sources: workers/operation-executor/src/lib.rs (serve, serve_session,   *)
(* the handler), apps/desktop/src-tauri/src/executor_client.rs,            *)
(* crates/ipc-contracts/src/executor_v2 (frames, MACs, authorization).     *)
(*                                                                         *)
(* A MAC is the fact that a frame is genuine; a frame names its session.   *)
(* The wire keeps every frame and delivers any of them at any time: late,  *)
(* twice, out of order, to a later child, or never.  One child is spawned  *)
(* per session, so a session is named by its child; session 1 applies, the *)
(* sessions after it roll back what a recovery found applied.              *)
(***************************************************************************)
EXTENDS Naturals, FiniteSets

CONSTANTS
  Ops,           \* operations of the envelope
  Deps,          \* the dependencies of each
  SessionLife,   \* MAX_SESSION_LIFETIME_MS, in ticks
  MessageLife,   \* MAX_MESSAGE_LIFETIME_MS, in ticks
  Attempts,      \* attempts of the handler's loop: 3 in the code
  MaxSessions,   \* bound: children spawned
  MaxTime        \* bound: the clock

\* What is assumed of the parameters.
ProtocolAssumption ==
  /\ Deps \in [Ops -> SUBSET Ops]
  /\ {SessionLife, MessageLife, Attempts, MaxSessions} \subseteq Nat \ {0} /\ MaxTime \in Nat

Directions == {"forward", "rollback"}
Bindings == Ops \X Directions
Outcomes == {"success", "not_applied", "recovery", "refused"}

VARIABLES
  now,
  client,    \* the session object of the coordinator
  worker,    \* the child of the current session
  requests, replies,   \* frames on the wire
  done,      \* the operations whose effect is on disk
  count,     \* ghost: how often this session's child performed a binding
  results    \* ghost: what the coordinator was told in this session

vars == <<now, client, worker, requests, replies, done, count, results>>

Earlier(a, b) == IF a < b THEN a ELSE b

\* No operation is under way.
NoFrame == [kind |-> "none"]

NoClient == [pc |-> "closed", session |-> 0, seq |-> 1, expect |-> 1, attempted |-> {},
             prepared |-> NoFrame, sent |-> NoFrame, expires |-> 0, eligible |-> {}]

NoWorker == [pc |-> "exited", session |-> 0, seq |-> 1, seen |-> {}, attempted |-> {},
             applied |-> {}, remaining |-> {}, frame |-> NoFrame, tries |-> 0, outcome |-> "none"]

Init ==
  /\ now = 0 /\ client = NoClient /\ worker = NoWorker
  /\ requests = {} /\ replies = {} /\ done = {}
  /\ count = [b \in Bindings |-> 0] /\ results = [b \in Bindings |-> "none"]

Tick == now < MaxTime /\ now' = now + 1
        /\ UNCHANGED <<client, worker, requests, replies, done, count, results>>

-----------------------------------------------------------------------------
(* SessionAuthorization and validate_message_time.                         *)

Mode(session) == IF session = 1 THEN "forward" ELSE "rollback"

\* A mutant of Permits: a session that applies may also undo.
PermitsUndo(session, eligible, b) == b[2] = "rollback" => b[1] \in eligible \/ session = 1

Permits(session, eligible, b) ==
  b[2] = Mode(session) /\ (b[2] = "rollback" => b[1] \in eligible)

\* The expiry of a message signed now; a message that would already have
\* expired is not signed.
MessageExpiry(session_expires) == Earlier(now + MessageLife, session_expires)
CanSign(session_expires) == MessageExpiry(session_expires) > now

-----------------------------------------------------------------------------
(* The coordinator's side: open_session, prepare_operation, dispatch.      *)

\* ChildTransport::spawn, the child's hello and the signed OpenSession: the
\* child before is gone, and what a rollback may touch is what recovery found
\* applied.
OpenSession ==
  /\ client.pc = "closed" /\ worker.pc = "exited"
  /\ client.session < MaxSessions
  /\ LET s == client.session + 1
         eligible == IF Mode(s) = "rollback" THEN done ELSE {}
         open == [kind |-> "open", session |-> s, expires |-> now + SessionLife, eligible |-> eligible]
     IN  /\ Mode(s) = "rollback" => eligible # {}
         /\ client' = [NoClient EXCEPT !.pc = "opening", !.session = s,
                                       !.expires = open.expires, !.eligible = eligible]
         /\ worker' = [NoWorker EXCEPT !.pc = "hello", !.session = s]
         /\ requests' = requests \cup {open}
  /\ count' = [b \in Bindings |-> 0] /\ results' = [b \in Bindings |-> "none"]
  /\ UNCHANGED <<now, replies, done>>

\* verify_session_opened
SessionOpened ==
  /\ client.pc = "opening"
  /\ \E r \in replies :
       /\ r.kind = "opened" /\ r.session = client.session
       /\ client' = [client EXCEPT !.pc = IF now < client.expires THEN "ready" ELSE "poisoned"]
  /\ UNCHANGED <<now, worker, requests, replies, done, count, results>>

\* prepare_operation: the attempt is remembered even when it is refused.
PrepareOperation(b) ==
  /\ client.pc = "ready" /\ client.prepared = NoFrame
  /\ b \notin client.attempted
  /\ client' = [client EXCEPT
       !.attempted = @ \cup {b},
       !.seq = IF Permits(client.session, client.eligible, b) THEN @ + 1 ELSE @,
       !.prepared = IF Permits(client.session, client.eligible, b)
                    THEN [kind |-> "request", op |-> b, seq |-> client.seq] ELSE NoFrame]
  /\ UNCHANGED <<now, worker, requests, replies, done, count, results>>

\* dispatch_prepared up to the send.  A request that cannot be signed is
\* reported ambiguous and its number is lost; the session goes on.
DispatchPrepared ==
  /\ client.pc = "ready" /\ client.prepared # NoFrame
  /\ IF CanSign(client.expires)
     THEN LET f == [kind |-> "request", session |-> client.session, op |-> client.prepared.op,
                    seq |-> client.prepared.seq, sent |-> now,
                    expires |-> MessageExpiry(client.expires), genuine |-> TRUE]
          IN  /\ requests' = requests \cup {f}
              /\ client' = [client EXCEPT !.pc = "waiting", !.sent = f, !.prepared = NoFrame]
     ELSE client' = [client EXCEPT !.prepared = NoFrame] /\ UNCHANGED requests
  /\ UNCHANGED <<now, worker, replies, done, count, results>>

\* A mutant of Answers: the binding of the answer is not compared.
AnswersAnyBinding(r, expect) ==
  r.kind = "response" /\ r.session = client.session /\ r.seq = expect /\ now < r.expires

\* AuthenticatedOperationResponse::verify by CoordinatorResponseVerifier.
Answers(r, expect) ==
  /\ r.kind = "response" /\ r.session = client.session
  /\ r.op = client.sent.op /\ r.seq = expect
  /\ r.sent <= now /\ now < r.expires

\* The rest of dispatch_prepared: the answer is accepted, or the session is
\* poisoned.
ReceiveResponse ==
  /\ client.pc = "waiting"
  /\ \E r \in replies :
       IF Answers(r, client.expect)
       THEN /\ client' = [client EXCEPT !.pc = "ready", !.expect = @ + 1, !.sent = NoFrame]
            /\ results' = [results EXCEPT ![r.op] = r.outcome]
       ELSE client' = [client EXCEPT !.pc = "poisoned"] /\ UNCHANGED results
  /\ UNCHANGED <<now, worker, requests, replies, done, count>>

\* A mutant of ReceiveFails: only the handshake has a timeout.
HandshakeFails ==
  /\ client.pc = "opening"
  /\ client' = [client EXCEPT !.pc = "poisoned"]
  /\ UNCHANGED <<now, worker, requests, replies, done, count, results>>

\* The timeout, a closed pipe, a garbled or an unexpected frame.
ReceiveFails ==
  /\ client.pc \in {"opening", "waiting"}
  /\ client' = [client EXCEPT !.pc = "poisoned"]
  /\ UNCHANGED <<now, worker, requests, replies, done, count, results>>

\* The coordinator drops the session: close_and_reap waits for the child.
CloseSession ==
  /\ client.pc \in {"ready", "poisoned"}
  /\ client' = [client EXCEPT !.pc = "closing"]
  /\ UNCHANGED <<now, worker, requests, replies, done, count, results>>

Reaped ==
  /\ client.pc = "closing" /\ worker.pc = "exited"
  /\ client' = [client EXCEPT !.pc = "closed"]
  /\ UNCHANGED <<now, worker, requests, replies, done, count, results>>

-----------------------------------------------------------------------------
(* The worker's side.                                                      *)

\* serve: the OpenSession frame must be for this child and still valid.
AcceptSession ==
  /\ worker.pc = "hello"
  /\ \E f \in {g \in requests : g.kind = "open"} :
       IF f.session = worker.session /\ now < f.expires
       THEN /\ worker' = [worker EXCEPT !.pc = "serving", !.remaining = f.eligible]
            /\ replies' = replies \cup {[kind |-> "opened", session |-> worker.session]}
       ELSE worker' = [worker EXCEPT !.pc = "exited"] /\ UNCHANGED replies
  /\ UNCHANGED <<now, client, requests, done, count, results>>

\* The open frame this worker accepted.
Opened == CHOOSE f \in requests : f.kind = "open" /\ f.session = worker.session

\* AuthenticatedOperationRequest::verify
Verified(f) ==
  /\ f.genuine /\ f.session = worker.session
  /\ f.seq = worker.seq
  /\ f.sent <= now /\ now < f.expires

\* A mutant of InOrder: dependencies are not looked at.
InAnyOrder(b) == TRUE

\* Forward after its dependencies, rollback after its dependents.
InOrder(b) ==
  IF b[2] = "forward" THEN Deps[b[1]] \subseteq worker.applied
  ELSE ~ \E d \in worker.remaining : b[1] \in Deps[d]

\* Everything serve_session checks before the handler runs (the nonce of a
\* request is its number: both are used once).
Accepted(f) ==
  /\ Verified(f) /\ f.seq \notin worker.seen
  /\ Permits(worker.session, Opened.eligible, f.op)
  /\ f.op \notin worker.attempted
  /\ InOrder(f.op)

Reply(b, outcome) ==
  [kind |-> "response", session |-> worker.session, op |-> b, seq |-> worker.seq, outcome |-> outcome,
   sent |-> now, expires |-> MessageExpiry(Opened.expires)]

\* A request frame: one that was sent, or one whose MAC or binding is wrong.
Arriving ==
  {f \in requests : f.kind = "request"} \cup
  [kind : {"request"}, session : {worker.session}, op : Bindings, seq : {worker.seq}, sent : {now},
   expires : {now + 1}, genuine : {FALSE}]

\* serve_session up to the handler.  A refusal is signed with the number the
\* worker expects and ends the child.
TakeRequest ==
  /\ worker.pc = "serving"
  /\ \E f \in Arriving :
       IF Accepted(f)
       THEN /\ worker' = [worker EXCEPT !.pc = "handling", !.frame = f, !.tries = 1,
                            !.seen = @ \cup {f.seq}, !.attempted = @ \cup {f.op}]
            /\ UNCHANGED replies
       ELSE /\ worker' = [worker EXCEPT !.pc = "exited"]
            /\ replies' = IF CanSign(Opened.expires)
                          THEN replies \cup {Reply(f.op, "refused")} ELSE replies
  /\ UNCHANGED <<now, client, requests, done, count, results>>

Handled(outcome) == worker' = [worker EXCEPT !.pc = "answering", !.outcome = outcome]

\* What the handler finds before it changes anything: a precondition that
\* fails, or a sharing violation that is tried again.
HandlerDeclines ==
  /\ worker.pc = "handling"
  /\ \/ Handled("not_applied")
     \/ /\ worker.tries < Attempts
        /\ worker' = [worker EXCEPT !.tries = @ + 1]
  /\ UNCHANGED <<now, client, requests, replies, done, count, results>>

\* The effect: an operation is applied, or undone.
Performed(b) ==
  /\ done' = IF b[2] = "forward" THEN done \cup {b[1]} ELSE done \ {b[1]}
  /\ count' = [count EXCEPT ![b] = @ + 1]

\* The state on disk that the precondition (the expected source) demands.
Ready(b) == (b[2] = "forward") = (b[1] \notin done)

\* The primitive: it succeeds and its postcondition holds or not, or it fails
\* in a way that leaves open whether it took effect.
HandlerMutates ==
  /\ worker.pc = "handling" /\ Ready(worker.frame.op)
  /\ \/ Performed(worker.frame.op) /\ (Handled("success") \/ Handled("recovery"))
     \/ Handled("recovery") /\ UNCHANGED <<done, count>>
  /\ UNCHANGED <<now, client, requests, replies, results>>

\* send_response, then what the child remembers; an answer that cannot be
\* signed any more ends the child, and so does an outcome to recover from.
SendResponse ==
  /\ worker.pc = "answering"
  /\ LET b == worker.frame.op
         ok == worker.outcome = "success"
     IN  IF CanSign(Opened.expires)
         THEN /\ replies' = replies \cup {Reply(b, worker.outcome)}
              /\ worker' = [worker EXCEPT
                   !.pc = IF worker.outcome = "recovery" THEN "exited" ELSE "serving",
                   !.seq = @ + 1, !.frame = NoFrame, !.tries = 0, !.outcome = "none",
                   !.applied = IF ok /\ b[2] = "forward" THEN @ \cup {b[1]} ELSE @,
                   !.remaining = IF ok /\ b[2] = "rollback" THEN @ \ {b[1]} ELSE @]
         ELSE worker' = [worker EXCEPT !.pc = "exited"] /\ UNCHANGED replies
  /\ UNCHANGED <<now, client, requests, done, count, results>>

\* The end of the input, or the kill after CHILD_EXIT_GRACE, wherever it is.
WorkerStops ==
  /\ worker.pc # "exited" /\ client.pc = "closing"
  /\ worker' = [worker EXCEPT !.pc = "exited"]
  /\ UNCHANGED <<now, client, requests, replies, done, count, results>>

WorkerCrashes ==
  /\ worker.pc # "exited"
  /\ worker' = [worker EXCEPT !.pc = "exited"]
  /\ UNCHANGED <<now, client, requests, replies, done, count, results>>

ClientStep ==
  \/ OpenSession \/ SessionOpened \/ DispatchPrepared \/ ReceiveResponse \/ ReceiveFails
  \/ CloseSession \/ Reaped \/ \E b \in Bindings : PrepareOperation(b)

WorkerStep ==
  AcceptSession \/ TakeRequest \/ HandlerDeclines \/ HandlerMutates \/ SendResponse \/ WorkerCrashes

Next == Tick \/ ClientStep \/ WorkerStep \/ WorkerStops

\* A wait for the worker ends with its timeout, and a child that outlives its
\* session is killed.
Spec == Init /\ [][Next]_vars
LiveSpec == Spec /\ WF_vars(ReceiveFails) /\ WF_vars(WorkerStops) /\ WF_vars(Reaped)

-----------------------------------------------------------------------------
TypeOK ==
  /\ now \in 0..MaxTime
  /\ client.pc \in {"opening", "ready", "waiting", "poisoned", "closing", "closed"}
  /\ worker.pc \in {"hello", "serving", "handling", "answering", "exited"}
  /\ client.session \in 0..MaxSessions /\ worker.session = client.session
  /\ client.attempted \subseteq Bindings /\ worker.attempted \subseteq Bindings
  /\ worker.applied \subseteq Ops /\ worker.remaining \subseteq Ops /\ done \subseteq Ops
  /\ worker.tries \in 0..Attempts
  /\ count \in [Bindings -> Nat] /\ results \in [Bindings -> Outcomes \cup {"none"}]

\* What the coordinator is told is true, then and for the rest of the session:
\* success means performed exactly once, not applied and refused mean never
\* performed, however frames are repeated, delayed or mixed up and whatever
\* the handler retries.
AnswersAreTrue ==
  \A b \in Bindings :
    /\ results[b] = "success" => count[b] = 1
    /\ results[b] \in {"not_applied", "refused"} => count[b] = 0

\* An operation is on disk only with everything it depends on: the order of
\* the plan holds forward, and in reverse for a rollback.
DependenciesOnDisk == \A o \in done : Deps[o] \subseteq done

\* Only what the session authorises is performed: forward in the session that
\* applies, backward in one that rolls back.
AuthorizedOnly ==
  \A b \in Bindings : count[b] > 0 => b[2] = Mode(client.session)

\* A request never keeps the coordinator waiting for ever, and a session that
\* is closed always loses its child.
EveryWaitEnds ==
  /\ (client.pc = "waiting") ~> (client.pc # "waiting")
  /\ (client.pc = "closing") ~> (client.pc = "closed")
=============================================================================
