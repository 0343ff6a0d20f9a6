--------------------------- MODULE RecoveryJournal ---------------------------
(***************************************************************************)
(* The encrypted recovery journal as a file, and its synchronisation with  *)
(* the events of the database.                                             *)
(*                                                                         *)
(* Sources: crates/operations/src/lib.rs (FileJournal, LockedJournal,      *)
(* read_encrypted_events, validate_event_chains) and                       *)
(* crates/application/src/execution.rs (new, persist_event,                *)
(* synchronize_external_journal).                                          *)
(*                                                                         *)
(* An event is its execution and its number: the chain of digests fixes    *)
(* the rest.  What one write_all left in the file is a piece: the whole    *)
(* line, the line without its newline, or a part of the line.  Encryption  *)
(* is left out: a line decrypts when it is one whole record.  The database *)
(* commits durably (PRAGMA synchronous = FULL).                            *)
(***************************************************************************)
EXTENDS Naturals, FiniteSets, Sequences

CONSTANTS
  Executions,  \* executions, of which one is active at a time
  Cuts,        \* how a failing or interrupted write may cut its line
  MaxEvents,   \* bound: events of an execution
  MaxStops     \* bound: crashes and power losses

\* What is assumed of the parameters.
JournalAssumption ==
  /\ Executions # {} /\ Cuts \subseteq {"bare", "torn"}
  /\ MaxEvents \in Nat /\ MaxStops \in Nat

Events == [exec : Executions, seq : Nat]
Pieces == [event : Events, cut : Cuts \cup {"whole"}]

VARIABLES
  file,     \* the pieces of the file, in order
  synced,   \* how many of them sync_all has made durable
  journal,  \* the service's journal: closed, open (FileJournal) or locked
  heads,    \* last_events: the number of events of each chain
  locked,   \* journal_diagnostics is not empty
  events,   \* events of each execution in the database
  active,   \* the execution the index idx_local_execution_one_active lets in
  acked,    \* ghost: events whose persist_event returned
  pc,       \* where the thread of each execution is
  stops     \* crashes and power losses so far

vars == <<file, synced, journal, heads, locked, events, active, acked, pc, stops>>

-----------------------------------------------------------------------------
(* read_encrypted_events.                                                  *)

\* A line ends with a newline: a cut piece and the piece after it are one line,
\* which is no record.
IsRecord(f, i) ==
  /\ f[i].cut # "torn" /\ (f[i].cut = "bare" => i = Len(f))
  /\ i > 1 => f[i - 1].cut = "whole"

Readable(f) == \A i \in 1..Len(f) : IsRecord(f, i)

\* The events of an execution that a reader gets.
Read(f, x) == {i \in 1..Len(f) : IsRecord(f, i) /\ f[i].event.exec = x}

\* validate_event_chains
InChain(f) ==
  \A i \in 1..Len(f) :
    f[i].event.seq = Cardinality({j \in 1..(i - 1) : f[j].event.exec = f[i].event.exec})

-----------------------------------------------------------------------------
Init ==
  /\ file = <<>> /\ synced = 0 /\ journal = "closed" /\ locked = FALSE
  /\ heads = [x \in Executions |-> 0] /\ events = [x \in Executions |-> 0]
  /\ acked = [x \in Executions |-> 0] /\ pc = [x \in Executions |-> "idle"]
  /\ stops = 0 /\ active = {}

\* Whether the external journal of x is exactly that of the database.
Matches(x) == Cardinality(Read(file, x)) = events[x]

\* A mutant of Open: a journal that can be read is taken as it is.
OpenUnchecked ==
  /\ journal = "closed"
  /\ LET ok == Readable(file) /\ InChain(file)
     IN  /\ journal' = IF ok THEN "open" ELSE "locked"
         /\ heads' = IF ok THEN [x \in Executions |-> Cardinality(Read(file, x))] ELSE heads
         /\ locked' = ~ok
  /\ UNCHANGED <<file, synced, events, active, acked, pc, stops>>

\* open_or_locked, then the checks of the service's constructor: every
\* execution must be in step, and nothing is repaired.
Open ==
  /\ journal = "closed"
  /\ LET ok == Readable(file) /\ InChain(file)
     IN  /\ journal' = IF ok THEN "open" ELSE "locked"
         /\ heads' = IF ok THEN [x \in Executions |-> Cardinality(Read(file, x))] ELSE heads
         /\ locked' = (~ok \/ \E x \in Executions : ~Matches(x))
  /\ UNCHANGED <<file, synced, events, active, acked, pc, stops>>

\* start, rollback or recovery of an execution: mutations must be unlocked, and
\* the journals in step.  An execution that was interrupted stays active until
\* it has been settled.
Begin(x) ==
  /\ journal = "open" /\ ~locked /\ pc[x] = "idle" /\ active \subseteq {x}
  /\ active' = {x}
  /\ IF Readable(file) /\ Matches(x)
     THEN pc' = [pc EXCEPT ![x] = "running"] /\ UNCHANGED locked
     ELSE locked' = TRUE /\ UNCHANGED pc
  /\ UNCHANGED <<file, synced, journal, heads, events, acked, stops>>

\* persist_event up to the commit of the database: the running thread does not
\* look at the diagnostics again.
Commit(x) ==
  /\ pc[x] = "running" /\ events[x] < MaxEvents
  /\ events' = [events EXCEPT ![x] = @ + 1]
  /\ pc' = [pc EXCEPT ![x] = "compare"]
  /\ UNCHANGED <<file, synced, journal, heads, locked, active, acked, stops>>

Finish(x) ==
  /\ pc[x] = "running"
  /\ pc' = [pc EXCEPT ![x] = "idle"] /\ active' = {}
  /\ UNCHANGED <<file, synced, journal, heads, locked, events, acked, stops>>

\* synchronize_external_journal with allow_single_append: the journal must be
\* readable and lack one event at most.
Compare(x) ==
  /\ pc[x] = "compare"
  /\ LET missing == events[x] - Cardinality(Read(file, x))
     IN  IF Readable(file) /\ InChain(file) /\ missing <= 1
         THEN pc' = [pc EXCEPT ![x] = IF missing = 1 THEN "append" ELSE "flush"] /\ UNCHANGED locked
         ELSE pc' = [pc EXCEPT ![x] = "idle"] /\ locked' = TRUE
  /\ UNCHANGED <<file, synced, journal, heads, events, active, acked, stops>>

Event(x) == [exec |-> x, seq |-> events[x] - 1]
Written(x, cut) == Append(file, [event |-> Event(x), cut |-> cut])

\* FileJournal::append, when the event continues the chain and the whole line
\* is written.
AppendEvent(x) ==
  /\ pc[x] = "append" /\ Event(x).seq = heads[x]
  /\ file' = Written(x, "whole")
  /\ heads' = [heads EXCEPT ![x] = @ + 1]
  /\ pc' = [pc EXCEPT ![x] = "flush"]
  /\ UNCHANGED <<synced, journal, locked, events, active, acked, stops>>

\* The event does not continue the chain, or write_all fails after a part of
\* the line: the head stays as it was.
AppendFails(x) ==
  /\ pc[x] = "append"
  /\ \/ UNCHANGED file
     \/ \E cut \in Cuts : Event(x).seq = heads[x] /\ file' = Written(x, cut)
  /\ pc' = [pc EXCEPT ![x] = "idle"] /\ locked' = TRUE
  /\ UNCHANGED <<synced, journal, heads, events, active, acked, stops>>

\* A mutant: the event is reported before it is durable.
FlushLater(x) ==
  /\ pc[x] = "flush"
  /\ acked' = [acked EXCEPT ![x] = events[x]]
  /\ pc' = [pc EXCEPT ![x] = "running"]
  /\ UNCHANGED <<file, synced, journal, heads, locked, events, active, stops>>

\* flush and sync_all, then persist_event returns.
Flush(x) ==
  /\ pc[x] = "flush"
  /\ synced' = Len(file)
  /\ acked' = [acked EXCEPT ![x] = events[x]]
  /\ pc' = [pc EXCEPT ![x] = "running"]
  /\ UNCHANGED <<file, journal, heads, locked, events, active, stops>>

FlushFails(x) ==
  /\ pc[x] = "flush"
  /\ pc' = [pc EXCEPT ![x] = "idle"] /\ locked' = TRUE
  /\ UNCHANGED <<file, synced, journal, heads, events, active, acked, stops>>

\* The process ends: what is in memory is gone, the diagnostics too.
Restart ==
  /\ stops < MaxStops /\ stops' = stops + 1
  /\ journal' = "closed" /\ locked' = FALSE /\ pc' = [x \in Executions |-> "idle"]
  /\ heads' = [x \in Executions |-> 0]
  /\ UNCHANGED <<events, active, acked>>

Crash == journal # "closed" /\ Restart /\ UNCHANGED <<file, synced>>

\* What is not yet durable survives up to some byte.
PowerLoss ==
  /\ journal # "closed" /\ Restart
  /\ \E n \in synced..Len(file) :
       /\ \/ file' = SubSeq(file, 1, n)
          \/ /\ n > synced
             /\ \E cut \in Cuts : file[n].cut = "whole"
                  /\ file' = [SubSeq(file, 1, n) EXCEPT ![n].cut = cut]
       /\ synced' = n

Next ==
  \/ Open \/ Crash \/ PowerLoss
  \/ \E x \in Executions :
       \/ Begin(x) \/ Commit(x) \/ Finish(x) \/ Compare(x)
       \/ AppendEvent(x) \/ AppendFails(x) \/ Flush(x) \/ FlushFails(x)

Spec == Init /\ [][Next]_vars

-----------------------------------------------------------------------------
TypeOK ==
  /\ file \in Seq(Pieces) /\ synced \in 0..Len(file)
  /\ journal \in {"closed", "open", "locked"} /\ locked \in BOOLEAN
  /\ heads \in [Executions -> Nat] /\ events \in [Executions -> 0..MaxEvents]
  /\ acked \in [Executions -> 0..MaxEvents] /\ active \in SUBSET Executions /\ stops \in 0..MaxStops
  /\ pc \in [Executions -> {"idle", "running", "compare", "append", "flush"}]

\* An event on which a mutation may follow is durable and can be read back, for
\* ever, whatever fails around it: "journal durable avant tout nouvel effet"
\* (docs/recovery/README.md).
AckedIsReadable == \A x \in Executions : acked[x] <= Cardinality(Read(file, x))

\* A service that accepts mutations has both journals in step, but for the
\* event that a running execution is about to write.
UnlockedInStep ==
  journal = "open" /\ ~locked =>
    \A x \in Executions :
      /\ pc[x] \in {"idle", "running"} => Matches(x) /\ heads[x] = events[x]
      /\ pc[x] \in {"compare", "append"} => Cardinality(Read(file, x)) + 1 = events[x]
=============================================================================
