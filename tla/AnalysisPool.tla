----------------------------- MODULE AnalysisPool -----------------------------
(***************************************************************************)
(* One batch of content extraction or semantic analysis of a scan: the     *)
(* command's thread reads pages of candidates, starts a pool of workers    *)
(* over each page, receives their results through a bounded channel, stores *)
(* them, and finishes the batch. Workers share an index and a stop flag;   *)
(* the user may cancel at any time; a call to the database may fail.       *)
(***************************************************************************)
EXTENDS Naturals, FiniteSets, Sequences, SequencesExt

CONSTANTS
    Kind,       \* "content" or "semantic"
    Files,      \* number of candidates the batch was queued with
    PageSize,   \* CANDIDATE_PAGE_SIZE, SEMANTIC_CANDIDATE_PAGE_SIZE
    MaxWorkers, \* limits().max_workers
    Capacity,   \* limits().queue_capacity, for the semantic channel
    Faults,     \* calls that may fail: "mark", "store", "page", "provider"
    MayCancel,
    MaxLeft     \* candidates that may leave the set while the batch runs

\* What is assumed of the parameters.
PoolAssumption ==
    /\ Kind \in {"content", "semantic"}
    /\ {Files, PageSize, MaxWorkers, Capacity} \subseteq Nat \ {0}
    /\ Faults \subseteq {"mark", "store", "page", "provider"}
    /\ MayCancel \in BOOLEAN
    /\ MaxLeft \in Nat

VARIABLES
    rows,      \* each candidate's result: "pending", "running", "stored", "ended"
    here,      \* the candidates a page query still finds, in order
    batch,     \* [status, completed, queued]
    main,      \* the command's thread: [pc, offset, page, fatal]
    next,      \* next_index
    stop,
    workers,   \* [pc, idx, ok] of each
    channel,   \* results sent and not received
    cancelled

vars == <<rows, here, batch, main, next, stop, workers, channel, cancelled>>

Worker == 1..MaxWorkers
Off == [pc |-> "off", idx |-> 0, ok |-> TRUE]
WorkerCount == IF MaxWorkers < Len(main.page) THEN MaxWorkers ELSE Len(main.page)
ChannelBound ==
    IF Kind = "content" THEN WorkerCount
    ELSE LET wanted == IF Capacity < WorkerCount THEN WorkerCount ELSE Capacity
         IN  IF wanted < Len(main.page) THEN wanted ELSE Len(main.page)

Init ==
    /\ rows = [f \in 1..Files |-> "pending"]
    /\ here = [f \in 1..Files |-> f]
    /\ batch = [status |-> "running", completed |-> 0, queued |-> Files]
    /\ main = [pc |-> "page", offset |-> 0, page |-> <<>>, fatal |-> FALSE]
    /\ next = 1
    /\ stop = FALSE
    /\ workers = [w \in Worker |-> Off]
    /\ channel = <<>>
    /\ cancelled = FALSE

-----------------------------------------------------------------------------
(* The loop over pages. *)

PageOf(offset) ==
    SubSeq(here, offset + 1,
           IF offset + PageSize < Len(here) THEN offset + PageSize ELSE Len(here))

EndLoop ==
    /\ main.pc = "page"
    /\ cancelled \/ PageOf(main.offset) = <<>>
    /\ main' = [main EXCEPT !.pc = "finish"]
    /\ UNCHANGED <<rows, here, batch, next, stop, workers, channel, cancelled>>

(* A page is read and its workers are started, fewer than a page is long. *)
ReadPage ==
    /\ main.pc = "page"
    /\ ~cancelled
    /\ PageOf(main.offset) # <<>>
    /\ main' = [main EXCEPT !.pc = "pool", !.page = PageOf(main.offset),
                            !.offset = @ + Len(PageOf(main.offset))]
    /\ next' = 1
    /\ stop' = FALSE
    /\ workers' = [w \in Worker |-> IF w <= Len(PageOf(main.offset))
                                    THEN [Off EXCEPT !.pc = "top"] ELSE Off]
    /\ channel' = <<>>
    /\ UNCHANGED <<rows, here, batch, cancelled>>

(* The page query fails and the command returns: the batch stays running. *)
PageFails ==
    /\ main.pc = "page"
    /\ ~cancelled
    /\ "page" \in Faults
    /\ main' = [main EXCEPT !.pc = "lost"]
    /\ UNCHANGED <<rows, here, batch, next, stop, workers, channel, cancelled>>

-----------------------------------------------------------------------------
(* A worker. *)

Check(w) ==
    /\ workers[w].pc = "top"
    /\ workers' = [workers EXCEPT ![w].pc = IF stop \/ cancelled THEN "off" ELSE "take"]
    /\ UNCHANGED <<rows, here, batch, main, next, stop, channel, cancelled>>

TakeTwice(w) ==
    /\ workers[w].pc = "take"
    /\ next' = next + (IF \E v \in Worker \ {w} : workers[v].pc = "take" THEN 0 ELSE 1)
    /\ workers' = [workers EXCEPT ![w] = IF next > Len(main.page) THEN Off
                     ELSE [pc |-> "mark", idx |-> next, ok |-> TRUE]]
    /\ UNCHANGED <<rows, here, batch, main, stop, channel, cancelled>>

(* next_index.fetch_add(1): one index for one worker. *)
Take(w) ==
    /\ workers[w].pc = "take"
    /\ next' = next + 1
    /\ workers' = [workers EXCEPT ![w] = IF next > Len(main.page) THEN Off
                     ELSE [pc |-> "mark", idx |-> next, ok |-> TRUE]]
    /\ UNCHANGED <<rows, here, batch, main, stop, channel, cancelled>>

(* mark_extraction_running needs a pending row. A semantic worker has none. *)
Mark(w) ==
    LET f == main.page[workers[w].idx]
    IN  /\ workers[w].pc = "mark"
        /\ \/ /\ Kind = "content" => rows[f] = "pending"
              /\ rows' = IF Kind = "content" THEN [rows EXCEPT ![f] = "running"] ELSE rows
              /\ workers' = [workers EXCEPT ![w].pc = "work"]
              /\ UNCHANGED stop
           \/ /\ Kind = "content"
              /\ "mark" \in Faults \/ rows[f] # "pending"
              /\ workers' = [workers EXCEPT ![w].pc = "send", ![w].ok = FALSE]
              /\ stop' = TRUE
              /\ UNCHANGED rows
        /\ UNCHANGED <<here, batch, main, next, channel, cancelled>>

(* The extractor answers with a result whatever the file is like; the       *)
(* semantic provider may fail or panic, or notice the cancellation.         *)
Work(w) ==
    /\ workers[w].pc = "work"
    /\ \E ok \in IF Kind = "semantic" /\ ("provider" \in Faults \/ cancelled)
                 THEN BOOLEAN ELSE {TRUE} :
        workers' = [workers EXCEPT ![w].pc = "send", ![w].ok = ok]
    /\ UNCHANGED <<rows, here, batch, main, next, stop, channel, cancelled>>

(* The channel is bounded: a worker waits while it is full. *)
Send(w) ==
    /\ workers[w].pc = "send"
    /\ Len(channel) < ChannelBound
    /\ channel' = Append(channel, [idx |-> workers[w].idx, ok |-> workers[w].ok])
    /\ workers' = [workers EXCEPT ![w] = [Off EXCEPT !.pc = "top"]]
    /\ UNCHANGED <<rows, here, batch, main, next, stop, cancelled>>

-----------------------------------------------------------------------------
(* The receiving loop. *)

StoredUncounted(f) ==
    /\ rows' = [rows EXCEPT ![f] = "stored"]
    /\ UNCHANGED <<batch, main, stop>>

Stored(f) ==
    /\ rows' = [rows EXCEPT ![f] = "stored"]
    /\ batch' = [batch EXCEPT !.completed = @ + 1]
    /\ UNCHANGED <<main, stop>>

Fatal ==
    /\ main' = [main EXCEPT !.fatal = TRUE]
    /\ stop' = TRUE
    /\ UNCHANGED <<rows, batch>>

(* A result is stored unless an earlier one was fatal. A failed mark is      *)
(* fatal; a failed semantic analysis is stored as a failure, unless the      *)
(* batch was cancelled, which drops it and stops the pool.                   *)
Receive ==
    LET r == Head(channel)
        f == main.page[r.idx]
    IN  /\ main.pc = "pool"
        /\ channel # <<>>
        /\ channel' = Tail(channel)
        /\ \/ /\ r.ok \/ (Kind = "semantic" /\ ~cancelled)
              /\ ~main.fatal
              /\ Stored(f)
           \/ /\ r.ok \/ (Kind = "semantic" /\ ~cancelled)
              /\ ~main.fatal
              /\ "store" \in Faults
              /\ Fatal
           \/ /\ r.ok \/ (Kind = "semantic" /\ ~cancelled)
              /\ main.fatal
              /\ UNCHANGED <<rows, batch, main, stop>>
           \/ /\ ~r.ok /\ Kind = "semantic" /\ cancelled
              /\ stop' = TRUE
              /\ UNCHANGED <<rows, batch, main>>
           \/ /\ ~r.ok /\ Kind = "content"
              /\ Fatal
        /\ UNCHANGED <<here, next, workers, cancelled>>

EndPoolWaitsForAll ==
    /\ main.pc = "pool"
    /\ channel = <<>>
    /\ next > Len(main.page)
    /\ \A w \in Worker : workers[w].pc = "off"
    /\ main' = [main EXCEPT !.pc = IF main.fatal THEN "finish" ELSE "page"]
    /\ UNCHANGED <<rows, here, batch, next, stop, workers, channel, cancelled>>

(* The loop ends when the last sender, the last worker's, is gone. *)
EndPool ==
    /\ main.pc = "pool"
    /\ channel = <<>>
    /\ \A w \in Worker : workers[w].pc = "off"
    /\ main' = [main EXCEPT !.pc = IF main.fatal THEN "finish" ELSE "page"]
    /\ UNCHANGED <<rows, here, batch, next, stop, workers, channel, cancelled>>

-----------------------------------------------------------------------------
FinalStatusIgnoresFatal == IF cancelled THEN "cancelled" ELSE "completed"
FinalStatus == IF cancelled THEN "cancelled" ELSE IF main.fatal THEN "failed" ELSE "completed"

(* finish_extraction_batch ends the rows that are left and counts them;      *)
(* finish_semantic_batch has no rows to end.                                 *)
Finish ==
    LET left == {f \in 1..Files : Kind = "content" /\ rows[f] \in {"pending", "running"}}
    IN  /\ main.pc = "finish"
        /\ main' = [main EXCEPT !.pc = "done"]
        /\ rows' = [f \in 1..Files |-> IF f \in left THEN "ended" ELSE rows[f]]
        /\ batch' = [batch EXCEPT !.status = FinalStatus,
                                  !.completed = @ + Cardinality(left)]
        /\ UNCHANGED <<here, next, stop, workers, channel, cancelled>>

(* cancel_content_analysis, cancel_semantic_analysis. *)
Cancel ==
    /\ MayCancel
    /\ ~cancelled
    /\ main.pc \notin {"done", "lost"}
    /\ cancelled' = TRUE
    /\ UNCHANGED <<rows, here, batch, main, next, stop, workers, channel>>

(* A rescan gives a document a new version, and the join of                 *)
(* semantic_candidates does not find it any more.                           *)
Leave ==
    /\ Kind = "semantic"
    /\ Files - Len(here) < MaxLeft
    /\ main.pc \notin {"done", "lost"}
    /\ \E i \in DOMAIN here : here' = RemoveAt(here, i)
    /\ UNCHANGED <<rows, batch, main, next, stop, workers, channel, cancelled>>

WorkerStep(w) == Check(w) \/ Take(w) \/ Mark(w) \/ Work(w) \/ Send(w)
MainStep == EndLoop \/ ReadPage \/ PageFails \/ Receive \/ EndPool \/ Finish

Next == (\E w \in Worker : WorkerStep(w)) \/ MainStep \/ Cancel \/ Leave

(* Every thread runs until it ends; the user need not cancel. *)
Fairness == WF_vars(MainStep) /\ \A w \in Worker : WF_vars(WorkerStep(w))

Spec == Init /\ [][Next]_vars /\ Fairness

-----------------------------------------------------------------------------
TypeOK ==
    /\ rows \in [1..Files -> {"pending", "running", "stored", "ended"}]
    /\ main.pc \in {"page", "pool", "finish", "done", "lost"}
    /\ batch.completed \in 0..Files
    /\ Len(channel) <= MaxWorkers + Capacity

(* No two workers handle one candidate: neither at the same time nor one     *)
(* after the other has sent its result.                                      *)
OneWorkerPerFile ==
    \A w \in Worker : workers[w].pc \in {"mark", "work", "send"} =>
        /\ \A v \in Worker \ {w} :
              workers[v].pc \in {"mark", "work", "send"} => workers[v].idx # workers[w].idx
        /\ \A i \in DOMAIN channel : channel[i].idx # workers[w].idx
        /\ rows[main.page[workers[w].idx]] # "stored"

(* The count shown to the user is the number of results in the database,     *)
(* and a finished extraction batch accounts for every file it was queued     *)
(* with, however it ended.                                                   *)
CountsAreTrue ==
    /\ batch.completed = Cardinality({f \in 1..Files : rows[f] \in {"stored", "ended"}})
    /\ batch.status # "running" /\ Kind = "content" => batch.completed = batch.queued

(* A batch called completed has a worker's own result for every candidate:   *)
(* pages, workers and the channel lose none. While candidates leave the set  *)
(* behind the offset, it misses at most as many as left.                     *)
CompletedIsComplete ==
    batch.status = "completed" =>
        Cardinality({i \in DOMAIN here : rows[here[i]] # "stored"}) <= Files - Len(here)

(* The batch ends, although workers may wait for room in the channel, the    *)
(* database may fail, and results may be dropped after a fatal one.          *)
BatchEnds == <>(main.pc \in {"done", "lost"})
=============================================================================
