------------------------------ MODULE AnnIndex ------------------------------
(***************************************************************************)
(* The approximate-nearest-neighbour index of one workspace: chunk rows    *)
(* in the database, the USearch index in memory, its snapshot and metadata *)
(* on disk, and the threads that keep them together.                       *)
(*                                                                         *)
(* A file has at most one chunk row; the number of chunks of a file is not *)
(* told apart.  A vector is identified with the analysis it was computed   *)
(* from.  The index and the metadata are two mutexes: persist_snapshot     *)
(* holds the first one from the serialisation to the metadata write, and   *)
(* mark_rebuild_required only needs the second one.  The status column of  *)
(* local_ann_index_state is written by the code and read by nothing, so it *)
(* is left out.                                                            *)
(***************************************************************************)
EXTENDS Integers, FiniteSets, SequencesExt

CONSTANTS
    Files,
    Indexers,      \* threads that run index_semantic_result
    Rebuilders,    \* threads that run rebuild_semantic_ann_index
    MaxAnalyses,   \* bound: semantic analyses stored in a behaviour
    MaxEvents,     \* bound: rescans, deletions, crashes and model commands
    Faults         \* subset of {"crash", "remove", "cancel", "copy"}

\* What is assumed of the parameters.
FaultsAssumption == Faults \subseteq {"crash", "remove", "cancel", "copy"}

VARIABLES
    present,   \* lifecycle_state = 'present', with its search document
    current,   \* number of the file's current semantic analysis, 0 for none
    row,       \* chunk row: its ann key, its analysis, its embedding row
    nextKey,   \* local_ann_index_state.next_ann_key
    analyses,  \* analyses stored so far
    installed, \* the embedding model is available
    opened,    \* ann_indexes holds the workspace's index
    index,     \* the index in memory: no value or a function key -> vector
    lock,      \* the thread that holds the index mutex
    meta,      \* metadata in memory
    snapshot,  \* the .usearch file
    saved,     \* the .ann.meta.json file
    thread,    \* what each thread is doing
    events,    \* bounded events so far
    removed    \* history: a model removal has ended and no rebuild started

dbVars == <<present, current, row, nextKey, analyses>>
annVars == <<opened, index, lock, meta, snapshot, saved>>
vars == <<dbVars, annVars, installed, thread, events, removed>>

Threads == Indexers \cup Rebuilders
Nobody == "nobody"
NoIndex == [k \in {0} |-> 0]   \* no value
Torn == [k \in {0} |-> 1]      \* bytes that are no index
NoRow == [key |-> 0, analysis |-> 0, embedded |-> FALSE]
Idle == [pc |-> "idle", file |-> Nobody, analysis |-> 0, remove |-> 0,
         todo |-> <<>>]
Empty == [k \in {} |-> 0]
NewMeta == [status |-> "not_available", digest |-> NoIndex]
NoMeta == [status |-> "absent", digest |-> NoIndex]
TornMeta == [status |-> "torn", digest |-> NoIndex]   \* bytes that do not parse

Keys == 1 .. MaxAnalyses
Contents == UNION {[S -> 1 .. MaxAnalyses] : S \in SUBSET Keys}
HasIndex == index # NoIndex
Goto(t, pc) == thread' = [thread EXCEPT ![t].pc = pc]
Event == /\ events < MaxEvents
         /\ events' = events + 1

Init ==
    /\ present = [f \in Files |-> TRUE]
    /\ current = [f \in Files |-> 0]
    /\ row = [f \in Files |-> NoRow]
    /\ nextKey = 1
    /\ analyses = 0
    /\ installed = TRUE
    /\ opened = FALSE
    /\ index = NoIndex
    /\ lock = Nobody
    /\ meta = NewMeta
    /\ snapshot = NoIndex
    /\ saved = NoMeta
    /\ thread = [t \in Threads |-> Idle]
    /\ events = 0
    /\ removed = FALSE

-----------------------------------------------------------------------------
(* Opening the index: ann_index_for and load_or_init, under the map's lock *)

Verified(content, digest) == content # NoIndex /\ content = digest

Loads == saved.status = "ready" /\ Verified(snapshot, saved.digest)

Loaded ==
    IF saved = NoMeta
    THEN NewMeta
    ELSE IF saved.status = "ready" /\ ~Loads
         THEN [saved EXCEPT !.status = "rebuild_required"]
         ELSE saved

\* persist_meta: the file is replaced by a rename or, where that fails, by a
\* copy that an error or a crash can cut short.
PersistCutShort == "copy" \in Faults /\ saved' = TornMeta

Open ==
    /\ opened \/ saved # TornMeta
    /\ meta' = IF opened THEN meta ELSE Loaded
    /\ saved' = IF opened THEN saved ELSE Loaded
    /\ index' = IF opened THEN index ELSE IF Loads THEN snapshot ELSE NoIndex
    /\ opened' = TRUE

\* Metadata that do not parse, or cannot be written, are an error of the open:
\* the command goes on without an index, and the next one tries again.
OpenFails ==
    /\ ~opened
    /\ \/ saved = TornMeta /\ UNCHANGED saved
       \/ saved # Loaded /\ PersistCutShort
    /\ UNCHANGED <<opened, index, meta>>

-----------------------------------------------------------------------------
(* The catalogue and the analyses change under the index *)

\* A rescan stores a new version: the analysis is no longer current and its
\* embedding row goes; the chunk row stays.
Rescan(f) ==
    /\ Event
    /\ present' = [present EXCEPT ![f] = TRUE]
    /\ current' = [current EXCEPT ![f] = 0]
    /\ row' = [row EXCEPT ![f].embedded = FALSE]
    /\ UNCHANGED <<nextKey, analyses, annVars, installed, thread, removed>>

\* Monitoring retires the file: every row goes, the index keeps its vectors.
Vanish(f) ==
    /\ present[f]
    /\ Event
    /\ present' = [present EXCEPT ![f] = FALSE]
    /\ row' = [row EXCEPT ![f] = NoRow]
    /\ UNCHANGED <<current, nextKey, analyses, annVars, installed, thread,
                   removed>>

\* The model's vectors are computed before the rows are replaced.
Analyse(t, f) ==
    /\ thread[t] = Idle
    /\ present[f]
    /\ analyses < MaxAnalyses
    /\ analyses' = analyses + 1
    /\ current' = [current EXCEPT ![f] = analyses + 1]
    /\ thread' = IF installed
                 THEN [thread EXCEPT ![t] = [Idle EXCEPT !.pc = "replace",
                                                 !.file = f,
                                                 !.analysis = analyses + 1]]
                 ELSE thread
    /\ UNCHANGED <<present, row, nextKey, annVars, installed, events, removed>>

AllocatedKey == nextKey

Replace(t) ==
    LET f == thread[t].file
        valid == present[f] /\ current[f] = thread[t].analysis
    IN /\ thread[t].pc = "replace"
       /\ row' = IF valid
                 THEN [row EXCEPT ![f] = [key |-> AllocatedKey,
                                          analysis |-> thread[t].analysis,
                                          embedded |-> TRUE]]
                 ELSE row
       /\ nextKey' = IF valid THEN AllocatedKey + 1 ELSE nextKey
       /\ thread' = IF valid
                    THEN [thread EXCEPT ![t].pc = "check",
                              ![t].remove = row[f].key,
                              ![t].todo = <<[key |-> AllocatedKey,
                                             analysis |-> thread[t].analysis]>>]
                    ELSE [thread EXCEPT ![t] = Idle]
       /\ UNCHANGED <<present, current, analyses, annVars, installed, events,
                      removed>>

-----------------------------------------------------------------------------
(* sync_ann_vectors *)

CheckStatus(t) ==
    /\ thread[t].pc = "check"
    /\ \/ /\ Open
          /\ thread' = IF meta'.status = "rebuild_required"
                       THEN [thread EXCEPT ![t] = Idle]
                       ELSE [thread EXCEPT ![t].pc = "remove"]
       \/ OpenFails /\ thread' = [thread EXCEPT ![t] = Idle]
    /\ UNCHANGED <<dbVars, lock, snapshot, installed, events, removed>>

Without(content, key) == [k \in DOMAIN content \ {key} |-> content[k]]

With(content, entry) ==
    [k \in DOMAIN content \cup {entry.key} |->
        IF k = entry.key THEN entry.analysis ELSE content[k]]

RemoveKey(t) ==
    /\ thread[t].pc = "remove"
    /\ lock = Nobody
    /\ index' = IF HasIndex THEN Without(index, thread[t].remove) ELSE index
    /\ Goto(t, "ensure")
    /\ UNCHANGED <<dbVars, opened, lock, meta, snapshot, saved, installed,
                   events, removed>>

\* upsert_vector releases the mutex between ensure_mutable_index and add.
EnsureIndex(t) ==
    /\ thread[t].pc = "ensure"
    /\ thread[t].todo # <<>>
    /\ lock = Nobody
    /\ index' = IF HasIndex THEN index ELSE Empty
    /\ Goto(t, "add")
    /\ UNCHANGED <<dbVars, opened, lock, meta, snapshot, saved, installed,
                   events, removed>>

\* A missing index is ignored by a sync and ends a rebuild with an error.
AddVector(t) ==
    /\ thread[t].pc = "add"
    /\ lock = Nobody
    /\ index' = IF HasIndex THEN With(index, thread[t].todo[1]) ELSE index
    /\ thread' = IF HasIndex \/ t \in Indexers
                 THEN [thread EXCEPT ![t].pc = "ensure",
                                     ![t].todo = Tail(@)]
                 ELSE [thread EXCEPT ![t] = Idle]
    /\ UNCHANGED <<dbVars, opened, lock, meta, snapshot, saved, installed,
                   events, removed>>

\* persist_snapshot without an index in memory.
PersistNothing(t) ==
    /\ thread[t].pc = "ensure"
    /\ thread[t].todo = <<>>
    /\ lock = Nobody
    /\ ~HasIndex
    /\ meta' = [meta EXCEPT !.status = "not_available"]
    /\ saved' = meta' \/ PersistCutShort
    /\ thread' = [thread EXCEPT ![t] = Idle]
    /\ UNCHANGED <<dbVars, opened, index, lock, snapshot, installed, events,
                   removed>>

\* The snapshot is replaced by a rename or, where that fails, by a copy that
\* can be cut short.
PersistFile(t) ==
    /\ thread[t].pc = "ensure"
    /\ thread[t].todo = <<>>
    /\ lock = Nobody
    /\ HasIndex
    /\ lock' = t
    /\ \/ /\ snapshot' = index
          /\ Goto(t, "meta")
       \/ /\ "copy" \in Faults
          /\ snapshot' = Torn
          /\ Goto(t, "copy")
    /\ UNCHANGED <<dbVars, opened, index, meta, saved, installed, events,
                   removed>>

CopyEnds(t) ==
    /\ thread[t].pc = "copy"
    /\ snapshot' = index
    /\ Goto(t, "meta")
    /\ UNCHANGED <<dbVars, opened, index, lock, meta, saved, installed, events,
                   removed>>

\* The copy ends with an error: the metadata stay as they are.
CopyFails(t) ==
    /\ thread[t].pc = "copy"
    /\ lock' = Nobody
    /\ thread' = [thread EXCEPT ![t] = Idle]
    /\ UNCHANGED <<dbVars, opened, index, meta, snapshot, saved, installed,
                   events, removed>>

PersistMeta(t) ==
    /\ thread[t].pc = "meta"
    /\ meta' = [status |-> "ready", digest |-> index]
    /\ saved' = meta' \/ PersistCutShort
    /\ lock' = Nobody
    /\ thread' = [thread EXCEPT ![t] = Idle]
    /\ UNCHANGED <<dbVars, opened, index, snapshot, installed, events, removed>>

-----------------------------------------------------------------------------
(* rebuild_semantic_ann_index *)

StartRebuild(t) ==
    /\ thread[t] = Idle
    /\ installed
    /\ Event
    /\ \/ Open /\ Goto(t, "clear") /\ removed' = FALSE
       \/ OpenFails /\ UNCHANGED <<thread, removed>>
    /\ UNCHANGED <<dbVars, lock, snapshot, installed>>

ClearIndex(t) ==
    /\ thread[t].pc = "clear"
    /\ lock = Nobody
    /\ index' = NoIndex
    /\ Goto(t, "unlink")
    /\ UNCHANGED <<dbVars, opened, lock, meta, snapshot, saved, installed,
                   events, removed>>

ClearFile(t) ==
    /\ thread[t].pc = "unlink"
    /\ snapshot' = NoIndex
    /\ Goto(t, "reset")
    /\ UNCHANGED <<dbVars, opened, index, lock, meta, saved, installed, events,
                   removed>>

\* clear's metadata, then begin_build; an error ends the rebuild.
ClearMeta(t) ==
    /\ thread[t].pc = "reset"
    /\ \/ meta' = NewMeta /\ saved' = NewMeta /\ Goto(t, "begin")
       \/ PersistCutShort /\ meta' = meta /\ thread' = [thread EXCEPT ![t] = Idle]
    /\ UNCHANGED <<dbVars, opened, index, lock, snapshot, installed, events,
                   removed>>

BeginBuild(t) ==
    /\ thread[t].pc = "begin"
    /\ meta' = [meta EXCEPT !.status = "building"]
    /\ \/ saved' = meta' /\ Goto(t, "list")
       \/ PersistCutShort /\ thread' = [thread EXCEPT ![t] = Idle]
    /\ UNCHANGED <<dbVars, opened, index, lock, snapshot, installed, events,
                   removed>>

Listed == {f \in Files : present[f] /\ row[f].embedded}

InKeyOrder(S) == SetToSortSeq(S, LAMBDA x, y : x.key < y.key)

ListVectors(t) ==
    /\ thread[t].pc = "list"
    /\ thread' = [thread EXCEPT ![t].pc = "ensure",
                      ![t].todo = InKeyOrder({[key |-> row[f].key,
                                               analysis |-> row[f].analysis] :
                                              f \in Listed})]
    /\ UNCHANGED <<dbVars, annVars, installed, events, removed>>

CancelRebuild(t) ==
    /\ "cancel" \in Faults
    /\ t \in Rebuilders
    /\ thread[t].pc = "ensure"
    /\ thread[t].todo # <<>>
    /\ meta' = [meta EXCEPT !.status = "rebuild_required"]
    /\ saved' = meta' \/ PersistCutShort
    /\ thread' = [thread EXCEPT ![t] = Idle]
    /\ UNCHANGED <<dbVars, opened, index, lock, snapshot, installed, events,
                   removed>>

-----------------------------------------------------------------------------
(* The model is removed and installed again; the program stops and starts *)

\* remove_local_embedding_model marks only an index that has been opened.
RemoveModel ==
    /\ "remove" \in Faults
    /\ installed
    /\ Event
    /\ installed' = FALSE
    /\ meta' = IF opened THEN [meta EXCEPT !.status = "rebuild_required"]
               ELSE meta
    /\ IF opened THEN saved' = meta' \/ PersistCutShort ELSE UNCHANGED saved
    /\ removed' = TRUE
    /\ UNCHANGED <<dbVars, opened, index, lock, snapshot, thread>>

InstallModel ==
    /\ ~installed
    /\ Event
    /\ installed' = TRUE
    /\ UNCHANGED <<dbVars, annVars, thread, removed>>

Crash ==
    /\ "crash" \in Faults
    /\ Event
    /\ thread' = [t \in Threads |-> Idle]
    /\ opened' = FALSE
    /\ index' = NoIndex
    /\ lock' = Nobody
    /\ meta' = NewMeta
    /\ UNCHANGED <<dbVars, snapshot, saved, installed, removed>>

\* A search opens the index when the query has a vector; what it answers is
\* the operator SearchFiles.
Search ==
    /\ installed
    /\ ~opened
    /\ Open \/ OpenFails
    /\ UNCHANGED <<dbVars, lock, snapshot, installed, thread, events, removed>>

-----------------------------------------------------------------------------
IndexerStep(t) ==
    Replace(t) \/ CheckStatus(t) \/ RemoveKey(t)

RebuilderStep(t) ==
    ClearIndex(t) \/ ClearFile(t) \/ ClearMeta(t) \/ BeginBuild(t)
        \/ ListVectors(t)

SharedStep(t) ==
    \/ EnsureIndex(t) \/ AddVector(t) \/ PersistNothing(t)
    \/ PersistFile(t) \/ CopyEnds(t) \/ CopyFails(t) \/ PersistMeta(t)

Next ==
    \/ \E f \in Files : Rescan(f) \/ Vanish(f)
    \/ \E t \in Indexers, f \in Files : Analyse(t, f)
    \/ \E t \in Indexers : IndexerStep(t)
    \/ \E t \in Rebuilders : StartRebuild(t) \/ RebuilderStep(t) \/ CancelRebuild(t)
    \/ \E t \in Threads : SharedStep(t)
    \/ RemoveModel \/ InstallModel \/ Crash \/ Search

Spec == Init /\ [][Next]_vars

\* A thread that has begun its work goes on: the operating system runs it
\* and nothing in it waits but for the index mutex.
FairSpec ==
    /\ Spec
    /\ \A t \in Indexers : WF_vars(IndexerStep(t) \/ SharedStep(t))
    /\ \A t \in Rebuilders : WF_vars(RebuilderStep(t) \/ SharedStep(t))

-----------------------------------------------------------------------------
(* What a search sees *)

\* map_ann_hits_to_files: the joins on the file and its current analysis.
IsCurrent(f) == present[f] /\ row[f].key # 0 /\ row[f].analysis = current[f]

ExactFiles == {f \in Files : IsCurrent(f) /\ row[f].embedded}

AnnAnswers == installed /\ opened /\ meta.status = "ready"

AnnFiles == {f \in Files : HasIndex /\ IsCurrent(f) /\ row[f].key \in DOMAIN index}

SearchFiles == IF AnnAnswers THEN AnnFiles ELSE ExactFiles

Quiet == \A t \in Threads : thread[t] = Idle

(***************************************************************************)
(* Properties                                                              *)
(***************************************************************************)

TypeOK ==
    /\ present \in [Files -> BOOLEAN]
    /\ current \in [Files -> 0 .. MaxAnalyses]
    /\ \A f \in Files : row[f].key \in 0 .. MaxAnalyses
    /\ nextKey \in 1 .. MaxAnalyses + 1
    /\ analyses \in 0 .. MaxAnalyses
    /\ index \in Contents \cup {NoIndex}
    /\ snapshot \in Contents \cup {NoIndex, Torn}
    /\ lock \in Threads \cup {Nobody}
    /\ meta.status \in {"not_available", "building", "ready", "rebuild_required"}
    /\ saved.status \in {"absent", "torn", "not_available", "building", "ready",
                         "rebuild_required"}

\* A file the index answers with is one the exact scan would answer with: its
\* chunk belongs to the current analysis of a present file (the joins of
\* map_ann_hits_to_files against those of collect_vector_candidates).
StaleIsFiltered == AnnFiles \subseteq ExactFiles

\* A hit is mapped to the row its vector was computed for, although deletions
\* leave vectors behind in the index: a key is never given out twice.
HitIsItsRow ==
    \A f \in Files :
        HasIndex /\ row[f].key \in DOMAIN index
            => index[row[f].key] = row[f].analysis

\* When no thread is at work a search finds every file the exact scan would
\* find, also when the index answers: syncs of two threads, rescans, deletions
\* and a rebuild running beside them lose no vector.
SearchIsComplete == Quiet => ExactFiles \subseteq SearchFiles

LoadedIsDescribedStep ==
    ~opened /\ opened' /\ meta'.status = "ready" => index' = saved.digest

\* What a restart loads and takes as ready is exactly what the last metadata
\* describes: a snapshot cut short while it was copied, or replaced before its
\* metadata was written, and metadata cut short, are refused (load_or_init).
LoadedIsDescribed == [][LoadedIsDescribedStep]_vars

\* CURRENT_STATE.md: "corruption/incompatible -> RebuildRequired": an index that
\* is not open can be opened, whatever a crash left of its files.
\* The code does not keep it for the metadata: see the README.
MetadataOpens == ~opened => saved # TornMeta

\* A started rebuild ends, and whatever syncs run beside it the index is then
\* taken as ready, or as not available when there is nothing to index.
RebuildEnds ==
    \A t \in Rebuilders :
        (thread[t].pc = "clear")
            ~> (thread[t] = Idle /\ meta.status \in {"ready", "not_available"})

\* CURRENT_STATE.md: "Model removal marks ANN rebuild-required": between a
\* removal and the next rebuild no index is taken as ready.
\* The code does not keep it: see the README.
RemovalNeedsRebuild == removed /\ opened => meta.status # "ready"
=============================================================================
