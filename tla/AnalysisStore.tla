---------------------------- MODULE AnalysisStore ----------------------------
(***************************************************************************)
(* What the analysis of one file leaves in the database: its versions, one *)
(* extraction result per batch and version, its search document, its       *)
(* review items, its semantic analyses and the user's correction. Scans,   *)
(* extraction batches, retries, semantic batches, the monitor's deletion   *)
(* and the user's review commands run in threads of their own; each call   *)
(* of the persistence layer holds the one connection and is one action.    *)
(***************************************************************************)
EXTENDS Naturals, FiniteSets, Sequences

CONSTANTS
    Outcomes,      \* what the extraction engine may answer: [status, cat]
    Readability,   \* what a scan may record of the file
    RetryLimit,    \* retry_count at which a retry is refused (5 in the code)
    MaxVersions, MaxBatches, MaxAnalyses   \* bounds of the model

\* What is assumed of the parameters.
AnalysisAssumption ==
    /\ Readability \subseteq {"readable", "unreadable", "not_checked"}
    /\ RetryLimit \in Nat \ {0}
    /\ {MaxVersions, MaxBatches, MaxAnalyses} \subseteq Nat

VARIABLES
    read,      \* the readability recorded with each version, a sequence
    missing,   \* the monitor found the file deleted
    doc,       \* the row of local_search_documents, NoDoc without one
    results,   \* content_extraction_results: one row per batch
    reviews,   \* file_review_items: by version and reason
    analyses,  \* semantic_analyses
    waiting,   \* candidates a semantic page has read and not stored yet
    correction, \* the analysis the active correction was made against, or 0
    closed,    \* items the user resolved or ignored and no result reopened
    last       \* for each version, its last result that was not cancelled, or 0

vars == <<read, missing, doc, results, reviews, analyses, waiting, correction, closed, last>>

None == "none"
Usable == {"success", "partial"}
Unfinished == {"pending", "running"}
NewDoc(v) == [ver |-> v, res |-> 0, status |-> None, sem |-> 0]
NoDoc == NewDoc(0)
Denied == [status |-> "failed", cat |-> "permission_denied"]
Version == 1..Len(read)
Batch == 1..Len(results)
Latest == Len(read)

(* What is written about a version that is not current any more: a newer one *)
(* was scanned, or the file is gone.                                         *)
IsLate(v) == v # Latest \/ missing

-----------------------------------------------------------------------------
(* Review items: one per version and reason. *)

HasItem(rs, v, r) == \E i \in rs : i.ver = v /\ i.reason = r
Item(rs, v, r) == CHOOSE i \in rs : i.ver = v /\ i.reason = r

UpsertForgetsLimit(rs, v, r, sub, avail) ==
    IF HasItem(rs, v, r)
    THEN LET old == Item(rs, v, r)
         IN  (rs \ {old}) \cup
             {[old EXCEPT !.sub = sub,
                          !.status = IF @ = "ignored" THEN @ ELSE "needs_review",
                          !.avail = avail]}
    ELSE rs \cup {[ver |-> v, reason |-> r, sub |-> sub, status |-> "needs_review",
                   retries |-> 0, avail |-> avail]}

UpsertReopensIgnored(rs, v, r, sub, avail) ==
    IF HasItem(rs, v, r)
    THEN LET old == Item(rs, v, r)
         IN  (rs \ {old}) \cup
             {[old EXCEPT !.sub = sub, !.status = "needs_review",
                          !.avail = avail /\ old.retries < RetryLimit]}
    ELSE rs \cup {[ver |-> v, reason |-> r, sub |-> sub, status |-> "needs_review",
                   retries |-> 0, avail |-> avail]}

(* ON CONFLICT(file_version_id, reason) DO UPDATE of the three writers. *)
Upsert(rs, v, r, sub, avail) ==
    IF HasItem(rs, v, r)
    THEN LET old == Item(rs, v, r)
         IN  (rs \ {old}) \cup
             {[old EXCEPT !.sub = sub,
                          !.status = IF @ = "ignored" THEN @ ELSE "needs_review",
                          !.avail = avail /\ old.retries < RetryLimit]}
    ELSE rs \cup {[ver |-> v, reason |-> r, sub |-> sub, status |-> "needs_review",
                   retries |-> 0, avail |-> avail]}

(* Open items that satisfy a condition are resolved. *)
Resolve(rs, which) ==
    {IF i \in which /\ i.status = "needs_review" THEN [i EXCEPT !.status = "resolved"] ELSE i :
        i \in rs}

(* The reason a result is reviewed for, and whether it may be retried. *)
Descriptor(o) ==
    CASE o.cat = "cancelled" -> None
      [] o.cat = "permission_denied" -> "permission_denied"
      [] o.cat = "encrypted_document" -> "encrypted"
      [] o.status = "partial" -> "partial_extraction"
      [] o.status = "failed" -> "extraction_failed"
      [] OTHER -> None

Retryable(reason) == reason # "encrypted"

ReviewOfResolvesLast(rs, v, o) ==
    IF o.cat = "cancelled" THEN rs
    ELSE LET opened == IF Descriptor(o) = None THEN rs
                       ELSE Upsert(rs, v, Descriptor(o), "extraction", Retryable(Descriptor(o)))
         IN  Resolve(opened, {i \in opened : i.ver = v})

(* Every open item of the version is resolved, then the result's is opened. *)
ReviewOf(rs, v, o) ==
    IF o.cat = "cancelled" THEN rs
    ELSE LET cleared == Resolve(rs, {i \in rs : i.ver = v})
         IN  IF Descriptor(o) = None THEN cleared
             ELSE Upsert(cleared, v, Descriptor(o), "extraction", Retryable(Descriptor(o)))

(* The user's closings that the writer's upsert undid are forgotten. *)
StillClosed(rs) == {c \in closed : Item(rs, c[1], c[2]).status # "needs_review"}

-----------------------------------------------------------------------------
(* The search document. *)


(* ensure_search_document makes the document of the latest version again    *)
(* when there is none; the update names the file, not the version.          *)
Indexed(d, b, o) ==
    IF o.cat = "cancelled" THEN d
    ELSE LET e == IF d = NoDoc THEN NewDoc(Latest) ELSE d
         IN  IF o.status \in Usable \/ e.res = 0 \/ e.status \notin Usable
             THEN [e EXCEPT !.res = b, !.status = o.status]
             ELSE e

-----------------------------------------------------------------------------
Init ==
    /\ read = <<>>
    /\ missing = FALSE
    /\ doc = NoDoc
    /\ results = <<>>
    /\ reviews = {}
    /\ analyses = <<>>
    /\ waiting = {}
    /\ correction = 0
    /\ closed = {}
    /\ last = <<>>

(* An unreadable file is listed; a readable one clears the scanner's items. *)
ScannerReview(rs, v, r) ==
    IF r = "unreadable" THEN Upsert(rs, v, "permission_denied", "scanner", TRUE)
    ELSE Resolve(rs, {i \in rs : i.ver = v /\ i.sub = "scanner"})

ScanKeepsText ==
    /\ Len(read) < MaxVersions
    /\ \E r \in Readability :
        LET v == Len(read) + 1
            older == Resolve(reviews, {i \in reviews : i.ver # v})
        IN  /\ read' = Append(read, r)
            /\ doc' = [doc EXCEPT !.ver = v]
            /\ analyses' = [a \in DOMAIN analyses |-> [analyses[a] EXCEPT !.current = FALSE]]
            /\ reviews' = ScannerReview(older, v, r)
    /\ missing' = FALSE
    /\ last' = Append(last, 0)
    /\ UNCHANGED <<results, waiting, correction, closed>>

ScanKeepsCurrent ==
    /\ Len(read) < MaxVersions
    /\ \E r \in Readability :
        LET v == Len(read) + 1
            older == Resolve(reviews, {i \in reviews : i.ver # v})
        IN  /\ read' = Append(read, r)
            /\ doc' = NewDoc(v)
            /\ reviews' = ScannerReview(older, v, r)
    /\ missing' = FALSE
    /\ last' = Append(last, 0)
    /\ UNCHANGED <<results, analyses, waiting, correction, closed>>

(* A full or targeted scan is persisted: a new version of the file, whose   *)
(* document starts empty; analyses and open items of older versions end.    *)
Scan ==
    /\ Len(read) < MaxVersions
    /\ \E r \in Readability :
        LET v == Len(read) + 1
            older == Resolve(reviews, {i \in reviews : i.ver # v})
        IN  /\ read' = Append(read, r)
            /\ doc' = NewDoc(v)
            /\ analyses' = [a \in DOMAIN analyses |-> [analyses[a] EXCEPT !.current = FALSE]]
            /\ reviews' = ScannerReview(older, v, r)
    /\ missing' = FALSE
    /\ last' = Append(last, 0)
    /\ UNCHANGED <<results, waiting, correction, closed>>

MarkMissingKeepsDoc ==
    /\ Latest > 0
    /\ ~missing
    /\ missing' = TRUE
    /\ analyses' = [a \in DOMAIN analyses |-> [analyses[a] EXCEPT !.current = FALSE]]
    /\ UNCHANGED <<read, doc, results, reviews, waiting, correction, closed, last>>

(* The monitor retires the file's only location.                            *)
MarkMissing ==
    /\ Latest > 0
    /\ ~missing
    /\ missing' = TRUE
    /\ doc' = NoDoc
    /\ analyses' = [a \in DOMAIN analyses |-> [analyses[a] EXCEPT !.current = FALSE]]
    /\ UNCHANGED <<read, results, reviews, waiting, correction, closed, last>>

-----------------------------------------------------------------------------
(* Extraction. *)

NewResultUnread(v, readable) ==
    [ver |-> v, status |-> "pending", cat |-> None, readable |-> FALSE, batch |-> "running",
     late |-> FALSE]

NewResult(v, readable) ==
    [ver |-> v, status |-> "pending", cat |-> None, readable |-> readable, batch |-> "running",
     late |-> FALSE]

(* The batch of a scan has a pending row for the version that scan saw.     *)
BeginExtraction ==
    /\ Len(results) < MaxBatches
    /\ \E v \in Version :
        /\ results' = Append(results, NewResult(v, read[v] = "readable"))
    /\ UNCHANGED <<read, missing, doc, reviews, analyses, waiting, correction, closed, last>>

(* An explicit retry of an open item, counted, and reading the file whatever *)
(* the scan recorded.                                                        *)
BeginRetry ==
    /\ Len(results) < MaxBatches
    /\ \E i \in reviews :
        /\ i.status = "needs_review" /\ i.avail /\ i.retries < RetryLimit
        /\ results' = Append(results, NewResult(i.ver, TRUE))
        /\ reviews' = (reviews \ {i}) \cup
             {[i EXCEPT !.retries = @ + 1, !.avail = @ /\ i.retries + 1 < RetryLimit]}
    /\ UNCHANGED <<read, missing, doc, analyses, waiting, correction, closed, last>>

MarkRunning ==
    /\ \E b \in Batch :
        /\ results[b].batch = "running" /\ results[b].status = "pending"
        /\ results' = [results EXCEPT ![b].status = "running"]
    /\ UNCHANGED <<read, missing, doc, reviews, analyses, waiting, correction, closed, last>>

(* A worker's answer: a file not recorded readable is not opened at all.    *)
Answers(b) == IF results[b].readable THEN Outcomes ELSE {Denied}

StoreExtraction ==
    /\ \E b \in Batch : \E o \in Answers(b) :
        /\ results[b].batch = "running" /\ results[b].status = "running"
        /\ results' = [results EXCEPT ![b].status = o.status, ![b].cat = o.cat,
                                      ![b].late = IsLate(results[b].ver)]
        /\ last' = IF o.cat = "cancelled" THEN last ELSE [last EXCEPT ![results[b].ver] = b]
        /\ doc' = Indexed(doc, b, o)
        /\ reviews' = ReviewOf(reviews, results[b].ver, o)
    /\ closed' = StillClosed(reviews')
    /\ UNCHANGED <<read, missing, analyses, waiting, correction>>

(* The rows a batch did not reach, or that ended in a parser failure, are    *)
(* shown as failed unless the batch was cancelled.                           *)
SyncUnfinished(b, cat) ==
    /\ doc' = IF doc # NoDoc /\ cat = "parser_failure" /\ doc.ver = results[b].ver
                 /\ (doc.res = 0 \/ doc.status \notin Usable)
              THEN [doc EXCEPT !.res = b, !.status = "failed"] ELSE doc
    /\ reviews' = IF cat = "parser_failure"
                  THEN Upsert(reviews, results[b].ver, "extraction_failed", "extraction", TRUE)
                  ELSE reviews

(* finish_extraction_batch: completed when every row has its result, failed  *)
(* when a worker or a store failed, cancelled on request.                    *)
FinishExtraction ==
    /\ \E b \in Batch, end \in {"completed", "failed", "cancelled"} :
        LET open == results[b].status \in Unfinished
            row == IF ~open THEN results[b]
                   ELSE IF end = "cancelled"
                   THEN [results[b] EXCEPT !.status = "skipped", !.cat = "cancelled"]
                   ELSE [results[b] EXCEPT !.status = "failed", !.cat = "parser_failure"]
        IN  /\ results[b].batch = "running"
            /\ end = "completed" => ~open
            /\ results' = [results EXCEPT ![b] =
                              [row EXCEPT !.batch = end,
                                          !.late = @ \/ /\ end # "cancelled"
                                                        /\ row.cat = "parser_failure"
                                                        /\ IsLate(row.ver)]]
            /\ last' = IF open /\ end # "cancelled" THEN [last EXCEPT ![row.ver] = b] ELSE last
            /\ IF end = "cancelled" THEN UNCHANGED <<doc, reviews>>
               ELSE SyncUnfinished(b, row.cat)
    /\ closed' = StillClosed(reviews')
    /\ UNCHANGED <<read, missing, analyses, waiting, correction>>

-----------------------------------------------------------------------------
(* Semantic analysis. *)

(* A page of a semantic batch joins the document with its extraction result, *)
(* and looks for the scan in the result only.                                *)
ReadCandidate ==
    /\ Len(analyses) + Cardinality(waiting) < MaxAnalyses
    /\ doc # NoDoc
    /\ doc.res # 0
    /\ results[doc.res].status \notin Unfinished
    /\ waiting' = waiting \cup {[ver |-> doc.ver, res |-> doc.res]}
    /\ UNCHANGED <<read, missing, doc, results, reviews, analyses, correction, closed, last>>

Superseded(v) ==
    [a \in DOMAIN analyses |->
        IF analyses[a].ver = v THEN [analyses[a] EXCEPT !.current = FALSE] ELSE analyses[a]]

(* begin_semantic_analysis and store_semantic_analysis, one after the other  *)
(* in the receiving thread; the row between them is current for nobody.      *)
StoreSemantic ==
    /\ \E c \in waiting, ambiguous \in BOOLEAN :
        /\ waiting' = waiting \ {c}
        /\ analyses' = Append(Superseded(c.ver),
                              [ver |-> c.ver, res |-> c.res, status |-> "success",
                               current |-> TRUE, late |-> IsLate(c.ver)])
        /\ doc' = IF doc # NoDoc /\ doc.ver = c.ver
                  THEN [doc EXCEPT !.sem = Len(analyses) + 1] ELSE doc
        /\ reviews' = IF ambiguous
                      THEN Upsert(reviews, c.ver, "semantic_ambiguity", "semantic", FALSE)
                      ELSE Resolve(reviews, {i \in reviews : /\ i.ver = c.ver
                                                             /\ i.reason = "semantic_ambiguity"
                                                             /\ i.sub = "semantic"})
    /\ closed' = StillClosed(reviews')
    /\ UNCHANGED <<read, missing, results, correction, last>>

(* A failed analysis is current only where the version has none. *)
StoreSemanticFailure ==
    /\ \E c \in waiting :
        LET first == \A a \in DOMAIN analyses : ~(analyses[a].ver = c.ver /\ analyses[a].current)
        IN  /\ waiting' = waiting \ {c}
            /\ analyses' = Append(analyses, [ver |-> c.ver, res |-> c.res,
                                             status |-> "failed", current |-> first,
                                             late |-> IsLate(c.ver)])
            /\ doc' = IF first /\ doc # NoDoc /\ doc.ver = c.ver
                      THEN [doc EXCEPT !.sem = Len(analyses) + 1] ELSE doc
    /\ UNCHANGED <<read, missing, results, reviews, correction, closed, last>>

(* A cancelled batch drops what its workers had read. *)
DropCandidate ==
    /\ \E c \in waiting : waiting' = waiting \ {c}
    /\ UNCHANGED <<read, missing, doc, results, reviews, analyses, correction, closed, last>>

-----------------------------------------------------------------------------
(* The user. *)

(* The correction is made against whichever current analysis of the file the *)
(* query returns first, and resolves the semantic items of every version.    *)
Correct ==
    /\ \E a \in DOMAIN analyses :
        /\ analyses[a].current /\ analyses[a].status = "success"
        /\ correction' = a
    /\ reviews' = Resolve(reviews, {i \in reviews : i.sub = "semantic"})
    /\ UNCHANGED <<read, missing, doc, results, analyses, waiting, closed, last>>

UpdateReview ==
    /\ \E i \in reviews, s \in {"resolved", "ignored"} :
        /\ i.status # s
        /\ reviews' = (reviews \ {i}) \cup {[i EXCEPT !.status = s]}
        /\ closed' = closed \cup {<<i.ver, i.reason>>}
    /\ UNCHANGED <<read, missing, doc, results, analyses, waiting, correction, last>>

-----------------------------------------------------------------------------
Next ==
    \/ Scan \/ MarkMissing
    \/ BeginExtraction \/ BeginRetry \/ MarkRunning \/ StoreExtraction \/ FinishExtraction
    \/ ReadCandidate \/ StoreSemantic \/ StoreSemanticFailure \/ DropCandidate
    \/ Correct \/ UpdateReview

Spec == Init /\ [][Next]_vars

-----------------------------------------------------------------------------
TypeOK ==
    /\ missing \in BOOLEAN
    /\ doc # NoDoc => /\ doc.ver \in Version
                      /\ doc.res \in 0..Len(results)
                      /\ doc.sem \in 0..Len(analyses)
    /\ \A i \in reviews : i.ver \in Version /\ i.status \in {"needs_review", "resolved", "ignored"}
    /\ \A i, j \in reviews : i.ver = j.ver /\ i.reason = j.reason => i = j
    /\ \A b \in Batch : results[b].ver \in Version

(* An item that reached the limit of explicit retries is never offered for   *)
(* another, whichever of the scanner, an extraction or a finished batch      *)
(* writes it again.                                                          *)
RetriesAreCapped ==
    \A i \in reviews : i.retries <= RetryLimit /\ (i.avail => i.retries < RetryLimit)

IgnoredStaysStep ==
    \A i \in reviews : i.status = "ignored" =>
          \/ Item(reviews', i.ver, i.reason).status = "ignored"
          \/ <<i.ver, i.reason>> \in closed' /\ Item(reviews', i.ver, i.reason).status = "resolved"

(* What the user ignored stays ignored until the user decides otherwise,     *)
(* although batches, retries, scans and semantic analyses of the same file   *)
(* keep finding the same problem.                                            *)
IgnoredStays == [][IgnoredStaysStep]_vars

UsableIndexKeptStep ==
    doc # NoDoc /\ doc' # NoDoc /\ doc.ver = doc'.ver /\ doc.status \in Usable
         => doc'.status \in Usable

(* A failed retry or an interrupted batch never replaces the usable text of   *)
(* the version that is indexed.                                               *)
UsableIndexKept == [][UsableIndexKeptStep]_vars

(* The problem the last extraction of a version met, if it was not a          *)
(* cancelled one, is in the review list, and for the current version open      *)
(* unless the user closed it: an overlapping batch, a retry that is cancelled  *)
(* and a semantic analysis do not lose it, whichever of them is stored last.   *)
ProblemIsListed ==
    \A v \in Version : last[v] # 0 =>
        LET r == Descriptor(results[last[v]])
        IN  r # None => /\ HasItem(reviews, v, r)
                        /\ \/ v # Latest
                           \/ Item(reviews, v, r).status = "needs_review"
                           \/ <<v, r>> \in closed

(* "Extraction failed" is only said of a version some extraction failed on.   *)
FailedItemIsTrue ==
    \A i \in reviews : i.reason = "extraction_failed" /\ i.status = "needs_review" =>
        \E b \in Batch : results[b].ver = i.ver /\ results[b].status = "failed"

(* Access is only said to be denied where a scan found the file unreadable or *)
(* a read of it was refused; and an open item says so no longer once a later   *)
(* extraction has read the file.                                              *)
DenialIsTrue ==
    /\ \A b \in Batch : results[b].cat = "permission_denied" =>
        read[results[b].ver] = "unreadable" \/ results[b].readable
    /\ \A i \in reviews : i.reason = "permission_denied" /\ i.status = "needs_review" =>
        IF last[i.ver] = 0 THEN read[i.ver] = "unreadable"
        ELSE results[last[i.ver]].status \notin Usable

(* A current analysis is of the latest version of a file that is there, made   *)
(* from the text of that version, unless a result came late: its version had   *)
(* ended when it was stored.                                                  *)
EvidenceIsCurrent ==
    \A a \in DOMAIN analyses : analyses[a].current =>
        /\ ~IsLate(analyses[a].ver) \/ analyses[a].late
        /\ LET r == results[analyses[a].res] IN r.ver = analyses[a].ver \/ r.late

(* The text a search finds is the text of the version the document is of, or   *)
(* a late result.                                                             *)
IndexIsOfVersion ==
    doc # NoDoc /\ doc.res # 0 => results[doc.res].ver = doc.ver \/ results[doc.res].late

(* A file whose deletion was confirmed is found by no search, unless a result  *)
(* of it came late.                                                           *)
DeletedIsNotFound == missing => doc = NoDoc \/ (doc.res # 0 /\ results[doc.res].late)

(* Without that exception: semantic evidence is of the current version, and    *)
(* rests on its text. The code does not keep it: see the README.              *)
EvidenceMatchesVersion ==
    \A a \in DOMAIN analyses : analyses[a].current =>
        /\ ~IsLate(analyses[a].ver)
        /\ results[analyses[a].res].ver = analyses[a].ver
=============================================================================
