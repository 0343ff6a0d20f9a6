--------------------------- MODULE MCUnderstanding ---------------------------
(***************************************************************************)
(* What is known of the content of files and how it is found again: the    *)
(* results of extraction, the fields of a document, the vector index with  *)
(* its model, and the search over all of it.  The parts are checked side   *)
(* by side: the initial state says which of them a behaviour is about, and *)
(* the variables of the others are Off.                                    *)
(***************************************************************************)
EXTENDS Integers, Sequences, TLC

CONSTANTS
  Nil, Unknown, Missing,
  IndexedFiles, Indexers,    \* files and indexing threads of the vector index
  Assets                 \* files of the embedding model

VARIABLES
  part,       \* the part that this behaviour is about
  read, missing, doc, results, reviews, storeAnalyses, waiting,
  storeCorrection, closed, last,
  input, stage, quality, fields, reasons, status,
  present, current, row, nextKey, annAnalyses, installed, opened, index,
  annLock, meta, snapshot, saved, annThread, events, removed,
  dir, staging, backup, loaded, modelLock, cancel, modelThread, commands,
  crashes, gone,
  field, entity, projection, searchCorrection, identity, signal, answer

Out(s, c) == [status |-> s, cat |-> c]
PlainOutcomes == {Out("success", "none"), Out("failed", "parser_failure")}
DeniedOutcomes == {Out("success", "none"), Out("failed", "permission_denied")}
EndedOutcomes == {Out("success", "none"), Out("skipped", "cancelled")}
AllOutcomes ==
  PlainOutcomes \cup DeniedOutcomes \cup 
    {Out("partial", "none"), Out("failed", "encrypted_document"), Out("skipped", "cancelled")}

\* How well a document was extracted.
Extractions ==
  [extraction : {"success", "partial", "unsupported", "failed"}, truncated : BOOLEAN,
   limited : BOOLEAN, ocr : {Nil, 3500, 7000, 9500}, malformed : BOOLEAN]
With(e, empty, indicators, report, media, hint, business, personal, totals, dates, french) ==
  [extraction |-> e.extraction, truncated |-> e.truncated, limited |-> e.limited,
   ocr |-> e.ocr, malformed |-> e.malformed, empty |-> empty,
   indicators |-> indicators, report |-> report, media |-> media, hint |-> hint,
   business |-> business, personal |-> personal, totals |-> totals, dates |-> dates,
   french |-> french]
Marks == {"number", "header", "total", "supplier"}

\* Files without text of each media type, and texts that differ in what decides
\* their type and context.
TypeInputs ==
  {With(e, TRUE, {}, FALSE, media, hint, 0, 0, <<>>, <<>>, FALSE) :
     e \in {x \in Extractions : ~x.limited /\ ~x.malformed},
     media \in {Nil, "photo", "spreadsheet"}, hint \in BOOLEAN}
  \cup
  {With(e, FALSE, indicators, report, media, hint, business, personal, <<>>, <<>>, FALSE) :
     e \in {x \in Extractions : ~x.limited /\ ~x.truncated},
     indicators \in SUBSET Marks, report \in BOOLEAN, media \in {Nil, "spreadsheet"},
     hint \in BOOLEAN, business \in {0, 2}, personal \in {0, 2}}

\* An invoice with up to three totals.
Amount(whole, fraction, currency, before) ==
  [whole |-> whole, fraction |-> fraction, currency |-> currency, before |-> before]
Amounts ==
  {Amount(12, <<>>, "EUR", FALSE), Amount(12, <<5>>, "EUR", FALSE),
   Amount(12, <<5, 0>>, "EUR", TRUE), Amount(12, <<5>>, "$", TRUE),
   Amount(1437, <<8, 2>>, "EUR", FALSE), Amount(1437, <<8, 2>>, Nil, FALSE),
   Amount(1437, <<>>, "$", TRUE)}
TotalInputs ==
  {With(e, FALSE, Marks, FALSE, Nil, FALSE, 2, 0, totals, <<>>, FALSE) :
     e \in {x \in Extractions : ~x.limited}, totals \in UNION {[1..n -> Amounts] : n \in 1..3}}

\* An invoice with up to two dates.
Date(form, a, b, year, labelled) ==
  [form |-> form, a |-> a, b |-> b, year |-> year, labelled |-> labelled]
SomeDates ==
  {Date("iso", 4, 3, 2026, l) : l \in BOOLEAN}
    \cup {Date("text", 3, 4, 2026, FALSE), Date("text", 2, 29, 2100, TRUE)}
    \cup {Date("numeric", a, b, 2026, l) : a \in {3, 4, 13}, b \in {3, 4}, l \in BOOLEAN}
    \cup {Date("numeric", 4, 13, 2026, TRUE), Date("numeric", 29, 2, 2025, TRUE),
          Date("numeric", 13, 14, 2026, TRUE), Date("numeric", 3, 4, 1826, TRUE)}
DateInputs ==
  {With(e, FALSE, Marks, FALSE, Nil, FALSE, 2, 0, <<>>, dates, french) :
     e \in {x \in Extractions : ~x.limited /\ ~x.truncated},
     dates \in UNION {[1..n -> SomeDates] : n \in 0..2}, french \in BOOLEAN}

\* Requests of a user: what the words of the query were interpreted as, a party
\* guessed from them, the filters, the text and the order.
Ask(attributes, want, party, filter, text, sort) ==
  [want |-> [k \in attributes |-> IF k \in DOMAIN want THEN want[k] ELSE Nil],
   party |-> party,
   filter |-> [k \in attributes |-> IF k \in DOMAIN filter THEN filter[k] ELSE Nil],
   text |-> text, sort |-> sort]
Row(v, c) == [value |-> v, confidence |-> c]
Modification == <<1, Nil>>

\* Filters over amounts and dates.
Found(amount, date, unlabelled) ==
  [field |-> [k \in {"amount", "date"} |-> IF k = "amount" THEN amount ELSE date],
   entity |-> [k \in {"amount", "date"} |-> IF k = "amount" THEN unlabelled ELSE {}]]
FilterAnalyses ==
  {Found(Row("a", 90), Row("a", 90), {}), Found(Row("b", 90), Row("a", 90), {"a"}),
   Found(Row(Nil, 0), Row("b", 90), {}), Found(Row("b", 90), Row(Nil, 0), {})}
FilterCorrections == {<<"amount", "a">>, <<"amount", "b">>, <<"date", "a">>}
Filter(f, text, sort) == Ask({"amount", "date"}, <<>>, Nil, f, text, sort)
FilterQueries ==
  {Filter([amount |-> x, date |-> y], "empty", s) :
      x \in {Nil, "a"}, y \in {Nil, "a"}, s \in {"size"}}
  \cup {Filter(<<>>, "empty", s) : s \in {"filename", "newest", "oldest"}}
  \cup {Filter([amount |-> "a"], "fillers", "relevance")}

\* Text queries over types and suppliers.
Typed(type, supplier) ==
  [field |-> [k \in {"type", "supplier"} |-> IF k = "type" THEN type ELSE supplier],
   entity |-> <<>>]
TextAnalyses == {Typed(Row("a", 90), Row("b", 65)), Typed(Row("b", 65), Row("a", 95))}
TextCorrections == {<<"type", "a">>, <<"supplier", "b">>}
TextIdentities == {<<[value |-> "a", confidence |-> 90, confirmed |-> TRUE]>>,
                   <<[value |-> "a", confidence |-> 50, confirmed |-> FALSE]>>}
Heard(lexical, similarity, boost) ==
  [lexical |-> lexical, similarity |-> similarity, boost |-> boost]
SilentSignals == {Heard(<<Nil, Nil>>, <<Nil, Nil>>, <<0, 0>>)}
TextSignals ==
  {Heard(<<Nil, 99>>, <<99, 99>>, <<0, 0>>), Heard(<<Nil, Nil>>, <<20, 99>>, <<0, 0>>),
   Heard(<<99, 51>>, <<40, 99>>, <<1500, 0>>)}
FusionSignals == {Heard(<<Nil, 51>>, <<Nil, Nil>>, <<0, 0>>),
                  Heard(<<Nil, 51>>, <<Nil, 40>>, <<1500, 0>>)}
Words(want, party) == Ask({"type", "supplier"}, want, party, <<>>, "words", "relevance")
TextQueries ==
  {Words(w, Nil) : w \in {[supplier |-> "a"], [type |-> "a", supplier |-> "b"]}}
  \cup {Words(<<>>, "a")}

\* Files and threads of the vector index are interchangeable.
Symmetry == Permutations(IndexedFiles) \cup Permutations(Indexers)

Reviews == INSTANCE AnalysisStore WITH
  Outcomes <- PlainOutcomes,
  Readability <- {"readable"}, RetryLimit <- 2,
  MaxVersions <- 1, MaxBatches <- 3, MaxAnalyses <- 0,
  analyses <- storeAnalyses, correction <- storeCorrection
Versions == INSTANCE AnalysisStore WITH
  Outcomes <- DeniedOutcomes,
  Readability <- {"readable", "unreadable"}, RetryLimit <- 1,
  MaxVersions <- 2, MaxBatches <- 2, MaxAnalyses <- 0,
  analyses <- storeAnalyses, correction <- storeCorrection
Evidence == INSTANCE AnalysisStore WITH
  Outcomes <- EndedOutcomes,
  Readability <- {"readable"}, RetryLimit <- 1,
  MaxVersions <- 2, MaxBatches <- 2, MaxAnalyses <- 1,
  analyses <- storeAnalyses, correction <- storeCorrection
Problems == INSTANCE AnalysisStore WITH
  Outcomes <- DeniedOutcomes,
  Readability <- {"readable"}, RetryLimit <- 1,
  MaxVersions <- 1, MaxBatches <- 2, MaxAnalyses <- 1,
  analyses <- storeAnalyses, correction <- storeCorrection
AllResults == INSTANCE AnalysisStore WITH
  Outcomes <- AllOutcomes,
  Readability <- {"readable", "unreadable"}, RetryLimit <- 1,
  MaxVersions <- 1, MaxBatches <- 2, MaxAnalyses <- 0,
  analyses <- storeAnalyses, correction <- storeCorrection
Types == INSTANCE SemanticFields WITH
  None <- Nil, Inputs <- TypeInputs
Totals == INSTANCE SemanticFields WITH
  None <- Nil, Inputs <- TotalInputs
Dates == INSTANCE SemanticFields WITH
  None <- Nil, Inputs <- DateInputs
Ann == INSTANCE AnnIndex WITH
  Files <- IndexedFiles,
  Rebuilders <- {"rebuild"}, MaxAnalyses <- 2, MaxEvents <- 2, Faults <- {},
  analyses <- annAnalyses, lock <- annLock, thread <- annThread
Restart == INSTANCE AnnIndex WITH
  Files <- IndexedFiles,
  Indexers <- {"index"}, Rebuilders <- {"rebuild"}, MaxAnalyses <- 2,
  MaxEvents <- 3, Faults <- {"crash", "copy", "remove", "cancel"},
  analyses <- annAnalyses, lock <- annLock, thread <- annThread
Model == INSTANCE EmbeddingModel WITH
  EnvSources <- {{}, Assets},
  Installers <- {"install"}, Removers <- {}, Embedders <- {"e1", "e2"},
  MaxCommands <- 4, MaxCrashes <- 2, OneCommand <- TRUE, Bad <- TRUE,
  lock <- modelLock, thread <- modelThread
Removal == INSTANCE EmbeddingModel WITH
  EnvSources <- {{}, Assets},
  Installers <- {"install"}, Removers <- {"remove"}, Embedders <- {},
  MaxCommands <- 5, MaxCrashes <- 2, OneCommand <- TRUE, Bad <- TRUE,
  lock <- modelLock, thread <- modelThread
Filters == INSTANCE HybridSearch WITH
  None <- Nil, Files <- {1, 2},
  Attributes <- {"amount", "date"}, Values <- {"a", "b"}, Within <- {},
  Analyses <- FilterAnalyses, Corrections <- FilterCorrections,
  Identities <- {<<>>}, Signals <- SilentSignals, Queries <- FilterQueries,
  FileName <- <<1, 1>>, Size <- <<1, 1>>, Modified <- Modification,
  PageSize <- 1, PerSignal <- 2, MaxFusion <- 2, correction <- searchCorrection
Text == INSTANCE HybridSearch WITH
  None <- Nil, Files <- {1, 2},
  Attributes <- {"type", "supplier"}, Values <- {"a", "b"}, Within <- {},
  Analyses <- TextAnalyses, Corrections <- TextCorrections,
  Identities <- TextIdentities, Signals <- TextSignals, Queries <- TextQueries,
  FileName <- <<1, 1>>, Size <- <<1, 1>>, Modified <- Modification,
  PageSize <- 1, PerSignal <- 2, MaxFusion <- 2, correction <- searchCorrection
Fusion == INSTANCE HybridSearch WITH
  None <- Nil, Files <- {1, 2},
  Attributes <- {"type", "supplier"}, Values <- {"a", "b"}, Within <- {},
  Analyses <- TextAnalyses, Corrections <- TextCorrections,
  Identities <- TextIdentities, Signals <- FusionSignals,
  Queries <- TextQueries, FileName <- <<1, 1>>, Size <- <<1, 1>>,
  Modified <- Modification, PageSize <- 1, PerSignal <- 2, MaxFusion <- 1,
  correction <- searchCorrection

ASSUME PartsAssumption ==
  /\ Reviews!AnalysisAssumption /\ Versions!AnalysisAssumption
  /\ Evidence!AnalysisAssumption /\ Problems!AnalysisAssumption
  /\ AllResults!AnalysisAssumption
  /\ Ann!FaultsAssumption /\ Restart!FaultsAssumption

\* The variables of a part that does not run.
Off == "off"
ReviewsOff ==
  /\ read = Off /\ missing = Off /\ doc = Off /\ results = Off
  /\ reviews = Off /\ storeAnalyses = Off /\ waiting = Off
  /\ storeCorrection = Off /\ closed = Off /\ last = Off
TypesOff ==
  /\ input = Off /\ stage = Off /\ quality = Off /\ fields = Off
  /\ reasons = Off /\ status = Off
AnnOff ==
  /\ present = Off /\ current = Off /\ row = Off /\ nextKey = Off
  /\ annAnalyses = Off /\ installed = Off /\ opened = Off /\ index = Off
  /\ annLock = Off /\ meta = Off /\ snapshot = Off /\ saved = Off
  /\ annThread = Off /\ events = Off /\ removed = Off
ModelOff ==
  /\ dir = Off /\ staging = Off /\ backup = Off /\ loaded = Off
  /\ modelLock = Off /\ cancel = Off /\ modelThread = Off /\ commands = Off
  /\ crashes = Off /\ gone = Off
FiltersOff ==
  /\ field = Off /\ entity = Off /\ projection = Off
  /\ searchCorrection = Off /\ identity = Off /\ signal = Off /\ answer = Off

storeVars ==
  <<read, missing, doc, results, reviews, storeAnalyses, waiting,
    storeCorrection, closed, last>>
fieldVars ==
  <<input, stage, quality, fields, reasons, status>>
annVars ==
  <<present, current, row, nextKey, annAnalyses, installed, opened,
    index, annLock, meta, snapshot, saved, annThread, events, removed>>
modelVars ==
  <<dir, staging, backup, loaded, modelLock, cancel, modelThread,
    commands, crashes, gone>>
searchVars ==
  <<field, entity, projection, searchCorrection, identity,
    signal, answer>>

Init ==
  \/ part = "reviews" /\ Reviews!Init /\ TypesOff /\ AnnOff /\ ModelOff /\
       FiltersOff
  \/ part = "versions" /\ Versions!Init /\ TypesOff /\ AnnOff /\ ModelOff /\
       FiltersOff
  \/ part = "evidence" /\ Evidence!Init /\ TypesOff /\ AnnOff /\ ModelOff /\
       FiltersOff
  \/ part = "problems" /\ Problems!Init /\ TypesOff /\ AnnOff /\ ModelOff /\
       FiltersOff
  \/ part = "outcomes" /\ AllResults!Init /\ TypesOff /\ AnnOff /\ ModelOff /\
       FiltersOff
  \/ part = "types" /\ Types!Init /\ ReviewsOff /\ AnnOff /\ ModelOff /\
       FiltersOff
  \/ part = "totals" /\ Totals!Init /\ ReviewsOff /\ AnnOff /\ ModelOff /\
       FiltersOff
  \/ part = "dates" /\ Dates!Init /\ ReviewsOff /\ AnnOff /\ ModelOff /\
       FiltersOff
  \/ part = "ann" /\ Ann!Init /\ ReviewsOff /\ TypesOff /\ ModelOff /\
       FiltersOff
  \/ part = "restart" /\ Restart!Init /\ ReviewsOff /\ TypesOff /\ ModelOff /\
       FiltersOff
  \/ part = "model" /\ Model!Init /\ ReviewsOff /\ TypesOff /\ AnnOff /\
       FiltersOff
  \/ part = "removal" /\ Removal!Init /\ ReviewsOff /\ TypesOff /\ AnnOff /\
       FiltersOff
  \/ part = "filters" /\ Filters!Init /\ ReviewsOff /\ TypesOff /\ AnnOff /\
       ModelOff
  \/ part = "text" /\ Text!Init /\ ReviewsOff /\ TypesOff /\ AnnOff /\ ModelOff
  \/ part = "fusion" /\ Fusion!Init /\ ReviewsOff /\ TypesOff /\ AnnOff /\
       ModelOff

Next ==
  \/ part = "reviews" /\ Reviews!Next /\ UNCHANGED <<part, fieldVars, annVars,
       modelVars, searchVars>>
  \/ part = "versions" /\ Versions!Next /\ UNCHANGED <<part, fieldVars, annVars,
       modelVars, searchVars>>
  \/ part = "evidence" /\ Evidence!Next /\ UNCHANGED <<part, fieldVars, annVars,
       modelVars, searchVars>>
  \/ part = "problems" /\ Problems!Next /\ UNCHANGED <<part, fieldVars, annVars,
       modelVars, searchVars>>
  \/ part = "outcomes" /\ AllResults!Next /\ UNCHANGED <<part, fieldVars,
       annVars, modelVars, searchVars>>
  \/ part = "types" /\ Types!Next /\ UNCHANGED <<part, storeVars, annVars,
       modelVars, searchVars>>
  \/ part = "totals" /\ Totals!Next /\ UNCHANGED <<part, storeVars, annVars,
       modelVars, searchVars>>
  \/ part = "dates" /\ Dates!Next /\ UNCHANGED <<part, storeVars, annVars,
       modelVars, searchVars>>
  \/ part = "ann" /\ Ann!Next /\ UNCHANGED <<part, storeVars, fieldVars,
       modelVars, searchVars>>
  \/ part = "restart" /\ Restart!Next /\ UNCHANGED <<part, storeVars,
       fieldVars, modelVars, searchVars>>
  \/ part = "model" /\ Model!Next /\ UNCHANGED <<part, storeVars, fieldVars,
       annVars, searchVars>>
  \/ part = "removal" /\ Removal!Next /\ UNCHANGED <<part, storeVars, fieldVars,
       annVars, searchVars>>
  \/ part = "filters" /\ Filters!Next /\ UNCHANGED <<part, storeVars,
       fieldVars, annVars, modelVars>>
  \/ part = "text" /\ Text!Next /\ UNCHANGED <<part, storeVars, fieldVars,
       annVars, modelVars>>
  \/ part = "fusion" /\ Fusion!Next /\ UNCHANGED <<part, storeVars, fieldVars,
       annVars, modelVars>>

vars == <<part, storeVars, fieldVars, annVars, modelVars, searchVars>>

Spec == Init /\ [][Next]_vars

\* An item that reached the limit of explicit retries is never offered for
\* another, whichever of the scanner, an extraction or a finished batch writes
\* it again.
RetriesAreCapped ==
  /\ part = "reviews" => Reviews!RetriesAreCapped
  /\ part = "versions" => Versions!RetriesAreCapped
  /\ part = "evidence" => Evidence!RetriesAreCapped
  /\ part = "problems" => Problems!RetriesAreCapped
  /\ part = "outcomes" => AllResults!RetriesAreCapped

\* The problem the last extraction of a version met, if it was not a cancelled
\* one, is in the review list, and for the current version open unless the user
\* closed it: an overlapping batch, a retry that is cancelled and a semantic
\* analysis do not lose it, whichever of them is stored last.
ProblemIsListed ==
  /\ part = "reviews" => Reviews!ProblemIsListed
  /\ part = "versions" => Versions!ProblemIsListed
  /\ part = "evidence" => Evidence!ProblemIsListed
  /\ part = "problems" => Problems!ProblemIsListed
  /\ part = "outcomes" => AllResults!ProblemIsListed

\* "Extraction failed" is only said of a version some extraction failed on.
FailedItemIsTrue ==
  /\ part = "reviews" => Reviews!FailedItemIsTrue
  /\ part = "versions" => Versions!FailedItemIsTrue
  /\ part = "evidence" => Evidence!FailedItemIsTrue
  /\ part = "problems" => Problems!FailedItemIsTrue
  /\ part = "outcomes" => AllResults!FailedItemIsTrue

\* A failed retry or an interrupted batch never replaces the usable text of
\* the version that is indexed.
UsableIndexKept ==
  [][/\ part = "reviews" => Reviews!UsableIndexKeptStep
     /\ part = "versions" => Versions!UsableIndexKeptStep
     /\ part = "evidence" => Evidence!UsableIndexKeptStep
     /\ part = "problems" => Problems!UsableIndexKeptStep
     /\ part = "outcomes" => AllResults!UsableIndexKeptStep]_vars

\* Access is only said to be denied where a scan found the file unreadable or
\* a read of it was refused; and an open item says so no longer once a later
\* extraction has read the file.
DenialIsTrue ==
  /\ part = "versions" => Versions!DenialIsTrue
  /\ part = "evidence" => Evidence!DenialIsTrue
  /\ part = "problems" => Problems!DenialIsTrue
  /\ part = "outcomes" => AllResults!DenialIsTrue

\* A current analysis is of the latest version of a file that is there, made
\* from the text of that version, unless a result came late: its version had
\* ended when it was stored.
EvidenceIsCurrent ==
  /\ part = "evidence" => Evidence!EvidenceIsCurrent
  /\ part = "problems" => Problems!EvidenceIsCurrent

\* The text a search finds is the text of the version the document is of, or a
\* late result.
IndexIsOfVersion ==
  /\ part = "versions" => Versions!IndexIsOfVersion
  /\ part = "evidence" => Evidence!IndexIsOfVersion

\* A file whose deletion was confirmed is found by no search, unless a result
\* of it came late.
DeletedIsNotFound ==
  /\ part = "versions" => Versions!DeletedIsNotFound
  /\ part = "evidence" => Evidence!DeletedIsNotFound

\* What the user ignored stays ignored until the user decides otherwise,
\* although batches, retries, scans and semantic analyses of the same file
\* keep finding the same problem.
IgnoredStays ==
  [][/\ part = "reviews" => Reviews!IgnoredStaysStep
     /\ part = "versions" => Versions!IgnoredStaysStep
     /\ part = "evidence" => Evidence!IgnoredStaysStep
     /\ part = "problems" => Problems!IgnoredStaysStep
     /\ part = "outcomes" => AllResults!IgnoredStaysStep]_vars

\* The name of the file and a heading do not make an invoice: the text carries
\* the invoice number, or two of its other marks.
HintIsNotEnough == part = "types" => Types!HintIsNotEnough

\* A text that is empty asks for no review, whatever the name and the media
\* type of the file.
EmptyIsQuiet == part = "types" => Types!EmptyIsQuiet

\* An accepted total is one that is written in the text, when no amount has a
\* single digit after the separator.
WellWrittenIsExact == part = "totals" => Totals!WellWrittenIsExact

\* Two totals in the same explicit currency are never settled by the analyser
\* when the input is good, however often one of them is repeated: the field
\* has no value and the conflict goes to review.
GoodConflictIsRouted == part = "totals" => Totals!GoodConflictIsRouted

\* An issue date the analyser accepts, and an amount it accepts, rests on a
\* mention that can mean nothing else; and a single date that can be read two
\* ways stays ambiguous or in conflict, whatever the quality and the locale.
AmbiguousStaysAmbiguous ==
  /\ part = "totals" => Totals!AmbiguousStaysAmbiguous
  /\ part = "dates" => Dates!AmbiguousStaysAmbiguous

\* A date the user types as a correction is taken only when it has one
\* reading.
CorrectionIsCertain == part = "dates" => Dates!CorrectionIsCertain

\* A hit is mapped to the row its vector was computed for, although deletions
\* leave vectors behind in the index: a key is never given out twice.
HitIsItsRow ==
  /\ part = "ann" => Ann!HitIsItsRow
  /\ part = "restart" => Restart!HitIsItsRow

\* When no thread is at work a search finds every file the exact scan would
\* find, also when the index answers: syncs of two threads, rescans, deletions
\* and a rebuild running beside them lose no vector.
SearchIsComplete == part = "ann" => Ann!SearchIsComplete

\* A file the index answers with is one the exact scan would answer with: its
\* chunk belongs to the current analysis of a present file (the joins of
\* map_ann_hits_to_files against those of collect_vector_candidates).
StaleIsFiltered == part = "restart" => Restart!StaleIsFiltered

\* What a restart loads and takes as ready is exactly what the last metadata
\* describes: a snapshot cut short while it was copied, or replaced before its
\* metadata was written, and metadata cut short, are refused (load_or_init).
LoadedIsDescribed ==
  [][part = "restart" => Restart!LoadedIsDescribedStep]_vars

\* A model that is offered for embedding has every asset of the manifest with
\* its digest, whatever arrives from the network, wherever an installation is
\* cancelled or stops, and while a session is being loaded.
ReadyIsWhole ==
  /\ part = "model" => Model!ReadyIsWhole
  /\ part = "removal" => Removal!ReadyIsWhole

\* After a removal and before another installation the model is not offered,
\* when no embedding was running beside it.
RemovalHolds == part = "removal" => Removal!RemovalHolds

\* A model that is whole stays so until the user removes it: a failed,
\* cancelled or crashed installation never costs a good model (staging first,
\* verification before promotion).
WholeIsKept ==
  [][/\ part = "model" => Model!WholeIsKeptStep
     /\ part = "removal" => Removal!WholeIsKeptStep]_vars

\* A search by filters alone lists, over its pages, exactly the files whose
\* known facts meet every filter: the candidate queries, written apart from
\* the filters, lose none, and a stale machine value or entity admits none
\* (collect_structured_candidates, candidate_matches_filters).
FilterFindsAll == part = "filters" => Filters!FilterFindsAll

\* The pages of one query over an unchanged catalogue never repeat a file, and
\* together hold as many files as each page announced, although every request
\* ranks its candidates anew from a hash map (rank_hybrid_candidates and
\* apply_sort).
PagesPartition ==
  /\ part = "filters" => Filters!PagesPartition
  /\ part = "text" => Text!PagesPartition

\* In a query with at most two interpreted parts, a fact the user confirmed
\* that contradicts one of them hides the file, whatever its text, vector,
\* machine facts and other confirmed facts say (the mismatch penalty of
\* score_candidate).
MismatchHides == part = "text" => Text!MismatchHides

\* A file confirmed to have what the query asks for is listed before one of
\* which nothing is known on that point and that is only a vector neighbour
\* (the weights of HybridRankingPolicy).
ConfirmedOutranksNeighbours ==
  part = "text" => Text!ConfirmedOutranksNeighbours

\* A file whose text matches is listed, whatever party was guessed from the
\* words and however many structured candidates fill the fusion, unless the
\* user confirmed a fact that contradicts an explicit part of the query
\* (score_candidate, truncate_seeds). The text index gives at most 2500
\* candidates and the vectors 2000, the fusion holds 20000.
LexicalIsListed == part = "fusion" => Fusion!LexicalIsListed

\* What is stored of an extraction is true, although scans, a deletion, batches,
\* retries, semantic analyses and reviews overlap: the problem of the last
\* result is listed for review with its own cause, a file is not retried for
\* ever, and evidence and index text are of the current version of a file that
\* is there, except for results stored after their version had ended (the README
\* says what those do).
ResultsAreTrue ==
  /\ part = "reviews" => Reviews!TypeOK
  /\ part = "versions" => Versions!TypeOK
  /\ part = "evidence" => Evidence!TypeOK
  /\ part = "problems" => Problems!TypeOK
  /\ part = "outcomes" => AllResults!TypeOK
  /\ RetriesAreCapped /\ ProblemIsListed /\ FailedItemIsTrue
  /\ EvidenceIsCurrent /\ IndexIsOfVersion /\ DenialIsTrue
  /\ DeletedIsNotFound

\* A field of a document is exact or is flagged: a total or date that is
\* written without doubt has its value, two readings are kept as ambiguous or
\* sent to review, a file name alone decides no type, and a correction of the
\* user is certain.
FieldsAreExactOrFlagged ==
  /\ part = "types" => Types!TypeOK
  /\ part = "totals" => Totals!TypeOK
  /\ part = "dates" => Dates!TypeOK
  /\ HintIsNotEnough /\ EmptyIsQuiet /\ WellWrittenIsExact
  /\ GoodConflictIsRouted /\ AmbiguousStaysAmbiguous /\ CorrectionIsCertain

\* A hit of the vector index is the row it names, also after keys are used
\* again, snapshots lost and the application restarted; a search of an index
\* at rest misses no file; a stale vector never becomes a hit; a model that is
\* ready has all its verified files; and one that was removed is not offered.
VectorsAreTrue ==
  /\ part = "ann" => Ann!TypeOK
  /\ part = "restart" => Restart!TypeOK
  /\ part = "model" => Model!TypeOK
  /\ part = "removal" => Removal!TypeOK
  /\ HitIsItsRow /\ SearchIsComplete /\ StaleIsFiltered /\ ReadyIsWhole
  /\ RemovalHolds

\* Search neither loses nor invents: filters find exactly the files that meet
\* them, pages hold every hit once, a document of another type is hidden, a
\* confirmed fact outranks similar vectors, and an exact match of words
\* survives the cut of the fusion.
SearchIsSound ==
  /\ part = "filters" => Filters!TypeOK
  /\ part = "text" => Text!TypeOK
  /\ part = "fusion" => Fusion!TypeOK
  /\ FilterFindsAll /\ PagesPartition /\ MismatchHides
  /\ ConfirmedOutranksNeighbours /\ LexicalIsListed

\* A failure takes nothing away that works: an unfinished extraction keeps the
\* usable text of the same version, an ignored problem stays ignored, the
\* memory index is loaded only with metadata that describe it, and a whole
\* model is not replaced by a broken one.
NothingUsableIsLost ==
  /\ UsableIndexKept /\ IgnoredStays /\ LoadedIsDescribed /\ WholeIsKept
==============================================================================
