---------------------------- MODULE HybridSearch ----------------------------
(***************************************************************************)
(* The local hybrid search: candidates collected from the full-text index, *)
(* the structured facts, the identity graph and the vectors, fused, loaded *)
(* with the user's corrections, filtered, scored by one policy, sorted and *)
(* cut into pages (crates/persistence/src/hybrid_search.rs and             *)
(* crates/search/src/ranking.rs).  A request holds the database lock, so   *)
(* it is one step.                                                         *)
(*                                                                         *)
(* A file has facts for a few attributes.  Texts, amounts and dates are    *)
(* abstract values: a fact agrees with what is asked or it does not, except*)
(* for names, which agree when one is contained in the other.  Scores are  *)
(* integers in units of 1/10000, confidences and similarities in hundredths*)
(***************************************************************************)
EXTENDS Integers, FiniteSets, Sequences, SequencesExt

CONSTANTS
    Files,          \* file identifiers, naturals, in the order of their ids
    Attributes,     \* the attributes told apart, a subset of AllAttributes
    Values,         \* the values of the attributes
    Within,         \* pairs <<s, l>>: name s is contained in name l
    None,           \* no value
    Missing,        \* the analysis stored no row for the field
    Analyses,       \* what an analysis may find: [field, entity]
    Corrections,    \* pairs <<attribute, value>> a user may enter
    Identities,     \* sequences of [value, confidence, confirmed]
    Signals,        \* [lexical, similarity, boost] functions over the files
    Queries,        \* the requests a user may send
    FileName, Size, Modified,  \* what the listing is sorted by
    PageSize,       \* results of a page
    PerSignal,      \* MAX_STRUCTURED_CANDIDATES_PER_SIGNAL
    MaxFusion       \* MAX_FUSION_CANDIDATES

Projected == {"type", "context"} \cap Attributes
Listed == {"amount", "date"} \cap Attributes

VARIABLES
    field,       \* the primary field of the current analysis, by file
    entity,      \* the amounts and dates found without a label
    projection,  \* local_search_documents.semantic_document_type, _context
    correction,  \* the active row of semantic_user_corrections
    identity,    \* the relationships of the file to supplier identities
    signal,      \* what the text index, the vectors and the rules say
    answer       \* the pages one query has returned so far

vars == <<field, entity, projection, correction, identity, signal, answer>>

NoAnswer == [query |-> None, page |-> 0, seen |-> <<>>, total |-> 0, more |-> FALSE]

(* HybridRankingPolicy::default, in units of 1/10000 per hundredth. *)
LexicalWeight == 34
Weight(k) == CASE k = "type" -> 20 [] k = "context" -> 8 [] k = "supplier" -> 24
               [] k = "amount" -> 18 [] k = "date" -> 12
VectorWeight == 10
ConfirmedBonus == 800
ConfirmedMismatchPenalty == 8000
MinimumSimilarity == 18
MinimumScore == 350
LargestBoost == 2500

-----------------------------------------------------------------------------
(* The facts of a file. *)

(* COALESCE(correction, machine): the correction is joined to the row the  *)
(* current analysis stored, so without a row there is no correction.       *)
Coalesced(f, k) ==
    IF field[f][k] = Missing THEN None
    ELSE IF correction[f][k] # None THEN correction[f][k] ELSE field[f][k].value

FieldFacts(f, k) ==
    IF Coalesced(f, k) = None THEN <<>>
    ELSE << [value |-> Coalesced(f, k), confidence |-> field[f][k].confidence,
             confirmed |-> correction[f][k] # None] >>

EntityFacts(f, k) ==
    LET fresh == entity[f][k] \ {Coalesced(f, k)}
    IN [i \in 1..Cardinality(fresh) |->
          [value |-> SetToSeq(fresh)[i], confidence |-> 100, confirmed |-> FALSE]]

Facts(f, k) ==
    FieldFacts(f, k) \o (IF k \in Listed THEN EntityFacts(f, k)
                         ELSE IF k = "supplier" THEN identity[f] ELSE <<>>)

(* relationship_name_matches *)
NameMatches(a, b) == a = b \/ <<a, b>> \in Within \/ <<b, a>> \in Within

Agrees(k, actual, expected) ==
    IF k = "supplier" THEN NameMatches(actual, expected) ELSE actual = expected

HasConfirmed(facts) == \E i \in DOMAIN facts : facts[i].confirmed

(* Once the user confirmed one fact of an attribute, only confirmed facts  *)
(* of that attribute count.                                                *)
Relevant(facts) ==
    SelectSeq(facts, LAMBDA x : HasConfirmed(facts) => x.confirmed)

Matching(f, k, expected) ==
    SelectSeq(Relevant(Facts(f, k)), LAMBDA x : Agrees(k, x.value, expected))

-----------------------------------------------------------------------------
(* Candidates. *)

First(S, n) == {f \in S : Cardinality({g \in S : g < f}) < n}

(* LIKE '%value%': what is stored must contain what is asked. *)
Stores(stored, expected) == stored = expected \/ <<expected, stored>> \in Within

MachineFieldHits(k, v) ==
    First({f \in Files : field[f][k] # Missing /\ field[f][k].value = v}, PerSignal)

FieldHits(k, v) ==
    First({f \in Files : Coalesced(f, k) # None
             /\ IF k = "supplier" THEN Stores(Coalesced(f, k), v) ELSE Coalesced(f, k) = v},
          PerSignal)

EntityHits(k, v) == First({f \in Files : v \in entity[f][k]}, PerSignal)

StructuredHits(k, v) ==
    IF v = None THEN {}
    ELSE IF k \in Projected THEN First({f \in Files : projection[f][k] = v}, PerSignal)
    ELSE FieldHits(k, v) \cup
         (IF k = "supplier"
          THEN First({f \in Files : \E i \in DOMAIN identity[f] :
                         Stores(identity[f][i].value, v)}, PerSignal)
          ELSE EntityHits(k, v))

Signalled(q, k) == IF q.want[k] # None THEN q.want[k] ELSE q.filter[k]

Structured(q) ==
    UNION {StructuredHits(k, Signalled(q, k)) : k \in Attributes}
    \cup (IF "supplier" \in Attributes THEN StructuredHits("supplier", q.party) ELSE {})

LexicalHits(q) ==
    IF q.text = "words" THEN {f \in Files : signal.lexical[f] # None} ELSE {}

VectorHits(q) ==
    IF q.text # "empty" THEN {f \in Files : signal.similarity[f] # None} ELSE {}

Lexical(q, f) == IF f \in LexicalHits(q) THEN signal.lexical[f] ELSE None
Similarity(q, f) == IF f \in VectorHits(q) THEN signal.similarity[f] ELSE None
OrZero(x) == IF x = None THEN 0 ELSE x

(* A text query whose words and intents are all empty has an empty page; a *)
(* query without text and without candidates browses every document.       *)
Seeds(q) ==
    LET found == LexicalHits(q) \cup Structured(q)
    IN IF q.text = "empty" /\ found = {} THEN Files
       ELSE IF q.text = "fillers" THEN {}
       ELSE found \cup VectorHits(q)

PriorityOfStructure(q, f) ==
    OrZero(Lexical(q, f)) + OrZero(Similarity(q, f))
    + (IF f \in Structured(q) THEN 100 ELSE 0)

Priority(q, f) ==
    OrZero(Lexical(q, f)) + OrZero(Similarity(q, f))
    + (IF Lexical(q, f) = None /\ Similarity(q, f) = None THEN 50 ELSE 0)

TruncateSeeds(q, S) ==
    {f \in S : Cardinality({g \in S : \/ Priority(q, g) > Priority(q, f)
                                      \/ Priority(q, g) = Priority(q, f) /\ g < f})
               < MaxFusion}

FilterMatches(f, k, expected) == expected = None \/ Matching(f, k, expected) # <<>>

CandidateMatchesFilters(f, q) == \A k \in Attributes : FilterMatches(f, k, q.filter[k])

-----------------------------------------------------------------------------
(* Ranking. *)

AtLeast(low, x) == IF x < low THEN low ELSE x

FactScoreUnweighted(k, fact, low) == IF fact.confirmed THEN ConfirmedBonus ELSE 0

(* What one attribute of the question adds to the score. *)
FactScore(k, fact, low) ==
    (IF k \in Listed THEN Weight(k) * 100 ELSE Weight(k) * AtLeast(low, fact.confidence))
    + (IF fact.confirmed THEN ConfirmedBonus ELSE 0)

Support(f, k, expected, low) ==
    IF expected = None \/ Matching(f, k, expected) = <<>> THEN 0
    ELSE FactScore(k, Matching(f, k, expected)[1], low)

Mismatch(f, k, expected) ==
    expected # None /\ HasConfirmed(Facts(f, k)) /\ Matching(f, k, expected) = <<>>

PartySupport(q, f) ==
    IF "supplier" \in Attributes THEN Support(f, "supplier", q.party, 65) ELSE 0

(* A party is guessed from the text, so a mismatch counts only where the   *)
(* text itself does not match.                                             *)
PartyMismatch(q, f) ==
    "supplier" \in Attributes /\ Mismatch(f, "supplier", q.party) /\ Lexical(q, f) = None

VectorScore(q, f) ==
    IF Similarity(q, f) = None \/ OrZero(Similarity(q, f)) < MinimumSimilarity THEN 0
    ELSE (VectorWeight * (Similarity(q, f) - MinimumSimilarity) * 100) \div 82

Low(k) == IF k = "supplier" THEN 70 ELSE 0

Total(F, S) == FoldSet(LAMBDA k, total : F[k] + total, 0, S)

FactScores(q, f) ==
    Total([k \in Attributes |-> Support(f, k, q.want[k], Low(k))], Attributes) + PartySupport(q, f)

Matched(q, f) ==
    \/ OrZero(Lexical(q, f)) > 0
    \/ \E k \in Attributes : q.want[k] # None /\ Matching(f, k, q.want[k]) # <<>>
    \/ PartySupport(q, f) > 0
    \/ OrZero(Similarity(q, f)) >= MinimumSimilarity

ConfirmedMismatch(q, f) ==
    (\E k \in Attributes : Mismatch(f, k, q.want[k])) \/ PartyMismatch(q, f)

HasQuery(q) == q.text = "words"

RuleScore(q, f) ==
    IF (HasQuery(q) => Matched(q, f)) /\ signal.boost[f] > 0
    THEN (IF signal.boost[f] > LargestBoost THEN LargestBoost ELSE signal.boost[f]) ELSE 0

SmallPenalty(q, f) == IF ConfirmedMismatch(q, f) THEN ConfirmedMismatchPenalty \div 2 ELSE 0

Penalty(q, f) == IF ConfirmedMismatch(q, f) THEN ConfirmedMismatchPenalty ELSE 0

ScoreCandidate(q, f) ==
    OrZero(Lexical(q, f)) * LexicalWeight + FactScores(q, f) + VectorScore(q, f)
    + RuleScore(q, f) - Penalty(q, f)

Kept(q, f) == HasQuery(q) => Matched(q, f) /\ ScoreCandidate(q, f) >= MinimumScore

Relevance(q, f) ==
    LET s == ScoreCandidate(q, f) IN IF s < 0 THEN 0 ELSE IF s > 10000 THEN 10000 ELSE s

(* A stable sort of s, where Before is a strict weak order. *)
StableSort(s, Before(_, _)) ==
    LET precedes(i, j) == Before(s[i], s[j]) \/ (~Before(s[j], s[i]) /\ i < j)
    IN [n \in DOMAIN s |->
          s[CHOOSE j \in DOMAIN s : Cardinality({i \in DOMAIN s : i # j /\ precedes(i, j)}) = n - 1]]

RankBeforeByName(rank, f, g) ==
    rank[f] > rank[g] \/ (rank[f] = rank[g] /\ FileName[f] < FileName[g])

RankBefore(rank, f, g) ==
    \/ rank[f] > rank[g]
    \/ rank[f] = rank[g] /\ (\/ FileName[f] < FileName[g]
                             \/ FileName[f] = FileName[g] /\ f < g)

Only(S) == CHOOSE x \in S : TRUE

RankHybridCandidates(q, s) ==
    Only({StableSort(s, LAMBDA f, g : RankBefore(rank, f, g)) :
             rank \in {[f \in ToSet(s) |-> Relevance(q, f)]}})

(* numeric_timestamp: an unknown date is the largest. *)
Timestamp(f) == IF Modified[f] = None THEN 1000000 ELSE Modified[f]

ApplySort(sort, s) ==
    CASE sort = "relevance" -> s
      [] sort = "filename" -> StableSort(s, LAMBDA f, g :
            FileName[f] < FileName[g] \/ (FileName[f] = FileName[g] /\ f < g))
      [] sort = "size" -> StableSort(s, LAMBDA f, g :
            Size[f] > Size[g] \/ (Size[f] = Size[g] /\ FileName[f] < FileName[g]))
      [] sort = "newest" -> StableSort(s, LAMBDA f, g :
            Timestamp(f) > Timestamp(g) \/ (Timestamp(f) = Timestamp(g) /\ f < g))
      [] sort = "oldest" -> StableSort(s, LAMBDA f, g :
            Timestamp(f) < Timestamp(g) \/ (Timestamp(f) = Timestamp(g) /\ f < g))

Candidates(q) ==
    {f \in TruncateSeeds(q, Seeds(q)) : CandidateMatchesFilters(f, q) /\ Kept(q, f)}

Slice(s, page) == SubSeq(s, page * PageSize + 1,
                         IF (page + 1) * PageSize < Len(s) THEN (page + 1) * PageSize ELSE Len(s))

-----------------------------------------------------------------------------
(* Actions. *)

Init ==
    /\ field = [f \in Files |-> [k \in Attributes |-> Missing]]
    /\ entity = [f \in Files |-> [k \in Listed |-> {}]]
    /\ projection = [f \in Files |-> [k \in Projected |-> None]]
    /\ correction = [f \in Files |-> [k \in Attributes |-> None]]
    /\ identity = [f \in Files |-> <<>>]
    /\ signal \in Signals
    /\ answer = NoAnswer

(* A new analysis of the file replaces the fields, the entities and the    *)
(* projection; the corrections of the user stay.                           *)
Analyse(f, a) ==
    /\ field' = [field EXCEPT ![f] = a.field]
    /\ entity' = [entity EXCEPT ![f] = a.entity]
    /\ projection' = [projection EXCEPT ![f] =
          [k \in Projected |-> IF a.field[k] = Missing THEN None ELSE a.field[k].value]]
    /\ answer' = NoAnswer
    /\ UNCHANGED <<correction, identity, signal>>

(* The user confirms or corrects a field the current analysis stored; the  *)
(* value of an unknown field cannot be confirmed, only corrected.          *)
Correct(f, k, v) ==
    /\ field[f][k] # Missing
    /\ correction' = [correction EXCEPT ![f][k] = v]
    /\ answer' = NoAnswer
    /\ UNCHANGED <<field, entity, projection, identity, signal>>

(* A resolver run or a decision of the user about the file's identities. *)
Relate(f, r) ==
    /\ "supplier" \in Attributes
    /\ identity' = [identity EXCEPT ![f] = r]
    /\ answer' = NoAnswer
    /\ UNCHANGED <<field, entity, projection, correction, signal>>

(* One request.  The candidates leave a hash map, so they reach the sort in*)
(* any order, a new one at each request.                                   *)
Page(q, page, order) ==
    LET ranked == ApplySort(q.sort, RankHybridCandidates(q, order))
        slice == Slice(ranked, page)
    IN /\ answer' = [query |-> q, page |-> page,
                     seen |-> (IF page = 0 THEN <<>> ELSE answer.seen) \o slice,
                     total |-> Len(ranked),
                     more |-> page * PageSize + Len(slice) < Len(ranked)]
       /\ UNCHANGED <<field, entity, projection, correction, identity, signal>>

Orders(S) == {s \in [1..Cardinality(S) -> S] : \A i, j \in DOMAIN s : i # j => s[i] # s[j]}

FirstPage(q) == \E order \in Orders(Candidates(q)) : Page(q, 0, order)

NextPage ==
    /\ answer.more
    /\ \E order \in Orders(Candidates(answer.query)) : Page(answer.query, answer.page + 1, order)

Next ==
    \/ \E f \in Files, a \in Analyses : Analyse(f, a)
    \/ \E f \in Files, c \in Corrections : Correct(f, c[1], c[2])
    \/ \E f \in Files, r \in Identities : Relate(f, r)
    \/ \E q \in Queries : FirstPage(q)
    \/ NextPage

Spec == Init /\ [][Next]_vars

-----------------------------------------------------------------------------
(* Properties. *)

Rows == [value : Values \cup {None}, confidence : 0..100]

(* Every stored row, correction and answer is well formed; an answer never *)
(* lists more files than it counts.                                        *)
TypeOK ==
    /\ field \in [Files -> [Attributes -> Rows \cup {Missing}]]
    /\ entity \in [Files -> [Listed -> SUBSET Values]]
    /\ projection \in [Files -> [Projected -> Values \cup {None}]]
    /\ correction \in [Files -> [Attributes -> Values \cup {None}]]
    /\ identity \in [Files -> Identities \cup {<<>>}]
    /\ signal \in Signals
    /\ answer.query \in Queries \cup {None}
    /\ ToSet(answer.seen) \subseteq Files
    /\ Len(answer.seen) <= answer.total

(* What the user said of an attribute, and what is known of it: the user's *)
(* word alone when there is one.                                           *)
Said(f, k) ==
    ({correction[f][k]} \ {None})
    \cup (IF k = "supplier"
          THEN {r.value : r \in {x \in ToSet(identity[f]) : x.confirmed}} ELSE {})

Known(f, k) ==
    IF Said(f, k) # {} THEN Said(f, k)
    ELSE (IF field[f][k] = Missing THEN {} ELSE {field[f][k].value} \ {None})
         \cup (IF k \in Listed THEN entity[f][k] ELSE {})
         \cup (IF k = "supplier" THEN {r.value : r \in ToSet(identity[f])} ELSE {})

Contradicted(f, k, v) ==
    v # None /\ Said(f, k) # {} /\ \A x \in Said(f, k) : ~Agrees(k, x, v)

Finished(text) == answer.query # None /\ answer.query.text = text /\ ~answer.more

Unfiltered == \A k \in Attributes : answer.query.filter[k] = None

Wanted == {k \in Attributes : answer.query.want[k] # None}

(* A search by filters alone lists, over its pages, exactly the files whose*)
(* known facts meet every filter: the candidate queries, written apart from*)
(* the filters, lose none, and a stale machine value or entity admits none *)
(* (collect_structured_candidates, candidate_matches_filters).             *)
FilterFindsAll ==
    Finished("empty") =>
        ToSet(answer.seen) =
        {f \in Files : \A k \in Attributes :
            \/ answer.query.filter[k] = None
            \/ \E v \in Known(f, k) : Agrees(k, v, answer.query.filter[k])}

(* The pages of one query over an unchanged catalogue never repeat a file, *)
(* and together hold as many files as each page announced, although every  *)
(* request ranks its candidates anew from a hash map (rank_hybrid_candidates*)
(* and apply_sort).                                                        *)
PagesPartition ==
    /\ IsInjective(answer.seen)
    /\ ~answer.more => Len(answer.seen) = answer.total

(* A file whose text matches is listed, whatever party was guessed from the*)
(* words and however many structured candidates fill the fusion, unless the*)
(* user confirmed a fact that contradicts an explicit part of the query    *)
(* (score_candidate, truncate_seeds).  The text index gives at most 2500   *)
(* candidates and the vectors 2000, the fusion holds 20000.                *)
LexicalIsListed ==
    /\ Finished("words") /\ Unfiltered
    /\ Cardinality(LexicalHits(answer.query) \cup VectorHits(answer.query)) <= MaxFusion
    =>
        \A f \in LexicalHits(answer.query) :
            \/ f \in ToSet(answer.seen)
            \/ \E k \in Wanted : Contradicted(f, k, answer.query.want[k])

(* In a query with at most two interpreted parts, a fact the user confirmed*)
(* that contradicts one of them hides the file, whatever its text, vector, *)
(* machine facts and other confirmed facts say (the mismatch penalty of    *)
(* score_candidate).                                                       *)
MismatchHides ==
    /\ answer.query # None /\ answer.query.text = "words"
    /\ Cardinality(Wanted) + (IF answer.query.party = None THEN 0 ELSE 1) <= 2
    => \A f \in ToSet(answer.seen) :
           signal.boost[f] > 0 \/ \A k \in Wanted : ~Contradicted(f, k, answer.query.want[k])

(* A file confirmed to have what the query asks for is listed before one of*)
(* which nothing is known on that point and that is only a vector neighbour*)
(* (the weights of HybridRankingPolicy).                                   *)
ConfirmedOutranksNeighbours ==
    /\ Finished("words") /\ Unfiltered
    /\ answer.query.sort = "relevance" /\ answer.query.party = None
    /\ Cardinality(Wanted) = 1
    => \A k \in Wanted, i, j \in DOMAIN answer.seen :
          LET f == answer.seen[i]
              g == answer.seen[j]
          IN /\ \E v \in Said(f, k) : Agrees(k, v, answer.query.want[k])
             /\ Known(g, k) = {}
             /\ signal.lexical[g] = None /\ signal.boost[g] = 0
             => i < j

(* A file the user confirmed not to be what is asked for does not owe its  *)
(* place to its vector: without the vector it would be listed as well      *)
(* (score_candidate).                                                      *)
\* The code does not keep it: see the README.
VectorDoesNotRescue ==
    (answer.query # None /\ answer.query.text = "words") =>
        \A f \in ToSet(answer.seen) :
            (\E k \in Wanted : Contradicted(f, k, answer.query.want[k]))
            => ScoreCandidate(answer.query, f) - VectorScore(answer.query, f) >= MinimumScore

=============================================================================
