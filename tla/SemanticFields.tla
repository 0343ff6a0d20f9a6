--------------------------- MODULE SemanticFields ---------------------------
(***************************************************************************)
(* The deterministic semantic provider: from the quality of the extracted  *)
(* text and what the text says to the document type, the context, the      *)
(* total, the issue date, the status of the analysis and the reasons for   *)
(* review (DeterministicSemanticProvider::analyze).                        *)
(*                                                                         *)
(* Of a text the model keeps what the rules look for: the indicators of an *)
(* invoice, the title of a report, the number of business and personal     *)
(* terms, and the amounts and dates as they are written.  Confidences are  *)
(* whole numbers of ten-thousandths.                                       *)
(***************************************************************************)
EXTENDS Integers, Sequences, FiniteSets, SequencesExt

CONSTANTS
  Inputs,   \* the inputs to analyse
  None,
  Unknown   \* the context that says nothing

Weight(i) == CASE i = "number" -> 4800 [] i = "header" -> 2800
               [] i = "total" -> 2400 [] OTHER -> 1200

\* An input whose extraction nothing speaks against.
Sound(i) == [i EXCEPT !.extraction = "success", !.truncated = FALSE, !.limited = FALSE,
                      !.ocr = None, !.malformed = FALSE]

VARIABLES
  input,
  stage,      \* the next step of analyze, or how it ended
  quality,    \* the assessed quality of the input
  fields,     \* the fields resolved so far
  reasons,    \* the reasons for review
  status      \* the status of the analysis

vars == <<input, stage, quality, fields, reasons, status>>

Least(a, b) == IF a < b THEN a ELSE b
Times(a, b) == (a * b) \div 10000

(***************************************************************************)
(* The quality of the input.                                               *)
(***************************************************************************)
QualityScore(i) ==
  LET base == CASE i.extraction = "success" -> 10000 [] i.extraction = "partial" -> 7800
                [] i.extraction = "unsupported" -> 3500 [] OTHER -> 2000
      ocr == IF i.ocr = None THEN 10000 ELSE 5500 + Times(4500, i.ocr)
      factors == <<IF i.truncated THEN 8200 ELSE 10000, IF i.limited THEN 8600 ELSE 10000,
                   ocr, IF i.malformed THEN 6500 ELSE 10000>>
  IN FoldLeft(Times, IF i.empty THEN Least(base, 2500) ELSE base, factors)

\* assess_input_quality
AssessInputQuality(i) ==
  LET s == QualityScore(i)
  IN [score |-> s,
      status |-> CASE i.empty /\ s <= 2500 -> "unusable"
                   [] s >= 8500 -> "good"
                   [] s >= 6000 -> "degraded"
                   [] OTHER -> "poor"]

AdjustForQuality(base, q) == Times(base, 5000 + q.score \div 2)

(***************************************************************************)
(* Candidates, and the field they resolve to.                              *)
(***************************************************************************)
Candidate(value, confidence, ambiguous) ==
  [value |-> value, confidence |-> confidence, ambiguous |-> ambiguous]

Combine(x, c) ==
  [x EXCEPT !.confidence = Least(9900, @ + Times(c.confidence, 1800)),
            !.ambiguous = @ \/ c.ambiguous]

\* merge_equivalent_candidates: later mentions of a value strengthen the first.
MergeEquivalent(cands) ==
  {LET same == SelectSeq(cands, LAMBDA c : c.value = cands[k].value)
   IN FoldLeft(Combine, Head(same), Tail(same)) : k \in DOMAIN cands}

Medium == 6500
High == 8500
ConflictMargin == 1200

Strongest(s) == CHOOSE c \in s : \A d \in s : d.confidence <= c.confidence

\* As it would be with a conflict only between equally strong values.
OnlyEqualConflict(p, s) == p.confidence >= Medium /\ s.confidence = p.confidence

Conflicting(p, s) ==
  /\ p.confidence >= Medium /\ s.confidence >= Medium
  /\ p.confidence - s.confidence < ConflictMargin

Field(value, confidence, st) == [value |-> value, confidence |-> confidence, status |-> st]

\* resolve_field
ResolveField(cands) ==
  IF cands = <<>> THEN Field(None, 0, "unknown")
  ELSE LET merged == MergeEquivalent(cands)
           p == Strongest(merged)
           rest == merged \ {p}
       IN CASE p.value = Unknown -> Field(None, p.confidence, "unknown")
            [] rest # {} /\ Conflicting(p, Strongest(rest)) ->
                 Field(None, p.confidence, "conflicting")
            [] p.confidence < Medium ->
                 Field(None, p.confidence, IF p.ambiguous THEN "ambiguous" ELSE "unknown")
            [] OTHER ->
                 Field(p.value, p.confidence,
                       CASE p.ambiguous -> "ambiguous"
                         [] p.confidence >= High -> "confirmed"
                         [] OTHER -> "inferred")

(***************************************************************************)
(* Document type and context.                                              *)
(***************************************************************************)
MetadataCandidates(i) ==
  IF i.media = None THEN <<>>
  ELSE <<Candidate(i.media, IF i.media = "photo" THEN 9300 ELSE 9600, FALSE)>>

\* As it would be if the name of the file counted like the number of an invoice.
StrongHint == 4800

FilenameHint == 2000

\* score_document_rule: content is weighed by its quality, a name alone is capped.
ScoreDocumentRule(type, content, hinted, q) ==
  LET score == content + (IF hinted THEN FilenameHint ELSE 0)
  IN IF score = 0 THEN <<>>
     ELSE <<Candidate(type, IF content > 0 THEN AdjustForQuality(Least(score, 9900), q)
                            ELSE Least(score, 4000), FALSE)>>

InvoiceContent(i) == FoldLeft(LAMBDA n, k : n + Weight(k), 0, SetToSeq(i.indicators))

ClassifyDocument(i, q) ==
  MetadataCandidates(i)
    \o ScoreDocumentRule("invoice", InvoiceContent(i), i.hint, q)
    \o ScoreDocumentRule("report", IF i.report THEN 6800 ELSE 0, FALSE, q)

\* classify_context: of the business types only the invoice is here, of the
\* personal ones none.  The document field lends one piece of evidence.
ClassifyContext(i, q, document) ==
  LET invoice == document.value = "invoice"
      lent == IF document.confidence > 0 THEN 1 ELSE 0
  IN CASE i.business > 0 /\ i.personal > 0 ->
            <<Candidate("mixed", AdjustForQuality(8200, q), FALSE)>>
       [] invoice \/ i.business >= 2 ->
            <<Candidate("business",
                AdjustForQuality(IF i.business + lent >= 2 THEN 9200 ELSE 7400, q), FALSE)>>
       [] i.personal >= 2 -> <<Candidate("personal", AdjustForQuality(8800, q), FALSE)>>
       [] OTHER -> <<Candidate(Unknown, 0, FALSE)>>

(***************************************************************************)
(* Amounts.  A written amount is a whole part, at most two digits after    *)
(* the separator, and a currency before or after it.                       *)
(***************************************************************************)
\* As it would be if every separator were one of thousands.
WholeMinor(whole, fraction) ==
  FoldLeft(LAMBDA n, d : 10 * n + d, whole, fraction) * 100

\* parse_decimal_minor: exactly two digits after the last separator.
ParseDecimalMinor(whole, fraction) ==
  IF Len(fraction) = 2 THEN 100 * whole + 10 * fraction[1] + fraction[2] ELSE 100 * whole

\* What the pattern finds: a single digit after the separator is an amount of
\* its own, and the currency belongs to the amount beside it.
MoneyMatches(w) ==
  LET found(whole, fraction, cur) ==
        [minor |-> ParseDecimalMinor(whole, fraction), currency |-> cur]
  IN IF Len(w.fraction) # 1 THEN <<found(w.whole, w.fraction, w.currency)>>
     ELSE <<found(w.whole, <<>>, IF w.before THEN w.currency ELSE None),
            found(w.fraction[1], <<>>, IF w.before THEN None ELSE w.currency)>>

CurrencyConfidence(cur) == CASE cur = "EUR" -> 9800 [] cur = "$" -> 8600 [] OTHER -> 6800

\* As it would be if an amount without a currency were not marked.
MoneyUnmarked(amounts, q) ==
  FlattenSeq([k \in DOMAIN amounts |->
    LET found == MoneyMatches(amounts[k])
    IN [n \in DOMAIN found |->
          Candidate(found[n], AdjustForQuality(CurrencyConfidence(found[n].currency), q), FALSE)]])

\* append_money_field
MoneyCandidates(amounts, q) ==
  FlattenSeq([k \in DOMAIN amounts |->
    LET found == MoneyMatches(amounts[k])
    IN [n \in DOMAIN found |->
          Candidate(found[n], AdjustForQuality(CurrencyConfidence(found[n].currency), q),
                    found[n].currency = None)]])

(***************************************************************************)
(* Dates.                                                                  *)
(***************************************************************************)
ValidDate(y, m, d) ==
  LET leap == y % 4 = 0 /\ (y % 100 # 0 \/ y % 400 = 0)
      last == CASE m = 2 -> IF leap THEN 29 ELSE 28
                [] m \in {4, 6, 9, 11} -> 30
                [] OTHER -> 31
  IN y \in 1900..2200 /\ m \in 1..12 /\ d \in 1..last

Parsed(date, alternate, base) ==
  IF ValidDate(date[1], date[2], date[3])
  THEN <<[date |-> date, alternate |-> alternate, base |-> base]>>
  ELSE <<>>

\* parse_dates, for one written date.
ParseDate(w, french) ==
  LET dayFirst == <<w.year, w.b, w.a>>
      monthFirst == <<w.year, w.a, w.b>>
      primary == IF french THEN dayFirst ELSE monthFirst
      other == IF french THEN monthFirst ELSE dayFirst
  IN CASE w.form = "iso" -> Parsed(monthFirst, None, 9900)
       [] w.form = "text" -> Parsed(monthFirst, None, 9800)
       [] w.a > 12 -> Parsed(dayFirst, None, 9800)
       [] w.b > 12 -> Parsed(monthFirst, None, 9500)
       [] OTHER -> Parsed(primary, IF ValidDate(other[1], other[2], other[3]) THEN other
                                   ELSE None, 7200)

\* The readings of one date as candidates: the alternate is a little weaker.
DateCandidates(p, first, second) ==
  <<Candidate(p.date, first, p.alternate # None)>>
    \o (IF p.alternate = None THEN <<>> ELSE <<Candidate(p.alternate, second, TRUE)>>)

ParsedDates(written, french) ==
  FlattenSeq([k \in DOMAIN written |-> ParseDate(written[k], french)])

\* append_date_field
LabelledDates(i, q) ==
  LET parsed == ParsedDates(SelectSeq(i.dates, LAMBDA w : w.labelled), i.french)
      confidence(p) == AdjustForQuality(p.base, q)
      weaker(p) == IF confidence(p) > 200 THEN confidence(p) - 200 ELSE 0
  IN FlattenSeq([k \in DOMAIN parsed |->
       DateCandidates(parsed[k], confidence(parsed[k]), weaker(parsed[k]))])

\* append_first_document_date, when no label gave a date: numeric dates are found
\* before written-out ones.
FirstDocumentDate(i, q) ==
  LET numeric == SelectSeq(i.dates, LAMBDA w : w.form # "text")
      inWords == SelectSeq(i.dates, LAMBDA w : w.form = "text")
      parsed == ParsedDates(numeric \o inWords, i.french)
  IN IF parsed = <<>> THEN <<>>
     ELSE LET c == AdjustForQuality(Head(parsed).base, q)
          IN DateCandidates(Head(parsed), Times(c, 8800), Times(c, 8600))

\* As it would be if the locale settled a correction.
AnyCorrection(w, french) ==
  LET p == ParseDate(w, french) IN IF p = <<>> THEN None ELSE p[1].date

\* normalize_user_correction of a date: None when it is refused.
NormalizeDateCorrection(w, french) ==
  LET p == ParseDate(w, french)
  IN IF p = <<>> \/ p[1].alternate # None THEN None ELSE p[1].date

(***************************************************************************)
(* The fields, the status and the reasons.                                 *)
(***************************************************************************)
\* Fields that are absent are left out of the set.
Found(name, cands) == IF cands = <<>> THEN {} ELSE {<<name, ResolveField(cands)>>}

\* extract_business_fields: amounts and dates only of an invoice.
BusinessFields(i, q, document) ==
  IF document.value # "invoice" THEN {}
  ELSE LET labelled == LabelledDates(i, q)
       IN Found("total", MoneyCandidates(i.totals, q))
            \cup Found("issue", IF labelled # <<>> THEN labelled ELSE FirstDocumentDate(i, q))

\* analysis_status
AnalysisStatus(fs, q) ==
  CASE \A f \in fs : f[2].value = None -> "unknown"
    [] q.status # "good" \/ \E f \in fs : f[2].status \in {"ambiguous", "conflicting"} ->
         "partial"
    [] OTHER -> "success"

\* As it would be if a document type nobody could name were always reviewed.
ReviewReasonsAlways(fs) ==
  {r \in {"document"} : \E f \in fs : f[1] = "document" /\ f[2].value = None}

\* review_reasons: of the critical fields of an invoice only the total is here.
ReviewReasons(fs) ==
  LET of(name) == {f[2] : f \in {g \in fs : g[1] = name}}
      has(st) == \E f \in fs : f[2].status = st
      typed == \E d \in of("document") : d.value # None
      context == \E c \in of("context") :
                   typed /\ c.status \in {"unknown", "ambiguous"}
                         /\ (c.confidence >= 3500 \/ c.status = "ambiguous")
      holds(r) ==
        CASE r = "conflicting" -> has("conflicting")
          [] r = "document" -> \E d \in of("document") : d.value = None /\ d.confidence >= 3000
          [] r = "context" -> context
          [] r = "ambiguity" -> has("ambiguous") /\ ~context
          [] r = "missing" -> /\ \E d \in of("document") :
                                   d.value = "invoice" /\ d.confidence >= High
                              /\ \A t \in of("total") : t.value = None
  IN {r \in {"conflicting", "document", "context", "ambiguity", "missing"} : holds(r)}

(***************************************************************************)
(* analyze                                                                 *)
(***************************************************************************)
Init ==
  /\ input \in Inputs
  /\ stage = "start" /\ quality = None /\ fields = {} /\ reasons = {} /\ status = "pending"

\* check_control: cancellation or the time limit ends the analysis.
CheckControl(next) == stage' \in {next, "cancelled", "timed_out"}

Assess ==
  /\ stage = "start"
  /\ quality' = AssessInputQuality(input)
  /\ CheckControl("document")
  /\ UNCHANGED <<input, fields, reasons, status>>

Classify ==
  /\ stage = "document"
  /\ fields' = {<<"document", ResolveField(ClassifyDocument(input, quality))>>}
  /\ CheckControl("context")
  /\ UNCHANGED <<input, quality, reasons, status>>

DocumentOf(fs) == CHOOSE d \in {f[2] : f \in fs} : <<"document", d>> \in fs

Contextualise ==
  /\ stage = "context"
  /\ fields' = fields \cup
       {<<"context", ResolveField(ClassifyContext(input, quality, DocumentOf(fields)))>>}
  /\ CheckControl("extract")
  /\ UNCHANGED <<input, quality, reasons, status>>

Extract ==
  /\ stage = "extract"
  /\ fields' = fields \cup BusinessFields(input, quality, DocumentOf(fields))
  /\ reasons' = ReviewReasons(fields')
  /\ status' = AnalysisStatus(fields', quality)
  /\ stage' = "done"
  /\ UNCHANGED <<input, quality>>

Next == Assess \/ Classify \/ Contextualise \/ Extract

Spec == Init /\ [][Next]_vars

(***************************************************************************)
(* Properties.                                                             *)
(***************************************************************************)
Statuses == {"unknown", "ambiguous", "conflicting", "inferred", "confirmed"}

\* A field has a value exactly when it is inferred or confirmed, or when it is
\* ambiguous and strong enough; confidences stay within their bounds
\* (validate_field, ConfidenceScore::new).
TypeOK ==
  /\ stage \in {"start", "document", "context", "extract", "done", "cancelled", "timed_out"}
  /\ status \in {"pending", "unknown", "partial", "success"}
  /\ (status # "pending") = (stage = "done")
  /\ \A f \in fields :
       /\ f[2].status \in Statuses /\ f[2].confidence \in 0..10000
       /\ f[2].status \in {"inferred", "confirmed"} => f[2].value # None
       /\ f[2].status \in {"unknown", "conflicting"} => f[2].value = None

Done(name) == {f[2] : f \in {g \in fields : stage = "done" /\ g[1] = name}}

\* The name of the file and a heading do not make an invoice: the text carries
\* the invoice number, or two of its other marks.
HintIsNotEnough ==
  \A d \in Done("document") :
    d.value = "invoice" => "number" \in input.indicators \/ Cardinality(input.indicators) >= 2

\* A text that is empty asks for no review, whatever the name and the media type
\* of the file.
EmptyIsQuiet == stage = "done" /\ input.empty => reasons = {}

\* What the analyst means by an amount.
Meaning(w) ==
  [minor |-> 100 * w.whole + (CASE Len(w.fraction) = 0 -> 0
                                [] Len(w.fraction) = 1 -> 10 * w.fraction[1]
                                [] OTHER -> 10 * w.fraction[1] + w.fraction[2]),
   currency |-> w.currency]

Elements(s) == {s[k] : k \in DOMAIN s}

\* An accepted total is one that is written in the text, when no amount has a
\* single digit after the separator.
WellWrittenIsExact ==
  (\A w \in Elements(input.totals) : Len(w.fraction) # 1) =>
    \A t \in Done("total") : t.value \in {None} \cup {Meaning(w) : w \in Elements(input.totals)}

\* The same of every way to write an amount.
\* The code does not keep it: see the README.
MoneyIsExact ==
  \A t \in Done("total") : t.value \in {None} \cup {Meaning(w) : w \in Elements(input.totals)}

Competing ==
  \E v, w \in Elements(input.totals) :
    /\ v.currency = "EUR" /\ w.currency = "EUR" /\ Meaning(v) # Meaning(w)
    /\ Len(v.fraction) # 1 /\ Len(w.fraction) # 1

\* Two totals in the same explicit currency are never settled by the analyser
\* when the input is good, however often one of them is repeated: the field has
\* no value and the conflict goes to review.
GoodConflictIsRouted ==
  \A t \in Done("total") :
    Competing /\ quality.status = "good" => t.value = None /\ "conflicting" \in reasons

\* The same whatever the quality of the input.
\* The code does not keep it: see the README.
ConflictIsRouted ==
  \A t \in Done("total") : Competing => t.value = None

\* The calendar dates a written date can mean.
Readings(w) ==
  LET orders == IF w.form = "numeric" THEN {<<w.year, w.a, w.b>>, <<w.year, w.b, w.a>>}
                ELSE {<<w.year, w.a, w.b>>}
  IN {r \in orders : ValidDate(r[1], r[2], r[3])}

\* An issue date the analyser accepts, and an amount it accepts, rests on a
\* mention that can mean nothing else; and a single date that can be read two
\* ways stays ambiguous or in conflict, whatever the quality and the locale.
AmbiguousStaysAmbiguous ==
  /\ \A d \in Done("issue") :
       /\ d.status \in {"inferred", "confirmed"} =>
            \E w \in Elements(input.dates) : Readings(w) = {d.value}
       /\ Len(input.dates) = 1 /\ Cardinality(Readings(input.dates[1])) = 2 =>
            d.status \in {"ambiguous", "conflicting"}
  /\ \A t \in Done("total") :
       t.status \in {"inferred", "confirmed"} => t.value.currency # None

\* A date the user types as a correction is taken only when it has one reading.
CorrectionIsCertain ==
  \A w \in Elements(input.dates) :
    LET taken == NormalizeDateCorrection(w, input.french)
    IN taken # None => Readings(w) = {taken}

\* An empty text gives an analysis that knows nothing.
\* The code does not keep it: see the README.
EmptyIsUnknown == stage = "done" /\ input.empty => status = "unknown"

\* The analysis of the same text from a sound extraction.
SoundStatus ==
  LET i == Sound(input)
      q == AssessInputQuality(i)
      d == ResolveField(ClassifyDocument(i, q))
      c == ResolveField(ClassifyContext(i, q, d))
  IN AnalysisStatus({<<"document", d>>, <<"context", c>>} \cup BusinessFields(i, q, d), q)

Rank(st) == CASE st = "unknown" -> 0 [] st = "partial" -> 1 [] OTHER -> 2

\* A worse extraction of a text does not give a better analysis of it.
\* The code does not keep it: see the README.
DegradedIsNotBetter == stage = "done" => Rank(status) <= Rank(SoundStatus)
=============================================================================
