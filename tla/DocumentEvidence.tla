--------------------------- MODULE DocumentEvidence ---------------------------
(***************************************************************************)
(* The first two steps of the daily workflow as functions of the files:    *)
(* raw fixtures become source references, companies and documents          *)
(* (services/ingestion), and documents become text, segments, exact spans  *)
(* and extracted evidence (services/parsing).                              *)
(*                                                                         *)
(* A sentence is the set of the cues the classifiers look for in it, and a *)
(* text is a sequence of parts, the paragraphs of a filing or news item or *)
(* the turns of a transcript; an offset counts sentences.  A stage returns *)
(* a plan: its writes in order, and whether it raises after the last.      *)
(***************************************************************************)
EXTENDS QualityGates

WithSource == {"time", "name", "source"}

(* The terminal event and summary of one run of a workflow on an item.     *)
Outcome(workflow, item, status) ==
    Write("outcomes", {[id |-> <<workflow, item>>, status |-> status]})

(* A gate files its verdict; what follows happens only when it is passed.  *)
Gated(gate, writes, outcome, failure) ==
    IF Refused(gate) THEN Plan(<<Write("gates", {gate}), failure>>, TRUE)
    ELSE Plan(<<Write("gates", {gate})>> \o writes \o outcome, FALSE)

-----------------------------------------------------------------------------
(* Normalization.  A fixture names at most one company; every time that it *)
(* leaves out falls back to the time it was retrieved.                     *)

DocumentKind == {"filing", "earnings_call", "news_item"}

_build_source_reference(f) ==
    [id |-> f.name, published |-> f.published, available |-> TRUE, effective |-> TRUE,
     prov |-> {"time", "name"}]

_normalize_company(f) == {[id |-> c, prov |-> WithSource] : c \in f.company}

_document_model(f) ==
    IF f.kind \notin DocumentKind THEN {}
    ELSE {[id |-> f.name, kind |-> f.kind, company |-> f.company, source |-> f.name,
           published |-> f.published, available |-> TRUE, effective |-> TRUE, day |-> f.day,
           prov |-> WithSource]}

PriceSeries(f) ==
    IF f.kind # "price_series_metadata" THEN {}
    ELSE {[id |-> f.name, company |-> f.company, source |-> f.name]}

_persist_normalized_artifacts(f) ==
    <<Write("source_references", {_build_source_reference(f)}),
      Write("companies", _normalize_company(f)),
      Write("documents", _document_model(f)),
      Write("price_series_metadata", PriceSeries(f))>>

(* The raw fixture is on file before the gate speaks.                      *)
ingest_fixture(f) ==
    LET gate == validate_ingestion_normalization(
                    _build_source_reference(f), _document_model(f), _normalize_company(f))
        rest == Gated(gate, _persist_normalized_artifacts(f),
                    <<Outcome("fixture_ingestion", f.name, "succeeded")>>,
                    Outcome("fixture_ingestion", f.name, "failed"))
    IN  [rest EXCEPT !.writes = <<Write("raw", {[id |-> f.name, kind |-> f.kind, text |-> f.text]})>> \o @]

(* Step 1: every fixture in turn, none at all is an error.                 *)
run_fixture_ingestion_pipeline(fixtures) ==
    IF fixtures = <<>> THEN Plan(<<>>, TRUE)
    ELSE InTurn([i \in DOMAIN fixtures |-> ingest_fixture(fixtures[i])])

-----------------------------------------------------------------------------
(* Text and segments.  A news item reads its headline first.               *)

Says(parts) == FlattenSeq([i \in DOMAIN parts |-> parts[i].says])
Filled(parts) == Those(parts, LAMBDA p : p.says # <<>>)
HeadlineOf(d, raw) == IF d.kind = "news_item" THEN raw.text[1].says ELSE <<>>
BodyOf(d, raw) == Filled(IF d.kind = "news_item" THEN Tail(raw.text) ELSE raw.text)

(* A text, a headline or a body without a word is not taken.               *)
Blank(d, raw) == BodyOf(d, raw) = <<>> \/ (d.kind = "news_item" /\ HeadlineOf(d, raw) = <<>>)

build_parsed_document_text(d, raw) ==
    [id |-> d.id, document |-> d.id, canonical_text |-> HeadlineOf(d, raw) \o Says(BodyOf(d, raw)),
     headline |-> Len(HeadlineOf(d, raw)), prov |-> WithSource]

Ahead(parts, i) == Len(Says(SubSeq(parts, 1, i - 1)))

(* The spans of some parts: half-open, from an offset on.                  *)
_paragraph_spans(parts, from) ==
    [i \in DOMAIN parts |->
        [start |-> from + Ahead(parts, i), stop |-> from + Ahead(parts, i + 1)]]

(* A turn reaches from its header to the next; what stands before the      *)
(* first header belongs to none.                                           *)
_speaker_turn_spans(parts) ==
    LET headers == Those([i \in DOMAIN parts |-> i], LAMBDA i : parts[i].speaker # None)
        Stop(j) == IF j = Len(headers) THEN Len(parts) + 1 ELSE headers[j + 1]
    IN  [j \in DOMAIN headers |->
            [start |-> Ahead(parts, headers[j]), stop |-> Ahead(parts, Stop(j))]]

_make_segment(d, kind, index, parent, span) ==
    [id |-> <<d.id, kind, index, span.start, span.stop>>, document |-> d.id, kind |-> kind,
     index |-> index, parent |-> parent, start |-> span.start, stop |-> span.stop,
     prov |-> WithSource]

Children(d, kind, spans, first, parent) ==
    [i \in DOMAIN spans |-> _make_segment(d, kind, first + i - 1, parent.id, spans[i])]

_segment_filing(d, text, parts) ==
    LET section == _make_segment(d, "section", 0, None,
                                 [start |-> 0, stop |-> Len(text.canonical_text)])
    IN  <<section>> \o Children(d, "paragraph", _paragraph_spans(parts, 0), 1, section)

_segment_transcript(d, text, parts) ==
    LET section == _make_segment(d, "section", 0, None,
                                 [start |-> 0, stop |-> Len(text.canonical_text)])
    IN  <<section>> \o Children(d, "speaker_turn", _speaker_turn_spans(parts), 1, section)

_segment_news(d, text, parts) ==
    LET headline == _make_segment(d, "headline", 0, None, [start |-> 0, stop |-> text.headline])
        body == _make_segment(d, "body", 1, None,
                              [start |-> text.headline, stop |-> Len(text.canonical_text)])
    IN  <<headline, body>>
        \o Children(d, "paragraph", _paragraph_spans(parts, text.headline), 2, body)

segment_document(d, text, parts) ==
    CASE d.kind = "filing" -> _segment_filing(d, text, parts)
      [] d.kind = "earnings_call" -> _segment_transcript(d, text, parts)
      [] OTHER -> _segment_news(d, text, parts)

-----------------------------------------------------------------------------
(* Extraction.  The first class that has a cue in the sentence is its.     *)

FirstClass(classes, sentence, otherwise) ==
    LET hits == Those(classes, LAMBDA c : c[2] \cap sentence # {})
    IN  IF hits = <<>> THEN otherwise ELSE hits[1][1]

ClaimCues ==
    << <<"outlook_statement", {"outlook"}>>, <<"financial_result", {"revenue"}>>,
       <<"product_update", {"product"}>>, <<"timeline_statement", {"expects"}>>,
       <<"operational_update", {"backlog"}>> >>
_classify_claim_type(sentence) == FirstClass(ClaimCues, sentence, None)

RiskWords == {"risk", "pressure", "challenge", "headwind", "uncertain", "delay", "fund"}
RiskCues ==
    << <<"regulatory", {"regulatory"}>>, <<"margin", {"margin"}>>, <<"demand", {"demand"}>>,
       <<"investment", {"fund"}>>, <<"execution", {"delay", "challenge"}>>,
       <<"operational", {"operational"}>> >>
_classify_risk_category(sentence) ==
    IF sentence \cap RiskWords = {} THEN None ELSE FirstClass(RiskCues, sentence, "other")

GuidanceCues ==
    << <<"maintained", {"reiterated"}>>, <<"raised", {"increase"}>>, <<"lowered", {"lowered"}>>,
       <<"withdrew", {"withdrew"}>>, <<"initiated", {"initiated"}>> >>
_guidance_direction_and_topic(sentence) ==
    IF "outlook" \notin sentence THEN None ELSE FirstClass(GuidanceCues, sentence, None)

ToneCues ==
    << <<"confidence", {"ahead", "reiterated"}>>,
       <<"caution", {"pressure", "challenge", "headwind", "fund"}>>,
       <<"uncertainty", {"uncertain", "may"}>>, <<"improvement", {"increase", "improved"}>> >>
MarkersOf(sentence) == {ToneCues[i][1] : i \in {j \in DOMAIN ToneCues : ToneCues[j][2] \cap sentence # {}}}

_leaf_segments(segments) ==
    LET parents == {segments[i].parent : i \in DOMAIN segments}
    IN  Those(segments, LAMBDA s : s.id \notin parents /\ s.kind # "section")

_build_evidence_span(d, segment, at, sentence) ==
    [id |-> <<segment.id, at>>, document |-> d.id, segment |-> segment.id, at |-> at,
     text |-> sentence, prov |-> WithSource]

SpansOf(d, text, leaves) ==
    FlattenSeq([i \in DOMAIN leaves |->
        [j \in 1..(leaves[i].stop - leaves[i].start) |->
            _build_evidence_span(d, leaves[i], leaves[i].start + j,
                                 text.canonical_text[leaves[i].start + j])]])

(* What is extracted is known by its sentence, not by its place.           *)
Extracted(d, span, class) ==
    [id |-> <<span.segment, class, span.text>>, document |-> d.id, company |-> d.company,
     segment |-> span.segment, span |-> span.id, class |-> class, text |-> span.text,
     prov |-> WithSource]

ExtractedBy(d, spans, Classify(_)) ==
    {Extracted(d, s, Classify(s.text)) : s \in {x \in spans : Classify(x.text) # None}}

extract_evidence_objects(d, spans) ==
    [claims |-> ExtractedBy(d, spans, _classify_claim_type),
     risk_factors |-> ExtractedBy(d, spans, _classify_risk_category),
     guidance_changes |-> ExtractedBy(d, spans, _guidance_direction_and_topic),
     tone_markers |-> UNION {{Extracted(d, s, m) : m \in MarkersOf(s.text)} : s \in spans}]

-----------------------------------------------------------------------------
(* The evaluation of a bundle, and the bundle itself.                      *)

_provenance_complete(artifacts) == \A a \in artifacts : WithSource \subseteq a.prov

ReferencesResolve(segments, spans, extracted) ==
    LET segmentIds == {s.id : s \in segments}  spanIds == {s.id : s \in spans}
    IN  /\ \A s \in spans : s.segment \in segmentIds
        /\ \A a \in extracted : a.segment \in segmentIds /\ a.span \in spanIds

Aligned(text, spans) == \A s \in spans : text.canonical_text[s.at] = s.text

evaluate_document_evidence_bundle(text, segments, spans, extracted) ==
    /\ _provenance_complete({text} \cup segments \cup spans \cup extracted)
    /\ ReferencesResolve(segments, spans, extracted)
    /\ Aligned(text, spans)
    /\ spans # {}

AllExtracted(e) == e.claims \cup e.risk_factors \cup e.guidance_changes \cup e.tone_markers

build_document_evidence_bundle(d, text, segments, spans, extracted) ==
    [id |-> d.id, kind |-> d.kind, company |-> d.company, text |-> text,
     filled |-> text.canonical_text # <<>>, segments |-> segments, spans |-> spans,
     artifacts |-> InSomeOrder(AllExtracted(extracted)),
     passed |-> evaluate_document_evidence_bundle(
                    text, ToSet(segments), ToSet(spans), AllExtracted(extracted))]

_persist_bundle(bundle, extracted) ==
    <<Write("parsed_text", {bundle.text}),
      Write("segments", ToSet(bundle.segments)),
      Write("evidence_spans", ToSet(bundle.spans)),
      Write("claims", extracted.claims),
      Write("risk_factors", extracted.risk_factors),
      Write("guidance_changes", extracted.guidance_changes),
      Write("tone_markers", extracted.tone_markers)>>

BundlePlan(bundle, extracted) ==
    Gated(validate_evidence_bundle(bundle), _persist_bundle(bundle, extracted),
          <<Outcome("evidence_extraction", bundle.id, "succeeded")>>,
          Outcome("evidence_extraction", bundle.id, "failed"))

SpansPlan(d, text, segments, spans) ==
    LET extracted == extract_evidence_objects(d, ToSet(spans))
    IN  BundlePlan(build_document_evidence_bundle(d, text, segments, spans, extracted), extracted)

SegmentsPlan(d, text, segments) ==
    SpansPlan(d, text, segments, SpansOf(d, text, _leaf_segments(segments)))

TextPlan(d, raw, text) ==
    IF Blank(d, raw) THEN Plan(<<Outcome("evidence_extraction", d.id, "failed")>>, TRUE)
    ELSE SegmentsPlan(d, text, segment_document(d, text, BodyOf(d, raw)))

(* A document without its source reference or raw payload cannot be loaded. *)
extract_document_evidence(files, d) ==
    LET failed == Outcome("evidence_extraction", d.id, "failed")
        sources == {s \in files.source_references : s.id = d.source}
        raws == {r \in files.raw : r.id = d.source /\ r.kind = d.kind}
        gates == {validate_parsing_inputs(d, s) : s \in sources}
    IN  IF sources = {} \/ raws = {} THEN Plan(<<failed>>, TRUE)
        ELSE InTurn(<<Gated(CHOOSE g \in gates : TRUE, <<>>, <<>>, failed),
                      LET raw == CHOOSE r \in raws : TRUE
                      IN  TextPlan(d, raw, build_parsed_document_text(d, raw))>>)

(* The files of a directory before those of the next, none is an error.    *)
InDirectory(documents, kind) == SetToSeq({d \in documents : d.kind = kind})
discover_parseable_document_paths(documents) ==
    InDirectory(documents, "earnings_call") \o InDirectory(documents, "filing")
    \o InDirectory(documents, "news_item")

(* Step 2: every document on file, those of earlier days included.         *)
run_evidence_extraction_pipeline(files) ==
    IF files.documents = {} THEN Plan(<<>>, TRUE)
    ELSE LET found == discover_parseable_document_paths(files.documents)
         IN  InTurn([i \in DOMAIN found |-> extract_document_evidence(files, found[i])])
=============================================================================
