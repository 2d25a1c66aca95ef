------------------------------- MODULE PdfScan -------------------------------
(***************************************************************************)
(* analyze_pdf (forensics/pdf.rs): one pass over the tokens of a document, *)
(* which opens objects, streams and compressed streams under budgets.  The *)
(* document is chosen token by token; the lexer itself is what makes it    *)
(* tokens (a string of any length is one, with its bounded prefix).        *)
(*                                                                         *)
(* Reasons are a set: 27 codes, fewer than the 32 that are kept.           *)
(***************************************************************************)
EXTENDS Naturals, Sequences, FiniteSets
LOCAL INSTANCE FiniteSetsExt
LOCAL INSTANCE SequencesExt

CONSTANTS
  Dialects,                      \* BOUND: what a document is made of, see dialect
  PDF_MAX_OBJECTS_SCANNED,       \* 8192
  PDF_MAX_FINDINGS,              \* 64
  PDF_MAX_FILTERS,               \* 64
  PDF_MAX_TEXT_BYTES,            \* 1 MiB
  PDF_MAX_STREAMS_INFLATED,      \* 16
  PDF_MAX_STREAM_INFLATE_BYTES,  \* 256 KiB
  PDF_MAX_STREAM_INFLATE_TOTAL   \* 1 MiB

VARIABLES
  dialect,    \* BOUND: the tokens between objects and in them, the streams, how many in all
  lexed,      \* tokens taken so far
  document,   \* the loop of analyze_pdf, and ScanState
  object,     \* the loop of scan_object
  report,     \* ContainerAnalysis
  seen,       \* history: every finding, kept or not
  skipped,    \* history: bytes that no lexer has been over
  uninspected      \* history: content that was not looked into

pdfVars == <<dialect, lexed, document, object, report, seen, skipped, uninspected>>

-----------------------------------------------------------------------------
(* Tokens.                                                                 *)

Word(is) == [kind |-> "word", is |-> is]
NumberToken(right) == [kind |-> "number", right |-> right]   \* a length, an offset: right or not
NameToken(is) == [kind |-> "name", is |-> is]
Mark(is) == [kind |-> "mark", is |-> is]                \* [ ] << >>
EofMarker == [kind |-> "eof"]
Text(is, capped, uri) == [kind |-> "text", is |-> is, capped |-> capped, uri |-> uri]
Flaw(is) == [kind |-> "flaw", is |-> is]                \* what makes a lexer malformed or limited

IsWord(t, is) == t.kind = "word" /\ t.is = is
IsName(t, is) == t.kind = "name" /\ t.is = is

-----------------------------------------------------------------------------
(* Findings.                                                               *)

DOC_004 == "DOC-004"
Observation == "PDF"
PdfSentinel == "exhausted"
Family(positive) == IF positive THEN DOC_004 ELSE Observation

\* Mutant of Finding: a positive that comes too late is not shown.
FindingHidden(r, positive) ==
  LET latched == [r EXCEPT !.detected = @ \/ positive]
  IN IF Len(r.findings) < PDF_MAX_FINDINGS
     THEN [latched EXCEPT !.findings = Append(@, Family(positive))]
     ELSE [latched EXCEPT !.reasons = @ \cup {"pdf_finding_limit"},
                          !.findings[PDF_MAX_FINDINGS] = PdfSentinel]

\* finding: "Keep a visible positive even if observations used all display
\* slots."
Finding(r, positive) ==
  LET latched == [r EXCEPT !.detected = @ \/ positive]
      shown == \E i \in 1..(PDF_MAX_FINDINGS - 1) : r.findings[i] = DOC_004
      room == IF positive \/ r.findings[PDF_MAX_FINDINGS] = DOC_004
              THEN [latched EXCEPT !.findings[PDF_MAX_FINDINGS - 1] = DOC_004] ELSE latched
  IN IF Len(r.findings) < PDF_MAX_FINDINGS
     THEN [latched EXCEPT !.findings = Append(@, Family(positive))]
     ELSE [(IF shown THEN latched ELSE room) EXCEPT
             !.reasons = @ \cup {"pdf_finding_limit"}, !.findings[PDF_MAX_FINDINGS] = PdfSentinel]

\* What a step notes: reasons, then findings in order.
Noted(reasons, positives) ==
  /\ report' = FoldLeft(Finding, [report EXCEPT !.reasons = @ \cup reasons], positives)
  /\ seen' = seen \o [i \in DOMAIN positives |-> Family(positives[i])]

When(condition, value) == IF condition THEN {value} ELSE {}
Maybe(condition, positive) == IF condition THEN <<positive>> ELSE <<>>

-----------------------------------------------------------------------------
(* The text that is collected.                                             *)

\* push_text.  A string is one unit of text, and goes in whole or not at all;
\* "odd", "lone" and "legacy" do not decode, unless it is their end that was
\* cut away.
Undecoded(t) ==
  CASE t.is = "odd" /\ ~t.capped -> {"pdf_text_encoding_invalid"}
    [] t.is = "lone" -> {"pdf_text_encoding_invalid"}
    [] t.is = "legacy" -> {IF t.capped THEN "pdf_text_encoding_invalid" ELSE "pdf_text_encoding_unsupported"}
    [] OTHER -> {}

Separator(text) == IF text.len = 0 THEN 0 ELSE 1
Fits(text) == text.len + Separator(text) < PDF_MAX_TEXT_BYTES
Decodable(t) == t.is \in {"plain", "hidden"} \/ (t.capped /\ t.is # "empty")

PushText(text, t) ==
  IF Decodable(t) /\ Fits(text)
  THEN [len |-> text.len + Separator(text) + 1, hidden |-> text.hidden \/ t.is = "hidden"]
  ELSE text

TextReasons(text, t) ==
  When(t.capped, "pdf_string_limit") \cup Undecoded(t)
    \cup When(Decodable(t) /\ ~Fits(text), "pdf_text_byte_limit")

-----------------------------------------------------------------------------
(* Streams.                                                                *)

NoObject == [pc |-> "none"]
NoPrevious == [kind |-> "none"]

\* inspect_stream and collect_strings for a stream that holds the string s and
\* inflates to s.size units, or as far as it decodes.
StreamCap == Min({PDF_MAX_STREAM_INFLATE_BYTES, PDF_MAX_STREAM_INFLATE_TOTAL - document.inflated})
MayInflate == document.streams < PDF_MAX_STREAMS_INFLATED /\ document.inflated < PDF_MAX_STREAM_INFLATE_TOTAL

Strings(d, s) == [d EXCEPT !.text = PushText(@, s.string)]
StringReasons(d, s) ==
  IF d.text.len >= PDF_MAX_TEXT_BYTES THEN {"pdf_text_byte_limit"}
  ELSE TextReasons(d.text, s.string) \cup When(s.malformed, "pdf_lexical_error")

Inspected(s) ==
  CASE object.image -> [document |-> document, reasons |-> {}]
    [] object.filters = <<>> -> [document |-> Strings(document, s), reasons |-> StringReasons(document, s)]
    [] object.filters # <<>> /\ object.filters # <<"FlateDecode">> ->
         [document |-> document, reasons |-> {"pdf_filter_unsupported"}]
    [] object.filters = <<"FlateDecode">> /\ ~MayInflate ->
         [document |-> document, reasons |-> {"pdf_inflate_limit"}]
    [] OTHER ->
         LET d == [document EXCEPT !.streams = @ + 1, !.inflated = @ + Min({s.size, StreamCap})]
             whole == s.size <= StreamCap   \* the string is at the end
         IN [document |-> IF whole THEN Strings(d, s) ELSE d,
             reasons |-> When(~s.decodes, "pdf_flate_invalid") \cup When(s.size > StreamCap, "pdf_inflate_limit")
                           \cup (IF whole THEN StringReasons(d, s) ELSE {})]

\* stream_range: where the stream ends, by its length or by a bounded search.  A
\* length over PDF_MAX_STREAM_BYTES is a wrong one with a reason of its own.
RangeReasons ==
  CASE object.claim = "right" -> {}
    [] object.claim = "wrong" -> {"pdf_stream_length_mismatch"}
    [] object.claim = "none" -> {"pdf_stream_length_unknown"}

\* What is noted of an object when it is left.
ObjectFindings ==
  Maybe(object.suspicious, TRUE)
    \o Maybe(~object.image /\ (Len(object.filters) >= 3 \/ \E i \in DOMAIN object.filters : object.filters[i] = "Crypt"),
             TRUE)
Unbalanced == object.depth # 0 \/ object.array

LeaveObject(d, reasons) ==
  /\ Noted(object.flaws \cup reasons, ObjectFindings)
  /\ document' = d /\ object' = NoObject

TakeStream(s) ==
  /\ LET skip == object.unsupported \/ Unbalanced   \* stream_decode_unsupported
         inspected == IF skip THEN [document |-> document, reasons |-> {}] ELSE Inspected(s)
         unbalanced == When(Unbalanced, "pdf_lexical_error")
     IN \/ /\ s.eol /\ (object.claim = "right" \/ s.found)
           /\ LeaveObject(inspected.document,
                inspected.reasons \cup RangeReasons \cup unbalanced \cup When(~s.endobj, "pdf_object_unterminated"))
           /\ UNCHANGED skipped
        \/ /\ ~(s.eol /\ (object.claim = "right" \/ s.found))
           /\ LeaveObject([document EXCEPT !.pc = "end"],
                unbalanced \cup {"pdf_object_unterminated"}
                  \cup (IF s.eol THEN RangeReasons \cup {"pdf_stream_unterminated"} ELSE {"pdf_stream_eol_invalid"}))
           /\ skipped' = TRUE
  /\ uninspected' = (uninspected \/ (~object.image /\
       (\/ object.unsupported \/ Unbalanced \/ ~s.eol \/ ~(object.claim = "right" \/ s.found)
        \/ object.filters \notin {<<>>, <<"FlateDecode">>}
        \/ object.filters = <<"FlateDecode">> /\ (~MayInflate \/ s.size > StreamCap \/ ~s.decodes))))

-----------------------------------------------------------------------------
(* The loop of scan_object.                                                *)

OpenedObject ==
  [pc |-> "open", previous |-> NoPrevious, array |-> FALSE, depth |-> 0, unsupported |-> FALSE,
   filters |-> <<>>, image |-> FALSE, claim |-> "none", numbers |-> 0, suspicious |-> FALSE, flaws |-> {}]

After(key) == object.depth = 1 /\ IsName(object.previous, key)
FilterValue(t) == t.kind = "name" /\ (After("Filter") \/ object.array)

\* The length of the stream: a number, unless it turns out a reference.
LengthStep(o, t) ==
  IF t.kind \notin {"word", "number"} THEN o
  ELSE IF After("Length")
  THEN [o EXCEPT !.claim = IF t.kind # "number" THEN "none" ELSE IF t.right THEN "right" ELSE "wrong",
                 !.numbers = IF t.kind = "number" THEN 1 ELSE 0]
  ELSE IF object.numbers = 1 /\ t.kind = "number" THEN [o EXCEPT !.numbers = 2]
  ELSE IF object.numbers = 2 /\ IsWord(t, "R") THEN [o EXCEPT !.claim = "none", !.numbers = 0]
  ELSE [o EXCEPT !.numbers = 0]

MarkStep(o, t) ==
  CASE t.kind # "mark" -> o
    [] t.kind = "mark" /\ t.is = "[" -> [o EXCEPT !.array = @ \/ After("Filter")]
    [] t.kind = "mark" /\ t.is = "]" -> [o EXCEPT !.array = FALSE]
    [] t.kind = "mark" /\ t.is = "<<" -> [o EXCEPT !.depth = @ + 1]
    [] t.kind = "mark" /\ t.is = ">>" -> [o EXCEPT !.depth = IF @ = 0 THEN 0 ELSE @ - 1]

NameStep(o, t) ==
  IF t.kind # "name" THEN o
  ELSE [o EXCEPT
    !.suspicious = @ \/ t.is = "JavaScript",
    !.image = @ \/ (After("Subtype") /\ t.is = "Image"),
    !.filters = IF FilterValue(t) /\ Len(@) < PDF_MAX_FILTERS THEN Append(@, t.is) ELSE @]

\* A value that the filters or their parameters cannot have here.
Unsupported(t) ==
  \/ After("Filter") /\ t.kind # "name" /\ t # Mark("[")
  \/ After("DecodeParms") /\ ~IsWord(t, "null")

TokenReasons(t) ==
  When(IsName(t, "ObjStm"), "pdf_object_stream_unsupported")
    \cup When(IsName(t, "Encrypt"), "pdf_encryption_unsupported")
    \cup When(FilterValue(t) /\ Len(object.filters) = PDF_MAX_FILTERS, "pdf_filter_limit")
    \cup When(t = Mark(">>") /\ object.depth = 0, "pdf_lexical_error")
    \cup When(object.numbers = 2 /\ IsWord(t, "R") /\ ~After("Length"), "pdf_indirect_length")
    \cup When(After("Filter") /\ t.kind # "name" /\ t # Mark("["), "pdf_filter_unsupported")
    \cup When(IsName(object.previous, "URI") /\ t.kind \in {"word", "number"}, "pdf_uri_indirect_unsupported")
    \cup When(After("DecodeParms") /\ ~IsWord(t, "null"), "pdf_decode_parameters_unsupported")
    \cup (IF t.kind = "text" THEN TextReasons(document.text, t) ELSE {})

TokenFindings(t) ==
  Maybe(IsName(t, "AcroForm"), FALSE)
    \o Maybe(t.kind = "text" /\ IsName(object.previous, "URI") /\ t.uri # "none", t.kind = "text" /\ t.uri = "dangerous")

Lex == UNCHANGED dialect /\ document.pc # "end" /\ lexed < dialect.max /\ lexed' = lexed + 1

\* A turn of the loop, for a token that neither closes nor opens anything; an
\* EOF marker in an object is a value like another.
ObjectToken ==
  /\ object.pc = "open" /\ Lex
  /\ \E t \in dialect.inner :
       /\ t.kind # "flaw"
       /\ ~IsWord(t, "endobj") /\ ~IsWord(t, "stream")
       /\ Noted(TokenReasons(t), TokenFindings(t))
       /\ object' = [NameStep(MarkStep(LengthStep(object, t), t), t) EXCEPT
                       !.unsupported = @ \/ Unsupported(t),
                       !.previous = IF t.kind = "name" THEN t ELSE NoPrevious]
       /\ document' = [document EXCEPT
            !.text = IF t.kind = "text" THEN PushText(@, t) ELSE @,
            !.xref = @ \/ (After("Type") /\ IsName(t, "XRef"))]
       /\ uninspected' = (uninspected \/ (t.kind = "text" /\ t.is # "empty" /\ (t.capped \/ ~Decodable(t) \/ ~Fits(document.text)))
                       \/ IsName(t, "ObjStm") \/ IsName(t, "Encrypt"))
  /\ UNCHANGED skipped

\* The lexer meets something malformed or over a limit, and says so at the end.
ObjectFlaw ==
  /\ object.pc = "open" /\ Lex
  /\ \E t \in dialect.inner : t.kind = "flaw" /\ object' = [object EXCEPT !.flaws = @ \cup {t.is}]
  /\ UNCHANGED <<document, report, seen, skipped, uninspected>>

EndObject ==
  /\ object.pc = "open" /\ Lex
  /\ LeaveObject(document, When(Unbalanced, "pdf_lexical_error"))
  /\ UNCHANGED <<skipped, uninspected>>

StreamToken ==
  /\ object.pc = "open" /\ Lex
  /\ \E s \in dialect.streams : TakeStream(s)

\* The bytes end, or those of the object's window: what follows it is lost.
ObjectCut ==
  /\ object.pc = "open" /\ UNCHANGED <<dialect, lexed>>
  /\ \E code \in {"pdf_object_byte_limit", "pdf_object_unterminated"} :
       LeaveObject([document EXCEPT !.pc = "end"], {code})
  /\ skipped' = TRUE /\ UNCHANGED uninspected

-----------------------------------------------------------------------------
(* The loop of analyze_pdf.                                                *)

NoText == [len |-> 0, hidden |-> FALSE]

StartOfBody ==
  [pc |-> "body", numbers |-> <<FALSE, FALSE>>, objects |-> 0, eof |-> FALSE, tail |-> FALSE,
   trailer |-> FALSE, startxref |-> "none", expect |-> FALSE, flaws |-> {},
   text |-> NoText, inflated |-> 0, streams |-> 0, xref |-> FALSE, appended |-> FALSE]

\* Bytes before the header are a finding of their own; a document without one is
\* left at once.
PdfInit ==
  /\ dialect \in Dialects /\ lexed = 0 /\ object = NoObject
  /\ \/ \E prefix \in BOOLEAN :
          /\ document = StartOfBody
          /\ seen = Maybe(prefix, DOC_004)
          /\ report = [findings |-> seen, detected |-> prefix, reasons |-> {}]
          /\ skipped = FALSE
     \/ /\ document = [StartOfBody EXCEPT !.pc = "done"]
        /\ seen = <<Observation>>
        /\ report = [findings |-> seen, detected |-> FALSE, reasons |-> {"pdf_header_invalid"}]
        /\ skipped = TRUE
  /\ uninspected = FALSE

Outside == document.pc = "body" /\ object = NoObject

Shift(numbers, number) == <<numbers[2], number>>
OpensObject(t) == IsWord(t, "obj") /\ document.numbers = <<TRUE, TRUE>>

StartObject ==
  /\ Outside /\ Lex /\ Word("obj") \in dialect.outer /\ OpensObject(Word("obj"))
  /\ IF document.objects = PDF_MAX_OBJECTS_SCANNED
     THEN /\ Noted({"pdf_object_limit"}, <<>>)
          /\ document' = [document EXCEPT !.pc = "end"] /\ skipped' = TRUE
          /\ UNCHANGED object
     ELSE /\ document' = [document EXCEPT !.objects = @ + 1, !.numbers = <<FALSE, FALSE>>, !.tail = TRUE]
          /\ object' = OpenedObject
          /\ UNCHANGED <<report, seen, skipped>>
  /\ UNCHANGED uninspected

\* A word after startxref is its offset, unless it is a keyword itself.
ExpectStep(d, t) ==
  CASE IsWord(t, "startxref") -> [d EXCEPT !.expect = TRUE]
    [] IsWord(t, "trailer") -> [d EXCEPT !.trailer = TRUE]
    [] ~IsWord(t, "startxref") /\ ~IsWord(t, "trailer") /\ t.kind \in {"word", "number"} /\ d.expect ->
         [d EXCEPT !.expect = FALSE,
                   !.startxref = IF t.kind # "number" THEN "none" ELSE IF t.right THEN "ok" ELSE "wrong"]
    [] OTHER -> d

OuterToken ==
  /\ Outside /\ Lex
  /\ \E t \in dialect.outer :
       /\ ~OpensObject(t) /\ t.kind # "flaw"
       /\ document' = [ExpectStep(document, t) EXCEPT
            !.eof = @ \/ t = EofMarker, !.tail = t # EofMarker,
            !.numbers = IF t.kind \in {"word", "number"} THEN Shift(@, t.kind = "number") ELSE <<FALSE, FALSE>>]
       /\ Noted(When(IsName(t, "Encrypt"), "pdf_encryption_unsupported"), <<>>)
       /\ uninspected' = (uninspected \/ IsName(t, "Encrypt"))
  /\ UNCHANGED <<object, skipped>>

OuterFlaw ==
  /\ Outside /\ Lex
  /\ \E t \in dialect.outer :
       t.kind = "flaw" /\ document' = [document EXCEPT !.flaws = @ \cup {t.is}, !.tail = TRUE]
  /\ UNCHANGED <<object, report, seen, skipped, uninspected>>

\* With these the last EOF marker may not be the last.
EofCut == {"pdf_file_byte_limit", "pdf_object_limit", "pdf_object_byte_limit", "pdf_object_unterminated",
           "pdf_stream_unterminated", "pdf_stream_eol_invalid", "pdf_lexical_error"}

Appended(reasons) == document.eof /\ document.tail /\ reasons \cap EofCut = {}

Malformed == ~document.eof \/ (~document.trailer /\ ~document.xref) \/ document.startxref # "ok"

\* Everything after the loop: what follows the last EOF marker, the summary,
\* the structure, the metadata, the text.  That the file was cut to its limit,
\* and that its version is none, is noted first in the code: the reasons are a
\* set.
Finish ==
  /\ document.pc # "done" /\ object = NoObject
  /\ \E metadata, cut, version \in BOOLEAN :
       LET noted == document.flaws \cup When(cut, "pdf_file_byte_limit") \cup When(~version, "pdf_header_invalid")
           appended == Appended(report.reasons \cup noted)
       IN /\ Noted(noted \cup When(Malformed, "pdf_structure_invalid"),
                   Maybe(appended, TRUE) \o <<FALSE>> \o Maybe(Malformed, FALSE) \o Maybe(metadata, FALSE)
                     \o Maybe(document.text.hidden, TRUE))
          /\ document' = [document EXCEPT !.pc = "done", !.appended = appended]
          /\ skipped' = (skipped \/ cut)
  /\ UNCHANGED <<dialect, lexed, object, uninspected>>

PdfNext ==
  \/ ObjectToken \/ ObjectFlaw \/ EndObject \/ StreamToken \/ ObjectCut
  \/ StartObject \/ OuterToken \/ OuterFlaw \/ Finish

-----------------------------------------------------------------------------
(* What the report promises.                                               *)

PdfPositive(family) == family = DOC_004
PositiveAmong(findings) == \E i \in DOMAIN findings : PdfPositive(findings[i])

\* The latch is the disjunction of all findings, also of those that the cap
\* suppressed, and what it says is to be seen among those that were kept.
DetectionIsShown ==
  /\ report.detected = PositiveAmong(seen)
  /\ report.detected => PositiveAmong(report.findings)

\* Findings are kept in order up to the cap, and that there were more is said.
SuppressionIsSaid ==
  IF Len(seen) <= PDF_MAX_FINDINGS
  THEN report.findings = seen
  ELSE /\ Len(report.findings) = PDF_MAX_FINDINGS
       /\ report.findings[PDF_MAX_FINDINGS] = PdfSentinel
       /\ "pdf_finding_limit" \in report.reasons

\* A document is never certified clean when bytes were skipped or content was
\* not looked into, and bytes after "the last" EOF marker are only claimed when
\* no later marker can have been missed.
NothingCertifiedUnread ==
  document.pc = "done" =>
    /\ skipped \/ uninspected => report.reasons # {}
    /\ document.appended => ~skipped

\* The budgets of a document hold across all its objects.
PdfWorkIsBounded ==
  /\ document.inflated <= PDF_MAX_STREAM_INFLATE_TOTAL
  /\ document.streams <= PDF_MAX_STREAMS_INFLATED
  /\ document.text.len <= PDF_MAX_TEXT_BYTES

\* analyze_pdf's report is a true one, whatever the order of tokens, streams
\* and limits.
PdfReportHolds ==
  DetectionIsShown /\ SuppressionIsSaid /\ NothingCertifiedUnread /\ PdfWorkIsBounded

=============================================================================
