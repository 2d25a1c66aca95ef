---------------------------- MODULE ForensicScan ----------------------------
(***************************************************************************)
(* scan_bytes (forensics.rs): a file is given to the analysis of its       *)
(* family, and to the detectors of embedded magics and of text, each over  *)
(* a window of its own; one verdict and one list of reasons come of all.   *)
(*                                                                         *)
(* A file is its head, which tells its family, and a sequence of units: a  *)
(* unit is a magic, text, or bytes that no text holds.  Entropy and the    *)
(* statistical detectors only accompany the verdict and are left out.      *)
(***************************************************************************)
EXTENDS OoxmlScan, PdfScan

CONSTANTS
  FilesToScan,            \* BOUND: [head: which magics it carries, units: sequence]
  MAX_ANALYSIS_BYTES,     \* 64 MiB
  MAX_MAGIC_SCAN_BYTES,   \* 16 MiB
  TEXT_SCAN_BYTES,        \* unicode_text::MAX_TEXT_SCAN_BYTES, 1 MiB
  MAX_MAGIC_FINDINGS      \* 256

VARIABLES file, scan

scanVars == <<file, scan, packageVars, pdfVars>>

Magic == {"STEG", "STG3"}
NotScanned == [pc |-> "analysing"]

\* detect_file_family: the first of these that the head carries.  A head may
\* carry several: the header of a PDF is looked for in the first 1024 bytes.
FamilyOrder ==
  <<"png", "jpeg", "gif", "webp", "wav", "bmp", "tiff", "pdf", "zip", "gzip", "flac", "ogg", "tar">>
FileFamily(head) ==
  IF \E i \in DOMAIN FamilyOrder : FamilyOrder[i] \in head
  THEN LET first == CHOOSE i \in DOMAIN FamilyOrder :
                      FamilyOrder[i] \in head /\ \A j \in 1..(i - 1) : FamilyOrder[j] \notin head
       IN FamilyOrder[first]
  ELSE "unknown"

Window(units, max) == SubSeq(units, 1, IF Len(units) < max THEN Len(units) ELSE max)

MagicsIn(units) == SelectSeq(Window(units, MAX_MAGIC_SCAN_BYTES), LAMBDA u : u \in Magic)
MagicReasons(units) ==
  When(Len(units) > MAX_MAGIC_SCAN_BYTES, "magic_byte_limit")
    \cup When(Len(MagicsIn(units)) > MAX_MAGIC_FINDINGS, "magic_finding_limit")
MagicMatches(units) == Window(MagicsIn(units), MAX_MAGIC_FINDINGS)

\* detect_text_stego
TextFound(units) ==
  LET text == Window(units, TEXT_SCAN_BYTES)
  IN (\E i \in DOMAIN text : text[i] = "hidden") /\ ~(\E i \in DOMAIN text : text[i] = "binary")

\* Mutant of Container: the verdict is made of the findings that are shown.
ContainerShown(family) ==
  LET a == IF family = "zip" THEN analysis ELSE report
      shown == \E i \in DOMAIN a.findings : Positive(a.findings[i]) \/ PdfPositive(a.findings[i])
  IN IF family \in {"zip", "pdf"} THEN [findings |-> a.findings, detected |-> shown, reasons |-> a.reasons]
     ELSE [findings |-> <<>>, detected |-> FALSE, reasons |-> {}]

\* Findings, verdict and reasons of the analysis of the family.
Container(family) ==
  CASE family = "zip" -> [findings |-> analysis.findings, detected |-> analysis.detected, reasons |-> analysis.reasons]
    [] family = "pdf" -> [findings |-> report.findings, detected |-> report.detected, reasons |-> report.reasons]
    [] OTHER -> [findings |-> <<>>, detected |-> FALSE, reasons |-> {}]

\* What the message names: the magic alone, or the others that fired.
Named(matches, text, container) ==
  IF matches # <<>> THEN {Head(matches)}
  ELSE When(text, "text")
         \cup {f \in {"DOC-002", "DOC-003", "DOC-004"} :
                 container.detected /\ \E i \in DOMAIN container.findings : container.findings[i] = f}

Analysed ==
  CASE FileFamily(file.head) = "zip" -> package.pc = "done"
    [] FileFamily(file.head) = "pdf" -> document.pc = "done"
    [] OTHER -> TRUE

ScanBytes ==
  /\ scan = NotScanned /\ Analysed
  /\ LET container == Container(FileFamily(file.head))
         matches == MagicMatches(file.units)
         text == TextFound(file.units)
         reasons == When(Len(file.units) > MAX_ANALYSIS_BYTES, "analysis_byte_limit")
                      \cup MagicReasons(file.units) \cup container.reasons
                      \cup When(Len(file.units) > TEXT_SCAN_BYTES, "text_byte_limit")
     IN scan' = [pc |-> "done", matches |-> matches, text |-> text, container |-> container.detected,
                 incomplete |-> reasons # {}, detected |-> matches # <<>> \/ text \/ container.detected,
                 message |-> Named(matches, text, container)]
  /\ UNCHANGED <<file, packageVars, pdfVars>>

\* A file that starts like a PDF need not have the header that analyze_pdf
\* looks for.
ScanInit ==
  /\ file \in FilesToScan /\ scan = NotScanned
  /\ PackageInit /\ PdfInit
  /\ FileFamily(file.head) # "pdf" => report = [findings |-> <<>>, detected |-> FALSE, reasons |-> {}]
  /\ FileFamily(file.head) # "pdf" => dialect = CHOOSE d \in Dialects : TRUE

AnalysePackage ==
  FileFamily(file.head) = "zip" /\ PackageNext /\ UNCHANGED <<file, scan, pdfVars>>
AnalysePdf ==
  FileFamily(file.head) = "pdf" /\ PdfNext /\ UNCHANGED <<file, scan, packageVars>>

ScanNext == AnalysePackage \/ AnalysePdf \/ ScanBytes

-----------------------------------------------------------------------------

\* There is nothing in the file that a detector in scope would have found.
Hides ==
  \/ \E i \in DOMAIN file.units : file.units[i] \in Magic
  \/ (\E i \in DOMAIN file.units : file.units[i] = "hidden") /\ ~(\E i \in DOMAIN file.units : file.units[i] = "binary")
Concealed ==
  CASE FileFamily(file.head) = "zip" -> \E i \in DOMAIN evidence : Positive(evidence[i])
    [] FileFamily(file.head) = "pdf" -> PositiveAmong(seen)
    [] OTHER -> FALSE
NotLookedAt ==
  CASE FileFamily(file.head) = "zip" -> unread
    [] FileFamily(file.head) = "pdf" -> skipped \/ uninspected
    [] OTHER -> FALSE

\* The families that fired: each that is to be summed up when there is no magic.
Fired ==
  When(scan.text, "text")
    \cup (CASE FileFamily(file.head) = "zip" -> {evidence[i] : i \in {j \in DOMAIN evidence : Positive(evidence[j])}}
            [] FileFamily(file.head) = "pdf" -> When(Concealed, DOC_004)
            [] OTHER -> {})

\* "Container evidence and coverage are independent": a scan that detects
\* nothing and says it is complete has seen all of the file and there was
\* nothing; what the analysis of the container found is in the verdict even if
\* it is not among the findings that were kept; and the message of a detection
\* names the magic, or the families that fired and no other; all of them, if a
\* package has not more findings than are kept (scan_bytes over analyze_package
\* and analyze_pdf).  With more, see SummaryNamesFamilies.
VerdictIsWarranted ==
  scan.pc = "done" =>
    /\ ~scan.detected /\ ~scan.incomplete => ~Hides /\ ~Concealed /\ ~NotLookedAt
    /\ Concealed => scan.detected
    /\ scan.matches # <<>> => scan.message # {}
    /\ scan.matches = <<>> =>
         /\ scan.message \subseteq Fired
         /\ Len(evidence) <= CONTAINER_MAX_FINDINGS => scan.message = Fired

\* "The summary must reflect every non-statistical family that fired"
\* (forensics.rs:505).  Not so for a package of more findings than are kept: the
\* families are those of the findings, and the sentinel takes the place of the
\* last one that was kept (ooxml.rs:1384).
SummaryNamesFamilies ==
  scan.pc = "done" /\ scan.matches = <<>> => scan.message = Fired

=============================================================================
