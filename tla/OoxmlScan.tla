------------------------------ MODULE OoxmlScan ------------------------------
(***************************************************************************)
(* analyze_package (forensics/ooxml.rs): the inspection of a ZIP package,  *)
(* from its central directory to the text of its parts, under budgets.     *)
(* What the package is, is chosen as the reader comes to it: the end       *)
(* records, the directory entries, and at last what a read of a part       *)
(* meets.  The text of a part is the business of module XmlText; here it   *)
(* is what was found in it.                                                *)
(***************************************************************************)
EXTENDS Naturals, Sequences, FiniteSets
LOCAL INSTANCE FiniteSetsExt
LOCAL INSTANCE SequencesExt

CONSTANTS
  Entries,                          \* BOUND: what a directory entry may be
  MaxEntries,                       \* BOUND: CONTAINER_MAX_ENTRIES, 4096
  Bodies,                           \* BOUND: what a part that is read may hold
  CONTAINER_MAX_INFLATE_PER_ENTRY,  \* 4 MiB
  CONTAINER_MAX_INFLATE_TOTAL,      \* 8 MiB
  CONTAINER_MAX_FINDINGS,           \* 64
  MAX_REASONS                       \* 16

VARIABLES
  package,     \* what analyze_package knows of the package
  analysis,    \* ContainerAnalysis
  evidence,    \* history: the family of every finding, kept or not
  unread,      \* history: a part in scope was not examined, or not all of it
  inflated     \* history: bytes that came out of the decompressor

packageVars == <<package, analysis, evidence, unread, inflated>>

-----------------------------------------------------------------------------
(* Names.                                                                  *)

ContentTypes == "[Content_Types].xml"
Main == [docx |-> "word/document.xml", pptx |-> "ppt/presentation.xml", xlsx |-> "xl/workbook.xml"]

\* The parts whose text analyze_office_parts reads.  The last of them lies in
\* a directory of media.
TextParts ==
  [docx |-> {"word/header1.xml", "word/header/media/1.xml"},
   pptx |-> {"ppt/slides/slide1.xml"},
   xlsx |-> {"xl/sharedStrings.xml"}]

\* is_media_name and path_extension, and the lists of extensions.
Media == {"word/header/media/1.xml", "media/1.exe", "media/1.png", "media/1.dat", "media/1"}
TextLike == {"word/header/media/1.xml"}
Suspicious == {"media/1.exe", "media/1.dat", "media/1"}   \* a script, unrecognized, no extension

NamesOf(entries) == {entries[i].name : i \in DOMAIN entries}

OfficeFamily(names) ==
  IF ContentTypes \notin names THEN "none"
  ELSE IF Main.docx \in names THEN "docx"
  ELSE IF Main.pptx \in names THEN "pptx"
  ELSE IF Main.xlsx \in names THEN "xlsx"
  ELSE "none"

-----------------------------------------------------------------------------
(* Findings.                                                               *)

Positive(family) == family \in {"DOC-002", "DOC-003"}

Clean == [findings |-> <<>>, detected |-> FALSE, reasons |-> {}]

Incomplete(a, reason) ==
  IF Cardinality(a.reasons) < MAX_REASONS THEN [a EXCEPT !.reasons = @ \cup {reason}] ELSE a

\* "finding budget exhausted", with or without "positive concealment evidence
\* present".
Sentinel(detected) == IF detected THEN "exhausted, positive" ELSE "exhausted"

\* Mutant of PushFinding: what is not kept does not count.
PushFindingKept(a, family) ==
  IF Len(a.findings) < CONTAINER_MAX_FINDINGS
  THEN [a EXCEPT !.detected = @ \/ Positive(family), !.findings = Append(@, family)]
  ELSE Incomplete([a EXCEPT !.findings[CONTAINER_MAX_FINDINGS] = Sentinel(a.detected)], "zip_finding_budget")

\* push_finding: the verdict is latched before the cap is looked at, and what
\* is in the last place then says so.
PushFinding(a, family) ==
  LET latched == [a EXCEPT !.detected = @ \/ Positive(family)]
  IN IF Len(a.findings) < CONTAINER_MAX_FINDINGS
     THEN [latched EXCEPT !.findings = Append(@, family)]
     ELSE Incomplete([latched EXCEPT !.findings[CONTAINER_MAX_FINDINGS] = Sentinel(latched.detected)],
                     "zip_finding_budget")

\* Several findings, each with the reason that is given before it, if any.
Note(reason, family) == [reason |-> reason, family |-> family]
Push(a, notes) ==
  FoldLeft(LAMBDA b, n : PushFinding(IF n.reason = "" THEN b ELSE Incomplete(b, n.reason), n.family), a, notes)

Report(notes) ==
  /\ analysis' = Push(analysis, notes)
  /\ evidence' = evidence \o [i \in DOMAIN notes |-> notes[i].family]

-----------------------------------------------------------------------------
(* The directory.                                                          *)

PackageInit ==
  /\ package = [pc |-> "directory", entries |-> <<>>, parts |-> <<>>, total |-> 0]
  /\ analysis = Clean /\ evidence = <<>>
  /\ unread = FALSE /\ inflated = 0

\* find_eocd: of the records whose comment ends where the input does, those
\* right behind their directory (exact) and the others.
EndRecord(exact, others) ==
  IF exact > 1 THEN "ambiguous" ELSE IF exact + others = 0 THEN "missing" ELSE "found"

Rejected(reason) ==
  /\ package' = [package EXCEPT !.pc = "done"]
  /\ analysis' = [Incomplete(analysis, reason) EXCEPT !.findings = Append(@, "DOC-001")]
  /\ evidence' = Append(evidence, "DOC-001")
  /\ unread' = TRUE /\ UNCHANGED inflated

\* What the end record and the entries may say that parse refuses, and the
\* reason it is given.
DirectoryFaults ==
  {"zip_multi_disk_unsupported", "zip_feature_unsupported", "zip_descriptor_unsupported",
   "zip_entry_count_budget", "zip_name_budget", "zip_corrupt"}

FindDirectory ==
  /\ package.pc = "directory" /\ package.entries = <<>>
  /\ \E exact \in 0..2, others \in 0..1 :
       CASE EndRecord(exact, others) = "ambiguous" -> Rejected("zip_feature_unsupported")
         [] EndRecord(exact, others) = "missing" -> Rejected("zip_corrupt")
         [] OTHER -> /\ package' = [package EXCEPT !.pc = "entries"]
                     /\ UNCHANGED <<analysis, evidence, unread, inflated>>

\* A turn of the loop of ZipArchive::parse.
TakeEntry ==
  /\ package.pc = "entries" /\ Len(package.entries) < MaxEntries
  /\ \E e \in Entries : package' = [package EXCEPT !.entries = Append(@, e)]
  /\ UNCHANGED <<analysis, evidence, unread, inflated>>

EntryRefused ==
  /\ package.pc = "entries"
  /\ \E fault \in DirectoryFaults : Rejected(fault)

-----------------------------------------------------------------------------
(* The inventory.                                                          *)

Notes(reason, n) == [i \in 1..n |-> Note(reason, "DOC-001")]

Oversized(e) == e.size > CONTAINER_MAX_INFLATE_PER_ENTRY

Count(entries, Test(_)) == Cardinality({i \in DOMAIN entries : Test(entries[i])})

Inventory(entries) ==
  LET repeated == {n \in NamesOf(entries) : Count(entries, LAMBDA e : e.name = n) > 1}
  IN <<Note("", "ZIP_TOPOLOGY")>>
     \o Notes("zip_entry_budget", Count(entries, Oversized))
     \o Notes("zip_duplicate_name", Cardinality(repeated))
     \o Notes("zip_encrypted_entry", Count(entries, LAMBDA e : e.encrypted))
     \o Notes("", Count(entries, LAMBDA e : e.name \in TextLike))

\* The parts in the order they are read, and the family their findings have:
\* every main document of a docx, the text parts, the first presentation.
PartsOf(entries) ==
  LET family == OfficeFamily(NamesOf(entries))
      named(names, of) ==
        [i \in DOMAIN SelectSeq(entries, LAMBDA e : e.name \in names) |->
           [entry |-> SelectSeq(entries, LAMBDA e : e.name \in names)[i], of |-> of]]
  IN CASE family = "docx" -> named({Main.docx}, "DOC-002") \o named(TextParts.docx, "DOC-003")
       [] family = "pptx" -> named(TextParts.pptx, "DOC-003")
                             \o SubSeq(named({Main.pptx}, "placeholders"), 1, 1)
       [] family = "xlsx" -> named(TextParts.xlsx, "DOC-003")
       [] OTHER -> <<>>

TakeInventory ==
  /\ package.pc = "entries"
  /\ Report(Inventory(package.entries))
  /\ package' = [package EXCEPT !.pc = "parts", !.parts = PartsOf(package.entries)]
  /\ UNCHANGED <<unread, inflated>>

-----------------------------------------------------------------------------
(* The parts.                                                              *)

\* analyze_media_entries, which is there for the office families only.
MediaNotes(entries) ==
  IF OfficeFamily(NamesOf(entries)) = "none" THEN <<>>
  ELSE [i \in 1..Count(entries, LAMBDA e : e.name \in Suspicious) |-> Note("", "DOC-003")]

\* What a read meets: the local header ("corrupt" covers the three ways it can
\* be wrong), how many bytes come out (one more than claimed is enough to
\* tell), whether the stream ends there, and the checksum.
PartReads ==
  [header : {"ok", "corrupt"}, yields : 0..(CONTAINER_MAX_INFLATE_PER_ENTRY + 1), ends : BOOLEAN, sum : BOOLEAN]

\* check_output_budget, after the claims over the limit of an entry.
Exhausted(total, size) == total + size > CONTAINER_MAX_INFLATE_TOTAL

\* Claimed output is reserved before the stream is opened.
Reserved(total, e, r) == total + e.size

\* ZipArchive::read_entry: why the read fails, or "".
ReadFault(e, total, r) ==
  CASE e.encrypted -> "zip_encrypted_entry"
    [] Exhausted(total, e.size) -> "zip_total_budget"
    [] r.header = "corrupt" -> "zip_corrupt"
    [] e.method = "other" -> "zip_compression_unsupported"
    [] r.yields # e.size \/ ~r.ends -> "zip_corrupt"
    [] ~r.sum -> "zip_corrupt"
    [] OTHER -> ""

OpenedEntry(e, total, r) == ~e.encrypted /\ ~Exhausted(total, e.size) /\ r.header = "ok"

\* analyze_part_text and analyze_presentation_placeholders: what is noted of a
\* part that was read.  The second says nothing of markup it could not take
\* apart but that it is incomplete.
BodyNotes(part, body) ==
  IF body.xml = "refused"
  THEN IF part.of = "placeholders" THEN <<>> ELSE <<Note("xml_structure_invalid", "DOC-001")>>
  ELSE [i \in 1..body.channels |-> Note("", IF part.of = "placeholders" THEN "DOC-003" ELSE part.of)]

BodyReasons(part, body) ==
  CASE body.xml = "refused" -> {"xml_structure_invalid"}
    [] body.xml = "truncated" /\ part.of # "placeholders" -> {"xml_text_budget"}
    [] OTHER -> {}

WithReasons(a, reasons) == FoldSet(LAMBDA r, b : Incomplete(b, r), a, reasons)

\* The size was noted with the inventory: nothing is said again.
SkipPart ==
  /\ package.pc = "parts" /\ package.parts # <<>>
  /\ Oversized(Head(package.parts).entry)
  /\ package' = [package EXCEPT !.parts = Tail(@)]
  /\ unread' = TRUE
  /\ UNCHANGED <<analysis, evidence, inflated>>

PartRefused(e, r) ==
  /\ ReadFault(e, package.total, r) # ""
  /\ Report(<<Note(ReadFault(e, package.total, r), "DOC-001")>>)
  /\ unread' = TRUE

PartRead(part, r, body) ==
  /\ ReadFault(part.entry, package.total, r) = ""
  /\ analysis' = Push(WithReasons(analysis, BodyReasons(part, body)), BodyNotes(part, body))
  /\ evidence' = evidence \o [i \in DOMAIN BodyNotes(part, body) |-> BodyNotes(part, body)[i].family]
  /\ unread' = (unread \/ body.xml = "refused" \/ (body.xml = "truncated" /\ part.of # "placeholders"))

TakePart ==
  /\ package.pc = "parts" /\ package.parts # <<>>
  /\ LET part == Head(package.parts)
         e == part.entry
     IN /\ ~Oversized(e)
        /\ \E r \in PartReads :
             /\ r.yields <= e.size + 1
             /\ e.method = "stored" => r.ends
             /\ PartRefused(e, r) \/ \E body \in Bodies : PartRead(part, r, body)
             /\ package' = [package EXCEPT
                  !.parts = Tail(@),
                  !.total = IF OpenedEntry(e, @, r) THEN Reserved(@, e, r) ELSE @]
             /\ inflated' = IF OpenedEntry(e, package.total, r) /\ e.method = "deflate"
                            THEN inflated + r.yields ELSE inflated

LastPart ==
  /\ package.pc = "parts" /\ package.parts = <<>>
  /\ Report(MediaNotes(package.entries))
  /\ package' = [package EXCEPT !.pc = "done"]
  /\ UNCHANGED <<unread, inflated>>

PackageNext ==
  \/ FindDirectory \/ TakeEntry \/ EntryRefused
  \/ TakeInventory \/ SkipPart \/ TakePart \/ LastPart

-----------------------------------------------------------------------------
(* Properties. *)

\* "the cap is recorded as its own finding so truncation is never silent", and
\* "detection is already latched": the verdict is that of all that was found,
\* and what is kept is the beginning of it with, when something is missing, a
\* last line that says so and says whether there was concealment
\* (push_finding, over every order of observations and detections).
VerdictOutlivesTheCap ==
  LET concealed == \E i \in DOMAIN evidence : Positive(evidence[i])
      kept == SubSeq(evidence, 1, CONTAINER_MAX_FINDINGS)
  IN /\ analysis.detected = concealed
     /\ analysis.findings =
          IF Len(evidence) <= CONTAINER_MAX_FINDINGS THEN evidence
          ELSE [kept EXCEPT ![CONTAINER_MAX_FINDINGS] = Sentinel(concealed)]

\* "Coverage cutoffs are separate from positive detections": a package that is
\* not all examined, or whose findings are not all kept, is never given out as
\* examined (analyze_package and every early return below it).
NeverCertifiedUnread ==
  package.pc = "done" /\ (unread \/ Len(evidence) > CONTAINER_MAX_FINDINGS) => analysis.reasons # {}

\* "failures cannot bypass the package work budget": what the decompressor has
\* put out, for parts that were refused too, is within the budget and the one
\* byte each stream is read past its claim (read_entry, check_output_budget,
\* inflate_raw).
WorkIsBounded ==
  inflated <= CONTAINER_MAX_INFLATE_TOTAL + Len(package.entries)

\* The report on a package can be believed (analyze_package).
PackageReportHolds == VerdictOutlivesTheCap /\ NeverCertifiedUnread /\ WorkIsBounded
=============================================================================
