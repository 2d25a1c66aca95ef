------------------------------- MODULE XmlText -------------------------------
(***************************************************************************)
(* decode_xml (forensics/ooxml.rs): the bounded tokenizer that takes the   *)
(* text and the attribute values out of a document part, and the search    *)
(* for long runs of spaces in what it took.  The source comes token by     *)
(* token: any well-formed or malformed markup may be there.                *)
(*                                                                         *)
(* A character is what the tokenizer and the search tell apart: "x", a     *)
(* space "s", a line break "n".  In the source it may also be written as   *)
(* a reference: "&s"; "bad" is a reference that decodes to nothing.        *)
(***************************************************************************)
EXTENDS Integers, Sequences, FiniteSets, FiniteSetsExt
LOCAL INSTANCE SequencesExt

CONSTANTS
  Tokens,              \* BOUND: what a document may be made of
  MaxTokens,           \* BOUND: tokens of a document
  MAX_DEPTH,           \* 256 open elements
  MAX_ATTRIBUTES,      \* 1024 attributes of a tag
  MAX_TEXT_SCAN_BYTES, \* 1 MiB of text, and of attribute values
  XML_WS_RUN_MIN       \* 8 spaces

VARIABLES
  source,   \* the tokens so far
  xml       \* what decode_xml holds

xmlVars == <<source, xml>>

-----------------------------------------------------------------------------
(* The source.                                                             *)

CharData(value) == [kind |-> "text", value |-> value]
StartTag(name, attributes, empty) ==
  [kind |-> "start", name |-> name, attributes |-> attributes, empty |-> empty]
EndTag(name) == [kind |-> "end", name |-> name]
Instruction(target, attributes) == [kind |-> "instruction", target |-> target, attributes |-> attributes]

Comment == [kind |-> "comment"]
CData(value) == [kind |-> "cdata", value |-> value]
Doctype == [kind |-> "doctype"]
Broken == [kind |-> "broken"]   \* markup that ends nowhere or is not formed as it must be

-----------------------------------------------------------------------------
(* What is taken.                                                          *)

TextBytes(text) == Len(text)

Buffer == [chars |-> <<>>, full |-> FALSE]

\* push_xml_char: once something did not fit, nothing more is taken.
PushChar(buffer, c) ==
  IF buffer.full THEN buffer
  ELSE IF TextBytes(buffer.chars) < MAX_TEXT_SCAN_BYTES
       THEN [buffer EXCEPT !.chars = Append(@, c)]
       ELSE [buffer EXCEPT !.full = TRUE]

Separate(buffer) ==
  IF TextBytes(buffer.chars) < MAX_TEXT_SCAN_BYTES THEN PushChar(buffer, "n") ELSE buffer

Decodes(value) == \A i \in DOMAIN value : value[i] # "bad"
Plain(c) == IF c = "&s" THEN "s" ELSE c

\* decode_references: what comes before a bad reference has been pushed, and
\* is dropped with the error.
Decoded(buffer, value) == FoldLeft(LAMBDA b, c : PushChar(b, Plain(c)), buffer, value)

\* xml_attributes: every name once.
AttributesFormed(attributes) ==
  \A i, j \in DOMAIN attributes : attributes[i].name = attributes[j].name => i = j

\* The visitor of a start tag's attributes.
TakeAttribute(buffer, attribute) ==
  LET apart == IF attribute.value # <<>> /\ buffer.chars # <<>> THEN Separate(buffer) ELSE buffer
  IN Decoded(apart, attribute.value)

\* The visitor of the XML declaration's pseudo-attributes.
VisitDeclaration(seen, attribute) ==
  LET refused == [seen EXCEPT !.ok = FALSE]
  IN IF ~seen.ok THEN seen
     ELSE IF attribute.name = "version"
     THEN IF seen.version \/ seen.standalone \/ attribute.value # "good" THEN refused
          ELSE [seen EXCEPT !.version = TRUE]
     ELSE IF ~seen.version \/ seen.standalone THEN refused
     ELSE IF attribute.value # "good" THEN refused
     ELSE IF attribute.name = "standalone" THEN [seen EXCEPT !.standalone = TRUE]
     ELSE IF attribute.name = "encoding" THEN seen
     ELSE refused

DeclarationFormed(attributes) ==
  LET seen == FoldLeft(VisitDeclaration, [ok |-> TRUE, version |-> FALSE, standalone |-> FALSE], attributes)
  IN AttributesFormed(attributes) /\ seen.ok /\ seen.version
\* (Its names are three: it cannot be over the budget of xml_attributes.)

-----------------------------------------------------------------------------
(* The loop of decode_xml.                                                 *)

XmlInit ==
  /\ source = <<>>
  /\ xml = [pc |-> "reading", stack |-> <<>>, root |-> FALSE, text |-> Buffer, attributes |-> Buffer]

Settles(reason) == xml' = [xml EXCEPT !.pc = reason]

\* Mutant of AfterTag: the text nodes are run together.
AfterTagJoined(x) == x

\* A tag closes a text node: "Separate text nodes, never invent a long run
\* across markup."
AfterTag(x) ==
  LET text == x.text.chars
  IN IF text # <<>> /\ Last(text) # "n" THEN [x EXCEPT !.text = Separate(@)] ELSE x

Blank(value) == \A i \in DOMAIN value : value[i] \in {"s", "n"}

TakeText(t) ==
  /\ t.kind = "text"
  /\ IF xml.stack = <<>>
     THEN IF Blank(t.value) THEN UNCHANGED xml ELSE Settles("structure")
     ELSE IF Decodes(t.value) THEN xml' = [xml EXCEPT !.text = Decoded(@, t.value)]
     ELSE Settles("reference")

TakeCData(t) ==
  /\ t.kind = "cdata"
  /\ IF xml.stack = <<>> THEN Settles("structure")
     ELSE xml' = [xml EXCEPT !.text = FoldLeft(PushChar, @, t.value)]

\* Comments and processing instructions leave no trace in the text.
TakeOther(t) ==
  \/ t.kind = "comment" /\ UNCHANGED xml
  \/ t.kind = "broken" /\ Settles("structure")
  \/ t.kind = "doctype" /\ Settles("doctype")
  \/ /\ t.kind = "instruction"
     /\ IF t.target = "other" \/ (t.target = "xml" /\ source = <<>> /\ DeclarationFormed(t.attributes))
        THEN UNCHANGED xml ELSE Settles("structure")

\* Which of two faults of a tag is met first is not told apart.
OverBudget(t) ==
  \/ Len(t.attributes) > MAX_ATTRIBUTES
  \/ t.kind = "start" /\ ~t.empty /\ Len(xml.stack) = MAX_DEPTH

TakeEnd(t) ==
  /\ t.kind = "end"
  /\ IF xml.stack # <<>> /\ Last(xml.stack) = t.name
     THEN xml' = AfterTag([xml EXCEPT !.stack = Front(@)])
     ELSE Settles("structure")

TakeStart(t) ==
  /\ t.kind = "start"
  /\ LET taken == FoldLeft(TakeAttribute, xml.attributes, t.attributes)
     IN IF ~AttributesFormed(t.attributes) THEN Settles("structure")
        ELSE IF \E i \in DOMAIN t.attributes : ~Decodes(t.attributes[i].value) THEN Settles("reference")
        ELSE IF xml.stack = <<>> /\ xml.root THEN Settles("structure")
        ELSE IF OverBudget(t) THEN Settles("budget")
        ELSE xml' = AfterTag([xml EXCEPT !.attributes = taken, !.root = TRUE,
                                         !.stack = IF t.empty THEN @ ELSE Append(@, t.name)])

\* Character data runs up to the next mark: two never meet.
Follows(t) == ~(t.kind = "text" /\ source # <<>> /\ Last(source).kind = "text")

TakeToken ==
  /\ xml.pc = "reading" /\ Len(source) < MaxTokens
  /\ \E t \in Tokens :
       /\ Follows(t)
       /\ TakeText(t) \/ TakeCData(t) \/ TakeOther(t) \/ TakeEnd(t) \/ TakeStart(t)
       /\ source' = Append(source, t)

EndOfSource ==
  /\ xml.pc = "reading"
  /\ IF xml.root /\ xml.stack = <<>> THEN Settles("accepted") ELSE Settles("unfinished")
  /\ UNCHANGED source

XmlNext == TakeToken \/ EndOfSource

-----------------------------------------------------------------------------
(* detect_xml_whitespace_runs.                                             *)

NoRun == [runs |-> 0, longest |-> 0, first |-> 0, run |-> 0, at |-> 0, i |-> 0]

RunStep(seen, c) ==
  LET s == [seen EXCEPT !.i = @ + 1]
  IN IF c = "s" THEN [s EXCEPT !.run = @ + 1, !.at = IF seen.run = 0 THEN s.i ELSE @]
     ELSE IF seen.run >= XML_WS_RUN_MIN
     THEN [s EXCEPT !.run = 0, !.runs = @ + 1, !.longest = Max({@, seen.run}),
                    !.first = IF @ = 0 THEN seen.at ELSE @]
     ELSE [s EXCEPT !.run = 0]

\* The newline chained to the text closes its last run.
WhitespaceRuns(text) ==
  LET seen == FoldLeft(RunStep, NoRun, Append(text, "n"))
  IN [runs |-> seen.runs, longest |-> seen.longest, first |-> seen.first]

-----------------------------------------------------------------------------
(* Properties. *)

Depth(i) ==
  Cardinality({j \in 1..i : source[j].kind = "start" /\ ~source[j].empty})
    - Cardinality({j \in 1..i : source[j].kind = "end"})

\* A document of XML 1.0 without a DTD, told from all its tokens at once: what
\* every prefix of one is, and what makes it whole.
PrefixFormed ==
  \A i \in DOMAIN source :
    LET t == source[i]
    IN /\ t.kind \notin {"broken", "doctype"}
       /\ t.kind \in {"text", "cdata"} /\ Depth(i) = 0 => t.kind = "text" /\ Blank(t.value)
       /\ t.kind = "text" => Decodes(t.value)
       /\ t.kind = "end" =>
            \E j \in 1..(i - 1) :
              /\ source[j].kind = "start" /\ ~source[j].empty /\ source[j].name = t.name
              /\ Depth(j) = Depth(i) + 1
              /\ \A k \in j..(i - 1) : Depth(k) >= Depth(j)
       /\ t.kind = "start" =>
            /\ \A k, l \in DOMAIN t.attributes :
                 /\ Decodes(t.attributes[k].value)
                 /\ t.attributes[k].name = t.attributes[l].name => k = l
            /\ Depth(i - 1) = 0 => \A j \in 1..(i - 1) : source[j].kind # "start"
       /\ t.kind = "instruction" /\ t.target # "other" =>
            /\ i = 1 /\ t.target = "xml"
            /\ [k \in DOMAIN t.attributes |-> t.attributes[k].name] \in
                 {<<"version">>, <<"version", "encoding">>, <<"version", "standalone">>,
                  <<"version", "encoding", "standalone">>}
            /\ \A k \in DOMAIN t.attributes : t.attributes[k].value = "good"

Whole == Depth(Len(source)) = 0 /\ \E i \in DOMAIN source : source[i].kind = "start"

\* A piece of text is character data or a CDATA section within the root.
Pieces == {i \in DOMAIN source : source[i].kind \in {"text", "cdata"} /\ Depth(i) > 0}
Chars(i) == [k \in DOMAIN source[i].value |-> Plain(source[i].value[k])]

\* What stands between two tags; comments and instructions may cut it in pieces.
Tags == {i \in DOMAIN source : source[i].kind \in {"start", "end"}}
TextNodes ==
  {Pieces \cap (i + 1)..(j - 1) : <<i, j>> \in
     {<<i, j>> \in Tags \X Tags : i < j /\ Tags \cap (i + 1)..(j - 1) = {}}} \ {{}}
Joined(node) == FoldLeft(LAMBDA chars, i : chars \o Chars(i), <<>>, SetToSortSeq(node, <))

\* The runs of a text: where they begin and end.
RunsOf(chars) ==
  LET spaces(a, b) == \A k \in a..b : chars[k] = "s"
  IN {<<a, b>> \in (DOMAIN chars) \X (DOMAIN chars) :
        /\ b - a + 1 >= XML_WS_RUN_MIN /\ spaces(a, b)
        /\ a = 1 \/ chars[a - 1] # "s"
        /\ b = Len(chars) \/ chars[b + 1] # "s"}
Longest(texts) == Max({0} \cup {r[2] - r[1] + 1 : r \in UNION {RunsOf(chars) : chars \in texts}})

Searched == xml.pc = "accepted" /\ ~xml.text.full
RunsFound == WhitespaceRuns(xml.text.chars)
LongestPiece == Longest({Chars(i) : i \in Pieces})

\* What is accepted is a well-formed document, nothing else is; and of the runs of
\* spaces in its text none is missed, none reaches over a tag, and all are counted
\* if nothing but tags cuts the text up (decode_xml, xml_attributes,
\* decode_references, detect_xml_whitespace_runs).  What comments, instructions and
\* CDATA sections do to a run is RunsWithinMarkup's question.
XmlIsExact ==
  /\ xml.pc \in {"reading", "accepted", "budget"} => PrefixFormed
  /\ xml.pc \in {"structure", "reference", "doctype"} => ~PrefixFormed
  /\ xml.pc = "accepted" => Whole
  /\ xml.pc = "unfinished" => ~Whole
  /\ Searched =>
       /\ RunsFound.longest \in LongestPiece..Longest({Joined(node) : node \in TextNodes})
       /\ (\A node \in TextNodes : Cardinality(node) = 1) =>
            RunsFound.runs = Cardinality({<<i, run>> \in Pieces \X UNION {RunsOf(Chars(i)) : i \in Pieces} :
                                        run \in RunsOf(Chars(i))})

\* "Separate text nodes, never invent a long run across markup" (ooxml.rs:1163): a run
\* that is reported stands in one piece of text.  Not so: only tags separate, and the
\* spaces before and after a comment, an instruction or the start of a CDATA section
\* are one run.
RunsWithinMarkup == Searched => RunsFound.longest <= LongestPiece
=============================================================================
