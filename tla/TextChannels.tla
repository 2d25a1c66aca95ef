---------------------------- MODULE TextChannels ----------------------------
(***************************************************************************)
(* The detectors for text that hides in text (unicode_text.rs): loops over *)
(* the characters of a bounded window that keep runs, lines and the        *)
(* character before, and report offsets.  The input grows a character at a *)
(* time, so that every text over the alphabets is analysed.                *)
(*                                                                         *)
(* A character stands for its class: all the loops look at.  What the      *)
(* details of a finding count besides the runs is left out.                *)
(***************************************************************************)
EXTENDS Naturals, Sequences, FiniteSets
LOCAL INSTANCE SequencesExt
LOCAL INSTANCE FiniteSetsExt

CONSTANTS
  Alphabets,            \* BOUND: the classes of characters one input is made of
  MaxCharacters,        \* BOUND: characters of an input
  TEXT_WINDOW,          \* MAX_TEXT_SCAN_BYTES
  ZERO_WIDTH_RUN_MIN,   \* 8
  TRAILING_WS_RUN_MIN   \* 2

VARIABLES
  alphabet,
  input,      \* the characters
  window,     \* those that are scanned
  findings    \* what analyze_bytes returns for it

textVars == <<alphabet, input, window, findings>>

-----------------------------------------------------------------------------
(* Characters.                                                             *)

ZeroWidth == {"zwsp", "feff"}
Selectors == {"vs1", "vs16", "cdp"}
NonAsciiSpaces == {"nbsp"}
Confusables == {"cyrillic", "greek", "fullwidth"}
BidiControls == {"rlo"}

Width(c) ==
  CASE c \in {"plain", "space", "cr", "nl", "invalid"} -> 1
    [] c \in {"nbsp", "cyrillic", "greek"} -> 2
    [] c \in {"cdp", "emoji"} -> 4
    [] OTHER -> 3

WidthOf(text) == FoldLeft(LAMBDA sum, c : sum + Width(c), 0, text)

-----------------------------------------------------------------------------
(* The loops.  Offsets are those of the code, from 0.                      *)

\* close_zw_run
CloseRun(scan) ==
  [scan EXCEPT !.runs = IF scan.len >= ZERO_WIDTH_RUN_MIN THEN Append(@, <<scan.start, scan.len>>) ELSE @,
               !.len = 0]

\* Mutant of ZeroWidthStep: a run that the text ends in the middle of another
\* kind of character is not closed.
ZeroWidthStepOpen(scan, c) ==
  IF c \in ZeroWidth /\ ~(scan.at = 0 /\ c = "feff")
  THEN [scan EXCEPT !.start = IF scan.len = 0 THEN scan.at ELSE @, !.len = @ + 1,
                    !.offsets = Append(@, scan.at), !.at = @ + 1]
  ELSE [scan EXCEPT !.at = @ + 1]

ZeroWidthStep(scan, c) ==
  IF c \in ZeroWidth /\ ~(scan.at = 0 /\ c = "feff")
  THEN [scan EXCEPT !.start = IF scan.len = 0 THEN scan.at ELSE @, !.len = @ + 1,
                    !.offsets = Append(@, scan.at), !.at = @ + 1]
  ELSE [CloseRun(scan) EXCEPT !.at = @ + 1]

DetectZeroWidth(text) ==
  LET end == CloseRun(FoldLeft(ZeroWidthStep,
               [at |-> 0, start |-> 0, len |-> 0, offsets |-> <<>>, runs |-> <<>>], text))
  IN [offsets |-> end.offsets, runs |-> end.runs]

SelectorStep(scan, c) ==
  LET legitimate == c = "vs16" /\ scan.previous = "emoji"
      dense == IF c \in Selectors THEN scan.dense + 1 ELSE 0
  IN [at |-> scan.at + 1, previous |-> c, dense |-> dense, densest |-> Max({scan.densest, dense}),
      offsets |-> IF c \in Selectors /\ ~legitimate THEN Append(scan.offsets, scan.at) ELSE scan.offsets]

DetectVariationSelectors(text) ==
  LET end == FoldLeft(SelectorStep,
               [at |-> 0, previous |-> "none", dense |-> 0, densest |-> 0, offsets |-> <<>>], text)
  IN [offsets |-> end.offsets, densest |-> IF end.offsets = <<>> THEN 0 ELSE end.densest]

SpaceStep(scan, c) ==
  CASE c \in NonAsciiSpaces -> [scan EXCEPT !.offsets = Append(@, scan.at), !.run = 0, !.at = @ + 1]
    [] c = "space" -> [scan EXCEPT !.run = @ + 1, !.at = @ + 1]
    [] OTHER -> [scan EXCEPT !.run = 0, !.at = @ + 1]

\* A line of the loop, without the CR it may end in; its offsets are those of
\* the text with it.
TakeLine(scan, line) ==
  LET stripped == IF line # <<>> /\ Last(line) = "cr" THEN Front(line) ELSE line
      end == FoldLeft(SpaceStep, [at |-> scan.at, run |-> 0, offsets |-> scan.offsets], stripped)
  IN [at |-> scan.at + Len(line) + 1, trailing |-> Max({scan.trailing, end.run}),
      offsets |-> IF end.run >= TRAILING_WS_RUN_MIN THEN Append(end.offsets, end.at - end.run) ELSE end.offsets]

LinesOf(text) ==
  LET grow(lines, c) == IF c = "nl" THEN Append(lines, <<>>) ELSE [lines EXCEPT ![Len(lines)] = Append(@, c)]
  IN FoldLeft(grow, << <<>> >>, text)

DetectWhitespaceAnomaly(text) ==
  FoldLeft(TakeLine, [at |-> 0, trailing |-> 0, offsets |-> <<>>], LinesOf(text)).offsets

\* detect_bidi_controls and detect_homoglyphs
DetectEach(text, class) ==
  FoldLeft(LAMBDA scan, c : [at |-> scan.at + 1,
                             offsets |-> IF c \in class THEN Append(scan.offsets, scan.at) ELSE scan.offsets],
           [at |-> 0, offsets |-> <<>>], text).offsets

\* analyze_text
AnalyzeText(text) ==
  [zeroWidth |-> DetectZeroWidth(text), selectors |-> DetectVariationSelectors(text),
   whitespace |-> DetectWhitespaceAnomaly(text),
   bidi |-> DetectEach(text, BidiControls), homoglyphs |-> DetectEach(text, Confusables)]

NothingFound == AnalyzeText(<<>>)

\* truncate_to_scan_limit: whole characters of the window.
InWindow(text) ==
  SubSeq(text, 1, Max({n \in 0..Len(text) : WidthOf(SubSeq(text, 1, n)) <= TEXT_WINDOW}))

\* analyze_bytes: bytes that decode to nothing are only looked for in the
\* window, and make all of it undecoded.
AnalyzeBytes(text) ==
  IF \E i \in DOMAIN text : text[i] = "invalid" THEN NothingFound ELSE AnalyzeText(text)

-----------------------------------------------------------------------------

TextInit == alphabet \in Alphabets /\ input = <<>> /\ window = <<>> /\ findings = NothingFound

Type(c) ==
  /\ Len(input) < MaxCharacters
  /\ input' = Append(input, c)
  /\ window' = InWindow(input')
  /\ findings' = AnalyzeBytes(window')
  /\ UNCHANGED alphabet

TextNext == \E c \in alphabet : Type(c)

-----------------------------------------------------------------------------
(* What the findings mean, by positions instead of loops; window itself is *)
(* the longest prefix of whole characters within TEXT_WINDOW.              *)

\* Positions of the window, counted from 0 as the offsets are.
InvalidWindow == \E i \in DOMAIN window : window[i] = "invalid"
Char(i) == window[i + 1]
Positions == IF InvalidWindow THEN {} ELSE 0..(Len(window) - 1)
Ascending(S) == SetToSortSeq(S, <)

Invisible(i) == Char(i) \in ZeroWidth /\ ~(i = 0 /\ Char(i) = "feff")
Maximal(Holds(_), a, b) ==
  /\ \A i \in a..b : Holds(i)
  /\ a = 0 \/ ~Holds(a - 1)
  /\ b + 1 \notin Positions \/ ~Holds(b + 1)

\* Every zero-width character but a byte-order mark is reported, and so are
\* exactly the maximal runs that are long enough.
ZeroWidthIsExact ==
  /\ findings.zeroWidth.offsets = Ascending({i \in Positions : Invisible(i)})
  /\ {findings.zeroWidth.runs[k] : k \in DOMAIN findings.zeroWidth.runs} =
       {<<a, b - a + 1>> : <<a, b>> \in
          {ab \in Positions \X Positions :
             /\ ab[1] <= ab[2] /\ ab[2] - ab[1] + 1 >= ZERO_WIDTH_RUN_MIN
             /\ Maximal(Invisible, ab[1], ab[2])}}

\* A selector is let pass only as VS16 right after an emoji base.
SelectorsAreExact ==
  findings.selectors.offsets =
    Ascending({i \in Positions : Char(i) \in Selectors
                                   /\ ~(Char(i) = "vs16" /\ i > 0 /\ Char(i - 1) = "emoji")})

\* A run of spaces and tabs ends its line when a line feed, with or without a
\* carriage return, or the end of the text follows.
EndsLine(b) ==
  \/ b + 1 \notin Positions \/ Char(b + 1) = "nl"
  \/ Char(b + 1) = "cr" /\ (b + 2 \notin Positions \/ Char(b + 2) = "nl")

WhitespaceIsExact ==
  findings.whitespace =
    Ascending({i \in Positions : Char(i) \in NonAsciiSpaces}
      \cup {a \in Positions : \E b \in Positions :
              /\ b - a + 1 >= TRAILING_WS_RUN_MIN /\ a <= b /\ EndsLine(b)
              /\ Maximal(LAMBDA i : Char(i) = "space", a, b)})

\* The detectors report what is there, at its offset in the original text, for
\* every text: across lines of either ending, across the runs that end with the
\* text, and up to the last whole character of the window.
OffsetsAreExact ==
  /\ ZeroWidthIsExact /\ SelectorsAreExact /\ WhitespaceIsExact
  /\ findings.bidi = Ascending({i \in Positions : Char(i) \in BidiControls})
  /\ findings.homoglyphs = Ascending({i \in Positions : Char(i) \in Confusables})

=============================================================================
