------------------------------ MODULE MCOffline ------------------------------
(***************************************************************************)
(* Instances of what writes, reads and judges: the verifier of the hash    *)
(* chain, the decoders of packets, packets on the wire, error correction,  *)
(* the carriers, the watermark, the text of markup, the channels in text,  *)
(* the report on a file, and the walk of scan.  They share no state, so    *)
(* that a behaviour follows one of them.                                   *)
(***************************************************************************)
EXTENDS HashChain, Envelope, PacketWire, ReedSolomon, Kernels, SpreadSpectrum,
        XmlText, TextChannels, ForensicScan, ScanCommand

VARIABLE part   \* which of them

\* Media of three to ten units: bytes, samples of two bytes of which one is
\* written, the last one cut short; frames with padded rows and with alpha.
MCBytes(len, stride) == [kind |-> "bytes", len |-> len, stride |-> stride]
MCFrame(width, height, bpp, row) ==
  [kind |-> "frame", width |-> width, height |-> height, bpp |-> bpp, row |-> row]
MCSamples(len) == [kind |-> "samples", len |-> len]
MCShapes ==
  {MCBytes(2, 1), MCBytes(7, 1), MCBytes(8, 1), MCBytes(10, 2), MCBytes(9, 2),
   MCFrame(2, 1, 3, 7), MCFrame(1, 2, 4, 5), MCSamples(3), MCSamples(5)}
MCPacket(placement, strength, bits) ==
  [placement |-> placement, strength |-> strength, bits |-> bits,
   plain |-> TRUE, flagged |-> placement # "sequential"]
MCPackets ==
  {MCPacket("sequential", 1, <<0, 1, 0, 0>>), MCPacket("sequential", 2, <<1, 0, 0, 0, 1, 1>>),
   MCPacket("sequential", 3, <<0, 1, 0, 1>>), MCPacket("keyed", 1, <<0, 1, 1, 0>>),
   MCPacket("keyed", 2, <<1, 0, 1, 0, 1, 1>>), MCPacket("keyed", 4, <<1, 0, 1, 1, 0, 0>>),
   MCPacket("interleaved", 1, <<0, 1, 1, 1>>), MCPacket("interleaved", 3, <<1, 0, 1, 0, 0, 1>>),
   [MCPacket("sequential", 1, <<1, 0, 0, 0, 0, 1>>) EXCEPT !.plain = FALSE],
   [MCPacket("sequential", 1, <<1, 0, 1, 1, 1, 1>>) EXCEPT !.flagged = TRUE]}
MCPayloads == {[bits |-> <<1, 0, 1>>], [bits |-> <<0, 1, 1>>]}
MCPrefix == <<1, 1>>
MCRoundFn(key, round, half) == (key + 2 * round + 3 * half * half + key * half) % 5
MCRawStride(key) == 3 * key + 1
MCRawPhase(key) == key + 2
MCTag(key, strength) == <<key % 2, (key + strength) % 2>>

\* Packets of up to two bytes, plain, signed, and encrypted by two transforms;
\* policies that just take some of them and just refuse others.
WireByte(b) == WireField("byte", <<b>>)
Applied(algorithm) == [algorithm |-> algorithm, version |-> 1, parameters |-> <<"s">>]
MCBodiesOnWire == {<<>>, <<WireByte(7)>>, <<WireByte(0), WireByte(7)>>}
MCPipelines == {<<>>, <<Applied("sign")>>, <<Applied("kdf"), Applied("aead")>>}
MCLimitProfiles ==
  LET most == Unlimited(MaxUsize)
  IN {most, [most EXCEPT !.body = 1, !.original = 1], [most EXCEPT !.transforms = 1],
      [most EXCEPT !.fields = 5], [most EXCEPT !.packet = 6]}
\* Values with leading zeros, too long, out of range, of another body, cut short.
MCWireSymbols ==
  {WireField("kind", v) : v \in {<<1, 0, 1>>, <<1, 1, 0>>, <<0, 1>>}}
    \cup {WireField("length", v) : v \in {<<>>, <<1>>, <<1, 0, 1, 1>>, <<1, 1, 1, 1>>}}
    \cup {WireField("digest", <<a, "sha256", <<WireByte(7)>>>>) : a \in {"sha256", "sha3_256"}}
    \cup {WireField("transform", v) : v \in {<<"aead">>, <<"rs", 1>>, <<"kdf", 1, "s">>}}
    \cup {WireField("placement", <<"zero", 1>>), WireByte(7)}

\* The field of eight elements; bodies of no to three symbols in chunks of one to
\* four, and descriptors of other chunks, lengths and parities, or of none.
MCBodiesToCode == {<<>>, <<5>>, <<0, 3>>, <<7, 1, 2>>, <<0, 0, 0>>}
MCEccChoices == [parity : {1, 2, 4}, chunk : 1..4]
MCDescriptions ==
  {EccParams(2, 3, 3), EccParams(1, 3, 2), EccParams(4, 3, 3), EccParams(0, 5, 3), EccParams(2, 1, 0),
   EccParams(7, 1, 1), EccParams(2, 4, 2), EccParams(2, 0, 2), [EccParams(2, 3, 3) EXCEPT !.size = 6]}

\* Sound that begins at every value there is, and media with just enough room,
\* with too little for what is asked, with padding, alpha, other channels.
Raw(len) == [kind |-> "raw", len |-> len]
Sound(len, channels) == [kind |-> "sound", len |-> len, channels |-> channels]
MCSpreadMedia ==
  [shape : {Sound(8, 1)}, cover : 0..15] \cup [shape : {Sound(13, 2), Sound(11, 2)}, cover : {6}]
    \cup [shape : {MCFrame(3, 2, 3, 11), MCFrame(3, 2, 4, 12)}, cover : {1}]
    \cup [shape : {Raw(12), Raw(11), Raw(5)}, cover : {5}]
SpreadJob(key, amplitude, spread, bits) ==
  [key |-> key, amplitude |-> amplitude, spread |-> spread, bits |-> bits]
MCSpreadJobs ==
  {SpreadJob(1, 3, 3, <<1, 0>>), SpreadJob(2, 3, 3, <<1, 1>>), SpreadJob(1, 1, 3, <<1, 1>>),
   SpreadJob(2, 2, 3, <<1, 0>>), SpreadJob(1, 7, 3, <<1, 1>>), SpreadJob(1, 8, 3, <<1, 1>>),
   SpreadJob(1, 3, 2, <<1, 0>>), SpreadJob(2, 4, 4, <<1, 0>>)}
MCChip(key, position, i) == ((key * position) + (i * i) + key) % 2
\* The last bit, a small and a large change.
MCNoise(v) == {2 * (v \div 2) + 1 - (v % 2), v + 2, -1 - v, 7 - v}
MCSignatureMagic == <<1>>

Attribute(name, value) == [name |-> name, value |-> value]
Good(name) == Attribute(name, "good")
MCTokens ==
  {CharData(<<"s">>), CharData(<<"x", "&s">>), CharData(<<"bad">>), CData(<<"s">>),
   Comment, Doctype, Broken, EndTag("a"), EndTag("b"), StartTag("b", <<>>, FALSE), StartTag("a", <<>>, TRUE),
   StartTag("a", <<>>, FALSE), StartTag("a", <<Attribute("p", <<"s">>), Attribute("q", <<"x">>)>>, FALSE),
   StartTag("a", <<Attribute("p", <<"x">>), Attribute("p", <<>>)>>, TRUE),
   StartTag("a", <<Attribute("p", <<"bad">>)>>, TRUE),
   Instruction("other", <<>>), Instruction("XML", <<>>),
   Instruction("xml", <<Good("version"), Good("encoding"), Good("standalone")>>),
   Instruction("xml", <<Good("version"), Good("standalone"), Good("encoding")>>),
   Instruction("xml", <<Good("encoding")>>), Instruction("xml", <<>>),
   Instruction("xml", <<Attribute("version", "bad")>>)}
MCAlphabets ==
  {{"plain", "space", "nbsp", "cr", "nl"}, {"plain", "zwsp", "feff", "nl"},
   {"plain", "vs1", "vs16", "cdp", "emoji"}, {"rlo", "cyrillic", "fullwidth", "invalid", "zwsp"}}

\* Packages of every family, with parts that are read and that cannot be.
Entry(name, size, encrypted, method) ==
  [name |-> name, size |-> size, encrypted |-> encrypted, method |-> method]
MCEntries ==
  {Entry(ContentTypes, 1, FALSE, "stored"), Entry(Main.docx, 2, FALSE, "deflate"),
   Entry("word/header1.xml", 2, FALSE, "deflate"), Entry("word/header/media/1.xml", 1, TRUE, "stored"),
   Entry(Main.pptx, 1, FALSE, "stored"), Entry("ppt/slides/slide1.xml", 1, FALSE, "other"),
   Entry(Main.xlsx, 1, FALSE, "stored"), Entry("xl/sharedStrings.xml", 3, FALSE, "deflate"),
   Entry("media/1.exe", 3, FALSE, "stored")}
MCBodies ==
  [xml : {"refused"}, channels : {0}] \cup [xml : {"whole"}, channels : 0..2]
    \cup [xml : {"truncated"}, channels : {0, 2}]

\* Streams that are fine, too large, damaged, without an end; a damaged one is
\* not followed by endobj.
MCStream(size, is) ==
  [size |-> size, string |-> Text(is, FALSE, "none"), decodes |-> TRUE, malformed |-> FALSE,
   eol |-> TRUE, found |-> TRUE, endobj |-> TRUE]
Hidden == MCStream(1, "hidden")
MCStreams ==
  {Hidden, MCStream(3, "plain"), [Hidden EXCEPT !.eol = FALSE], [Hidden EXCEPT !.found = FALSE],
   [MCStream(1, "lone") EXCEPT !.decodes = FALSE, !.malformed = TRUE, !.endobj = FALSE]}

\* Documents about one thing each: the number of objects, compressed streams,
\* filters, what an object shows, lengths, and the frame of a document.
Dialect(max, outer, inner, streams) ==
  [max |-> max, outer |-> {Word("obj"), NumberToken(TRUE)} \cup outer, inner |-> inner, streams |-> streams]
MCDialects ==
  {Dialect(12, {EofMarker}, {Word("null")}, {}),
   Dialect(13, {}, {Mark("<<"), Mark(">>"), NameToken("Filter"), NameToken("FlateDecode")}, MCStreams),
   Dialect(8, {},
           {Mark("<<"), Mark(">>"), Mark("["), Mark("]"), NameToken("Filter"), NameToken("FlateDecode"),
            NameToken("Crypt"), Word("null"), NameToken("DecodeParms"), NameToken("Subtype"), NameToken("Image")},
           {Hidden}),
   Dialect(7, {EofMarker},
           {NameToken("JavaScript"), NameToken("AcroForm"), NameToken("URI"), Text("plain", FALSE, "dangerous"),
            Text("hidden", FALSE, "external"), Text("legacy", TRUE, "none"), Text("odd", FALSE, "none"),
            NumberToken(TRUE)}, {}),
   Dialect(9, {},
           {Mark("<<"), Mark(">>"), NameToken("Length"), NumberToken(TRUE), NumberToken(FALSE), Word("R")},
           MCStreams),
   Dialect(6, {NumberToken(FALSE), Word("trailer"), Word("startxref"), EofMarker, NameToken("Encrypt"),
               Flaw("pdf_lexical_error")},
           {Mark("<<"), NameToken("Type"), NameToken("XRef"), NameToken("ObjStm"), NameToken("Encrypt"),
            EofMarker, Flaw("pdf_token_limit")},
           {MCStream(1, "lone")})}

\* A package, a document that also starts like a package, and files of no
\* family, or two, with all there may be in and beyond the windows.
MCUnits == UNION {[1..n -> {"plain", "STEG", "STG3", "hidden", "binary"}] : n \in 0..4}
MCFilesToScan ==
  {[head |-> h, units |-> <<"plain">>] : h \in {{"zip"}, {"pdf", "zip"}}}
    \cup {[head |-> {}, units |-> u] : u \in MCUnits}
    \cup {[head |-> {"png", "tar"}, units |-> <<"plain", "binary", "STEG", "STG3", "hidden">>]}

\* A directory with a file, a file in a directory below, a link and a pipe;
\* every mark is there, one just past the end, one file is over the limits.
Name(in, kind, len, mark, at) ==
  [in |-> in, kind |-> kind, to |-> "none", len |-> len, mark |-> mark, at |-> at, limited |-> FALSE]
MCTree ==
  [d |-> Name("none", "dir", 0, "none", 0), link |-> [Name("none", "link", 0, "none", 0) EXCEPT !.to = "d"],
   a |-> Name("d", "file", 2, "magic", 2), s |-> Name("d", "dir", 0, "none", 0),
   c |-> Name("s", "file", 1, "container", 2), l |-> [Name("d", "link", 0, "none", 0) EXCEPT !.to = "c"],
   pipe |-> Name("none", "other", 0, "none", 0)]
MCTrees ==
  {MCTree, [MCTree EXCEPT !.a.mark = "text", !.c.mark = "statistical"],
   [MCTree EXCEPT !.a.mark = "none", !.a.limited = TRUE, !.c.at = 1]}

MCQuietOptions ==
  [input |-> "link", follow |-> FALSE, depth |-> 0, files |-> 1, bytes |-> 1, detectors |-> {"magic"}]

\* What the variables of another part hold.
Quiet == <<>>

Init ==
  /\ part \in {"chain", "packets", "wire", "ecc", "carriers", "spread", "markup", "text", "files", "walk"}
  /\ part = "text" \/ alphabet = CHOOSE a \in Alphabets : TRUE
  /\ part = "files" \/ file = CHOOSE f \in FilesToScan : f.head = {}
  /\ part = "walk" \/ (tree = MCTree /\ options = MCQuietOptions)
  /\ IF part = "wire" THEN WireInit ELSE packet = Quiet /\ onWire = Quiet /\ tampers = 0
  /\ IF part = "ecc" THEN EccInit ELSE coded = Quiet /\ received = Quiet /\ described = Quiet
  /\ IF part = "spread" THEN SpreadInit ELSE host = Quiet /\ marks = Quiet /\ noise = 0
  /\ ChainInit /\ EnvelopeInit /\ KernelInit /\ XmlInit /\ TextInit /\ ScanInit /\ WalkInit
  /\ options.follow => tree[options.input].kind = "link"

Next ==
  /\ UNCHANGED part
  /\ \/ /\ part = "chain" /\ ChainNext
        /\ UNCHANGED <<decoderVars, wireVars, eccVars, kernelVars, spreadVars,
                       xmlVars, textVars, scanVars, walkVars>>
     \/ /\ part = "packets" /\ EnvelopeNext
        /\ UNCHANGED <<chainVars, wireVars, eccVars, kernelVars, spreadVars,
                       xmlVars, textVars, scanVars, walkVars>>
     \/ /\ part = "wire" /\ WireNext
        /\ UNCHANGED <<chainVars, decoderVars, eccVars, kernelVars, spreadVars,
                       xmlVars, textVars, scanVars, walkVars>>
     \/ /\ part = "ecc" /\ EccNext
        /\ UNCHANGED <<chainVars, decoderVars, wireVars, kernelVars, spreadVars,
                       xmlVars, textVars, scanVars, walkVars>>
     \/ /\ part = "carriers" /\ KernelNext
        /\ UNCHANGED <<chainVars, decoderVars, wireVars, eccVars, spreadVars,
                       xmlVars, textVars, scanVars, walkVars>>
     \/ /\ part = "spread" /\ SpreadNext
        /\ UNCHANGED <<chainVars, decoderVars, wireVars, eccVars, kernelVars,
                       xmlVars, textVars, scanVars, walkVars>>
     \/ /\ part = "markup" /\ XmlNext
        /\ UNCHANGED <<chainVars, decoderVars, wireVars, eccVars, kernelVars,
                       spreadVars, textVars, scanVars, walkVars>>
     \/ /\ part = "text" /\ TextNext
        /\ UNCHANGED <<chainVars, decoderVars, wireVars, eccVars, kernelVars,
                       spreadVars, xmlVars, scanVars, walkVars>>
     \/ /\ part = "files" /\ ScanNext
        /\ UNCHANGED <<chainVars, decoderVars, wireVars, eccVars, kernelVars,
                       spreadVars, xmlVars, textVars, walkVars>>
     \/ /\ part = "walk" /\ WalkNext
        /\ UNCHANGED <<chainVars, decoderVars, wireVars, eccVars, kernelVars,
                       spreadVars, xmlVars, textVars, scanVars>>

offlineVars ==
  <<part, chainVars, decoderVars, wireVars, eccVars, kernelVars, spreadVars,
    xmlVars, textVars, scanVars, walkVars>>

Spec == Init /\ [][Next]_offlineVars

\* The behaviours that follow one part.
MarkupSpec == Init /\ part = "markup" /\ [][Next]_offlineVars
FilesSpec == Init /\ part = "files" /\ [][Next]_offlineVars

-----------------------------------------------------------------------------

\* What is written is what is read.  A packet is decoded only from the bytes it
\* encodes to, under any limits and however its symbols are disturbed; what error
\* correction returns is what was protected; what is put into a medium is taken if
\* there is room, comes back, and leaves the rest of it alone (packet.rs,
\* error_correction.rs, the carriers, canonicalize, the spread spectrum).
WrittenComesBack ==
  /\ part = "wire" => WireIsExact
  /\ part = "ecc" => DamageIsRepaired
  /\ CarriersRoundTrip
  /\ part = "spread" => WatermarkHolds

\* What is reported of a file can be believed: the detectors for text are given
\* the text of the document and say where in it something is, and so do the reports
\* on a package, on a document, and on a file (decode_xml, analyze_text,
\* analyze_package, analyze_pdf, scan_bytes).
ReportsAreTrue ==
  /\ XmlIsExact /\ OffsetsAreExact
  /\ PackageReportHolds /\ PdfReportHolds
  /\ VerdictIsWarranted

=============================================================================
