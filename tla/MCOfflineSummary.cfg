\* The same instance; a family that fired is missing from the summary.
SPECIFICATION FilesSpec
CONSTANTS
  SegmentSizes = {1, 3}
  MaxFrames = 4
  MaxIndex = 2
  Data = {"a", "b"}
  FieldIds = {0, 1, 2, 3, 4, 5, 6, 7, 8, 9, 16, 20, 128}
  MaxMissing = 1
  MAX_FIELDS = 10
  MAX_TRANSFORMS = 2
  MAX_EXTENSIONS = 2
  Base = 2
  WordBytes = 4
  MaxUsize = 12
  LOCATOR_SIZE = 1
  BodiesOnWire <- MCBodiesOnWire
  Pipelines <- MCPipelines
  LimitProfiles <- MCLimitProfiles
  WireSymbols <- MCWireSymbols
  MaxTampers = 1
  FieldBits = 3
  FieldPolynomial = 11
  ALPHA = 2
  MAX_ECC_PARITY = 4
  BodiesToCode <- MCBodiesToCode
  EccChoices <- MCEccChoices
  Errors = {1, 6}
  MaxErrors = 2
  Descriptions <- MCDescriptions
  PacketIds = {1, 2, 3, 4}
  Lengths = {1, 2}
  MAX_NESTING_DEPTH = 3
  MAX_AGGREGATE_NESTED = 5
  Entries <- MCEntries
  MaxEntries = 4
  Bodies <- MCBodies
  CONTAINER_MAX_INFLATE_PER_ENTRY = 2
  CONTAINER_MAX_INFLATE_TOTAL = 3
  CONTAINER_MAX_FINDINGS = 3
  MAX_REASONS = 16
  Dialects <- MCDialects
  PDF_MAX_OBJECTS_SCANNED = 2
  PDF_MAX_FINDINGS = 3
  PDF_MAX_FILTERS = 3
  PDF_MAX_TEXT_BYTES = 3
  PDF_MAX_STREAMS_INFLATED = 1
  PDF_MAX_STREAM_INFLATE_BYTES = 2
  PDF_MAX_STREAM_INFLATE_TOTAL = 3
  FilesToScan <- MCFilesToScan
  MAX_ANALYSIS_BYTES = 4
  MAX_MAGIC_SCAN_BYTES = 3
  TEXT_SCAN_BYTES = 2
  MAX_MAGIC_FINDINGS = 1
  Trees <- MCTrees
  Inputs = {"d", "a", "link", "l", "pipe"}
  WalkDepths = {0, 1}
  FileLimits = {1, 2}
  ByteLimits = {1, 2}
  Selections = {{"magic"}}
  MaxChanges = 1
  Shapes <- MCShapes
  Covers = {0, 31}
  Packets <- MCPackets
  Payloads <- MCPayloads
  Prefix <- MCPrefix
  LocatorBits = 2
  ByteBits = 2
  Keys = {1, 2}
  Depths = {0, 1, 2, 3, 4, 5}
  MaxEmbeds = 2
  Rounds = 3
  RoundFn <- MCRoundFn
  RawStride <- MCRawStride
  RawPhase <- MCRawPhase
  Tag <- MCTag
  SpreadMedia <- MCSpreadMedia
  SpreadJobs <- MCSpreadJobs
  MaxByte = 7
  MIN_SPREAD = 3
  BitsPerByte = 2
  RawLengthBits = 2
  SignatureMagic <- MCSignatureMagic
  Chip <- MCChip
  Noise <- MCNoise
  MaxNoise = 1
  MaxMarks = 2
  Tokens <- MCTokens
  MaxTokens = 5
  MAX_DEPTH = 2
  MAX_ATTRIBUTES = 2
  MAX_TEXT_SCAN_BYTES = 3
  XML_WS_RUN_MIN = 2
  Alphabets <- MCAlphabets
  MaxCharacters = 5
  TEXT_WINDOW = 11
  ZERO_WIDTH_RUN_MIN = 2
  TRAILING_WS_RUN_MIN = 2
INVARIANT SummaryNamesFamilies
CHECK_DEADLOCK FALSE
