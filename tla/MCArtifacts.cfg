\* Two commands on three files, with two payloads and one key of each kind; one key, two
\* packets and depths of the element; four encoders against two permits and two queue
\* slots: reordered enqueues, eviction, a poll asleep across both.
SPECIFICATION ArtifactsSpec
CONSTANTS
  Commands = {c1, c2}
  Files = {cover, mid, out}
  CoverFiles = {cover}
  cover = cover
  mid = mid
  out = out
  Payloads = {text, noise}
  text = text
  noise = noise
  Shrinks = {text}
  Size <- MCSize
  Chunks = {b1, b2}
  SigningKeys = {alice, bob, leaked}
  alice = alice
  bob = bob
  leaked = leaked
  Compromised = leaked
  EncryptionKeys = {k}
  k = k
  Passwords = {pw}
  pw = pw
  EmbeddingKeys = {place}
  place = place
  EncodeOptions <- MCEncodeOptions
  DecodeOptions <- MCDecodeOptions
  ForeignPackets <- MCForeignPackets
  MaxErrors = 2
  None = None
  Junk = Junk
  NoList = NoList
  Keys = {k1}
  LivePackets = {p1, p2}
  Bits = {1, 2}
  Unset = Unset
  MaxGeneration = 2
  MaxPayload = 2
  MaxFrames = 2
  VideoEncoders = {e1, e2, e3}
  AudioEncoders = {a1}
  Pollers = {q1}
  DigestReaders = {d1}
  VERIFY_QUEUE_CAP = 2
  ENCODE_ADMISSION = 2
  MaxRevision = 3
  NoOne = NoOne
SYMMETRY Symmetry
INVARIANTS
  RoundTrip
  DeliveredIntact
  TrustedMeansSigned
  DeliveredMeansCarried
  DecodableTimeline
  DeliversOnce
  NoLostWakeup
  DigestIsNewest
  OnePlace
PROPERTIES
  NoClobber
  ImplementsMediaCache
CHECK_DEADLOCK FALSE
