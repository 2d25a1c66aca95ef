\* The same instance; a recorded revocation is lost.
SPECIFICATION CommandSpec
CONSTANTS
  Commands = {c1, c2}
  Files = {cover, mid, out}
  CoverFiles = {cover}
  cover = cover
  mid = mid
  out = out
  Payloads = {text, noise}
  text = text
  noise = noise
  Shrinks = {text}
  Size <- MCSize
  Chunks = {b1, b2}
  SigningKeys = {alice, bob, leaked}
  alice = alice
  bob = bob
  leaked = leaked
  Compromised = leaked
  EncryptionKeys = {k}
  k = k
  Passwords = {pw}
  pw = pw
  EmbeddingKeys = {place}
  place = place
  EncodeOptions <- MCEncodeOptions
  DecodeOptions <- MCDecodeOptions
  ForeignPackets <- MCForeignPackets
  MaxErrors = 2
  None = None
  Junk = Junk
  NoList = NoList
SYMMETRY Symmetry
INVARIANT RevocationsStay
CHECK_DEADLOCK FALSE
