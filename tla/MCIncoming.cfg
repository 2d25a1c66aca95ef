\* Three artifacts overflow a queue of two, with a poll and a digest reader;
\* chunks and messages one over their limits.
SPECIFICATION IncomingSpec
CONSTANTS
  Messages <- MCMessages
  StrayChunks <- MCStrayChunks
  Missing = Missing
  CHUNK_PAYLOAD_MAX = 2
  MESSAGE_MAX_BYTES = 5
  INCOMPLETE_MESSAGE_MAX = 3
  MESSAGE_EXPIRY = 2
  VideoEncoders = {e1}
  AudioEncoders = {a1}
  Pollers = {p1}
  DigestReaders = {d1}
  VERIFY_QUEUE_CAP = 2
  ENCODE_ADMISSION = 2
  MaxRevision = 3
  NoOne = NoOne
INVARIANTS
  BudgetsHold
  DeliveredIntact
PROPERTIES
  EventuallyReleased
  EverySlotResolved
  CallsReturn
