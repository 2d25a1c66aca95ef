\* Two offers for one permit, so the second waits for all that is left of the
\* first; the owner removes twice while the pump may remove too.  Two cameras
\* or transports of the video tab, two microphones of the audio tab.
SPECIFICATION PageSpec
CONSTANTS
  Sessions = {s1, s2}
  Removers = {r1, r2}
  NoOne = NoOne
  Media = Media
  WEBRTC_SESSION_MAX = 1
  Preferences = {"auto", "websocket"}
  ARCHIVE_MAX_ENTRIES = 1
  MaxCameras = 2
  MaxTransports = 2
  MaxRevisions = 2
  MaxUnanswered = 2
  SampleRates = {44100, 48000}
  ARCHIVE_ENTRIES = 1
  MaxSessions = 2
  MaxArchives = 1
  MaxArtifacts = 2
  MaxEdits = 3
  MaxChanges = 3
SYMMETRY Symmetry
INVARIANTS
  RemovalIsFinal
  EveryPeerOwned
  PermitsAccounted
  SessionsAreWhole
  VerdictsAreOfShown
  ArchivesAreKept
  RepliesAreOfRequest
  PanelsAreCurrent
CHECK_DEADLOCK FALSE
