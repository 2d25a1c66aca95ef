\* Liveness on a smaller instance: one permit, two offers, one owner.
SPECIFICATION WaitsSpec
CONSTANTS
  Sessions = {s1, s2}
  Removers = {r1}
  NoOne = NoOne
  Media = Media
  WEBRTC_SESSION_MAX = 1
  Frames = 2
  Capacity = 1
  Patience = 1
INVARIANT SuccessIsComplete
PROPERTIES
  StoppedFreesSlot
  BridgeReturns
CHECK_DEADLOCK FALSE
