\* Three calls with two proofs: the same bytes twice, and other bytes.
SPECIFICATION OutsideSpec
CONSTANTS
  Writers = {w1, w2, w3}
  Proofs = {b1, b2}
  Foreign = Foreign
  NoFile = NoFile
  Torn = Torn
  NoProof = NoProof
  Encoders = {c1, c2}
  Verifiers = {v1}
  Bases = {"a", "b"}
  Images <- MCImages
  Sounds = {"t1"}
  Signers = {"s1"}
  Compromised = {}
  Strengths = {1, 2}
  EncodeRequests <- MCEncodeRequests
  VerifyRequests <- MCVerifyRequests
  KeyRequests <- MCKeyRequests
  MaxShards = 3
  MaxTouches = 1
  Groups <- MCGroups
  MaxHeld = 4
SYMMETRY Symmetry
INVARIANTS
  ReportedIsStored
  Loadable
  GroupsAreRight
PROPERTY ImplementsWriteOnce
CHECK_DEADLOCK FALSE
