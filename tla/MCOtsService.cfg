\* Two requests and a command, two media, two commitments, one restart.
SPECIFICATION Spec
CONSTANTS
  Requests = {r1, r2}
  Commands = {k1}
  MaxMedia = 2
  Commitments = {c1, c2}
  Trees = {{"pending"}, {"block"}, {"forged"}}
  Interval = 1
  MaxTicks = 1
  MaxStarts = 2
  None = None
SYMMETRY Symmetry
INVARIANTS
  VerifiedIsConfirmed
  ReportedIsStored
  AdmissionRate
PROPERTY VerdictsChangeOnSuccess
CHECK_DEADLOCK FALSE
