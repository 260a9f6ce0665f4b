SPECIFICATION Spec
CONSTANTS
  MaxTokens = 3
  MaxAged = 1
  MaxSessions = 1
  ResetTokens = {k1}
  Procs = {p1, p2}
  NoRow = norow
SYMMETRY MCSymmetry
INVARIANTS UsedResetTookEffect ReplacementContinues
PROPERTIES LockHolds RotationSparesOthers
