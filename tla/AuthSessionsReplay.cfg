SPECIFICATION Spec
CONSTANTS
  MaxTokens = 3
  MaxAged = 1
  MaxSessions = 0
  ResetTokens = {k1}
  Procs = {p1, p2}
  NoRow = norow
SYMMETRY MCSymmetry
INVARIANT RotatedOnce
