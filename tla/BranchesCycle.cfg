SPECIFICATION ApartSpec
CONSTANTS
  Branches = {b1, b2, b3}
  Procs = {p1}
  NoRow = norow
SYMMETRY MCSymmetry
INVARIANT MovePreventsCycles
