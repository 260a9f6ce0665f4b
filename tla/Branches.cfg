SPECIFICATION ApartSpec
CONSTANTS
  Branches = {b1, b2, b3}
  Procs = {p1, p2}
  NoRow = norow
SYMMETRY MCSymmetry
INVARIANTS OneHeadquarters CyclesGoThroughTrash TreeShowsActive ResolversAgree
