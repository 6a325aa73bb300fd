SPECIFICATION Spec
SYMMETRY Symmetry
CONSTANTS
  Mutators = {m1, m2}
  Length <- Lengths
  MaxWrites = 2
INVARIANTS NoDangling OldToYoungRemembered LoggedOnce
