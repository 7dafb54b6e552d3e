SPECIFICATION Spec
CONSTANTS
  Generators = {g1, g2}
  Seeds <- MCSeeds
  Lengths = {16, 32}
  MaxBytes = 32
INVARIANT DifferentSeedsDiffer
CHECK_DEADLOCK FALSE
