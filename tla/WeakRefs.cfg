SPECIFICATION FairSpec
CONSTANTS
  r1 = r1
  r2 = r2
  a = a
  null = null
  Objects = {r1, r2, a}
  Refs = {r1, r2}
  Kinds <- AllKinds
  Interned = {a}
  MaxFields = 1
INVARIANTS NoDangling StartsAtPhase1
PROPERTIES SoftKept CollectionEnds
