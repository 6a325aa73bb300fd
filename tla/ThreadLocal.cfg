SPECIFICATION Spec
CONSTANTS
  m1 = m1
  m2 = m2
  Mutators = {m1, m2}
  HeapWords = 6
  ObjectSizes = {1, 2}
  Selectors = {"BumpPointer", "Immix", "FreeList"}
INVARIANTS NoOverlap BuffersExclusive
