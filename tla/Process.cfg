SPECIFICATION Spec
CONSTANTS
  main = main
  h1 = h1
  h2 = h2
  w1 = w1
  w2 = w2
  Main = main
  Helpers = {h1, h2}
  Workers = {w1, w2}
  Sizes <- MCSizes
  MaxRuntimes = 2
  HeapStart = 1024
INVARIANTS BuiltAsChosen HeapAddressable ContextOwnedOnce ForksAlone
PROPERTIES RequestsServed MainReturns
