SPECIFICATION Spec
CONSTANTS
    Workers = {w1, w2}
    Places = {1, 2, 3, 4, 5, 6, 7}
    Roots = {1, 2}
    MaxGcs = 2
    Graphs <- MCGraphs
SYMMETRY Symmetry
INVARIANTS PublishedComplete GraphPreserved PinnedStays
