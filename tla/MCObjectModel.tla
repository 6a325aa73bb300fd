--------------------------- MODULE MCObjectModel ---------------------------
(* Model checking of ObjectModel.  Chains and cycles of the instances, with *)
(* and without a reference to their class, from one or two roots.  Workers *)
(* are interchangeable.                                                    *)
EXTENDS ObjectModel, TLC

MCGraphs == [refs  : {3 :> a @@ 4 :> b : a \in {0, 2, 4}, b \in {0, 3}},
             roots : {1 :> 3 @@ 2 :> r : r \in {3, 4}}]

Symmetry == Permutations(Workers)
============================================================================
