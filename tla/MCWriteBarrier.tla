--------------------------- MODULE MCWriteBarrier ---------------------------
(* WriteBarrier for TLC: mutators are interchangeable. *)
EXTENDS WriteBarrier, TLC

\* An array of two words, which is the root, and two objects of one word.
Lengths == <<2, 1, 1>>

Symmetry == Permutations(Mutators)
=============================================================================
