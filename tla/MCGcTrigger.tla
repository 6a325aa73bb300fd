---------------------------- MODULE MCGcTrigger ----------------------------
(* The trigger of GcTrigger on small heaps. *)
EXTENDS GcTrigger, TLC

\* The mutators are interchangeable.
Symmetry == Permutations(Mutators)
============================================================================
