----------------------------- MODULE MCWeakRefs -----------------------------
(* Weak-reference processing on a heap of a few objects. *)
EXTENDS WeakRefs

CONSTANTS r1, r2, a

\* Every choice of kinds for the two reference objects.
AllKinds == [{r1, r2} -> {"soft", "weak", "finalizer", "phantom"}]
=============================================================================
