----------------------------- MODULE HeapBudget -----------------------------
(***************************************************************************)
(* What the GC trigger promises the heap: pages are committed only up to   *)
(* the limit in force, a collection commits none, and the limit in force   *)
(* is never lowered under a running application.                           *)
(***************************************************************************)
EXTENDS Integers

VARIABLES pages,  \* pages committed to the heap
          limit   \* pages that may be committed

Init == pages = 0 /\ limit \in Nat

Commit ==
    /\ pages' \in pages .. limit
    /\ UNCHANGED limit

Release ==
    /\ pages' \in 0 .. pages
    /\ UNCHANGED limit

RaiseLimit ==
    /\ limit' \in Nat /\ limit' >= limit
    /\ UNCHANGED pages

Next == Commit \/ Release \/ RaiseLimit

Spec == Init /\ [][Next]_<<pages, limit>>
=============================================================================
