-------------------------- MODULE GcTriggerProofs --------------------------
(***************************************************************************)
(* Proofs about GcTrigger for every set of mutators, every request and     *)
(* every configuration of the heap.                                        *)
(***************************************************************************)
EXTENDS GcTrigger, FiniteSetTheorems, TLAPS

(***************************************************************************)
(* Arithmetic                                                              *)
(***************************************************************************)

\* A quotient of naturals is a natural.
LEMMA DivNat ==
    ASSUME NEW a \in Nat, NEW b \in Nat \ {0}
    PROVE  a \div b \in Nat
  BY SMT

\* A product of naturals is a natural.
LEMMA TimesNat ==
    ASSUME NEW a \in Nat, NEW b \in Nat
    PROVE  a * b \in Nat
  BY SMT

\* Dividing by the same number keeps the order.
LEMMA DivMonotone ==
    ASSUME NEW a \in Nat, NEW b \in Nat, NEW c \in Nat \ {0}, a <= b
    PROVE  a \div c <= b \div c
  BY SMTT(30)

\* The sizes of the trigger are page counts in the order of the byte sizes.
LEMMA PagesFacts ==
    /\ PagesIn(CapacityBytes) \in Nat
    /\ PagesIn(GrowthLimitBytes) \in Nat
    /\ PagesIn(InitialSizeBytes) \in Nat
    /\ min_free \in Nat
    /\ max_free \in Nat
    /\ \A bytes \in ClampSizes : PagesIn(bytes) \in Nat
    /\ PagesIn(InitialSizeBytes) <= PagesIn(GrowthLimitBytes)
    /\ PagesIn(GrowthLimitBytes) <= PagesIn(CapacityBytes)
  BY SizesAssumption, DivNat, DivMonotone DEF PagesIn, min_free, max_free

\* The growth that grow_for_utilization computes is a page count.
LEMMA GrowthNat ==
    ASSUME NEW pages \in Nat
    PROVE  /\ Grown(pages) \in Nat
           /\ FullGrowPages(pages) \in Nat
           /\ \A j \in BOOLEAN : Scaled(pages, j) \in Nat
  <1>1. Grown(pages) \in Nat
    BY RatiosAssumption, TimesNat, DivNat DEF Grown
  <1>2. (pages * (UtilDen - UtilNum)) \div UtilNum \in Nat
    <2>1. UtilDen - UtilNum \in Nat
      BY RatiosAssumption
    <2>2. pages * (UtilDen - UtilNum) \in Nat
      BY <2>1, TimesNat
    <2> QED BY <2>2, RatiosAssumption, DivNat
  <1>3. FullGrowPages(pages) \in Nat
    BY <1>2, PagesFacts DEF FullGrowPages, Larger, Smaller
  <1>4. \A j \in BOOLEAN : Scaled(pages, j) \in Nat
    BY <1>1 DEF Scaled
  <1> QED BY <1>1, <1>3, <1>4

(***************************************************************************)
(* Pages                                                                   *)
(***************************************************************************)

\* The reserved frames are frames, and a usize counts them.
LEMMA ReservedFacts ==
    ASSUME TypeOK
    PROVE  /\ Reserved \subseteq Frames
           /\ IsFiniteSet(Reserved)
           /\ get_reserved_pages \in 0 .. UsizeMod - 1
           /\ \A m \in Mutators : Cardinality(request[m]) \in 0 .. UsizeMod - 1
  <1>1. Reserved \subseteq Frames
    BY DEF TypeOK, Reserved
  <1>2. \A S \in SUBSET Frames : /\ IsFiniteSet(S)
                                 /\ Cardinality(S) \in 0 .. UsizeMod - 1
    <2> TAKE S \in SUBSET Frames
    <2>1. IsFiniteSet(S) /\ Cardinality(S) <= Cardinality(Frames)
      BY FramesAssumption, FS_Subset
    <2>2. Cardinality(S) \in Nat /\ Cardinality(Frames) \in Nat
      BY <2>1, FramesAssumption, FS_CardinalityType
    <2> QED BY <2>1, <2>2, WidthAssumption
  <1>3. \A m \in Mutators : request[m] \in SUBSET Frames
    BY DEF TypeOK
  <1> QED BY <1>1, <1>2, <1>3 DEF get_reserved_pages

\* The lowest frames of a set are frames of the set.
LEMMA LowestSubset == ASSUME NEW n, NEW F PROVE Lowest(n, F) \subseteq F
  BY DEF Lowest

(***************************************************************************)
(* Type correctness                                                        *)
(***************************************************************************)
\* The new trigger has its type (ArtTrigger::new).
LEMMA TypeInit == Init => TypeOK
  <1> SUFFICES ASSUME Init PROVE TypeOK
    OBVIOUS
  <1>1. Cardinality(Frames) \in Nat
    BY FramesAssumption, FS_CardinalityType
  <1>2. 0 \in 0 .. UsizeMod - 1
    BY <1>1, WidthAssumption
  <1>3. {is_jank_perceptible, gc_requested, panicked, multiplier} \subseteq BOOLEAN
    BY Zenon DEF Init
  <1>4. /\ pc \in [Mutators -> Polling \cup {"run", "blocked"}]
        /\ request \in [Mutators -> SUBSET Frames]
        /\ old_target \in [Mutators -> Nat]
        /\ reserved_pages \in [Mutators -> 0 .. UsizeMod - 1]
        /\ pending \in [Mutators -> 0 .. UsizeMod - 1]
    BY <1>2 DEF Init, Polling
  <1>5. {capacity, growth_limit, target_footprint, target_size,
         min_foreground_target_footprint, min_foreground, jtarget, jnew}
          \subseteq Nat
    BY PagesFacts DEF Init
  <1> QED BY <1>2, <1>3, <1>4, <1>5 DEF Init, TypeOK

\* Reserving pages before a poll keeps the types.
LEMMA TypeReserve ==
    ASSUME TypeOK, NEW m \in Mutators, NEW n \in RequestSizes,
           ReservePages(m, n)
    PROVE  TypeOK'
  <1>1. Lowest(n, Frames \ Reserved) \in SUBSET Frames
    BY LowestSubset
  <1>2. request' \in [Mutators -> SUBSET Frames]
    BY <1>1 DEF TypeOK, ReservePages
  <1>3. pc' \in [Mutators -> Polling \cup {"run", "blocked"}]
    BY DEF TypeOK, ReservePages, Goto, Polling
  <1> QED BY <1>2, <1>3 DEF TypeOK, ReservePages, trigger, limits, core, locals,
                            gc, sizes, jank

\* A poll keeps the types: what it reads is a page count, and the wrapping
\* operations on pending_allocation stay within a usize.
LEMMA TypePoll ==
    ASSUME TypeOK, NEW m \in Mutators, Poll(m)
    PROVE  TypeOK'
  <1> USE DEF TypeOK, Goto, Polling, trigger, limits, core, locals, gc, sizes, jank
  <1>1. CASE LoadTarget(m)
    BY <1>1 DEF LoadTarget
  <1>2. CASE LoadReserved(m)
    BY <1>2, ReservedFacts DEF LoadReserved
  <1>3. CASE LoadPending(m)
    BY <1>3 DEF LoadPending, Overflows, FitsTarget
  <1>4. CASE WithinLimit(m)
    BY <1>4 DEF WithinLimit
  <1>5. CASE BeyondLimit(m)
    BY <1>5 DEF BeyondLimit, RequestGc
  <1>6. CASE CasOk(m)
    BY <1>6 DEF CasOk, new_target
  <1>7. CASE CasFail(m)
    BY <1>7, WidthAssumption DEF CasFail, Forget, Retry
  <1>8. CASE FetchSub(m)
    BY <1>8, WidthAssumption DEF FetchSub, WrapSub
  <1>9. CASE PlanRequiresGc(m)
    BY <1>9 DEF PlanRequiresGc, RequestGc
  <1>10. CASE Allocate(m)
    BY <1>10, WidthAssumption DEF Allocate, Forget
  <1>11. CASE on_pending_allocation(m)
    <2>1. Cardinality(request[m]) \in 0 .. UsizeMod - 1
      BY ReservedFacts
    <2>2. pending_allocation' \in 0 .. UsizeMod - 1
      BY <1>11, <2>1, WidthAssumption DEF on_pending_allocation, WrapAdd
    <2> QED BY <1>11, <2>2, WidthAssumption DEF on_pending_allocation, Forget
  <1> QED BY <1>1, <1>2, <1>3, <1>4, <1>5, <1>6, <1>7, <1>8, <1>9, <1>10,
             <1>11 DEF Poll

\* The size a collection decides on is a page count.
LEMMA TypeResize ==
    ASSUME TypeOK, NEW size \in Nat, NEW growth \in Nat, Resize(size, growth)
    PROVE  /\ target_size' \in Nat
           /\ min_foreground' \in Nat
           /\ panicked' \in BOOLEAN
  <1>1. get_reserved_pages \in Nat /\ Grown(growth) \in Nat
    BY ReservedFacts, WidthAssumption, GrowthNat
  <1> QED BY <1>1 DEF TypeOK, Resize, Short

\* The steps of the GC keep the types.
LEMMA TypeGc ==
    ASSUME TypeOK, GcWorker
    PROVE  TypeOK'
  <1> USE DEF GcGoto, trigger, limits, core, mutators, locals, gc, sizes, jank
  <1>r. get_reserved_pages \in Nat
    BY ReservedFacts, WidthAssumption
  <1>1. CASE on_gc_start
    BY <1>1 DEF on_gc_start, TypeOK
  <1>2. CASE SuspendAll
    BY <1>2 DEF SuspendAll, TypeOK
  <1>3. CASE MutatorsStopped
    BY <1>3 DEF MutatorsStopped, TypeOK
  <1>4. ASSUME NEW n \in 0 .. Cardinality(used), Collect(n)
        PROVE  TypeOK'
    BY <1>4, LowestSubset DEF Collect, TypeOK
  <1>m. CASE LoadMultiplier
    BY <1>m DEF LoadMultiplier, TypeOK
  <1>5. CASE GrowFull
    <2> DEFINE growth == FullGrowPages(get_reserved_pages)
               size == get_reserved_pages + Scaled(growth, multiplier)
    <2>1. growth \in Nat
      BY <1>r, GrowthNat
    <2>2. size \in Nat
      BY <1>r, <2>1, GrowthNat DEF TypeOK
    <2>3. Resize(size, growth)
      BY <1>5 DEF GrowFull
    <2> HIDE DEF growth, size
    <2>4. target_size' \in Nat /\ min_foreground' \in Nat /\ panicked' \in BOOLEAN
      BY <2>1, <2>2, <2>3, TypeResize
    <2> QED BY <1>5, <2>3, <2>4 DEF GrowFull, Resize, TypeOK
  <1>6. CASE GrowNursery
    <2>1. NurserySize \in Nat
      BY <1>r, GrowthNat, PagesFacts DEF NurserySize, TypeOK
    <2>2. target_size' \in Nat /\ min_foreground' \in Nat /\ panicked' \in BOOLEAN
      BY <1>6, <2>1, TypeResize, PagesFacts DEF GrowNursery
    <2> QED BY <1>6, <2>2 DEF GrowNursery, Resize, TypeOK
  <1>7. CASE NurseryKeeps
    BY <1>7 DEF NurseryKeeps, TypeOK
  <1>8. CASE KeepTarget
    <2>1. Larger(get_reserved_pages, target_footprint) \in Nat
      BY <1>r DEF TypeOK, Larger
    <2>2. target_size' \in Nat /\ min_foreground' \in Nat /\ panicked' \in BOOLEAN
      BY <1>8, <2>1, TypeResize DEF KeepTarget
    <2> QED BY <1>8, <2>2 DEF KeepTarget, Resize, TypeOK
  <1>9. CASE CompareLimit
    BY <1>9 DEF CompareLimit, TypeOK
  <1>10. CASE CapAtLimit
    BY <1>10 DEF CapAtLimit, TypeOK
  <1>11. CASE StoreTarget
    BY <1>11 DEF StoreTarget, TypeOK
  <1>12. CASE CapMinForeground
    BY <1>12 DEF CapMinForeground, CappedForeground, Smaller, TypeOK
  <1>13. CASE on_gc_end
    BY <1>13, WidthAssumption DEF on_gc_end, TypeOK
  <1> QED BY <1>1, <1>2, <1>3, <1>4, <1>5, <1>6, <1>7, <1>8, <1>9, <1>10,
             <1>11, <1>12, <1>13, <1>m DEF GcWorker

\* The calls of the two ART threads keep the types.
LEMMA TypeArt ==
    ASSUME TypeOK,
           \/ \E b \in ProcessStates : SetIsJankPerceptible(b)
           \/ JankThread
           \/ ClearCompare \/ LimitThread \/ clamp_growth_limit
           \/ \E bytes \in ClampSizes : clamp_max_heap_size(bytes)
    PROVE  TypeOK'
  <1> USE DEF TypeOK, trigger, limits, core, mutators, locals, gc, sizes, jank
  <1>1. ASSUME NEW b \in ProcessStates, SetIsJankPerceptible(b)
        PROVE  TypeOK'
    BY <1>1, EnvironmentAssumption DEF SetIsJankPerceptible
  <1>2. CASE JankThread
    BY <1>2 DEF JankThread, JankLoadTarget, JankCompare, JankLoadMin,
                JankCasOk, JankCasFail
  <1>3. CASE ClearCompare \/ LimitThread \/ clamp_growth_limit
    BY <1>3 DEF ClearCompare, LimitThread, ClearStoreTarget, ClearStoreLimit,
                ClearLimitFirst, ClearTargetLate, clamp_growth_limit
  <1>4. ASSUME NEW bytes \in ClampSizes, clamp_max_heap_size(bytes)
        PROVE  TypeOK'
    BY <1>4, PagesFacts DEF clamp_max_heap_size
  <1> QED BY <1>1, <1>2, <1>3, <1>4

\* Every step of every thread keeps the types.
LEMMA TypeStep == TypeOK /\ [Next]_vars => TypeOK'
  <1> SUFFICES ASSUME TypeOK, [Next]_vars PROVE TypeOK'
    OBVIOUS
  <1>1. CASE UNCHANGED vars
    BY <1>1 DEF TypeOK, vars, trigger, limits, core, mutators, locals, gc, sizes, jank
  <1>2. CASE Next
    BY <1>1, <1>2, TypeReserve, TypePoll, TypeGc, TypeArt DEF Next
  <1> QED BY <1>1, <1>2

\* Every behaviour of the trigger keeps its fields and its locals within
\* their types, for all numbers of mutators and all sizes of the heap.
THEOREM TypeCorrect == Spec => []TypeOK
  BY TypeInit, TypeStep, PTL DEF Spec

(***************************************************************************)
(* The heap within its limit.  clamp_max_heap_size lowers the limit under  *)
(* the pages in use and is excluded.                                       *)
(***************************************************************************)

\* The admitted requests are frames.
LEMMA AdmittedFrames ==
    ASSUME TypeOK, NEW b
    PROVE  /\ Admitted(b) \subseteq Frames
           /\ IsFiniteSet(used \cup Admitted(b))
           /\ Cardinality(used \cup Admitted(b)) \in Nat
  <1>1. Admitted(b) \subseteq Frames
    BY DEF TypeOK, Admitted
  <1>2. used \cup Admitted(b) \subseteq Frames
    BY <1>1 DEF TypeOK
  <1> QED BY <1>1, <1>2, FramesAssumption, FS_Subset, FS_CardinalityType

\* A step that does not lower the limit and admits nothing keeps the claims.
LEMMA AdmittedKept ==
    ASSUME TypeOK, TypeOK', AdmittedFits, Budget' >= Budget,
           \A b \in 0 .. Cardinality(Frames) : b >= Budget' =>
               used' \cup Admitted(b)' \subseteq used \cup Admitted(b)
    PROVE  AdmittedFits'
  <1> SUFFICES ASSUME NEW b \in 0 .. Cardinality(Frames), b >= Budget'
               PROVE  Cardinality(used' \cup Admitted(b)') <= b
    BY DEF AdmittedFits
  <1>1. Budget \in Nat /\ Budget' \in Nat
    BY DEF TypeOK, Budget
  <1>2. Cardinality(Frames) \in Nat
    BY FramesAssumption, FS_CardinalityType
  <1>3. Cardinality(used \cup Admitted(b)) <= b
    BY <1>1, <1>2 DEF AdmittedFits
  <1>4. Cardinality(used' \cup Admitted(b)') <= Cardinality(used \cup Admitted(b))
    BY AdmittedFrames, FS_Subset
  <1>5. Cardinality(used' \cup Admitted(b)') \in Nat
    <2>1. Admitted(b)' \subseteq Frames
      BY DEF TypeOK, Admitted
    <2>2. used' \cup Admitted(b)' \subseteq Frames
      BY <2>1 DEF TypeOK
    <2> QED BY <2>2, FramesAssumption, FS_Subset, FS_CardinalityType
  <1> QED BY <1>1, <1>2, <1>3, <1>4, <1>5, AdmittedFrames

\* The new trigger is within its limit: initial size <= growth limit <= capacity.
LEMMA LimitInit == Init => LimitInv
  <1> SUFFICES ASSUME Init PROVE LimitInv
    OBVIOUS
  <1>1. ValuesWithinLimit
    BY PagesFacts DEF Init, ValuesWithinLimit, TargetWithinLimit, Budget,
                      new_target
  <1>2. AdmittedFits
    <2> SUFFICES ASSUME NEW b \in 0 .. Cardinality(Frames)
                 PROVE  Cardinality(used \cup Admitted(b)) <= b
      BY DEF AdmittedFits
    <2>1. used \cup Admitted(b) = {}
      BY DEF Init, Admitted
    <2> QED BY <2>1, FS_EmptySet
  <1> QED BY <1>1, <1>2 DEF LimitInv

\* Reserving pages admits nothing yet.
LEMMA LimitReserve ==
    ASSUME TypeOK, TypeOK', LimitInv, NEW m \in Mutators, NEW n \in RequestSizes,
           ReservePages(m, n)
    PROVE  LimitInv'
  <1> USE DEF ReservePages, Goto, trigger, limits, core, locals, gc, sizes, jank
  <1>1. ValuesWithinLimit'
    BY DEF LimitInv, ValuesWithinLimit, TargetWithinLimit, Budget, new_target,
           TypeOK
  <1>2. AdmittedFits /\ Budget' >= Budget
    BY DEF Budget, TypeOK, LimitInv
  <1>3. ASSUME NEW b \in 0 .. Cardinality(Frames)
        PROVE  used' \cup Admitted(b)' \subseteq used \cup Admitted(b)
    BY DEF Admitted, TypeOK
  <1>4. AdmittedFits'
    BY ONLY TypeOK, TypeOK', <1>2, <1>3, AdmittedKept
  <1> QED BY <1>1, <1>4 DEF LimitInv

\* A poll keeps the values in the limit: it lets a request through only when
\* the pages it counted are within the target or the growth limit it read.
LEMMA ValuesPoll ==
    ASSUME TypeOK, TypeOK', ValuesWithinLimit, NEW m \in Mutators, Poll(m)
    PROVE  ValuesWithinLimit'
  <1> USE DEF ValuesWithinLimit, TargetWithinLimit, Budget, new_target, TypeOK,
              Goto, trigger, limits, core, locals, gc, sizes, jank
  <1>1. CASE LoadTarget(m)
    BY <1>1 DEF LoadTarget
  <1>2. CASE LoadReserved(m)
    BY <1>2 DEF LoadReserved
  <1>3. CASE LoadPending(m)
    BY <1>3 DEF LoadPending, FitsTarget
  <1>4. CASE WithinLimit(m)
    BY <1>4 DEF WithinLimit, FitsLimit
  <1>5. CASE BeyondLimit(m)
    BY <1>5 DEF BeyondLimit
  <1>6. CASE CasOk(m)
    BY <1>6 DEF CasOk
  <1>7. CASE CasFail(m)
    BY <1>7 DEF CasFail, Forget, Retry
  <1>8. CASE FetchSub(m)
    BY <1>8 DEF FetchSub
  <1>9. CASE PlanRequiresGc(m)
    BY <1>9 DEF PlanRequiresGc
  <1>10. CASE Allocate(m)
    BY <1>10 DEF Allocate, Forget
  <1>11. CASE on_pending_allocation(m)
    BY <1>11 DEF on_pending_allocation, Forget
  <1> QED BY <1>1, <1>2, <1>3, <1>4, <1>5, <1>6, <1>7, <1>8, <1>9, <1>10,
             <1>11 DEF Poll

\* A poll that reads the reserved pages is admitted only to bounds that hold
\* every reserved page; every other step of a poll admits nothing new.
LEMMA AdmittedPoll ==
    ASSUME TypeOK, TypeOK', LimitInv, NEW m \in Mutators, Poll(m)
    PROVE  AdmittedFits'
  <1>b. AdmittedFits /\ Budget' >= Budget
    BY DEF LimitInv, Poll, Budget, TypeOK, LoadTarget, LoadReserved,
           LoadPending, WithinLimit, BeyondLimit, CasOk, CasFail, FetchSub,
           PlanRequiresGc, Allocate, on_pending_allocation, trigger, limits
  <1>1. CASE LoadReserved(m)
    <2> SUFFICES ASSUME NEW b \in 0 .. Cardinality(Frames), b >= Budget'
                 PROVE  Cardinality(used' \cup Admitted(b)') <= b
      BY DEF AdmittedFits
    <2> USE DEF LoadReserved, Goto, TypeOK, core
    <2>n. Cardinality(Frames) \in Nat
      BY FramesAssumption, FS_CardinalityType
    <2>1. used' \cup Admitted(b)' \subseteq Reserved
      BY <1>1 DEF Admitted, Reserved, Polling
    <2>2. Cardinality(used' \cup Admitted(b)') <= get_reserved_pages
      BY <2>1, ReservedFacts, FS_Subset DEF get_reserved_pages
    <2>3. CASE get_reserved_pages <= b
      <3>1. /\ get_reserved_pages \in Nat
            /\ Cardinality(used' \cup Admitted(b)') \in Nat
        BY <2>1, ReservedFacts, FS_Subset, FS_CardinalityType
           DEF get_reserved_pages
      <3> QED BY <2>2, <2>3, <2>n, <3>1
    <2>4. CASE ~(get_reserved_pages <= b)
      <3>1. Admitted(b)' \subseteq Admitted(b) /\ used' = used
        BY <1>1, <2>4 DEF Admitted
      <3>2. Cardinality(used \cup Admitted(b)) <= b
        BY <1>1, <1>b DEF AdmittedFits, Budget, trigger, limits
      <3>3. used' \cup Admitted(b)' \subseteq used \cup Admitted(b)
        BY <3>1
      <3>4. /\ Cardinality(used' \cup Admitted(b)')
                 <= Cardinality(used \cup Admitted(b))
            /\ Cardinality(used' \cup Admitted(b)') \in Nat
        BY <3>3, AdmittedFrames, FS_Subset, FS_CardinalityType
      <3>5. Cardinality(used \cup Admitted(b)) \in Nat
        BY ONLY TypeOK, AdmittedFrames
      <3>6. b \in Nat
        BY ONLY <2>n, b \in 0 .. Cardinality(Frames)
      <3> QED BY ONLY <3>2, <3>4, <3>5, <3>6
    <2> QED BY <2>3, <2>4
  <1>2. CASE Allocate(m)
    <2>1. ASSUME NEW b \in 0 .. Cardinality(Frames), b >= Budget'
          PROVE  used' \cup Admitted(b)' \subseteq used \cup Admitted(b)
      <3>1. pc[m] = "plan" /\ Budget' = Budget
        BY <1>2 DEF Allocate, Goto, Budget, trigger, limits
      <3>2. reserved_pages[m] <= b
        <4>1. Cardinality(Frames) \in Nat
          BY FramesAssumption, FS_CardinalityType
        <4>2. reserved_pages[m] \in Nat /\ Budget \in Nat
          BY WidthAssumption DEF TypeOK, Budget
        <4>3. reserved_pages[m] <= Budget
          BY <3>1 DEF LimitInv, ValuesWithinLimit
        <4> QED BY <2>1, <3>1, <4>1, <4>2, <4>3
      <3>3. request[m] \subseteq Admitted(b)
        BY <3>1, <3>2 DEF Admitted
      <3>4. Admitted(b)' \subseteq Admitted(b)
        BY <1>2 DEF Allocate, Goto, Forget, Admitted, TypeOK
      <3> QED BY <1>2, <3>3, <3>4 DEF Allocate
    <2> QED BY ONLY TypeOK, TypeOK', <1>b, <2>1, AdmittedKept
  <1>3. CASE ~LoadReserved(m) /\ ~Allocate(m)
    <2>1. ASSUME NEW b \in 0 .. Cardinality(Frames)
          PROVE  used' \cup Admitted(b)' \subseteq used \cup Admitted(b)
      BY <1>3 DEF Poll, LoadTarget, LoadPending, WithinLimit, BeyondLimit,
                  CasOk, CasFail, FetchSub, PlanRequiresGc,
                  on_pending_allocation, Forget, Retry, Goto, Admitted, TypeOK,
                  core, locals
    <2> QED BY ONLY TypeOK, TypeOK', <1>b, <2>1, AdmittedKept
  <1> QED BY <1>1, <1>2, <1>3

\* The collection stores no target and no cached footprint above the limit,
\* and frees pages only.
LEMMA LimitGc ==
    ASSUME TypeOK, TypeOK', LimitInv, GcWorker
    PROVE  LimitInv'
  <1> DEFINE Quiet == \/ on_gc_start \/ SuspendAll \/ MutatorsStopped
                      \/ LoadMultiplier \/ GrowFull \/ GrowNursery \/ NurseryKeeps \/ KeepTarget
                      \/ CompareLimit \/ CapAtLimit \/ StoreTarget
                      \/ CapMinForeground
  <1>1. PICK n : Quiet \/ Collect(n) \/ on_gc_end
    BY DEF GcWorker
  <1> USE DEF GcGoto, trigger, limits, core, mutators, locals, gc, sizes, jank
  <1>2. UNCHANGED <<limits, lpc, reserved_pages, old_target>> /\ used' \subseteq used
    BY <1>1, LowestSubset
       DEF on_gc_start, SuspendAll, MutatorsStopped, Collect, LoadMultiplier, GrowFull,
           GrowNursery, NurseryKeeps, KeepTarget, Resize, CompareLimit,
           CapAtLimit, StoreTarget, CapMinForeground, on_gc_end
  <1>3. ValuesWithinLimit'
    BY <1>1 DEF LimitInv, ValuesWithinLimit, TargetWithinLimit, Budget,
                new_target, TypeOK, on_gc_start, SuspendAll, MutatorsStopped,
                Collect, LoadMultiplier, GrowFull, GrowNursery, NurseryKeeps, KeepTarget,
                Resize, CompareLimit, CapAtLimit, StoreTarget,
                CapMinForeground, on_gc_end, BeyondGrowthLimit,
                CappedForeground, Smaller
  <1>4. AdmittedFits /\ Budget' >= Budget
    BY <1>2 DEF LimitInv, Budget, TypeOK
  <1>5. ASSUME NEW b \in 0 .. Cardinality(Frames)
        PROVE  used' \cup Admitted(b)' \subseteq used \cup Admitted(b)
    <2>1. CASE on_gc_end
      BY <1>2, <2>1 DEF on_gc_end, Admitted, TypeOK
    <2>2. CASE Quiet \/ Collect(n)
      <3>1. UNCHANGED <<pc, request, reserved_pages>>
        BY <2>2 DEF on_gc_start, SuspendAll, MutatorsStopped, Collect,
                    LoadMultiplier, GrowFull, GrowNursery, NurseryKeeps, KeepTarget, Resize,
                    CompareLimit, CapAtLimit, StoreTarget, CapMinForeground
      <3> QED BY <1>2, <3>1 DEF Admitted
    <2> QED BY <1>1, <2>1, <2>2
  <1>6. AdmittedFits'
    BY ONLY TypeOK, TypeOK', <1>4, <1>5, AdmittedKept
  <1> QED BY <1>3, <1>6 DEF LimitInv

\* The two ART threads keep the target within the limit and never lower it.
LEMMA LimitArt ==
    ASSUME TypeOK, TypeOK', LimitInv,
           \/ \E b \in ProcessStates : SetIsJankPerceptible(b)
           \/ JankThread
           \/ ClearCompare \/ LimitThread \/ clamp_growth_limit
    PROVE  LimitInv'
  <1> USE DEF SetIsJankPerceptible, JankThread, JankLoadTarget, JankCompare,
              JankLoadMin, JankCasOk, JankCasFail, ClearCompare, LimitThread,
              ClearStoreTarget, ClearStoreLimit, ClearLimitFirst,
              ClearTargetLate, clamp_growth_limit, trigger, limits, core, mutators, locals, gc, sizes, jank
  <1>1. AdmittedFits /\ Budget' >= Budget
    BY DEF LimitInv, ValuesWithinLimit, TargetWithinLimit, Budget, TypeOK
  <1>2. ValuesWithinLimit'
    BY DEF LimitInv, ValuesWithinLimit, TargetWithinLimit, Budget, new_target,
           TypeOK
  <1>3. UNCHANGED <<pc, request, reserved_pages, used>>
    OBVIOUS
  <1>4. ASSUME NEW b \in 0 .. Cardinality(Frames)
        PROVE  used' \cup Admitted(b)' \subseteq used \cup Admitted(b)
    BY ONLY <1>3 DEF Admitted
  <1>5. AdmittedFits'
    BY ONLY TypeOK, TypeOK', <1>1, <1>4, AdmittedKept
  <1> QED BY <1>2, <1>5 DEF LimitInv

\* Every step of every thread keeps the heap within the limit.
LEMMA LimitStep ==
    ASSUME ClampSizes = {}, TypeOK, TypeOK', LimitInv, [Next]_vars
    PROVE  LimitInv'
  <1>1. CASE UNCHANGED vars
    BY <1>1 DEF LimitInv, ValuesWithinLimit, TargetWithinLimit, AdmittedFits,
                Admitted, Budget, new_target, vars, trigger, limits, core,
                mutators, locals, gc, sizes, jank
  <1>2. ASSUME NEW m \in Mutators, Poll(m) PROVE LimitInv'
    BY <1>2, ValuesPoll, AdmittedPoll DEF LimitInv
  <1>3. CASE Next
    BY <1>1, <1>2, <1>3, LimitReserve, LimitGc, LimitArt DEF Next
  <1> QED BY <1>1, <1>3

\* The inductive invariant behind the limit, as TLC checks it.
THEOREM LimitInvariant == ASSUME ClampSizes = {} PROVE Spec => []LimitInv
  <1>1. TypeOK /\ TypeOK' /\ LimitInv /\ [Next]_vars => LimitInv'
    BY LimitStep
  <1> QED BY <1>1, LimitInit, TypeCorrect, PTL DEF Spec

\* The target footprint stays within the limit in force, and the growth limit
\* within the capacity, for every interleaving of any number of threads.
THEOREM TargetBounded == ASSUME ClampSizes = {} PROVE Spec => []TargetWithinLimit
  <1>1. LimitInv => TargetWithinLimit
    BY DEF LimitInv, ValuesWithinLimit
  <1> QED BY <1>1, LimitInvariant, PTL

\* The invariant contains the bound on the heap: take the limit for b.
LEMMA LimitInvBoundsHeap == ASSUME TypeOK, LimitInv PROVE UsedWithinLimit
  <1>1. /\ Budget \in Nat /\ Cardinality(Frames) \in Nat
        /\ Cardinality(used) \in Nat
        /\ Cardinality(used) <= Cardinality(Frames)
    BY FramesAssumption, FS_Subset, FS_CardinalityType DEF TypeOK, Budget
  <1>2. CASE Budget > Cardinality(Frames)
    BY <1>1, <1>2 DEF UsedWithinLimit
  <1>3. CASE Budget <= Cardinality(Frames)
    <2>1. Cardinality(used \cup Admitted(Budget)) <= Budget
      BY <1>1, <1>3 DEF LimitInv, AdmittedFits
    <2>2. Cardinality(used) <= Cardinality(used \cup Admitted(Budget))
      BY AdmittedFrames, FS_Subset
    <2> QED BY <1>1, <2>1, <2>2, AdmittedFrames DEF UsedWithinLimit
  <1> QED BY <1>1, <1>2, <1>3

\* The heap never holds more pages than the limit in force.
THEOREM HeapBounded == ASSUME ClampSizes = {} PROVE Spec => []UsedWithinLimit
  <1>1. TypeOK /\ LimitInv => UsedWithinLimit
    BY LimitInvBoundsHeap
  <1> QED BY <1>1, LimitInvariant, TypeCorrect, PTL

(***************************************************************************)
(* Refinement of HeapBudget                                                *)
(***************************************************************************)

\* What a step does to the heap and to the limit: it moves the limit up, or
\* commits pages, or frees pages.
LEMMA StepShape ==
    ASSUME ClampSizes = {}, TypeOK, LimitInv, [Next]_vars
    PROVE  \/ used' = used /\ Budget' >= Budget
           \/ used \subseteq used' /\ Budget' = Budget
           \/ used' \subseteq used /\ Budget' = Budget
  <1> USE DEF trigger, limits, core, mutators, locals, gc, sizes, jank
  <1>1. CASE UNCHANGED vars
    BY <1>1 DEF vars, Budget, TypeOK
  <1>2. ASSUME NEW m \in Mutators, NEW n \in RequestSizes, ReservePages(m, n)
        PROVE  used' = used /\ Budget' = Budget
    BY <1>2 DEF ReservePages, Budget
  <1>3. ASSUME NEW m \in Mutators, Poll(m)
        PROVE  used \subseteq used' /\ Budget' = Budget
    BY <1>3 DEF Poll, LoadTarget, LoadReserved, LoadPending, WithinLimit,
                BeyondLimit, CasOk, CasFail, FetchSub, PlanRequiresGc,
                Allocate, on_pending_allocation, Budget
  <1>4. CASE GcWorker
    BY <1>4, LowestSubset
       DEF GcWorker, on_gc_start, SuspendAll, MutatorsStopped, Collect,
           LoadMultiplier, GrowFull, GrowNursery, NurseryKeeps, KeepTarget, Resize,
           CompareLimit, CapAtLimit, StoreTarget, CapMinForeground, on_gc_end,
           Budget
  <1>5. CASE \/ \E b \in ProcessStates : SetIsJankPerceptible(b)
             \/ JankThread
             \/ ClearCompare \/ LimitThread \/ clamp_growth_limit
    BY <1>5 DEF SetIsJankPerceptible, JankThread, JankLoadTarget, JankCompare,
                JankLoadMin, JankCasOk, JankCasFail, ClearCompare, LimitThread,
                ClearStoreTarget, ClearStoreLimit, ClearLimitFirst,
                ClearTargetLate, clamp_growth_limit, Budget, LimitInv,
                ValuesWithinLimit, TargetWithinLimit, TypeOK
  <1> QED BY <1>1, <1>2, <1>3, <1>4, <1>5 DEF Next, Budget, TypeOK

\* Every step is a step of the abstract budget or leaves it unchanged.
LEMMA RefinementStep ==
    ASSUME ClampSizes = {}, TypeOK, TypeOK', LimitInv, LimitInv', [Next]_vars
    PROVE  [Heap!Next]_<<Cardinality(used), Budget>>
  <1>1. /\ Budget \in Nat /\ Budget' \in Nat
        /\ IsFiniteSet(used) /\ IsFiniteSet(used')
        /\ Cardinality(used) \in Nat /\ Cardinality(used') \in Nat
    BY FramesAssumption, FS_Subset, FS_CardinalityType DEF TypeOK, Budget
  <1>2. Cardinality(used') <= Budget'
    <2>1. UsedWithinLimit'
      BY LimitInvBoundsHeap, PTL
    <2> QED BY <2>1 DEF UsedWithinLimit
  <1>3. CASE used' = used /\ Budget' >= Budget
    BY <1>1, <1>3 DEF Heap!Next, Heap!RaiseLimit
  <1>4. CASE used \subseteq used' /\ Budget' = Budget
    <2>1. Cardinality(used) <= Cardinality(used')
      BY <1>1, <1>4, FS_Subset
    <2> QED BY <1>1, <1>2, <1>4, <2>1 DEF Heap!Next, Heap!Commit
  <1>5. CASE used' \subseteq used /\ Budget' = Budget
    <2>1. Cardinality(used') <= Cardinality(used)
      BY <1>1, <1>5, FS_Subset
    <2> QED BY <1>1, <1>5, <2>1 DEF Heap!Next, Heap!Release
  <1> QED BY <1>3, <1>4, <1>5, StepShape

\* The trigger, with every interleaving of its threads, implements the
\* abstract budget: the refinement that TLC checks on a small heap.
THEOREM Refinement == ASSUME ClampSizes = {} PROVE Spec => ImplementsHeapBudget
  <1>1. Init => Heap!Init
    BY PagesFacts, FS_EmptySet DEF Init, Heap!Init, Budget
  <1>2. TypeOK /\ TypeOK' /\ LimitInv /\ LimitInv' /\ [Next]_vars
          => [Heap!Next]_<<Cardinality(used), Budget>>
    BY RefinementStep
  <1> QED BY <1>1, <1>2, TypeCorrect, LimitInvariant, PTL
          DEF Spec, ImplementsHeapBudget, Heap!Spec

(***************************************************************************)
(* What a collection leaves                                                *)
(***************************************************************************)
\* What grow_for_utilization decides on is within the limit from the time it
\* has been compared until it is stored; the limit does not fall meanwhile.
LimitInGc ==
    /\ growth_limit <= capacity
    /\ gcpc = "store" => target_size <= growth_limit
    /\ gcpc = "end" => min_foreground <= growth_limit

\* Clamps of the maximum heap size included, every step keeps this.
LEMMA LimitInGcStep == TypeOK /\ LimitInGc /\ [Next]_vars => LimitInGc'
  <1> SUFFICES ASSUME TypeOK, LimitInGc, [Next]_vars PROVE LimitInGc'
    OBVIOUS
  <1> USE DEF LimitInGc, TypeOK, trigger, limits, core, mutators, locals, gc,
              sizes, jank
  <1>1. CASE UNCHANGED vars
    BY <1>1 DEF vars
  <1>2. ASSUME NEW m \in Mutators, NEW n \in RequestSizes, ReservePages(m, n)
        PROVE  LimitInGc'
    BY <1>2 DEF ReservePages
  <1>3. ASSUME NEW m \in Mutators, Poll(m)
        PROVE  LimitInGc'
    BY <1>3 DEF Poll, LoadTarget, LoadReserved, LoadPending, WithinLimit,
                BeyondLimit, CasOk, CasFail, FetchSub, PlanRequiresGc,
                Allocate, on_pending_allocation
  <1>4. CASE GcWorker
    BY <1>4 DEF GcWorker, GcGoto, on_gc_start, SuspendAll, MutatorsStopped,
                Collect, LoadMultiplier, GrowFull, GrowNursery, NurseryKeeps, KeepTarget,
                Resize, CompareLimit, CapAtLimit, StoreTarget,
                CapMinForeground, on_gc_end, BeyondGrowthLimit,
                CappedForeground, Smaller
  <1>5. CASE \/ \E b \in ProcessStates : SetIsJankPerceptible(b)
             \/ JankThread
    BY <1>5 DEF SetIsJankPerceptible, JankThread, JankLoadTarget, JankCompare,
                JankLoadMin, JankCasOk, JankCasFail
  <1>6. CASE ClearCompare \/ LimitThread \/ clamp_growth_limit
    BY <1>6 DEF ClearCompare, LimitThread, ClearStoreTarget, ClearStoreLimit,
                ClearLimitFirst, ClearTargetLate, clamp_growth_limit
  <1>7. ASSUME NEW bytes \in ClampSizes, clamp_max_heap_size(bytes)
        PROVE  LimitInGc'
    BY <1>7, PagesFacts DEF clamp_max_heap_size
  <1> QED BY <1>1, <1>2, <1>3, <1>4, <1>5, <1>6, <1>7 DEF Next

\* Whatever a clamp of the maximum heap size has left, what a collection
\* stores is within the growth limit: set_ideal_footprint compares and loads
\* the limit again, and only raises of it come in between.
THEOREM LimitRestored == Spec => LimitRestoredByGc
  <1> DEFINE Restored ==
        /\ gcpc = "store" /\ gcpc' # gcpc => target_footprint' <= growth_limit
        /\ gcpc = "end" /\ gcpc' # gcpc =>
              min_foreground_target_footprint' <= growth_limit
  <1>1. Init => LimitInGc
    BY PagesFacts DEF Init, LimitInGc
  <1>2. LimitInGc /\ [Next]_vars => [Restored]_vars
    <2> SUFFICES ASSUME LimitInGc, Next PROVE Restored
      BY DEF LimitInGc
    <2> USE DEF trigger, limits, core, mutators, locals, gc, sizes, jank
    <2>1. CASE StoreTarget \/ on_gc_end
      BY <2>1 DEF StoreTarget, on_gc_end, GcGoto, LimitInGc
    <2>2. CASE gcpc' = gcpc \/ gcpc \notin {"store", "end"}
      BY <2>2
    <2>3. ASSUME NEW m \in Mutators, Poll(m)
          PROVE  gcpc' = gcpc
      BY <2>3 DEF Poll, LoadTarget, LoadReserved, LoadPending, WithinLimit,
                  BeyondLimit, CasOk, CasFail, FetchSub, PlanRequiresGc,
                  Allocate, on_pending_allocation
    <2>4. CASE GcWorker
      BY <2>1, <2>2, <2>4
         DEF GcWorker, GcGoto, on_gc_start, SuspendAll, MutatorsStopped,
             Collect, LoadMultiplier, GrowFull, GrowNursery, NurseryKeeps, KeepTarget,
             CompareLimit, CapAtLimit, CapMinForeground
    <2>5. ASSUME \/ \E m \in Mutators, n \in RequestSizes : ReservePages(m, n)
                 \/ \E b \in ProcessStates : SetIsJankPerceptible(b)
                 \/ JankThread
                 \/ ClearCompare \/ LimitThread \/ clamp_growth_limit
                 \/ \E bytes \in ClampSizes : clamp_max_heap_size(bytes)
                 \/ UNCHANGED vars
          PROVE  gcpc' = gcpc
      BY <2>5 DEF ReservePages, SetIsJankPerceptible, JankThread,
                  JankLoadTarget, JankCompare, JankLoadMin, JankCasOk,
                  JankCasFail, ClearCompare, LimitThread, ClearStoreTarget,
                  ClearStoreLimit, ClearLimitFirst, ClearTargetLate,
                  clamp_growth_limit, clamp_max_heap_size, vars
    <2> QED BY <2>2, <2>3, <2>4, <2>5 DEF Next
  <1> QED BY <1>1, <1>2, LimitInGcStep, TypeCorrect, PTL
          DEF Spec, LimitRestoredByGc

\* While the collection resizes the heap no mutator polls, and the size it has
\* decided on leaves room for the reserved and the pending pages until it is
\* compared with the growth limit.
RoomInv ==
    /\ gcpc \notin {"idle", "started", "stopping"} =>
         \A m \in Mutators : pc[m] \in {"run", "blocked"}
    /\ gcpc \in {"compare", "cap"} =>
         target_size >= get_reserved_pages + pending_allocation

\* The size that a collection decides on has room for the pending pages.
LEMMA ResizeHasRoom ==
    ASSUME TypeOK, NEW size \in Nat, NEW growth, Resize(size, growth),
           size >= get_reserved_pages
    PROVE  target_size' >= get_reserved_pages + pending_allocation
  <1>1. get_reserved_pages \in Nat /\ pending_allocation \in Nat
    BY ReservedFacts, WidthAssumption DEF TypeOK
  <1> QED BY <1>1 DEF Resize, Short

\* Every step keeps the room for the pending pages, clamps included.
LEMMA RoomStep == TypeOK /\ RoomInv /\ [Next]_vars => RoomInv'
  <1> SUFFICES ASSUME TypeOK, RoomInv, [Next]_vars PROVE RoomInv'
    OBVIOUS
  <1>r. get_reserved_pages \in Nat /\ pending_allocation \in Nat
    BY ReservedFacts, WidthAssumption DEF TypeOK
  <1> USE DEF trigger, limits, core, mutators, locals, gc, sizes, jank
  <1>1. ASSUME UNCHANGED <<gcpc, pc, target_size, used, request,
                           pending_allocation>>
        PROVE  RoomInv'
    BY <1>1 DEF RoomInv, get_reserved_pages, Reserved
  <1>2. ASSUME gcpc \in {"idle", "started", "stopping"}, UNCHANGED gcpc
        PROVE  RoomInv'
    BY <1>2 DEF RoomInv
  <1>3. ASSUME NEW m \in Mutators, Poll(m)
        PROVE  RoomInv'
    <2>1. pc[m] \notin {"run", "blocked"} /\ UNCHANGED gcpc
      BY <1>3 DEF Poll, LoadTarget, LoadReserved, LoadPending, WithinLimit,
                  BeyondLimit, CasOk, CasFail, FetchSub, PlanRequiresGc,
                  Allocate, on_pending_allocation, Goto
    <2> QED BY <1>2, <2>1 DEF RoomInv, TypeOK
  <1>4. ASSUME NEW m \in Mutators, NEW n \in RequestSizes, ReservePages(m, n)
        PROVE  RoomInv'
    BY <1>2, <1>4 DEF ReservePages
  <1>5. CASE \/ \E b \in ProcessStates : SetIsJankPerceptible(b)
             \/ JankThread
             \/ ClearCompare \/ LimitThread \/ clamp_growth_limit
             \/ \E bytes \in ClampSizes : clamp_max_heap_size(bytes)
             \/ UNCHANGED vars
    <2>1. UNCHANGED <<gcpc, pc, target_size, used, request, pending_allocation>>
      BY <1>5 DEF SetIsJankPerceptible, JankThread, JankLoadTarget,
                  JankCompare, JankLoadMin, JankCasOk, JankCasFail,
                  ClearCompare, LimitThread, ClearStoreTarget,
                  ClearStoreLimit, ClearLimitFirst, ClearTargetLate,
                  clamp_growth_limit, clamp_max_heap_size, vars
    <2> QED BY <1>1, <2>1
  <1>6. CASE GcWorker
    <2> USE DEF GcGoto
    <2>1. CASE on_gc_start \/ SuspendAll \/ MutatorsStopped
               \/ (\E n \in 0 .. Cardinality(used) : Collect(n))
               \/ LoadMultiplier \/ NurseryKeeps \/ CapAtLimit
               \/ StoreTarget \/ CapMinForeground \/ on_gc_end
      BY <2>1 DEF on_gc_start, SuspendAll, MutatorsStopped, Collect,
                  LoadMultiplier, NurseryKeeps, CapAtLimit, StoreTarget,
                  CapMinForeground, on_gc_end, RoomInv
    <2>2. ASSUME NEW size \in Nat, NEW growth, Resize(size, growth),
                 size >= get_reserved_pages, gcpc \in {"grow", "keep"},
                 gcpc' = "compare"
          PROVE  RoomInv'
      <3>1. target_size' >= get_reserved_pages + pending_allocation
        BY <2>2, ResizeHasRoom
      <3>2. UNCHANGED <<pc, used, request, pending_allocation>>
        BY <2>2 DEF Resize
      <3>3. get_reserved_pages' = get_reserved_pages
        BY <3>2 DEF get_reserved_pages, Reserved
      <3> QED BY <2>2, <3>1, <3>2, <3>3 DEF RoomInv
    <2>3. CASE GrowFull
      <3> DEFINE growth == FullGrowPages(get_reserved_pages)
      <3>1. Scaled(growth, multiplier) \in Nat
        BY <1>r, GrowthNat DEF TypeOK
      <3>2. /\ Resize(get_reserved_pages + Scaled(growth, multiplier), growth)
            /\ gcpc = "grow" /\ gcpc' = "compare"
        BY <2>3 DEF GrowFull
      <3> HIDE DEF growth
      <3> QED BY <1>r, <2>2, <3>1, <3>2
    <2>4. CASE GrowNursery
      <3>1. Scaled(max_free, multiplier) \in Nat
        BY GrowthNat, PagesFacts DEF TypeOK
      <3>2. NurserySize \in Nat /\ NurserySize >= get_reserved_pages
        BY <1>r, <3>1 DEF NurserySize
      <3>3. Resize(NurserySize, max_free) /\ gcpc = "grow" /\ gcpc' = "compare"
        BY <2>4 DEF GrowNursery
      <3> QED BY <2>2, <3>2, <3>3
    <2>5. CASE KeepTarget
      <3>1. /\ Larger(get_reserved_pages, target_footprint) \in Nat
            /\ Larger(get_reserved_pages, target_footprint) >= get_reserved_pages
        BY <1>r DEF Larger, TypeOK
      <3>2. /\ Resize(Larger(get_reserved_pages, target_footprint), 0)
            /\ gcpc = "keep" /\ gcpc' = "compare"
        BY <2>5 DEF KeepTarget
      <3> QED BY <2>2, <3>1, <3>2
    <2>6. CASE CompareLimit
      <3>1. /\ UNCHANGED <<pc, target_size, used, request, pending_allocation>>
            /\ gcpc = "compare"
        BY <2>6 DEF CompareLimit
      <3>2. get_reserved_pages' = get_reserved_pages
        BY <3>1 DEF get_reserved_pages, Reserved
      <3> QED BY <3>1, <3>2 DEF RoomInv
    <2> QED BY <1>6, <2>1, <2>3, <2>4, <2>5, <2>6 DEF GcWorker
  <1> QED BY <1>3, <1>4, <1>5, <1>6 DEF Next

\* What a collection leaves is enough for everything that the blocked
\* mutators wait for, up to the growth limit in force, for every
\* configuration and clamps of the maximum heap size included.
THEOREM PendingHasRoom == Spec => RoomForPending
  <1> DEFINE Room ==
        gcpc' = "store" /\ gcpc' # gcpc =>
          target_size' >= Smaller(get_reserved_pages + pending_allocation,
                                  growth_limit)
  <1>1. Init => RoomInv
    BY DEF Init, RoomInv
  <1>2. TypeOK /\ RoomInv /\ [Next]_vars => [Room]_vars
    <2> SUFFICES ASSUME TypeOK, RoomInv, Next, gcpc' = "store", gcpc' # gcpc
                 PROVE  target_size' >=
                          Smaller(get_reserved_pages + pending_allocation,
                                  growth_limit)
      OBVIOUS
    <2>1. /\ get_reserved_pages \in Nat /\ pending_allocation \in Nat
          /\ growth_limit \in Nat /\ target_size \in Nat
      BY ReservedFacts, WidthAssumption DEF TypeOK
    <2> USE DEF trigger, limits, core, mutators, locals, gc, sizes, jank
    <2>2. GcWorker
      <3>1. ASSUME NEW m \in Mutators, Poll(m)
            PROVE  gcpc' = gcpc
        BY <3>1 DEF Poll, LoadTarget, LoadReserved, LoadPending, WithinLimit,
                    BeyondLimit, CasOk, CasFail, FetchSub, PlanRequiresGc,
                    Allocate, on_pending_allocation
      <3>2. ASSUME \/ \E m \in Mutators, n \in RequestSizes : ReservePages(m, n)
                   \/ \E b \in ProcessStates : SetIsJankPerceptible(b)
                   \/ JankThread
                   \/ ClearCompare \/ LimitThread \/ clamp_growth_limit
                   \/ \E bytes \in ClampSizes : clamp_max_heap_size(bytes)
                   \/ UNCHANGED vars
            PROVE  gcpc' = gcpc
        BY <3>2 DEF ReservePages, SetIsJankPerceptible, JankThread,
                    JankLoadTarget, JankCompare, JankLoadMin, JankCasOk,
                    JankCasFail, ClearCompare, LimitThread, ClearStoreTarget,
                    ClearStoreLimit, ClearLimitFirst, ClearTargetLate,
                    clamp_growth_limit, clamp_max_heap_size, vars
      <3> QED BY <3>1, <3>2 DEF Next
    <2>3. CompareLimit \/ CapAtLimit
      BY <2>2 DEF GcWorker, GcGoto, on_gc_start, SuspendAll, MutatorsStopped,
                  Collect, LoadMultiplier, GrowFull, GrowNursery, NurseryKeeps,
                  KeepTarget, StoreTarget, CapMinForeground, on_gc_end
    <2>4. CASE CompareLimit
      BY <2>1, <2>4 DEF CompareLimit, GcGoto, RoomInv, Smaller
    <2>5. CASE CapAtLimit
      BY <2>1, <2>5 DEF CapAtLimit, Smaller
    <2> QED BY <2>3, <2>4, <2>5
  <1> QED BY <1>1, <1>2, RoomStep, TypeCorrect, PTL DEF Spec, RoomForPending

============================================================================
