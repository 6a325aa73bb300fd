-------------------------- MODULE WeakRefsProofs --------------------------
(***************************************************************************)
(* Proofs about WeakRefs: no dangling reference after any sequence of      *)
(* collections, the static phase at the start of each, and soft references *)
(* kept, for every heap and every mix of kinds of reference objects.       *)
(***************************************************************************)
EXTENDS WeakRefs, TLAPS

(***************************************************************************)
(* The inductive invariant                                                 *)
(***************************************************************************)
\* The variables have their types.
TypeOK ==
    /\ live \subseteq Objects /\ old \subseteq Objects
    /\ roots \subseteq Objects /\ system_weaks \subseteq Objects
    /\ fields \in [Objects -> SUBSET Objects]
    /\ class \in [Refs -> {"soft", "weak", "finalizer", "phantom"}]
    /\ referent \in [Refs -> Objects \cup {null}]
    /\ zygote \in BOOLEAN /\ emergency \in BOOLEAN /\ nursery \in BOOLEAN
    /\ current_phase \in {"Phase1", "Phase2", "Phase3"}
    /\ gcpc \in {"idle", "trace", "weak", "sweep"}
    /\ marked \subseteq Objects /\ strong \subseteq Objects

\* Nothing refers to a freed object, during collections as well.
HeapClosed ==
    /\ roots \cup system_weaks \cup old \subseteq live
    /\ \A o \in live : fields[o] \subseteq live
    /\ \A r \in Refs \cap live : referent[r] \in live \cup {null}
    /\ \A o \in Objects \ live : fields[o] = {}

\* The runtime's own list holds every finalizer reference that has not been
\* enqueued yet.
FinalizersHeld ==
    \A r \in Refs \cap live :
        class[r] = "finalizer" /\ referent[r] # null => r \in roots

\* A collection marks live objects, all roots among them; when its closure
\* has ended, everything that scanning reports is marked.
MarkedClosed ==
    /\ gcpc # "idle" => roots \subseteq marked /\ marked \subseteq live
    /\ gcpc = "weak" => \A o \in marked : Children(o) \subseteq marked

\* After the second phase no finalizer reference has an unmarked referent.
FinalizersDone ==
    gcpc # "idle" /\ current_phase = "Phase3" =>
        \A r \in Refs \cap live :
            class[r] = "finalizer" => referent[r] \in marked \cup {null}

\* What is left when the processing has ended: every reference out of a
\* marked object, and every entry of a weak table, is to a marked one.
SweepSafe ==
    gcpc = "sweep" =>
        /\ system_weaks \subseteq marked
        /\ \A o \in marked : fields[o] \subseteq marked
        /\ \A r \in Refs \cap marked : referent[r] \in marked \cup {null}

\* The static is back at its first phase when the last one has run, and
\* nursery collections do not move it.
PhaseReset ==
    gcpc \in {"idle", "sweep"} \/ nursery => current_phase = "Phase1"

\* The first closure finds what the application can reach; once the first
\* phase has run, the soft referents of that are marked.
SoftForwarded ==
    /\ gcpc = "idle" => strong = {}
    /\ strong \subseteq marked
    /\ gcpc = "weak" /\ current_phase = "Phase1" => strong = marked
    /\ current_phase # "Phase1" /\ ~emergency /\ ~zygote =>
         \A r \in Refs \cap strong :
             class[r] = "soft" => referent[r] \in marked \cup {null}

Inv ==
    /\ TypeOK /\ HeapClosed /\ FinalizersHeld
    /\ MarkedClosed /\ FinalizersDone /\ SweepSafe
    /\ PhaseReset /\ SoftForwarded

(***************************************************************************)
(* The steps                                                               *)
(***************************************************************************)
\* The empty heap satisfies the invariant.
LEMMA InvInit == Init => Inv
  <1> SUFFICES ASSUME Init PROVE Inv
    OBVIOUS
  <1>1. emergency \in BOOLEAN /\ nursery \in BOOLEAN /\ zygote \in BOOLEAN
    BY Zenon DEF Init
  <1>2. TypeOK
    BY <1>1, RefsAssumption DEF Init, TypeOK
  <1>3. /\ HeapClosed /\ FinalizersHeld /\ MarkedClosed /\ FinalizersDone
        /\ SweepSafe /\ PhaseReset /\ SoftForwarded
    BY DEF Init, HeapClosed, FinalizersHeld, MarkedClosed, FinalizersDone,
           SweepSafe, PhaseReset, SoftForwarded
  <1> QED BY <1>2, <1>3 DEF Inv

\* Between collections the parts about a collection say nothing.
LEMMA InvIdle ==
    ASSUME gcpc' = "idle", TypeOK', HeapClosed', FinalizersHeld', Inv,
           gcpc = "idle", UNCHANGED <<marked, strong, current_phase, nursery>>
    PROVE  Inv'
  BY DEF Inv, MarkedClosed, FinalizersDone, SweepSafe, PhaseReset, SoftForwarded

\* A new object refers to what the roots hold.
LEMMA InvAlloc ==
    ASSUME Inv, NEW o \in Objects \ live, NEW target \in roots \cup {null},
           o \notin Refs => target = null, Alloc(o, target)
    PROVE  Inv'
  <1> USE DEF Alloc, kind
  <1>1. TypeOK'
    BY DEF Inv, TypeOK
  <1>2. HeapClosed'
    <2>1. (roots \cup system_weaks \cup old \subseteq live)'
      BY DEF Inv, HeapClosed
    <2>2. \A p \in live' : fields'[p] \subseteq live'
      BY DEF Inv, HeapClosed
    <2>3. \A r \in Refs \cap live' : referent'[r] \in live' \cup {null}
      BY DEF Inv, HeapClosed, TypeOK
    <2>4. \A p \in Objects \ live' : fields'[p] = {}
      BY DEF Inv, HeapClosed
    <2> QED BY <2>1, <2>2, <2>3, <2>4 DEF HeapClosed
  <1>3. FinalizersHeld'
    BY DEF Inv, FinalizersHeld, TypeOK
  <1> QED BY <1>1, <1>2, <1>3, InvIdle

\* Stores and drops of the mutators keep the heap closed.
LEMMA InvMutate ==
    ASSUME Inv, \/ \E o \in roots \ Refs, p \in roots : StoreField(o, p)
                \/ \E o \in roots : DropRoot(o)
    PROVE  Inv'
  <1>1. ASSUME NEW o \in roots \ Refs, NEW p \in roots, StoreField(o, p)
        PROVE  Inv'
    <2> USE <1>1 DEF StoreField, kind
    <2>1. TypeOK'
      BY DEF Inv, TypeOK
    <2>2. HeapClosed'
      BY DEF Inv, TypeOK, HeapClosed
    <2>3. FinalizersHeld'
      BY DEF Inv, FinalizersHeld
    <2> QED BY <2>1, <2>2, <2>3, InvIdle
  <1>2. ASSUME NEW o \in roots, DropRoot(o)
        PROVE  Inv'
    <2> USE <1>2 DEF DropRoot, kind
    <2>1. TypeOK'
      BY DEF Inv, TypeOK
    <2>2. HeapClosed'
      BY DEF Inv, HeapClosed
    <2>3. FinalizersHeld'
      BY DEF Inv, FinalizersHeld, Held
    <2> QED BY <2>1, <2>2, <2>3, InvIdle
  <1> QED BY <1>1, <1>2

\* A collection starts at the first phase, with the roots.
LEMMA InvStartGc ==
    ASSUME Inv, NEW n \in BOOLEAN, NEW e \in BOOLEAN, StartGc(n, e)
    PROVE  Inv'
  <1> USE DEF StartGc, heap
  <1>1. current_phase = "Phase1" /\ strong = {}
    BY DEF Inv, PhaseReset, SoftForwarded
  <1>2. TypeOK' /\ HeapClosed' /\ FinalizersHeld'
    BY DEF Inv, TypeOK, HeapClosed, FinalizersHeld
  <1>3. MarkedClosed' /\ FinalizersDone' /\ SweepSafe'
    BY <1>1 DEF Inv, MarkedClosed, FinalizersDone, SweepSafe, HeapClosed
  <1>4. PhaseReset' /\ SoftForwarded'
    BY <1>1 DEF PhaseReset, SoftForwarded
  <1> QED BY <1>2, <1>3, <1>4 DEF Inv

\* What scanning a live object reports is live.
LEMMA ChildrenLive ==
    ASSUME Inv, NEW o \in live
    PROVE  Children(o) \subseteq live
  BY DEF Inv, HeapClosed, Children

\* A round of marking marks live objects only.
LEMMA InvTrace == ASSUME Inv, Trace PROVE Inv'
  <1> DEFINE found == UNION {Children(o) : o \in marked}
  <1>1. /\ gcpc = "trace" /\ marked' = marked \cup found
        /\ gcpc' = (IF found \subseteq marked THEN "weak" ELSE "trace")
        /\ strong' = (IF current_phase = "Phase1" THEN marked' ELSE strong)
        /\ UNCHANGED <<live, old, roots, fields, referent, system_weaks, class,
                       zygote, emergency, nursery, current_phase>>
    BY DEF Trace, heap, kind
  <1>2. roots \subseteq marked /\ marked \subseteq live
    BY <1>1 DEF Inv, MarkedClosed
  <1>3. found \subseteq live
    BY <1>2, ChildrenLive
  <1>4. gcpc' = "weak" => marked' = marked /\ \A o \in marked : Children(o) \subseteq marked
    BY <1>1
  <1> HIDE DEF found
  <1>5. TypeOK'
    <2>1. live \subseteq Objects /\ marked' \subseteq Objects
      BY <1>1, <1>2, <1>3 DEF Inv, TypeOK
    <2> QED BY <1>1, <2>1 DEF Inv, TypeOK
  <1>6. HeapClosed' /\ FinalizersHeld'
    BY <1>1 DEF Inv, HeapClosed, FinalizersHeld
  <1>7. MarkedClosed'
    <2>1. \A o \in marked : Children(o)' = Children(o)
      BY <1>1 DEF Children
    <2> QED BY <1>1, <1>2, <1>3, <1>4, <2>1 DEF MarkedClosed
  <1>8. FinalizersDone' /\ SweepSafe'
    BY <1>1 DEF Inv, FinalizersDone, SweepSafe
  <1>9. PhaseReset'
    BY <1>1 DEF Inv, PhaseReset
  <1>10. SoftForwarded'
    BY <1>1 DEF Inv, SoftForwarded
  <1> QED BY <1>5, <1>6, <1>7, <1>8, <1>9, <1>10 DEF Inv

\* In a nursery collection the closure has marked all referents, and the weak
\* tables are swept.
LEMMA InvNurseryWeakRefs == ASSUME Inv, NurseryWeakRefs PROVE Inv'
  <1> USE DEF NurseryWeakRefs, sweep_system_weaks, kind
  <1>1. TypeOK' /\ HeapClosed' /\ FinalizersHeld'
    BY DEF Inv, TypeOK, HeapClosed, FinalizersHeld
  <1>2. MarkedClosed' /\ FinalizersDone'
    BY DEF Inv, MarkedClosed, FinalizersDone
  <1>3. \A o \in marked : Children(o) \subseteq marked
    BY DEF Inv, MarkedClosed
  <1>4. SweepSafe'
    BY <1>3 DEF SweepSafe, Children, Inv, TypeOK
  <1>5. PhaseReset' /\ SoftForwarded'
    BY DEF Inv, PhaseReset, SoftForwarded
  <1> QED BY <1>1, <1>2, <1>4, <1>5 DEF Inv

\* The first phase marks soft referents of what the application can reach.
LEMMA InvPhase1 ==
    ASSUME Inv, FullWeakRefs, current_phase = "Phase1"
    PROVE  Inv'
  <1>1. /\ gcpc = "weak" /\ gcpc' = "trace" /\ ~nursery
        /\ current_phase' = "Phase2"
        /\ marked' = (IF clear_soft_references THEN marked ELSE
                        marked \cup {referent[r] : r \in Unmarked({"soft"})})
        /\ UNCHANGED <<live, old, roots, fields, referent, system_weaks, class,
                       zygote, emergency, nursery, strong>>
    BY DEF FullWeakRefs, process_references, ForwardSoft, PhaseAfter,
           TracesAgain, kind
  <1>2. roots \subseteq marked /\ marked \subseteq live /\ live \subseteq Objects
    BY <1>1 DEF Inv, MarkedClosed, TypeOK
  <1>3. {referent[r] : r \in Unmarked({"soft"})} \subseteq live
    BY <1>2 DEF Unmarked, Inv, HeapClosed
  <1>4. marked \subseteq marked' /\ marked' \subseteq live
    BY <1>1, <1>2, <1>3
  <1>5. TypeOK' /\ HeapClosed' /\ FinalizersHeld'
    BY <1>1, <1>2, <1>4 DEF Inv, TypeOK, HeapClosed, FinalizersHeld
  <1>6. MarkedClosed' /\ FinalizersDone' /\ SweepSafe' /\ PhaseReset'
    BY <1>1, <1>2, <1>4 DEF MarkedClosed, FinalizersDone, SweepSafe, PhaseReset
  <1>7. SoftForwarded'
    <2>1. strong = marked
      BY <1>1 DEF Inv, SoftForwarded
    <2>2. ASSUME ~emergency, ~zygote, NEW r \in Refs \cap strong,
                 class[r] = "soft"
          PROVE  referent[r] \in marked' \cup {null}
      BY <1>1, <2>1, <2>2 DEF clear_soft_references, Unmarked
    <2> QED BY <1>1, <1>4, <2>1, <2>2 DEF SoftForwarded
  <1> QED BY <1>5, <1>6, <1>7 DEF Inv

\* The second phase marks the objects of the finalizers it enqueues.
LEMMA InvPhase2 ==
    ASSUME Inv, FullWeakRefs, current_phase = "Phase2"
    PROVE  Inv'
  <1> DEFINE enqueued == Unmarked({"finalizer"})
             cleared == Unmarked({"soft", "weak"}) \cup enqueued
             kept == {referent[r] : r \in enqueued}
  <1>1. /\ gcpc = "weak" /\ gcpc' = "trace" /\ ~nursery
        /\ current_phase' = "Phase3"
        /\ referent' = [r \in Refs |-> IF r \in cleared THEN null ELSE referent[r]]
        /\ marked' = marked \cup kept
        /\ fields' = [o \in Objects |-> IF o \in enqueued
                        THEN fields[o] \cup {referent[o]} ELSE fields[o]]
        /\ UNCHANGED <<live, old, roots, system_weaks, class, zygote,
                       emergency, nursery, strong>>
    BY DEF FullWeakRefs, process_references, ClearAndEnqueueFinalizers,
           Cleared, PhaseAfter, TracesAgain, kind
  <1>2. roots \subseteq marked /\ marked \subseteq live /\ live \subseteq Objects
    BY <1>1 DEF Inv, MarkedClosed, TypeOK
  <1>3. /\ enqueued \subseteq Refs \cap live
        /\ \A r \in enqueued : referent[r] \in live
        /\ \A r \in Refs \cap marked :
             class[r] = "finalizer" /\ r \notin enqueued =>
                 referent[r] \in marked \cup {null}
        /\ \A r \in cleared : r \in Refs /\ referent[r] \notin marked
    BY <1>2 DEF Unmarked, Inv, HeapClosed
  <1>4. kept \subseteq live /\ enqueued \subseteq cleared
    BY <1>3
  <1> HIDE DEF enqueued, cleared, kept
  <1>5. TypeOK'
    <2>1. marked' \subseteq Objects
      BY <1>1, <1>2, <1>4
    <2>2. fields' \in [Objects -> SUBSET Objects]
      BY <1>1, <1>2, <1>3 DEF Inv, TypeOK
    <2>3. referent' \in [Refs -> Objects \cup {null}]
      BY <1>1 DEF Inv, TypeOK
    <2> QED BY <1>1, <2>1, <2>2, <2>3 DEF Inv, TypeOK
  <1>6. HeapClosed'
    <2>1. \A o \in live : fields'[o] \subseteq live
      BY <1>1, <1>2, <1>3 DEF Inv, HeapClosed
    <2>2. \A r \in Refs \cap live : referent'[r] \in live \cup {null}
      BY <1>1 DEF Inv, HeapClosed
    <2>3. \A o \in Objects \ live : fields'[o] = {}
      BY <1>1, <1>3 DEF Inv, HeapClosed
    <2> QED BY <1>1, <2>1, <2>2, <2>3 DEF Inv, HeapClosed
  <1>7. FinalizersHeld'
    BY <1>1 DEF Inv, FinalizersHeld
  <1>8. MarkedClosed' /\ SweepSafe' /\ PhaseReset'
    BY <1>1, <1>2, <1>4 DEF MarkedClosed, SweepSafe, PhaseReset
  <1>9. FinalizersDone'
    <2> SUFFICES ASSUME NEW r \in Refs \cap live, class[r] = "finalizer"
                 PROVE  referent'[r] \in marked' \cup {null}
      BY <1>1 DEF FinalizersDone
    <2>1. CASE referent[r] = null
      BY <1>1, <2>1
    <2>2. CASE r \in enqueued
      BY <1>1, <1>4, <2>2
    <2>3. CASE referent[r] # null /\ r \notin enqueued
      <3>1. r \in marked
        BY <1>2, <2>3 DEF Inv, FinalizersHeld
      <3> QED BY <1>1, <1>3, <2>3, <3>1
    <2> QED BY <2>1, <2>2, <2>3
  <1>10. SoftForwarded'
    BY <1>1 DEF Inv, SoftForwarded
  <1> QED BY <1>5, <1>6, <1>7, <1>8, <1>9, <1>10 DEF Inv

\* The third phase clears what is left, and sweeps the weak tables.
LEMMA InvPhase3 ==
    ASSUME Inv, FullWeakRefs, current_phase = "Phase3"
    PROVE  Inv'
  <1> DEFINE cleared == Unmarked({"soft", "weak", "phantom"})
  <1>1. /\ gcpc = "weak" /\ gcpc' = "sweep" /\ ~nursery
        /\ current_phase' = "Phase1"
        /\ referent' = [r \in Refs |-> IF r \in cleared THEN null ELSE referent[r]]
        /\ system_weaks' = system_weaks \cap marked
        /\ UNCHANGED <<live, old, roots, fields, marked, class, zygote,
                       emergency, nursery, strong>>
    BY DEF FullWeakRefs, process_references, ClearPhantomsAndSweep,
           sweep_system_weaks, Cleared, PhaseAfter, TracesAgain, kind
  <1>2. /\ roots \subseteq marked /\ marked \subseteq live
        /\ \A o \in marked : fields[o] \subseteq marked
    BY <1>1 DEF Inv, MarkedClosed, Children
  <1>3. TypeOK' /\ HeapClosed' /\ FinalizersHeld'
    BY <1>1 DEF Inv, TypeOK, HeapClosed, FinalizersHeld
  <1>4. MarkedClosed' /\ FinalizersDone' /\ PhaseReset'
    BY <1>1, <1>2 DEF MarkedClosed, FinalizersDone, PhaseReset
  <1>5. SweepSafe'
    <2>1. ASSUME NEW r \in Refs \cap marked
          PROVE  referent'[r] \in marked \cup {null}
      <3>1. CASE class[r] = "finalizer"
        <4>1. referent[r] \in marked \cup {null}
          BY <1>1, <1>2, <3>1 DEF Inv, FinalizersDone
        <4> QED BY <1>1, <4>1
      <3>2. CASE class[r] \in {"soft", "weak", "phantom"}
        BY <1>1, <3>2 DEF Unmarked
      <3> QED BY <3>1, <3>2 DEF Inv, TypeOK
    <2> QED BY <1>1, <1>2, <2>1 DEF SweepSafe
  <1>6. SoftForwarded'
    BY <1>1 DEF Inv, SoftForwarded
  <1> QED BY <1>3, <1>4, <1>5, <1>6 DEF Inv

\* Freeing what is not marked leaves no reference to it.
LEMMA InvSweep == ASSUME Inv, Sweep PROVE Inv'
  <1> USE DEF Sweep
  <1>1. TypeOK'
    BY DEF Inv, TypeOK
  <1>2. roots \subseteq marked /\ marked \subseteq live
    BY DEF Inv, MarkedClosed
  <1>3. HeapClosed' /\ FinalizersHeld'
    BY <1>2 DEF Inv, TypeOK, SweepSafe, HeapClosed, FinalizersHeld
  <1>4. MarkedClosed' /\ FinalizersDone' /\ SweepSafe'
    BY DEF MarkedClosed, FinalizersDone, SweepSafe
  <1>5. current_phase' = "Phase1"
    BY DEF Inv, PhaseReset
  <1>6. PhaseReset' /\ SoftForwarded'
    BY <1>5 DEF PhaseReset, SoftForwarded
  <1> QED BY <1>1, <1>3, <1>4, <1>6 DEF Inv

\* Every step keeps the invariant.
LEMMA InvStep == Inv /\ [Next]_vars => Inv'
  <1> SUFFICES ASSUME Inv, [Next]_vars PROVE Inv'
    OBVIOUS
  <1>1. CASE UNCHANGED vars
    BY <1>1 DEF vars, heap, kind, Inv, TypeOK, HeapClosed, FinalizersHeld,
                MarkedClosed, FinalizersDone, SweepSafe, PhaseReset,
                SoftForwarded, Children
  <1>2. CASE Mutator
    BY <1>2, InvAlloc, InvMutate DEF Mutator
  <1>3. CASE FullWeakRefs
    BY <1>3, InvPhase1, InvPhase2, InvPhase3 DEF Inv, TypeOK
  <1>4. CASE Collector
    BY <1>3, <1>4, InvTrace, InvNurseryWeakRefs, InvSweep DEF Collector
  <1> QED BY <1>1, <1>2, <1>4, InvStartGc DEF Next

(***************************************************************************)
(* The theorems                                                            *)
(***************************************************************************)
\* The invariant holds in every behaviour.
THEOREM Invariant == Spec => []Inv
  BY InvInit, InvStep, PTL DEF Spec

\* Between collections nothing refers to a freed object, after any sequence
\* of nursery, full and emergency collections of any heap.
THEOREM NothingDangles == Spec => []NoDangling
  <1>1. Inv => NoDangling
    BY DEF Inv, HeapClosed, NoDangling
  <1> QED BY <1>1, Invariant, PTL

\* Every collection finds the static at the phase where processing starts.
THEOREM PhaseStartsOver == Spec => []StartsAtPhase1
  <1>1. Inv => StartsAtPhase1
    BY DEF Inv, PhaseReset, StartsAtPhase1
  <1> QED BY <1>1, Invariant, PTL

\* A reachable soft reference loses its referent only in an emergency or in
\* the Zygote: the first phase has marked the referent in all other cases.
THEOREM SoftReferencesKept == Spec => SoftKept
  <1> DEFINE Kept == \A r \in Refs \cap strong :
               class[r] = "soft" /\ referent[r] # null /\ referent'[r] = null
                   => emergency \/ zygote
  <1>1. Inv /\ [Next]_vars => [Kept]_vars
    <2> SUFFICES ASSUME Inv, Next, NEW r \in Refs \cap strong,
                        class[r] = "soft", referent[r] # null,
                        ~emergency, ~zygote
                 PROVE  referent'[r] # null
      OBVIOUS
    <2>1. gcpc # "idle" /\ r \in marked
      BY DEF Inv, SoftForwarded
    <2>2. CASE UNCHANGED referent
      BY <2>2
    <2>3. CASE FullWeakRefs /\ current_phase # "Phase1"
      <3>1. referent[r] \in marked
        BY <2>3 DEF Inv, SoftForwarded
      <3>2. \A kinds : r \notin Unmarked(kinds)
        BY <3>1 DEF Unmarked
      <3>3. r \notin Unmarked({"finalizer"})
        BY <3>2
      <3>4. \E refs : referent' = Cleared(refs) /\ r \notin refs
        BY <2>3, <3>2 DEF FullWeakRefs, process_references,
             ClearAndEnqueueFinalizers, ClearPhantomsAndSweep, Inv, TypeOK
      <3> QED BY <3>4 DEF Cleared
    <2>4. CASE FullWeakRefs /\ current_phase = "Phase1"
      BY <2>2, <2>4 DEF FullWeakRefs, process_references, ForwardSoft
    <2>5. CASE Sweep
      BY <2>1, <2>5 DEF Sweep
    <2>6. CASE Trace \/ NurseryWeakRefs
      BY <2>2, <2>6 DEF Trace, NurseryWeakRefs, heap
    <2>7. CASE \E n, e \in BOOLEAN : StartGc(n, e)
      BY <2>1, <2>7 DEF StartGc
    <2>8. CASE Mutator
      BY <2>1, <2>8 DEF Mutator, Alloc, StoreField, DropRoot
    <2> QED BY <2>3, <2>4, <2>5, <2>6, <2>7, <2>8 DEF Next, Collector
  <1> QED BY <1>1, Invariant, PTL DEF Spec, SoftKept
============================================================================
