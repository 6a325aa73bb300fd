------------------------------ MODULE WeakRefs ------------------------------
(***************************************************************************)
(* Weak-reference processing: process_weak_refs of mmtk/src/scanning.rs,   *)
(* its static CURRENT_WEAK_REF_PHASE, and what its answer makes mmtk-core  *)
(* do (trace again and call again, or sweep).  ART's side (what an upcall  *)
(* does in each phase) is external and follows the comments of             *)
(* RefProcessingPhase; so are the collector and the mutators.              *)
(***************************************************************************)
EXTENDS FiniteSets, Naturals

CONSTANTS
    Objects,     \* object identities
    Refs,        \* the objects that are instances of java.lang.ref.Reference
    Kinds,       \* the kinds they may have: "soft", "weak", "finalizer", "phantom"
    Interned,    \* the objects that ART enters in a weak table
    MaxFields,   \* bound on the fields of an object
    null

ASSUME RefsAssumption ==
    /\ Refs \subseteq Objects /\ Interned \subseteq Objects /\ null \notin Objects
    /\ Kinds \subseteq [Refs -> {"soft", "weak", "finalizer", "phantom"}]

VARIABLES
    live,          \* allocated objects
    old,           \* those that survived a collection
    roots,         \* objects in VM roots
    fields,        \* strong references out of an object
    class,         \* class[r]: the kind of reference object r
    referent,      \* referent of a reference object, or null
    system_weaks,  \* objects in ART's weak tables (interned strings, ...)
    zygote, emergency, nursery,   \* queries of the api during a collection
    current_phase, \* CURRENT_WEAK_REF_PHASE
    gcpc, marked,  \* collector: control, marked objects
    strong         \* objects found by the first closure of the collection

heap == <<live, old, roots, fields, referent, system_weaks>>
kind == <<class, zygote, emergency, nursery>>
vars == <<heap, kind, current_phase, gcpc, marked, strong>>

Init ==
    /\ live = {} /\ old = {} /\ roots = {} /\ system_weaks = {}
    /\ fields = [o \in Objects |-> {}]
    /\ class \in Kinds /\ referent = [r \in Refs |-> null]
    /\ zygote \in BOOLEAN /\ emergency = FALSE /\ nursery = FALSE
    /\ current_phase = "Phase1"
    /\ gcpc = "idle" /\ marked = {} /\ strong = {}

(***************************************************************************)
(* Mutators (external): they reach objects through roots only              *)
(***************************************************************************)
\* A new object is held by a root; a reference is born with its referent.
Alloc(o, target) ==
    /\ gcpc = "idle" /\ o \in Objects \ live
    /\ live' = live \cup {o} /\ roots' = roots \cup {o}
    /\ referent' = IF o \in Refs THEN [referent EXCEPT ![o] = target]
                                 ELSE referent
    /\ system_weaks' = system_weaks \cup ({o} \cap Interned)
    /\ UNCHANGED <<old, fields, kind, current_phase, gcpc, marked, strong>>

StoreField(o, p) ==
    /\ gcpc = "idle" /\ Cardinality(fields[o]) < MaxFields
    /\ fields' = [fields EXCEPT ![o] = @ \cup {p}]
    /\ UNCHANGED <<live, old, roots, referent, system_weaks, kind,
                   current_phase, gcpc, marked, strong>>

\* The runtime holds every finalizer reference in a list of its own until it
\* has been enqueued; the application cannot drop it.
Held(o) == o \in Refs /\ class[o] = "finalizer" /\ referent[o] # null

DropRoot(o) ==
    /\ gcpc = "idle" /\ ~Held(o)
    /\ roots' = roots \ {o}
    /\ UNCHANGED <<live, old, fields, referent, system_weaks, kind,
                   current_phase, gcpc, marked, strong>>

Mutator ==
    \/ \E o \in Objects \ live, target \in roots \cup {null} :
          (o \notin Refs => target = null) /\ Alloc(o, target)
    \/ \E o \in roots \ Refs, p \in roots : p \notin fields[o] /\ StoreField(o, p)
    \/ \E o \in roots : DropRoot(o)

(***************************************************************************)
(* The collector (external): marking                                       *)
(***************************************************************************)
\* A nursery collection keeps all old objects.
StartGc(is_nursery, is_emergency) ==
    /\ gcpc = "idle"
    /\ nursery' = is_nursery /\ emergency' = is_emergency
    /\ marked' = roots \cup (IF is_nursery THEN old ELSE {})
    /\ gcpc' = "trace"
    /\ UNCHANGED <<heap, class, zygote, current_phase, strong>>

\* What scanning an object reports: its fields, and its referent when ART's
\* process_referent treats it as strong, as it does in a nursery collection.
Children(o) ==
    fields[o] \cup
    (IF nursery /\ o \in Refs THEN {referent[o]} \ {null} ELSE {})

Trace ==
    LET found == UNION {Children(o) : o \in marked}
    IN  /\ gcpc = "trace"
        /\ marked' = marked \cup found
        /\ gcpc' = IF found \subseteq marked THEN "weak" ELSE "trace"
        /\ strong' = IF current_phase = "Phase1" THEN marked' ELSE strong
        /\ UNCHANGED <<heap, kind, current_phase>>

(***************************************************************************)
(* ART's upcalls (external)                                                *)
(***************************************************************************)
\* Marked references of the given kinds whose referents are not marked.
Unmarked(kinds) ==
    {r \in Refs \cap marked : /\ class[r] \in kinds /\ referent[r] # null
                              /\ referent[r] \notin marked}

Cleared(refs) == [r \in Refs |-> IF r \in refs THEN null ELSE referent[r]]

\* The references traced by TraceObjectClosure are marked; their fields are
\* found by the next closure.
ForwardSoft(clear_soft_references) ==
    /\ marked' = IF clear_soft_references THEN marked
                   ELSE marked \cup {referent[r] : r \in Unmarked({"soft"})}
    /\ UNCHANGED <<referent, fields, system_weaks>>

\* An enqueued finalizer reference holds its object strongly from now on.
ClearAndEnqueueFinalizers ==
    LET enqueued == Unmarked({"finalizer"})
    IN  /\ referent' = Cleared(Unmarked({"soft", "weak"}) \cup enqueued)
        /\ marked' = marked \cup {referent[r] : r \in enqueued}
        /\ fields' = [o \in Objects |-> IF o \in enqueued
                        THEN fields[o] \cup {referent[o]} ELSE fields[o]]
        /\ UNCHANGED system_weaks

sweep_system_weaks == system_weaks' = system_weaks \cap marked

ClearPhantomsAndSweep ==
    /\ referent' = Cleared(Unmarked({"soft", "weak", "phantom"}))
    /\ sweep_system_weaks
    /\ UNCHANGED <<fields, marked>>

process_references(phase, clear_soft_references) ==
    CASE phase = "Phase1" -> ForwardSoft(clear_soft_references)
      [] phase = "Phase2" -> ClearAndEnqueueFinalizers
      [] phase = "Phase3" -> ClearPhantomsAndSweep

(***************************************************************************)
(* The binding: process_weak_refs                                          *)
(***************************************************************************)
\* Faulty: soft references are cleared in every collection.
AlwaysClearSoft == TRUE

\* Soft references are always cleared in the Zygote.
clear_soft_references == emergency \/ zygote

\* Faulty: the phase is not reset for the next collection.
PhaseStaysAfter(phase) ==
    CASE phase = "Phase1" -> "Phase2"
      [] phase = "Phase2" -> "Phase3"
      [] phase = "Phase3" -> "Phase3"

PhaseAfter(phase) ==
    CASE phase = "Phase1" -> "Phase2"
      [] phase = "Phase2" -> "Phase3"
      [] phase = "Phase3" -> "Phase1"

\* Faulty: the objects that finalizers keep are not traced.
OnlyPhase1TracesAgain(phase) == phase = "Phase1"

\* Faulty: processing never finishes.
AlwaysTracesAgain(phase) == TRUE

\* The answer: call again after another closure.
TracesAgain(phase) == phase \in {"Phase1", "Phase2"}

NurseryWeakRefs ==
    /\ gcpc = "weak" /\ nursery
    /\ sweep_system_weaks
    /\ gcpc' = "sweep"
    /\ UNCHANGED <<live, old, roots, fields, referent, kind, current_phase,
                   marked, strong>>

FullWeakRefs ==
    /\ gcpc = "weak" /\ ~nursery
    /\ process_references(current_phase, clear_soft_references)
    /\ current_phase' = PhaseAfter(current_phase)
    /\ gcpc' = IF TracesAgain(current_phase) THEN "trace" ELSE "sweep"
    /\ UNCHANGED <<live, old, roots, kind, strong>>

\* Unmarked objects are freed (external).
Sweep ==
    /\ gcpc = "sweep"
    /\ live' = marked /\ old' = marked
    /\ fields' = [o \in Objects |-> IF o \in marked THEN fields[o] ELSE {}]
    /\ referent' = [r \in Refs |-> IF r \in marked THEN referent[r] ELSE null]
    /\ gcpc' = "idle" /\ marked' = {} /\ strong' = {}
    /\ nursery' = FALSE /\ emergency' = FALSE
    /\ UNCHANGED <<roots, system_weaks, class, zygote, current_phase>>

Collector == Trace \/ NurseryWeakRefs \/ FullWeakRefs \/ Sweep

Next ==
    \/ Mutator
    \/ \E n, e \in BOOLEAN : ~(n /\ e) /\ StartGc(n, e)
    \/ Collector

Spec == Init /\ [][Next]_vars
FairSpec == Spec /\ WF_vars(Collector)

(***************************************************************************)
(* Properties                                                              *)
(***************************************************************************)
\* Between collections nothing refers to a freed object: no root, no field,
\* no referent of a live reference and no entry of a weak table.  The order
\* of the phases, the closures between them and the sweep of the weak tables
\* after a nursery collection (process_weak_refs) all carry this.
NoDangling ==
    gcpc = "idle" =>
        /\ roots \cup system_weaks \subseteq live
        /\ \A o \in live : fields[o] \subseteq live
        /\ \A r \in Refs \cap live : referent[r] \in live \cup {null}

\* A soft reference that the application can reach loses its referent only in
\* an emergency collection or in the Zygote (clear_soft_references).
SoftKept ==
    [][\A r \in Refs \cap strong :
         class[r] = "soft" /\ referent[r] # null /\ referent'[r] = null
             => emergency \/ zygote]_vars

\* Every collection ends: process_weak_refs answers false at last.
CollectionEnds == gcpc # "idle" ~> gcpc = "idle"

\* Every collection, whatever collection preceded it, finds the static phase
\* where a new processing has to start.
StartsAtPhase1 == gcpc = "idle" \/ nursery => current_phase = "Phase1"
=============================================================================
