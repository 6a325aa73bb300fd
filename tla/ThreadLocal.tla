---------------------------- MODULE ThreadLocal ----------------------------
(***************************************************************************)
(* Allocation from thread-local buffers (mmtk/src/api.rs).  The cursor and *)
(* limit of a mutator's default allocator exist twice: in the mutator, and *)
(* in the thread's own storage, where ART's compiled code bumps the cursor *)
(* without a call.  ART writes its copy back with                          *)
(* mmtk_set_default_thread_local_cursor_limit before it calls mmtk_alloc,  *)
(* and reads it again with mmtk_get_default_thread_local_cursor_limit.  A  *)
(* collection takes all buffers back through the iterator over the         *)
(* mutators (mmtk/src/active_plan.rs).  ART's allocation paths, mmtk-core's *)
(* allocators, spaces and collections are external.                        *)
(***************************************************************************)
EXTENDS Integers, FiniteSets

CONSTANTS
    Mutators,     \* threads
    HeapWords,    \* size of the default space, in units of allocation
    ObjectSizes,  \* sizes of objects, in the same units
    Selectors     \* default allocators that the plans in use may have

ASSUME ThreadLocalAssumption ==
    /\ HeapWords \in Nat
    /\ ObjectSizes \subseteq Nat \ {0}
    /\ Selectors \subseteq {"BumpPointer", "Immix", "FreeList"}

Words == 0 .. HeapWords - 1

\* struct BumpPointer; a region is what lies between cursor and limit.
BumpPointer == [cursor : 0 .. HeapWords, limit : 0 .. HeapWords]
Empty == [cursor |-> 0, limit |-> 0]
Region(b) == b.cursor .. b.limit - 1
Fits(b, n) == b.cursor + n <= b.limit
Bumped(b, n) == [b EXCEPT !.cursor = @ + n]

VARIABLES
    selector,    \* the allocator of AllocationSemantics::Default
    allocator,   \* allocator[m]: bump_pointer of m's default allocator
    local,       \* local[m]: ART's copy of it
    objects,     \* objects[a]: number of live objects at a
    available,   \* what the space may still hand out
    pc,          \* control of each thread
    want,        \* want[m]: size that m is allocating
    world,       \* "running", or a step of the collection
    panicked

vars == <<selector, allocator, local, objects, available, pc, want, world,
          panicked>>

Init ==
    /\ selector \in Selectors
    /\ allocator = [m \in Mutators |-> Empty]
    /\ local = [m \in Mutators |-> Empty]
    /\ objects = [a \in Words |-> 0]
    /\ available = Words
    /\ pc = [m \in Mutators |-> "absent"]
    /\ want = [m \in Mutators |-> 0]
    /\ world = "running" /\ panicked = FALSE

Goto(m, from, to) == pc[m] = from /\ pc' = [pc EXCEPT ![m] = to]

Bound == {m \in Mutators : pc[m] # "absent"}

\* The words of an object of n units at a hold one object more.
Placed(a, n) ==
    [w \in Words |-> objects[w] + IF w \in a .. a + n - 1 THEN 1 ELSE 0]

(***************************************************************************)
(* The two calls                                                           *)
(***************************************************************************)
\* The allocators of which the calls know a bump pointer; they panic else.
HasBumpPointer == selector \in {"BumpPointer", "Immix"}

\* Faulty: the mutator keeps its own values.
KeepsBumpPointer(m) == UNCHANGED allocator /\ panicked' = ~HasBumpPointer

mmtk_set_default_thread_local_cursor_limit(m) ==
    /\ allocator' = IF HasBumpPointer THEN [allocator EXCEPT ![m] = local[m]]
                                      ELSE allocator
    /\ panicked' = ~HasBumpPointer

mmtk_get_default_thread_local_cursor_limit(m) ==
    /\ local' = IF HasBumpPointer THEN [local EXCEPT ![m] = allocator[m]]
                                  ELSE local
    /\ panicked' = ~HasBumpPointer

(***************************************************************************)
(* Allocation by ART (external)                                            *)
(***************************************************************************)
\* A thread has its mutator (mmtk_bind_mutator) before it allocates.
Attach(m) ==
    /\ world = "running"
    /\ Goto(m, "absent", "run")
    /\ UNCHANGED <<selector, allocator, local, objects, available, want, world,
                   panicked>>

\* What is left of its buffer is lost until the next collection.
Detach(m) ==
    /\ world = "running"
    /\ Goto(m, "run", "absent")
    /\ allocator' = [allocator EXCEPT ![m] = Empty]
    /\ local' = [local EXCEPT ![m] = Empty]
    /\ UNCHANGED <<selector, objects, available, want, world, panicked>>

FastPath(m, n) ==
    /\ world = "running" /\ pc[m] = "run"
    /\ Fits(local[m], n)
    /\ objects' = Placed(local[m].cursor, n)
    /\ local' = [local EXCEPT ![m] = Bumped(@, n)]
    /\ UNCHANGED <<selector, allocator, available, pc, want, world, panicked>>

SlowPath(m, n) ==
    /\ world = "running"
    /\ Goto(m, "run", "alloc")
    /\ ~Fits(local[m], n)
    /\ want' = [want EXCEPT ![m] = n]
    /\ mmtk_set_default_thread_local_cursor_limit(m)
    /\ UNCHANGED <<selector, local, objects, available, world>>

(***************************************************************************)
(* mmtk_alloc for the default allocator                                    *)
(***************************************************************************)
\* The object is taken from the front of b, which becomes the buffer of m.
AllocateFrom(m, b) ==
    /\ Goto(m, "alloc", "done")
    /\ Fits(b, want[m])
    /\ objects' = Placed(b.cursor, want[m])
    /\ allocator' = [allocator EXCEPT ![m] = Bumped(b, want[m])]
    /\ available' = available \ Region(b)
    /\ UNCHANGED <<selector, local, want, world, panicked>>

AllocInBuffer(m) == Fits(allocator[m], want[m]) /\ AllocateFrom(m, allocator[m])

\* A hole of the space.
AcquireBuffer(m, b) ==
    /\ ~Fits(allocator[m], want[m])
    /\ Region(b) \subseteq available
    /\ AllocateFrom(m, b)

\* The trigger asks for a collection, and block_for_gc waits for it.
BlockForGc(m) ==
    /\ Goto(m, "alloc", "blocked")
    /\ ~Fits(allocator[m], want[m])
    /\ UNCHANGED <<selector, allocator, local, objects, available, want, world,
                   panicked>>

\* The collection did not help: out_of_memory, and mmtk_alloc returns null.
out_of_memory(m) ==
    /\ Goto(m, "alloc", "done")
    /\ ~\E b \in BumpPointer : Region(b) \subseteq available /\ Fits(b, want[m])
    /\ ~Fits(allocator[m], want[m])
    /\ UNCHANGED <<selector, allocator, local, objects, available, want, world,
                   panicked>>

mmtk_alloc(m) ==
    \/ AllocInBuffer(m) \/ (\E b \in BumpPointer : AcquireBuffer(m, b))
    \/ BlockForGc(m) \/ out_of_memory(m)

\* mmtk_post_alloc, and the values that the allocator has now.
FinishSlowPath(m) ==
    /\ Goto(m, "done", "run")
    /\ want' = [want EXCEPT ![m] = 0]
    /\ mmtk_get_default_thread_local_cursor_limit(m)
    /\ UNCHANGED <<selector, allocator, objects, available, world>>

(***************************************************************************)
(* A collection                                                            *)
(***************************************************************************)
\* Threads stop where they poll for it or wait for it.
StopMutators ==
    /\ world = "running"
    /\ \E m \in Mutators : pc[m] = "blocked"
    /\ \A m \in Bound : pc[m] \in {"run", "blocked"}
    /\ world' = "collecting"
    /\ UNCHANGED <<selector, allocator, local, objects, available, pc, want,
                   panicked>>

\* Faulty: the iterator ends before the last mutator.
MutatorsButOne == Bound \ {CHOOSE m \in Bound : TRUE}

\* ArtMutatorIterator: the mutators of all threads, taken once from ART.
mutators == Bound

\* What survives is in K now, and every buffer is taken back.
Collect(K) ==
    /\ world = "collecting" /\ world' = "resuming"
    /\ Cardinality(K) <= Cardinality({a \in Words : objects[a] > 0})
    /\ objects' = [a \in Words |-> IF a \in K THEN 1 ELSE 0]
    /\ available' = Words \ K
    /\ allocator' = [m \in Mutators |-> IF m \in mutators THEN Empty
                                                         ELSE allocator[m]]
    /\ UNCHANGED <<selector, local, pc, want, panicked>>

\* Before its threads go on, ART reads their values again.
ResumeMutators ==
    /\ world = "resuming" /\ world' = "running"
    /\ local' = [m \in Mutators |-> IF m \in Bound THEN allocator[m]
                                                   ELSE local[m]]
    /\ pc' = [m \in Mutators |-> IF pc[m] = "blocked" THEN "alloc" ELSE pc[m]]
    /\ UNCHANGED <<selector, allocator, objects, available, want, panicked>>

Next ==
    \/ /\ ~panicked
       /\ \/ \E m \in Mutators : Attach(m) \/ Detach(m)
          \/ \E m \in Mutators, n \in ObjectSizes : FastPath(m, n) \/ SlowPath(m, n)
          \/ \E m \in Mutators : mmtk_alloc(m) \/ FinishSlowPath(m)
          \/ StopMutators \/ (\E K \in SUBSET Words : Collect(K))
          \/ ResumeMutators
    \/ panicked /\ UNCHANGED vars   \* the process has aborted

Spec == Init /\ [][Next]_vars

(***************************************************************************)
(* Properties                                                              *)
(***************************************************************************)
\* No two live objects share a word, although each thread allocates from a
\* copy of a cursor that MMTk moves as well and that collections take back.
NoOverlap == \A a \in Words : objects[a] <= 1

\* The buffer that a thread allocates from next: ART's copy, or the mutator's
\* own while a call or a collection is under way.
Buffer(m) == IF pc[m] = "run" /\ world # "resuming" THEN local[m] ELSE allocator[m]

\* Every buffer lies in memory that holds no object, that the space does not
\* hand out and that is in no other thread's buffer.
BuffersExclusive ==
    \A m \in Bound :
        /\ \A a \in Region(Buffer(m)) : objects[a] = 0 /\ a \notin available
        /\ \A k \in Bound \ {m} : Region(Buffer(m)) \cap Region(Buffer(k)) = {}
============================================================================
