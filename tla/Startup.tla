------------------------------ MODULE Startup ------------------------------
(***************************************************************************)
(* How the MMTk instance comes to be (mmtk/src/api.rs, mmtk/src/lib.rs):   *)
(* ART sets the heap parameters and the options, and the first use of the  *)
(* lazily initialized SINGLETON lays out the address space and builds the  *)
(* instance under the locks BUILDER and TRIGGER_INIT.  A process may       *)
(* create several runtimes one after the other; only the first one builds. *)
(* MMTKBuilder and mmtk-core's mmtk_init are external.  Sizes and          *)
(* addresses are in pages of 4 KB.                                         *)
(***************************************************************************)
EXTENDS Integers

CONSTANTS
    Main,          \* the thread that creates runtimes
    Helpers,       \* threads that use the instance as soon as they may
    Sizes,         \* heap parameters [min, max] that ART may ask for
    MaxRuntimes,   \* bound on the runtimes that a process creates
    HeapStart      \* start of the heap: 0x0040_0000, 0x2000_0000 on 32 bits

ASSUME StartupAssumption ==
    /\ Main \notin Helpers
    /\ {"nobody", "unset", "ready"} \cap ({Main} \cup Helpers) = {}
    /\ \A s \in Sizes : s.min \in Nat /\ s.max \in Nat /\ s.min <= s.max
    /\ MaxRuntimes \in Nat \ {0}
    /\ HeapStart \in {1024, 131072}

Threads == {Main} \cup Helpers
NoOwner == "nobody"

VARIABLES
    BUILDER, TRIGGER_INIT,   \* who holds the two locks
    builder,                 \* options and layout in the MMTKBuilder
    trigger_init,            \* parameters of the trigger
    singleton,               \* "unset", "ready", or the initializing thread
    instance,                \* what the instance was built from
    IS_MMTK_INITIALIZED, IS_MMTK_REINITIALIZING,
    runtime,                 \* parameters of the runtime being created
    runtimes,                \* number of runtimes created so far
    first,                   \* parameters of the first runtime (history)
    panicked,                \* an assertion has aborted the process
    pc                       \* control of each thread

locks   == <<BUILDER, TRIGGER_INIT>>
params  == <<builder, trigger_init>>
built   == <<singleton, instance>>
flags   == <<IS_MMTK_INITIALIZED, IS_MMTK_REINITIALIZING>>
art     == <<runtime, runtimes, first>>
startup == <<locks, params, built, flags, art, panicked, pc>>

(***************************************************************************)
(* Layout and policy                                                       *)
(***************************************************************************)
PagesInChunk == 1024
AddressSpace == 1048576       \* 2^32 bytes: log_address_space
MaxCapacity  == 524288        \* 2usize << 30 bytes

chunk_align_up(a)   == ((a + PagesInChunk - 1) \div PagesInChunk) * PagesInChunk
chunk_align_down(a) == (a \div PagesInChunk) * PagesInChunk

\* set_vm_layout: room for the heap and five chunks of slack.
Layout(max_heap_size) ==
    [heap_start |-> chunk_align_down(HeapStart),
     heap_end   |-> chunk_align_up(HeapStart + max_heap_size
                                     + 5 * PagesInChunk)]

\* Faulty: any capacity is accepted.
NeverTooLarge(max_heap_size) == FALSE

TooLarge(max_heap_size) == max_heap_size > MaxCapacity

\* A reference as a slot holds it, in 32 bits (log_address_space).
compress(address) == address % AddressSpace
decompress(v)     == IF v = 0 THEN "None" ELSE v

\* mmtk_set_heap_size: a heap of one size needs no trigger of ART's.
Policy(s) == IF s.min = s.max THEN "FixedHeapSize" ELSE "Delegated"

NoSizes   == [min |-> 0, max |-> 0]
NoLayout  == Layout(0)
NoRuntime == [sizes |-> NoSizes, zygote |-> FALSE]
NotBuilt  == [zygote |-> FALSE, policy |-> "default", layout |-> NoLayout,
              sizes |-> NoSizes]

StartupInit ==
    /\ BUILDER = NoOwner /\ TRIGGER_INIT = NoOwner
    /\ builder = [zygote |-> FALSE, policy |-> "default", layout |-> NoLayout]
    /\ trigger_init = NoSizes
    /\ singleton = "unset" /\ instance = NotBuilt
    /\ IS_MMTK_INITIALIZED = FALSE /\ IS_MMTK_REINITIALIZING = FALSE
    /\ runtime = NoRuntime /\ runtimes = 0 /\ first = NoRuntime
    /\ panicked = FALSE
    /\ pc = [t \in Threads |-> IF t = Main THEN "up" ELSE "absent"]

Goto(t, from, to) == pc[t] = from /\ pc' = [pc EXCEPT ![t] = to]

(***************************************************************************)
(* ART's main thread creates a runtime (external): parameters, mmtk_init,  *)
(* and then mmtk_initialize_collection.                                    *)
(***************************************************************************)
CreateRuntime(s, z) ==
    /\ runtimes < MaxRuntimes
    /\ Goto(Main, "up", "set_builder")
    /\ runtime' = [sizes |-> s, zygote |-> z]
    /\ runtimes' = runtimes + 1
    /\ first' = IF runtimes = 0 THEN runtime' ELSE first
    /\ UNCHANGED <<locks, params, built, flags, panicked>>

Free(lock) == lock = NoOwner

(***************************************************************************)
(* mmtk_set_heap_size: the guard of BUILDER lives until the function ends, *)
(* that of TRIGGER_INIT until the end of its block.                        *)
(***************************************************************************)
SetLockBuilder ==
    /\ Goto(Main, "set_builder", "set_trigger")
    /\ Free(BUILDER) /\ BUILDER' = Main
    /\ UNCHANGED <<TRIGGER_INIT, params, built, flags, art, panicked>>

SetLockTrigger ==
    /\ Goto(Main, "set_trigger", "set_sizes")
    /\ Free(TRIGGER_INIT) /\ TRIGGER_INIT' = Main
    /\ UNCHANGED <<BUILDER, params, built, flags, art, panicked>>

SetTriggerInit ==
    /\ Goto(Main, "set_sizes", "set_policy")
    /\ trigger_init' = runtime.sizes
    /\ TRIGGER_INIT' = NoOwner
    /\ UNCHANGED <<BUILDER, builder, built, flags, art, panicked>>

SetPolicy ==
    /\ Goto(Main, "set_policy", "init")
    /\ builder' = [builder EXCEPT !.policy = Policy(runtime.sizes)]
    /\ BUILDER' = NoOwner
    /\ UNCHANGED <<TRIGGER_INIT, trigger_init, built, flags, art, panicked>>

(***************************************************************************)
(* mmtk_init                                                               *)
(***************************************************************************)
\* Faulty: the instance is used before its options are set.
UsesBeforeOptions == IF IS_MMTK_INITIALIZED THEN "collection" ELSE "deref"

AfterCheck == IF IS_MMTK_INITIALIZED THEN "collection" ELSE "options"

\* A second runtime of the process leaves the instance alone; the Zygote
\* must be the first one.  Else UPCALLS is stored.
InitCheck ==
    /\ Goto(Main, "init", AfterCheck)
    /\ panicked' = (IS_MMTK_INITIALIZED /\ runtime.zygote)
    /\ IS_MMTK_REINITIALIZING' = (IS_MMTK_REINITIALIZING \/ IS_MMTK_INITIALIZED)
    /\ UNCHANGED <<locks, params, built, IS_MMTK_INITIALIZED, art>>

\* The plan and is_zygote_process, each under a guard of its own.  The plan
\* makes no difference here.  From now on other threads may use the instance.
InitOptions ==
    /\ pc[Main] = "options" /\ Free(BUILDER)
    /\ builder' = [builder EXCEPT !.zygote = runtime.zygote]
    /\ pc' = [t \in Threads |-> IF t = Main THEN "deref" ELSE "idle"]
    /\ UNCHANGED <<locks, trigger_init, built, flags, art, panicked>>

(***************************************************************************)
(* SINGLETON: whoever uses it first runs the initializer, the others wait. *)
(***************************************************************************)
\* Where a thread goes on once it has the instance.
AfterDeref(t) == IF t = Main THEN "collection" ELSE "idle"

\* A query of a helper.
Query(t) ==
    /\ t \in Helpers
    /\ Goto(t, "idle", "deref")
    /\ UNCHANGED <<locks, params, built, flags, art, panicked>>

Deref(t) ==
    \/ /\ singleton = "unset"
       /\ Goto(t, "deref", "build_lock")
       /\ singleton' = t
       /\ UNCHANGED <<locks, params, instance, flags, art, panicked>>
    \/ /\ singleton = "ready"
       /\ Goto(t, "deref", AfterDeref(t))
       /\ UNCHANGED <<locks, params, built, flags, art, panicked>>

BuildLock(t) ==
    /\ Goto(t, "build_lock", "build_trigger")
    /\ Free(BUILDER) /\ BUILDER' = t
    /\ panicked' = IS_MMTK_INITIALIZED
    /\ UNCHANGED <<TRIGGER_INIT, params, built, flags, art>>

\* set_vm_layout: the guard of TRIGGER_INIT is dropped once the capacity has
\* been read.
BuildLockTrigger(t) ==
    /\ Goto(t, "build_trigger", "build_layout")
    /\ Free(TRIGGER_INIT) /\ TRIGGER_INIT' = t
    /\ UNCHANGED <<BUILDER, params, built, flags, art, panicked>>

BuildLayout(t) ==
    /\ Goto(t, "build_layout", "build_instance")
    /\ TRIGGER_INIT' = NoOwner
    /\ panicked' = TooLarge(trigger_init.max)
    /\ builder' = [builder EXCEPT !.layout = Layout(trigger_init.max)]
    /\ UNCHANGED <<BUILDER, trigger_init, built, flags, art>>

\* mmtk_init of mmtk-core: create_gc_trigger locks TRIGGER_INIT again.
BuildInstance(t) ==
    /\ Goto(t, "build_instance", "build_done")
    /\ builder.policy = "Delegated" => Free(TRIGGER_INIT)
    /\ instance' = [zygote |-> builder.zygote, policy |-> builder.policy,
                    layout |-> builder.layout, sizes |-> trigger_init]
    /\ UNCHANGED <<locks, params, singleton, flags, art, panicked>>

BuildDone(t) ==
    /\ Goto(t, "build_done", AfterDeref(t))
    /\ IS_MMTK_INITIALIZED' = TRUE
    /\ singleton' = "ready" /\ BUILDER' = NoOwner
    /\ UNCHANGED <<TRIGGER_INIT, params, instance, IS_MMTK_REINITIALIZING,
                   art, panicked>>

UseInstance(t) ==
    \/ Deref(t) \/ BuildLock(t) \/ BuildLockTrigger(t) \/ BuildLayout(t)
    \/ BuildInstance(t) \/ BuildDone(t)

MainCalls ==
    \/ SetLockBuilder \/ SetLockTrigger \/ SetTriggerInit \/ SetPolicy
    \/ InitCheck \/ InitOptions

StartupStep(t) == UseInstance(t) \/ (t = Main /\ MainCalls)

(***************************************************************************)
(* Properties                                                              *)
(***************************************************************************)
\* The instance is built from what the first runtime asked for, all of it:
\* is_zygote_process and the policy in the builder, the capacity read by
\* set_vm_layout and the parameters read again by create_gc_trigger belong
\* together.  Later runtimes set other parameters and change nothing.
BuiltAsChosen ==
    singleton = "ready" =>
        instance = [zygote |-> first.zygote,
                    policy |-> Policy(first.sizes),
                    layout |-> Layout(first.sizes.max),
                    sizes  |-> first.sizes]

\* The heap of an instance holds the capacity and its slack, and a reference
\* to any part of it survives the 32 bits of a slot and is not null
\* (set_vm_layout with compress and decompress).
HeapAddressable ==
    singleton = "ready" =>
        LET start == instance.layout.heap_start
            end   == instance.layout.heap_end
        IN  /\ end - start >= instance.sizes.max + 5 * PagesInChunk
            /\ \A a \in {start, start + PagesInChunk, end - 1} :
                 decompress(compress(a)) = a
============================================================================
