----------------------------- MODULE GcTrigger -----------------------------
(***************************************************************************)
(* The ART heap-sizing policy of mmtk/src/gc_trigger.rs, one action per    *)
(* access to a shared atomic, with every thread that reaches it:           *)
(*  - the mutators, which poll is_gc_required from mmtk-core's allocation  *)
(*    slow path and report on_pending_allocation before they block;        *)
(*  - the GC, which calls on_gc_end (grow_for_utilization) while the       *)
(*    mutators are stopped;                                                *)
(*  - the ART thread that switches the process state                       *)
(*    (grow_heap_on_jank_perceptible_switch);                              *)
(*  - the ART thread that moves the growth limit.                          *)
(* The last two run in native code: stopping the mutators does not stop    *)
(* them.  Page accounting, the collection and the stopping of the mutators *)
(* belong to mmtk-core and ART and are external.  A page is a frame of     *)
(* Frames; page counts are cardinalities of sets of frames.                *)
(* reserved_pages_before_gc and the two concurrent-start fields are never  *)
(* read by the code and are left out.                                      *)
(***************************************************************************)
EXTENDS Integers, FiniteSets

CONSTANTS
    Mutators,          \* mutator threads
    Frames,            \* page frames of the address space, numbered
    RequestSizes,      \* page counts a mutator may ask for
    ProcessStates,     \* process states that ART may report
    LimitCalls,        \* growth-limit calls that ART may make
    ClampSizes,        \* arguments of clamp_max_heap_size, in bytes
    BytesInPage,       \* 1 << LOG_BYTES_IN_PAGE
    MinFreeBytes, MaxFreeBytes, InitialSizeBytes, CapacityBytes,
    GrowthLimitBytes,  \* ArtTriggerInit, in bytes
    UtilNum, UtilDen,  \* target_utilization = UtilNum / UtilDen
    FgNum, FgDen,      \* foreground_heap_growth_multiplier = FgNum / FgDen
    UsizeMod           \* 2^w for the width w of usize

ASSUME SizesAssumption ==
    /\ BytesInPage \in Nat \ {0}
    /\ {MinFreeBytes, MaxFreeBytes, InitialSizeBytes, CapacityBytes,
        GrowthLimitBytes} \subseteq Nat
    /\ ClampSizes \subseteq Nat
    /\ InitialSizeBytes <= GrowthLimitBytes
    /\ GrowthLimitBytes <= CapacityBytes

ASSUME RatiosAssumption ==
    /\ {UtilNum, UtilDen, FgNum, FgDen} \subseteq Nat \ {0}
    /\ UtilNum <= UtilDen

ASSUME FramesAssumption ==
    /\ Frames \subseteq Nat
    /\ IsFiniteSet(Frames)
    /\ RequestSizes \subseteq Nat \ {0}

ASSUME EnvironmentAssumption ==
    /\ ProcessStates \subseteq BOOLEAN
    /\ LimitCalls \subseteq {"clear", "clamp"}

\* A usize can count the pages of the address space.
ASSUME WidthAssumption ==
    UsizeMod \in Nat /\ Cardinality(Frames) < UsizeMod

VARIABLES
    capacity, growth_limit, target_footprint, pending_allocation,
    min_foreground_target_footprint,     \* ArtTrigger, in pages
    is_jank_perceptible,                 \* process state kept by mmtk-core
    used,                                \* frames committed to spaces
    gc_requested,                        \* the GC requester's flag
    panicked,                            \* an overflow check has aborted
    pc, request,                         \* per mutator: control, frames asked
    old_target, reserved_pages, pending, \* per mutator: locals of the poll
    gcpc, multiplier,                    \* GC: control, locals; multiplier is
    target_size, min_foreground,         \*   TRUE for that of the foreground
    jpc, jtarget, jnew,                  \* process-state thread
    lpc                                  \* growth-limit thread

limits   == <<capacity, growth_limit>>
trigger  == <<limits, target_footprint, pending_allocation,
              min_foreground_target_footprint>>
core     == <<is_jank_perceptible, used, gc_requested>>
locals   == <<old_target, reserved_pages, pending>>
mutators == <<pc, request, locals>>
sizes    == <<target_size, min_foreground>>
gc       == <<gcpc, multiplier, sizes>>
jank     == <<jpc, jtarget, jnew>>
vars     == <<trigger, core, mutators, gc, jank, lpc, panicked>>

(***************************************************************************)
(* Arithmetic                                                              *)
(***************************************************************************)
PagesIn(bytes) == bytes \div BytesInPage
min_free == PagesIn(MinFreeBytes)
max_free == PagesIn(MaxFreeBytes)

Larger(a, b)  == IF a < b THEN b ELSE a
Smaller(a, b) == IF a < b THEN a ELSE b

\* fetch_add and fetch_sub wrap; the + of the code is checked for overflow.
WrapAdd(a, b) == IF a + b < UsizeMod THEN a + b ELSE a + b - UsizeMod

\* Faulty: a subtraction that does not wrap.
WrapSubSigned(a, b) == a - b

WrapSub(a, b) == IF b <= a THEN a - b ELSE a - b + UsizeMod
Overflows(a, b) == a + b >= UsizeMod

\* pages as f64 * foreground_heap_growth_multiplier, truncated
Grown(pages) == (pages * FgNum) \div FgDen

\* pages as f64 * get_heap_growth_multiplier(jank_perceptible), truncated
Scaled(pages, jank_perceptible) ==
    IF jank_perceptible THEN Grown(pages) ELSE pages

\* get_heap_growth_multiplier(jank_perceptible) <= 1.0
MultiplierAtMostOne(jank_perceptible) == jank_perceptible => FgNum <= FgDen

\* The pages a full collection leaves free: the utilization goal, clamped.
FullGrowPages(pages) ==
    Larger(Smaller((pages * (UtilDen - UtilNum)) \div UtilNum, max_free),
           min_free)

(***************************************************************************)
(* Pages (external: mmtk-core's page accounting)                           *)
(***************************************************************************)
Polling == {"load_target", "load_reserved", "load_pending", "load_limit",
            "cas", "fetch_sub", "plan", "gc_required"}

\* Frames counted by get_reserved_pages: the committed ones and the requests
\* under way.  A blocked mutator's request has been cleared.
Reserved ==
    used \cup UNION {request[m] : m \in {k \in Mutators : pc[k] \in Polling}}
get_reserved_pages == Cardinality(Reserved)

\* The n lowest frames of F: which frames are taken does not matter.
Lowest(n, F) == {f \in F : Cardinality({g \in F : g < f}) < n}

Init ==
    /\ capacity = PagesIn(CapacityBytes)
    /\ growth_limit = PagesIn(GrowthLimitBytes)
    /\ target_footprint = PagesIn(InitialSizeBytes)
    /\ pending_allocation = 0
    /\ min_foreground_target_footprint = 0
    /\ is_jank_perceptible \in BOOLEAN
    /\ used = {} /\ gc_requested = FALSE /\ panicked = FALSE
    /\ pc = [m \in Mutators |-> "run"]
    /\ request = [m \in Mutators |-> {}]
    /\ old_target = [m \in Mutators |-> 0]
    /\ reserved_pages = [m \in Mutators |-> 0]
    /\ pending = [m \in Mutators |-> 0]
    /\ gcpc = "idle" /\ multiplier = FALSE /\ target_size = 0 /\ min_foreground = 0
    /\ jpc = "idle" /\ jtarget = 0 /\ jnew = 0
    /\ lpc = "idle"

(***************************************************************************)
(* Mutators: a poll of is_gc_required                                      *)
(***************************************************************************)
new_target(m) == reserved_pages[m] + pending[m]

\* Faulty: off by one.
FitsTargetPlusOne(m, pages) == reserved_pages[m] + pages <= old_target[m] + 1

\* The reserved pages and the pending ones fit the target that was loaded.
FitsTarget(m, pages) == reserved_pages[m] + pages <= old_target[m]

\* Faulty: the pending pages are left out.
ReservedFitsLimit(m) == reserved_pages[m] <= growth_limit

FitsLimit(m) == new_target(m) <= growth_limit

\* Faulty: the answer is true, but nobody asks for the collection.
DropRequest == UNCHANGED gc_requested

\* The slow path asks for a collection when the poll answers true.
RequestGc == gc_requested' = TRUE

\* Faulty: the stale target is tried again.
RetryExchange == "cas"

\* Where a failed exchange continues.
Retry == "load_target"

Goto(m, from, to) == pc[m] = from /\ pc' = [pc EXCEPT ![m] = to]

\* Locals end with the iteration of the loop.
Forget(m) ==
    /\ old_target' = [old_target EXCEPT ![m] = 0]
    /\ reserved_pages' = [reserved_pages EXCEPT ![m] = 0]
    /\ pending' = [pending EXCEPT ![m] = 0]

\* The slow path reserves the pages first, then polls.
ReservePages(m, n) ==
    /\ gcpc \in {"idle", "started"}
    /\ n <= Cardinality(Frames \ Reserved)
    /\ request' = [request EXCEPT ![m] = Lowest(n, Frames \ Reserved)]
    /\ Goto(m, "run", "load_target")
    /\ UNCHANGED <<trigger, core, locals, gc, jank, lpc, panicked>>

LoadTarget(m) ==
    /\ Goto(m, "load_target", "load_reserved")
    /\ old_target' = [old_target EXCEPT ![m] = target_footprint]
    /\ UNCHANGED <<trigger, core, request, reserved_pages, pending, gc, jank,
                   lpc, panicked>>

LoadReserved(m) ==
    /\ Goto(m, "load_reserved", "load_pending")
    /\ reserved_pages' = [reserved_pages EXCEPT ![m] = get_reserved_pages]
    /\ UNCHANGED <<trigger, core, request, old_target, pending, gc, jank,
                   lpc, panicked>>

\* pending_allocation is read and added; the sum is compared to old_target.
LoadPending(m) ==
    /\ Goto(m, "load_pending",
            IF FitsTarget(m, pending_allocation) THEN "plan" ELSE "load_limit")
    /\ pending' = [pending EXCEPT ![m] = pending_allocation]
    /\ panicked' = Overflows(reserved_pages[m], pending_allocation)
    /\ UNCHANGED <<trigger, core, request, old_target, reserved_pages, gc,
                   jank, lpc>>

WithinLimit(m) ==
    /\ FitsLimit(m)
    /\ Goto(m, "load_limit", "cas")
    /\ UNCHANGED <<trigger, core, request, locals, gc, jank, lpc, panicked>>

BeyondLimit(m) ==
    /\ ~FitsLimit(m)
    /\ Goto(m, "load_limit", "gc_required")
    /\ RequestGc
    /\ UNCHANGED <<trigger, is_jank_perceptible, used, request, locals, gc,
                   jank, lpc, panicked>>

CasOk(m) ==
    /\ target_footprint = old_target[m]
    /\ Goto(m, "cas", "fetch_sub")
    /\ target_footprint' = new_target(m)
    /\ UNCHANGED <<limits, pending_allocation, min_foreground_target_footprint,
                   core, request, locals, gc, jank, lpc, panicked>>

\* compare_exchange_weak may also fail when the values agree.
CasFail(m) ==
    /\ Goto(m, "cas", Retry)
    /\ Forget(m)
    /\ UNCHANGED <<trigger, core, request, gc, jank, lpc, panicked>>

FetchSub(m) ==
    /\ Goto(m, "fetch_sub", "plan")
    /\ pending_allocation' = WrapSub(pending_allocation, pending[m])
    /\ UNCHANGED <<limits, target_footprint, min_foreground_target_footprint,
                   core, request, locals, gc, jank, lpc, panicked>>

\* plan.collection_required may ask for a collection of its own.
PlanRequiresGc(m) ==
    /\ Goto(m, "plan", "gc_required")
    /\ RequestGc
    /\ UNCHANGED <<trigger, is_jank_perceptible, used, request, locals, gc,
                   jank, lpc, panicked>>

\* The poll answered false: the request is committed.
Allocate(m) ==
    /\ Goto(m, "plan", "run")
    /\ used' = used \cup request[m]
    /\ request' = [request EXCEPT ![m] = {}]
    /\ Forget(m)
    /\ UNCHANGED <<trigger, is_jank_perceptible, gc_requested, gc, jank, lpc,
                   panicked>>

\* The poll answered true: the request is cleared and reported as pending,
\* and the mutator blocks for the GC.
on_pending_allocation(m) ==
    /\ Goto(m, "gc_required", "blocked")
    /\ pending_allocation' =
           WrapAdd(pending_allocation, Cardinality(request[m]))
    /\ Forget(m)
    /\ UNCHANGED <<limits, target_footprint, min_foreground_target_footprint,
                   core, request, gc, jank, lpc, panicked>>

Poll(m) ==
    \/ LoadTarget(m) \/ LoadReserved(m) \/ LoadPending(m)
    \/ WithinLimit(m) \/ BeyondLimit(m) \/ CasOk(m) \/ CasFail(m)
    \/ FetchSub(m) \/ PlanRequiresGc(m) \/ Allocate(m)
    \/ on_pending_allocation(m)

(***************************************************************************)
(* The collection                                                          *)
(***************************************************************************)
GcGoto(from, to) == gcpc = from /\ gcpc' = to

\* on_gc_start runs before the mutators are stopped.
on_gc_start ==
    /\ gc_requested
    /\ GcGoto("idle", "started")
    /\ UNCHANGED <<trigger, core, mutators, multiplier, sizes, jank, lpc,
                   panicked>>

\* stop_all_mutators: no mutator enters the slow path any more ...
SuspendAll ==
    /\ GcGoto("started", "stopping")
    /\ UNCHANGED <<trigger, core, mutators, multiplier, sizes, jank, lpc,
                   panicked>>

\* ... and each has left its poll or has blocked; the request is served.
MutatorsStopped ==
    /\ \A m \in Mutators : pc[m] \in {"run", "blocked"}
    /\ GcGoto("stopping", "collect")
    /\ gc_requested' = FALSE
    /\ UNCHANGED <<trigger, is_jank_perceptible, used, mutators, multiplier,
                   sizes, jank, lpc, panicked>>

\* The collection keeps n of the committed pages.
Collect(n) ==
    /\ GcGoto("collect", "multiplier")
    /\ used' = Lowest(n, used)
    /\ UNCHANGED <<trigger, is_jank_perceptible, gc_requested, mutators,
                   multiplier, sizes, jank, lpc, panicked>>

\* grow_for_utilization loads the process state once, before the target.
LoadMultiplier ==
    /\ GcGoto("multiplier", "grow")
    /\ multiplier' = is_jank_perceptible
    /\ UNCHANGED <<trigger, core, mutators, sizes, jank, lpc, panicked>>

\* Faulty: no room is made for the pending pages.
NeverShort(size) == FALSE

\* The pages that size leaves free are fewer than the pending ones.
Short(size) == size - get_reserved_pages < pending_allocation

\* The heap size the collection decides on: size, or size with room for what
\* the blocked mutators wait for, and the size it would have decided on in
\* the foreground when growth pages are left free.  The mutators are stopped,
\* so that reserved and pending pages do not change meanwhile.
Resize(size, growth) ==
    /\ target_size' = IF Short(size) THEN size + pending_allocation ELSE size
    /\ panicked' = (Short(size) /\ Overflows(size, pending_allocation))
    /\ min_foreground' =
           IF MultiplierAtMostOne(multiplier) /\ growth > 0
             THEN get_reserved_pages + Grown(growth) ELSE 0
    /\ multiplier' = FALSE
    /\ UNCHANGED <<trigger, core, mutators, jank, lpc>>

\* grow_for_utilization after a full collection
GrowFull ==
    LET growth == FullGrowPages(get_reserved_pages)
    IN  /\ GcGoto("grow", "compare")
        /\ Resize(get_reserved_pages + Scaled(growth, multiplier), growth)

\* grow_for_utilization after a nursery collection: the target is lowered to
\* leave the adjusted max_free, or else read again and kept.
NurserySize == get_reserved_pages + Scaled(max_free, multiplier)

GrowNursery ==
    /\ NurserySize < target_footprint
    /\ GcGoto("grow", "compare")
    /\ Resize(NurserySize, max_free)

NurseryKeeps ==
    /\ NurserySize >= target_footprint
    /\ GcGoto("grow", "keep")
    /\ UNCHANGED <<trigger, core, mutators, multiplier, sizes, jank, lpc,
                   panicked>>

KeepTarget ==
    /\ GcGoto("keep", "compare")
    /\ Resize(Larger(get_reserved_pages, target_footprint), 0)

\* Faulty: the heap may grow to its capacity.
BeyondCapacity(size) == size > capacity

BeyondGrowthLimit(size) == size > growth_limit

\* set_ideal_footprint: compare with the growth limit, load it again, store.
CompareLimit ==
    /\ GcGoto("compare",
              IF BeyondGrowthLimit(target_size) THEN "cap" ELSE "store")
    /\ UNCHANGED <<trigger, core, mutators, multiplier, sizes, jank, lpc,
                   panicked>>

CapAtLimit ==
    /\ GcGoto("cap", "store")
    /\ target_size' = growth_limit
    /\ UNCHANGED <<trigger, core, mutators, multiplier, min_foreground, jank,
                   lpc, panicked>>

StoreTarget ==
    /\ GcGoto("store", "min_foreground")
    /\ target_footprint' = target_size
    /\ target_size' = 0
    /\ UNCHANGED <<limits, pending_allocation, min_foreground_target_footprint,
                   core, mutators, multiplier, min_foreground, jank, lpc,
                   panicked>>

\* Faulty: the cached foreground footprint is not capped.
UncappedForeground == min_foreground

CappedForeground == Smaller(min_foreground, growth_limit)

CapMinForeground ==
    /\ GcGoto("min_foreground", "end")
    /\ min_foreground' = CappedForeground
    /\ UNCHANGED <<trigger, core, mutators, multiplier, target_size, jank, lpc,
                   panicked>>

\* The stores that end on_gc_end, of which only the first is to a variable
\* that a running thread reads; the mutators then resume.
on_gc_end ==
    /\ GcGoto("end", "idle")
    /\ min_foreground_target_footprint' = min_foreground
    /\ min_foreground' = 0
    /\ pending_allocation' = 0
    /\ pc' = [m \in Mutators |-> "run"]
    /\ request' = [m \in Mutators |-> {}]
    /\ UNCHANGED <<limits, target_footprint, core, locals, multiplier,
                   target_size, jank, lpc, panicked>>

GcWorker ==
    \/ on_gc_start \/ SuspendAll \/ MutatorsStopped
    \/ \E n \in 0 .. Cardinality(used) : Collect(n)
    \/ LoadMultiplier \/ GrowFull \/ GrowNursery \/ NurseryKeeps \/ KeepTarget
    \/ CompareLimit \/ CapAtLimit \/ StoreTarget
    \/ CapMinForeground \/ on_gc_end

(***************************************************************************)
(* The process-state thread                                                *)
(***************************************************************************)
\* mmtk_set_is_jank_perceptible; entering the foreground grows the heap next.
SetIsJankPerceptible(b) ==
    /\ jpc = "idle" /\ is_jank_perceptible # b
    /\ is_jank_perceptible' = b
    /\ jpc' = IF b THEN "load" ELSE "idle"
    /\ UNCHANGED <<trigger, used, gc_requested, mutators, gc, jtarget, jnew,
                   lpc, panicked>>

\* grow_heap_on_jank_perceptible_switch
JankLoadTarget ==
    /\ jpc = "load" /\ jpc' = "compare"
    /\ jtarget' = target_footprint
    /\ UNCHANGED <<trigger, core, mutators, gc, jnew, lpc, panicked>>

JankCompare ==
    /\ jpc = "compare"
    /\ IF jtarget < min_foreground_target_footprint
         THEN jpc' = "load_min" /\ UNCHANGED jtarget
         ELSE jpc' = "idle" /\ jtarget' = 0
    /\ UNCHANGED <<trigger, core, mutators, gc, jnew, lpc, panicked>>

JankLoadMin ==
    /\ jpc = "load_min" /\ jpc' = "cas"
    /\ jnew' = min_foreground_target_footprint
    /\ UNCHANGED <<trigger, core, mutators, gc, jtarget, lpc, panicked>>

JankCasOk ==
    /\ jpc = "cas" /\ jpc' = "idle"
    /\ target_footprint = jtarget
    /\ target_footprint' = jnew
    /\ jtarget' = 0 /\ jnew' = 0
    /\ UNCHANGED <<limits, pending_allocation, min_foreground_target_footprint,
                   core, mutators, gc, lpc, panicked>>

\* The failed exchange returns the current value, which the loop does not
\* compare with the cached minimum again.
JankCasFail ==
    /\ jpc = "cas" /\ jpc' = "load_min"
    /\ target_footprint # jtarget
    /\ jtarget' = target_footprint /\ jnew' = 0
    /\ UNCHANGED <<trigger, core, mutators, gc, lpc, panicked>>

JankThread ==
    \/ JankLoadTarget \/ JankCompare \/ JankLoadMin \/ JankCasOk \/ JankCasFail

(***************************************************************************)
(* The growth-limit thread: the only writer of capacity and growth_limit,  *)
(* so that its loads of them are part of the steps that use them.          *)
(***************************************************************************)
\* clear_growth_limit
ClearCompare ==
    /\ "clear" \in LimitCalls
    /\ lpc = "idle"
    /\ lpc' = IF target_footprint = growth_limit /\ growth_limit < capacity
                THEN "store_target" ELSE "store_limit"
    /\ UNCHANGED <<trigger, core, mutators, gc, jank, panicked>>

ClearStoreTarget ==
    /\ lpc = "store_target" /\ lpc' = "store_limit"
    /\ target_footprint' = capacity
    /\ UNCHANGED <<limits, pending_allocation, min_foreground_target_footprint,
                   core, mutators, gc, jank, panicked>>

ClearStoreLimit ==
    /\ lpc = "store_limit" /\ lpc' = "idle"
    /\ growth_limit' = capacity
    /\ UNCHANGED <<capacity, target_footprint, pending_allocation,
                   min_foreground_target_footprint, core, mutators, gc, jank,
                   panicked>>

\* Both stores are Relaxed: the others may see the limit before the target.
ClearLimitFirst ==
    /\ lpc = "store_target" /\ lpc' = "late_target"
    /\ growth_limit' = capacity
    /\ UNCHANGED <<capacity, target_footprint, pending_allocation,
                   min_foreground_target_footprint, core, mutators, gc, jank,
                   panicked>>

ClearTargetLate ==
    /\ lpc = "late_target" /\ lpc' = "idle"
    /\ target_footprint' = capacity
    /\ UNCHANGED <<limits, pending_allocation, min_foreground_target_footprint,
                   core, mutators, gc, jank, panicked>>

clamp_growth_limit ==
    /\ "clamp" \in LimitCalls
    /\ lpc = "idle"
    /\ capacity' = growth_limit
    /\ UNCHANGED <<growth_limit, target_footprint, pending_allocation,
                   min_foreground_target_footprint, core, mutators, gc, jank,
                   lpc, panicked>>

\* The caller of mmtk_clamp_max_heap_size guarantees that nobody else uses
\* the heap.  set_ideal_footprint finds the limit that has just been stored.
clamp_max_heap_size(bytes) ==
    /\ lpc = "idle" /\ jpc = "idle" /\ gcpc = "idle" /\ ~gc_requested
    /\ \A m \in Mutators : pc[m] = "run"
    /\ capacity' = PagesIn(bytes)
    /\ growth_limit' = PagesIn(bytes)
    /\ target_footprint' = PagesIn(bytes)
    /\ UNCHANGED <<pending_allocation, min_foreground_target_footprint, core,
                   mutators, gc, jank, lpc, panicked>>

LimitThread ==
    \/ ClearStoreTarget \/ ClearStoreLimit
    \/ ClearLimitFirst \/ ClearTargetLate

(***************************************************************************)
(* Specification                                                           *)
(***************************************************************************)
Next ==
    \/ /\ ~panicked
       /\ \/ \E m \in Mutators, n \in RequestSizes : ReservePages(m, n)
          \/ \E m \in Mutators : Poll(m)
          \/ GcWorker
          \/ \E b \in ProcessStates : SetIsJankPerceptible(b)
          \/ JankThread
          \/ ClearCompare \/ LimitThread \/ clamp_growth_limit
          \/ \E bytes \in ClampSizes : clamp_max_heap_size(bytes)
    \/ panicked /\ UNCHANGED vars  \* the process has aborted

Spec == Init /\ [][Next]_vars

(***************************************************************************)
(* Properties                                                              *)
(***************************************************************************)
\* Every field and local is a page count of its width, and control is at one
\* of the points of the code.  The wrapping arithmetic of pending_allocation
\* (on_pending_allocation, is_gc_required) stays within a usize.
TypeOK ==
    /\ {capacity, growth_limit, target_footprint, target_size,
        min_foreground_target_footprint, min_foreground, jtarget, jnew}
         \subseteq Nat
    /\ pending_allocation \in 0 .. UsizeMod - 1
    /\ {is_jank_perceptible, gc_requested, panicked, multiplier} \subseteq BOOLEAN
    /\ used \subseteq Frames
    /\ pc \in [Mutators -> Polling \cup {"run", "blocked"}]
    /\ request \in [Mutators -> SUBSET Frames]
    /\ old_target \in [Mutators -> Nat]
    /\ reserved_pages \in [Mutators -> 0 .. UsizeMod - 1]
    /\ pending \in [Mutators -> 0 .. UsizeMod - 1]
    /\ gcpc \in {"idle", "started", "stopping", "collect", "multiplier",
                 "grow", "keep", "compare", "cap", "store", "min_foreground", "end"}
    /\ jpc \in {"idle", "load", "compare", "load_min", "cas"}
    /\ lpc \in {"idle", "store_target", "store_limit", "late_target"}

\* The limit in force: clear_growth_limit raises the target to the capacity
\* one store before it raises the growth limit.
Budget == IF lpc = "store_limit" THEN capacity ELSE growth_limit

\* "growth limit <= capacity", and the target footprint never exceeds the
\* limit in force, whatever polls, GC ends, process-state switches and
\* growth-limit calls interleave (while the maximum heap size is not clamped).
TargetWithinLimit ==
    /\ growth_limit <= capacity
    /\ target_footprint <= Budget

\* The heap never holds more pages than the limit in force: polls that read
\* stale targets, reservations or limits still admit no page too many.
UsedWithinLimit == Cardinality(used) <= Budget

\* The requests of the polls that have read the reserved pages and found no
\* more than b of them.
Admitted(b) ==
    UNION {request[m] : m \in {k \in Mutators :
             /\ pc[k] \in {"load_pending", "load_limit", "cas", "fetch_sub",
                           "plan"}
             /\ reserved_pages[k] <= b}}

\* Every value on its way into the target is within the limit in force.
ValuesWithinLimit ==
    /\ TargetWithinLimit
    /\ min_foreground_target_footprint <= growth_limit
    /\ lpc = "late_target" => growth_limit = capacity
    /\ gcpc = "store" => target_size <= growth_limit
    /\ gcpc = "end" => min_foreground <= growth_limit
    /\ jnew <= growth_limit
    /\ \A m \in Mutators :
         /\ old_target[m] <= Budget
         /\ pc[m] = "cas" => new_target(m) <= growth_limit
         /\ pc[m] \in {"fetch_sub", "plan"} => reserved_pages[m] <= Budget

\* For every bound b that is not below the limit, the heap together with all
\* requests that were judged against at most b reserved pages fits in b.
AdmittedFits ==
    \A b \in 0 .. Cardinality(Frames) :
        b >= Budget => Cardinality(used \cup Admitted(b)) <= b

\* Why the heap stays within the limit although every value that a poll of
\* is_gc_required compares may be stale: each poll has counted the requests
\* of those that read the reserved pages before it.
LimitInv == ValuesWithinLimit /\ AdmittedFits

\* The target that a collection has decided on when it comes to store it has
\* room for everything it leaves and everything the blocked mutators wait
\* for, up to the growth limit then in force (grow_for_utilization,
\* set_ideal_footprint).
RoomForPending ==
    [][gcpc' = "store" /\ gcpc' # gcpc =>
         target_size' >= Smaller(get_reserved_pages + pending_allocation,
                                 growth_limit)]_vars

\* A collection brings the heap back under the limit that a clamp of the
\* maximum heap size has left: the target footprint and the cached foreground
\* footprint that on_gc_end stores are within the growth limit.
LimitRestoredByGc ==
    [][/\ gcpc = "store" /\ gcpc' # gcpc => target_footprint' <= growth_limit
       /\ gcpc = "end" /\ gcpc' # gcpc =>
             min_foreground_target_footprint' <= growth_limit]_vars

\* pending_allocation counts pages that blocked mutators wait for
\* ("Number of pages that are pending allocation").
PendingIsAwaited ==
    pending_allocation <=
        Cardinality(UNION {request[m] \X {m} :
                             m \in {k \in Mutators : pc[k] = "blocked"}})

\* "Increase heap size when the application transitions to a jank perceptible
\* state": the exchange of grow_heap_on_jank_perceptible_switch never lowers
\* the target footprint.
JankGrowNeverShrinks ==
    [][jpc = "cas" /\ jpc' = "idle" => target_footprint' >= target_footprint]_vars

\* The detailed protocol implements the abstract budget.
Heap == INSTANCE HeapBudget WITH pages <- Cardinality(used), limit <- Budget
ImplementsHeapBudget == Heap!Spec

(***************************************************************************)
(* Liveness.  Every thread that is inside the trigger keeps running; a     *)
(* weak exchange does not fail spuriously for ever.  Nothing is assumed of *)
(* when mutators allocate or when ART calls in.                            *)
(***************************************************************************)
Running(A) == ~panicked /\ A

Fairness ==
    /\ \A m \in Mutators :
         WF_vars(Running(Poll(m))) /\ SF_vars(Running(CasOk(m)))
    /\ WF_vars(Running(GcWorker))
    /\ WF_vars(Running(JankThread))
    /\ WF_vars(Running(LimitThread))

FairSpec == Spec /\ Fairness

\* Every poll of is_gc_required comes to an end: the retry loop of the
\* exchange does not spin for ever against the other threads.
PollEnds ==
    \A m \in Mutators :
        pc[m] = "load_target" ~> (pc[m] \in {"run", "blocked"} \/ panicked)

\* Every mutator that blocks for a GC runs again.
BlockedResumes ==
    \A m \in Mutators : pc[m] = "blocked" ~> (pc[m] = "run" \/ panicked)

============================================================================
