# A TLA+ verification of the MMTk–ART binding

The binding (`mmtk/src/*.rs`, declared to C++ in `art/mmtk.h`) puts MMTk's
garbage collectors under the Android Runtime. It is a thin layer between two
large concurrent systems: mmtk-core above it (spaces, page accounting, work
packets, barriers) and ART below it (threads, object layout, references). The
state it keeps is small, but threads of both sides reach it in any order. These
modules model that state and the protocols around it, check them with TLC on
small instances, and prove their safety for instances of every size with TLAPS.

mmtk-core and ART are not part of the repository. Where a protocol needs them
they are modelled from how the binding uses them, in actions marked "external",
and only as far as the binding's own behaviour depends on them.

## 1. Inventory

| Component | State | Operations | Who calls it |
|---|---|---|---|
| GC trigger, `gc_trigger.rs` | six atomics in `ArtTrigger` | `is_gc_required`, `on_pending_allocation`, `on_gc_start`, `on_gc_end`, `grow_heap_on_jank_perceptible_switch`, `clear_growth_limit`, `clamp_growth_limit_inner`, `clamp_max_heap_size` | mutators in the allocation slow path, the GC, two ART threads |
| Weak references, `scanning.rs` | `CURRENT_WEAK_REF_PHASE` | `process_weak_refs` | mmtk-core, once per closure, until it answers false |
| Root reporting, `scanning.rs`, `api.rs` | who owns a buffer | the renew-buffer callbacks, `mmtk_release_rust_buffer`, `..._unchecked` | ART's root visitor, work packets |
| Object scanning, `object_scanning.rs`, `abi.rs` | none; loops over bitmaps and arrays | `scan_object`, sizes and offsets | every tracing worker |
| Barriers and mutators, `api.rs`, `lib.rs` | the mutator's buffers and log bits | post barriers, array copy, bind, flush, destroy | mutators |
| Collection upcalls, `collection.rs`, `active_plan.rs` | none | stop, resume, block, spawn, out of memory | mmtk-core |
| Startup, `api.rs`, `lib.rs` | `BUILDER`, `TRIGGER_INIT`, `SINGLETON`, two flags, `ART_POINTER_SIZE` | `mmtk_init`, `mmtk_set_heap_size`, `create_gc_trigger`, layout | ART's main thread, lazily any thread |
| Zygote and workers, `api.rs`, `collection.rs` | raw pointers to worker contexts; the rest in mmtk-core | spawn and start of workers, requests for collections, pre- and post-fork hooks | ART, mmtk-core |
| Allocation, `api.rs` | thread-local cursor and limit | `mmtk_alloc`, `mmtk_post_alloc`, get and set of the buffer | mutators, ART's fast path |
| Object model, `object_model.rs` | the header: forwarding pointer and bits; pinning bits | copy, sizes, forwarding, pinning | GC workers, ART |
| Heap iteration, `api.rs` | who owns a list | `mmtk_iterate_allocated_regions`, `mmtk_enumerate_large_objects` and their releases | ART's heap visitor |
| Queries, image spaces, statistics, tracing, reference glue | none of their own | forwarded calls | ART |

They interact through calls and upcalls (a table of C function pointers), the
atomics of the trigger, the mutators' buffers that the GC flushes, and the
`MMTK` instance.

**What is hard here.**

* *Interleavings.* A poll of `is_gc_required` is a sequence of separate loads,
  a weak exchange and a subtraction; several mutators are in it at once, and
  the process-state and growth-limit threads run in native code, so that they go
  on while the world is stopped.
* *State that outlives a collection.* The weak-reference phase, the cached
  foreground footprint, the pending pages and the log bits must all be right
  when the next collection, perhaps of another kind, begins.
* *Ownership across the language border.* Rust forgets a vector, C++ fills it, a
  work packet frees it, and in one build the buffer is not a vector at all.
* *Layout arithmetic.* Overflow bitmaps, gaps before 64-bit statics, alignment
  that depends on the pointer size.
* *Two copies of one value.* ART's compiled code bumps its own copy of a cursor
  that MMTk's allocator also moves and collections take back.
* *Order at startup and around forks.* The instance is built by whoever uses it
  first, from parameters set under two locks; GC workers hand their contexts
  over, stop for a fork and come back in two processes.
* *Races between GC workers.* Two workers reach an object at once, one copies it
  and reads its size through a class that the other is copying.
* *Termination.* The exchange loop, the repeated closures, and mutators that
  block until a collection ends.

There is no persistence and there are no messages over a network, so nothing is
lost, duplicated or recovered. Crashes appear as panics: the build has overflow
checks on (`Android.bp`), so a checked `+` aborts the process.

`PROJECT.json` lists every component with its status and every hazard with its
line and the properties that would catch it.

## 2. Modules

### GcTrigger, HeapBudget, MCGcTrigger, GcTriggerProofs

`GcTrigger` is the heart of the project. Its variables carry the names of the
fields of `ArtTrigger`; each access to an atomic is an action. A mutator's
control goes through `load_target`, `load_reserved`, `load_pending`,
`load_limit`, `cas`, `fetch_sub`, `plan`; a step either lets the request through
(`Allocate`) or asks for a collection and blocks (`on_pending_allocation`).
The GC goes through `grow_for_utilization`, where it first asks whether the
process is jank perceptible (`LoadMultiplier`), and `set_ideal_footprint`, whose
two loads of the growth limit are two steps. The process-state thread runs
`grow_heap_on_jank_perceptible_switch` and the growth-limit thread
`clear_growth_limit`, `clamp_growth_limit_inner` and `clamp_max_heap_size`.

* Pages are frames of a finite set, so that page counts are cardinalities and
  "the pages that several requests reserve" is a union, not a sum. Which frame
  is taken does not matter (`Lowest`).
* `pending_allocation` has the width of a `usize` (`UsizeMod`): `fetch_add` and
  `fetch_sub` wrap, the checked additions set `panicked`.
* The multipliers are fractions and the conversions from and to bytes and
  floating point truncate, as in the code. Rounding of `f64` beyond truncation
  is not modelled.
* mmtk-core reserves the pages of a request before it polls, clears the request
  when the mutator blocks, and serves one request for a collection with one
  collection; a collection frees any number of pages.
* `clamp_max_heap_size` takes `&mut self` and is called while nobody else uses the
  trigger (`api.rs:173`); its stores are one step, and its guard states that promise.
* `reserved_pages_before_gc` and the two concurrent-start fields are written and
  never read, and are left out.

`HeapBudget` says what this promises: pages are committed only up to a limit,
a collection commits none, and the limit does not fall. The refinement maps
`pages` to `Cardinality(used)` and `limit` to `Budget`, the capacity during the
one step by which `clear_growth_limit` raises the target before it raises the
limit, and the growth limit otherwise.

All accesses are `Relaxed`. The two stores of `clear_growth_limit` are the ones
whose order others might rely on, and they go to different atomics, so the
model lets others see them in either order: `ClearStoreTarget` then
`ClearStoreLimit`, or `ClearLimitFirst` then `ClearTargetLate`. The late store
overwrites whatever polls and collections have made of the target in between.

### WeakRefs, MCWeakRefs, WeakRefsProofs

A heap of objects, roots, reference objects of the four kinds and one weak
table; collections mark to a fixpoint, call `process_weak_refs`, and mark again
as long as it answers true. `FullWeakRefs` and `NurseryWeakRefs` are the two
branches of the function. What ART does in a phase (forward soft references,
clear, enqueue finalizers, sweep weak tables) is external.
Whether it is an emergency and whether this is the Zygote do not change during
a collection. In a nursery collection ART treats referents as strong. The runtime holds a
finalizer reference until it has been enqueued.

### RootBuffers, RootBuffersProofs

A scan visits any set of roots. ART's visitor asks for a buffer with a null pointer, fills it, hands it back for
the next one, and releases the last one. The module follows who owns which
vector, and in a `single_worker` build the mark stack that is lent instead.
The build is chosen in `Init`. VM-space objects travel in vectors and are
released by `mmtk_release_rust_buffer_unchecked` in both builds. There is one scan
at a time: scans in parallel packets have a visitor and a buffer each and share
nothing but the allocator.

Between scans ART's heap visitor may ask for the list of allocated regions and
the list of large objects (`Lend`, `Release`), vectors of the same allocator
that Rust has forgotten; it may hold them on into the next scan.

### ObjectScan, ObjectScanProofs

`scan_object` step by step: the klass slot, the tests on the class flags in
their order, the bitmap (one word or overflow), static references of resolved
classes, array elements, upcalls. `Init` chooses the object among the shapes
ART's class linker makes. A word of a bitmap is a number, shifted and masked as in
`visit_one_word`; `BitmapWord` is the one with the bits of given fields. The class
size computation (`compute_class_size`) is an operator. Its one
call (`abi.rs:598`) passes no static fields and finds where the static references begin;
class sizes with static fields come from ART's class linker, whose computation it
mirrors, so that the gaps of `ClassSizeIsTight` belong to classes that ART has made.
Slots and bitmap words are
offsets and indices: that the words lie at the end of the class object, at
`class_size - 4 * num_words` (`object_scanning.rs:48`), is taken as given.

### WriteBarrier, MCWriteBarrier, WriteBarrierProofs

Mutators bind, allocate, store, copy array slices, run the post barrier that
belongs to each write, flush and are destroyed; `stop_all_mutators` flushes
every bound mutator and the collection relies on what was flushed. Each write
and its barrier are two steps without a safepoint in between. The slice's
owner is unknown (`MemorySlice::object` is `None`), so that every slice that
starts outside the nursery is recorded. The pre barriers do nothing in
plans with an object barrier. What can be reached is defined as the least closed
set (`Closure`), which TLC finds among the few sets of a small heap and the
proofs use as it stands.

### ThreadLocal, ThreadLocalProofs

`allocator[m]` is the `bump_pointer` of a mutator's default allocator, `local[m]`
the copy in the thread's own storage. The fast path bumps only the copy. The
slow path writes the copy back (`mmtk_set_default_thread_local_cursor_limit`),
calls `mmtk_alloc`, which allocates in the buffer, acquires another, blocks for
a collection or runs out of memory, and reads the copy again. A collection
moves the survivors anywhere and resets the buffers of the mutators that
`ArtMutatorIterator` yields. The allocator behind `AllocationSemantics::Default`
is chosen in `Init`; for any but the two with a bump pointer both calls panic.
External, and assumed: ART's slow path makes the calls in this order, and ART
reads every thread's values again before the thread resumes.

### Startup, Process, MCProcess, ProcessProofs

`Startup` has the calls of ART's main thread (`mmtk_set_heap_size`, `mmtk_init`)
and the initializer of `SINGLETON`, with one action per lock taken or released.
`Process` adds the rest of a process's life: `mmtk_initialize_collection`,
worker contexts as they travel (`raw[w]`: pointers from `Box::into_raw`;
`alive[w]`: threads that made a `Box` of one again; `saved`: back in MMTk),
requests for collections, and the hooks around the Zygote's fork, after which
either the parent or the child is followed. Worker contexts are counted, not
just flagged, so that a context spawned twice would show.
External, and assumed: other threads use the instance only once `mmtk_init` has
set the options (until then ART has no thread that would), so that the two
groups of options that `mmtk_init` sets are one step; every runtime makes
all of its calls, in order; `mmtk_pre_zygote_fork` is called in the Zygote, after
its heap was compacted; collections are requested when there are workers; ART forks when the GC threads it created are gone;
the workers turn to a collection before they turn to stopping. The instance
records the parameters in `TRIGGER_INIT` for each kind of trigger, although
`create_gc_trigger` reads them only for the delegated one.

### ObjectModel, MCObjectModel, ObjectModelProofs

Words of four bytes at places of a heap: a class object that does not move
(`java.lang.Class`), a class and two instances. GC workers take slots from a
queue; the first to set the forwarding bits runs `copy` (size through the class,
allocation, the words, `post_copy`) and mmtk-core then writes the forwarding
pointer into the word of the old header that `LOCAL_FORWARDING_POINTER_SPEC`
names, over the monitor; others wait. Pinned objects stay where they are.
`before` remembers the heap as it was when the collection began.
The size of an object is read through several words of its class in one step with the
allocation: those words do not change, in the old place nor in the new one once it
can be reached. A header is its hash code and its forwarding bits apart from the
pointer; that a pointer at bit 32 and bits at 61 share a word is a matter of
mmtk-core's masks.
Where mmtk-core leaves an object in place it may still set its forwarding bits
for a moment; this is internal to it and not modelled.

## 3. Runs

All bounds are in the `.cfg` files. Deadlock is checked in every run.

| Run | Result | Shows |
|---|---|---|
| `trigger_limits` | pass, 3.6 million states | `TargetWithinLimit`, `UsedWithinLimit`, `RoomForPending`, `LimitInv`, `ImplementsHeapBudget` with two mutators, requests of one and two pages, growth-limit calls with their stores in either order, and the switch to the foreground |
| `trigger_three_mutators` | pass, 0.9 million | `TypeOK` and `UsedWithinLimit` while `pending_allocation` wraps (this takes three mutators: one waits, two subtract) |
| `trigger_liveness` | pass, 0.23 million | `PollEnds`, `BlockedResumes`, `LimitRestoredByGc`, with switches in both directions and clamps of the heap size |
| `trigger_jank_shrink` | violation | `JankGrowNeverShrinks` |
| `trigger_pending` | violation | `PendingIsAwaited` |
| `weakrefs` | pass, 0.85 million | `NoDangling`, `StartsAtPhase1`, `SoftKept`, `CollectionEnds` for all pairs of reference kinds |
| `root_buffers` | pass, 0.19 million | `WritesOwnBuffer`, `BuffersReturned`, `ReportedOnce` in both builds, with lists of the heap visitor held meanwhile |
| `object_scan` | pass, 0.45 million | `ScanIsExact`, `SlotsInside`, `ClassSizeIsTight`, `ScanEnds` |
| `write_barrier` | pass, 1.7 million | `NoDangling`, `OldToYoungRemembered`, `LoggedOnce` |
| `process` | pass, 35 thousand | `BuiltAsChosen`, `HeapAddressable`, `ContextOwnedOnce`, `ForksAlone`, `RequestsServed`, `MainReturns` |
| `thread_local` | pass, 0.53 million | `NoOverlap`, `BuffersExclusive` |
| `object_model` | pass, 1.2 million | `PublishedComplete`, `GraphPreserved`, `PinnedStays` |

Why the bounds suffice.

* *Trigger.* Four frames against a capacity of three pages and a growth limit of
  two, so that requests can overshoot each; free space between one and two
  pages, so that both ends of the clamp in `grow_for_utilization` and truncation
  of odd byte sizes happen; a multiplier of two, so that foreground and
  background sizes differ. Two mutators are enough to interleave polls; the
  theorems cover any number and any sizes. `trigger_liveness`
  clamps a limit of two pages to one, under the two that a collection in the
  background has cached. The violations use larger heaps, as they need a target
  above the cached footprint.
* *Weak references.* Two references and an object give chains of a reference
  to a reference, a finalizable object that holds another, and a referent that is
  interned. Sequences of collections are unbounded.
* *Root buffers.* Scans of none to five roots in buffers of two give last buffers
  that are empty, half full and exactly full; four vectors let packets and lists keep some while another is being
  filled.
* *Object scan.* Words of four bits and nine fields give the short bitmap, the
  field on the flag bit, and overflow bitmaps of two and three words; up to two
  statics of each size fill or miss each gap; both pointer sizes.
* *Barrier.* An array of two words and two objects: slices of one and two words,
  overlapping copies, a chain from old over young to young. Two writes between
  two collections (`MaxWrites`) let one thread log what the other writes again.

* *Process.* Two runtimes, so that the second meets the instance of the first,
  with parameters of equal and of different minimum and maximum, the largest
  capacity that is accepted and one beyond it; two other threads, which may
  build the instance and ask for collections; two workers, so that one may have
  stopped while the other has not. Any number of forks and collections. The heap
  starts where a 64-bit build puts it.
* *Thread-local buffers.* Six units of memory, objects of one and two, two
  threads: buffers with room left, exact fits, a heap too fragmented or too full.
* *Object model.* Two collections, as the second meets the headers that the first
  left; chains, a cycle, a reference to the class, two roots for one object;
  twelve and twenty bytes, which both need rounding up.

Each property of a passing run has a mutant in `PROJECT.json`, an operator
marked `Faulty` that changes one definition as a plausible bug would; under it
TLC finds the property violated.

**Fairness.** In `GcTrigger` the threads that are inside the trigger go on
(weak fairness of each mutator's poll, of the GC, of the two ART threads):
they are ordinary operating-system threads that hold no locks there. Strong
fairness of the successful exchange says that `compare_exchange_weak` does not
fail for ever when it is tried again and again with a value that agrees, which is
what the instruction promises. Nothing is assumed of when mutators allocate or
ART calls in. In `WeakRefs` the collector goes on (the GC workers are running
then), the mutators need not. `ObjectScan` is sequential code. In `Process` a
thread that has called in goes on, and so do the workers (weak fairness).
Strong fairness of `StartStopping` says that threads which ask for one
collection after the other cannot keep the workers from stopping for ever: the
worker that ends a collection looks for the next goal at once, before a thread
that has just been resumed asks again. Nothing is assumed of when ART calls.

## 4. Findings

* `trigger_jank_shrink`: a poll grows the target between the load and the
  exchange in `grow_heap_on_jank_perceptible_switch`; the retry no longer compares
  and lowers the target to the cached value.
* `trigger_pending`: two polls subtract the same pending pages and the counter
  wraps. `UsedWithinLimit` still holds then; what suffers is when collections
  are asked for, and the overflow check may abort (`trigger_three_mutators`).

Short of a finding, as the code says nothing of it: `clamp_max_heap_size` lowers the
capacity, the limit and the target, but not the cached foreground footprint
(`gc_trigger.rs:272`). When a collection in the background has cached three pages, the
heap is clamped to two and the process enters the foreground, three pages become the
target and a poll may commit the third, beyond the limit. The next collection
repairs the target (`LimitRestoredByGc`).

## 5. Proofs

Each theorem has the form `Spec => []P` (or an action property) and holds for
every value of the constants that the module's `ASSUME` allows: any number of
threads, objects, roots, buffers and workers, and any sizes. Except where noted
nothing is assumed beyond the types of the constants. The argument is always an
inductive invariant, a conjunction of named parts; TLC has checked each of them
on the instance of the run before it was proved. The invariant is preserved by a
lemma per action.

| Module | Theorem | States |
|---|---|---|
| `GcTriggerProofs` | `TypeCorrect` | `TypeOK`, with the wrapping counter in its width |
| | `LimitInvariant`, `TargetBounded`, `HeapBounded` | `LimitInv`, `TargetWithinLimit`, `UsedWithinLimit` |
| | `Refinement` | `Spec` implements `HeapBudget!Spec` |
| | `LimitRestored` | `LimitRestoredByGc`, an action property |
| | `PendingHasRoom` | `RoomForPending` |
| `ThreadLocalProofs` | `BuffersStayExclusive`, `ObjectsNeverOverlap` | `BuffersExclusive`, `NoOverlap` |
| `RootBuffersProofs` | `FillsOwnBuffer`, `NothingLeaks`, `RootsReportedOnce` | `WritesOwnBuffer`, `BuffersReturned`, `ReportedOnce` |
| `WeakRefsProofs` | `NothingDangles`, `PhaseStartsOver`, `SoftReferencesKept` | `NoDangling`, `StartsAtPhase1`, `SoftKept` (an action property) |
| `ProcessProofs` | `InstanceAsChosen`, `HeapInReach` | `BuiltAsChosen`, `HeapAddressable` and more |
| | `OneOwnerEach`, `ForksWhenAlone` | `ContextOwnedOnce`, `ForksAlone` |
| `WriteBarrierProofs` | `RememberedSetComplete`, `CollectionsAreSafe`, `ObjectsLoggedOnce` | `OldToYoungRemembered`, `NoDangling`, `LoggedOnce` |
| `ObjectModelProofs` | `Invariant`, `PublishedCopiesComplete`, `GraphSurvives`, `PinnedObjectsStay` | the invariant below, `PublishedComplete`, `GraphPreserved`, `PinnedStays` |
| `ObjectScanProofs` | `ScansAreExact`, `SlotsStayInside`, `ClassSizesTight` | `ScanIsExact`, `SlotsInside`, `ClassSizeIsTight` |

**Heap sizing.** The assumptions of `GcTrigger` are: initial size ≤ growth limit
≤ capacity; positive ratios with utilization at most one; a `usize` can count
the frames. `LimitInvariant`, `TargetBounded`, `HeapBounded` and `Refinement`
also assume `ClampSizes = {}`: `clamp_max_heap_size` may lower
the limit under the pages in use, and it leaves the cached foreground footprint
above the new limit, so that the next switch to the foreground may store a
target beyond it (section 4). `LimitRestored` and `PendingHasRoom` make
no such assumption; the first says what remains: the next collection repairs it.

`UsedWithinLimit` is not inductive: when a poll lets its request
through, the page count it compared is old, and other polls may have been
admitted since. `LimitInv` adds two parts. `ValuesWithinLimit` bounds every
value on its way into the target: the collection's and the process-state
thread's locals, and the polls' sums. `AdmittedFits` speaks of every bound *b*
not below the limit: the heap together with the requests of all polls that read
at most *b* reserved pages fits in *b*. It is inductive because a poll that
reads the reserved pages counts its own request and those of all polls that read
them earlier: if it reads at most *b*, then all of them together are at most *b*. The
quantification over *b* is needed because `clear_growth_limit` may raise the
limit between a poll's read and its comparison. The reordered stores need one
more part: while the store of the target is late, the limit is the capacity
already, so that the late value is within it. When a request is committed,
`ValuesWithinLimit` says that the count it read is within the limit, so it was
among the admitted ones for *b* = the limit.

`LimitRestored` needs only what the collection has compared with the limit
(`LimitInGc`), as the limit can only rise between the comparison and the store.
`PendingHasRoom` needs that no mutator polls while the collection resizes
(`RoomInv`), so that what was counted for the new target is still what is waited
for when it is capped; the room is compared with the growth limit in force then.

**Thread-local buffers.** `NoOverlap` follows from `BuffersExclusive`, which needs
that free memory holds no object, that a thread without a mutator has no buffer,
and that no thread is inside a call while the world is stopped, so that
what a thread bumps is never a copy of a buffer that a collection has taken back.

**Root buffers.** `OwnerInv` says which vectors Rust has forgotten: the one that
ART fills and the lists of the heap visitor, each a vector of its own; the mark
stack is lent exactly while it is the buffer. `CountInv` counts: a root is to be
visited, in the buffer, or reported, exactly one of them and exactly once.

**Weak references.** The heart is `MarkedClosed` with `FinalizersDone`: when
`process_weak_refs` answers false, no marked object leads to an unmarked one, as
finalizer references with unmarked referents were enqueued in the second
phase and all others are cleared. `PhaseReset` is the static between collections:
the last phase puts it back, a nursery collection does not move it.
`SoftForwarded` remembers what the first closure found.

**Startup and processes.** The constants: `HeapStart` is one of the two values of
`lib.rs:168` and `171`, and there is a worker. `OneInitializer`: one thread at most
runs the initializer, exactly while `SINGLETON` names it. `FirstBuilds`: until
it is done the first runtime is being created, and no other thread exists before
the main thread is past the options, so that nobody builds too early.
`ParametersSet` and `BuildProgress` follow the parameters into the builder and
the instance. The locks play no part in `BuiltAsChosen`; what protects the
parameters is that a second runtime can be created only when the instance is there.
(The locks matter to `MainReturns`.) `HeapInReach` proves more than
`HeapAddressable`, which looks at three pages: `EveryPageAddressable` is about all.
`OneOwner` gives each context exactly one owner once the first runtime is complete
and none before, which needs `LaterRuntimes`: a later runtime knows
that it is one when it comes to `mmtk_initialize_collection`. `GoalFits` says that the
workers stop working towards a fork exactly when MMTk has the last context.

**Write barrier.** Either of `OldToYoungRemembered` and `NoDangling` needs the other:
a nursery collection keeps what is referred to because references to the young
are remembered, and an allocation cannot bring about an unremembered reference
because none dangles. `LoggedOnce` is stated without counting (`AllLogged`) and
needs that what is logged is old with its log bit off (`LogBits`). `BuffersEmpty`
is why `mmtk_destroy_mutator` may drop the buffers, and why a collection may look
at the packets only. `WritesPending`: no barrier is due while the world is stopped.

**Object model.** For any number of workers, any roots and any heap of places; the
objects are the four of the model, with any references among them (`Graphs`).
During a collection the same object may be in two places, and the old one has lost its
header to a forwarding pointer. `Ident` says which object a place holds by
following that pointer; `Bodies` says that every place, old or marked,
refers to what ART stored, up to `Ident`, which no step changes. `Forwarding` and
`Unique` then give each object one old place and at most one copy. `Claims`: an
object between `being_forwarded` and `forwarded` belongs to exactly one worker,
whose new place nobody else has. `Copies` follows what that worker has done,
and that the size it read is right: the class it reads it through may be
half copied or moved already, but its words with the sizes are the same in both
places by the time a reference to it can be followed, and the forwarding pointer does
not overwrite them. `Tracing` and `Traced` are the tracing
invariant: a slot of a marked object is queued, or a worker is at it, or it leads
to a marked object; when the queue is empty and the workers idle, nothing that is
kept refers to what is freed, and `GraphPreserved` follows. `PublishedComplete` compares
a copy with what was at the old place when the collection began, word by word: the
hash code, with clear forwarding bits; the sizes of a class; and each reference,
as it was or already updated to where its object is now (`Follows`). `Snapshot` is
a second invariant, proved on top of the first: for each old place the record of
it has the header of the object, an old place that is not marked still holds the recorded
words behind the header, and the copy that a forwarding pointer leads to is a copy of
the record. A worker thus copies the recorded words, whatever other workers do, and
publishes a copy of the record; later stores into the copy keep `Follows`, as they
store where the old value is forwarded to. `Pins` is about the
identities ART remembers (`held`).

**Object scanning.** The invariant `Inv` has four parts. `Shape`: what `Init` may
choose. `Ascending`: slots are visited in strictly ascending order, so that none is
visited twice. `Control`: for each place in the code what its loop variables are; in
`visit_one_word` the bits of `ref_offsets` that are left stand for the fields from
`field_offset` to the end of the word, and `index` words are done. `Reported`: the
slots visited are those of the references before the place in hand. At the end the
place is behind everything, which is `ScanIsExact`; `SlotsInside` compares the
same sets with the sizes. One lemma per action carries `Inv` through it.

The bits of a word need two facts about numbers. That every set of fields has a
word (`BitsExist`) is an induction over the width; it is an argument about the set of
widths for which the statement holds (`SetInduction`), which has a least
exception by the library's `WFMin`. That powers of two double (`PowerStep`) is not
known to the provers; it follows from counting the subsets of a set (`FS_SUBSET`).
`ShapesAssumption` says that the number of bitmap words is less than
`2 ^ (WordBits - 1)`, or it would change the flag of the slow path above it; with words of 32
bits that is true of any class.

For the class sizes, references and the vtable end at a multiple of four, so that the
gap is nothing or four bytes (`ClassLayout`), and then the greedy loops are at
least as good as any other choice (`ShuffleBest`). The static fields lie behind the
vtable and before the bitmap (`StaticsPlaced`), and the scan comes to those of resolved
classes only, never of a placeholder, whose statics do not exist yet.

**Findings of the proofs.** `Fork` once had a CASE with overlapping guards, of which
TLC takes the first and TLA+ any; the proof of `ForksAlone` failed there, and the
action now says which. A union without parentheses in `ArrayObjects` was read
in two ways by the tools; it has them now.

*Only model-checked.* Liveness (`PollEnds`, `BlockedResumes`, `CollectionEnds`,
`ScanEnds`, `RequestsServed`, `MainReturns`), which is beyond the prover.

## 6. Not modelled

* `reference_glue.rs`: every method is unimplemented.
* Queries other than `mmtk_get_forwarded_object`, and the image-space calls:
  passed on to mmtk-core without state here. The casts of the shared instance to
  `&mut` (`api.rs:175`, `568`, `579`) rest on the caller's promise that nobody
  else uses it, which the models take.
* Perf counters, harness calls, tracing, profile dumps: output only.
* The debug check of `mmtk_array_copy_post`. Its overlap test (`api.rs:735`)
  holds for any two slices of at least one word, so that the comparison it
  guards does not run.
* `ss_no_gc_in_harness`, which replaces the capacity by 1 GB.
* Where ART maps its boot image. `lib.rs:164` says that it limits the heap to
  about 1788 MB, the assertion above it accepts 2 GB; `HeapAddressable` speaks of
  32-bit addresses only.
* Memory ordering beyond the stores of `clear_growth_limit`: the loads of one
  poll, and the accesses of the other threads of the trigger, keep their program
  order.
* Floating-point rounding beyond truncation.

## 7. Plan

The order is by how much goes wrong when the component does.

1. *Done:* the models of all components of section 2 with their runs.
2. *Done:* the proofs of section 5. Every invariant and every action property of a
   passing run is a theorem.
