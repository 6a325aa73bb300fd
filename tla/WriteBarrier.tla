---------------------------- MODULE WriteBarrier ----------------------------
(***************************************************************************)
(* References from old to young objects, from the barrier to the nursery   *)
(* collection: mmtk_object_reference_write_post and mmtk_array_copy_post   *)
(* (mmtk/src/api.rs) with ArtMemorySlice (mmtk/src/lib.rs), the life of a  *)
(* mutator (bind, flush, destroy), and stop_all_mutators and               *)
(* resume_mutators (mmtk/src/collection.rs).  The log bits, the buffers    *)
(* and the collection are mmtk-core's, suspension is ART's; they are       *)
(* external here.  Objects are numbered; object o is an array of Length[o] *)
(* words.  Object 1 is a root, and 0 is null.                              *)
(***************************************************************************)
EXTENDS Integers, FiniteSets, Sequences

CONSTANTS
    Mutators,     \* threads that bind a mutator
    Length,       \* words of each object, as a sequence
    MaxWrites     \* bound on the writes between two collections

ASSUME ObjectsAssumption ==
    Length \in Seq(Nat) /\ Length # <<>> /\ MaxWrites \in Nat

NumObjects == Len(Length)
Objects == 1 .. NumObjects
null == 0
Slots == UNION {{o} \X (0 .. Length[o] - 1) : o \in Objects}

VARIABLES
    heap,       \* heap[s]: the reference in slot s
    mature,     \* objects outside the nursery
    young,      \* objects in the nursery
    root,       \* root[m]: reference on the stack of m
    unlogged,   \* objects whose log bit says that a write must be remembered
    modbuf,     \* modbuf[m]: objects that m has logged since its last flush
    regions,    \* regions[m]: slots of the array slices that m has recorded
    packets,    \* what was flushed and is to be scanned by the collection
    pc,         \* pc[m]: control of m
    write,      \* write[m]: the write whose post barrier m has to run
    world,      \* control of the collection
    writes      \* writes since the last collection

vars == <<heap, mature, young, root, unlogged, modbuf, regions, packets, pc,
          write, world, writes>>

NoWrite == [kind |-> "none"]

\* What the slots of the objects in O refer to.
Targets(O) == {heap[s] : s \in {t \in Slots : t[1] \in O}} \ {null}

\* What can be reached from From through the objects in Through: the least set
\* that has From and the targets of those of its objects.
Contains(R, From, Through) ==
    From \ {null} \subseteq R /\ Targets(R \cap Through) \subseteq R
Closure(From, Through) ==
    {o \in Objects :
       \A R \in SUBSET Objects : Contains(R, From, Through) => o \in R}

Roots == {1} \cup {root[m] : m \in Mutators}
Reachable == Closure(Roots, Objects)
ReachableSlots ==
    LET reachable == Reachable IN {s \in Slots : s[1] \in reachable}

Init ==
    /\ heap = [s \in Slots |-> null]
    /\ mature = {1} /\ young = {} /\ unlogged = {1}
    /\ root = [m \in Mutators |-> null]
    /\ modbuf = [m \in Mutators |-> {}]
    /\ regions = [m \in Mutators |-> {}]
    /\ packets = [objects |-> {}, slots |-> {}]
    /\ pc = [m \in Mutators |-> "unbound"]
    /\ write = [m \in Mutators |-> NoWrite]
    /\ world = "running" /\ writes = 0

Runs(m) == pc[m] = "running" /\ world = "running"

Goto(m, label) == pc' = [pc EXCEPT ![m] = label]

(***************************************************************************)
(* Life of a mutator                                                       *)
(***************************************************************************)
\* Threads are not attached while the world is stopped.
mmtk_bind_mutator(m) ==
    /\ pc[m] = "unbound" /\ world = "running"
    /\ Goto(m, "running")
    /\ UNCHANGED <<heap, mature, young, root, unlogged, modbuf, regions,
                   packets, write, world, writes>>

\* Faulty: nothing is flushed.
FlushNothing(m) == UNCHANGED <<packets, modbuf, regions>>

\* Mutator::flush: the buffers of m become work for the collection.
Flush(m) ==
    /\ packets' = [objects |-> packets.objects \cup modbuf[m],
                   slots   |-> packets.slots \cup regions[m]]
    /\ modbuf' = [modbuf EXCEPT ![m] = {}]
    /\ regions' = [regions EXCEPT ![m] = {}]

\* A thread that leaves flushes its mutator first; it stays a mutator until
\* it is destroyed, and a collection may come in between.
mmtk_flush_mutator(m) ==
    /\ Runs(m)
    /\ Flush(m)
    /\ root' = [root EXCEPT ![m] = null]
    /\ Goto(m, "leaving")
    /\ UNCHANGED <<heap, mature, young, unlogged, write, world, writes>>

mmtk_destroy_mutator(m) ==
    /\ pc[m] = "leaving" /\ world = "running"
    /\ Goto(m, "unbound")
    /\ modbuf' = [modbuf EXCEPT ![m] = {}]
    /\ regions' = [regions EXCEPT ![m] = {}]
    /\ UNCHANGED <<heap, mature, young, root, unlogged, packets, write, world,
                   writes>>

(***************************************************************************)
(* What a mutator does to the heap (external)                              *)
(***************************************************************************)
Free == Objects \ (mature \cup young)

\* A new object is in the nursery, its log bit off; of the free ones of a
\* length any will do.
Allocate(m) ==
    /\ Runs(m)
    /\ \E o \in Free :
         /\ \A p \in Free : Length[p] = Length[o] => o <= p
         /\ young' = young \cup {o}
         /\ heap' = [s \in Slots |-> IF s[1] = o THEN null ELSE heap[s]]
         /\ root' = [root EXCEPT ![m] = o]
    /\ UNCHANGED <<mature, unlogged, modbuf, regions, packets, pc, write,
                   world, writes>>

Forget(m) ==
    /\ Runs(m) /\ root[m] # null
    /\ root' = [root EXCEPT ![m] = null]
    /\ UNCHANGED <<heap, mature, young, unlogged, modbuf, regions, packets, pc,
                   write, world, writes>>

Store(m) ==
    /\ Runs(m) /\ writes < MaxWrites
    /\ writes' = writes + 1
    /\ \E s \in ReachableSlots, target \in Reachable \cup {null} :
         /\ heap[s] # target
         /\ heap' = [heap EXCEPT ![s] = target]
         /\ write' = [write EXCEPT ![m] = [kind |-> "store", src |-> s[1]]]
    /\ Goto(m, "stored")
    /\ UNCHANGED <<mature, young, root, unlogged, modbuf, regions, packets,
                   world>>

\* System.arraycopy of count words between two arrays or within one, as
\* ArtMemorySlice::copy does it: as if through a copy of the source.
ArrayCopy(m) ==
    /\ Runs(m) /\ writes < MaxWrites
    /\ writes' = writes + 1
    /\ \E src, dst \in ReachableSlots : \E count \in 1 .. Length[src[1]] :
         /\ src[2] + count <= Length[src[1]]
         /\ dst[2] + count <= Length[dst[1]]
         /\ heap' = [s \in Slots |->
                       IF s \in {dst[1]} \X (dst[2] .. dst[2] + count - 1)
                         THEN heap[<<src[1], src[2] + s[2] - dst[2]>>]
                         ELSE heap[s]]
         /\ write' = [write EXCEPT ![m] =
                        [kind |-> "copy", dst |-> dst, count |-> count]]
    /\ Goto(m, "stored")
    /\ UNCHANGED <<mature, young, root, unlogged, modbuf, regions, packets,
                   world>>

(***************************************************************************)
(* Post barriers                                                           *)
(***************************************************************************)
\* mmtk-core's object barrier: the first write to an unlogged object logs it.
mmtk_object_reference_write_post(m) ==
    /\ pc[m] = "stored" /\ write[m].kind = "store"
    /\ IF write[m].src \in unlogged
         THEN /\ unlogged' = unlogged \ {write[m].src}
              /\ modbuf' = [modbuf EXCEPT ![m] = @ \cup {write[m].src}]
         ELSE UNCHANGED <<unlogged, modbuf>>
    /\ write' = [write EXCEPT ![m] = NoWrite]
    /\ Goto(m, "running")
    /\ UNCHANGED <<heap, mature, young, root, regions, packets, world, writes>>

\* Faulty: the slice lacks its last word.
SlotsButLast(dst, count) ==
    {dst[1]} \X (dst[2] .. dst[2] + count - 2)

\* The slots between the ends of the slice that ArtSlotIterator yields.
iter_slots(dst, count) ==
    {dst[1]} \X (dst[2] .. dst[2] + count - 1)

\* The slice says nothing of its object (MemorySlice::object is None), so that
\* every slice that starts outside the nursery is recorded.
mmtk_array_copy_post(m) ==
    /\ pc[m] = "stored" /\ write[m].kind = "copy"
    /\ regions' = IF write[m].dst[1] \in mature
                    THEN [regions EXCEPT ![m] =
                            @ \cup iter_slots(write[m].dst, write[m].count)]
                    ELSE regions
    /\ write' = [write EXCEPT ![m] = NoWrite]
    /\ Goto(m, "running")
    /\ UNCHANGED <<heap, mature, young, root, unlogged, modbuf, packets, world,
                   writes>>

(***************************************************************************)
(* The collection                                                          *)
(***************************************************************************)
\* Faulty: one mutator only is flushed.
FlushesOne(flushed) == \E m \in Mutators : flushed = {m}

\* for_all_mutators flushes every bound mutator.
FlushesAll(flushed) == flushed = {m \in Mutators : pc[m] # "unbound"}

\* suspend_mutators returns once every mutator is at a safepoint; there is
\* none between a write and its barrier.  Then the mutators are flushed.
stop_all_mutators ==
    /\ world = "running"
    /\ \A m \in Mutators : pc[m] # "stored"
    /\ \E flushed \in SUBSET Mutators :
         /\ FlushesAll(flushed)
         /\ packets' =
              [objects |-> packets.objects
                             \cup UNION {modbuf[m] : m \in flushed},
               slots   |-> packets.slots
                             \cup UNION {regions[m] : m \in flushed}]
         /\ modbuf' = [m \in Mutators |->
                         IF m \in flushed THEN {} ELSE modbuf[m]]
         /\ regions' = [m \in Mutators |->
                          IF m \in flushed THEN {} ELSE regions[m]]
    /\ world' = "collecting"
    /\ UNCHANGED <<heap, mature, young, root, unlogged, pc, write, writes>>

\* A nursery collection takes the roots and the packets for the only
\* references into the nursery; survivors become mature.  A full collection
\* traces everything and only turns the log bits on again.
Collect ==
    /\ world = "collecting"
    /\ \E nursery \in BOOLEAN :
         LET remembered ==
               {heap[s] : s \in {t \in Slots : \/ t[1] \in packets.objects
                                               \/ t \in packets.slots}}
             live == IF nursery
                       THEN mature \cup (young \cap
                              Closure(Roots \cup remembered, young))
                       ELSE Reachable
         IN  /\ mature' = live
             /\ heap' = [s \in Slots |->
                           IF s[1] \in live THEN heap[s] ELSE null]
             /\ unlogged' = ((unlogged \cup packets.objects
                                \cup (young \cap live)) \cap live)
    /\ young' = {}
    /\ packets' = [objects |-> {}, slots |-> {}]
    /\ world' = "resuming" /\ writes' = 0
    /\ UNCHANGED <<root, modbuf, regions, pc, write>>

resume_mutators ==
    /\ world = "resuming"
    /\ world' = "running"
    /\ UNCHANGED <<heap, mature, young, root, unlogged, modbuf, regions,
                   packets, pc, write, writes>>

Mutator(m) ==
    \/ mmtk_bind_mutator(m) \/ mmtk_flush_mutator(m) \/ mmtk_destroy_mutator(m)
    \/ Allocate(m) \/ Forget(m) \/ Store(m) \/ ArrayCopy(m)
    \/ mmtk_object_reference_write_post(m) \/ mmtk_array_copy_post(m)

Collector == stop_all_mutators \/ Collect \/ resume_mutators

Next == Collector \/ \E m \in Mutators : Mutator(m)

Spec == Init /\ [][Next]_vars

(***************************************************************************)
(* Properties                                                              *)
(***************************************************************************)
\* No collection frees an object that a live one still refers to, however
\* the writes, the barriers and the exits of threads fall around it: slots of
\* objects in the heap, and roots, refer to objects in the heap.
NoDangling ==
    /\ \A s \in Slots : s[1] \in mature \cup young =>
         heap[s] \in mature \cup young \cup {null}
    /\ \A m \in Mutators : root[m] \in mature \cup young \cup {null}

\* Every reference from an old object to a young one can be found by the next
\* nursery collection: its object is logged in a buffer or a packet, its slot
\* belongs to a recorded slice, or a thread still has to run the barrier of
\* the write (mmtk_object_reference_write_post, mmtk_array_copy_post).
Pending(s) ==
    \E m \in Mutators :
        \/ write[m].kind = "store" /\ write[m].src = s[1]
        \/ /\ write[m].kind = "copy" /\ write[m].dst[1] = s[1]
           /\ s[2] - write[m].dst[2] \in 0 .. write[m].count - 1
Remembered(s) ==
    \/ s[1] \in packets.objects \cup UNION {modbuf[m] : m \in Mutators}
    \/ s \in packets.slots \cup UNION {regions[m] : m \in Mutators}
OldToYoungRemembered ==
    \A s \in Slots :
        s[1] \in mature /\ heap[s] \in young => Remembered(s) \/ Pending(s)

\* A mature object whose log bit is off is in exactly one buffer or packet:
\* in none, its writes would never be remembered again; in two, it would be
\* scanned twice.
LoggedOnce ==
    \A o \in mature \ unlogged :
        Cardinality({m \in Mutators : o \in modbuf[m]})
          + (IF o \in packets.objects THEN 1 ELSE 0) = 1
=============================================================================
