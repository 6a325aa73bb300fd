------------------------ MODULE WriteBarrierProofs ------------------------
(***************************************************************************)
(* Proofs about WriteBarrier: every reference from an old object to a      *)
(* young one is remembered, old objects are logged once, and no collection *)
(* frees what is still referred to, for every number of mutators and       *)
(* objects and every length of arrays.                                     *)
(***************************************************************************)
EXTENDS WriteBarrier, FiniteSetTheorems, TLAPS

(***************************************************************************)
(* The inductive invariant                                                 *)
(***************************************************************************)
StoreWrites == [kind : {"store"}, src : Objects]
CopyWrites  == {w \in [kind : {"copy"}, dst : Slots, count : Nat] :
                  w.dst[2] + w.count <= Length[w.dst[1]]}

\* The variables have their types.
TypeOK ==
    /\ heap \in [Slots -> Objects \cup {null}]
    /\ mature \subseteq Objects /\ young \subseteq Objects
    /\ unlogged \subseteq Objects
    /\ root \in [Mutators -> Objects \cup {null}]
    /\ modbuf \in [Mutators -> SUBSET Objects]
    /\ regions \in [Mutators -> SUBSET Slots]
    /\ packets \in [objects : SUBSET Objects, slots : SUBSET Slots]
    /\ pc \in [Mutators -> {"unbound", "running", "leaving", "stored"}]
    /\ write \in [Mutators -> {NoWrite} \cup StoreWrites \cup CopyWrites]
    /\ world \in {"running", "collecting", "resuming"}

\* The nursery and the rest of the heap are apart; the root object is old.
Spaces == 1 \in mature /\ mature \cap young = {}

\* A write waits for its barrier exactly while its thread is between the two,
\* and there is no such thread while the world is stopped.
WritesPending ==
    /\ \A m \in Mutators : pc[m] # "stored" => write[m] = NoWrite
    /\ world # "running" => \A m \in Mutators : pc[m] # "stored"

\* A thread that is not running has nothing in its buffers, and nor has any
\* thread while the collection takes place.
BuffersEmpty ==
    \A m \in Mutators :
        pc[m] \in {"unbound", "leaving"} \/ world = "collecting" =>
            modbuf[m] = {} /\ regions[m] = {}

\* What is logged is old and its log bit is off.
LogBits ==
    /\ unlogged \subseteq mature
    /\ packets.objects \subseteq mature \ unlogged
    /\ \A m \in Mutators : modbuf[m] \subseteq mature \ unlogged

\* An old object whose log bit is off has been flushed, or one mutator has it.
Logged(o) ==
    \/ o \in packets.objects /\ \A m \in Mutators : o \notin modbuf[m]
    \/ /\ o \notin packets.objects
       /\ \E m \in Mutators :
            o \in modbuf[m] /\ \A k \in Mutators : o \in modbuf[k] => k = m
AllLogged == \A o \in mature \ unlogged : Logged(o)

Inv ==
    /\ TypeOK /\ Spaces /\ WritesPending /\ BuffersEmpty /\ LogBits /\ AllLogged
    /\ OldToYoungRemembered /\ NoDangling

(***************************************************************************)
(* Slots and what can be reached                                           *)
(***************************************************************************)
\* Lengths of objects are numbers.
LEMMA Lengths == 1 \in Objects /\ 0 \notin Objects
                 /\ \A o \in Objects : Length[o] \in Nat
  BY ObjectsAssumption DEF Objects, NumObjects

\* A slot is a pair of an object and the index of one of its words.
LEMMA SlotPairs ==
    /\ \A s \in Slots : /\ s = <<s[1], s[2]>> /\ s[1] \in Objects
                        /\ s[2] \in 0 .. Length[s[1]] - 1
    /\ \A o \in Objects : \A i \in 0 .. Length[o] - 1 : <<o, i>> \in Slots
  BY DEF Slots

\* What can be reached has the roots and is closed.
LEMMA ClosureClosed ==
    ASSUME NEW From, From \subseteq Objects \cup {null}, NEW Through, TypeOK
    PROVE  /\ From \ {null} \subseteq Closure(From, Through)
           /\ \A s \in Slots : s[1] \in Closure(From, Through) \cap Through =>
                  heap[s] \in Closure(From, Through) \cup {null}
  <1> DEFINE C == Closure(From, Through)
  <1>1. From \ {null} \subseteq C
    BY DEF Closure, Contains
  <1>2. ASSUME NEW s \in Slots, s[1] \in C \cap Through, heap[s] # null
        PROVE  heap[s] \in C
    <2>1. heap[s] \in Objects
      BY <1>2 DEF TypeOK
    <2>2. ASSUME NEW R \in SUBSET Objects, Contains(R, From, Through)
          PROVE  heap[s] \in R
      <3>1. s[1] \in R \cap Through
        BY <1>2, <2>2 DEF Closure
      <3>2. heap[s] \in Targets(R \cap Through)
        BY <1>2, <3>1 DEF Targets
      <3> QED BY <2>2, <3>2 DEF Contains
    <2> QED BY <2>1, <2>2 DEF Closure
  <1> QED BY <1>1, <1>2

\* And it is the least such set.
LEMMA ClosureLeast ==
    ASSUME NEW From, NEW Through, NEW R \in SUBSET Objects,
           From \ {null} \subseteq R,
           \A s \in Slots : s[1] \in R \cap Through => heap[s] \in R \cup {null}
    PROVE  Closure(From, Through) \subseteq R
  <1>1. Targets(R \cap Through) \subseteq R
    BY DEF Targets
  <1> QED BY <1>1 DEF Closure, Contains

\* Mutators reach nothing but what is in the heap.
LEMMA ReachableInHeap ==
    ASSUME TypeOK, Spaces, NoDangling
    PROVE  Reachable \subseteq mature \cup young
  <1>1. mature \cup young \in SUBSET Objects
    BY DEF TypeOK
  <1>2. Roots \ {null} \subseteq mature \cup young
    BY DEF Roots, Spaces, NoDangling
  <1>3. \A s \in Slots : s[1] \in (mature \cup young) \cap Objects =>
            heap[s] \in mature \cup young \cup {null}
    BY DEF NoDangling
  <1> QED BY <1>1, <1>2, <1>3, ClosureLeast DEF Reachable

LEMMA RootsTyped == TypeOK => Roots \subseteq Objects \cup {null}
  BY Lengths DEF TypeOK, Roots

(***************************************************************************)
(* Life of a mutator                                                       *)
(***************************************************************************)
\* A step that changes nothing of the heap and of what is remembered.
LEMMA MemoryUntouched ==
    ASSUME Inv, UNCHANGED <<heap, mature, young, unlogged, modbuf, regions,
                            packets, write>>
    PROVE  Spaces' /\ LogBits' /\ AllLogged' /\ OldToYoungRemembered'
  <1>1. Spaces' /\ LogBits'
    BY DEF Inv, Spaces, LogBits
  <1>2. AllLogged'
    BY DEF Inv, AllLogged, Logged
  <1>3. OldToYoungRemembered'
    BY DEF Inv, OldToYoungRemembered, Remembered, Pending
  <1> QED BY <1>1, <1>2, <1>3

LEMMA BindStep ==
    ASSUME Inv, NEW m \in Mutators, mmtk_bind_mutator(m)
    PROVE  Inv'
  <1>1. /\ pc[m] = "unbound" /\ world = "running"
        /\ pc' = [pc EXCEPT ![m] = "running"]
        /\ UNCHANGED <<heap, mature, young, root, unlogged, modbuf, regions,
                       packets, write, world>>
    BY DEF mmtk_bind_mutator, Goto
  <1>2. TypeOK'
    BY <1>1 DEF Inv, TypeOK
  <1>3. WritesPending' /\ BuffersEmpty'
    BY <1>1 DEF Inv, TypeOK, WritesPending, BuffersEmpty
  <1>4. NoDangling'
    BY <1>1 DEF Inv, NoDangling
  <1> QED BY <1>1, <1>2, <1>3, <1>4, MemoryUntouched DEF Inv

\* What a mutator has recorded is in its packet afterwards, and in no other.
LEMMA FlushStep ==
    ASSUME Inv, NEW m \in Mutators, mmtk_flush_mutator(m)
    PROVE  Inv'
  <1>1. /\ pc[m] = "running" /\ world = "running"
        /\ pc' = [pc EXCEPT ![m] = "leaving"]
        /\ root' = [root EXCEPT ![m] = null]
        /\ packets' = [objects |-> packets.objects \cup modbuf[m],
                       slots   |-> packets.slots \cup regions[m]]
        /\ modbuf' = [modbuf EXCEPT ![m] = {}]
        /\ regions' = [regions EXCEPT ![m] = {}]
        /\ UNCHANGED <<heap, mature, young, unlogged, write, world>>
    BY DEF mmtk_flush_mutator, Runs, Flush, Goto
  <1>2. /\ packets'.objects = packets.objects \cup modbuf[m]
        /\ packets'.slots = packets.slots \cup regions[m]
        /\ \A k \in Mutators : modbuf'[k] = IF k = m THEN {} ELSE modbuf[k]
        /\ \A k \in Mutators : regions'[k] = IF k = m THEN {} ELSE regions[k]
    BY <1>1 DEF Inv, TypeOK
  <1>3. TypeOK'
    BY <1>1 DEF Inv, TypeOK
  <1>4. Spaces' /\ WritesPending' /\ BuffersEmpty'
    BY <1>1, <1>2 DEF Inv, TypeOK, Spaces, WritesPending, BuffersEmpty
  <1>5. LogBits'
    BY <1>1, <1>2 DEF Inv, LogBits
  <1>6. AllLogged'
    BY <1>1, <1>2 DEF Inv, AllLogged, Logged
  <1>7. OldToYoungRemembered'
    <2>1. \A s \in Slots : Remembered(s) => Remembered(s)'
      BY <1>2 DEF Remembered
    <2>2. \A s \in Slots : Pending(s) => Pending(s)'
      BY <1>1 DEF Pending
    <2> QED BY <1>1, <2>1, <2>2 DEF Inv, OldToYoungRemembered
  <1>8. NoDangling'
    BY <1>1 DEF Inv, TypeOK, NoDangling
  <1> QED BY <1>3, <1>4, <1>5, <1>6, <1>7, <1>8 DEF Inv

\* A mutator that is destroyed has nothing left to flush.
LEMMA DestroyStep ==
    ASSUME Inv, NEW m \in Mutators, mmtk_destroy_mutator(m)
    PROVE  Inv'
  <1>1. /\ pc[m] = "leaving"
        /\ pc' = [pc EXCEPT ![m] = "unbound"]
        /\ modbuf' = [modbuf EXCEPT ![m] = {}]
        /\ regions' = [regions EXCEPT ![m] = {}]
        /\ UNCHANGED <<heap, mature, young, root, unlogged, packets, write, world>>
    BY DEF mmtk_destroy_mutator, Goto
  <1>2. modbuf' = modbuf /\ regions' = regions
    BY <1>1 DEF Inv, TypeOK, BuffersEmpty
  <1>3. TypeOK'
    BY <1>1, <1>2 DEF Inv, TypeOK
  <1>4. WritesPending' /\ BuffersEmpty'
    BY <1>1, <1>2 DEF Inv, TypeOK, WritesPending, BuffersEmpty
  <1>5. NoDangling'
    BY <1>1 DEF Inv, NoDangling
  <1> QED BY <1>1, <1>2, <1>3, <1>4, <1>5, MemoryUntouched DEF Inv

LEMMA ForgetStep ==
    ASSUME Inv, NEW m \in Mutators, Forget(m)
    PROVE  Inv'
  <1>1. /\ root' = [root EXCEPT ![m] = null]
        /\ UNCHANGED <<heap, mature, young, unlogged, modbuf, regions, packets,
                       pc, write, world>>
    BY DEF Forget
  <1>2. TypeOK'
    BY <1>1 DEF Inv, TypeOK
  <1>3. WritesPending' /\ BuffersEmpty'
    BY <1>1 DEF Inv, WritesPending, BuffersEmpty
  <1>4. NoDangling'
    BY <1>1 DEF Inv, TypeOK, NoDangling
  <1> QED BY <1>1, <1>2, <1>3, <1>4, MemoryUntouched DEF Inv

(***************************************************************************)
(* Writes                                                                  *)
(***************************************************************************)
\* A new object refers to nothing, and nothing refers to it.
LEMMA AllocateStep ==
    ASSUME Inv, NEW m \in Mutators, Allocate(m)
    PROVE  Inv'
  <1>1. PICK o \in Free :
            /\ young' = young \cup {o}
            /\ heap' = [s \in Slots |-> IF s[1] = o THEN null ELSE heap[s]]
            /\ root' = [root EXCEPT ![m] = o]
    BY DEF Allocate
  <1>2. UNCHANGED <<mature, unlogged, modbuf, regions, packets, pc, write, world>>
    BY DEF Allocate
  <1>3. o \in Objects /\ o \notin mature /\ o \notin young /\ o # null
    BY Lengths DEF Free, null
  <1>4. TypeOK'
    BY <1>1, <1>2, <1>3 DEF Inv, TypeOK
  <1>5. Spaces' /\ WritesPending' /\ BuffersEmpty'
    BY <1>1, <1>2, <1>3 DEF Inv, Spaces, WritesPending, BuffersEmpty
  <1>6. LogBits' /\ AllLogged'
    BY <1>2 DEF Inv, LogBits, AllLogged, Logged
  <1>7. OldToYoungRemembered'
    <2> SUFFICES ASSUME NEW s \in Slots, s[1] \in mature, heap'[s] \in young'
                 PROVE  Remembered(s)' \/ Pending(s)'
      BY <1>2 DEF OldToYoungRemembered
    <2>1. heap'[s] = heap[s]
      BY <1>1, <1>3
    <2>2. heap[s] \in young
      BY <1>1, <1>3, <2>1 DEF Inv, NoDangling
    <2>3. Remembered(s) \/ Pending(s)
      BY <2>2 DEF Inv, OldToYoungRemembered
    <2> QED BY <2>3, <1>2 DEF Remembered, Pending
  <1>8. NoDangling'
    BY <1>1, <1>2, <1>3 DEF Inv, TypeOK, NoDangling
  <1> QED BY <1>4, <1>5, <1>6, <1>7, <1>8 DEF Inv

\* A thread that writes has no other write waiting for its barrier, so that what is
\* remembered or waits stays so; the slots it writes wait from now on.
LEMMA WriteStep ==
    ASSUME Inv, NEW m \in Mutators, Runs(m), TypeOK', NoDangling',
           NEW w, write' = [write EXCEPT ![m] = w],
           pc' = [pc EXCEPT ![m] = "stored"],
           UNCHANGED <<mature, young, unlogged, modbuf, regions, packets, world>>,
           \A s \in Slots : heap'[s] = heap[s] \/ Pending(s)'
    PROVE  Inv'
  <1>1. pc[m] = "running" /\ world = "running" /\ write[m] = NoWrite
    BY DEF Runs, Inv, WritesPending
  <1>2. Spaces' /\ WritesPending' /\ BuffersEmpty'
    BY <1>1 DEF Inv, TypeOK, Spaces, WritesPending, BuffersEmpty
  <1>3. LogBits' /\ AllLogged'
    BY DEF Inv, LogBits, AllLogged, Logged
  <1>4. OldToYoungRemembered'
    <2> SUFFICES ASSUME NEW s \in Slots, s[1] \in mature, heap'[s] \in young,
                        heap'[s] = heap[s]
                 PROVE  Remembered(s)' \/ Pending(s)'
      BY DEF OldToYoungRemembered
    <2>1. Remembered(s) \/ Pending(s)
      BY DEF Inv, OldToYoungRemembered
    <2>2. Remembered(s) => Remembered(s)'
      BY DEF Remembered
    <2>3. \A k \in Mutators : k # m => write'[k] = write[k]
      BY DEF Inv, TypeOK
    <2>4. Pending(s) => Pending(s)'
      BY <1>1, <2>3 DEF Pending, NoWrite
    <2> QED BY <2>1, <2>2, <2>4
  <1> QED BY <1>2, <1>3, <1>4 DEF Inv

LEMMA StoreStep ==
    ASSUME Inv, NEW m \in Mutators, Store(m)
    PROVE  Inv'
  <1>1. PICK s \in ReachableSlots, target \in Reachable \cup {null} :
            /\ heap' = [heap EXCEPT ![s] = target]
            /\ write' = [write EXCEPT ![m] = [kind |-> "store", src |-> s[1]]]
    BY DEF Store
  <1>2. /\ Runs(m) /\ pc' = [pc EXCEPT ![m] = "stored"]
        /\ UNCHANGED <<mature, young, root, unlogged, modbuf, regions, packets,
                       world>>
    BY DEF Store, Goto
  <1>3. target \in mature \cup young \cup {null}
    BY <1>1, ReachableInHeap DEF Inv
  <1>4. s \in Slots /\ s[1] \in Objects
    BY <1>1, SlotPairs DEF ReachableSlots
  <1>5. [kind |-> "store", src |-> s[1]] \in StoreWrites
    BY <1>4 DEF StoreWrites
  <1>6. TypeOK'
    BY <1>1, <1>2, <1>3, <1>4, <1>5 DEF Inv, TypeOK
  <1>7. NoDangling'
    BY <1>1, <1>2, <1>3, <1>4 DEF Inv, TypeOK, NoDangling
  <1>8. \A r \in Slots : heap'[r] = heap[r] \/ Pending(r)'
    <2> SUFFICES ASSUME heap'[s] # heap[s]
                 PROVE  Pending(s)'
      BY <1>1 DEF Inv, TypeOK
    <2>1. write'[m] = [kind |-> "store", src |-> s[1]]
      BY <1>1 DEF Inv, TypeOK
    <2> QED BY <2>1 DEF Pending
  <1> QED BY <1>1, <1>2, <1>6, <1>7, <1>8, WriteStep

LEMMA ArrayCopyStep ==
    ASSUME Inv, NEW m \in Mutators, ArrayCopy(m)
    PROVE  Inv'
  <1>1. PICK src \in ReachableSlots, dst \in ReachableSlots :
            \E count \in 1 .. Length[src[1]] :
            /\ src[2] + count <= Length[src[1]]
            /\ dst[2] + count <= Length[dst[1]]
            /\ heap' = [s \in Slots |->
                          IF s \in {dst[1]} \X (dst[2] .. dst[2] + count - 1)
                            THEN heap[<<src[1], src[2] + s[2] - dst[2]>>]
                            ELSE heap[s]]
            /\ write' = [write EXCEPT ![m] =
                           [kind |-> "copy", dst |-> dst, count |-> count]]
    BY DEF ArrayCopy
  <1>2. /\ src \in Slots /\ src[1] \in Objects /\ src[2] \in Nat
        /\ dst \in Slots /\ dst[1] \in Objects /\ dst[2] \in Nat
        /\ Length[src[1]] \in Nat
        /\ src[1] \in mature \cup young
    BY <1>1, SlotPairs, Lengths, ReachableInHeap DEF ReachableSlots, Inv
  <1>3. PICK count \in Nat :
            /\ src[2] + count <= Length[src[1]]
            /\ dst[2] + count <= Length[dst[1]]
            /\ heap' = [s \in Slots |->
                          IF s \in {dst[1]} \X (dst[2] .. dst[2] + count - 1)
                            THEN heap[<<src[1], src[2] + s[2] - dst[2]>>]
                            ELSE heap[s]]
            /\ write' = [write EXCEPT ![m] =
                           [kind |-> "copy", dst |-> dst, count |-> count]]
    <2>1. \A c \in 1 .. Length[src[1]] : c \in Nat
      BY <1>2
    <2> QED BY <1>1, <2>1, Zenon
  <1>4. /\ Runs(m) /\ pc' = [pc EXCEPT ![m] = "stored"]
        /\ UNCHANGED <<mature, young, root, unlogged, modbuf, regions, packets,
                       world>>
    BY DEF ArrayCopy, Goto
  <1> DEFINE slice == {dst[1]} \X (dst[2] .. dst[2] + count - 1)
  <1>5. \A s \in Slots \ slice : heap'[s] = heap[s]
    BY <1>3
  <1>6. ASSUME NEW s \in Slots, s \in slice
        PROVE  /\ s[1] = dst[1] /\ s[2] - dst[2] \in 0 .. count - 1
               /\ <<src[1], src[2] + s[2] - dst[2]>> \in Slots
               /\ heap'[s] = heap[<<src[1], src[2] + s[2] - dst[2]>>]
    <2>1. s[1] = dst[1] /\ s[2] \in dst[2] .. dst[2] + count - 1
      BY <1>6
    <2>2. s[2] - dst[2] \in 0 .. count - 1
      BY <2>1, <1>2
    <2>3. src[2] + s[2] - dst[2] \in 0 .. Length[src[1]] - 1
      BY <2>1, <1>2, <1>3
    <2> QED BY <2>1, <2>2, <2>3, <1>2, <1>3, <1>6, SlotPairs
  <1>7. \A s \in slice \cap Slots : heap'[s] \in mature \cup young \cup {null}
    <2> SUFFICES ASSUME NEW s \in slice \cap Slots
                 PROVE  heap'[s] \in mature \cup young \cup {null}
      OBVIOUS
    <2> DEFINE from == <<src[1], src[2] + s[2] - dst[2]>>
    <2>1. from \in Slots /\ heap'[s] = heap[from]
      BY <1>6
    <2>2. from[1] = src[1]
      OBVIOUS
    <2> QED BY <2>1, <2>2, <1>2 DEF Inv, NoDangling
  <1>8. [kind |-> "copy", dst |-> dst, count |-> count] \in CopyWrites
    BY <1>2, <1>3 DEF CopyWrites
  <1>9. TypeOK'
    <2>1. heap' \in [Slots -> Objects \cup {null}]
      <3>1. \A s \in Slots : heap'[s] \in Objects \cup {null}
        BY <1>5, <1>7 DEF Inv, TypeOK
      <3> QED BY <3>1, <1>3
    <2>2. write' \in [Mutators -> {NoWrite} \cup StoreWrites \cup CopyWrites]
      BY <1>3, <1>8 DEF Inv, TypeOK
    <2> QED BY <2>1, <2>2, <1>4 DEF Inv, TypeOK
  <1>10. NoDangling'
    BY <1>4, <1>5, <1>7 DEF Inv, NoDangling
  <1>11. \A s \in Slots : heap'[s] = heap[s] \/ Pending(s)'
    <2>1. write'[m] = [kind |-> "copy", dst |-> dst, count |-> count]
      BY <1>3 DEF Inv, TypeOK
    <2>2. ASSUME NEW s \in Slots, s \in slice
          PROVE  Pending(s)'
      <3>1. s[1] = dst[1] /\ s[2] - dst[2] \in 0 .. count - 1
        BY <1>6, <2>2
      <3> QED BY <2>1, <3>1 DEF Pending
    <2> QED BY <2>2, <1>5
  <1> QED BY <1>3, <1>4, <1>9, <1>10, <1>11, WriteStep

(***************************************************************************)
(* Barriers                                                                *)
(***************************************************************************)
\* The object of a store is logged now, or was and still is.
LEMMA WritePostStep ==
    ASSUME Inv, NEW m \in Mutators, mmtk_object_reference_write_post(m)
    PROVE  Inv'
  <1> DEFINE src == write[m].src
  <1>1. /\ pc[m] = "stored" /\ write[m].kind = "store"
        /\ write' = [write EXCEPT ![m] = NoWrite]
        /\ pc' = [pc EXCEPT ![m] = "running"]
        /\ UNCHANGED <<heap, mature, young, root, regions, packets, world>>
    BY DEF mmtk_object_reference_write_post, Goto
  <1>2. src \in Objects
    BY <1>1 DEF Inv, TypeOK, NoWrite, StoreWrites, CopyWrites
  <1>3. world = "running"
    BY <1>1 DEF Inv, WritesPending
  <1>4. /\ write'[m] = NoWrite /\ pc'[m] = "running"
        /\ \A k \in Mutators : k # m => write'[k] = write[k] /\ pc'[k] = pc[k]
    BY <1>1 DEF Inv, TypeOK
  <1>5. CASE src \in unlogged
    <2>1. /\ unlogged' = unlogged \ {src}
          /\ modbuf' = [modbuf EXCEPT ![m] = @ \cup {src}]
      BY <1>5 DEF mmtk_object_reference_write_post
    <2>2. \A k \in Mutators : modbuf'[k] = IF k = m THEN modbuf[m] \cup {src}
                                                   ELSE modbuf[k]
      BY <2>1 DEF Inv, TypeOK
    <2>3. TypeOK'
      BY <2>1, <1>1, <1>2 DEF Inv, TypeOK
    <2>4. Spaces' /\ WritesPending' /\ BuffersEmpty'
      BY <2>2, <1>1, <1>3, <1>4 DEF Inv, Spaces, WritesPending, BuffersEmpty
    <2>5. src \in mature /\ src \notin packets.objects
          /\ \A k \in Mutators : src \notin modbuf[k]
      BY <1>5 DEF Inv, LogBits
    <2>6. LogBits'
      BY <2>1, <2>2, <2>5, <1>1 DEF Inv, LogBits
    <2>7. AllLogged'
      BY <2>1, <2>2, <2>5, <1>1 DEF Inv, AllLogged, Logged
    <2>8. OldToYoungRemembered'
      <3>1. \A s \in Slots : Remembered(s) \/ s[1] = src => Remembered(s)'
        BY <2>2, <1>1 DEF Remembered
      <3>2. \A s \in Slots : Pending(s) => Pending(s)' \/ s[1] = src
        BY <1>1, <1>4 DEF Pending
      <3> QED BY <3>1, <3>2, <1>1 DEF Inv, OldToYoungRemembered
    <2>9. NoDangling'
      BY <1>1 DEF Inv, NoDangling
    <2> QED BY <2>3, <2>4, <2>6, <2>7, <2>8, <2>9 DEF Inv
  <1>6. CASE src \notin unlogged
    <2>1. UNCHANGED <<unlogged, modbuf>>
      BY <1>6 DEF mmtk_object_reference_write_post
    <2>2. TypeOK'
      BY <2>1, <1>1 DEF Inv, TypeOK
    <2>3. Spaces' /\ WritesPending' /\ BuffersEmpty'
      BY <2>1, <1>1, <1>3, <1>4 DEF Inv, Spaces, WritesPending, BuffersEmpty
    <2>4. LogBits' /\ AllLogged'
      BY <2>1, <1>1 DEF Inv, LogBits, AllLogged, Logged
    <2>5. OldToYoungRemembered'
      <3>1. \A s \in Slots : Remembered(s) => Remembered(s)'
        BY <2>1, <1>1 DEF Remembered
      <3>2. \A s \in Slots : s[1] = src /\ s[1] \in mature => Remembered(s)
        BY <1>6 DEF Inv, AllLogged, Logged, Remembered
      <3>3. \A s \in Slots : Pending(s) => Pending(s)' \/ s[1] = src
        BY <1>1, <1>4 DEF Pending
      <3> QED BY <3>1, <3>2, <3>3, <1>1 DEF Inv, OldToYoungRemembered
    <2>6. NoDangling'
      BY <1>1 DEF Inv, NoDangling
    <2> QED BY <2>2, <2>3, <2>4, <2>5, <2>6 DEF Inv
  <1> QED BY <1>5, <1>6

\* The slots of a slice that starts in an old object are recorded, all of them.
LEMMA CopyPostStep ==
    ASSUME Inv, NEW m \in Mutators, mmtk_array_copy_post(m)
    PROVE  Inv'
  <1> DEFINE dst == write[m].dst
             count == write[m].count
  <1>1. /\ pc[m] = "stored" /\ write[m].kind = "copy"
        /\ regions' = IF dst[1] \in mature
                         THEN [regions EXCEPT ![m] = @ \cup iter_slots(dst, count)]
                         ELSE regions
        /\ write' = [write EXCEPT ![m] = NoWrite]
        /\ pc' = [pc EXCEPT ![m] = "running"]
        /\ UNCHANGED <<heap, mature, young, root, unlogged, modbuf, packets, world>>
    BY DEF mmtk_array_copy_post, Goto
  <1>2. dst \in Slots /\ count \in Nat /\ dst[2] + count <= Length[dst[1]]
    BY <1>1 DEF Inv, TypeOK, NoWrite, StoreWrites, CopyWrites
  <1>3. world = "running"
    BY <1>1 DEF Inv, WritesPending
  <1>4. /\ write'[m] = NoWrite /\ pc'[m] = "running"
        /\ \A k \in Mutators : k # m => write'[k] = write[k] /\ pc'[k] = pc[k]
        /\ \A k \in Mutators : k # m => regions'[k] = regions[k]
        /\ regions[m] \subseteq regions'[m]
        /\ dst[1] \in mature => iter_slots(dst, count) \subseteq regions'[m]
    BY <1>1 DEF Inv, TypeOK
  <1>5. TypeOK'
    <2>1. iter_slots(dst, count) \subseteq Slots
      <3> SUFFICES ASSUME NEW i \in dst[2] .. dst[2] + count - 1
                   PROVE  <<dst[1], i>> \in Slots
        BY DEF iter_slots
      <3>1. dst[1] \in Objects /\ dst[2] \in Nat /\ Length[dst[1]] \in Nat
        BY <1>2, SlotPairs, Lengths
      <3>2. i \in 0 .. Length[dst[1]] - 1
        BY <1>2, <3>1
      <3> QED BY <3>1, <3>2, SlotPairs
    <2> QED BY <2>1, <1>1 DEF Inv, TypeOK
  <1>6. Spaces' /\ WritesPending' /\ BuffersEmpty'
    BY <1>1, <1>3, <1>4 DEF Inv, Spaces, WritesPending, BuffersEmpty
  <1>7. LogBits' /\ AllLogged'
    BY <1>1 DEF Inv, LogBits, AllLogged, Logged
  <1>8. OldToYoungRemembered'
    <2>1. \A s \in Slots : Remembered(s) => Remembered(s)'
      BY <1>1, <1>4 DEF Remembered
    <2>2. \A s \in Slots : Pending(s) =>
              \/ Pending(s)'
              \/ s[1] = dst[1] /\ s[2] - dst[2] \in 0 .. count - 1
      BY <1>1, <1>4 DEF Pending
    <2>3. ASSUME NEW s \in Slots, s[1] \in mature, s[1] = dst[1],
                 s[2] - dst[2] \in 0 .. count - 1
          PROVE  Remembered(s)'
      <3>1. s[2] \in dst[2] .. dst[2] + count - 1
        BY <1>2, <2>3, SlotPairs, Lengths
      <3>2. s \in iter_slots(dst, count)
        BY <2>3, <3>1, SlotPairs DEF iter_slots
      <3> QED BY <3>2, <2>3, <1>4 DEF Remembered
    <2> QED BY <2>1, <2>2, <2>3, <1>1 DEF Inv, OldToYoungRemembered
  <1>9. NoDangling'
    BY <1>1 DEF Inv, NoDangling
  <1> QED BY <1>5, <1>6, <1>7, <1>8, <1>9 DEF Inv

(***************************************************************************)
(* The collection                                                          *)
(***************************************************************************)
\* Every bound mutator is flushed, and the others have nothing to flush.
LEMMA StopStep ==
    ASSUME Inv, stop_all_mutators
    PROVE  Inv'
  <1> DEFINE bound == {m \in Mutators : pc[m] # "unbound"}
  <1>1. /\ world = "running" /\ \A m \in Mutators : pc[m] # "stored"
        /\ world' = "collecting"
        /\ UNCHANGED <<heap, mature, young, root, unlogged, pc, write>>
    BY DEF stop_all_mutators
  <1>2. /\ packets' = [objects |-> packets.objects
                                     \cup UNION {modbuf[m] : m \in bound},
                       slots   |-> packets.slots
                                     \cup UNION {regions[m] : m \in bound}]
        /\ modbuf' = [m \in Mutators |-> IF m \in bound THEN {} ELSE modbuf[m]]
        /\ regions' = [m \in Mutators |-> IF m \in bound THEN {} ELSE regions[m]]
    BY DEF stop_all_mutators, FlushesAll
  <1>3. \A m \in Mutators \ bound : modbuf[m] = {} /\ regions[m] = {}
    BY DEF Inv, BuffersEmpty
  <1>4. \A m \in Mutators : modbuf'[m] = {} /\ regions'[m] = {}
    BY <1>2, <1>3
  <1>5. /\ \A o : o \in packets'.objects <=>
               o \in packets.objects \/ \E m \in Mutators : o \in modbuf[m]
        /\ \A s : s \in packets'.slots <=>
               s \in packets.slots \/ \E m \in Mutators : s \in regions[m]
    BY <1>2, <1>3
  <1>6. TypeOK'
    <2>1. packets' \in [objects : SUBSET Objects, slots : SUBSET Slots]
      BY <1>2 DEF Inv, TypeOK
    <2>2. /\ modbuf' \in [Mutators -> SUBSET Objects]
          /\ regions' \in [Mutators -> SUBSET Slots]
      BY <1>2 DEF Inv, TypeOK
    <2> QED BY <2>1, <2>2, <1>1 DEF Inv, TypeOK
  <1>7. Spaces' /\ WritesPending' /\ BuffersEmpty'
    BY <1>1, <1>4 DEF Inv, Spaces, WritesPending, BuffersEmpty
  <1>8. LogBits'
    BY <1>1, <1>4, <1>5 DEF Inv, LogBits
  <1>9. AllLogged'
    BY <1>1, <1>4, <1>5 DEF Inv, AllLogged, Logged
  <1>10. OldToYoungRemembered'
    <2>1. \A s \in Slots : Remembered(s) => Remembered(s)'
      BY <1>5 DEF Remembered
    <2>2. \A s \in Slots : Pending(s) => Pending(s)'
      BY <1>1 DEF Pending
    <2> QED BY <2>1, <2>2, <1>1 DEF Inv, OldToYoungRemembered
  <1>11. NoDangling'
    BY <1>1 DEF Inv, NoDangling
  <1> QED BY <1>6, <1>7, <1>8, <1>9, <1>10, <1>11 DEF Inv

\* A set of objects that a collection may keep: the roots are in it, and what its
\* objects refer to.
Survives(live) ==
    /\ live \subseteq mature \cup young
    /\ Roots \ {null} \subseteq live
    /\ \A s \in Slots : s[1] \in live => heap[s] \in live \cup {null}

\* A nursery collection keeps such a set: it finds what an old object refers to
\* because it is remembered, and no write waits for its barrier.
LEMMA NurserySurvives ==
    ASSUME Inv, world = "collecting",
           NEW remembered,
           remembered = {heap[s] : s \in {t \in Slots :
                                            \/ t[1] \in packets.objects
                                            \/ t \in packets.slots}}
    PROVE  Survives(mature \cup (young \cap Closure(Roots \cup remembered, young)))
  <1> DEFINE From == Roots \cup remembered
             C == Closure(From, young)
             live == mature \cup (young \cap C)
  <1>1. From \subseteq Objects \cup {null}
    BY RootsTyped DEF Inv, TypeOK
  <1>2. /\ From \ {null} \subseteq C
        /\ \A s \in Slots : s[1] \in C \cap young => heap[s] \in C \cup {null}
    BY <1>1, ClosureClosed DEF Inv
  <1>3. Roots \ {null} \subseteq live
    <2>1. Roots \ {null} \subseteq mature \cup young
      BY DEF Inv, Roots, Spaces, NoDangling
    <2> QED BY <2>1, <1>2
  <1>4. ASSUME NEW s \in Slots, s[1] \in live
        PROVE  heap[s] \in live \cup {null}
    <2>1. heap[s] \in mature \cup young \cup {null}
      BY <1>4 DEF Inv, NoDangling
    <2>2. CASE s[1] \in mature /\ heap[s] \in young
      <3>1. Remembered(s) \/ Pending(s)
        BY <2>2 DEF Inv, OldToYoungRemembered
      <3>2. ~Pending(s)
        BY DEF Inv, WritesPending, Pending, NoWrite
      <3>3. s[1] \in packets.objects \/ s \in packets.slots
        BY <3>1, <3>2 DEF Inv, BuffersEmpty, Remembered
      <3>4. heap[s] \in remembered
        BY <3>3
      <3>5. heap[s] # null
        BY <2>2, Lengths DEF Inv, TypeOK, null
      <3> QED BY <2>2, <3>4, <3>5, <1>2
    <2>3. CASE s[1] \in young \cap C
      BY <2>1, <2>3, <1>2
    <2> QED BY <2>1, <2>2, <2>3, <1>4
  <1> QED BY <1>3, <1>4 DEF Survives

\* So does a collection of the whole heap.
LEMMA FullSurvives ==
    ASSUME Inv
    PROVE  Survives(Reachable)
  <1>1. Reachable \subseteq mature \cup young
    BY ReachableInHeap DEF Inv
  <1>2. /\ Roots \ {null} \subseteq Reachable
        /\ \A s \in Slots : s[1] \in Reachable \cap Objects =>
               heap[s] \in Reachable \cup {null}
    BY RootsTyped, ClosureClosed DEF Inv, Reachable
  <1> QED BY <1>1, <1>2, SlotPairs DEF Survives

LEMMA CollectStep ==
    ASSUME Inv, Collect
    PROVE  Inv'
  <1> DEFINE remembered ==
               {heap[s] : s \in {t \in Slots : \/ t[1] \in packets.objects
                                               \/ t \in packets.slots}}
  <1>1. /\ world = "collecting" /\ world' = "resuming" /\ young' = {}
        /\ packets' = [objects |-> {}, slots |-> {}]
        /\ UNCHANGED <<root, modbuf, regions, pc, write>>
    BY DEF Collect
  <1>2. PICK nursery \in BOOLEAN :
          LET live == IF nursery
                        THEN mature \cup (young \cap
                               Closure(Roots \cup remembered, young))
                        ELSE Reachable
          IN  /\ mature' = live
              /\ heap' = [s \in Slots |->
                            IF s[1] \in live THEN heap[s] ELSE null]
              /\ unlogged' = ((unlogged \cup packets.objects
                                 \cup (young \cap live)) \cap live)
    BY DEF Collect
  <1>3. /\ Survives(mature')
        /\ heap' = [s \in Slots |-> IF s[1] \in mature' THEN heap[s] ELSE null]
        /\ unlogged' = (unlogged \cup packets.objects \cup (young \cap mature'))
                          \cap mature'
    BY <1>1, <1>2, NurserySurvives, FullSurvives
  <1>4. /\ mature' \subseteq mature \cup young
        /\ 1 \in mature' /\ \A m \in Mutators : root[m] \in mature' \cup {null}
        /\ \A s \in Slots : s[1] \in mature' => heap[s] \in mature' \cup {null}
    BY <1>3 DEF Survives, Roots, null
  <1>5. \A m \in Mutators : modbuf[m] = {} /\ regions[m] = {}
    BY <1>1 DEF Inv, BuffersEmpty
  <1>6. unlogged' = mature'
    <2>1. \A o \in mature \ unlogged : o \in packets.objects
      BY <1>5 DEF Inv, AllLogged, Logged
    <2> QED BY <2>1, <1>3, <1>4
  <1>7. packets'.objects = {} /\ packets'.slots = {}
    BY <1>1
  <1>8. TypeOK'
    <2>1. heap' \in [Slots -> Objects \cup {null}]
      BY <1>3 DEF Inv, TypeOK
    <2>2. packets' \in [objects : SUBSET Objects, slots : SUBSET Slots]
      BY <1>1
    <2>3. mature' \subseteq Objects
      BY <1>4 DEF Inv, TypeOK
    <2> QED BY <2>1, <2>2, <2>3, <1>1, <1>6 DEF Inv, TypeOK
  <1>9. Spaces' /\ WritesPending' /\ BuffersEmpty'
    BY <1>1, <1>4, <1>5 DEF Inv, Spaces, WritesPending, BuffersEmpty
  <1>10. LogBits' /\ AllLogged'
    BY <1>1, <1>5, <1>6, <1>7 DEF LogBits, AllLogged
  <1>11. OldToYoungRemembered'
    BY <1>1 DEF OldToYoungRemembered
  <1>12. NoDangling'
    BY <1>1, <1>3, <1>4 DEF NoDangling
  <1> QED BY <1>8, <1>9, <1>10, <1>11, <1>12 DEF Inv

LEMMA ResumeStep ==
    ASSUME Inv, resume_mutators
    PROVE  Inv'
  <1>1. /\ world = "resuming" /\ world' = "running"
        /\ UNCHANGED <<heap, mature, young, root, unlogged, modbuf, regions,
                       packets, pc, write>>
    BY DEF resume_mutators
  <1>2. TypeOK'
    BY <1>1 DEF Inv, TypeOK
  <1>3. WritesPending' /\ BuffersEmpty' /\ NoDangling'
    BY <1>1 DEF Inv, WritesPending, BuffersEmpty, NoDangling
  <1> QED BY <1>1, <1>2, <1>3, MemoryUntouched DEF Inv

(***************************************************************************)
(* The theorems                                                            *)
(***************************************************************************)
LEMMA InitInv == Init => Inv
  <1> SUFFICES ASSUME Init
               PROVE  Inv
    OBVIOUS
  <1>1. TypeOK
    BY Lengths DEF Init, TypeOK
  <1>2. Spaces /\ WritesPending /\ BuffersEmpty
    BY DEF Init, Spaces, WritesPending, BuffersEmpty
  <1>3. LogBits /\ AllLogged
    BY DEF Init, LogBits, AllLogged
  <1>4. OldToYoungRemembered /\ NoDangling
    BY DEF Init, OldToYoungRemembered, NoDangling
  <1> QED BY <1>1, <1>2, <1>3, <1>4 DEF Inv

LEMMA NextInv == Inv /\ [Next]_vars => Inv'
  <1> SUFFICES ASSUME Inv, [Next]_vars
               PROVE  Inv'
    OBVIOUS
  <1>1. ASSUME NEW m \in Mutators, Mutator(m)
        PROVE  Inv'
    BY <1>1, BindStep, FlushStep, DestroyStep, AllocateStep, ForgetStep, StoreStep,
       ArrayCopyStep, WritePostStep, CopyPostStep DEF Mutator
  <1>2. CASE Collector
    BY <1>2, StopStep, CollectStep, ResumeStep DEF Collector
  <1>3. CASE UNCHANGED vars
    <2>1. UNCHANGED <<heap, mature, young, root, unlogged, modbuf, regions,
                      packets, pc, write, world>>
      BY <1>3 DEF vars
    <2>2. TypeOK'
      BY <2>1 DEF Inv, TypeOK
    <2>3. WritesPending' /\ BuffersEmpty' /\ NoDangling'
      BY <2>1 DEF Inv, WritesPending, BuffersEmpty, NoDangling
    <2> QED BY <2>1, <2>2, <2>3, MemoryUntouched DEF Inv
  <1> QED BY <1>1, <1>2, <1>3 DEF Next

\* The inductive invariant of mutators, barriers and collections always holds.
THEOREM Invariant == Spec => []Inv
  BY InitInv, NextInv, PTL DEF Spec

\* Every reference from an old object to a young one can be found by the next
\* nursery collection (mmtk_object_reference_write_post, mmtk_array_copy_post,
\* mmtk_flush_mutator, stop_all_mutators).
THEOREM RememberedSetComplete == Spec => []OldToYoungRemembered
  BY Invariant, PTL DEF Inv

\* No collection frees an object that a live object or a root refers to.
THEOREM CollectionsAreSafe == Spec => []NoDangling
  BY Invariant, PTL DEF Inv

\* An old object whose log bit is off is in exactly one buffer or packet: the
\* barrier of mmtk_object_reference_write_post neither loses nor repeats it.
THEOREM ObjectsLoggedOnce == Spec => []LoggedOnce
  <1>1. Inv => LoggedOnce
    <2> SUFFICES ASSUME Inv, NEW o \in mature \ unlogged
                 PROVE  Cardinality({m \in Mutators : o \in modbuf[m]})
                          + (IF o \in packets.objects THEN 1 ELSE 0) = 1
      BY DEF LoggedOnce
    <2> DEFINE holders == {m \in Mutators : o \in modbuf[m]}
    <2>1. Logged(o)
      BY DEF Inv, AllLogged
    <2>2. CASE o \in packets.objects
      <3>1. holders = {}
        BY <2>1, <2>2 DEF Logged
      <3>2. Cardinality(holders) = 0
        BY <3>1, FS_EmptySet
      <3> QED BY <2>2, <3>2
    <2>3. CASE o \notin packets.objects
      <3>1. PICK m \in Mutators : holders = {m}
        BY <2>1, <2>3 DEF Logged
      <3>2. Cardinality(holders) = 1
        BY <3>1, FS_Singleton
      <3> QED BY <2>3, <3>2
    <2> QED BY <2>2, <2>3
  <1> QED BY <1>1, Invariant, PTL
===========================================================================
