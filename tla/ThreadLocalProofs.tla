------------------------- MODULE ThreadLocalProofs -------------------------
(***************************************************************************)
(* Proofs about ThreadLocal: objects never overlap and buffers are never   *)
(* shared, for every number of threads and every size of heap and objects. *)
(***************************************************************************)
EXTENDS ThreadLocal, TLAPS

(***************************************************************************)
(* The inductive invariant                                                 *)
(***************************************************************************)
\* The variables have their types.
TypeOK ==
    /\ selector \in Selectors
    /\ allocator \in [Mutators -> BumpPointer]
    /\ local \in [Mutators -> BumpPointer]
    /\ objects \in [Words -> Nat]
    /\ available \subseteq Words
    /\ pc \in [Mutators -> {"absent", "run", "alloc", "blocked", "done"}]
    /\ want \in [Mutators -> Nat]
    /\ world \in {"running", "collecting", "resuming"}
    /\ panicked \in BOOLEAN

\* What the space may hand out holds no object.
FreeIsEmpty == \A a \in available : objects[a] = 0

\* A thread without a mutator has no buffer, nor has any thread when the
\* default allocator has no bump pointer: its first call panics.
NoBuffer ==
    \A m \in Mutators :
        /\ pc[m] = "absent" => local[m] = Empty
        /\ ~HasBumpPointer =>
             /\ local[m] = Empty /\ allocator[m] = Empty
             /\ pc[m] \in {"absent", "run"} \/ panicked

\* No thread is within a call while the world is stopped, and the collection
\* has taken every buffer back before the threads go on.
Stopped ==
    /\ world # "running" =>
         \A m \in Mutators : pc[m] \in {"absent", "run", "blocked"}
    /\ world = "resuming" => \A m \in Bound : allocator[m] = Empty

Inv ==
    TypeOK /\ NoOverlap /\ BuffersExclusive /\ FreeIsEmpty /\ NoBuffer /\ Stopped

(***************************************************************************)
(* Buffers                                                                 *)
(***************************************************************************)
\* The empty buffer is a buffer without words.
LEMMA EmptyBuffer == Empty \in BumpPointer /\ Region(Empty) = {}
  BY ThreadLocalAssumption DEF Empty, BumpPointer, Region

\* Bumping the cursor of a buffer within its limit leaves a buffer, and what is
\* left and what was taken are two disjoint parts of it.
LEMMA BumpedBuffer ==
    ASSUME NEW b \in BumpPointer, NEW n \in Nat, Fits(b, n)
    PROVE  /\ Bumped(b, n) \in BumpPointer
           /\ Region(Bumped(b, n)) \subseteq Region(b)
           /\ b.cursor .. b.cursor + n - 1 \subseteq Region(b)
           /\ Region(Bumped(b, n)) \cap (b.cursor .. b.cursor + n - 1) = {}
  <1>1. b.cursor \in Nat /\ b.limit \in 0 .. HeapWords /\ b.cursor + n <= b.limit
    BY ThreadLocalAssumption DEF BumpPointer, Fits
  <1>2. Bumped(b, n) = [cursor |-> b.cursor + n, limit |-> b.limit]
    BY DEF Bumped, BumpPointer
  <1> QED BY <1>1, <1>2, ThreadLocalAssumption DEF BumpPointer, Region

\* A buffer lies in the heap.
LEMMA RegionInHeap == \A b \in BumpPointer : Region(b) \subseteq Words
  BY ThreadLocalAssumption DEF BumpPointer, Region, Words

\* An object placed in memory that holds none overlaps nothing.
LEMMA PlacedOnce ==
    ASSUME objects \in [Words -> Nat], NEW a \in Nat, NEW n \in Nat,
           NoOverlap, \A w \in Words \cap (a .. a + n - 1) : objects[w] = 0
    PROVE  /\ Placed(a, n) \in [Words -> Nat]
           /\ \A w \in Words : Placed(a, n)[w] <= 1
           /\ \A w \in Words \ (a .. a + n - 1) : Placed(a, n)[w] = objects[w]
  BY DEF Placed, NoOverlap

\* A step that changes no buffer of another thread, gives m a part of its own
\* buffer or of free memory, and stores objects in that memory only, keeps
\* buffers apart.
LEMMA ExclusiveKept ==
    ASSUME TypeOK, BuffersExclusive, FreeIsEmpty, NEW m \in Mutators,
           NEW taken, NEW b \in BumpPointer, TypeOK',
           m \in Bound \/ Region(b) = {},
           \A k \in Bound' \ {m} : k \in Bound /\ Buffer(k)' = Buffer(k),
           Region(b) \subseteq Region(Buffer(m)) \/ Region(b) \subseteq available,
           taken \subseteq Region(b),
           Region(Buffer(m)') \subseteq Region(b) \ taken,
           available' = available \ Region(b),
           \A a \in Words \ taken : objects'[a] = objects[a]
    PROVE  BuffersExclusive' /\ FreeIsEmpty'
  <1>1. \A k \in Mutators : Buffer(k) \in BumpPointer
    BY DEF TypeOK, Buffer
  <1>2. \A k \in Mutators : Region(Buffer(k)) \subseteq Words
    BY <1>1, RegionInHeap
  <1>3. \A k \in Bound : \A a \in Region(Buffer(k)) :
            objects[a] = 0 /\ a \notin available
    BY DEF BuffersExclusive
  <1>4. \A k, j \in Bound : k # j =>
            Region(Buffer(k)) \cap Region(Buffer(j)) = {}
    BY DEF BuffersExclusive
  <1>5. \A k \in Bound' \ {m} : Region(Buffer(k)') \cap Region(b) = {}
    <2> TAKE k \in Bound' \ {m}
    <2>1. k \in Bound /\ Region(Buffer(k)') = Region(Buffer(k))
      OBVIOUS
    <2> QED BY <2>1, <1>3, <1>4
  <1>6. \A a \in available' : objects'[a] = 0
    BY DEF FreeIsEmpty, TypeOK
  <1>7. \A k \in Bound' : \A a \in Region(Buffer(k)') :
            objects'[a] = 0 /\ a \notin available'
    <2> SUFFICES ASSUME NEW k \in Bound', NEW a \in Region(Buffer(k)')
                 PROVE  objects'[a] = 0 /\ a \notin available'
      OBVIOUS
    <2>1. CASE k = m
      <3>1. a \in Region(b) \ taken
        BY <2>1
      <3>2. a \in Words /\ objects'[a] = objects[a]
        BY <3>1, RegionInHeap
      <3>3. objects[a] = 0
        BY <3>1, <1>3 DEF FreeIsEmpty
      <3> QED BY <3>1, <3>2, <3>3
    <2>2. CASE k # m
      <3>1. k \in Bound /\ a \in Region(Buffer(k)) /\ a \notin Region(b)
        BY <2>2, <1>5
      <3>2. a \in Words
        BY <3>1, <1>2 DEF Bound
      <3> QED BY <3>1, <3>2, <1>3
    <2> QED BY <2>1, <2>2
  <1>8. \A k \in Bound' : \A j \in Bound' \ {k} :
            Region(Buffer(k)') \cap Region(Buffer(j)') = {}
    <2> SUFFICES ASSUME NEW k \in Bound', NEW j \in Bound' \ {k}
                 PROVE  Region(Buffer(k)') \cap Region(Buffer(j)') = {}
      OBVIOUS
    <2>1. CASE k = m
      BY <2>1, <1>5
    <2>2. CASE j = m
      BY <2>2, <1>5
    <2>3. CASE k # m /\ j # m
      BY <2>3, <1>4
    <2> QED BY <2>1, <2>2, <2>3
  <1> HIDE DEF Buffer, Region, Bound
  <1>9. BuffersExclusive'
    BY <1>7, <1>8 DEF BuffersExclusive
  <1> QED BY <1>6, <1>9 DEF FreeIsEmpty

(***************************************************************************)
(* The steps                                                               *)
(***************************************************************************)
\* At first there are no buffers and no objects.
LEMMA InvInit == Init => Inv
  <1> SUFFICES ASSUME Init PROVE Inv
    OBVIOUS
  <1>1. TypeOK
    <2>1. panicked \in BOOLEAN
      BY Zenon DEF Init
    <2> QED BY <2>1, EmptyBuffer DEF Init, TypeOK
  <1>2. NoOverlap /\ FreeIsEmpty /\ NoBuffer /\ Stopped
    BY DEF Init, NoOverlap, FreeIsEmpty, NoBuffer, Stopped
  <1>3. BuffersExclusive
    BY DEF Init, BuffersExclusive, Bound
  <1> QED BY <1>1, <1>2, <1>3 DEF Inv

\* A new thread has no buffer, and one that leaves gives its buffer up.
LEMMA InvAttach ==
    ASSUME Inv, NEW m \in Mutators, Attach(m) \/ Detach(m)
    PROVE  Inv'
  <1> USE DEF Inv, Attach, Detach, Goto
  <1>1. TypeOK'
    BY EmptyBuffer DEF TypeOK
  <1>2. NoOverlap' /\ NoBuffer' /\ Stopped'
    BY DEF NoOverlap, NoBuffer, Stopped, HasBumpPointer, TypeOK, Bound
  <1>3. Region(Buffer(m)') = {}
    BY EmptyBuffer DEF Buffer, NoBuffer, TypeOK
  <1>4. \A k \in Bound' \ {m} : k \in Bound /\ Buffer(k)' = Buffer(k)
    BY DEF Bound, Buffer, TypeOK
  <1>5. available' = available \ Region(Empty) /\ objects' = objects
    BY EmptyBuffer
  <1>6. BuffersExclusive' /\ FreeIsEmpty'
    BY ONLY Inv, m \in Mutators, <1>1, <1>3, <1>4, <1>5, EmptyBuffer,
            ExclusiveKept DEF Inv
  <1> QED BY <1>1, <1>2, <1>6

\* The fast path takes the front of the thread's own copy of its buffer.
LEMMA InvFastPath ==
    ASSUME Inv, NEW m \in Mutators, NEW n \in ObjectSizes, FastPath(m, n)
    PROVE  Inv'
  <1> DEFINE b == local[m]
             taken == b.cursor .. b.cursor + n - 1
  <1>1. n \in Nat /\ b \in BumpPointer /\ Fits(b, n) /\ b.cursor \in Nat
    BY ThreadLocalAssumption DEF FastPath, Inv, TypeOK, BumpPointer
  <1>2. /\ Bumped(b, n) \in BumpPointer
        /\ Region(Bumped(b, n)) \subseteq Region(b) \ taken
        /\ taken \subseteq Region(b)
    BY <1>1, BumpedBuffer
  <1>3. m \in Bound /\ Buffer(m) = b /\ Buffer(m)' = Bumped(b, n)
    BY DEF FastPath, Bound, Buffer, Inv, TypeOK
  <1>4. \A a \in Region(b) : objects[a] = 0 /\ a \notin available
    BY <1>3 DEF Inv, BuffersExclusive
  <1>5. /\ objects' \in [Words -> Nat]
        /\ \A w \in Words : objects'[w] <= 1
        /\ \A w \in Words \ taken : objects'[w] = objects[w]
    <2>1. objects' = Placed(b.cursor, n) /\ objects \in [Words -> Nat] /\ NoOverlap
      BY DEF FastPath, Inv, TypeOK
    <2>2. \A w \in Words \cap taken : objects[w] = 0
      BY <1>2, <1>4
    <2> QED BY ONLY <1>1, <2>1, <2>2, PlacedOnce
  <1>6. TypeOK'
    BY <1>2, <1>5 DEF FastPath, Inv, TypeOK
  <1>7. NoOverlap'
    BY <1>5 DEF NoOverlap
  <1>8. NoBuffer' /\ Stopped'
    <2>1. HasBumpPointer
      <3> SUFFICES ASSUME b = Empty PROVE FALSE
        BY DEF Inv, NoBuffer
      <3> QED BY <1>1, ThreadLocalAssumption DEF Empty, Fits
    <2> QED BY <2>1 DEF FastPath, Inv, NoBuffer, Stopped, HasBumpPointer, Bound,
                        TypeOK
  <1>9. \A k \in Bound' \ {m} : k \in Bound /\ Buffer(k)' = Buffer(k)
    BY DEF FastPath, Bound, Buffer, Inv, TypeOK
  <1>10. available' = available \ Region(b)
    BY <1>4 DEF FastPath
  <1> HIDE DEF b, taken
  <1>11. BuffersExclusive' /\ FreeIsEmpty'
    BY ONLY Inv, m \in Mutators, <1>1, <1>2, <1>3, <1>5, <1>6, <1>9, <1>10,
            ExclusiveKept DEF Inv
  <1> QED BY <1>6, <1>7, <1>8, <1>11 DEF Inv

\* The slow path writes the copy back, so that the buffer of the thread is
\* the one it had (mmtk_set_default_thread_local_cursor_limit).
LEMMA InvSlowPath ==
    ASSUME Inv, NEW m \in Mutators, NEW n \in ObjectSizes, SlowPath(m, n)
    PROVE  Inv'
  <1> USE DEF SlowPath, Goto, mmtk_set_default_thread_local_cursor_limit
  <1>1. TypeOK'
    <2>1. panicked' \in BOOLEAN
      BY Zenon DEF HasBumpPointer
    <2> QED BY <2>1, ThreadLocalAssumption DEF Inv, TypeOK
  <1>2. NoOverlap' /\ Stopped' /\ NoBuffer'
    BY DEF Inv, TypeOK, NoOverlap, Stopped, NoBuffer, HasBumpPointer, Bound
  <1>3. m \in Bound /\ Buffer(m)' = Buffer(m)
    BY DEF Inv, TypeOK, Bound, Buffer, NoBuffer
  <1>4. \A k \in Bound' \ {m} : k \in Bound /\ Buffer(k)' = Buffer(k)
    BY DEF Inv, TypeOK, Bound, Buffer
  <1>5. available' = available \ Region(Buffer(m)) /\ objects' = objects
    BY <1>3 DEF Inv, BuffersExclusive
  <1>6. Buffer(m) \in BumpPointer
    BY DEF Inv, TypeOK, Buffer
  <1>7. BuffersExclusive' /\ FreeIsEmpty'
    BY ONLY Inv, m \in Mutators, <1>1, <1>3, <1>4, <1>5, <1>6, ExclusiveKept
       DEF Inv
  <1> QED BY <1>1, <1>2, <1>7 DEF Inv

\* A thread is in mmtk_alloc only while the world runs, and with a bump
\* pointer.  Its buffer is then the mutator's.
LEMMA InCall ==
    ASSUME Inv, ~panicked, NEW m \in Mutators, pc[m] \in {"alloc", "done"}
    PROVE  /\ world = "running" /\ HasBumpPointer /\ m \in Bound
           /\ Buffer(m) = allocator[m]
  BY DEF Inv, TypeOK, NoBuffer, Stopped, Bound, Buffer

\* mmtk_alloc takes an object from the mutator's buffer or from a new one,
\* which was free memory until now.
LEMMA InvAllocateFrom ==
    ASSUME Inv, ~panicked, NEW m \in Mutators, NEW b \in BumpPointer,
           Region(b) \subseteq available \/ b = allocator[m],
           AllocateFrom(m, b)
    PROVE  Inv'
  <1> DEFINE n == want[m]
             taken == b.cursor .. b.cursor + n - 1
  <1>1. n \in Nat /\ Fits(b, n) /\ b.cursor \in Nat
    BY DEF AllocateFrom, Inv, TypeOK, BumpPointer
  <1>2. /\ Bumped(b, n) \in BumpPointer
        /\ Region(Bumped(b, n)) \subseteq Region(b) \ taken
        /\ taken \subseteq Region(b)
    BY <1>1, BumpedBuffer
  <1>3. /\ world = "running" /\ HasBumpPointer /\ m \in Bound
        /\ Buffer(m) = allocator[m] /\ pc[m] = "alloc"
    BY InCall DEF AllocateFrom, Goto
  <1>4. Buffer(m)' = Bumped(b, n)
    BY <1>3 DEF AllocateFrom, Goto, Buffer, Inv, TypeOK
  <1>5. \A a \in Region(b) : objects[a] = 0
    BY <1>3 DEF Inv, BuffersExclusive, FreeIsEmpty
  <1>6. /\ objects' \in [Words -> Nat]
        /\ \A w \in Words : objects'[w] <= 1
        /\ \A w \in Words \ taken : objects'[w] = objects[w]
    <2>1. objects' = Placed(b.cursor, n) /\ objects \in [Words -> Nat] /\ NoOverlap
      BY DEF AllocateFrom, Inv, TypeOK
    <2>2. \A w \in Words \cap taken : objects[w] = 0
      BY <1>2, <1>5
    <2> QED BY ONLY <1>1, <2>1, <2>2, PlacedOnce
  <1>7. TypeOK'
    BY <1>2, <1>6 DEF AllocateFrom, Goto, Inv, TypeOK
  <1>8. NoOverlap'
    BY <1>6 DEF NoOverlap
  <1>9. NoBuffer' /\ Stopped'
    BY <1>3 DEF AllocateFrom, Goto, Inv, NoBuffer, Stopped, HasBumpPointer,
                TypeOK
  <1>10. \A k \in Bound' \ {m} : k \in Bound /\ Buffer(k)' = Buffer(k)
    BY DEF AllocateFrom, Goto, Bound, Buffer, Inv, TypeOK
  <1>11. available' = available \ Region(b)
    BY DEF AllocateFrom
  <1> HIDE DEF n, taken
  <1>12. Region(b) \subseteq Region(Buffer(m)) \/ Region(b) \subseteq available
    BY <1>3
  <1>13. BuffersExclusive' /\ FreeIsEmpty'
    BY ONLY Inv, m \in Mutators, b \in BumpPointer, <1>2, <1>3, <1>4, <1>6,
            <1>7, <1>10, <1>11, <1>12, ExclusiveKept DEF Inv
  <1> QED BY <1>7, <1>8, <1>9, <1>13 DEF Inv

\* A step of m that changes neither its buffer nor the heap keeps the rest.
LEMMA InvSameBuffer ==
    ASSUME Inv, TypeOK', NoBuffer', Stopped', NEW m \in Bound,
           Buffer(m)' = Buffer(m),
           \A k \in Bound' \ {m} : k \in Bound /\ Buffer(k)' = Buffer(k),
           UNCHANGED <<objects, available>>
    PROVE  Inv'
  <1>1. m \in Mutators /\ Buffer(m) \in BumpPointer
    BY DEF Bound, Buffer, Inv, TypeOK
  <1>2. available' = available \ Region(Buffer(m))
    BY DEF Inv, BuffersExclusive
  <1>3. BuffersExclusive' /\ FreeIsEmpty'
    BY ONLY Inv, TypeOK', m \in Bound, Buffer(m)' = Buffer(m),
            \A k \in Bound' \ {m} : k \in Bound /\ Buffer(k)' = Buffer(k),
            UNCHANGED <<objects, available>>, <1>1, <1>2, ExclusiveKept DEF Inv
  <1> QED BY <1>3 DEF Inv, NoOverlap

\* The other ends of mmtk_alloc leave the heap alone, and reading the values
\* again makes the copy what the mutator's buffer is.
LEMMA InvCallEnds ==
    ASSUME Inv, ~panicked, NEW m \in Mutators,
           BlockForGc(m) \/ out_of_memory(m) \/ FinishSlowPath(m)
    PROVE  Inv'
  <1> USE DEF BlockForGc, out_of_memory, FinishSlowPath, Goto,
              mmtk_get_default_thread_local_cursor_limit
  <1>1. /\ world = "running" /\ HasBumpPointer /\ m \in Bound
        /\ Buffer(m) = allocator[m]
    BY InCall
  <1>2. TypeOK'
    BY <1>1 DEF Inv, TypeOK
  <1>3. NoBuffer' /\ Stopped'
    BY <1>1 DEF Inv, TypeOK, NoBuffer, Stopped, HasBumpPointer
  <1>4. Buffer(m)' = Buffer(m)
    BY <1>1 DEF Buffer, Inv, TypeOK
  <1>5. \A k \in Bound' \ {m} : k \in Bound /\ Buffer(k)' = Buffer(k)
    BY DEF Bound, Buffer, Inv, TypeOK
  <1>6. UNCHANGED <<objects, available>>
    OBVIOUS
  <1> QED BY ONLY Inv, <1>1, <1>2, <1>3, <1>4, <1>5, <1>6, InvSameBuffer

\* Threads stop where their buffer stays what it was.
LEMMA InvStop == ASSUME Inv, StopMutators PROVE Inv'
  <1> USE DEF StopMutators
  <1>1. TypeOK' /\ NoOverlap' /\ FreeIsEmpty' /\ NoBuffer' /\ Stopped'
    BY DEF Inv, TypeOK, NoOverlap, FreeIsEmpty, NoBuffer, Stopped,
           HasBumpPointer, Bound
  <1>2. Bound' = Bound /\ \A m \in Bound : Buffer(m)' = Buffer(m)
    BY DEF Bound, Buffer
  <1>3. BuffersExclusive'
    BY <1>2 DEF BuffersExclusive, Inv
  <1> QED BY <1>1, <1>3 DEF Inv

\* The collection takes every buffer back.
LEMMA InvCollect ==
    ASSUME Inv, NEW K \in SUBSET Words, Collect(K)
    PROVE  Inv'
  <1> USE DEF Collect
  <1>1. TypeOK'
    BY EmptyBuffer DEF Inv, TypeOK
  <1>2. NoOverlap' /\ FreeIsEmpty' /\ NoBuffer' /\ Stopped'
    BY DEF Inv, TypeOK, NoOverlap, FreeIsEmpty, NoBuffer, Stopped,
           HasBumpPointer, Bound, mutators
  <1>3. \A m \in Bound' : Region(Buffer(m)') = {}
    BY EmptyBuffer DEF Bound, Buffer, mutators, Inv, TypeOK
  <1>4. BuffersExclusive'
    BY <1>3 DEF BuffersExclusive
  <1> QED BY <1>1, <1>2, <1>4 DEF Inv

\* Every thread resumes with the empty buffer that the collection left.
LEMMA InvResume == ASSUME Inv, ResumeMutators PROVE Inv'
  <1> USE DEF ResumeMutators
  <1>1. TypeOK'
    BY DEF Inv, TypeOK
  <1>2. NoOverlap' /\ FreeIsEmpty' /\ NoBuffer' /\ Stopped'
    BY DEF Inv, TypeOK, NoOverlap, FreeIsEmpty, NoBuffer, Stopped,
           HasBumpPointer, Bound
  <1>3. \A m \in Bound' : Region(Buffer(m)') = {}
    BY EmptyBuffer DEF Bound, Buffer, Inv, TypeOK, Stopped
  <1>4. BuffersExclusive'
    BY <1>3 DEF BuffersExclusive
  <1> QED BY <1>1, <1>2, <1>4 DEF Inv

\* Every step keeps the invariant.
LEMMA InvStep == Inv /\ [Next]_vars => Inv'
  <1> SUFFICES ASSUME Inv, [Next]_vars PROVE Inv'
    OBVIOUS
  <1>1. CASE UNCHANGED vars
    BY <1>1 DEF vars, Inv, TypeOK, NoOverlap, BuffersExclusive, FreeIsEmpty,
                NoBuffer, Stopped, Bound, Buffer, Region, HasBumpPointer
  <1>2. ASSUME ~panicked, NEW m \in Mutators, mmtk_alloc(m)
        PROVE  Inv'
    <2>1. CASE AllocInBuffer(m)
      BY <1>2, <2>1, InvAllocateFrom DEF AllocInBuffer, Inv, TypeOK
    <2>2. ASSUME NEW b \in BumpPointer, AcquireBuffer(m, b)
          PROVE  Inv'
      BY <1>2, <2>2, InvAllocateFrom DEF AcquireBuffer
    <2> QED BY <1>2, <2>1, <2>2, InvCallEnds DEF mmtk_alloc
  <1>3. CASE ~panicked /\ Next
    BY <1>2, <1>3, InvAttach, InvFastPath, InvSlowPath, InvCallEnds, InvStop,
       InvCollect, InvResume DEF Next
  <1> QED BY <1>1, <1>3 DEF Next

(***************************************************************************)
(* The theorems                                                            *)
(***************************************************************************)
\* The invariant behind both properties holds in every behaviour.
THEOREM Invariant == Spec => []Inv
  BY InvInit, InvStep, PTL DEF Spec

\* Buffers are exclusive for any number of threads: no copy of a cursor, in
\* ART or in the mutator, ever stands for memory that belongs to another.
THEOREM BuffersStayExclusive == Spec => []BuffersExclusive
  <1>1. Inv => BuffersExclusive
    BY DEF Inv
  <1> QED BY <1>1, Invariant, PTL

\* No two live objects share memory.
THEOREM ObjectsNeverOverlap == Spec => []NoOverlap
  <1>1. Inv => NoOverlap
    BY DEF Inv
  <1> QED BY <1>1, Invariant, PTL
============================================================================
