---------------------------- MODULE ObjectModel ----------------------------
(***************************************************************************)
(* Copying objects (mmtk/src/object_model.rs).  GC workers trace slots; the *)
(* one that claims an object computes its size through its class, copies   *)
(* it, header included, and publishes the forwarding pointer in the old    *)
(* header, while others wait for it and read classes that may be copied at *)
(* the same time.  The tracing of mmtk-core is external.  Objects are      *)
(* words of four bytes at places of the heap; a place is an address.       *)
(***************************************************************************)
EXTENDS Integers

CONSTANTS
    Workers,     \* GC workers
    Places,      \* addresses
    Roots,       \* root slots of ART
    Graphs,      \* references of objects and roots: [refs, roots]
    MaxGcs       \* bound on collections; the second meets what the first left

ASSUME ObjectModelAssumption ==
    /\ Places \subseteq Nat \ {0} /\ 1 .. 4 \subseteq Places
    /\ MaxGcs \in Nat
    /\ Graphs \subseteq [refs  : [{3, 4} -> 0 .. 4], roots : [Roots -> {3, 4}]]

(***************************************************************************)
(* Layout of objects                                                       *)
(***************************************************************************)
Klass == 0
Monitor == 1
Field == 2        \* class_loader of a class, the field of an instance
ObjectSize == 3
ClassSize == 4
Words == 0 .. 5

MIN_ALIGNMENT == 8
LOCAL_FORWARDING_POINTER_SPEC == 32      \* in_header: a bit of the object

\* java.lang.Class, which does not move, a class, and two instances of it.
JavaLangClass == 1
AClass == 2
Instances == {3, 4}
Objects == {JavaLangClass, AClass} \cup Instances

Header(hash) == [hash |-> hash, bits |-> "none"]

\* An object as ART creates it; ref is the reference that it holds.
NewObject(o, ref) ==
    [w \in Words |->
        CASE w = Klass   -> IF o \in Instances THEN AClass ELSE JavaLangClass
          [] w = Monitor -> Header(o)
          [] w = Field   -> ref
          [] w = ObjectSize -> 12
          [] w = ClassSize  -> 20
          [] OTHER -> 0]
Unused == [NewObject(JavaLangClass, 0) EXCEPT ![Klass] = 0, ![ObjectSize] = 0,
                                              ![ClassSize] = 0]

NoJob == [pc |-> "idle", slot |-> <<0, 0>>, obj |-> 0, dst |-> 0, bytes |-> 0]

VARIABLES
    heap,      \* heap[a]: the words at place a
    root,      \* root[r]: the reference in a root slot
    used,      \* places that hold objects or copies
    pinned,    \* pinning bits
    held,      \* what ART has pinned: <<place, hash code>> (history)
    graph,     \* how ART has connected objects and roots (history)
    world,     \* "idle" or "gc"
    gcs,       \* number of collections so far
    from,      \* places in use when the collection began
    before,    \* before[a]: the words at place a at that time (history)
    marked,    \* objects of this collection that stay or have been copied
    queue,     \* slots to trace
    job        \* job[w]: control and locals of worker w

art   == <<pinned, held, graph>>
gc    == <<world, gcs, from, before>>
trace == <<marked, queue>>
vars  == <<heap, root, used, art, gc, trace, job>>

Init ==
    \E g \in Graphs :
        /\ graph = g
        /\ heap = [a \in Places |->
                     CASE a \in Instances -> NewObject(a, g.refs[a])
                       [] a \in Objects \ Instances -> NewObject(a, 0)
                       [] OTHER -> Unused]
        /\ root = g.roots
        /\ used = Objects
        /\ pinned = {} /\ held = {}
        /\ world = "idle" /\ gcs = 0 /\ from = {} /\ before = heap
        /\ marked = {} /\ queue = {}
        /\ job = [w \in Workers |-> NoJob]

Bits(a) == heap[a][Monitor].bits
Hash(a) == heap[a][Monitor].hash
At(w, label) == job[w].pc = label

\* The slots that scan_object visits; a slot is <<place, word>>, or
\* <<0, root>>.
Slots(a) == {<<a, Klass>>, <<a, Field>>}
Load(s) == IF s[1] = 0 THEN root[s[2]] ELSE heap[s[1]][s[2]]

(***************************************************************************)
(* Sizes                                                                   *)
(***************************************************************************)
get_class(o) == heap[o][Klass]

\* A class whose class it is itself.  "OK to look at old copies since
\* java.lang.Class.class is non-moveable".
is_class_class(k) == k = get_class(k)

\* Of instances and classes; ObjectScan has arrays and strings.
get_object_size(o) == IF is_class_class(get_class(o))
                        THEN heap[o][ClassSize]
                        ELSE heap[get_class(o)][ObjectSize]

raw_align_up(n, align) == ((n + align - 1) \div align) * align

\* Faulty: rounded down.
AlignedDown(o) == (get_object_size(o) \div MIN_ALIGNMENT) * MIN_ALIGNMENT

get_current_size(o) == raw_align_up(get_object_size(o), MIN_ALIGNMENT)

get_size_when_copied(o) == get_current_size(o)

(***************************************************************************)
(* Queries and pinning                                                     *)
(***************************************************************************)
\* Null as long as the object is being copied.
mmtk_get_forwarded_object(a) ==
    IF Bits(a) = "forwarded" THEN Hash(a) ELSE 0

IsForwarded(a) == mmtk_get_forwarded_object(a) # 0

\* Faulty: nothing is pinned.
PinsNothing(a) == UNCHANGED pinned

mmtk_pin_object(a) == pinned' = pinned \cup {a}

\* ART pins an object that it passes to native code.
Pin(r) ==
    /\ world = "idle"
    /\ mmtk_pin_object(root[r])
    /\ held' = held \cup {<<root[r], Hash(root[r])>>}
    /\ UNCHANGED <<heap, root, used, graph, gc, trace, job>>

(***************************************************************************)
(* A collection (mmtk-core, external)                                      *)
(***************************************************************************)
StartGc ==
    /\ world = "idle" /\ world' = "gc"
    /\ gcs < MaxGcs /\ gcs' = gcs + 1
    /\ from' = used /\ before' = heap /\ marked' = {}
    /\ queue' = {<<0, r>> : r \in Roots}
    /\ UNCHANGED <<heap, root, used, art, job>>

\* A slot that holds null needs no work.
Take(w, s) ==
    /\ At(w, "idle") /\ s \in queue
    /\ queue' = queue \ {s}
    /\ job' = IF Load(s) = 0 THEN job
              ELSE [job EXCEPT ![w] = [@ EXCEPT !.pc = "trace", !.slot = s,
                                                !.obj = Load(s)]]
    /\ UNCHANGED <<heap, root, used, art, gc, marked>>

InPlace(a) == a = JavaLangClass \/ a \in pinned

\* The object stays where it is, or is a copy already.
TraceInPlace(w) ==
    LET o == job[w].obj
    IN  /\ At(w, "trace") /\ (o \notin from \/ InPlace(o))
        /\ marked' = marked \cup {o}
        /\ queue' = IF o \in marked THEN queue ELSE queue \cup Slots(o)
        /\ job' = [job EXCEPT ![w] = NoJob]
        /\ UNCHANGED <<heap, root, used, art, gc>>

\* attempt_to_forward: the worker that sets the bits copies the object.
Claim(w) ==
    LET o == job[w].obj
    IN  /\ At(w, "trace") /\ o \in from /\ ~InPlace(o) /\ Bits(o) = "none"
        /\ heap' = [heap EXCEPT ![o][Monitor].bits = "being_forwarded"]
        /\ job' = [job EXCEPT ![w].pc = "size"]
        /\ UNCHANGED <<root, used, art, gc, trace>>

\* Others wait until the object is forwarded.
Spin(w) ==
    LET o == job[w].obj
    IN  /\ At(w, "trace") /\ o \in from /\ IsForwarded(o)
        /\ job' = [job EXCEPT ![w] = [@ EXCEPT !.pc = "store",
                                        !.dst = mmtk_get_forwarded_object(o)]]
        /\ UNCHANGED <<heap, root, used, art, gc, trace>>

(***************************************************************************)
(* ObjectModel::copy                                                       *)
(***************************************************************************)
\* The first place that is free.
AllocCopy(w) ==
    \E a \in Places \ used :
        /\ At(w, "size") /\ \A b \in Places \ used : a <= b
        /\ used' = used \cup {a}
        /\ job' = [job EXCEPT ![w] =
                     [@ EXCEPT !.pc = "copy", !.dst = a,
                               !.bytes = get_size_when_copied(job[w].obj)]]
        /\ UNCHANGED <<heap, root, art, gc, trace>>

\* copy_nonoverlapping, header included; what lies behind keeps its words.
CopyWords(w) ==
    /\ At(w, "copy")
    /\ heap' = [heap EXCEPT ![job[w].dst] =
                  [i \in Words |-> IF 4 * i < job[w].bytes
                                     THEN heap[job[w].obj][i] ELSE @[i]]]
    /\ job' = [job EXCEPT ![w].pc = "post_copy"]
    /\ UNCHANGED <<root, used, art, gc, trace>>

\* Faulty: the copy keeps the header of an object that is being copied.
NoPostCopy(w) ==
    /\ At(w, "post_copy")
    /\ job' = [job EXCEPT ![w].pc = "forward"]
    /\ UNCHANGED <<heap, root, used, art, gc, trace>>

\* post_copy clears the forwarding bits of the copy.
PostCopy(w) ==
    /\ At(w, "post_copy")
    /\ heap' = [heap EXCEPT ![job[w].dst][Monitor].bits = "none"]
    /\ job' = [job EXCEPT ![w].pc = "forward"]
    /\ UNCHANGED <<root, used, art, gc, trace>>

\* The forwarding pointer replaces the word of the header that the spec names.
Forward(w) ==
    LET word == LOCAL_FORWARDING_POINTER_SPEC \div 32
        copy == job[w].dst
    IN  /\ At(w, "forward")
        /\ heap' = [heap EXCEPT ![job[w].obj][word] =
                      [hash |-> copy, bits |-> "forwarded"]]
        /\ marked' = marked \cup {copy}
        /\ queue' = queue \cup Slots(copy)
        /\ job' = [job EXCEPT ![w].pc = "store"]
        /\ UNCHANGED <<root, used, art, gc>>

Store(w) ==
    LET s == job[w].slot
    IN  /\ At(w, "store")
        /\ IF s[1] = 0
             THEN root' = [root EXCEPT ![s[2]] = job[w].dst] /\ UNCHANGED heap
             ELSE /\ heap' = [heap EXCEPT ![s[1]][s[2]] = job[w].dst]
                  /\ UNCHANGED root
        /\ job' = [job EXCEPT ![w] = NoJob]
        /\ UNCHANGED <<used, art, gc, trace>>

\* What was not reached is free, and so are the old copies.
EndGc ==
    /\ world = "gc" /\ world' = "idle"
    /\ queue = {} /\ \A w \in Workers : At(w, "idle")
    /\ used' = marked \cup {JavaLangClass}
    /\ pinned' = pinned \cap marked
    /\ held' = {h \in held : \E a \in marked : Hash(a) = h[2]}
    /\ from' = {} /\ marked' = {}
    /\ heap' = [a \in Places |-> IF a \in used' THEN heap[a] ELSE Unused]
    /\ UNCHANGED <<root, graph, gcs, before, queue, job>>

Trace(w) ==
    \/ \E s \in queue : Take(w, s)
    \/ TraceInPlace(w) \/ Claim(w) \/ Spin(w)
    \/ AllocCopy(w) \/ CopyWords(w) \/ PostCopy(w) \/ Forward(w)
    \/ Store(w)

Next ==
    \/ \E r \in Roots : Pin(r)
    \/ StartGc \/ EndGc
    \/ \E w \in Workers : Trace(w)

Spec == Init /\ [][Next]_vars

(***************************************************************************)
(* Properties                                                              *)
(***************************************************************************)
\* The words that ART gave an object: twelve bytes, or twenty of a class.
WordsOf(o) == {i \in Words : 4 * i < IF o \in Instances THEN 12 ELSE 20}

\* A reference to old as tracing leaves it: not yet traced, or updated to the
\* place where the object is now.
Follows(ref, old) ==
    \/ ref = old
    \/ old \in from /\ IsForwarded(old) /\ ref = mmtk_get_forwarded_object(old)

\* The words at place c are those of the object src: its hash code with clear
\* forwarding bits, its sizes, and references to the same objects.
IsCopy(c, src) ==
    \A i \in WordsOf(src[Monitor].hash) :
        IF i \in {Klass, Field} THEN Follows(heap[c][i], src[i])
                               ELSE heap[c][i] = src[i]

\* Whatever mmtk_get_forwarded_object and a waiting worker see is a complete
\* copy of the object that was at the old place when the collection began:
\* copied in full, with a size read through a class that others may be
\* copying as well, and with the header the object had, so that it may be
\* scanned ("Object {} has forwarding bits", scan_object).
PublishedComplete ==
    \A a \in from : IsForwarded(a) =>
        LET c == mmtk_get_forwarded_object(a)
        IN  c \in used \ from /\ IsCopy(c, before[a])

\* Between collections roots and objects are connected as ART connected
\* them, and every object exists once: racing workers have made one copy of
\* each and all slots have followed it.
GraphPreserved ==
    world = "idle" =>
        /\ \A r \in Roots : Hash(root[r]) = graph.roots[r]
        /\ \A a \in used :
             /\ Bits(a) = "none"
             /\ Hash(a) = AClass =>
                  heap[a][ObjectSize] = 12 /\ heap[a][ClassSize] = 20
             /\ \A b \in used \ {a} : Hash(a) # Hash(b)
             /\ Hash(get_class(a)) =
                  IF Hash(a) \in Instances THEN AClass ELSE JavaLangClass
             /\ Hash(a) \in Instances =>
                  IF heap[a][Field] = 0 THEN graph.refs[Hash(a)] = 0
                  ELSE Hash(heap[a][Field]) = graph.refs[Hash(a)]

\* An object that ART has pinned stays at its address through collections,
\* although slots that refer to it are traced by several workers.
PinnedStays ==
    world = "idle" => \A h \in held : h[1] \in used /\ Hash(h[1]) = h[2]
============================================================================
