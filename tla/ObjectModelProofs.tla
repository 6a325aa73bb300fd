------------------------- MODULE ObjectModelProofs -------------------------
(***************************************************************************)
(* Proofs about ObjectModel: whatever a forwarding pointer leads to is a   *)
(* complete copy, a collection leaves the graph of objects as it was, and  *)
(* pinned objects stay, for every number of workers, places, roots and     *)
(* collections.                                                            *)
(***************************************************************************)
EXTENDS ObjectModel, TLAPS

(***************************************************************************)
(* The inductive invariant                                                 *)
(***************************************************************************)
Headers  == [hash : Nat, bits : {"none", "being_forwarded", "forwarded"}]
AllSlots == ({0} \X Roots) \cup (Places \X {Klass, Field})
Copying  == {"size", "copy", "post_copy", "forward"}
HasCopy  == {"copy", "post_copy", "forward"}
Jobs     == [pc : {"idle", "trace", "store"} \cup Copying,
             slot : AllSlots \cup {<<0, 0>>}, obj : Nat, dst : Nat, bytes : Nat]

\* The variables have their types; a word other than the header is a number
\* or a reference.
TypeOK ==
    /\ heap = [a \in Places |-> heap[a]]
    /\ \A a \in Places : /\ heap[a] = [i \in Words |-> heap[a][i]]
                         /\ heap[a][Monitor] \in Headers
    /\ root = [r \in Roots |-> root[r]]
    /\ used \subseteq Places /\ pinned \subseteq Places
    /\ held \subseteq Nat \X Nat
    /\ graph \in Graphs
    /\ world \in {"idle", "gc"}
    /\ from \subseteq used /\ marked \subseteq used
    /\ queue \subseteq AllSlots
    /\ job \in [Workers -> Jobs]

\* Nothing is left of a collection when it is over.
Over ==
    world = "idle" => /\ from = {} /\ marked = {} /\ queue = {}
                      /\ \A w \in Workers : At(w, "idle")

\* The objects at the beginning of the collection, or now if there is none,
\* and these together with the copies that have been published.
Base == IF world = "idle" THEN used ELSE from
Objs == Base \cup marked

\* Which object a place holds, also when its header has been overwritten by
\* a forwarding pointer; null stands for itself.
Ident(a) == IF a = 0 THEN 0
            ELSE IF Bits(a) = "forwarded" THEN Hash(Hash(a)) ELSE Hash(a)

ClassOf(o) == IF o \in Instances THEN AClass ELSE JavaLangClass
RefOf(o)   == IF o \in Instances THEN graph.refs[o] ELSE 0

\* What a place holds: its references lead to the objects that ART stored.
Body(a) ==
    /\ Ident(a) \in Objects
    /\ heap[a][Klass] \in Objs /\ Ident(heap[a][Klass]) = ClassOf(Ident(a))
    /\ heap[a][Field] \in Objs \cup {0}
    /\ Ident(heap[a][Field]) = RefOf(Ident(a))
    /\ Ident(a) = AClass => heap[a][ObjectSize] = 12 /\ heap[a][ClassSize] = 20

Bodies ==
    /\ \A a \in Objs : Body(a)
    /\ \A r \in Roots : root[r] \in Objs /\ Ident(root[r]) = graph.roots[r]

\* There is one place for each object, and java.lang.Class does not move.
Unique ==
    /\ \A a, b \in Base : Ident(a) = Ident(b) => a = b
    /\ JavaLangClass \in Base
    /\ heap[JavaLangClass][Klass] = JavaLangClass
    /\ heap[JavaLangClass][Field] = 0
    /\ heap[JavaLangClass][Monitor] = Header(JavaLangClass)

\* What is marked has its own header; a forwarding pointer leads from an old
\* place to a copy, and to every copy there is one.
Forwarding ==
    /\ \A a \in Objs : world = "idle" \/ a \in marked \/ InPlace(a) =>
           Bits(a) = "none"
    /\ \A a \in marked \cap from : InPlace(a)
    /\ \A a \in from : Bits(a) = "forwarded" => Hash(a) \in marked \ from
    /\ \A c \in marked \ from :
           \E b \in from : Bits(b) = "forwarded" /\ Hash(b) = c

\* An object has been claimed by one worker, and its copy is nobody else's.
Claims ==
    /\ \A w \in Workers : job[w].pc \in Copying =>
           job[w].obj \in from /\ Bits(job[w].obj) = "being_forwarded"
    /\ \A w, v \in Workers :
           job[w].pc \in Copying /\ job[v].pc \in Copying
             /\ job[w].obj = job[v].obj => w = v
    /\ \A w \in Workers : job[w].pc \in HasCopy =>
           job[w].dst \in used \ (from \cup marked)
    /\ \A w, v \in Workers :
           job[w].pc \in HasCopy /\ job[v].pc \in HasCopy
             /\ job[w].dst = job[v].dst => w = v

\* Copying gets the whole object, whatever happens to its class meanwhile.
SizeOf(o) == IF o = AClass THEN 24 ELSE 16
SameWords(c, o) ==
    /\ Hash(c) = Hash(o)
    /\ heap[c][Klass] = heap[o][Klass] /\ heap[c][Field] = heap[o][Field]
    /\ Hash(o) = AClass => /\ heap[c][ObjectSize] = heap[o][ObjectSize]
                           /\ heap[c][ClassSize] = heap[o][ClassSize]
CopyOf(w) ==
    /\ At(w, "copy") => job[w].bytes = SizeOf(Hash(job[w].obj))
    /\ At(w, "post_copy") \/ At(w, "forward") => SameWords(job[w].dst, job[w].obj)
    /\ At(w, "forward") => Bits(job[w].dst) = "none"
Copies == \A w \in Workers : CopyOf(w)

\* A worker is at the slot of a root or of a marked object, which holds the
\* object in hand or has been updated already; it stores a published copy.
InHand(s, o) ==
    /\ s \in AllSlots /\ s[1] \in marked \cup {0} /\ o \in Objs
    /\ Load(s) = o \/ Load(s) \in marked
    /\ Ident(Load(s)) = Ident(o)
Published(o, c) == o \in from /\ Bits(o) = "forwarded" /\ Hash(o) = c
Tracing ==
    /\ \A s \in queue : s[1] \in marked \cup {0}
    /\ \A w \in Workers : job[w].pc # "idle" => InHand(job[w].slot, job[w].obj)
    /\ \A w \in Workers : At(w, "store") => Published(job[w].obj, job[w].dst)

\* A slot of a root or of a marked object is queued, a worker is at it, or it
\* leads to a marked object.
Done(s) == \/ s \in queue
           \/ \E w \in Workers : job[w].pc # "idle" /\ job[w].slot = s
           \/ Load(s) \in marked \cup {0}
Traced ==
    world = "gc" => \A s \in AllSlots : s[1] \in marked \cup {0} => Done(s)

\* Pinned objects are where they were.
Pins ==
    /\ pinned \subseteq Base
    /\ \A h \in held : h[1] \in pinned /\ Hash(h[1]) = h[2]

Inv ==
    /\ TypeOK /\ Over /\ Bodies /\ Unique /\ Forwarding /\ Claims /\ Copies
    /\ Tracing /\ Traced /\ Pins

\* What before records: the header of every object, references to objects
\* that existed, the words of what has not been reached yet, and what copies
\* have been made of.
Recorded(a) ==
    /\ before[a][Monitor] = Header(Ident(a))
    /\ before[a][Klass] \in from /\ before[a][Field] \in from \cup {0}
    /\ a \notin marked => \A i \in Words \ {Monitor} : heap[a][i] = before[a][i]
    /\ Bits(a) = "forwarded" => IsCopy(Hash(a), before[a])
Snapshot == world = "gc" => \A a \in from : Recorded(a)

(***************************************************************************)
(* Facts about states                                                      *)
(***************************************************************************)
\* Objects are at places, and no place is null.
LEMMA ObjsArePlaces ==
    ASSUME TypeOK
    PROVE  Base \subseteq Places /\ Objs \subseteq Places /\ 0 \notin Places
           /\ Places \subseteq Nat
  BY ObjectModelAssumption DEF TypeOK, Base, Objs

\* A marked object has its own header.
LEMMA MarkedIdent ==
    ASSUME Inv, NEW a \in marked
    PROVE  Bits(a) = "none" /\ Ident(a) = Hash(a)
           /\ heap[a][Monitor] = Header(Hash(a))
  <1>1. Bits(a) = "none" /\ a # 0 /\ a \in Places
    BY ObjsArePlaces DEF Inv, Forwarding, Objs
  <1>2. heap[a][Monitor] \in Headers
    BY <1>1 DEF Inv, TypeOK
  <1> QED BY <1>1, <1>2 DEF Ident, Bits, Hash, Header, Headers

\* A worker that is not idle is in a collection.
LEMMA BusyInGc ==
    ASSUME Inv, NEW w \in Workers, job[w].pc # "idle"
    PROVE  world = "gc" /\ Base = from /\ Objs = from \cup marked
  BY DEF Inv, TypeOK, Over, At, Base, Objs

\* java.lang.Class is at its own place only.
LEMMA OneJavaLangClass ==
    ASSUME Inv, NEW a \in Objs, Ident(a) = JavaLangClass
    PROVE  a = JavaLangClass
  <1>1. JavaLangClass \in Base /\ Ident(JavaLangClass) = JavaLangClass
        /\ Bits(JavaLangClass) = "none"
    BY DEF Inv, Unique, Ident, Bits, Hash, Header, JavaLangClass
  <1>2. CASE a \in Base
    BY <1>1, <1>2 DEF Inv, Unique
  <1>3. CASE a \notin Base
    <2>1. a \in marked \ from /\ Base = from
      BY <1>3 DEF Inv, Over, TypeOK, Objs, Base
    <2>2. PICK b \in from : Bits(b) = "forwarded" /\ Hash(b) = a
      BY <2>1 DEF Inv, Forwarding
    <2>3. Ident(b) = JavaLangClass
      <3>1. Hash(a) = JavaLangClass
        BY <2>1, MarkedIdent
      <3> QED BY <2>1, <2>2, <3>1, ObjsArePlaces DEF Ident, Inv
    <2>4. b = JavaLangClass
      BY <1>1, <2>1, <2>3 DEF Inv, Unique
    <2> QED BY <1>1, <2>2, <2>4
  <1> QED BY <1>2, <1>3

(***************************************************************************)
(* Steps that leave the heap alone                                         *)
(***************************************************************************)
LEMMA SameHeap ==
    ASSUME heap' = heap
    PROVE  \A a : /\ Ident(a)' = Ident(a) /\ Bits(a)' = Bits(a)
                  /\ Hash(a)' = Hash(a)
  BY DEF Ident, Bits, Hash

LEMMA PinStep ==
    ASSUME Inv, NEW r \in Roots, Pin(r)
    PROVE  Inv'
  <1>1. /\ world = "idle" /\ pinned' = pinned \cup {root[r]}
        /\ held' = held \cup {<<root[r], Hash(root[r])>>}
        /\ UNCHANGED <<heap, root, used, graph, world, gcs, from, marked, queue,
                       job>>
    BY DEF Pin, mmtk_pin_object, gc, trace
  <1>2. /\ from = {} /\ marked = {} /\ queue = {}
        /\ \A w \in Workers : At(w, "idle")
    BY <1>1 DEF Inv, Over
  <1>3. /\ root[r] \in used /\ root[r] \in Places /\ root[r] \in Nat
        /\ Hash(root[r]) \in Nat
    BY <1>1, <1>2, ObjsArePlaces
    DEF Inv, Bodies, Objs, Base, TypeOK, Hash, Headers
  <1>4. /\ Base' = Base /\ Objs' = Objs
        /\ \A w \in Workers : \A l : At(w, l)' = At(w, l)
    BY <1>1 DEF Base, Objs, At
  <1>5. TypeOK'
    BY <1>1, <1>3 DEF Inv, TypeOK
  <1>6. Over' /\ Claims' /\ Copies' /\ Tracing' /\ Traced'
    BY <1>1, <1>2, <1>4 DEF Inv, Over, Claims, Copies, CopyOf, Tracing, Traced,
                            Copying, HasCopy, At
  <1>7. Bodies' /\ Unique'
    BY <1>1, <1>4, SameHeap DEF Inv, Bodies, Body, Unique, RefOf
  <1>8. Forwarding'
    BY <1>1, <1>2, <1>4, SameHeap DEF Inv, Forwarding
  <1>9. Pins'
    BY <1>1, <1>2, <1>3, <1>4, SameHeap DEF Inv, Pins, Base
  <1> QED BY <1>5, <1>6, <1>7, <1>8, <1>9 DEF Inv

LEMMA StartGcStep ==
    ASSUME Inv, StartGc
    PROVE  Inv'
  <1>1. /\ world = "idle" /\ world' = "gc" /\ from' = used /\ marked' = {}
        /\ queue' = {<<0, r>> : r \in Roots}
        /\ UNCHANGED <<heap, root, used, pinned, held, graph, job>>
    BY DEF StartGc, art
  <1>2. /\ from = {} /\ marked = {} /\ queue = {}
        /\ \A w \in Workers : At(w, "idle")
    BY <1>1 DEF Inv, Over
  <1>3. /\ Base = used /\ Objs = used /\ Base' = used /\ Objs' = used
        /\ \A w \in Workers : At(w, "idle")'
    BY <1>1, <1>2 DEF Base, Objs, At
  <1>4. TypeOK'
    BY <1>1 DEF Inv, TypeOK, AllSlots
  <1>5. Over' /\ Claims' /\ Copies'
    BY <1>1, <1>3 DEF Over, Claims, Copies, CopyOf, Copying, HasCopy, At
  <1>6. Tracing' /\ Traced'
    BY <1>1, <1>3, ObjsArePlaces DEF Inv, Tracing, Traced, Done, AllSlots, At
  <1>7. Bodies' /\ Unique'
    BY <1>1, <1>3, SameHeap DEF Inv, Bodies, Body, Unique, RefOf
  <1>8. Forwarding'
    BY <1>1, <1>2, <1>3, SameHeap DEF Inv, Forwarding
  <1>9. Pins'
    BY <1>1, <1>3, SameHeap DEF Inv, Pins
  <1> QED BY <1>4, <1>5, <1>6, <1>7, <1>8, <1>9 DEF Inv

\* While a worker traces, nothing but the slots in hand and what is marked
\* changes for the objects: the conditions on places are kept.
LEMMA PlacesKept ==
    ASSUME Inv, UNCHANGED <<heap, root, pinned, held, graph, world, from, marked>>,
           world = "gc"
    PROVE  Bodies' /\ Unique' /\ Forwarding' /\ Pins' /\ Base' = Base
           /\ Objs' = Objs
  <1>1. Base' = Base /\ Objs' = Objs
    BY DEF Base, Objs
  <1>2. Bodies' /\ Unique'
    BY <1>1, SameHeap DEF Inv, Bodies, Body, Unique, RefOf
  <1>3. Forwarding'
    BY <1>1, SameHeap DEF Inv, Forwarding, InPlace
  <1>4. Pins'
    BY <1>1, SameHeap DEF Inv, Pins
  <1> QED BY <1>1, <1>2, <1>3, <1>4

\* A slot of a root or of a marked object holds null or an object.
LEMMA LoadedIsObject ==
    ASSUME Inv, NEW s \in AllSlots, s[1] \in marked \cup {0}
    PROVE  Load(s) \in Objs \cup {0}
  <1>1. CASE s[1] = 0
    <2>1. s[2] \in Roots
      BY <1>1, ObjectModelAssumption DEF AllSlots
    <2> QED BY <1>1, <2>1 DEF Inv, Bodies, Load
  <1>2. CASE s[1] # 0
    <2>1. s[1] \in Objs /\ s[2] \in {Klass, Field}
      BY <1>2 DEF AllSlots, Objs
    <2> QED BY <1>2, <2>1 DEF Inv, Bodies, Body, Load
  <1> QED BY <1>1, <1>2

LEMMA TakeStep ==
    ASSUME Inv, NEW w \in Workers, NEW s \in queue, Take(w, s)
    PROVE  Inv'
  <1>1. /\ job[w].pc = "idle" /\ queue' = queue \ {s}
        /\ job' = IF Load(s) = 0 THEN job
                  ELSE [job EXCEPT ![w] = [@ EXCEPT !.pc = "trace", !.slot = s,
                                                    !.obj = Load(s)]]
        /\ UNCHANGED <<heap, root, used, pinned, held, graph, world, from, marked>>
    BY DEF Take, At, art, gc
  <1>2. world = "gc"
    BY DEF Inv, Over, TypeOK
  <1>3. /\ s \in AllSlots /\ s[1] \in marked \cup {0}
        /\ Load(s) \in Objs \cup {0} /\ Load(s) \in Nat
    <2>1. s \in AllSlots /\ s[1] \in marked \cup {0}
      BY DEF Inv, TypeOK, Tracing
    <2> QED BY <2>1, LoadedIsObject, ObjsArePlaces DEF Inv
  <1>4. Bodies' /\ Unique' /\ Forwarding' /\ Pins' /\ Base' = Base /\ Objs' = Objs
    BY <1>1, <1>2, PlacesKept
  <1>5. /\ \A v \in Workers \ {w} : job'[v] = job[v]
        /\ Load(s) = 0 => job' = job
        /\ Load(s) # 0 => /\ job'[w].pc = "trace" /\ job'[w].slot = s
                          /\ job'[w].obj = Load(s)
    BY <1>1 DEF Inv, TypeOK, Jobs
  <1>6. TypeOK'
    BY <1>1, <1>3 DEF Inv, TypeOK, Jobs
  <1>7. Over'
    BY <1>1, <1>2 DEF Over
  <1>8. Claims' /\ Copies'
    <2>1. \A v \in Workers : job'[v].pc \in Copying \cup {"store"} =>
              job'[v] = job[v]
      BY <1>5 DEF Copying
    <2>2. Claims'
      BY <1>1, <2>1, SameHeap DEF Inv, Claims, Copying, HasCopy
    <2>3. Copies'
      BY <1>1, <2>1, SameHeap DEF Inv, Copies, CopyOf, SameWords, At, Copying
    <2> QED BY <2>2, <2>3
  <1>9. \A t : Load(t)' = Load(t)
    BY <1>1 DEF Load
  <1>10. Tracing'
    <2>1. \A t, o : /\ InHand(t, o)' = InHand(t, o)
                    /\ Published(t, o)' = Published(t, o)
      BY <1>1, <1>4, <1>9, SameHeap DEF InHand, Published
    <2>2. InHand(s, Load(s)) \/ Load(s) = 0
      BY <1>3 DEF InHand
    <2>3. \A t \in queue' : t[1] \in marked' \cup {0}
      BY <1>1 DEF Inv, Tracing
    <2>4. ASSUME NEW v \in Workers, job'[v].pc # "idle"
          PROVE  InHand(job[v].slot, job[v].obj)'
      BY <1>5, <2>1, <2>2, <2>4 DEF Inv, Tracing
    <2>5. ASSUME NEW v \in Workers, At(v, "store")'
          PROVE  Published(job[v].obj, job[v].dst)'
      BY <1>5, <2>1, <2>5 DEF Inv, Tracing, At
    <2> QED BY <2>3, <2>4, <2>5 DEF Tracing
  <1>11. Traced'
    <2> SUFFICES ASSUME NEW t \in AllSlots, t[1] \in marked \cup {0}
                 PROVE  Done(t)'
      BY <1>1 DEF Traced
    <2>1. Done(t)
      BY <1>2 DEF Inv, Traced
    <2>2. CASE t = s
      BY <1>1, <1>5, <1>9, <2>2 DEF Done
    <2>3. CASE t # s
      BY <1>1, <1>5, <1>9, <2>1, <2>3 DEF Done
    <2> QED BY <2>2, <2>3
  <1> QED BY <1>4, <1>6, <1>7, <1>8, <1>10, <1>11 DEF Inv

\* An object that stays, or a copy, is marked once and scanned.
LEMMA TraceInPlaceStep ==
    ASSUME Inv, NEW w \in Workers, TraceInPlace(w)
    PROVE  Inv'
  <1> DEFINE o == job[w].obj
             s == job[w].slot
  <1>1. /\ job[w].pc = "trace" /\ (o \notin from \/ InPlace(o))
        /\ marked' = marked \cup {o}
        /\ queue' = IF o \in marked THEN queue ELSE queue \cup Slots(o)
        /\ job' = [job EXCEPT ![w] = NoJob]
        /\ UNCHANGED <<heap, root, used, pinned, held, graph, world, from>>
    BY DEF TraceInPlace, At, art, gc
  <1>2. world = "gc" /\ Base = from /\ Objs = from \cup marked
    BY <1>1, BusyInGc
  <1>3. InHand(s, o) /\ o \in Objs /\ o \in Places /\ o \in used
    <2>1. InHand(s, o)
      BY <1>1 DEF Inv, Tracing
    <2> QED BY <1>2, <2>1, ObjsArePlaces DEF InHand, Inv, TypeOK
  <1>4. Base' = Base /\ Objs' = Objs
    BY <1>1, <1>2, <1>3 DEF Base, Objs
  <1>5. /\ \A v \in Workers \ {w} : job'[v] = job[v]
        /\ job'[w] = NoJob /\ job'[w].pc = "idle"
    BY <1>1 DEF Inv, TypeOK, NoJob
  <1>6. Slots(o) \subseteq AllSlots /\ \A t \in Slots(o) : t[1] = o
    BY <1>3 DEF Slots, AllSlots
  <1>7. TypeOK'
    <2>1. NoJob \in Jobs
      BY DEF NoJob, Jobs
    <2> QED BY <1>1, <1>3, <1>6, <2>1 DEF Inv, TypeOK
  <1>8. Over'
    BY <1>1, <1>2 DEF Over
  <1>9. Bodies' /\ Unique'
    BY <1>1, <1>4, SameHeap DEF Inv, Bodies, Body, Unique, RefOf
  <1>10. Pins'
    BY <1>1, <1>4, SameHeap DEF Inv, Pins
  <1>11. Forwarding'
    <2>1. Bits(o) = "none" /\ (o \in from => InPlace(o))
      BY <1>1, <1>2, <1>3 DEF Inv, Forwarding
    <2>2. marked' \ from' = marked \ from
      BY <1>1, <1>2, <1>3, <2>1 DEF InPlace
    <2> QED BY <1>1, <1>2, <1>4, <2>1, <2>2, SameHeap DEF Inv, Forwarding, InPlace
  <1>12. Claims'
    BY <1>1, <1>2, <1>3, <1>5, SameHeap DEF Inv, Claims, Copying, HasCopy
  <1>13. Copies'
    BY <1>1, <1>5, SameHeap DEF Inv, Copies, CopyOf, SameWords, At
  <1>14. \A t : Load(t)' = Load(t)
    BY <1>1 DEF Load
  <1>15. Tracing'
    <2>1. \A t, p : /\ InHand(t, p) => InHand(t, p)'
                    /\ Published(t, p)' = Published(t, p)
      BY <1>1, <1>4, <1>14, SameHeap DEF InHand, Published
    <2>2. \A t \in queue' : t[1] \in marked' \cup {0}
      BY <1>1, <1>6 DEF Inv, Tracing
    <2>3. ASSUME NEW v \in Workers, job'[v].pc # "idle"
          PROVE  InHand(job[v].slot, job[v].obj)'
      BY <1>5, <2>1, <2>3 DEF Inv, Tracing
    <2>4. ASSUME NEW v \in Workers, At(v, "store")'
          PROVE  Published(job[v].obj, job[v].dst)'
      BY <1>5, <2>1, <2>4 DEF Inv, Tracing, At
    <2> QED BY <2>2, <2>3, <2>4 DEF Tracing
  <1>16. Traced'
    <2> SUFFICES ASSUME NEW t \in AllSlots, t[1] \in marked' \cup {0}
                 PROVE  Done(t)'
      BY <1>1 DEF Traced
    <2>1. CASE t[1] \in marked \cup {0}
      <3>1. Done(t)
        BY <1>2, <2>1 DEF Inv, Traced
      <3>2. t = s => Load(t) \in marked'
        BY <1>1, <1>3 DEF InHand
      <3> QED BY <1>1, <1>5, <1>14, <3>1, <3>2 DEF Done
    <2>2. CASE t[1] \notin marked \cup {0}
      <3>1. t[1] = o /\ o \notin marked
        BY <1>1, <2>2
      <3>2. t \in Slots(o)
        BY <2>2, <3>1 DEF AllSlots, Slots
      <3> QED BY <1>1, <3>1, <3>2 DEF Done
    <2> QED BY <2>1, <2>2
  <1> QED BY <1>7, <1>8, <1>9, <1>10, <1>11, <1>12, <1>13, <1>15, <1>16 DEF Inv

LEMMA SpinStep ==
    ASSUME Inv, NEW w \in Workers, Spin(w)
    PROVE  Inv'
  <1> DEFINE o == job[w].obj
  <1>1. /\ job[w].pc = "trace" /\ o \in from /\ IsForwarded(o)
        /\ job' = [job EXCEPT ![w] = [@ EXCEPT !.pc = "store",
                                        !.dst = mmtk_get_forwarded_object(o)]]
        /\ UNCHANGED <<heap, root, used, pinned, held, graph, world, from, marked,
                       queue>>
    BY DEF Spin, At, art, gc, trace
  <1>2. world = "gc"
    BY <1>1, BusyInGc
  <1>3. Bodies' /\ Unique' /\ Forwarding' /\ Pins' /\ Base' = Base /\ Objs' = Objs
    BY <1>1, <1>2, PlacesKept
  <1>4. /\ Bits(o) = "forwarded" /\ mmtk_get_forwarded_object(o) = Hash(o)
        /\ Hash(o) \in Nat
    <2>1. o \in Places
      BY <1>1 DEF Inv, TypeOK
    <2> QED BY <1>1, <2>1
            DEF IsForwarded, mmtk_get_forwarded_object, Inv, TypeOK, Headers, Hash
  <1>5. /\ \A v \in Workers \ {w} : job'[v] = job[v]
        /\ job'[w].pc = "store" /\ job'[w].slot = job[w].slot
        /\ job'[w].obj = o /\ job'[w].dst = Hash(o)
    BY <1>1, <1>4 DEF Inv, TypeOK, Jobs
  <1>6. TypeOK'
    BY <1>1, <1>4 DEF Inv, TypeOK, Jobs
  <1>7. Over'
    BY <1>1, <1>2 DEF Over
  <1>8. Claims'
    BY <1>1, <1>5, SameHeap DEF Inv, Claims, Copying, HasCopy
  <1>9. Copies'
    BY <1>1, <1>5, SameHeap DEF Inv, Copies, CopyOf, SameWords, At
  <1>10. \A t : Load(t)' = Load(t)
    BY <1>1 DEF Load
  <1>11. Tracing'
    <2>1. \A t, p : /\ InHand(t, p)' = InHand(t, p)
                    /\ Published(t, p)' = Published(t, p)
      BY <1>1, <1>3, <1>10, SameHeap DEF InHand, Published
    <2>2. \A t \in queue' : t[1] \in marked' \cup {0}
      BY <1>1 DEF Inv, Tracing
    <2>3. ASSUME NEW v \in Workers, job'[v].pc # "idle"
          PROVE  InHand(job[v].slot, job[v].obj)'
      BY <1>1, <1>5, <2>1, <2>3 DEF Inv, Tracing
    <2>4. ASSUME NEW v \in Workers, At(v, "store")'
          PROVE  Published(job[v].obj, job[v].dst)'
      <3>1. Published(o, Hash(o))
        BY <1>1, <1>4 DEF Published
      <3> QED BY <1>5, <2>1, <2>4, <3>1 DEF Inv, Tracing, At
    <2> QED BY <2>2, <2>3, <2>4 DEF Tracing
  <1>12. Traced'
    BY <1>1, <1>2, <1>5, <1>10 DEF Inv, Traced, Done
  <1> QED BY <1>3, <1>6, <1>7, <1>8, <1>9, <1>11, <1>12 DEF Inv

(***************************************************************************)
(* Sizes                                                                   *)
(***************************************************************************)
\* The size of an object is found through its class in every state of the
\* collection: the class may be at its old place, claimed, or forwarded.
LEMMA SizeIsRight ==
    ASSUME Inv, NEW o \in Objs, Ident(o) = Hash(o), o # JavaLangClass
    PROVE  get_size_when_copied(o) = SizeOf(Hash(o))
  <1> DEFINE k == heap[o][Klass]
  <1>1. /\ Hash(o) \in Objects /\ k \in Objs /\ Ident(k) = ClassOf(Hash(o))
        /\ Hash(o) = AClass => heap[o][ClassSize] = 20
    BY DEF Inv, Bodies, Body
  <1>2. Hash(o) # JavaLangClass
    BY OneJavaLangClass
  <1>3. CASE Hash(o) = AClass
    <2>1. Ident(k) = JavaLangClass
      BY <1>1, <1>3 DEF ClassOf, Instances, AClass
    <2>2. k = JavaLangClass
      BY <1>1, <2>1, OneJavaLangClass
    <2>3. get_object_size(o) = 20
      BY <1>1, <1>3, <2>2 DEF get_object_size, is_class_class, get_class, Inv, Unique
    <2> QED BY <1>3, <2>3 DEF get_size_when_copied, get_current_size, raw_align_up,
                              MIN_ALIGNMENT, SizeOf
  <1>4. CASE Hash(o) # AClass
    <2>1. Ident(k) = AClass
      BY <1>1, <1>2, <1>4 DEF ClassOf, Objects
    <2>2. heap[k][ObjectSize] = 12 /\ Ident(heap[k][Klass]) = JavaLangClass
      BY <1>1, <2>1 DEF Inv, Bodies, Body, ClassOf, Instances, AClass
    <2>3. k # heap[k][Klass]
      BY <2>1, <2>2 DEF AClass, JavaLangClass
    <2>4. get_object_size(o) = 12
      BY <2>2, <2>3 DEF get_object_size, is_class_class, get_class
    <2> QED BY <1>4, <2>4 DEF get_size_when_copied, get_current_size, raw_align_up,
                              MIN_ALIGNMENT, SizeOf
  <1> QED BY <1>3, <1>4

LEMMA AllocCopyStep ==
    ASSUME Inv, NEW w \in Workers, AllocCopy(w)
    PROVE  Inv'
  <1> DEFINE o == job[w].obj
             n == get_size_when_copied(o)
  <1>1. PICK a \in Places \ used :
        /\ job[w].pc = "size" /\ used' = used \cup {a}
        /\ job' = [job EXCEPT ![w] = [@ EXCEPT !.pc = "copy", !.dst = a,
                                               !.bytes = n]]
        /\ UNCHANGED <<heap, root, pinned, held, graph, world, from, marked, queue>>
    BY DEF AllocCopy, At, art, gc, trace
  <1>2. world = "gc" /\ Base = from /\ Objs = from \cup marked
    BY <1>1, BusyInGc
  <1>3. Bodies' /\ Unique' /\ Forwarding' /\ Pins' /\ Base' = Base /\ Objs' = Objs
    BY <1>1, <1>2, PlacesKept
  <1>4. o \in from /\ Bits(o) = "being_forwarded"
    BY <1>1 DEF Inv, Claims, Copying
  <1>5. n = SizeOf(Hash(o)) /\ n \in Nat
    <2>1. Ident(o) = Hash(o) /\ o # JavaLangClass
      BY <1>2, <1>4, ObjsArePlaces
      DEF Ident, Inv, Unique, Header, Bits
    <2>2. n = SizeOf(Hash(o))
      BY <1>2, <1>4, <2>1, SizeIsRight
    <2> QED BY <2>2 DEF SizeOf
  <1>6. /\ \A v \in Workers \ {w} : job'[v] = job[v]
        /\ job'[w].pc = "copy" /\ job'[w].slot = job[w].slot
        /\ job'[w].obj = o /\ job'[w].dst = a /\ job'[w].bytes = n
    BY <1>1 DEF Inv, TypeOK, Jobs
  <1>7. TypeOK'
    <2>1. a \in Nat
      BY ObjectModelAssumption
    <2> QED BY <1>1, <1>5, <2>1 DEF Inv, TypeOK, Jobs, Copying
  <1>8. Over'
    BY <1>1, <1>2 DEF Over
  <1>9. Claims'
    <2>1. \A v \in Workers : job[v].pc \in HasCopy => job[v].dst # a
      BY <1>1 DEF Inv, Claims
    <2>2. a \notin from \cup marked
      BY <1>1 DEF Inv, TypeOK
    <2>3. \A v \in Workers : job'[v].pc \in Copying =>
              job'[v].obj \in from' /\ Bits(job[v].obj)' = "being_forwarded"
      BY <1>1, <1>4, <1>6, SameHeap DEF Inv, Claims
    <2>4. \A u, v \in Workers :
              job'[u].pc \in Copying /\ job'[v].pc \in Copying
                /\ job'[u].obj = job'[v].obj => u = v
      BY <1>1, <1>6 DEF Inv, Claims, Copying
    <2>5. \A v \in Workers : job'[v].pc \in HasCopy =>
              job'[v].dst \in used' \ (from' \cup marked')
      BY <1>1, <1>6, <2>2 DEF Inv, Claims
    <2>6. \A u, v \in Workers :
              job'[u].pc \in HasCopy /\ job'[v].pc \in HasCopy
                /\ job'[u].dst = job'[v].dst => u = v
      BY <1>6, <2>1 DEF Inv, Claims
    <2> QED BY <2>3, <2>4, <2>5, <2>6 DEF Claims
  <1>10. Copies'
    BY <1>1, <1>5, <1>6, SameHeap DEF Inv, Copies, CopyOf, SameWords, At
  <1>11. \A t : Load(t)' = Load(t)
    BY <1>1 DEF Load
  <1>12. Tracing'
    <2>1. \A t, p : /\ InHand(t, p)' = InHand(t, p)
                    /\ Published(t, p)' = Published(t, p)
      BY <1>1, <1>3, <1>11, SameHeap DEF InHand, Published
    <2>2. \A t \in queue' : t[1] \in marked' \cup {0}
      BY <1>1 DEF Inv, Tracing
    <2>3. ASSUME NEW v \in Workers, job'[v].pc # "idle"
          PROVE  InHand(job[v].slot, job[v].obj)'
      BY <1>1, <1>6, <2>1, <2>3 DEF Inv, Tracing
    <2>4. ASSUME NEW v \in Workers, At(v, "store")'
          PROVE  Published(job[v].obj, job[v].dst)'
      BY <1>6, <2>1, <2>4 DEF Inv, Tracing, At
    <2> QED BY <2>2, <2>3, <2>4 DEF Tracing
  <1>13. Traced'
    BY <1>1, <1>2, <1>6, <1>11 DEF Inv, Traced, Done
  <1> QED BY <1>3, <1>7, <1>8, <1>9, <1>10, <1>12, <1>13 DEF Inv

(***************************************************************************)
(* Steps of a copy                                                         *)
(***************************************************************************)
\* Objects keep their words and their identity.
SameObject(a) ==
    /\ Ident(a)' = Ident(a)
    /\ heap'[a][Klass] = heap[a][Klass] /\ heap'[a][Field] = heap[a][Field]
    /\ heap'[a][ObjectSize] = heap[a][ObjectSize]
    /\ heap'[a][ClassSize] = heap[a][ClassSize]

LEMMA ObjectsKept ==
    ASSUME Inv, UNCHANGED <<root, graph>>, Base' = Base, Objs \subseteq Objs',
           \A a \in Objs : SameObject(a), \A a \in Objs' \ Objs : Body(a)',
           heap'[JavaLangClass][Monitor] = heap[JavaLangClass][Monitor]
    PROVE  Bodies' /\ Unique'
  <1>1. Ident(0) = 0 /\ Ident(0)' = 0
    BY DEF Ident
  <1>2. \A a \in Objs : Body(a)'
    <2> SUFFICES ASSUME NEW a \in Objs
                 PROVE  Body(a)'
      OBVIOUS
    <2>1. Body(a) /\ SameObject(a)
      BY DEF Inv, Bodies
    <2>2. \A b \in Objs : Ident(b)' = Ident(b)
      BY DEF SameObject
    <2> QED BY <1>1, <2>1, <2>2 DEF Body, SameObject, RefOf
  <1>3. \A r \in Roots : root'[r] \in Objs' /\ Ident(root[r])' = graph'.roots[r]
    BY DEF Inv, Bodies, SameObject
  <1>4. Unique'
    <2>1. JavaLangClass \in Objs /\ Base \subseteq Objs
      BY DEF Inv, Unique, Objs
    <2> QED BY <2>1 DEF Inv, Unique, SameObject
  <1> QED BY <1>2, <1>3, <1>4 DEF Bodies

\* Slots of roots and of marked objects keep what they hold.
LEMMA LoadsKept ==
    ASSUME Inv, UNCHANGED root, \A a \in Objs : SameObject(a)
    PROVE  \A t \in AllSlots : t[1] \in marked \cup {0} => Load(t)' = Load(t)
  <1> SUFFICES ASSUME NEW t \in AllSlots, t[1] \in marked \cup {0}
               PROVE  Load(t)' = Load(t)
    OBVIOUS
  <1>1. CASE t[1] = 0
    BY <1>1 DEF Load
  <1>2. CASE t[1] # 0
    BY <1>2 DEF Load, Objs, SameObject, AllSlots
  <1> QED BY <1>1, <1>2

\* So what workers have in hand is still what their slots lead to.
LEMMA InHandKept ==
    ASSUME Inv, UNCHANGED root, Objs \subseteq Objs', marked \subseteq marked',
           \A a \in Objs : SameObject(a)
    PROVE  \A t, p : InHand(t, p) => InHand(t, p)'
  <1> SUFFICES ASSUME NEW t, NEW p, InHand(t, p)
               PROVE  InHand(t, p)'
    OBVIOUS
  <1>1. Load(t)' = Load(t)
    BY LoadsKept DEF InHand
  <1>2. Load(t) \in Objs /\ p \in Objs
    BY DEF InHand, Objs
  <1>3. Ident(Load(t))' = Ident(Load(t)) /\ Ident(p)' = Ident(p)
    BY <1>1, <1>2 DEF SameObject
  <1> QED BY <1>1, <1>2, <1>3 DEF InHand

LEMMA ClaimStep ==
    ASSUME Inv, NEW w \in Workers, Claim(w)
    PROVE  Inv'
  <1> DEFINE o == job[w].obj
  <1>1. /\ job[w].pc = "trace" /\ o \in from /\ ~InPlace(o) /\ Bits(o) = "none"
        /\ heap' = [heap EXCEPT ![o][Monitor].bits = "being_forwarded"]
        /\ job' = [job EXCEPT ![w].pc = "size"]
        /\ UNCHANGED <<root, used, pinned, held, graph, world, from, marked, queue>>
    BY DEF Claim, At, art, gc, trace
  <1>2. /\ world = "gc" /\ Base = from /\ Objs = from \cup marked
        /\ Base' = Base /\ Objs' = Objs /\ o \in Places
    BY <1>1, BusyInGc DEF Base, Objs, Inv, TypeOK
  <1>3. /\ \A a \in Places : \A i \in Words \ {Monitor} : heap'[a][i] = heap[a][i]
        /\ \A a \in Places \ {o} : heap'[a][Monitor] = heap[a][Monitor]
        /\ heap'[o][Monitor] = [heap[o][Monitor] EXCEPT !.bits = "being_forwarded"]
    BY <1>1, <1>2 DEF Inv, TypeOK, Words, Monitor
  <1>4. /\ \A a \in Places : Hash(a)' = Hash(a)
        /\ \A a \in Places \ {o} : Bits(a)' = Bits(a)
        /\ \A a \in Places : a = o => Bits(a)' = "being_forwarded"
        /\ heap'[o][Monitor] \in Headers
    BY <1>2, <1>3 DEF Inv, TypeOK, Headers, Hash, Bits
  <1>5. /\ \A v \in Workers \ {w} : job'[v] = job[v]
        /\ job'[w].pc = "size" /\ job'[w].slot = job[w].slot /\ job'[w].obj = o
        /\ job'[w].dst = job[w].dst
    BY <1>1 DEF Inv, TypeOK, Jobs
  <1>6. \A a \in Objs : SameObject(a)
    <2> SUFFICES ASSUME NEW a \in Objs
                 PROVE  SameObject(a)
      OBVIOUS
    <2>1. a \in Places /\ a # 0
      BY ObjsArePlaces DEF Inv
    <2>2. Bits(a) = "forwarded" => Hash(a) \in Places
      BY <1>2, MarkedIdent, ObjsArePlaces DEF Inv, Forwarding
    <2>3. Ident(a)' = Ident(a)
      BY <1>1, <1>4, <2>1, <2>2 DEF Ident
    <2> QED BY <1>3, <2>1, <2>3
            DEF SameObject, Words, Klass, Field, ObjectSize, ClassSize, Monitor
  <1>7. Bodies' /\ Unique'
    <2>1. heap'[JavaLangClass][Monitor] = heap[JavaLangClass][Monitor]
      BY <1>1, <1>3, ObjectModelAssumption DEF InPlace, JavaLangClass
    <2> QED BY <1>1, <1>2, <1>6, <2>1, ObjectsKept
  <1>8. TypeOK'
    <2>1. /\ heap' = [a \in Places |-> heap'[a]]
          /\ \A a \in Places : /\ heap'[a] = [i \in Words |-> heap'[a][i]]
                               /\ heap'[a][Monitor] \in Headers
      BY <1>1, <1>2, <1>3, <1>4 DEF Inv, TypeOK, Words, Monitor
    <2>2. job' \in [Workers -> Jobs]
      BY <1>1 DEF Inv, TypeOK, Jobs, Copying
    <2> QED BY <1>1, <2>1, <2>2 DEF Inv, TypeOK
  <1>9. Over'
    BY <1>1, <1>2 DEF Over
  <1>10. Pins'
    <2>1. \A h \in held : h[1] \in Places
      BY DEF Inv, Pins, TypeOK
    <2> QED BY <1>1, <1>2, <1>4, <2>1 DEF Inv, Pins
  <1>11. Forwarding'
    <2>1. o \notin marked
      BY <1>1 DEF Inv, Forwarding
    <2>2. \A a \in Objs : a \in Places
      BY ObjsArePlaces DEF Inv
    <2>3. \A a \in Objs \ {o} : Bits(a)' = Bits(a) /\ Hash(a)' = Hash(a)
      BY <1>1, <1>4, <2>2
    <2>4. \A a \in Objs' : world' = "idle" \/ a \in marked' \/ InPlace(a)' =>
              Bits(a)' = "none"
      BY <1>1, <1>2, <2>1, <2>3 DEF Inv, Forwarding, InPlace
    <2>5. \A a \in marked' \cap from' : InPlace(a)'
      BY <1>1 DEF Inv, Forwarding, InPlace
    <2>6. \A a \in from' : Bits(a)' = "forwarded" => Hash(a)' \in marked' \ from'
      BY <1>1, <1>2, <1>4, <2>3 DEF Inv, Forwarding
    <2>7. \A c \in marked' \ from' :
              \E b \in from' : Bits(b)' = "forwarded" /\ Hash(b)' = c
      BY <1>1, <1>2, <2>3 DEF Inv, Forwarding
    <2> QED BY <2>4, <2>5, <2>6, <2>7 DEF Forwarding
  <1>12. Claims'
    <2>1. \A v \in Workers : job[v].pc \in Copying => job[v].obj # o
      BY <1>1 DEF Inv, Claims
    <2>2. \A v \in Workers : job'[v].pc \in Copying =>
              job'[v].obj \in from' /\ Bits(job[v].obj)' = "being_forwarded"
      <3>1. \A a \in from : a \in Places
        BY DEF Inv, TypeOK
      <3> QED BY <1>1, <1>4, <1>5, <2>1, <3>1 DEF Inv, Claims
    <2>3. \A u, v \in Workers :
              job'[u].pc \in Copying /\ job'[v].pc \in Copying
                /\ job'[u].obj = job'[v].obj => u = v
      BY <1>5, <2>1 DEF Inv, Claims
    <2>4. \A v \in Workers : job'[v].pc \in HasCopy => v # w
      BY <1>5 DEF HasCopy
    <2>5. \A v \in Workers : job'[v].pc \in HasCopy =>
              job'[v].dst \in used' \ (from' \cup marked')
      BY <1>1, <1>5, <2>4 DEF Inv, Claims
    <2>6. \A u, v \in Workers :
              job'[u].pc \in HasCopy /\ job'[v].pc \in HasCopy
                /\ job'[u].dst = job'[v].dst => u = v
      BY <1>5, <2>4 DEF Inv, Claims
    <2> QED BY <2>2, <2>3, <2>5, <2>6 DEF Claims
  <1>13. Copies'
    <2> SUFFICES ASSUME NEW v \in Workers, job'[v].pc \in HasCopy
                 PROVE  CopyOf(v)'
      BY DEF Copies, CopyOf, At, HasCopy
    <2>1. job'[v] = job[v] /\ job[v].pc \in HasCopy
      BY <1>5 DEF HasCopy
    <2>2. job[v].dst \in Places \ {o} /\ job[v].obj \in Places
      BY <1>1, <2>1 DEF Inv, TypeOK, Claims, HasCopy, Copying
    <2>3. SameWords(job[v].dst, job[v].obj)' = SameWords(job[v].dst, job[v].obj)
      BY <1>3, <1>4, <2>1, <2>2
      DEF SameWords, Words, Klass, Field, ObjectSize, ClassSize, Monitor
    <2> QED BY <1>4, <2>1, <2>2, <2>3 DEF Inv, Copies, CopyOf, At
  <1>14. Tracing'
    <2>1. \A t, p : InHand(t, p) => InHand(t, p)'
      BY <1>1, <1>2, <1>6, InHandKept
    <2>2. \A t, p : Published(t, p) => Published(t, p)'
      BY <1>1, <1>4 DEF Published, Inv, TypeOK
    <2>3. \A t \in queue' : t[1] \in marked' \cup {0}
      BY <1>1 DEF Inv, Tracing
    <2>4. ASSUME NEW v \in Workers, job'[v].pc # "idle"
          PROVE  InHand(job[v].slot, job[v].obj)'
      BY <1>1, <1>5, <2>1, <2>4 DEF Inv, Tracing
    <2>5. ASSUME NEW v \in Workers, At(v, "store")'
          PROVE  Published(job[v].obj, job[v].dst)'
      BY <1>5, <2>2, <2>5 DEF Inv, Tracing, At
    <2> QED BY <2>3, <2>4, <2>5 DEF Tracing
  <1>15. Traced'
    <2>1. \A t \in AllSlots : t[1] \in marked \cup {0} => Load(t)' = Load(t)
      BY <1>1, <1>6, LoadsKept
    <2> QED BY <1>1, <1>2, <1>5, <2>1 DEF Inv, Traced, Done
  <1> QED BY <1>7, <1>8, <1>9, <1>10, <1>11, <1>12, <1>13, <1>14, <1>15 DEF Inv

\* A worker writes to its copy, of which nobody else knows.
LEMMA WritesCopy ==
    ASSUME Inv, NEW w \in Workers, NEW l \in HasCopy, job[w].pc \in HasCopy,
           job' = [job EXCEPT ![w].pc = l],
           heap' = [a \in Places |-> heap'[a]],
           \A a \in Places : /\ heap'[a] = [i \in Words |-> heap'[a][i]]
                             /\ heap'[a][Monitor] \in Headers,
           \A a \in Places \ {job[w].dst} : heap'[a] = heap[a],
           UNCHANGED <<root, used, pinned, held, graph, world, from, marked, queue>>
    PROVE  /\ TypeOK' /\ Over' /\ Bodies' /\ Unique' /\ Forwarding' /\ Claims'
           /\ Tracing' /\ Traced' /\ Pins'
           /\ \A v \in Workers \ {w} : CopyOf(v)'
           /\ job'[w].pc = l /\ job'[w].obj = job[w].obj /\ job'[w].dst = job[w].dst
           /\ job[w].dst \in Places /\ job[w].obj \in Places \ {job[w].dst}
  <1> DEFINE d == job[w].dst
  <1>1. job[w].pc \in Copying /\ job[w].pc # "idle" /\ l \in Copying /\ l # "idle"
    BY DEF HasCopy, Copying
  <1>2. /\ world = "gc" /\ Base = from /\ Objs = from \cup marked
        /\ Base' = Base /\ Objs' = Objs
    BY <1>1, BusyInGc DEF Base, Objs
  <1>3. /\ d \in used \ (from \cup marked) /\ d \in Places
        /\ job[w].obj \in Places \ {d}
    BY <1>1 DEF Inv, Claims, TypeOK
  <1>4. /\ \A v \in Workers \ {w} : job'[v] = job[v]
        /\ job'[w].pc = l /\ job'[w].slot = job[w].slot
        /\ job'[w].obj = job[w].obj /\ job'[w].dst = job[w].dst
    BY DEF Inv, TypeOK, Jobs
  <1>5. \A a \in Places \ {d} : Bits(a)' = Bits(a) /\ Hash(a)' = Hash(a)
    BY DEF Bits, Hash
  <1>6. Objs \subseteq Places \ {d} /\ 0 \notin Objs
    BY <1>2, <1>3, ObjsArePlaces DEF Inv
  <1>7. \A a \in Objs : SameObject(a)
    <2> SUFFICES ASSUME NEW a \in Objs
                 PROVE  SameObject(a)
      OBVIOUS
    <2>1. Bits(a) = "forwarded" => Hash(a) \in Places \ {d}
      BY <1>2, <1>6, MarkedIdent DEF Inv, Forwarding
    <2>2. Ident(a)' = Ident(a)
      BY <1>5, <1>6, <2>1 DEF Ident
    <2> QED BY <1>6, <2>2 DEF SameObject
  <1>8. Bodies' /\ Unique'
    <2>1. JavaLangClass \in Places \ {d}
      BY <1>2, <1>6 DEF Inv, Unique
    <2> QED BY <1>2, <1>7, <2>1, ObjectsKept
  <1>9. TypeOK'
    <2>1. job' \in [Workers -> Jobs]
      BY <1>1 DEF Inv, TypeOK, Jobs
    <2> QED BY <2>1 DEF Inv, TypeOK
  <1>10. Over'
    BY <1>2 DEF Over
  <1>11. Pins'
    <2>1. \A h \in held : h[1] \in Places \ {d}
      BY <1>2, <1>6 DEF Inv, Pins
    <2> QED BY <1>2, <1>5, <2>1 DEF Inv, Pins
  <1>12. Forwarding'
    BY <1>2, <1>5, <1>6 DEF Inv, Forwarding, InPlace
  <1>13. Claims'
    <2>1. \A a \in from : Bits(a)' = Bits(a)
      BY <1>2, <1>5, <1>6
    <2>2. \A v \in Workers : /\ job'[v].pc \in Copying <=> job[v].pc \in Copying
                             /\ job'[v].pc \in HasCopy <=> job[v].pc \in HasCopy
                             /\ job'[v].obj = job[v].obj /\ job'[v].dst = job[v].dst
      BY <1>1, <1>4
    <2>3. \A v \in Workers : job'[v].pc \in Copying =>
              job'[v].obj \in from' /\ Bits(job[v].obj)' = "being_forwarded"
      BY <2>1, <2>2 DEF Inv, Claims
    <2> QED BY <2>2, <2>3 DEF Inv, Claims
  <1>14. Tracing'
    <2>1. \A t, p : InHand(t, p) => InHand(t, p)'
      BY <1>2, <1>7, InHandKept
    <2>2. \A t, p : Published(t, p) => Published(t, p)'
      BY <1>2, <1>5, <1>6 DEF Published
    <2>3. \A t \in queue' : t[1] \in marked' \cup {0}
      BY DEF Inv, Tracing
    <2>4. ASSUME NEW v \in Workers, job'[v].pc # "idle"
          PROVE  InHand(job[v].slot, job[v].obj)'
      BY <1>1, <1>4, <2>1, <2>4 DEF Inv, Tracing
    <2>5. ASSUME NEW v \in Workers, At(v, "store")'
          PROVE  Published(job[v].obj, job[v].dst)'
      BY <1>4, <2>2, <2>5 DEF Inv, Tracing, At, HasCopy
    <2> QED BY <2>3, <2>4, <2>5 DEF Tracing
  <1>15. Traced'
    <2>1. \A t \in AllSlots : t[1] \in marked \cup {0} => Load(t)' = Load(t)
      BY <1>7, LoadsKept
    <2> QED BY <1>1, <1>2, <1>4, <2>1 DEF Inv, Traced, Done
  <1>16. ASSUME NEW v \in Workers \ {w}
         PROVE  CopyOf(v)'
    <2>1. CASE job[v].pc \in HasCopy
      <3>1. job[v].dst \in Places \ {d} /\ job[v].obj \in Places \ {d}
        BY <1>3, <2>1 DEF Inv, Claims, TypeOK, HasCopy, Copying
      <3>2. SameWords(job[v].dst, job[v].obj)' = SameWords(job[v].dst, job[v].obj)
        BY <1>4, <1>5, <3>1 DEF SameWords
      <3> QED BY <1>4, <1>5, <3>1, <3>2 DEF Inv, Copies, CopyOf, At
    <2>2. CASE job[v].pc \notin HasCopy
      BY <1>4, <2>2 DEF CopyOf, At, HasCopy
    <2> QED BY <2>1, <2>2
  <1> QED BY <1>3, <1>4, <1>8, <1>9, <1>10, <1>11, <1>12, <1>13, <1>14, <1>15, <1>16

LEMMA CopyWordsStep ==
    ASSUME Inv, NEW w \in Workers, CopyWords(w)
    PROVE  Inv'
  <1> DEFINE o == job[w].obj
             d == job[w].dst
             n == job[w].bytes
  <1>1. /\ job[w].pc = "copy" /\ job[w].pc \in HasCopy /\ job[w].pc \in Copying
        /\ heap' = [heap EXCEPT ![d] = [i \in Words |-> IF 4 * i < n
                                          THEN heap[o][i] ELSE @[i]]]
        /\ job' = [job EXCEPT ![w].pc = "post_copy"]
        /\ UNCHANGED <<root, used, pinned, held, graph, world, from, marked, queue>>
    BY DEF CopyWords, At, art, gc, trace, HasCopy, Copying
  <1>2. /\ d \in Places /\ o \in Places /\ o # d /\ n = SizeOf(Hash(o))
    BY <1>1 DEF Inv, Claims, Copies, CopyOf, TypeOK, At
  <1>3. /\ \A a \in Places \ {d} : heap'[a] = heap[a]
        /\ heap'[d] = [i \in Words |-> IF 4 * i < n THEN heap[o][i] ELSE heap[d][i]]
        /\ heap' = [a \in Places |-> heap'[a]]
    BY <1>1, <1>2 DEF Inv, TypeOK
  <1>4. /\ heap'[d][Klass] = heap[o][Klass] /\ heap'[d][Monitor] = heap[o][Monitor]
        /\ heap'[d][Field] = heap[o][Field]
        /\ Hash(o) = AClass => /\ heap'[d][ObjectSize] = heap[o][ObjectSize]
                               /\ heap'[d][ClassSize] = heap[o][ClassSize]
    BY <1>2, <1>3 DEF SizeOf, Words, Klass, Monitor, Field, ObjectSize, ClassSize
  <1>5. \A a \in Places : /\ heap'[a] = [i \in Words |-> heap'[a][i]]
                          /\ heap'[a][Monitor] \in Headers
    <2>1. heap'[d] = [i \in Words |-> heap'[d][i]]
      BY <1>3
    <2> QED BY <1>2, <1>3, <1>4, <2>1 DEF Inv, TypeOK
  <1>6. /\ TypeOK' /\ Over' /\ Bodies' /\ Unique' /\ Forwarding' /\ Claims'
        /\ Tracing' /\ Traced' /\ Pins'
        /\ \A v \in Workers \ {w} : CopyOf(v)'
        /\ job'[w].pc = "post_copy" /\ job'[w].obj = o /\ job'[w].dst = d
    <2>1. "post_copy" \in HasCopy
      BY DEF HasCopy
    <2> QED BY <1>1, <1>3, <1>5, <2>1, WritesCopy
  <1>7. CopyOf(w)'
    <2>1. heap'[o] = heap[o]
      BY <1>2, <1>3
    <2>2. SameWords(job[w].dst, job[w].obj)'
      BY <1>4, <1>6, <2>1 DEF SameWords, Hash
    <2> QED BY <1>6, <2>2 DEF CopyOf, At
  <1>8. Copies'
    BY <1>6, <1>7 DEF Copies, CopyOf
  <1> QED BY <1>6, <1>8 DEF Inv

LEMMA PostCopyStep ==
    ASSUME Inv, NEW w \in Workers, PostCopy(w)
    PROVE  Inv'
  <1> DEFINE o == job[w].obj
             d == job[w].dst
  <1>1. /\ job[w].pc = "post_copy" /\ job[w].pc \in HasCopy /\ job[w].pc \in Copying
        /\ heap' = [heap EXCEPT ![d][Monitor].bits = "none"]
        /\ job' = [job EXCEPT ![w].pc = "forward"]
        /\ UNCHANGED <<root, used, pinned, held, graph, world, from, marked, queue>>
    BY DEF PostCopy, At, art, gc, trace, HasCopy, Copying
  <1>2. /\ d \in Places /\ o \in Places /\ o # d /\ SameWords(d, o)
    BY <1>1 DEF Inv, Claims, Copies, CopyOf, TypeOK, At
  <1>3. /\ \A a \in Places \ {d} : heap'[a] = heap[a]
        /\ heap'[d] = [heap[d] EXCEPT ![Monitor].bits = "none"]
        /\ heap' = [a \in Places |-> heap'[a]]
    BY <1>1, <1>2 DEF Inv, TypeOK
  <1>4. /\ \A i \in Words \ {Monitor} : heap'[d][i] = heap[d][i]
        /\ heap'[d][Monitor] = [heap[d][Monitor] EXCEPT !.bits = "none"]
        /\ heap'[d] = [i \in Words |-> heap'[d][i]]
    BY <1>2, <1>3 DEF Inv, TypeOK, Words, Monitor
  <1>5. /\ heap'[d][Monitor] \in Headers
        /\ heap'[d][Monitor].hash = heap[d][Monitor].hash
        /\ heap'[d][Monitor].bits = "none"
    BY <1>2, <1>4 DEF Inv, TypeOK, Headers
  <1>6. \A a \in Places : /\ heap'[a] = [i \in Words |-> heap'[a][i]]
                          /\ heap'[a][Monitor] \in Headers
    BY <1>2, <1>3, <1>4, <1>5 DEF Inv, TypeOK
  <1>7. /\ TypeOK' /\ Over' /\ Bodies' /\ Unique' /\ Forwarding' /\ Claims'
        /\ Tracing' /\ Traced' /\ Pins'
        /\ \A v \in Workers \ {w} : CopyOf(v)'
        /\ job'[w].pc = "forward" /\ job'[w].obj = o /\ job'[w].dst = d
    <2>1. "forward" \in HasCopy
      BY DEF HasCopy
    <2> QED BY <1>1, <1>3, <1>6, <2>1, WritesCopy
  <1>8. CopyOf(w)'
    <2>1. /\ heap'[d][Klass] = heap[d][Klass] /\ heap'[d][Field] = heap[d][Field]
          /\ heap'[d][ObjectSize] = heap[d][ObjectSize]
          /\ heap'[d][ClassSize] = heap[d][ClassSize]
      BY <1>4 DEF Words, Klass, Monitor, Field, ObjectSize, ClassSize
    <2>2. heap'[o] = heap[o]
      BY <1>2, <1>3
    <2>3. SameWords(job[w].dst, job[w].obj)'
      BY <1>2, <1>5, <1>7, <2>1, <2>2 DEF SameWords, Hash
    <2>4. Bits(job[w].dst)' = "none"
      BY <1>5, <1>7 DEF Bits
    <2> QED BY <1>7, <2>3, <2>4 DEF CopyOf, At
  <1>9. Copies'
    BY <1>7, <1>8 DEF Copies, CopyOf
  <1> QED BY <1>7, <1>9 DEF Inv

(***************************************************************************)
(* The copy is published and slots follow it                               *)
(***************************************************************************)
LEMMA ForwardStep ==
    ASSUME Inv, NEW w \in Workers, Forward(w)
    PROVE  Inv'
  <1> DEFINE o == job[w].obj
             d == job[w].dst
  <1>1. /\ job[w].pc = "forward" /\ job[w].pc \in HasCopy /\ job[w].pc \in Copying
        /\ heap' = [heap EXCEPT ![o][Monitor] = [hash |-> d, bits |-> "forwarded"]]
        /\ marked' = marked \cup {d} /\ queue' = queue \cup Slots(d)
        /\ job' = [job EXCEPT ![w].pc = "store"]
        /\ UNCHANGED <<root, used, pinned, held, graph, world, from>>
    <2>1. LOCAL_FORWARDING_POINTER_SPEC \div 32 = Monitor
      BY DEF LOCAL_FORWARDING_POINTER_SPEC, Monitor
    <2> QED BY <2>1 DEF Forward, At, art, gc, HasCopy, Copying
  <1>2. /\ o \in from /\ o \in Places /\ Bits(o) = "being_forwarded"
        /\ d \in used \ (from \cup marked) /\ d \in Places /\ d \in Nat /\ d # 0
        /\ SameWords(d, o) /\ Bits(d) = "none" /\ o # d
    BY <1>1, ObjectModelAssumption DEF Inv, Claims, Copies, CopyOf, TypeOK, At
  <1>3. /\ world = "gc" /\ Base = from /\ Objs = from \cup marked
        /\ Base' = Base /\ Objs' = Objs \cup {d}
    <2>1. world = "gc" /\ Base = from /\ Objs = from \cup marked
      BY <1>1, BusyInGc
    <2> QED BY <1>1, <2>1 DEF Base, Objs
  <1>4. o \notin marked /\ ~InPlace(o)
    BY <1>2, <1>3 DEF Inv, Forwarding
  <1>5. /\ \A a \in Places : \A i \in Words \ {Monitor} : heap'[a][i] = heap[a][i]
        /\ \A a \in Places \ {o} : heap'[a] = heap[a]
        /\ heap'[o][Monitor] = [hash |-> d, bits |-> "forwarded"]
        /\ heap' = [a \in Places |-> heap'[a]]
        /\ \A a \in Places : heap'[a] = [i \in Words |-> heap'[a][i]]
    <2>1. /\ \A a \in Places \ {o} : heap'[a] = heap[a]
          /\ heap'[o] = [heap[o] EXCEPT ![Monitor] =
                            [hash |-> d, bits |-> "forwarded"]]
          /\ heap' = [a \in Places |-> heap'[a]]
      BY <1>1, <1>2 DEF Inv, TypeOK
    <2>2. heap[o] = [i \in Words |-> heap[o][i]] /\ Monitor \in Words
      BY <1>2 DEF Inv, TypeOK, Words, Monitor
    <2>3. /\ \A i \in Words \ {Monitor} : heap'[o][i] = heap[o][i]
          /\ heap'[o][Monitor] = [hash |-> d, bits |-> "forwarded"]
          /\ heap'[o] = [i \in Words |-> heap'[o][i]]
      BY <2>1, <2>2
    <2> QED BY <2>1, <2>3 DEF Inv, TypeOK
  <1>6. /\ \A a \in Places \ {o} : Bits(a)' = Bits(a) /\ Hash(a)' = Hash(a)
        /\ \A a \in Places : a = o => Bits(a)' = "forwarded" /\ Hash(a)' = d
        /\ heap'[o][Monitor] \in Headers
    BY <1>2, <1>5 DEF Hash, Bits, Headers
  <1>7. /\ \A v \in Workers \ {w} : job'[v] = job[v]
        /\ job'[w].pc = "store" /\ job'[w].slot = job[w].slot /\ job'[w].obj = o
        /\ job'[w].dst = d
    BY <1>1 DEF Inv, TypeOK, Jobs
  <1>8. Objs \subseteq Places /\ 0 \notin Objs
    BY ObjsArePlaces DEF Inv
  <1>9. \A a \in Places : /\ heap'[a][Klass] = heap[a][Klass]
                          /\ heap'[a][Field] = heap[a][Field]
                          /\ heap'[a][ObjectSize] = heap[a][ObjectSize]
                          /\ heap'[a][ClassSize] = heap[a][ClassSize]
    BY <1>5 DEF Words, Klass, Field, ObjectSize, ClassSize, Monitor
  <1>10. \A a \in Objs : SameObject(a)
    <2> SUFFICES ASSUME NEW a \in Objs
                 PROVE  SameObject(a)
      OBVIOUS
    <2>1. CASE a = o
      <3>1. Ident(a) = Hash(a) /\ Hash(a) = Hash(d)
        BY <1>2, <1>8, <2>1 DEF Ident, SameWords
      <3>2. Ident(a)' = Hash(d)
        BY <1>2, <1>6, <1>8, <2>1 DEF Ident
      <3> QED BY <1>8, <1>9, <3>1, <3>2 DEF SameObject
    <2>2. CASE a # o
      <3>1. Bits(a) = "forwarded" => Hash(a) \in Places \ {o}
        BY <1>3, <1>4, <1>8, MarkedIdent DEF Inv, Forwarding
      <3>2. Ident(a)' = Ident(a)
        BY <1>6, <1>8, <2>2, <3>1 DEF Ident
      <3> QED BY <1>8, <1>9, <3>2 DEF SameObject
    <2> QED BY <2>1, <2>2
  <1>11. Body(d)
    <2>1. Ident(d) = Ident(o)
      BY <1>2, <1>3, <1>8 DEF Ident, SameWords
    <2>2. Body(o) /\ Ident(o) = Hash(o)
      BY <1>2, <1>3, <1>8 DEF Inv, Bodies, Ident
    <2> QED BY <1>2, <2>1, <2>2 DEF Body, SameWords
  <1>12. \A a \in Objs' \ Objs : Body(a)'
    <2> SUFFICES ASSUME NEW a, a = d
                 PROVE  Body(a)'
      BY <1>3
    <2>1. Ident(a)' = Ident(a) /\ Ident(0) = 0 /\ Ident(0)' = 0
      BY <1>2, <1>6 DEF Ident
    <2>2. Body(a) /\ \A b \in Objs : Ident(b)' = Ident(b)
      BY <1>10, <1>11 DEF SameObject
    <2>3. RefOf(Ident(a))' = RefOf(Ident(a))
      BY <1>1, <2>1 DEF RefOf
    <2>4. /\ heap'[a][Klass] = heap[a][Klass] /\ heap'[a][Field] = heap[a][Field]
          /\ heap'[a][ObjectSize] = heap[a][ObjectSize]
          /\ heap'[a][ClassSize] = heap[a][ClassSize]
      BY <1>2, <1>9
    <2> QED BY <1>3, <2>1, <2>2, <2>3, <2>4 DEF Body
  <1>13. Bodies' /\ Unique'
    <2>1. heap'[JavaLangClass][Monitor] = heap[JavaLangClass][Monitor]
      BY <1>4, <1>5, ObjectModelAssumption DEF InPlace, JavaLangClass
    <2> QED BY <1>1, <1>3, <1>10, <1>12, <2>1, ObjectsKept
  <1>14. Slots(d) \subseteq AllSlots /\ \A t \in Slots(d) : t[1] = d
    BY <1>2 DEF Slots, AllSlots
  <1>15. TypeOK'
    <2>1. \A a \in Places : heap'[a][Monitor] \in Headers
      BY <1>5, <1>6 DEF Inv, TypeOK
    <2>2. job' \in [Workers -> Jobs]
      BY <1>1 DEF Inv, TypeOK, Jobs
    <2> QED BY <1>1, <1>2, <1>5, <1>14, <2>1, <2>2 DEF Inv, TypeOK
  <1>16. Over'
    BY <1>1, <1>3 DEF Over
  <1>17. Pins'
    <2>1. \A h \in held : h[1] \in Places \ {o}
      BY <1>3, <1>4, <1>8 DEF Inv, Pins, InPlace
    <2> QED BY <1>1, <1>3, <1>6, <2>1 DEF Inv, Pins
  <1>18. Forwarding'
    <2>1. \A a \in Objs \ {o} : Bits(a)' = Bits(a) /\ Hash(a)' = Hash(a)
      BY <1>6, <1>8
    <2>2. \A a \in Objs' : world' = "idle" \/ a \in marked' \/ InPlace(a)' =>
              Bits(a)' = "none"
      BY <1>1, <1>2, <1>3, <1>4, <1>6, <2>1 DEF Inv, Forwarding, InPlace
    <2>3. \A a \in marked' \cap from' : InPlace(a)'
      BY <1>1, <1>2 DEF Inv, Forwarding, InPlace
    <2>4. \A a \in from' : Bits(a)' = "forwarded" => Hash(a)' \in marked' \ from'
      BY <1>1, <1>2, <1>3, <1>6, <2>1 DEF Inv, Forwarding
    <2>5. \A c \in marked' \ from' :
              \E b \in from' : Bits(b)' = "forwarded" /\ Hash(b)' = c
      BY <1>1, <1>2, <1>3, <1>6, <2>1 DEF Inv, Forwarding
    <2> QED BY <2>2, <2>3, <2>4, <2>5 DEF Forwarding
  <1>19. \A v \in Workers : job'[v].pc \in Copying =>
             /\ v # w /\ job'[v] = job[v] /\ job[v].obj \in Places \ {o}
             /\ job[v].pc \in HasCopy => job[v].dst \in Places \ {o, d}
    <2> SUFFICES ASSUME NEW v \in Workers, job'[v].pc \in Copying
                 PROVE  /\ v # w /\ job'[v] = job[v] /\ job[v].obj \in Places \ {o}
                        /\ job[v].pc \in HasCopy => job[v].dst \in Places \ {o, d}
      OBVIOUS
    <2>1. v # w /\ job'[v] = job[v]
      BY <1>7 DEF Copying
    <2> QED BY <1>1, <1>2, <2>1 DEF Inv, Claims, TypeOK
  <1>20. HasCopy \subseteq Copying
    BY DEF HasCopy, Copying
  <1>21. Claims'
    <2>1. \A v \in Workers : job'[v].pc \in Copying =>
              job'[v].obj \in from' /\ Bits(job[v].obj)' = "being_forwarded"
      BY <1>1, <1>6, <1>19 DEF Inv, Claims
    <2>2. \A u, v \in Workers :
              job'[u].pc \in Copying /\ job'[v].pc \in Copying
                /\ job'[u].obj = job'[v].obj => u = v
      BY <1>19 DEF Inv, Claims
    <2>3. \A v \in Workers : job'[v].pc \in HasCopy =>
              job'[v].dst \in used' \ (from' \cup marked')
      BY <1>1, <1>19, <1>20 DEF Inv, Claims
    <2>4. \A u, v \in Workers :
              job'[u].pc \in HasCopy /\ job'[v].pc \in HasCopy
                /\ job'[u].dst = job'[v].dst => u = v
      BY <1>19, <1>20 DEF Inv, Claims
    <2> QED BY <2>1, <2>2, <2>3, <2>4 DEF Claims
  <1>22. Copies'
    <2> SUFFICES ASSUME NEW v \in Workers, job'[v].pc \in HasCopy
                 PROVE  CopyOf(v)'
      BY DEF Copies, CopyOf, At, HasCopy
    <2>1. /\ job'[v] = job[v] /\ job[v].dst \in Places \ {o}
          /\ job[v].obj \in Places \ {o}
      BY <1>19, <1>20
    <2>2. SameWords(job[v].dst, job[v].obj)' = SameWords(job[v].dst, job[v].obj)
      BY <1>5, <1>6, <2>1 DEF SameWords
    <2> QED BY <1>6, <2>1, <2>2 DEF Inv, Copies, CopyOf, At
  <1>23. Tracing'
    <2>1. \A t, p : InHand(t, p) => InHand(t, p)'
      BY <1>1, <1>3, <1>10, InHandKept
    <2>2. \A t, p : Published(t, p) => Published(t, p)'
      BY <1>1, <1>2, <1>3, <1>6, <1>8 DEF Published
    <2>3. \A t \in queue' : t[1] \in marked' \cup {0}
      BY <1>1, <1>14 DEF Inv, Tracing
    <2>4. ASSUME NEW v \in Workers, job'[v].pc # "idle"
          PROVE  InHand(job[v].slot, job[v].obj)'
      BY <1>1, <1>7, <2>1, <2>4 DEF Inv, Tracing
    <2>5. ASSUME NEW v \in Workers, At(v, "store")'
          PROVE  Published(job[v].obj, job[v].dst)'
      <3>1. CASE v = w
        BY <1>1, <1>2, <1>6, <1>7, <3>1 DEF Published
      <3>2. CASE v # w
        BY <1>7, <2>2, <2>5, <3>2 DEF Inv, Tracing, At
      <3> QED BY <3>1, <3>2
    <2> QED BY <2>3, <2>4, <2>5 DEF Tracing
  <1>24. Traced'
    <2>1. \A t \in AllSlots : t[1] \in marked \cup {0} => Load(t)' = Load(t)
      BY <1>1, <1>10, LoadsKept
    <2>2. \A t \in AllSlots : t[1] = d => t \in Slots(d)
      BY <1>2 DEF AllSlots, Slots
    <2> QED BY <1>1, <1>3, <1>7, <2>1, <2>2 DEF Inv, Traced, Done
  <1> QED BY <1>13, <1>15, <1>16, <1>17, <1>18, <1>21, <1>22, <1>23, <1>24 DEF Inv

\* The slot in hand leads to the copy of the object that it led to before.
LEMMA StoreStep ==
    ASSUME Inv, NEW w \in Workers, Store(w)
    PROVE  Inv'
  <1> DEFINE o == job[w].obj
             d == job[w].dst
             s == job[w].slot
  <1>1. /\ job[w].pc = "store"
        /\ IF s[1] = 0 THEN root' = [root EXCEPT ![s[2]] = d] /\ UNCHANGED heap
                       ELSE /\ heap' = [heap EXCEPT ![s[1]][s[2]] = d]
                            /\ UNCHANGED root
        /\ job' = [job EXCEPT ![w] = NoJob]
        /\ UNCHANGED <<used, pinned, held, graph, world, from, marked, queue>>
    BY DEF Store, At, art, gc, trace
  <1>2. /\ world = "gc" /\ Base = from /\ Objs = from \cup marked
        /\ Base' = Base /\ Objs' = Objs /\ Objs \subseteq Places /\ 0 \notin Places
    BY <1>1, BusyInGc, ObjsArePlaces DEF Base, Objs, Inv
  <1>3. InHand(s, o) /\ Published(o, d)
    BY <1>1 DEF Inv, Tracing, At
  <1>4. d \in marked /\ d \in Objs /\ o \in Objs /\ ~InPlace(o)
    BY <1>2, <1>3 DEF Inv, Forwarding, Published
  <1>5. Ident(d) = Ident(Load(s))
    <2>1. Ident(d) = Hash(d)
      BY <1>4, MarkedIdent
    <2>2. Ident(o) = Hash(d)
      BY <1>2, <1>3 DEF Published, Ident, Inv, TypeOK
    <2> QED BY <1>3, <2>1, <2>2 DEF InHand
  <1>6. \/ s[1] = 0 /\ s[2] \in Roots
        \/ s[1] \in marked /\ s[1] \in Places /\ s[2] \in {Klass, Field}
    BY <1>2, <1>3 DEF InHand, AllSlots
  <1>7. /\ \A a \in Places : \A i \in Words :
               heap'[a][i] = IF a = s[1] /\ i = s[2] THEN d ELSE heap[a][i]
        /\ heap' = [a \in Places |-> heap'[a]]
        /\ \A a \in Places : heap'[a] = [i \in Words |-> heap'[a][i]]
    <2>1. CASE s[1] = 0
      BY <1>1, <1>2, <2>1 DEF Inv, TypeOK
    <2>2. CASE s[1] # 0
      <3>1. s[1] \in Places /\ s[2] \in Words
        BY <1>6, <2>2 DEF Words, Klass, Field
      <3>2. /\ \A a \in Places \ {s[1]} : heap'[a] = heap[a]
            /\ heap'[s[1]] = [heap[s[1]] EXCEPT ![s[2]] = d]
            /\ heap' = [a \in Places |-> heap'[a]]
        BY <1>1, <2>2, <3>1 DEF Inv, TypeOK
      <3>3. heap[s[1]] = [i \in Words |-> heap[s[1]][i]]
        BY <3>1 DEF Inv, TypeOK
      <3>4. /\ \A i \in Words : heap'[s[1]][i] = IF i = s[2] THEN d
                                                 ELSE heap[s[1]][i]
            /\ heap'[s[1]] = [i \in Words |-> heap'[s[1]][i]]
        BY <3>1, <3>2, <3>3
      <3> QED BY <3>2, <3>4 DEF Inv, TypeOK
    <2> QED BY <2>1, <2>2
  <1>8. /\ \A r \in Roots : root'[r] = IF s[1] = 0 /\ r = s[2] THEN d ELSE root[r]
        /\ root' = [r \in Roots |-> root'[r]]
    BY <1>1 DEF Inv, TypeOK
  <1>9. \A t \in AllSlots : Load(t)' = IF t = s THEN d ELSE Load(t)
    <2> SUFFICES ASSUME NEW t \in AllSlots
                 PROVE  Load(t)' = IF t = s THEN d ELSE Load(t)
      OBVIOUS
    <2>1. s \in AllSlots /\ (t = s <=> t[1] = s[1] /\ t[2] = s[2])
      BY <1>3 DEF InHand, AllSlots
    <2>2. CASE t[1] = 0
      <3>1. t[2] \in Roots
        BY <1>2, <2>2 DEF AllSlots
      <3> QED BY <1>8, <2>1, <2>2, <3>1 DEF Load
    <2>3. CASE t[1] # 0
      <3>1. t[1] \in Places /\ t[2] \in Words
        BY <2>3 DEF AllSlots, Words, Klass, Field
      <3> QED BY <1>7, <2>1, <2>3, <3>1 DEF Load
    <2> QED BY <2>2, <2>3
  <1>10. \A a \in Places : heap'[a][Monitor] = heap[a][Monitor]
    BY <1>2, <1>6, <1>7 DEF Monitor, Words, Klass, Field
  <1>11. \A a \in Places : Bits(a)' = Bits(a) /\ Hash(a)' = Hash(a)
    BY <1>10 DEF Bits, Hash
  <1>12. \A a \in Objs \cup {0} : Ident(a)' = Ident(a)
    <2> SUFFICES ASSUME NEW a \in Objs
                 PROVE  Ident(a)' = Ident(a)
      BY DEF Ident
    <2>1. Bits(a) = "forwarded" => Hash(a) \in Places
      BY <1>2, MarkedIdent DEF Inv, Forwarding
    <2> QED BY <1>2, <1>11, <2>1 DEF Ident
  <1>13. Bodies'
    <2>1. \A a \in Objs : Body(a)'
      <3> SUFFICES ASSUME NEW a \in Objs
                   PROVE  Body(a)'
        OBVIOUS
      <3>1. Body(a) /\ a \in Places /\ a # 0
        BY <1>2 DEF Inv, Bodies
      <3>2. Ident(a)' = Ident(a) /\ RefOf(Ident(a))' = RefOf(Ident(a))
        BY <1>1, <1>12 DEF RefOf
      <3>3. heap'[a][Klass] \in Objs /\ Ident(heap'[a][Klass]) = Ident(heap[a][Klass])
        <4>1. a = s[1] /\ Klass = s[2] => Load(s) = heap[a][Klass]
          BY <3>1 DEF Load
        <4> QED BY <1>4, <1>5, <1>7, <3>1, <4>1 DEF Body, Words, Klass
      <3>4. /\ heap'[a][Field] \in Objs \cup {0}
            /\ Ident(heap'[a][Field]) = Ident(heap[a][Field])
        <4>1. a = s[1] /\ Field = s[2] => Load(s) = heap[a][Field]
          BY <3>1 DEF Load
        <4> QED BY <1>4, <1>5, <1>7, <3>1, <4>1 DEF Body, Words, Field
      <3>5. /\ heap'[a][ObjectSize] = heap[a][ObjectSize]
            /\ heap'[a][ClassSize] = heap[a][ClassSize]
        BY <1>6, <1>7, <3>1 DEF Words, Klass, Field, ObjectSize, ClassSize
      <3> QED BY <1>2, <1>12, <3>1, <3>2, <3>3, <3>4, <3>5 DEF Body
    <2>2. ASSUME NEW r \in Roots
          PROVE  root'[r] \in Objs' /\ Ident(root[r])' = graph'.roots[r]
      <3>1. root[r] \in Objs /\ Ident(root[r]) = graph.roots[r]
        BY DEF Inv, Bodies
      <3>2. s[1] = 0 /\ r = s[2] => Load(s) = root[r]
        BY DEF Load
      <3>3. root'[r] \in Objs /\ Ident(root'[r]) = Ident(root[r])
        BY <1>4, <1>5, <1>8, <3>1, <3>2
      <3> QED BY <1>1, <1>2, <1>12, <3>1, <3>3
    <2> QED BY <1>2, <2>1, <2>2 DEF Bodies
  <1>14. Unique'
    <2>1. /\ JavaLangClass \in Objs /\ JavaLangClass \in Places
          /\ JavaLangClass \in Base /\ Ident(JavaLangClass) = JavaLangClass
      BY <1>2 DEF Inv, Unique, Ident, Bits, Hash, Header, JavaLangClass
    <2>2. Ident(o) # JavaLangClass /\ Ident(o) # 0
      <3>1. Ident(o) # JavaLangClass
        BY <1>4, OneJavaLangClass DEF InPlace
      <3>2. Ident(o) \in Objects
        BY <1>4 DEF Inv, Bodies, Body
      <3> QED BY <3>1, <3>2 DEF Objects, JavaLangClass, AClass, Instances
    <2>3. Ident(Load(s)) = Ident(o) /\ Ident(0) = 0
      BY <1>3 DEF InHand, Ident
    <2>4. s[1] # JavaLangClass
      <3> SUFFICES ASSUME s[1] = JavaLangClass
                   PROVE  FALSE
        OBVIOUS
      <3>1. Load(s) = JavaLangClass \/ Load(s) = 0
        BY <1>6 DEF Load, Inv, Unique, JavaLangClass
      <3> QED BY <2>1, <2>2, <2>3, <3>1
    <2>5. /\ heap'[JavaLangClass][Klass] = heap[JavaLangClass][Klass]
          /\ heap'[JavaLangClass][Field] = heap[JavaLangClass][Field]
      BY <1>7, <2>1, <2>4 DEF Words, Klass, Field
    <2>6. \A a \in Base : Ident(a)' = Ident(a)
      BY <1>2, <1>12
    <2> QED BY <1>2, <1>10, <2>1, <2>5, <2>6 DEF Inv, Unique
  <1>15. /\ \A v \in Workers \ {w} : job'[v] = job[v]
         /\ job'[w] = NoJob /\ job'[w].pc = "idle"
    BY <1>1 DEF Inv, TypeOK, NoJob
  <1>16. TypeOK'
    <2>1. NoJob \in Jobs
      BY DEF NoJob, Jobs
    <2> QED BY <1>1, <1>7, <1>8, <1>10, <2>1 DEF Inv, TypeOK
  <1>17. Over'
    BY <1>1, <1>2 DEF Over
  <1>18. Pins'
    BY <1>1, <1>2, <1>11 DEF Inv, Pins
  <1>19. Forwarding'
    BY <1>1, <1>2, <1>11 DEF Inv, Forwarding, InPlace
  <1>20. \A v \in Workers : job'[v].pc # "idle" => v # w /\ job'[v] = job[v]
    BY <1>15
  <1>21. "idle" \notin Copying /\ "idle" \notin HasCopy
    BY DEF Copying, HasCopy
  <1>22. Claims'
    <2>1. \A v \in Workers : job'[v].pc \in Copying =>
              job'[v].obj \in from' /\ Bits(job[v].obj)' = "being_forwarded"
      BY <1>1, <1>2, <1>11, <1>20, <1>21 DEF Inv, Claims
    <2> QED BY <1>1, <1>20, <1>21, <2>1 DEF Inv, Claims
  <1>23. Copies'
    <2> SUFFICES ASSUME NEW v \in Workers, job'[v].pc \in HasCopy
                 PROVE  CopyOf(v)'
      BY DEF Copies, CopyOf, At, HasCopy
    <2>1. job'[v] = job[v] /\ job[v].pc \in HasCopy /\ job[v].pc \in Copying
      BY <1>20, <1>21 DEF HasCopy, Copying
    <2>2. /\ job[v].dst \in Places \ {s[1]} /\ job[v].obj \in Places \ {s[1]}
      <3>1. job[v].obj \in from /\ Bits(job[v].obj) = "being_forwarded"
        BY <2>1 DEF Inv, Claims
      <3>2. job[v].obj \notin marked
        BY <3>1, MarkedIdent
      <3>3. job[v].dst \in used \ marked
        BY <2>1 DEF Inv, Claims
      <3> QED BY <1>2, <1>6, <3>1, <3>2, <3>3 DEF Inv, TypeOK
    <2>3. SameWords(job[v].dst, job[v].obj)' = SameWords(job[v].dst, job[v].obj)
      BY <1>7, <1>11, <2>1, <2>2
      DEF SameWords, Words, Klass, Field, ObjectSize, ClassSize
    <2> QED BY <1>11, <2>1, <2>2, <2>3 DEF Inv, Copies, CopyOf, At
  <1>24. Tracing'
    <2>1. ASSUME NEW t, NEW p, InHand(t, p)
          PROVE  InHand(t, p)'
      <3>1. /\ t \in AllSlots /\ t[1] \in marked \cup {0} /\ p \in Objs
            /\ Load(t) = p \/ Load(t) \in marked
            /\ Ident(Load(t)) = Ident(p)
        BY <2>1 DEF InHand
      <3>2. Load(t)' = p \/ Load(t)' \in marked
        BY <1>4, <1>9, <3>1
      <3>3. Load(t)' \in Objs /\ Ident(p)' = Ident(p)
        BY <1>2, <1>12, <3>1, <3>2
      <3>4. Ident(Load(t))' = Ident(p)
        BY <1>4, <1>5, <1>9, <1>12, <3>1, <3>3
      <3> QED BY <1>1, <1>2, <3>1, <3>2, <3>3, <3>4 DEF InHand
    <2>2. \A t, p : Published(t, p) => Published(t, p)'
      BY <1>1, <1>2, <1>11 DEF Published
    <2>3. \A t \in queue' : t[1] \in marked' \cup {0}
      BY <1>1 DEF Inv, Tracing
    <2>4. ASSUME NEW v \in Workers, job'[v].pc # "idle"
          PROVE  InHand(job[v].slot, job[v].obj)'
      BY <1>20, <2>1, <2>4 DEF Inv, Tracing
    <2>5. ASSUME NEW v \in Workers, At(v, "store")'
          PROVE  Published(job[v].obj, job[v].dst)'
      BY <1>20, <2>2, <2>5 DEF Inv, Tracing, At
    <2> QED BY <2>3, <2>4, <2>5 DEF Tracing
  <1>25. Traced'
    <2> SUFFICES ASSUME NEW t \in AllSlots, t[1] \in marked \cup {0}
                 PROVE  Done(t)'
      BY <1>1 DEF Traced
    <2>1. Done(t)
      BY <1>2 DEF Inv, Traced
    <2>2. CASE t = s
      BY <1>1, <1>4, <1>9, <2>2 DEF Done
    <2>3. CASE t # s
      BY <1>1, <1>9, <1>15, <2>1, <2>3 DEF Done
    <2> QED BY <2>2, <2>3
  <1> QED BY <1>13, <1>14, <1>16, <1>17, <1>18, <1>19, <1>22, <1>23, <1>24, <1>25
          DEF Inv

(***************************************************************************)
(* The end of a collection                                                 *)
(***************************************************************************)
LEMMA NewObjectWords ==
    ASSUME NEW o, NEW ref
    PROVE  /\ NewObject(o, ref) = [i \in Words |-> NewObject(o, ref)[i]]
           /\ NewObject(o, ref)[Klass] = ClassOf(o)
           /\ NewObject(o, ref)[Monitor] = Header(o)
           /\ NewObject(o, ref)[Field] = ref
           /\ NewObject(o, ref)[ObjectSize] = 12
           /\ NewObject(o, ref)[ClassSize] = 20
  <1> USE DEF NewObject, Klass, Monitor, Field, ObjectSize, ClassSize
  <1>1. NewObject(o, ref) = [i \in Words |-> NewObject(o, ref)[i]]
    BY SMT
  <1>2. /\ Klass \in Words /\ Monitor \in Words /\ Field \in Words
        /\ ObjectSize \in Words /\ ClassSize \in Words
    BY DEF Words
  <1>3. NewObject(o, ref)[Klass] = ClassOf(o)
    BY <1>2 DEF ClassOf
  <1>4. NewObject(o, ref)[Monitor] = Header(o)
    BY <1>2
  <1>5. NewObject(o, ref)[Field] = ref
    BY <1>2
  <1>6. NewObject(o, ref)[ObjectSize] = 12
    BY <1>2
  <1>7. NewObject(o, ref)[ClassSize] = 20
    BY <1>2
  <1> QED BY <1>1, <1>3, <1>4, <1>5, <1>6, <1>7

LEMMA UnusedTyped ==
    /\ Unused = [i \in Words |-> Unused[i]]
    /\ Unused[Monitor] \in Headers
  <1>1. PICK n : n = NewObject(JavaLangClass, 0)
    OBVIOUS
  <1>2. n = [i \in Words |-> n[i]] /\ n[Monitor] = Header(JavaLangClass)
    BY <1>1, NewObjectWords
  <1>3. PICK u : u = [n EXCEPT ![Klass] = 0, ![ObjectSize] = 0, ![ClassSize] = 0]
    OBVIOUS
  <1>4. Unused = u
    BY <1>1, <1>3 DEF Unused
  <1>5. /\ Monitor \in Words /\ Monitor # Klass /\ Monitor # ObjectSize
        /\ Monitor # ClassSize
    BY DEF Words, Monitor, Klass, ObjectSize, ClassSize
  <1>6. u = [i \in Words |-> u[i]] /\ u[Monitor] = Header(JavaLangClass)
    BY <1>2, <1>3, <1>5
  <1>7. Header(JavaLangClass) \in Headers
    BY DEF Header, Headers, JavaLangClass
  <1> QED BY <1>4, <1>6, <1>7

\* b is the old place of the object at a.
OldPlace(b, a) ==
    /\ Ident(b) = Hash(a)
    /\ \/ b = a /\ InPlace(a)
       \/ Bits(b) = "forwarded" /\ Hash(b) = a

\* Nothing is left to trace, so that all references lead to what is kept.
LEMMA EndGcStep ==
    ASSUME Inv, EndGc
    PROVE  Inv'
  <1>1. /\ world = "gc" /\ world' = "idle" /\ queue = {}
        /\ \A w \in Workers : job[w].pc = "idle"
        /\ used' = marked \cup {JavaLangClass} /\ pinned' = pinned \cap marked
        /\ held' = {h \in held : \E a \in marked : Hash(a) = h[2]}
        /\ from' = {} /\ marked' = {}
        /\ heap' = [a \in Places |-> IF a \in used' THEN heap[a] ELSE Unused]
        /\ UNCHANGED <<root, graph, queue, job>>
    BY DEF EndGc, At
  <1>2. /\ Base = from /\ Objs = from \cup marked /\ Base' = used' /\ Objs' = used'
        /\ used' \subseteq Objs /\ Objs \subseteq Places /\ 0 \notin Places
    BY <1>1, ObjsArePlaces DEF Base, Objs, Inv, Unique
  <1>3. \A a \in used' : heap'[a] = heap[a] /\ Bits(a)' = Bits(a) /\ Hash(a)' = Hash(a)
    BY <1>1, <1>2 DEF Bits, Hash
  <1>4. \A a \in used' : Bits(a) = "none" /\ Ident(a) = Hash(a) /\ Ident(a)' = Hash(a)
    <2>1. \A a \in used' : Bits(a) = "none"
      <3>1. Bits(JavaLangClass) = "none"
        BY DEF Inv, Unique, Bits, Header
      <3> QED BY <1>1, <3>1, MarkedIdent
    <2> QED BY <1>2, <1>3, <2>1 DEF Ident
  <1>5. \A t \in AllSlots : t[1] \in marked \cup {0} => Load(t) \in marked \cup {0}
    BY <1>1 DEF Inv, Traced, Done
  <1>6. \A a \in marked : /\ heap[a][Klass] \in marked
                          /\ heap[a][Field] \in marked \cup {0}
    <2> SUFFICES ASSUME NEW a \in marked
                 PROVE  /\ heap[a][Klass] \in marked
                        /\ heap[a][Field] \in marked \cup {0}
      OBVIOUS
    <2>1. a \in Places /\ a # 0 /\ Body(a)
      BY <1>2 DEF Inv, Bodies
    <2>2. /\ <<a, Klass>> \in AllSlots /\ <<a, Field>> \in AllSlots
          /\ Load(<<a, Klass>>) = heap[a][Klass]
          /\ Load(<<a, Field>>) = heap[a][Field]
      BY <2>1 DEF AllSlots, Load
    <2>3. /\ Load(<<a, Klass>>) \in marked \cup {0}
          /\ Load(<<a, Field>>) \in marked \cup {0}
      BY <1>5, <2>2
    <2> QED BY <1>2, <2>1, <2>2, <2>3 DEF Body
  <1>7. \A r \in Roots : root[r] \in marked
    <2> SUFFICES ASSUME NEW r \in Roots
                 PROVE  root[r] \in marked
      OBVIOUS
    <2>1. <<0, r>> \in AllSlots /\ Load(<<0, r>>) = root[r]
      BY DEF AllSlots, Load
    <2>2. Load(<<0, r>>) \in marked \cup {0}
      BY <1>5, <2>1
    <2> QED BY <1>2, <2>1, <2>2 DEF Inv, Bodies
  <1>8. TypeOK'
    <2>1. /\ heap' = [a \in Places |-> heap'[a]]
          /\ \A a \in Places : heap'[a] = heap[a] \/ heap'[a] = Unused
      BY <1>1
    <2>2. \A a \in Places : /\ heap'[a] = [i \in Words |-> heap'[a][i]]
                            /\ heap'[a][Monitor] \in Headers
      BY <2>1, UnusedTyped DEF Inv, TypeOK
    <2> QED BY <1>1, <1>2, <2>1, <2>2 DEF Inv, TypeOK
  <1>9. Over' /\ Claims' /\ Copies' /\ Tracing' /\ Traced'
    BY <1>1 DEF Over, Claims, Copies, CopyOf, Tracing, Traced, At, Copying, HasCopy
  <1>10. Bodies'
    <2>1. \A a \in used' : Body(a)'
      <3> SUFFICES ASSUME NEW a, a \in used'
                   PROVE  Body(a)'
        OBVIOUS
      <3>1. Body(a) /\ heap'[a] = heap[a] /\ Ident(a)' = Ident(a)
        BY <1>2, <1>3, <1>4 DEF Inv, Bodies
      <3>2. heap[a][Klass] \in used' /\ heap[a][Field] \in used' \cup {0}
        BY <1>1, <1>6 DEF Inv, Unique
      <3>3. \A b \in used' \cup {0} : Ident(b)' = Ident(b)
        BY <1>4 DEF Ident
      <3>4. RefOf(Ident(a))' = RefOf(Ident(a))
        BY <1>1, <3>1 DEF RefOf
      <3> QED BY <1>2, <3>1, <3>2, <3>3, <3>4 DEF Body
    <2>2. \A r \in Roots : root'[r] \in used' /\ Ident(root[r])' = graph'.roots[r]
      BY <1>1, <1>4, <1>7 DEF Inv, Bodies
    <2> QED BY <1>2, <2>1, <2>2 DEF Bodies
  <1>11. \A a \in used' : \E b \in from : OldPlace(b, a)
    <2> SUFFICES ASSUME NEW a, a \in used'
                 PROVE  \E b \in from : OldPlace(b, a)
      OBVIOUS
    <2>1. CASE a \in from
      <3>1. InPlace(a)
        BY <1>1, <2>1 DEF Inv, Forwarding, InPlace
      <3> QED BY <1>4, <2>1, <3>1 DEF OldPlace
    <2>2. CASE a \notin from
      <3>1. a \in marked \ from
        BY <1>1, <1>2, <2>2 DEF Inv, Unique
      <3>2. PICK b \in from : Bits(b) = "forwarded" /\ Hash(b) = a
        BY <3>1 DEF Inv, Forwarding
      <3>3. Ident(b) = Hash(a)
        BY <1>2, <3>2 DEF Ident
      <3> QED BY <3>2, <3>3 DEF OldPlace
    <2> QED BY <2>1, <2>2
  <1>12. Unique'
    <2>1. ASSUME NEW a, NEW b, a \in used', b \in used', Hash(a) = Hash(b)
          PROVE  a = b
      <3>1. PICK c \in from : OldPlace(c, a)
        BY <1>11, <2>1
      <3>2. PICK e \in from : OldPlace(e, b)
        BY <1>11, <2>1
      <3>3. c = e
        BY <1>2, <2>1, <3>1, <3>2 DEF Inv, Unique, OldPlace
      <3>4. Bits(a) = "none" /\ Bits(b) = "none"
        BY <1>4, <2>1
      <3> QED BY <3>1, <3>2, <3>3, <3>4 DEF OldPlace
    <2>2. \A a, b \in Base' : Ident(a)' = Ident(b)' => a = b
      BY <1>2, <1>4, <2>1
    <2>3. JavaLangClass \in used'
      BY <1>1
    <2>4. heap'[JavaLangClass] = heap[JavaLangClass]
      BY <1>3, <2>3
    <2> QED BY <1>2, <2>2, <2>3, <2>4 DEF Inv, Unique
  <1>13. Forwarding'
    BY <1>1, <1>2, <1>3, <1>4 DEF Forwarding
  <1>14. Pins'
    <2>1. pinned' \subseteq Base'
      BY <1>1, <1>2
    <2>2. ASSUME NEW h, h \in held'
          PROVE  h[1] \in pinned' /\ Hash(h[1])' = h[2]
      <3>1. h \in held /\ h[1] \in pinned /\ h[1] \in from /\ Hash(h[1]) = h[2]
        BY <1>1, <1>2, <2>2 DEF Inv, Pins
      <3>2. PICK a \in marked : Hash(a) = h[2]
        BY <1>1, <2>2
      <3>3. PICK b \in from : OldPlace(b, a)
        BY <1>1, <1>11
      <3>4. Bits(h[1]) = "none" /\ Ident(h[1]) = h[2]
        <4>1. Bits(h[1]) = "none"
          BY <1>2, <3>1 DEF Inv, Forwarding, InPlace
        <4> QED BY <1>2, <3>1, <4>1 DEF Ident
      <3>5. b = h[1]
        BY <1>2, <3>1, <3>2, <3>3, <3>4 DEF Inv, Unique, OldPlace
      <3>6. h[1] = a
        BY <3>3, <3>4, <3>5 DEF OldPlace
      <3>7. Hash(a)' = Hash(a)
        BY <1>1, <1>3
      <3> QED BY <1>1, <3>1, <3>2, <3>6, <3>7
    <2> QED BY <2>1, <2>2 DEF Pins
  <1> QED BY <1>8, <1>9, <1>10, <1>12, <1>13, <1>14 DEF Inv

(***************************************************************************)
(* Copies are copies of what was there when the collection began           *)
(***************************************************************************)
\* Old places stay forwarded to where they were.
StillForwarded ==
    \A a \in from : Bits(a) = "forwarded" =>
        Bits(a)' = "forwarded" /\ Hash(a)' = Hash(a)

LEMMA FollowsKept ==
    ASSUME from' = from, StillForwarded, NEW ref, NEW old, Follows(ref, old)
    PROVE  Follows(ref, old)'
  BY DEF StillForwarded, Follows, IsForwarded, mmtk_get_forwarded_object

\* A copy of which no word changes remains one.
LEMMA CopyKept ==
    ASSUME UNCHANGED <<from, before>>, StillForwarded, NEW a \in from, NEW c,
           IsCopy(c, before[a]),
           \A i \in Words : heap'[c][i] = heap[c][i]
    PROVE  IsCopy(c, before[a])'
  <1>1. PICK src : src = before[a] /\ src = before'[a]
    OBVIOUS
  <1>2. ASSUME NEW i \in WordsOf(src[Monitor].hash)
        PROVE  IF i \in {Klass, Field} THEN Follows(heap[c][i], src[i])'
                                        ELSE heap'[c][i] = src[i]
    <2>1. i \in Words /\ heap'[c][i] = heap[c][i]
      BY DEF WordsOf
    <2>2. IF i \in {Klass, Field} THEN Follows(heap[c][i], src[i])
                                   ELSE heap[c][i] = src[i]
      BY <1>1 DEF IsCopy
    <2>3. i \in {Klass, Field} => Follows(heap[c][i], src[i])'
      <3> SUFFICES ASSUME i \in {Klass, Field}
                   PROVE  Follows(heap[c][i], src[i])'
        OBVIOUS
      <3>1. PICK ref, old : ref = heap[c][i] /\ ref = heap'[c][i] /\ old = src[i]
        BY <2>1
      <3>2. Follows(ref, old)
        BY <2>2, <3>1
      <3>3. Follows(ref, old)'
        BY <3>2, FollowsKept
      <3> QED BY <3>1, <3>3 DEF Follows
    <2> QED BY <2>1, <2>2, <2>3
  <1> QED BY <1>1, <1>2 DEF IsCopy

\* Steps that neither publish a copy nor write to what is marked.
LEMMA SnapshotKept ==
    ASSUME Inv, Snapshot, world = "gc", UNCHANGED <<world, from, before>>,
           marked \subseteq marked',
           \A a \in from : /\ Bits(a) = "forwarded" <=> Bits(a)' = "forwarded"
                           /\ Hash(a)' = Hash(a)
                           /\ \A i \in Words \ {Monitor} : heap'[a][i] = heap[a][i],
           \A c \in marked : heap'[c] = heap[c]
    PROVE  Snapshot'
  <1> SUFFICES ASSUME NEW a \in from
               PROVE  Recorded(a)'
    BY DEF Snapshot
  <1>1. Recorded(a)
    BY DEF Snapshot
  <1>2. StillForwarded
    BY DEF StillForwarded
  <1>3. Bits(a) = "forwarded" => Hash(a) \in marked
    BY DEF Inv, Forwarding
  <1>4. Ident(a)' = Ident(a)
    <2>1. Bits(a) = "forwarded" => Hash(Hash(a))' = Hash(Hash(a))
      BY <1>3 DEF Hash
    <2> QED BY <2>1 DEF Ident
  <1>5. /\ before'[a] = before[a] /\ before'[a][Monitor] = Header(Ident(a))'
        /\ before'[a][Klass] \in from' /\ before'[a][Field] \in from' \cup {0}
        /\ a \notin marked' =>
             \A i \in Words \ {Monitor} : heap'[a][i] = before'[a][i]
    BY <1>1, <1>4 DEF Recorded, Header
  <1>6. Bits(a)' = "forwarded" => IsCopy(Hash(a), before[a])'
    <2> SUFFICES ASSUME Bits(a) = "forwarded"
                 PROVE  IsCopy(Hash(a), before[a])'
      OBVIOUS
    <2>1. PICK c : c = Hash(a) /\ c = Hash(a)'
      OBVIOUS
    <2>2. IsCopy(c, before[a]) /\ heap'[c] = heap[c]
      BY <1>1, <1>3, <2>1 DEF Recorded
    <2>3. IsCopy(c, before[a])'
      BY <1>2, <2>2, CopyKept
    <2> QED BY <2>1, <2>3 DEF IsCopy
  <1> QED BY <1>5, <1>6 DEF Recorded

LEMMA PinSnapshot ==
    ASSUME Inv, Snapshot, NEW r \in Roots, Pin(r)
    PROVE  Snapshot'
  BY DEF Pin, gc, Snapshot

\* When a collection begins, no object is forwarded.
LEMMA StartGcSnapshot ==
    ASSUME Inv, StartGc
    PROVE  Snapshot'
  <1>1. /\ world = "idle" /\ from' = used /\ before' = heap /\ heap' = heap
        /\ marked = {}
    BY DEF StartGc, Inv, Over
  <1>2. Objs = used /\ Objs \subseteq Places /\ 0 \notin Places
    BY <1>1, ObjsArePlaces DEF Objs, Base, Inv
  <1> SUFFICES ASSUME NEW a \in used
               PROVE  Recorded(a)'
    BY <1>1 DEF Snapshot
  <1>3. /\ Bits(a) = "none" /\ a # 0 /\ heap[a][Monitor] \in Headers
    BY <1>1, <1>2 DEF Inv, Forwarding, TypeOK
  <1>4. heap[a][Monitor] = Header(Ident(a)) /\ Ident(a)' = Ident(a)
    BY <1>1, <1>3, SameHeap DEF Ident, Header, Headers, Bits, Hash
  <1>5. heap[a][Klass] \in used /\ heap[a][Field] \in used \cup {0}
    BY <1>2 DEF Inv, Bodies, Body
  <1>6. Bits(a)' = "none"
    BY <1>1, <1>3, SameHeap
  <1> QED BY <1>1, <1>4, <1>5, <1>6 DEF Recorded, Header

LEMMA EndGcSnapshot ==
    ASSUME EndGc
    PROVE  Snapshot'
  BY DEF EndGc, Snapshot

\* Steps of a worker before it publishes its copy.
LEMMA TakeSnapshot ==
    ASSUME Inv, Snapshot, NEW w \in Workers, NEW s \in queue, Take(w, s)
    PROVE  Snapshot'
  <1>1. UNCHANGED <<heap, world, from, before, marked>>
    BY DEF Take, gc
  <1>2. world = "gc"
    BY DEF Inv, Over, TypeOK
  <1> QED BY <1>1, <1>2, SameHeap, SnapshotKept

LEMMA TraceSnapshot ==
    ASSUME Inv, Snapshot, NEW w \in Workers,
           TraceInPlace(w) \/ Spin(w) \/ AllocCopy(w)
    PROVE  Snapshot'
  <1>1. UNCHANGED <<heap, world, from, before>> /\ marked \subseteq marked'
    BY DEF TraceInPlace, Spin, AllocCopy, gc, trace
  <1>2. world = "gc"
    BY BusyInGc DEF TraceInPlace, Spin, AllocCopy, At
  <1> QED BY <1>1, <1>2, SameHeap, SnapshotKept

LEMMA ClaimSnapshot ==
    ASSUME Inv, Snapshot, NEW w \in Workers, Claim(w)
    PROVE  Snapshot'
  <1> DEFINE o == job[w].obj
  <1>1. /\ job[w].pc = "trace" /\ o \in from /\ ~InPlace(o) /\ Bits(o) = "none"
        /\ heap' = [heap EXCEPT ![o][Monitor].bits = "being_forwarded"]
        /\ UNCHANGED <<world, from, before, marked>>
    BY DEF Claim, At, gc, trace
  <1>2. world = "gc" /\ o \in Places /\ o \notin marked /\ from \subseteq Places
        /\ marked \subseteq Places
    BY <1>1, BusyInGc DEF Inv, TypeOK, Forwarding
  <1>3. /\ \A a \in Places \ {o} : heap'[a] = heap[a]
        /\ heap'[o] = [heap[o] EXCEPT ![Monitor].bits = "being_forwarded"]
    BY <1>1, <1>2 DEF Inv, TypeOK
  <1>4. heap[o] = [i \in Words |-> heap[o][i]] /\ Monitor \in Words
    BY <1>2 DEF Inv, TypeOK, Words, Monitor
  <1>5. /\ \A i \in Words \ {Monitor} : heap'[o][i] = heap[o][i]
        /\ heap'[o][Monitor] = [heap[o][Monitor] EXCEPT !.bits = "being_forwarded"]
    BY <1>3, <1>4
  <1>6. \A a \in Places : a = o => Bits(a)' = "being_forwarded" /\ Hash(a)' = Hash(a)
    BY <1>2, <1>5 DEF Inv, TypeOK, Headers, Bits, Hash
  <1>7. \A a \in Places \ {o} : Bits(a)' = Bits(a) /\ Hash(a)' = Hash(a)
    BY <1>3 DEF Bits, Hash
  <1>8. \A a \in from : /\ Bits(a) = "forwarded" <=> Bits(a)' = "forwarded"
                        /\ Hash(a)' = Hash(a)
                        /\ \A i \in Words \ {Monitor} : heap'[a][i] = heap[a][i]
    BY <1>1, <1>2, <1>3, <1>5, <1>6, <1>7
  <1> QED BY <1>1, <1>2, <1>3, <1>8, SnapshotKept

LEMMA CopyingSnapshot ==
    ASSUME Inv, Snapshot, NEW w \in Workers, CopyWords(w) \/ PostCopy(w)
    PROVE  Snapshot'
  <1> DEFINE d == job[w].dst
  <1>1. /\ job[w].pc \in HasCopy /\ job[w].pc # "idle"
        /\ UNCHANGED <<world, from, before, marked>>
        /\ \E x : heap' = [heap EXCEPT ![d] = x]
    BY DEF CopyWords, PostCopy, At, gc, trace, HasCopy
  <1>2. /\ world = "gc" /\ d \notin from \cup marked
        /\ from \subseteq Places /\ marked \subseteq Places
    BY <1>1, BusyInGc DEF Inv, Claims, TypeOK
  <1>3. \A a \in Places \ {d} : heap'[a] = heap[a]
    BY <1>1 DEF Inv, TypeOK
  <1>4. \A a \in from : heap'[a] = heap[a] /\ Bits(a)' = Bits(a) /\ Hash(a)' = Hash(a)
    BY <1>2, <1>3 DEF Bits, Hash
  <1> QED BY <1>1, <1>2, <1>3, <1>4, SnapshotKept

\* The copy that is published has the words that its object has, and these
\* are still the ones that it had when the collection began.
LEMMA ForwardSnapshot ==
    ASSUME Inv, Snapshot, NEW w \in Workers, Forward(w)
    PROVE  Snapshot'
  <1> DEFINE o == job[w].obj
             d == job[w].dst
  <1>1. /\ job[w].pc = "forward" /\ job[w].pc \in HasCopy /\ job[w].pc \in Copying
        /\ heap' = [heap EXCEPT ![o][Monitor] = [hash |-> d, bits |-> "forwarded"]]
        /\ marked' = marked \cup {d} /\ UNCHANGED <<world, from, before>>
    <2>1. LOCAL_FORWARDING_POINTER_SPEC \div 32 = Monitor
      BY DEF LOCAL_FORWARDING_POINTER_SPEC, Monitor
    <2> QED BY <2>1 DEF Forward, At, gc, HasCopy, Copying
  <1>2. /\ o \in from /\ o \in Places /\ Bits(o) = "being_forwarded" /\ o # 0
        /\ d \in used \ (from \cup marked) /\ d \in Places /\ d # 0
        /\ SameWords(d, o) /\ Bits(d) = "none" /\ o # d
    BY <1>1, ObjectModelAssumption DEF Inv, Claims, Copies, CopyOf, TypeOK, At
  <1>3. /\ world = "gc" /\ Objs = from \cup marked
        /\ from \subseteq Places /\ marked \subseteq Places /\ 0 \notin Places
    BY <1>1, BusyInGc, ObjectModelAssumption DEF Inv, TypeOK
  <1>4. o \notin marked /\ ~InPlace(o)
    BY <1>2, <1>3 DEF Inv, Forwarding
  <1>5. /\ \A a \in Places \ {o} : heap'[a] = heap[a]
        /\ \A i \in Words \ {Monitor} : heap'[o][i] = heap[o][i]
        /\ heap'[o][Monitor] = [hash |-> d, bits |-> "forwarded"]
    <2>1. /\ \A a \in Places \ {o} : heap'[a] = heap[a]
          /\ heap'[o] = [heap[o] EXCEPT ![Monitor] =
                            [hash |-> d, bits |-> "forwarded"]]
      BY <1>1, <1>2 DEF Inv, TypeOK
    <2>2. heap[o] = [i \in Words |-> heap[o][i]] /\ Monitor \in Words
      BY <1>2 DEF Inv, TypeOK, Words, Monitor
    <2> QED BY <2>1, <2>2
  <1>6. /\ \A a \in Places \ {o} : Bits(a)' = Bits(a) /\ Hash(a)' = Hash(a)
        /\ \A a \in Places : a = o => Bits(a)' = "forwarded" /\ Hash(a)' = d
    BY <1>5 DEF Bits, Hash
  <1>7. StillForwarded
    BY <1>2, <1>3, <1>6 DEF StillForwarded
  <1>8. \A a \in from : Recorded(a)
    BY <1>3 DEF Snapshot
  <1>9. \A a \in from : Ident(a)' = Ident(a)
    <2> SUFFICES ASSUME NEW a \in from
                 PROVE  Ident(a)' = Ident(a)
      OBVIOUS
    <2>1. CASE a = o
      BY <1>2, <1>6, <2>1 DEF Ident, SameWords
    <2>2. CASE a # o
      <3>1. Bits(a) = "forwarded" => Hash(a) \in Places \ {o}
        BY <1>3, <1>4 DEF Inv, Forwarding
      <3> QED BY <1>3, <1>6, <2>2, <3>1 DEF Ident
    <2> QED BY <2>1, <2>2
  <1>10. IsCopy(d, before[o])
    <2>1. /\ Ident(o) = Hash(o) /\ Hash(d) = Hash(o)
          /\ Ident(o) \in {AClass} \cup Instances
      <3>1. Ident(o) = Hash(o) /\ Hash(d) = Hash(o)
        BY <1>2 DEF Ident, SameWords
      <3>2. Ident(o) \in Objects /\ Ident(o) # JavaLangClass
        BY <1>2, <1>3, <1>4, OneJavaLangClass DEF Inv, Bodies, Body, InPlace
      <3> QED BY <3>1, <3>2 DEF Objects
    <2>2. heap[d][Monitor] = before[o][Monitor] /\ before[o][Monitor].hash = Hash(o)
      <3>1. heap[d][Monitor] = Header(Hash(d))
        BY <1>2 DEF Inv, TypeOK, Headers, Header, Bits, Hash
      <3> QED BY <1>2, <1>8, <2>1, <3>1 DEF Recorded, Header
    <2>3. \A i \in Words \ {Monitor} : heap[o][i] = before[o][i]
      BY <1>2, <1>4, <1>8 DEF Recorded
    <2>4. ASSUME NEW i \in WordsOf(Hash(o)), i # Monitor
          PROVE  heap[d][i] = before[o][i]
      <3>1. i \in Words \ {Monitor} /\ i \in {Klass, Field, ObjectSize, ClassSize}
        BY <2>4 DEF WordsOf, Words, Klass, Monitor, Field, ObjectSize, ClassSize
      <3>2. Hash(o) \in Instances => i \in {Klass, Field}
        BY <2>4 DEF WordsOf, Words, Klass, Monitor, Field
      <3>3. heap[d][i] = heap[o][i]
        BY <1>2, <2>1, <3>1, <3>2 DEF SameWords
      <3> QED BY <2>3, <3>1, <3>3
    <2> QED BY <2>2, <2>4 DEF IsCopy, Follows
  <1> SUFFICES ASSUME NEW a \in from
               PROVE  Recorded(a)'
    BY <1>1 DEF Snapshot
  <1>11. /\ before'[a] = before[a] /\ before'[a][Monitor] = Header(Ident(a))'
         /\ before'[a][Klass] \in from' /\ before'[a][Field] \in from' \cup {0}
         /\ a \notin marked' =>
              \A i \in Words \ {Monitor} : heap'[a][i] = before'[a][i]
    <2>1. \A i \in Words \ {Monitor} : heap'[a][i] = heap[a][i]
      BY <1>3, <1>5
    <2> QED BY <1>1, <1>8, <1>9, <2>1 DEF Recorded, Header
  <1>12. Bits(a)' = "forwarded" => IsCopy(Hash(a), before[a])'
    <2> SUFFICES ASSUME Bits(a)' = "forwarded"
                 PROVE  IsCopy(Hash(a), before[a])'
      OBVIOUS
    <2>1. PICK c : c = Hash(a)'
      OBVIOUS
    <2>2. IsCopy(c, before[a]) /\ c \in Places \ {o}
      <3>1. CASE a = o
        BY <1>2, <1>6, <1>10, <2>1, <3>1
      <3>2. CASE a # o
        <4>1. Bits(a) = "forwarded" /\ Hash(a) = c
          BY <1>3, <1>6, <2>1, <3>2
        <4> QED BY <1>3, <1>4, <1>8, <4>1 DEF Recorded, Inv, Forwarding
      <3> QED BY <3>1, <3>2
    <2>3. IsCopy(c, before[a])'
      BY <1>1, <1>5, <1>7, <2>2, CopyKept
    <2> QED BY <2>1, <2>3 DEF IsCopy
  <1> QED BY <1>11, <1>12 DEF Recorded

\* A slot of a copy refers to the object in hand, as the slot of the old
\* object did, and afterwards to the copy of that object.
LEMMA StoreFollows ==
    ASSUME Inv, Snapshot, NEW w \in Workers, job[w].pc = "store",
           NEW a \in from, Bits(a) = "forwarded", Hash(a) = job[w].slot[1],
           job[w].slot[2] \in {Klass, Field}
    PROVE  before[a][job[w].slot[2]] = job[w].obj
  <1> DEFINE o == job[w].obj
             c == job[w].slot[1]
             i == job[w].slot[2]
             x == before[a][i]
  <1>1. /\ world = "gc" /\ Base = from /\ Objs = from \cup marked
        /\ from \subseteq Places /\ marked \subseteq Places /\ 0 \notin Places
    BY BusyInGc, ObjectModelAssumption DEF Inv, TypeOK
  <1>2. /\ InHand(job[w].slot, o) /\ o \in from /\ c \in marked /\ c # 0
    BY <1>1 DEF Inv, Tracing, At, Published, Forwarding
  <1>3. Ident(heap[c][i]) = Ident(o) /\ Ident(o) # 0
    <2>1. Load(job[w].slot) = heap[c][i]
      BY <1>2 DEF Load
    <2>2. Ident(o) \in Objects
      BY <1>1, <1>2 DEF Inv, Bodies, Body
    <2>3. 0 \notin Objects
      BY DEF Objects, JavaLangClass, AClass, Instances
    <2> QED BY <1>2, <2>1, <2>2, <2>3 DEF InHand
  <1>4. x \in from \cup {0} /\ IsCopy(c, before[a])
    BY <1>1 DEF Snapshot, Recorded
  <1>5. Follows(heap[c][i], x)
    <2>1. \A h : i \in WordsOf(h)
      BY DEF WordsOf, Words, Klass, Field
    <2> QED BY <1>4, <2>1 DEF IsCopy
  <1>6. Ident(x) = Ident(heap[c][i])
    <2>1. CASE heap[c][i] = x
      BY <2>1
    <2>2. CASE heap[c][i] # x
      <3>1. x \in from /\ Bits(x) = "forwarded" /\ heap[c][i] = Hash(x)
        BY <1>5, <2>2 DEF Follows, IsForwarded, mmtk_get_forwarded_object
      <3>2. Hash(x) \in marked
        BY <3>1 DEF Inv, Forwarding
      <3>3. Ident(Hash(x)) = Hash(Hash(x))
        BY <3>2, MarkedIdent
      <3> QED BY <1>1, <3>1, <3>3 DEF Ident
    <2> QED BY <2>1, <2>2
  <1>7. x \in from
    BY <1>3, <1>4, <1>6 DEF Ident
  <1> QED BY <1>1, <1>2, <1>3, <1>6, <1>7 DEF Inv, Unique

LEMMA StoreSnapshot ==
    ASSUME Inv, Snapshot, NEW w \in Workers, Store(w)
    PROVE  Snapshot'
  <1> DEFINE o == job[w].obj
             d == job[w].dst
             s == job[w].slot
  <1>1. /\ job[w].pc = "store" /\ UNCHANGED <<world, from, before, marked>>
        /\ IF s[1] = 0 THEN UNCHANGED heap
                       ELSE heap' = [heap EXCEPT ![s[1]][s[2]] = d]
    BY DEF Store, At, gc, trace
  <1>2. /\ world = "gc" /\ from \subseteq Places /\ marked \subseteq Places
        /\ 0 \notin Places
    BY <1>1, BusyInGc, ObjectModelAssumption DEF Inv, TypeOK
  <1>3. /\ InHand(s, o) /\ o \in from /\ Bits(o) = "forwarded" /\ Hash(o) = d
        /\ d \in marked
    BY <1>1 DEF Inv, Tracing, At, Published, Forwarding
  <1>4. s[1] = 0 \/ (s[1] \in marked /\ s[2] \in {Klass, Field})
    BY <1>2, <1>3 DEF InHand, AllSlots
  <1>5. \A a \in Places : \A i \in Words :
            heap'[a][i] = IF a = s[1] /\ i = s[2] THEN d ELSE heap[a][i]
    <2>1. CASE s[1] = 0
      BY <1>1, <1>2, <2>1
    <2>2. CASE s[1] # 0
      <3>1. s[1] \in Places /\ s[2] \in Words
        BY <1>2, <1>4, <2>2 DEF Words, Klass, Field
      <3>2. /\ \A a \in Places \ {s[1]} : heap'[a] = heap[a]
            /\ heap'[s[1]] = [heap[s[1]] EXCEPT ![s[2]] = d]
        BY <1>1, <2>2, <3>1 DEF Inv, TypeOK
      <3>3. heap[s[1]] = [i \in Words |-> heap[s[1]][i]]
        BY <3>1 DEF Inv, TypeOK
      <3>4. \A i \in Words : heap'[s[1]][i] = IF i = s[2] THEN d ELSE heap[s[1]][i]
        BY <3>1, <3>2, <3>3
      <3> QED BY <3>2, <3>4
    <2> QED BY <2>1, <2>2
  <1>6. \A a \in Places : Bits(a)' = Bits(a) /\ Hash(a)' = Hash(a)
    <2>1. \A a \in Places : heap'[a][Monitor] = heap[a][Monitor]
      BY <1>2, <1>4, <1>5 DEF Monitor, Words, Klass, Field
    <2> QED BY <2>1 DEF Bits, Hash
  <1>7. StillForwarded
    BY <1>2, <1>6 DEF StillForwarded
  <1> SUFFICES ASSUME NEW a \in from
               PROVE  Recorded(a)'
    BY <1>1 DEF Snapshot
  <1>8. Recorded(a) /\ (Bits(a) = "forwarded" => Hash(a) \in marked)
    BY <1>2 DEF Snapshot, Inv, Forwarding
  <1>9. Ident(a)' = Ident(a)
    BY <1>2, <1>6, <1>8 DEF Ident
  <1>10. a \notin marked => \A i \in Words : heap'[a][i] = heap[a][i]
    BY <1>2, <1>4, <1>5
  <1>11. /\ before'[a] = before[a] /\ before'[a][Monitor] = Header(Ident(a))'
         /\ before'[a][Klass] \in from' /\ before'[a][Field] \in from' \cup {0}
         /\ a \notin marked' =>
              \A i \in Words \ {Monitor} : heap'[a][i] = before'[a][i]
    BY <1>1, <1>8, <1>9, <1>10 DEF Recorded, Header
  <1>12. Bits(a)' = "forwarded" => IsCopy(Hash(a), before[a])'
    <2> SUFFICES ASSUME Bits(a) = "forwarded"
                 PROVE  IsCopy(Hash(a), before[a])'
      BY <1>2, <1>6
    <2>1. PICK c : c = Hash(a) /\ c = Hash(a)'
      BY <1>2, <1>6
    <2>2. IsCopy(c, before[a]) /\ c \in Places
      BY <1>2, <1>8, <2>1 DEF Recorded
    <2>3. CASE c # s[1]
      <3>1. \A i \in Words : heap'[c][i] = heap[c][i]
        BY <1>5, <2>2, <2>3
      <3>2. IsCopy(c, before[a])'
        BY <1>1, <1>7, <2>2, <3>1, CopyKept
      <3> QED BY <2>1, <3>2 DEF IsCopy
    <2>4. CASE c = s[1]
      <3>1. s[2] \in {Klass, Field} /\ before[a][s[2]] = o
        BY <1>1, <1>2, <1>4, <2>1, <2>2, <2>4, StoreFollows
      <3>2. ASSUME NEW i \in WordsOf(before[a][Monitor].hash)
            PROVE  IF i \in {Klass, Field} THEN Follows(heap[c][i], before[a][i])'
                                            ELSE heap'[c][i] = before'[a][i]
        <4>1. i \in Words
          BY DEF WordsOf
        <4>2. IF i \in {Klass, Field} THEN Follows(heap[c][i], before[a][i])
                                       ELSE heap[c][i] = before[a][i]
          BY <2>2 DEF IsCopy
        <4>3. CASE i = s[2]
          <5>1. heap'[c][i] = d /\ before'[a][i] = o
            BY <1>1, <1>5, <2>2, <2>4, <3>1, <4>1, <4>3
          <5>2. PICK x \in from : x = o /\ x = before'[a][i]
            BY <1>3, <5>1
          <5>3. Bits(x)' = "forwarded" /\ Hash(x)' = d /\ d # 0 /\ x \in from'
            BY <1>1, <1>2, <1>3, <1>6, <5>2
          <5>4. Follows(heap[c][i], before[a][i])'
            BY <5>1, <5>2, <5>3 DEF Follows, IsForwarded, mmtk_get_forwarded_object
          <5> QED BY <3>1, <4>3, <5>4
        <4>4. CASE i # s[2]
          <5>1. heap'[c][i] = heap[c][i] /\ before'[a][i] = before[a][i]
            BY <1>1, <1>5, <2>2, <4>1, <4>4
          <5>2. PICK ref, old : /\ ref = heap[c][i] /\ ref = heap'[c][i]
                                /\ old = before[a][i] /\ old = before'[a][i]
            BY <5>1
          <5>3. Follows(ref, old) => Follows(ref, old)'
            BY <1>1, <1>7, FollowsKept
          <5>4. i \in {Klass, Field} => Follows(ref, old)'
            BY <4>2, <5>2, <5>3
          <5>5. i \in {Klass, Field} => Follows(heap[c][i], before[a][i])'
            BY <5>2, <5>4 DEF Follows
          <5> QED BY <4>2, <5>1, <5>5
        <4> QED BY <4>3, <4>4
      <3>3. before'[a] = before[a]
        BY <1>1
      <3> QED BY <2>1, <3>2, <3>3 DEF IsCopy
    <2> QED BY <2>3, <2>4
  <1> QED BY <1>11, <1>12 DEF Recorded

\* Every step keeps what has been recorded.
LEMMA NextSnapshot == Inv /\ Snapshot /\ [Next]_vars => Snapshot'
  <1> SUFFICES ASSUME Inv, Snapshot, [Next]_vars
               PROVE  Snapshot'
    OBVIOUS
  <1>1. ASSUME NEW w \in Workers, Trace(w)
        PROVE  Snapshot'
    BY <1>1, TakeSnapshot, TraceSnapshot, ClaimSnapshot, CopyingSnapshot,
       ForwardSnapshot, StoreSnapshot DEF Trace
  <1>2. ASSUME NEW r \in Roots, Pin(r)
        PROVE  Snapshot'
    BY <1>2, PinSnapshot
  <1>3. CASE UNCHANGED vars
    <2>1. UNCHANGED <<heap, world, from, before, marked>>
      BY <1>3 DEF vars, gc, trace
    <2>2. world = "gc" => Snapshot'
      BY <2>1, SameHeap, SnapshotKept
    <2> QED BY <2>1, <2>2 DEF Snapshot
  <1> QED BY <1>1, <1>2, <1>3, StartGcSnapshot, EndGcSnapshot DEF Next

(***************************************************************************)
(* The theorems                                                            *)
(***************************************************************************)
LEMMA InitInv == Init => Inv
  <1> SUFFICES ASSUME Init
               PROVE  Inv
    OBVIOUS
  <1>1. PICK g \in Graphs :
        /\ graph = g
        /\ heap = [a \in Places |->
                     CASE a \in Instances -> NewObject(a, g.refs[a])
                       [] a \in Objects \ Instances -> NewObject(a, 0)
                       [] OTHER -> Unused]
        /\ root = g.roots /\ used = Objects /\ pinned = {} /\ held = {}
        /\ world = "idle" /\ from = {} /\ marked = {} /\ queue = {}
        /\ job = [w \in Workers |-> NoJob]
    BY DEF Init
  <1>2. /\ g.refs \in [Instances -> 0 .. 4] /\ g.roots \in [Roots -> Instances]
        /\ Objects = 1 .. 4 /\ Objects \subseteq Places /\ 0 \notin Places
        /\ Objects \subseteq Nat
    BY ObjectModelAssumption DEF Objects, Instances, JavaLangClass, AClass
  <1>3. /\ \A a \in Instances : heap[a] = NewObject(a, g.refs[a])
        /\ \A a \in Objects \ Instances : heap[a] = NewObject(a, 0)
        /\ \A a \in Places \ Objects : heap[a] = Unused
        /\ heap = [a \in Places |-> heap[a]]
    <2>1. Instances \subseteq Objects
      BY DEF Objects
    <2> QED BY <1>1, <1>2, <2>1
  <1>4. \A a \in Objects : /\ heap[a][Klass] = ClassOf(a)
                           /\ heap[a][Field] = RefOf(a)
                           /\ heap[a][ObjectSize] = 12 /\ heap[a][ClassSize] = 20
                           /\ heap[a][Monitor] = Header(a)
                           /\ heap[a] = [i \in Words |-> heap[a][i]]
    <2>1. \A a \in Objects : heap[a] = NewObject(a, RefOf(a))
      BY <1>1, <1>3 DEF RefOf
    <2> QED BY <2>1, NewObjectWords
  <1>5. \A a \in Objects : /\ Bits(a) = "none" /\ Hash(a) = a
                           /\ heap[a][Monitor] \in Headers
    BY <1>2, <1>4 DEF Bits, Hash, Header, Headers
  <1>6. /\ Ident(0) = 0 /\ \A a \in Objects : Ident(a) = a
    BY <1>2, <1>5 DEF Ident
  <1>7. Base = Objects /\ Objs = Objects
    BY <1>1 DEF Base, Objs
  <1>8. NoJob \in Jobs /\ \A w \in Workers : job[w].pc = "idle"
    BY <1>1 DEF NoJob, Jobs
  <1>9. TypeOK
    <2>1. \A a \in Places : /\ heap[a] = [i \in Words |-> heap[a][i]]
                            /\ heap[a][Monitor] \in Headers
      BY <1>3, <1>4, <1>5, UnusedTyped
    <2> QED BY <1>1, <1>2, <1>3, <1>8, <2>1 DEF TypeOK
  <1>10. Over /\ Claims /\ Copies /\ Tracing /\ Traced /\ Pins
    BY <1>1, <1>8 DEF Over, Claims, Copies, CopyOf, Tracing, Traced, Pins, At,
                      Copying, HasCopy
  <1>11. Bodies
    <2>1. \A a \in Objects : ClassOf(a) \in Objects /\ RefOf(a) \in Objects \cup {0}
      BY <1>1, <1>2 DEF ClassOf, RefOf, AClass, JavaLangClass
    <2>2. ASSUME NEW a \in Objects
          PROVE  Body(a)
      <3>1. Ident(ClassOf(a)) = ClassOf(a) /\ Ident(RefOf(a)) = RefOf(a)
        BY <1>6, <2>1
      <3>2. /\ heap[a][Klass] = ClassOf(a) /\ heap[a][Field] = RefOf(a)
            /\ heap[a][ObjectSize] = 12 /\ heap[a][ClassSize] = 20
            /\ Ident(a) = a
        BY <1>4, <1>6
      <3> QED BY <1>7, <2>1, <3>1, <3>2 DEF Body
    <2>3. Instances \subseteq Objects
      BY DEF Objects
    <2> QED BY <1>1, <1>2, <1>6, <1>7, <2>2, <2>3 DEF Bodies
  <1>12. Unique
    <2>1. /\ JavaLangClass \in Objects /\ ClassOf(JavaLangClass) = JavaLangClass
          /\ RefOf(JavaLangClass) = 0
      BY DEF Objects, ClassOf, RefOf, JavaLangClass, Instances
    <2> QED BY <1>4, <1>6, <1>7, <2>1 DEF Unique
  <1>13. Forwarding
    BY <1>1, <1>5, <1>7 DEF Forwarding
  <1> QED BY <1>9, <1>10, <1>11, <1>12, <1>13 DEF Inv

\* Every step keeps the invariant.
LEMMA NextInv == Inv /\ [Next]_vars => Inv'
  <1> SUFFICES ASSUME Inv, [Next]_vars
               PROVE  Inv'
    OBVIOUS
  <1>1. ASSUME NEW w \in Workers, Trace(w)
        PROVE  Inv'
    BY <1>1, TakeStep, TraceInPlaceStep, ClaimStep, SpinStep, AllocCopyStep,
       CopyWordsStep, PostCopyStep, ForwardStep, StoreStep DEF Trace
  <1>2. ASSUME NEW r \in Roots, Pin(r)
        PROVE  Inv'
    BY <1>2, PinStep
  <1>3. CASE UNCHANGED vars
    <2>1. UNCHANGED <<heap, root, used, pinned, held, graph, world, from, marked,
                      queue, job>>
      BY <1>3 DEF vars, art, gc, trace
    <2>2. Base' = Base /\ Objs' = Objs
      BY <2>1 DEF Base, Objs
    <2>3. TypeOK' /\ Over' /\ Pins' /\ Claims' /\ Copies'
      BY <2>1, <2>2, SameHeap
      DEF Inv, TypeOK, Over, Pins, Claims, Copies, CopyOf, SameWords, At
    <2>4. Bodies' /\ Unique' /\ Forwarding'
      BY <2>1, <2>2, SameHeap DEF Inv, Bodies, Body, Unique, Forwarding, InPlace, RefOf
    <2>5. \A t : Load(t)' = Load(t)
      BY <2>1 DEF Load
    <2>6. Tracing' /\ Traced'
      BY <2>1, <2>2, <2>5, SameHeap
      DEF Inv, Tracing, InHand, Published, Traced, Done, At
    <2> QED BY <2>3, <2>4, <2>6 DEF Inv
  <1> QED BY <1>1, <1>2, <1>3, StartGcStep, EndGcStep DEF Next

\* At every moment of tracing, forwarding pointers lead from old places to
\* marked copies, claimed objects have one worker each, references lead to
\* the objects that ART stored, and no slot of a marked object is forgotten.
THEOREM Invariant == Spec => []Inv
  BY InitInv, NextInv, PTL DEF Spec

\* Whatever mmtk_get_forwarded_object or a waiting worker gets is a complete
\* copy of the object that was at the old place when the collection began:
\* its hash code with clear forwarding bits, its sizes and its references, as
\* they were or updated to where their objects are now (copy, post_copy).
THEOREM PublishedCopiesComplete == Spec => []PublishedComplete
  <1>1. Inv /\ Snapshot => PublishedComplete
    <2> SUFFICES ASSUME Inv, Snapshot, NEW a \in from, IsForwarded(a)
                 PROVE  LET c == mmtk_get_forwarded_object(a)
                        IN  c \in used \ from /\ IsCopy(c, before[a])
      BY DEF PublishedComplete
    <2>1. Bits(a) = "forwarded" /\ mmtk_get_forwarded_object(a) = Hash(a)
      BY DEF IsForwarded, mmtk_get_forwarded_object
    <2>2. world = "gc" /\ Hash(a) \in used \ from
      BY <2>1 DEF Inv, TypeOK, Over, Forwarding
    <2>3. IsCopy(Hash(a), before[a])
      BY <2>1, <2>2 DEF Snapshot, Recorded
    <2> QED BY <2>1, <2>2, <2>3
  <1>2. Init => Inv /\ Snapshot
    BY InitInv DEF Init, Snapshot
  <1>3. Inv /\ Snapshot /\ [Next]_vars => (Inv /\ Snapshot)'
    BY NextInv, NextSnapshot
  <1> QED BY <1>1, <1>2, <1>3, PTL DEF Spec

\* Between collections objects and roots are connected as ART connected them
\* and every object exists once, whatever workers raced for.
THEOREM GraphSurvives == Spec => []GraphPreserved
  <1>1. Inv => GraphPreserved
    <2> SUFFICES ASSUME Inv, world = "idle"
                 PROVE  GraphPreserved
      BY DEF GraphPreserved
    <2>1. Objs = used /\ Base = used /\ 0 \notin used /\ used \subseteq Places
      BY ObjsArePlaces DEF Inv, Over, Objs, Base
    <2>2. \A a \in used : Bits(a) = "none" /\ Ident(a) = Hash(a)
      BY <2>1 DEF Inv, Forwarding, Ident
    <2>3. \A r \in Roots : Hash(root[r]) = graph.roots[r]
      BY <2>1, <2>2 DEF Inv, Bodies
    <2>4. ASSUME NEW a \in used
          PROVE  /\ Bits(a) = "none"
                 /\ Hash(a) = AClass =>
                      heap[a][ObjectSize] = 12 /\ heap[a][ClassSize] = 20
                 /\ \A b \in used \ {a} : Hash(a) # Hash(b)
                 /\ Hash(get_class(a)) =
                      IF Hash(a) \in Instances THEN AClass ELSE JavaLangClass
                 /\ Hash(a) \in Instances =>
                      IF heap[a][Field] = 0 THEN graph.refs[Hash(a)] = 0
                      ELSE Hash(heap[a][Field]) = graph.refs[Hash(a)]
      <3>1. Body(a) /\ Ident(a) = Hash(a) /\ Ident(0) = 0
        BY <2>1, <2>2 DEF Inv, Bodies, Ident
      <3>2. Hash(a) = AClass =>
              heap[a][ObjectSize] = 12 /\ heap[a][ClassSize] = 20
        BY <3>1 DEF Body
      <3>3. \A b \in used \ {a} : Hash(a) # Hash(b)
        BY <2>1, <2>2 DEF Inv, Unique
      <3>4. Hash(get_class(a)) = ClassOf(Hash(a))
        BY <2>1, <2>2, <3>1 DEF Body, get_class
      <3>5. heap[a][Field] = 0 \/ heap[a][Field] \in used
        BY <2>1, <3>1 DEF Body
      <3>6. Ident(heap[a][Field]) = RefOf(Hash(a))
        BY <3>1 DEF Body
      <3> QED BY <2>2, <3>1, <3>2, <3>3, <3>4, <3>5, <3>6 DEF ClassOf, RefOf
    <2> QED BY <2>3, <2>4 DEF GraphPreserved
  <1> QED BY <1>1, Invariant, PTL

\* An object pinned by mmtk_pin_object stays at its address.
THEOREM PinnedObjectsStay == Spec => []PinnedStays
  <1>1. Inv => PinnedStays
    BY DEF Inv, Pins, PinnedStays, Base
  <1> QED BY <1>1, Invariant, PTL
============================================================================
