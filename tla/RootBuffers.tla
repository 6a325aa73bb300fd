---------------------------- MODULE RootBuffers ----------------------------
(***************************************************************************)
(* How roots travel from ART to MMTk (mmtk/src/scanning.rs): ART fills a   *)
(* buffer that a Rust callback gave it, hands it back, gets the next one,  *)
(* and releases the last one (mmtk/src/api.rs).  Root slots travel in      *)
(* vectors, or in the GC worker's own mark stack when the binding is built *)
(* with single_worker; VM-space objects always travel in vectors.  Between *)
(* collections, ART's heap visitor borrows the list of allocated regions   *)
(* and the list of large objects in the same way.  ART's visitors and      *)
(* MMTk's work packets are external.                                       *)
(***************************************************************************)
EXTENDS Naturals, Sequences, FiniteSets

CONSTANTS
    Roots,           \* roots that ART may have
    Buffers,         \* identities of allocated vectors
    PacketCapacity,  \* WORK_PACKET_CAPACITY
    Builds           \* the values that feature single_worker may have

ASSUME BuffersAssumption ==
    /\ PacketCapacity \in Nat \ {0}
    /\ Builds \subseteq BOOLEAN
    /\ {"null", "stack"} \cap Buffers = {}

VARIABLES
    single_worker,  \* feature single_worker of this build
    scan,      \* the scan under way: "none", "slots" or "nodes"
    todo,      \* roots that ART has still to visit
    buf,       \* the buffer ART fills: "null", "stack" or a vector
    filled,    \* what ART has stored in it
    vec,       \* per vector, its owner: "free", "art" or "packet"
    stack,     \* the mark stack: "worker", "lent" or "dropped"
    reported,  \* per root: how often MMTk has received it
    lent       \* the lists that the heap visitor holds, or "null"

vars == <<single_worker, scan, todo, buf, filled, vec, stack, reported, lent>>

Lists == {"regions", "large_objects"}

Init ==
    /\ single_worker \in Builds
    /\ scan = "none" /\ todo = {} /\ buf = "null" /\ filled = <<>>
    /\ vec = [b \in Buffers |-> "free"]
    /\ stack = "worker"
    /\ reported = [r \in Roots |-> 1]
    /\ lent = [l \in Lists |-> "null"]

(***************************************************************************)
(* The callbacks                                                           *)
(***************************************************************************)
\* Which of the scans goes through the mark stack.
UsesStack(kind) == single_worker /\ kind = "slots"

\* The callback got a buffer.
HasBuffer == buf # "null"

\* Faulty: off by one, the last entry of the buffer is lost.
ReceivedButLast == [r \in Roots |-> reported[r] +
               Cardinality({i \in 1 .. Len(filled) - 1 : filled[i] = r})]

Received == [r \in Roots |-> reported[r] +
               Cardinality({i \in 1 .. Len(filled) : filled[i] = r})]

\* Faulty: ART keeps the buffer that the work packet now owns.
reuse_buffer ==
    \E b \in Buffers :
        /\ IF HasBuffer THEN b = buf ELSE vec[b] = "free"
        /\ vec' = [vec EXCEPT ![b] = IF HasBuffer THEN "packet" ELSE "art"]
        /\ buf' = b /\ stack' = stack

\* Vec::from_raw_parts of the buffer goes to a work packet, and a fresh
\* vector, forgotten by Rust, goes to ART.
renew_buffer ==
    \E b \in Buffers :
        /\ vec[b] = "free"
        /\ vec' = [c \in Buffers |-> CASE c = b -> "art"
                                       [] c = buf /\ c # b -> "packet"
                                       [] OTHER -> vec[c]]
        /\ buf' = b /\ stack' = stack

\* Root slots and VM-space objects in vectors.
report_and_renew_buffer ==
    /\ ~UsesStack(scan)
    /\ renew_buffer
    /\ reported' = IF HasBuffer THEN Received ELSE reported
    /\ filled' = <<>>
    /\ UNCHANGED <<single_worker, scan, todo, lent>>

\* Root slots in the mark stack: MMTk traces everything the stack holds, and
\* lends it to ART again, empty.
object_graph_traversal_report_roots ==
    /\ UsesStack(scan)
    /\ reported' = IF HasBuffer THEN Received ELSE reported
    /\ buf' = "stack" /\ stack' = "lent"
    /\ filled' = <<>>
    /\ UNCHANGED <<single_worker, scan, todo, vec, lent>>

Callback ==
    report_and_renew_buffer \/ object_graph_traversal_report_roots

(***************************************************************************)
(* The releases                                                            *)
(***************************************************************************)
\* drop(Vec::from_raw_parts(...)) of ART's buffer.
Drop ==
    /\ vec' = [c \in Buffers |-> IF c = buf THEN "free" ELSE vec[c]]
    /\ stack' = IF buf = "stack" THEN "dropped" ELSE stack

\* Faulty: the mark stack is dropped like a vector.
DropInEveryBuild == TRUE

\* The build in which mmtk_release_rust_buffer drops its argument.
DropsBuffer == ~single_worker

\* mmtk_release_rust_buffer: with single_worker the buffer is the global one.
mmtk_release_rust_buffer ==
    IF DropsBuffer THEN Drop
    ELSE /\ stack' = IF buf = "stack" THEN "worker" ELSE stack
         /\ UNCHANGED vec

mmtk_release_rust_buffer_unchecked == Drop

(***************************************************************************)
(* ART's visitor (external)                                                *)
(***************************************************************************)
\* scan_vm_specific_roots, its single-threaded variant, and
\* scan_vm_space_objects make the upcall with the callback for their kind;
\* ART has the roots R at the time, and the others need no report.
StartScan(kind, R) ==
    /\ scan = "none"
    /\ scan' = kind /\ todo' = R
    /\ reported' = [r \in Roots |-> IF r \in R THEN 0 ELSE 1]
    /\ UNCHANGED <<single_worker, buf, filled, vec, stack, lent>>

\* The first buffer is asked for with a null pointer, the next ones when the
\* buffer is full, the last one to flush what is left.
NeedsBuffer ==
    \/ buf = "null"
    \/ Len(filled) = PacketCapacity
    \/ todo = {} /\ filled # <<>>

CallBack == scan # "none" /\ NeedsBuffer /\ Callback

VisitRoot(r) ==
    /\ scan # "none" /\ buf # "null" /\ Len(filled) < PacketCapacity
    /\ filled' = Append(filled, r)
    /\ todo' = todo \ {r}
    /\ UNCHANGED <<single_worker, scan, buf, vec, stack, reported, lent>>

EndScan ==
    /\ scan # "none" /\ todo = {} /\ buf # "null" /\ filled = <<>>
    /\ IF scan = "slots" THEN mmtk_release_rust_buffer
                         ELSE mmtk_release_rust_buffer_unchecked
    /\ buf' = "null" /\ scan' = "none"
    /\ UNCHANGED <<single_worker, todo, filled, reported, lent>>

\* A work packet has been processed and drops its vector.
PacketDone(b) ==
    /\ vec[b] = "packet"
    /\ vec' = [vec EXCEPT ![b] = "free"]
    /\ UNCHANGED <<single_worker, scan, todo, buf, filled, stack, reported, lent>>

(***************************************************************************)
(* The lists for the heap visitor                                          *)
(***************************************************************************)
\* mmtk_iterate_allocated_regions and mmtk_enumerate_large_objects: MMTk
\* builds the list, and Rust forgets it.
Lend(list) ==
    /\ scan = "none" /\ lent[list] = "null"
    /\ \E b \in Buffers :
         /\ vec[b] = "free"
         /\ vec' = [vec EXCEPT ![b] = "art"]
         /\ lent' = [lent EXCEPT ![list] = b]
    /\ UNCHANGED <<single_worker, scan, todo, buf, filled, stack, reported>>

\* mmtk_release_rust_allocated_region_buffer and
\* mmtk_release_rust_object_reference_buffer drop it in every build.
Release(list) ==
    /\ lent[list] # "null"
    /\ vec' = [vec EXCEPT ![lent[list]] = "free"]
    /\ lent' = [lent EXCEPT ![list] = "null"]
    /\ UNCHANGED <<single_worker, scan, todo, buf, filled, stack, reported>>

Next ==
    \/ \E list \in Lists : Lend(list) \/ Release(list)
    \/ \E kind \in {"slots", "nodes"}, R \in SUBSET Roots : StartScan(kind, R)
    \/ CallBack
    \/ \E r \in todo : VisitRoot(r)
    \/ EndScan
    \/ \E b \in Buffers : PacketDone(b)

Spec == Init /\ [][Next]_vars

(***************************************************************************)
(* Properties                                                              *)
(***************************************************************************)
\* ART fills only what it owns: the vector it was given last and not yet
\* handed back, while packets drop theirs, or the mark stack it was lent.
\* The lists of the heap visitor are vectors of their own.
WritesOwnBuffer ==
    /\ buf \in Buffers => vec[buf] = "art"
    /\ buf = "stack" => stack = "lent"
    /\ \A l \in Lists : lent[l] # "null" => vec[lent[l]] = "art" /\ lent[l] # buf

\* When no scan is under way ART holds no vector any more but the lists of
\* its heap visitor, so that none is leaked, and the mark stack is back with
\* the GC worker and has never been dropped ("We use a global buffer for the
\* single-threaded GC case and don't want to drop it").
BuffersReturned ==
    scan = "none" =>
        /\ stack = "worker"
        /\ \A b \in Buffers : vec[b] = "art" => \E l \in Lists : lent[l] = b

\* A scan ends with every root of it reported once: none is lost in a buffer
\* that was not full, none is reported again with the next buffer.
ReportedOnce == scan = "none" => \A r \in Roots : reported[r] = 1
============================================================================
