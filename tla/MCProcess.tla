----------------------------- MODULE MCProcess -----------------------------
(* A process with small numbers of threads and the heap sizes that matter. *)
EXTENDS Process

\* Pages: a heap that can grow, one of a fixed size that is not a multiple of
\* a chunk, the largest that is accepted, and one as large as the address space.
MCSizes == {[min |-> 2048, max |-> 65536], [min |-> 65537, max |-> 65537],
            [min |-> 2048, max |-> 524288], [min |-> 2048, max |-> 1048576]}
============================================================================
