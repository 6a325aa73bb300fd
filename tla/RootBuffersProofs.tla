------------------------- MODULE RootBuffersProofs -------------------------
(***************************************************************************)
(* Proofs about RootBuffers: who owns a buffer and how often a root is     *)
(* reported, for every number of roots and vectors, every capacity of a    *)
(* packet, and both builds.                                                *)
(***************************************************************************)
EXTENDS RootBuffers, FiniteSetTheorems, TLAPS

(***************************************************************************)
(* The inductive invariants                                                *)
(***************************************************************************)
\* The variables have their types.
TypeOK ==
    /\ single_worker \in BOOLEAN
    /\ scan \in {"none", "slots", "nodes"}
    /\ todo \subseteq Roots
    /\ buf \in Buffers \cup {"null", "stack"}
    /\ filled \in Seq(Roots)
    /\ vec \in [Buffers -> {"free", "art", "packet"}]
    /\ stack \in {"worker", "lent", "dropped"}
    /\ reported \in [Roots -> Nat]
    /\ lent \in [Lists -> Buffers \cup {"null"}]

\* ART has a buffer only during a scan, the mark stack exactly in the scans
\* that go through it, and nothing is stored without a buffer.
BufferOfScan ==
    /\ scan = "none" => buf = "null" /\ todo = {}
    /\ buf = "null" => filled = <<>>
    /\ buf = "stack" => UsesStack(scan)
    /\ buf \in Buffers => ~UsesStack(scan)
    /\ stack = IF buf = "stack" THEN "lent" ELSE "worker"

\* The vectors that Rust has forgotten are the one ART fills and the two
\* lists, each a vector of its own.
ForgottenVectors ==
    /\ \A b \in Buffers : vec[b] = "art" => b = buf \/ \E l \in Lists : lent[l] = b
    /\ \A l, k \in Lists : lent[l] = lent[k] /\ lent[l] # "null" => l = k

OwnerInv == TypeOK /\ BufferOfScan /\ ForgottenVectors /\ WritesOwnBuffer

\* How often r is in the sequence s.
Occurrences(s, r) == Cardinality({i \in 1 .. Len(s) : s[i] = r})

\* A root is still to be visited, or in the buffer, or has been received:
\* exactly one of them, exactly once.
CountInv ==
    \A r \in Roots :
        reported[r] + Occurrences(filled, r) + (IF r \in todo THEN 1 ELSE 0) = 1

(***************************************************************************)
(* Counting                                                                *)
(***************************************************************************)
\* An empty sequence has no occurrence, and one more element is one more
\* occurrence of itself.
LEMMA OccurrencesFacts ==
    ASSUME NEW s \in Seq(Roots), NEW r \in Roots
    PROVE  /\ Occurrences(s, r) \in Nat
           /\ s = <<>> => Occurrences(s, r) = 0
           /\ \A x \in Roots : Occurrences(Append(s, x), r) =
                Occurrences(s, r) + IF x = r THEN 1 ELSE 0
  <1> DEFINE At(t) == {i \in 1 .. Len(t) : t[i] = r}
  <1>1. Len(s) \in Nat
    OBVIOUS
  <1>2. IsFiniteSet(1 .. Len(s))
    BY <1>1, FS_Interval
  <1>3. At(s) \subseteq 1 .. Len(s)
    OBVIOUS
  <1>4. IsFiniteSet(At(s))
    BY <1>2, <1>3, FS_Subset
  <1>5. Cardinality(At(s)) \in Nat
    BY <1>4, FS_CardinalityType
  <1>6. s = <<>> => At(s) = {}
    OBVIOUS
  <1>7. ASSUME NEW x \in Roots
        PROVE  Cardinality(At(Append(s, x))) =
                 Cardinality(At(s)) + IF x = r THEN 1 ELSE 0
    <2>1. /\ Len(Append(s, x)) = Len(s) + 1
          /\ \A i \in 1 .. Len(s) : Append(s, x)[i] = s[i]
          /\ Append(s, x)[Len(s) + 1] = x
      OBVIOUS
    <2>2. CASE x = r
      <3>1. At(Append(s, x)) = At(s) \cup {Len(s) + 1}
        BY <1>1, <2>1, <2>2
      <3>2. Len(s) + 1 \notin At(s)
        BY <1>1
      <3> HIDE DEF At
      <3> QED BY <1>4, <1>5, <2>2, <3>1, <3>2, FS_AddElement
    <2>3. CASE x # r
      <3>1. At(Append(s, x)) = At(s)
        BY <1>1, <2>1, <2>3
      <3> HIDE DEF At
      <3> QED BY <1>5, <2>3, <3>1
    <2> QED BY <2>2, <2>3
  <1> QED BY <1>5, <1>6, <1>7, FS_EmptySet DEF Occurrences

(***************************************************************************)
(* Ownership                                                               *)
(***************************************************************************)
\* At first everything is with the GC worker or free.
LEMMA OwnerInit == Init => OwnerInv
  <1> SUFFICES ASSUME Init PROVE OwnerInv
    OBVIOUS
  <1>1. single_worker \in BOOLEAN
    BY BuffersAssumption DEF Init
  <1>2. TypeOK
    BY <1>1 DEF Init, TypeOK
  <1> QED BY <1>2, BuffersAssumption
          DEF Init, OwnerInv, BufferOfScan, ForgottenVectors, WritesOwnBuffer

\* What MMTk receives is what it had and what the buffer holds.
LEMMA ReceivedType ==
    ASSUME TypeOK
    PROVE  /\ Received \in [Roots -> Nat]
           /\ \A r \in Roots : Received[r] = reported[r] + Occurrences(filled, r)
  <1>1. \A r \in Roots : Occurrences(filled, r) \in Nat
    BY OccurrencesFacts DEF TypeOK
  <1> QED BY <1>1 DEF TypeOK, Received, Occurrences

\* A callback hands ART's buffer to a packet or empties it, and ART gets one
\* that nobody else has.
LEMMA OwnerCallBack == ASSUME OwnerInv, CallBack PROVE OwnerInv'
  <1>1. CASE report_and_renew_buffer
    <2> USE DEF CallBack, report_and_renew_buffer, renew_buffer
    <2>1. PICK b \in Buffers :
            /\ vec[b] = "free"
            /\ vec' = [c \in Buffers |-> CASE c = b -> "art"
                                           [] c = buf /\ c # b -> "packet"
                                           [] OTHER -> vec[c]]
            /\ buf' = b /\ stack' = stack
      BY <1>1
    <2>2. reported' \in [Roots -> Nat]
      BY <1>1, ReceivedType DEF OwnerInv, TypeOK
    <2>3. buf \notin Buffers \/ vec[buf] = "art"
      BY DEF OwnerInv, WritesOwnBuffer
    <2>4. \A c \in Buffers : vec'[c] = IF c = b THEN "art" ELSE
                                         IF c = buf THEN "packet" ELSE vec[c]
      BY <2>1
    <2>5. TypeOK'
      <3>1. vec' \in [Buffers -> {"free", "art", "packet"}]
        BY <2>1 DEF OwnerInv, TypeOK
      <3> QED BY <1>1, <2>1, <2>2, <3>1 DEF OwnerInv, TypeOK
    <2>6. BufferOfScan'
      BY <1>1, <2>1, BuffersAssumption DEF OwnerInv, TypeOK, BufferOfScan,
                                           UsesStack
    <2>7. ForgottenVectors'
      BY <1>1, <2>1, <2>4 DEF OwnerInv, TypeOK, ForgottenVectors
    <2>8. WritesOwnBuffer'
      BY <1>1, <2>1, <2>4, BuffersAssumption DEF OwnerInv, TypeOK,
                                                 WritesOwnBuffer
    <2> QED BY <2>5, <2>6, <2>7, <2>8 DEF OwnerInv
  <1>2. CASE object_graph_traversal_report_roots
    <2> USE <1>2 DEF CallBack, object_graph_traversal_report_roots
    <2>1. TypeOK'
      BY ReceivedType DEF OwnerInv, TypeOK
    <2>2. buf \notin Buffers
      BY DEF OwnerInv, BufferOfScan
    <2>3. BufferOfScan' /\ ForgottenVectors' /\ WritesOwnBuffer'
      BY <2>2, BuffersAssumption
         DEF OwnerInv, TypeOK, BufferOfScan, UsesStack, ForgottenVectors,
             WritesOwnBuffer
    <2> QED BY <2>1, <2>3 DEF OwnerInv
  <1> QED BY <1>1, <1>2 DEF CallBack, Callback

\* The end of a scan gives back what ART holds: a vector is dropped, in the
\* build with the mark stack the stack is only returned.
LEMMA OwnerEndScan == ASSUME OwnerInv, EndScan PROVE OwnerInv'
  <1> USE DEF EndScan
  <1>1. CASE buf = "stack"
    <2>1. single_worker /\ scan = "slots" /\ buf \notin Buffers
      BY <1>1, BuffersAssumption DEF OwnerInv, BufferOfScan, UsesStack
    <2>2. stack' = "worker" /\ vec' = vec
      BY <1>1, <2>1 DEF mmtk_release_rust_buffer, DropsBuffer
    <2>3. TypeOK'
      BY <2>2 DEF OwnerInv, TypeOK
    <2>4. BufferOfScan' /\ ForgottenVectors' /\ WritesOwnBuffer'
      BY <1>1, <2>1, <2>2, BuffersAssumption
         DEF OwnerInv, TypeOK, BufferOfScan, ForgottenVectors, WritesOwnBuffer
    <2> QED BY <2>3, <2>4 DEF OwnerInv
  <1>2. CASE buf \in Buffers
    <2>1. buf # "stack" /\ buf # "null" /\ ~(single_worker /\ scan = "slots")
      BY <1>2, BuffersAssumption DEF OwnerInv, BufferOfScan, UsesStack
    <2>2. /\ vec' = [c \in Buffers |-> IF c = buf THEN "free" ELSE vec[c]]
          /\ stack' = stack
      BY <2>1 DEF mmtk_release_rust_buffer, mmtk_release_rust_buffer_unchecked,
                  DropsBuffer, Drop
    <2>3. TypeOK'
      BY <2>2 DEF OwnerInv, TypeOK
    <2>4. BufferOfScan'
      BY <2>1, <2>2, BuffersAssumption DEF OwnerInv, BufferOfScan
    <2>5. ForgottenVectors'
      BY <2>2 DEF OwnerInv, TypeOK, ForgottenVectors
    <2>6. WritesOwnBuffer'
      BY <2>2, BuffersAssumption DEF OwnerInv, TypeOK, WritesOwnBuffer
    <2> QED BY <2>3, <2>4, <2>5, <2>6 DEF OwnerInv
  <1> QED BY <1>1, <1>2 DEF OwnerInv, TypeOK

\* The lists of the heap visitor are fresh vectors, and go back once.
LEMMA OwnerLists ==
    ASSUME OwnerInv, NEW list \in Lists, Lend(list) \/ Release(list)
    PROVE  OwnerInv'
  <1>1. CASE Lend(list)
    <2>1. PICK b \in Buffers :
            /\ vec[b] = "free"
            /\ vec' = [vec EXCEPT ![b] = "art"]
            /\ lent' = [lent EXCEPT ![list] = b]
      BY <1>1 DEF Lend
    <2>2. b # "null" /\ b # buf /\ \A l \in Lists : lent[l] # b
      BY <2>1, BuffersAssumption DEF OwnerInv, WritesOwnBuffer
    <2>3. TypeOK'
      BY <1>1, <2>1 DEF Lend, OwnerInv, TypeOK
    <2>4. BufferOfScan'
      BY <1>1 DEF Lend, OwnerInv, BufferOfScan, UsesStack
    <2>5. ForgottenVectors'
      <3>1. ASSUME NEW c \in Buffers, vec'[c] = "art"
            PROVE  c = buf' \/ \E l \in Lists : lent'[l] = c
        <4>1. CASE c = b
          BY <2>1, <4>1 DEF OwnerInv, TypeOK
        <4>2. CASE c # b
          <5>1. vec[c] = "art" /\ lent[list] = "null" /\ buf' = buf
            BY <1>1, <2>1, <3>1, <4>2 DEF Lend, OwnerInv, TypeOK
          <5>2. ASSUME NEW l \in Lists, lent[l] = c
                PROVE  lent'[l] = c
            BY <2>1, <5>1, <5>2, BuffersAssumption DEF OwnerInv, TypeOK
          <5> QED BY <5>1, <5>2 DEF OwnerInv, ForgottenVectors
        <4> QED BY <4>1, <4>2
      <3>2. ASSUME NEW l \in Lists, NEW k \in Lists, lent'[l] = lent'[k],
                   lent'[l] # "null"
            PROVE  l = k
        BY <2>1, <2>2, <3>2 DEF OwnerInv, TypeOK, ForgottenVectors
      <3> QED BY <3>1, <3>2 DEF ForgottenVectors
    <2>6. WritesOwnBuffer'
      BY <1>1, <2>1, <2>2 DEF Lend, OwnerInv, TypeOK, WritesOwnBuffer
    <2> QED BY <2>3, <2>4, <2>5, <2>6 DEF OwnerInv
  <1>2. CASE Release(list)
    <2> DEFINE b == lent[list]
    <2>1. /\ b \in Buffers /\ b # "null"
          /\ vec' = [vec EXCEPT ![b] = "free"]
          /\ lent' = [lent EXCEPT ![list] = "null"]
          /\ UNCHANGED <<single_worker, scan, todo, buf, filled, stack, reported>>
      BY <1>2 DEF Release, OwnerInv, TypeOK
    <2>2. b # buf /\ \A l \in Lists \ {list} : lent[l] # b
      BY <2>1 DEF OwnerInv, WritesOwnBuffer, ForgottenVectors
    <2> HIDE DEF b
    <2>3. TypeOK'
      BY <2>1 DEF OwnerInv, TypeOK
    <2>4. BufferOfScan'
      BY <2>1 DEF OwnerInv, BufferOfScan, UsesStack
    <2>5. ForgottenVectors'
      <3>1. ASSUME NEW c \in Buffers, vec'[c] = "art"
            PROVE  c = buf' \/ \E l \in Lists : lent'[l] = c
        <4>1. vec[c] = "art" /\ c # b
          BY <2>1, <3>1 DEF OwnerInv, TypeOK
        <4>2. CASE c = buf
          BY <2>1, <4>2
        <4>3. ASSUME NEW l \in Lists, lent[l] = c
              PROVE  lent'[l] = c
          BY <2>1, <4>1, <4>3 DEF OwnerInv, TypeOK, b
        <4> QED BY <4>1, <4>2, <4>3 DEF OwnerInv, ForgottenVectors
      <3>2. ASSUME NEW l \in Lists, NEW k \in Lists, lent'[l] = lent'[k],
                   lent'[l] # "null"
            PROVE  l = k
        BY <2>1, <3>2 DEF OwnerInv, TypeOK, ForgottenVectors
      <3> QED BY <3>1, <3>2 DEF ForgottenVectors
    <2>6. WritesOwnBuffer'
      BY <2>1, <2>2 DEF OwnerInv, TypeOK, WritesOwnBuffer
    <2> QED BY <2>3, <2>4, <2>5, <2>6 DEF OwnerInv
  <1> QED BY <1>1, <1>2

\* The other steps change no owner, or free a vector that a packet owns.
LEMMA OwnerOthers ==
    ASSUME OwnerInv,
           \/ \E kind \in {"slots", "nodes"}, R \in SUBSET Roots :
                 StartScan(kind, R)
           \/ \E r \in todo : VisitRoot(r)
           \/ \E b \in Buffers : PacketDone(b)
    PROVE  OwnerInv'
  <1>1. ASSUME NEW kind \in {"slots", "nodes"}, NEW R \in SUBSET Roots,
               StartScan(kind, R)
        PROVE  OwnerInv'
    BY <1>1, BuffersAssumption
       DEF StartScan, OwnerInv, TypeOK, BufferOfScan, UsesStack,
           ForgottenVectors, WritesOwnBuffer
  <1>2. ASSUME NEW r \in todo, VisitRoot(r)
        PROVE  OwnerInv'
    <2>1. r \in Roots /\ filled' \in Seq(Roots)
      BY <1>2 DEF VisitRoot, OwnerInv, TypeOK
    <2> QED BY <1>2, <2>1
            DEF VisitRoot, OwnerInv, TypeOK, BufferOfScan, UsesStack,
                ForgottenVectors, WritesOwnBuffer
  <1>3. ASSUME NEW b \in Buffers, PacketDone(b)
        PROVE  OwnerInv'
    BY <1>3, BuffersAssumption
       DEF PacketDone, OwnerInv, TypeOK, BufferOfScan, UsesStack,
           ForgottenVectors, WritesOwnBuffer
  <1> QED BY <1>1, <1>2, <1>3

\* Every step keeps the owners.
LEMMA OwnerStep == OwnerInv /\ [Next]_vars => OwnerInv'
  <1> SUFFICES ASSUME OwnerInv, [Next]_vars PROVE OwnerInv'
    OBVIOUS
  <1>1. CASE UNCHANGED vars
    BY <1>1 DEF vars, OwnerInv, TypeOK, BufferOfScan, UsesStack,
                ForgottenVectors, WritesOwnBuffer
  <1>2. CASE Next
    BY <1>2, OwnerCallBack, OwnerEndScan, OwnerLists, OwnerOthers DEF Next
  <1> QED BY <1>1, <1>2

\* The owners of all buffers are known in every behaviour.
THEOREM OwnerInvariant == Spec => []OwnerInv
  BY OwnerInit, OwnerStep, PTL DEF Spec

\* ART fills only what it owns, however many packets drop their vectors
\* meanwhile, in both builds.
THEOREM FillsOwnBuffer == Spec => []WritesOwnBuffer
  <1>1. OwnerInv => WritesOwnBuffer
    BY DEF OwnerInv
  <1> QED BY <1>1, OwnerInvariant, PTL

\* No scan leaks a vector, and the mark stack is never dropped.
THEOREM NothingLeaks == Spec => []BuffersReturned
  <1>1. OwnerInv => BuffersReturned
    BY BuffersAssumption DEF OwnerInv, TypeOK, BufferOfScan, ForgottenVectors, BuffersReturned
  <1> QED BY <1>1, OwnerInvariant, PTL

(***************************************************************************)
(* Roots                                                                   *)
(***************************************************************************)
\* At first no scan is under way, and nothing is to be reported.
LEMMA CountInit == Init => CountInv
  <1> SUFFICES ASSUME Init, NEW r \in Roots
               PROVE  reported[r] + Occurrences(filled, r)
                        + (IF r \in todo THEN 1 ELSE 0) = 1
    BY DEF CountInv
  <1>1. filled = <<>> /\ filled \in Seq(Roots)
    BY DEF Init
  <1>2. Occurrences(filled, r) = 0
    BY <1>1, OccurrencesFacts
  <1> QED BY <1>2 DEF Init

\* Every step keeps the count: a visited root goes into the buffer, and a
\* callback moves what the buffer holds to MMTk.
LEMMA CountStep == OwnerInv /\ CountInv /\ [Next]_vars => CountInv'
  <1> SUFFICES ASSUME OwnerInv, CountInv, [Next]_vars, NEW r \in Roots
               PROVE  (reported[r] + Occurrences(filled, r)
                        + (IF r \in todo THEN 1 ELSE 0) = 1)'
    BY DEF CountInv
  <1>1. /\ reported[r] \in Nat /\ Occurrences(filled, r) \in Nat
        /\ reported[r] + Occurrences(filled, r)
             + (IF r \in todo THEN 1 ELSE 0) = 1
    BY OccurrencesFacts DEF OwnerInv, TypeOK, CountInv
  <1>2. filled \in Seq(Roots) /\ Occurrences(<<>>, r) = 0
    <2>1. <<>> \in Seq(Roots)
      OBVIOUS
    <2> QED BY <2>1, OccurrencesFacts DEF OwnerInv, TypeOK
  <1>3. CASE UNCHANGED <<reported, filled, todo>>
    BY <1>1, <1>3
  <1>4. ASSUME NEW kind \in {"slots", "nodes"}, NEW R \in SUBSET Roots,
               StartScan(kind, R)
        PROVE  (reported[r] + Occurrences(filled, r)
                 + (IF r \in todo THEN 1 ELSE 0) = 1)'
    BY <1>2, <1>4 DEF StartScan, OwnerInv, BufferOfScan
  <1>5. CASE CallBack
    <2>1. filled' = <<>> /\ todo' = todo
      BY <1>5 DEF CallBack, Callback, report_and_renew_buffer,
                  object_graph_traversal_report_roots
    <2>2. reported' = IF HasBuffer THEN Received ELSE reported
      BY <1>5 DEF CallBack, Callback, report_and_renew_buffer,
                  object_graph_traversal_report_roots
    <2>3. reported'[r] = reported[r] + Occurrences(filled, r)
      BY <1>1, <1>2, <2>2, ReceivedType DEF HasBuffer, OwnerInv, BufferOfScan
    <2> QED BY <1>1, <1>2, <2>1, <2>3
  <1>6. ASSUME NEW x \in todo, VisitRoot(x)
        PROVE  (reported[r] + Occurrences(filled, r)
                 + (IF r \in todo THEN 1 ELSE 0) = 1)'
    <2>1. x \in Roots /\ filled' = Append(filled, x) /\ todo' = todo \ {x}
          /\ reported' = reported
      BY <1>6 DEF VisitRoot, OwnerInv, TypeOK
    <2>2. Occurrences(filled, r)' = Occurrences(filled, r)
                                      + IF x = r THEN 1 ELSE 0
      BY <1>2, <2>1, OccurrencesFacts
    <2> QED BY <1>1, <2>1, <2>2
  <1>7. CASE (\E list \in Lists : Lend(list) \/ Release(list)) \/ EndScan
             \/ (\E b \in Buffers : PacketDone(b)) \/ UNCHANGED vars
    BY <1>3, <1>7 DEF Lend, Release, EndScan, PacketDone, vars
  <1> QED BY <1>4, <1>5, <1>6, <1>7 DEF Next

\* Every root is reported exactly once by every scan, for any number of roots
\* and any capacity of a buffer.
THEOREM RootsReportedOnce == Spec => []ReportedOnce
  <1>1. OwnerInv /\ CountInv => ReportedOnce
    <2> SUFFICES ASSUME OwnerInv, CountInv, scan = "none", NEW r \in Roots
                 PROVE  reported[r] = 1
      BY DEF ReportedOnce
    <2>1. filled = <<>> /\ todo = {} /\ reported[r] \in Nat
          /\ filled \in Seq(Roots)
      BY DEF OwnerInv, BufferOfScan, TypeOK
    <2>2. Occurrences(filled, r) = 0
      BY <2>1, OccurrencesFacts
    <2> QED BY <2>1, <2>2 DEF CountInv
  <1> QED BY <1>1, OwnerInvariant, CountInit, CountStep, PTL DEF Spec
============================================================================
