------------------------------ MODULE Process ------------------------------
(***************************************************************************)
(* The life of a process: Startup, the GC worker threads that              *)
(* mmtk_initialize_collection spawns (spawn_gc_thread and                  *)
(* mmtk_start_gc_worker_thread hand their contexts to ART and back), the   *)
(* collections that threads ask for and wait for, and the Zygote, which    *)
(* stops the workers, forks, and spawns them again.  mmtk-core's scheduler *)
(* and ART's threads are external.                                         *)
(***************************************************************************)
EXTENDS Startup, FiniteSets

CONSTANT Workers     \* GC worker contexts

ASSUME WorkersAssumption == Workers # {}

VARIABLES
    raw,        \* raw[w]: pointers to w's context that ART holds
    alive,      \* alive[w]: threads that run w
    saved,      \* contexts in the hands of MMTk
    requests,   \* goals asked of the workers: "gc", "stop"
    goal,       \* the goal they work on, or "none"
    is_zygote_process,            \* MMTk's own knowledge of the process
    has_zygote_space_in_art,      \* what ART was told
    compacted   \* the collection before the first fork has been asked for

workers == <<raw, alive, saved>>
sched   == <<requests, goal>>
zygote  == <<is_zygote_process, has_zygote_space_in_art, compacted>>
vars    == <<startup, workers, sched, zygote>>

Init ==
    /\ StartupInit
    /\ raw = [w \in Workers |-> 0] /\ alive = [w \in Workers |-> 0]
    /\ saved = {}
    /\ requests = {} /\ goal = "none"
    /\ is_zygote_process = FALSE /\ has_zygote_space_in_art = FALSE
    /\ compacted = FALSE

\* Startup's variables but for the control of threads.
fixed == <<locks, params, built, flags, art, panicked>>

(***************************************************************************)
(* Worker threads                                                          *)
(***************************************************************************)
\* spawn_gc_thread for every context in C: Box::into_raw, and ART's upcall.
spawn_gc_threads(C) ==
    raw' = [w \in Workers |-> raw[w] + IF w \in C THEN 1 ELSE 0]

\* Faulty: every runtime initializes the collection.
AlwaysInitializes == TRUE

InitializesCollection == ~IS_MMTK_REINITIALIZING

mmtk_initialize_collection ==
    /\ Goto(Main, "collection", "up")
    /\ IF InitializesCollection
         THEN /\ spawn_gc_threads(Workers)
              /\ is_zygote_process' = instance.zygote
         ELSE UNCHANGED <<raw, is_zygote_process>>
    /\ UNCHANGED <<fixed, alive, saved, sched, has_zygote_space_in_art,
                   compacted>>

\* The thread that ART has created takes the context back: Box::from_raw.
mmtk_start_gc_worker_thread(w) ==
    /\ raw[w] > 0
    /\ raw' = [raw EXCEPT ![w] = @ - 1]
    /\ alive' = [alive EXCEPT ![w] = @ + 1]
    /\ UNCHANGED <<startup, saved, sched, zygote>>

(***************************************************************************)
(* Requests for a collection                                               *)
(***************************************************************************)
\* The thread goes on at label once a collection has ended.  Threads that
\* may ask are stopped while one is under way, and the workers exist.
RequestCollection(t, from, label) ==
    /\ Goto(t, from, label)
    /\ goal # "gc"
    /\ \A w \in Workers : w \in saved \/ raw[w] + alive[w] > 0
    /\ requests' = requests \cup {"gc"}
    /\ UNCHANGED <<fixed, workers, goal>>

mmtk_handle_user_collection_request(t) ==
    /\ RequestCollection(t, IF t = Main THEN "up" ELSE "idle", "blocked")
    /\ UNCHANGED zygote

\* The request, and the answer that ART gets when the collection has ended.
mmtk_handle_pre_first_zygote_fork_collection_request ==
    /\ is_zygote_process /\ ~compacted
    /\ RequestCollection(Main, "up", "compacting")
    /\ compacted' = TRUE
    /\ UNCHANGED <<is_zygote_process, has_zygote_space_in_art>>

\* Faulty: ART is not told.
TellsNothing == UNCHANGED has_zygote_space_in_art

\* has_zygote_space: the instance was built for the Zygote.
TellsZygoteSpace == has_zygote_space_in_art' = instance.zygote

TellArt ==
    /\ Goto(Main, "tell_art", "up")
    /\ TellsZygoteSpace
    /\ UNCHANGED <<fixed, workers, sched, is_zygote_process, compacted>>

(***************************************************************************)
(* The scheduler of mmtk-core (external): the workers turn to a goal when  *)
(* all of them have parked, and first to a collection.                     *)
(***************************************************************************)
AllParked == goal = "none" /\ \A w \in Workers : alive[w] > 0

StartCollection ==
    /\ AllParked /\ "gc" \in requests
    /\ goal' = "gc" /\ requests' = requests \ {"gc"}
    /\ UNCHANGED <<startup, workers, zygote>>

\* Whoever waits in block_for_gc resumes.
EndCollection ==
    /\ goal = "gc" /\ goal' = "none"
    /\ pc' = [t \in Threads |->
                CASE pc[t] = "blocked" -> IF t = Main THEN "up" ELSE "idle"
                  [] pc[t] = "compacting" -> "tell_art"
                  [] OTHER -> pc[t]]
    /\ UNCHANGED <<fixed, workers, requests, zygote>>

StartStopping ==
    /\ AllParked /\ requests = {"stop"}
    /\ goal' = "stop" /\ requests' = {}
    /\ UNCHANGED <<startup, workers, zygote>>

\* A worker gives its context to MMTk and its thread ends.
Surrender(w) ==
    /\ goal = "stop" /\ alive[w] > 0
    /\ alive' = [alive EXCEPT ![w] = @ - 1]
    /\ saved' = saved \cup {w}
    /\ goal' = IF saved' = Workers THEN "none" ELSE "stop"
    /\ UNCHANGED <<startup, raw, requests, zygote>>

(***************************************************************************)
(* The Zygote                                                              *)
(***************************************************************************)
\* Faulty: a collection that was asked for is forgotten.
StopInstead == {"stop"}

\* Faulty: the workers are not asked.
StopNothing == requests

StopRequested == requests \cup {"stop"}

\* prepare_to_fork asks the workers to stop and returns.
mmtk_pre_zygote_fork ==
    /\ is_zygote_process /\ compacted
    /\ Goto(Main, "up", "joining")
    /\ requests' = StopRequested
    /\ UNCHANGED <<fixed, workers, goal, zygote>>

\* ART forks when the threads it has created for MMTk are gone (external).
JoinWorkers ==
    /\ Goto(Main, "joining", "forking")
    /\ \A w \in Workers : raw[w] + alive[w] = 0
    /\ UNCHANGED <<fixed, workers, sched, zygote>>

\* Either the parent or the child is followed; the forking thread is the only
\* one that the child inherits, its helpers are new.
Fork(child) ==
    /\ pc[Main] = "forking"
    /\ pc' = [t \in Threads |->
                IF t = Main THEN IF child THEN "specialize" ELSE "post_fork"
                ELSE IF child THEN "idle" ELSE pc[t]]
    /\ UNCHANGED <<fixed, workers, sched, zygote>>

\* The child is an application.
mmtk_set_is_zygote_process ==
    /\ Goto(Main, "specialize", "post_fork")
    /\ is_zygote_process' = FALSE
    /\ UNCHANGED <<fixed, workers, sched, has_zygote_space_in_art, compacted>>

mmtk_post_zygote_fork ==
    /\ Goto(Main, "post_fork", "up")
    /\ spawn_gc_threads(saved)
    /\ saved' = {}
    /\ UNCHANGED <<fixed, alive, sched, zygote>>

(***************************************************************************)
(* Specification                                                           *)
(***************************************************************************)
StartupOnly(A) == A /\ UNCHANGED <<workers, sched, zygote>>

\* What a thread does once it has called in.
Call(t) == StartupOnly(StartupStep(t))
MainCall ==
    \/ mmtk_initialize_collection \/ TellArt
    \/ JoinWorkers \/ (\E child \in BOOLEAN : Fork(child))
    \/ mmtk_set_is_zygote_process \/ mmtk_post_zygote_fork

Worker(w) == mmtk_start_gc_worker_thread(w) \/ Surrender(w)

Next ==
    \/ /\ ~panicked
       /\ \/ \E s \in Sizes, z \in BOOLEAN : StartupOnly(CreateRuntime(s, z))
          \/ \E t \in Helpers : StartupOnly(Query(t))
          \/ \E t \in Threads : Call(t)
          \/ \E t \in Threads : mmtk_handle_user_collection_request(t)
          \/ mmtk_handle_pre_first_zygote_fork_collection_request
          \/ mmtk_pre_zygote_fork
          \/ MainCall
          \/ StartCollection \/ EndCollection \/ StartStopping
          \/ \E w \in Workers : Worker(w)
    \/ panicked /\ UNCHANGED vars   \* the process has aborted

Running(A) == ~panicked /\ A

\* Threads that have called in, and the workers, go on.  The worker that ends
\* a collection looks for the next goal at once, so that threads which ask
\* for one collection after the other do not keep it from stopping for ever.
\* Nothing is assumed of when ART calls in.
Fairness ==
    /\ \A t \in Threads : WF_vars(Running(Call(t)))
    /\ WF_vars(Running(MainCall))
    /\ \A w \in Workers : WF_vars(Running(Worker(w)))
    /\ WF_vars(Running(StartCollection \/ EndCollection))
    /\ SF_vars(Running(StartStopping))

Spec == Init /\ [][Next]_vars /\ Fairness

(***************************************************************************)
(* Properties                                                              *)
(***************************************************************************)
\* From mmtk_initialize_collection on, each worker context has exactly one
\* owner: a pointer that spawn_gc_thread gave to ART, the thread that made a
\* Box of it again, or MMTk.  It is never freed twice and never lost, however
\* often runtimes are created and processes forked.
ContextOwnedOnce ==
    \A w \in Workers :
        LET owners == raw[w] + alive[w] + (IF w \in saved THEN 1 ELSE 0)
        IN  owners <= 1 /\ (runtimes > 0 /\ pc[Main] = "up" => owners = 1)

\* A process forks only with no collection under way, with the context of
\* every worker in the hands of MMTk (mmtk_pre_zygote_fork), and after ART has
\* learned of the space it has to share with its children.
ForksAlone ==
    pc[Main] = "forking" =>
        goal = "none" /\ saved = Workers /\ has_zygote_space_in_art

\* Every thread that waits for a collection goes on, although workers may be
\* stopped for a fork after it has asked (block_for_gc, mmtk_post_zygote_fork).
RequestsServed ==
    \A t \in Threads : pc[t] \in {"blocked", "compacting"} ~>
                           (pc[t] \notin {"blocked", "compacting"} \/ panicked)

\* Every call of the main thread returns: the initializer of SINGLETON does
\* not wait for a lock that it holds, and every fork comes to pass.
MainReturns == []<>(pc[Main] = "up" \/ panicked)
============================================================================
