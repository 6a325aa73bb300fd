--------------------------- MODULE ProcessProofs ---------------------------
(***************************************************************************)
(* Proofs about Startup and Process: the instance is built from what the   *)
(* first runtime asked for, and its heap can be addressed in 32 bits; each *)
(* worker context has one owner, and a process forks alone.  They hold for *)
(* every number of threads, workers and runtimes and all heap sizes.       *)
(***************************************************************************)
EXTENDS Process, TLAPS

(***************************************************************************)
(* The inductive invariant of the startup                                  *)
(***************************************************************************)
\* Where a thread is that runs the initializer of SINGLETON, and where the
\* main thread is before it may: on its way to the options, or at SINGLETON.
Build == {"build_lock", "build_trigger", "build_layout", "build_instance",
          "build_done"}
Setting == {"set_builder", "set_trigger", "set_sizes", "set_policy", "init",
            "options"}
AtSingleton == {"deref"} \cup Build

Ready == singleton = "ready"

\* The variables that the argument is about have their types.
StartupTypeOK ==
    /\ DOMAIN pc = Threads /\ pc = [t \in Threads |-> pc[t]]
    /\ runtimes \in Nat
    /\ IS_MMTK_INITIALIZED \in BOOLEAN /\ IS_MMTK_REINITIALIZING \in BOOLEAN
    /\ builder = [zygote |-> builder.zygote, policy |-> builder.policy,
                  layout |-> builder.layout]
    /\ runtimes > 0 => first.sizes \in Sizes
    /\ runtimes = 1 => runtime = first

\* One thread at most runs the initializer, and the flag is set when it ends.
OneInitializer ==
    /\ IS_MMTK_INITIALIZED = Ready
    /\ \A t \in Threads : pc[t] \in Build <=> singleton = t

\* Before the instance is there, the first runtime is being created, and no
\* other thread exists until the main thread is past the options.
FirstBuilds ==
    /\ ~Ready =>
         \/ runtimes = 0 /\ pc[Main] = "up"
         \/ runtimes = 1 /\ pc[Main] \in Setting \cup AtSingleton
    /\ Ready => runtimes > 0
    /\ runtimes = 1 /\ pc[Main] \in Setting => ~Ready
    /\ runtimes > 1 => pc[Main] \notin {"options"} \cup AtSingleton
    /\ ~Ready /\ pc[Main] \notin AtSingleton =>
         \A t \in Helpers : pc[t] = "absent"

\* What the main thread has set stays until the instance has been built.
ParametersSet ==
    ~Ready =>
        /\ pc[Main] \in {"set_policy", "init", "options"} \cup AtSingleton =>
             trigger_init = first.sizes
        /\ pc[Main] \in {"init", "options"} \cup AtSingleton =>
             builder.policy = Policy(first.sizes)
        /\ pc[Main] \in AtSingleton => builder.zygote = first.zygote

AsChosen(i) ==
    i = [zygote |-> first.zygote, policy |-> Policy(first.sizes),
         layout |-> Layout(first.sizes.max), sizes |-> first.sizes]

\* What the initializer has done of its work.
BuildProgress ==
    /\ \A t \in Threads :
         /\ pc[t] \in {"build_instance", "build_done"} =>
              /\ builder.layout = Layout(first.sizes.max)
              /\ panicked \/ ~TooLarge(first.sizes.max)
         /\ pc[t] = "build_done" => AsChosen(instance)
    /\ Ready =>
         AsChosen(instance) /\ ~TooLarge(first.sizes.max)

StartInv ==
    /\ StartupTypeOK /\ OneInitializer /\ FirstBuilds /\ ParametersSet
    /\ BuildProgress

(***************************************************************************)
(* The inductive invariant of the process                                  *)
(***************************************************************************)
Creating == Setting \cup AtSingleton \cup {"collection"}

WorkersTypeOK ==
    /\ raw \in [Workers -> Nat] /\ alive \in [Workers -> Nat]
    /\ saved \subseteq Workers
    /\ goal \in {"none", "gc", "stop"}

Owners(w) == raw[w] + alive[w] + (IF w \in saved THEN 1 ELSE 0)

\* No worker has been spawned before the first runtime is complete.
NoWorkersYet == runtimes = 0 \/ (runtimes = 1 /\ pc[Main] \in Creating)

OneOwner == \A w \in Workers : Owners(w) = IF NoWorkersYet THEN 0 ELSE 1

\* Later runtimes know that the first one has spawned the workers.
LaterRuntimes ==
    /\ runtimes < 2 => ~IS_MMTK_REINITIALIZING
    /\ runtimes > 1 /\ pc[Main] = "collection" => IS_MMTK_REINITIALIZING

\* What the workers work on fits who owns their contexts.
GoalFits ==
    /\ goal = "stop" => saved # Workers
    /\ goal = "gc" => \A w \in Workers : alive[w] > 0
    /\ pc[Main] = "forking" => saved = Workers /\ goal = "none"

\* Only an instance that was built for the Zygote is compacted for a fork,
\* and ART learns of it before it goes on.
ZygoteSpace ==
    /\ is_zygote_process \/ compacted =>
         Ready /\ instance.zygote
    /\ pc[Main] \in {"joining", "forking"} => compacted
    /\ compacted /\ pc[Main] \notin {"compacting", "tell_art"} =>
         has_zygote_space_in_art

ProcInv == WorkersTypeOK /\ OneOwner /\ LaterRuntimes /\ GoalFits /\ ZygoteSpace

Inv == StartInv /\ ProcInv

(***************************************************************************)
(* The startup keeps its invariant                                         *)
(***************************************************************************)
\* A thread goes from one label to another; the others stay where they are.
LEMMA GotoPc ==
    ASSUME StartupTypeOK, NEW t \in Threads, NEW from, NEW to, Goto(t, from, to)
    PROVE  /\ pc[t] = from /\ pc'[t] = to
           /\ \A u \in Threads : u # t => pc'[u] = pc[u]
           /\ DOMAIN pc' = Threads /\ pc' = [u \in Threads |-> pc'[u]]
  BY DEF StartupTypeOK, Goto

\* The names of the states of the locks and of SINGLETON are no threads.
LEMMA ThreadNames ==
    /\ Main \in Threads
    /\ \A t \in Helpers : t \in Threads /\ t # Main
    /\ \A t \in Threads : t = Main \/ t \in Helpers
    /\ "ready" \notin Threads /\ "unset" \notin Threads
  BY StartupAssumption DEF Threads

\* The first runtime is the one whose parameters count.
LEMMA CreateRuntimeStep ==
    ASSUME StartInv, NEW s \in Sizes, NEW z \in BOOLEAN, CreateRuntime(s, z)
    PROVE  StartInv'
  <1> USE ThreadNames
  <1> USE DEF Build, Setting, AtSingleton, Ready
  <1>1. /\ pc[Main] = "up" /\ pc'[Main] = "set_builder"
        /\ \A u \in Threads : u # Main => pc'[u] = pc[u]
        /\ DOMAIN pc' = Threads /\ pc' = [u \in Threads |-> pc'[u]]
    BY GotoPc DEF StartInv, CreateRuntime
  <1>2. /\ UNCHANGED <<builder, trigger_init, singleton, instance,
                       IS_MMTK_INITIALIZED, IS_MMTK_REINITIALIZING, panicked>>
        /\ runtimes' = runtimes + 1
        /\ runtime' = [sizes |-> s, zygote |-> z]
        /\ first' = IF runtimes = 0 THEN runtime' ELSE first
    BY DEF CreateRuntime, params, built, flags
  <1>3. StartupTypeOK'
    BY <1>1, <1>2 DEF StartInv, StartupTypeOK
  <1>4. OneInitializer'
    BY <1>1, <1>2 DEF StartInv, OneInitializer
  <1>5. FirstBuilds'
    BY <1>1, <1>2 DEF StartInv, StartupTypeOK, FirstBuilds
  <1>6. ParametersSet'
    BY <1>1, <1>2 DEF StartInv, StartupTypeOK, FirstBuilds, ParametersSet
  <1>7. BuildProgress'
    BY <1>1, <1>2 DEF StartInv, StartupTypeOK, FirstBuilds, BuildProgress, OneInitializer, AsChosen
  <1> QED BY <1>3, <1>4, <1>5, <1>6, <1>7 DEF StartInv

\* A step of the main thread that sets a parameter, or waits to set one.
LEMMA SettingStep ==
    ASSUME StartInv, ~panicked, MainCalls
    PROVE  StartInv'
  <1> USE ThreadNames
  <1> USE DEF Build, Setting, AtSingleton, Ready
  <1>1. CASE SetLockBuilder
    <2>a. /\ pc[Main] = "set_builder" /\ pc'[Main] = "set_trigger"
          /\ \A u \in Threads : u # Main => pc'[u] = pc[u]
          /\ DOMAIN pc' = Threads /\ pc' = [u \in Threads |-> pc'[u]]
      BY <1>1, GotoPc DEF StartInv, SetLockBuilder
    <2>b. /\ UNCHANGED <<builder, trigger_init, singleton, instance,
                          IS_MMTK_INITIALIZED, IS_MMTK_REINITIALIZING,
                          runtime, runtimes, first, panicked>>
      BY <1>1 DEF SetLockBuilder, params, built, flags, art
    <2>1. StartupTypeOK'
      BY <2>a, <2>b DEF StartInv, StartupTypeOK
    <2>2. OneInitializer'
      BY <2>a, <2>b DEF StartInv, OneInitializer
    <2>3. FirstBuilds'
      BY <2>a, <2>b DEF StartInv, FirstBuilds
    <2>4. ParametersSet'
      BY <2>a, <2>b DEF StartInv, ParametersSet
    <2>5. BuildProgress'
      BY <2>a, <2>b DEF StartInv, BuildProgress, AsChosen
    <2> QED BY <2>1, <2>2, <2>3, <2>4, <2>5 DEF StartInv
  <1>2. CASE SetLockTrigger
    <2>a. /\ pc[Main] = "set_trigger" /\ pc'[Main] = "set_sizes"
          /\ \A u \in Threads : u # Main => pc'[u] = pc[u]
          /\ DOMAIN pc' = Threads /\ pc' = [u \in Threads |-> pc'[u]]
      BY <1>2, GotoPc DEF StartInv, SetLockTrigger
    <2>b. /\ UNCHANGED <<builder, trigger_init, singleton, instance,
                          IS_MMTK_INITIALIZED, IS_MMTK_REINITIALIZING,
                          runtime, runtimes, first, panicked>>
      BY <1>2 DEF SetLockTrigger, params, built, flags, art
    <2>1. StartupTypeOK'
      BY <2>a, <2>b DEF StartInv, StartupTypeOK
    <2>2. OneInitializer'
      BY <2>a, <2>b DEF StartInv, OneInitializer
    <2>3. FirstBuilds'
      BY <2>a, <2>b DEF StartInv, FirstBuilds
    <2>4. ParametersSet'
      BY <2>a, <2>b DEF StartInv, ParametersSet
    <2>5. BuildProgress'
      BY <2>a, <2>b DEF StartInv, BuildProgress, AsChosen
    <2> QED BY <2>1, <2>2, <2>3, <2>4, <2>5 DEF StartInv
  <1>3. CASE SetTriggerInit
    <2>a. /\ pc[Main] = "set_sizes" /\ pc'[Main] = "set_policy"
          /\ \A u \in Threads : u # Main => pc'[u] = pc[u]
          /\ DOMAIN pc' = Threads /\ pc' = [u \in Threads |-> pc'[u]]
      BY <1>3, GotoPc DEF StartInv, SetTriggerInit
    <2>b. /\ UNCHANGED <<builder, singleton, instance, IS_MMTK_INITIALIZED,
                          IS_MMTK_REINITIALIZING, runtime, runtimes, first,
                          panicked>>
          /\ trigger_init' = runtime.sizes
      BY <1>3 DEF SetTriggerInit, params, built, flags, art
    <2>1. StartupTypeOK'
      BY <2>a, <2>b DEF StartInv, StartupTypeOK
    <2>2. OneInitializer'
      BY <2>a, <2>b DEF StartInv, OneInitializer
    <2>3. FirstBuilds'
      BY <2>a, <2>b DEF StartInv, FirstBuilds
    <2>4. ParametersSet'
      BY <2>a, <2>b DEF StartInv, StartupTypeOK, FirstBuilds, ParametersSet
    <2>5. BuildProgress'
      BY <2>a, <2>b DEF StartInv, BuildProgress, AsChosen
    <2> QED BY <2>1, <2>2, <2>3, <2>4, <2>5 DEF StartInv
  <1>4. CASE SetPolicy
    <2>a. /\ pc[Main] = "set_policy" /\ pc'[Main] = "init"
          /\ \A u \in Threads : u # Main => pc'[u] = pc[u]
          /\ DOMAIN pc' = Threads /\ pc' = [u \in Threads |-> pc'[u]]
      BY <1>4, GotoPc DEF StartInv, SetPolicy
    <2>b. /\ UNCHANGED <<trigger_init, singleton, instance,
                          IS_MMTK_INITIALIZED, IS_MMTK_REINITIALIZING,
                          runtime, runtimes, first, panicked>>
          /\ builder' = [builder EXCEPT !.policy = Policy(runtime.sizes)]
      BY <1>4 DEF SetPolicy, params, built, flags, art
    <2>1. StartupTypeOK'
      BY <2>a, <2>b DEF StartInv, StartupTypeOK
    <2>2. OneInitializer'
      BY <2>a, <2>b DEF StartInv, OneInitializer
    <2>3. FirstBuilds'
      BY <2>a, <2>b DEF StartInv, FirstBuilds
    <2>4. ParametersSet'
      BY <2>a, <2>b DEF StartInv, StartupTypeOK, FirstBuilds, ParametersSet
    <2>5. BuildProgress'
      BY <2>a, <2>b DEF StartInv, BuildProgress, AsChosen
    <2> QED BY <2>1, <2>2, <2>3, <2>4, <2>5 DEF StartInv
  <1>5. CASE InitCheck
    <2>a. /\ pc[Main] = "init" /\ pc'[Main] = (IF Ready THEN "collection" ELSE "options")
          /\ \A u \in Threads : u # Main => pc'[u] = pc[u]
          /\ DOMAIN pc' = Threads /\ pc' = [u \in Threads |-> pc'[u]]
      BY <1>5, GotoPc DEF StartInv, InitCheck, AfterCheck, OneInitializer
    <2>b. /\ UNCHANGED <<builder, trigger_init, singleton, instance,
                          IS_MMTK_INITIALIZED, runtime, runtimes, first>>
          /\ panicked' = (IS_MMTK_INITIALIZED /\ runtime.zygote)
          /\ IS_MMTK_REINITIALIZING' = (IS_MMTK_REINITIALIZING \/ IS_MMTK_INITIALIZED)
      BY <1>5 DEF InitCheck, params, built, flags, art
    <2>1. StartupTypeOK'
      BY <2>a, <2>b DEF StartInv, StartupTypeOK
    <2>2. OneInitializer'
      BY <2>a, <2>b DEF StartInv, OneInitializer
    <2>3. FirstBuilds'
      BY <2>a, <2>b DEF StartInv, FirstBuilds
    <2>4. ParametersSet'
      BY <2>a, <2>b DEF StartInv, ParametersSet
    <2>5. BuildProgress'
      BY <2>a, <2>b DEF StartInv, BuildProgress, AsChosen
    <2> QED BY <2>1, <2>2, <2>3, <2>4, <2>5 DEF StartInv
  <1>6. CASE InitOptions
    <2>a. /\ pc[Main] = "options" /\ pc'[Main] = "deref"
          /\ \A u \in Threads : u # Main => pc'[u] = "idle"
          /\ DOMAIN pc' = Threads /\ pc' = [u \in Threads |-> pc'[u]]
      BY <1>6 DEF InitOptions
    <2>b. /\ UNCHANGED <<trigger_init, singleton, instance,
                         IS_MMTK_INITIALIZED, IS_MMTK_REINITIALIZING,
                         runtime, runtimes, first, panicked>>
          /\ builder' = [builder EXCEPT !.zygote = runtime.zygote]
      BY <1>6 DEF InitOptions, built, flags, art
    <2>1. StartupTypeOK'
      BY <2>a, <2>b DEF StartInv, StartupTypeOK
    <2>2. OneInitializer'
      BY <2>a, <2>b DEF StartInv, OneInitializer, FirstBuilds
    <2>3. FirstBuilds'
      BY <2>a, <2>b DEF StartInv, FirstBuilds
    <2>4. ParametersSet'
      BY <2>a, <2>b DEF StartInv, StartupTypeOK, FirstBuilds, ParametersSet
    <2>5. BuildProgress'
      BY <2>a, <2>b DEF StartInv, BuildProgress, AsChosen
    <2> QED BY <2>1, <2>2, <2>3, <2>4, <2>5 DEF StartInv
  <1> QED BY <1>1, <1>2, <1>3, <1>4, <1>5, <1>6 DEF MainCalls

\* A helper that comes to use the instance changes nothing else.
LEMMA QueryStep ==
    ASSUME StartInv, NEW t \in Threads, Query(t)
    PROVE  StartInv'
  <1> USE ThreadNames
  <1> USE DEF Build, Setting, AtSingleton, Ready
  <1>a. /\ t \in Helpers /\ pc[t] = "idle" /\ pc'[t] = "deref"
        /\ \A u \in Threads : u # t => pc'[u] = pc[u]
        /\ DOMAIN pc' = Threads /\ pc' = [u \in Threads |-> pc'[u]]
    BY GotoPc DEF StartInv, Query
  <1>b. /\ UNCHANGED <<builder, trigger_init, singleton, instance,
                        IS_MMTK_INITIALIZED, IS_MMTK_REINITIALIZING,
                        runtime, runtimes, first, panicked>>
    BY DEF Query, params, built, flags, art
  <1>1. StartupTypeOK'
    BY <1>a, <1>b DEF StartInv, StartupTypeOK
  <1>2. OneInitializer'
    BY <1>a, <1>b DEF StartInv, OneInitializer
  <1>3. FirstBuilds'
    BY <1>a, <1>b DEF StartInv, FirstBuilds
  <1>4. ParametersSet'
    BY <1>a, <1>b DEF StartInv, ParametersSet
  <1>5. BuildProgress'
    BY <1>a, <1>b DEF StartInv, BuildProgress, AsChosen
  <1> QED BY <1>1, <1>2, <1>3, <1>4, <1>5 DEF StartInv

\* While a thread initializes the instance, the main thread is at SINGLETON and
\* has set what the first runtime asked for.
LEMMA WhileBuilding ==
    ASSUME StartInv, NEW t \in Threads, pc[t] \in Build
    PROVE  /\ ~Ready /\ singleton = t /\ runtimes = 1
           /\ pc[Main] \in AtSingleton
           /\ first.sizes \in Sizes
           /\ trigger_init = first.sizes
           /\ builder.policy = Policy(first.sizes)
           /\ builder.zygote = first.zygote
           /\ \A u \in Threads : u # t => pc[u] \notin Build
  <1> USE ThreadNames
  <1> USE DEF Build, Setting, AtSingleton, Ready
  <1>1. ~Ready /\ singleton = t
    BY DEF StartInv, OneInitializer
  <1>2. pc[Main] \in AtSingleton /\ runtimes = 1
    BY <1>1 DEF StartInv, FirstBuilds
  <1> QED BY <1>1, <1>2 DEF StartInv, StartupTypeOK, OneInitializer, ParametersSet

\* A thread that uses the instance: the first one builds it.
LEMMA UseStep ==
    ASSUME StartInv, ~panicked, NEW t \in Threads, UseInstance(t)
    PROVE  StartInv'
  <1> USE ThreadNames
  <1> USE DEF Build, Setting, AtSingleton, Ready
  <1>1. CASE Deref(t) /\ singleton = "unset"
    <2>a. /\ pc[t] = "deref" /\ pc'[t] = "build_lock"
          /\ \A u \in Threads : u # t => pc'[u] = pc[u]
          /\ DOMAIN pc' = Threads /\ pc' = [u \in Threads |-> pc'[u]]
      BY <1>1, GotoPc DEF StartInv, Deref
    <2>b. /\ UNCHANGED <<builder, trigger_init, instance,
                          IS_MMTK_INITIALIZED, IS_MMTK_REINITIALIZING,
                          runtime, runtimes, first, panicked>>
          /\ singleton' = t
          /\ singleton = "unset"
      BY <1>1 DEF Deref, params, built, flags, art
    <2>1. StartupTypeOK'
      BY <2>a, <2>b DEF StartInv, StartupTypeOK
    <2>2. OneInitializer'
      BY <2>a, <2>b DEF StartInv, OneInitializer
    <2>3. FirstBuilds'
      BY <2>a, <2>b DEF StartInv, FirstBuilds
    <2>4. ParametersSet'
      BY <2>a, <2>b DEF StartInv, ParametersSet
    <2>5. BuildProgress'
      BY <2>a, <2>b DEF StartInv, BuildProgress, AsChosen
    <2> QED BY <2>1, <2>2, <2>3, <2>4, <2>5 DEF StartInv
  <1>2. CASE Deref(t) /\ singleton = "ready"
    <2>a. /\ pc[t] = "deref" /\ pc'[t] = AfterDeref(t)
          /\ \A u \in Threads : u # t => pc'[u] = pc[u]
          /\ DOMAIN pc' = Threads /\ pc' = [u \in Threads |-> pc'[u]]
      BY <1>2, GotoPc DEF StartInv, Deref
    <2>b. /\ UNCHANGED <<builder, trigger_init, singleton, instance,
                          IS_MMTK_INITIALIZED, IS_MMTK_REINITIALIZING,
                          runtime, runtimes, first, panicked>>
          /\ Ready
      BY <1>2 DEF Deref, params, built, flags, art
    <2>1. StartupTypeOK'
      BY <2>a, <2>b DEF StartInv, StartupTypeOK
    <2>2. OneInitializer'
      BY <2>a, <2>b DEF StartInv, OneInitializer, AfterDeref
    <2>3. FirstBuilds'
      BY <2>a, <2>b DEF StartInv, FirstBuilds, AfterDeref
    <2>4. ParametersSet'
      BY <2>a, <2>b DEF StartInv, ParametersSet
    <2>5. BuildProgress'
      BY <2>a, <2>b DEF StartInv, BuildProgress, AsChosen, AfterDeref
    <2> QED BY <2>1, <2>2, <2>3, <2>4, <2>5 DEF StartInv
  <1>3. CASE BuildLock(t)
    <2>a. /\ pc[t] = "build_lock" /\ pc'[t] = "build_trigger"
          /\ \A u \in Threads : u # t => pc'[u] = pc[u]
          /\ DOMAIN pc' = Threads /\ pc' = [u \in Threads |-> pc'[u]]
      BY <1>3, GotoPc DEF StartInv, BuildLock
    <2>b. /\ UNCHANGED <<builder, trigger_init, singleton, instance,
                          IS_MMTK_INITIALIZED, IS_MMTK_REINITIALIZING,
                          runtime, runtimes, first>>
          /\ panicked' = IS_MMTK_INITIALIZED
      BY <1>3 DEF BuildLock, params, built, flags, art
    <2>c. /\ ~Ready /\ singleton = t /\ runtimes = 1
          /\ pc[Main] \in AtSingleton
          /\ first.sizes \in Sizes
          /\ trigger_init = first.sizes
          /\ builder.policy = Policy(first.sizes)
          /\ builder.zygote = first.zygote
          /\ \A u \in Threads : u # t => pc[u] \notin Build
      BY <2>a, WhileBuilding
    <2>1. StartupTypeOK'
      BY <2>a, <2>b, <2>c DEF StartInv, StartupTypeOK
    <2>2. OneInitializer'
      BY <2>a, <2>b, <2>c DEF StartInv, OneInitializer
    <2>3. FirstBuilds'
      BY <2>a, <2>b, <2>c DEF StartInv, FirstBuilds
    <2>4. ParametersSet'
      BY <2>a, <2>b, <2>c DEF StartInv, ParametersSet
    <2>5. BuildProgress'
      BY <2>a, <2>b, <2>c DEF StartInv, BuildProgress, AsChosen
    <2> QED BY <2>1, <2>2, <2>3, <2>4, <2>5 DEF StartInv
  <1>4. CASE BuildLockTrigger(t)
    <2>a. /\ pc[t] = "build_trigger" /\ pc'[t] = "build_layout"
          /\ \A u \in Threads : u # t => pc'[u] = pc[u]
          /\ DOMAIN pc' = Threads /\ pc' = [u \in Threads |-> pc'[u]]
      BY <1>4, GotoPc DEF StartInv, BuildLockTrigger
    <2>b. /\ UNCHANGED <<builder, trigger_init, singleton, instance,
                          IS_MMTK_INITIALIZED, IS_MMTK_REINITIALIZING,
                          runtime, runtimes, first, panicked>>
      BY <1>4 DEF BuildLockTrigger, params, built, flags, art
    <2>c. /\ ~Ready /\ singleton = t /\ runtimes = 1
          /\ pc[Main] \in AtSingleton
          /\ first.sizes \in Sizes
          /\ trigger_init = first.sizes
          /\ builder.policy = Policy(first.sizes)
          /\ builder.zygote = first.zygote
          /\ \A u \in Threads : u # t => pc[u] \notin Build
      BY <2>a, WhileBuilding
    <2>1. StartupTypeOK'
      BY <2>a, <2>b, <2>c DEF StartInv, StartupTypeOK
    <2>2. OneInitializer'
      BY <2>a, <2>b, <2>c DEF StartInv, OneInitializer
    <2>3. FirstBuilds'
      BY <2>a, <2>b, <2>c DEF StartInv, FirstBuilds
    <2>4. ParametersSet'
      BY <2>a, <2>b, <2>c DEF StartInv, ParametersSet
    <2>5. BuildProgress'
      BY <2>a, <2>b, <2>c DEF StartInv, BuildProgress, AsChosen
    <2> QED BY <2>1, <2>2, <2>3, <2>4, <2>5 DEF StartInv
  <1>5. CASE BuildLayout(t)
    <2>a. /\ pc[t] = "build_layout" /\ pc'[t] = "build_instance"
          /\ \A u \in Threads : u # t => pc'[u] = pc[u]
          /\ DOMAIN pc' = Threads /\ pc' = [u \in Threads |-> pc'[u]]
      BY <1>5, GotoPc DEF StartInv, BuildLayout
    <2>b. /\ UNCHANGED <<trigger_init, singleton, instance,
                          IS_MMTK_INITIALIZED, IS_MMTK_REINITIALIZING,
                          runtime, runtimes, first>>
          /\ panicked' = TooLarge(trigger_init.max)
          /\ builder' = [builder EXCEPT !.layout = Layout(trigger_init.max)]
      BY <1>5 DEF BuildLayout, params, built, flags, art
    <2>c. /\ ~Ready /\ singleton = t /\ runtimes = 1
          /\ pc[Main] \in AtSingleton
          /\ first.sizes \in Sizes
          /\ trigger_init = first.sizes
          /\ builder.policy = Policy(first.sizes)
          /\ builder.zygote = first.zygote
          /\ \A u \in Threads : u # t => pc[u] \notin Build
      BY <2>a, WhileBuilding
    <2>1. StartupTypeOK'
      BY <2>a, <2>b, <2>c DEF StartInv, StartupTypeOK
    <2>2. OneInitializer'
      BY <2>a, <2>b, <2>c DEF StartInv, OneInitializer
    <2>3. FirstBuilds'
      BY <2>a, <2>b, <2>c DEF StartInv, FirstBuilds
    <2>4. ParametersSet'
      BY <2>a, <2>b, <2>c DEF StartInv, ParametersSet
    <2>5. BuildProgress'
      BY <2>a, <2>b, <2>c DEF StartInv, BuildProgress, AsChosen
    <2> QED BY <2>1, <2>2, <2>3, <2>4, <2>5 DEF StartInv
  <1>6. CASE BuildInstance(t)
    <2>a. /\ pc[t] = "build_instance" /\ pc'[t] = "build_done"
          /\ \A u \in Threads : u # t => pc'[u] = pc[u]
          /\ DOMAIN pc' = Threads /\ pc' = [u \in Threads |-> pc'[u]]
      BY <1>6, GotoPc DEF StartInv, BuildInstance
    <2>b. /\ UNCHANGED <<builder, trigger_init, singleton,
                          IS_MMTK_INITIALIZED, IS_MMTK_REINITIALIZING,
                          runtime, runtimes, first, panicked>>
          /\ instance' = [zygote |-> builder.zygote, policy |-> builder.policy,
                           layout |-> builder.layout, sizes |-> trigger_init]
      BY <1>6 DEF BuildInstance, params, built, flags, art
    <2>c. /\ ~Ready /\ singleton = t /\ runtimes = 1
          /\ pc[Main] \in AtSingleton
          /\ first.sizes \in Sizes
          /\ trigger_init = first.sizes
          /\ builder.policy = Policy(first.sizes)
          /\ builder.zygote = first.zygote
          /\ \A u \in Threads : u # t => pc[u] \notin Build
      BY <2>a, WhileBuilding
    <2>1. StartupTypeOK'
      BY <2>a, <2>b, <2>c DEF StartInv, StartupTypeOK
    <2>2. OneInitializer'
      BY <2>a, <2>b, <2>c DEF StartInv, OneInitializer
    <2>3. FirstBuilds'
      BY <2>a, <2>b, <2>c DEF StartInv, FirstBuilds
    <2>4. ParametersSet'
      BY <2>a, <2>b, <2>c DEF StartInv, ParametersSet
    <2>5. BuildProgress'
      BY <2>a, <2>b, <2>c DEF StartInv, BuildProgress, AsChosen
    <2> QED BY <2>1, <2>2, <2>3, <2>4, <2>5 DEF StartInv
  <1>7. CASE BuildDone(t)
    <2>a. /\ pc[t] = "build_done" /\ pc'[t] = AfterDeref(t)
          /\ \A u \in Threads : u # t => pc'[u] = pc[u]
          /\ DOMAIN pc' = Threads /\ pc' = [u \in Threads |-> pc'[u]]
      BY <1>7, GotoPc DEF StartInv, BuildDone
    <2>b. /\ UNCHANGED <<builder, trigger_init, instance,
                          IS_MMTK_REINITIALIZING, runtime, runtimes, first,
                          panicked>>
          /\ IS_MMTK_INITIALIZED' = TRUE
          /\ singleton' = "ready"
      BY <1>7 DEF BuildDone, params, built, flags, art
    <2>c. /\ ~Ready /\ singleton = t /\ runtimes = 1
          /\ pc[Main] \in AtSingleton
          /\ first.sizes \in Sizes
          /\ trigger_init = first.sizes
          /\ builder.policy = Policy(first.sizes)
          /\ builder.zygote = first.zygote
          /\ \A u \in Threads : u # t => pc[u] \notin Build
      BY <2>a, WhileBuilding
    <2>1. StartupTypeOK'
      BY <2>a, <2>b, <2>c DEF StartInv, StartupTypeOK
    <2>2. OneInitializer'
      BY <2>a, <2>b, <2>c DEF StartInv, OneInitializer, AfterDeref
    <2>3. FirstBuilds'
      BY <2>a, <2>b, <2>c DEF StartInv, FirstBuilds, AfterDeref
    <2>4. ParametersSet'
      BY <2>a, <2>b, <2>c DEF StartInv, ParametersSet
    <2>5. BuildProgress'
      BY <2>a, <2>b, <2>c DEF StartInv, BuildProgress, AsChosen
    <2> QED BY <2>1, <2>2, <2>3, <2>4, <2>5 DEF StartInv
  <1>8. Deref(t) => singleton \in {"unset", "ready"}
    BY DEF Deref
  <1> QED BY <1>1, <1>2, <1>3, <1>4, <1>5, <1>6, <1>7, <1>8 DEF UseInstance

\* Once there is an instance, no step of a thread between its calls matters to
\* the startup.
LEMMA ReadyStep ==
    ASSUME StartInv, Ready,
           UNCHANGED <<builder, trigger_init, singleton, instance,
                       IS_MMTK_INITIALIZED, IS_MMTK_REINITIALIZING, runtime,
                       runtimes, first, panicked>>,
           DOMAIN pc' = Threads, pc' = [u \in Threads |-> pc'[u]],
           \A u \in Threads : pc'[u] \in Build => pc[u] \in Build,
           pc'[Main] \in Setting \cup AtSingleton => pc'[Main] = pc[Main]
    PROVE  StartInv'
  <1> USE ThreadNames
  <1> USE DEF Build, Setting, AtSingleton, Ready
  <1>1. StartupTypeOK'
    BY DEF StartInv, StartupTypeOK
  <1>2. OneInitializer'
    BY DEF StartInv, OneInitializer
  <1>3. FirstBuilds'
    BY DEF StartInv, FirstBuilds
  <1>4. ParametersSet'
    BY DEF StartInv, ParametersSet
  <1>5. BuildProgress'
    BY DEF StartInv, OneInitializer, BuildProgress, AsChosen
  <1> QED BY <1>1, <1>2, <1>3, <1>4, <1>5 DEF StartInv

(***************************************************************************)
(* The process keeps its invariant                                         *)
(***************************************************************************)
\* What the startup does to the state that the process depends on: the main
\* thread stays within the creation of a runtime, and nothing happens to an
\* instance that is ready.
LEMMA StartupEffect ==
    ASSUME StartInv, LaterRuntimes, NEW t \in Threads, StartupStep(t)
    PROVE  /\ runtimes' = runtimes
           /\ pc'[Main] = pc[Main]
                \/ (pc[Main] \in Creating /\ pc'[Main] \in Creating)
           /\ LaterRuntimes'
           /\ Ready => Ready' /\ instance' = instance
  <1> USE ThreadNames
  <1> USE DEF Build, Setting, AtSingleton, Ready
  <1> USE DEF Creating
  <1>1. CASE SetLockBuilder
    <2>1. pc[Main] = "set_builder" /\ pc'[Main] = "set_trigger"
      BY <1>1, GotoPc DEF StartInv, SetLockBuilder
    <2>2. UNCHANGED <<runtimes, singleton, instance, IS_MMTK_REINITIALIZING>>
      BY <1>1 DEF SetLockBuilder, art, built, flags
    <2> QED BY <2>1, <2>2 DEF LaterRuntimes
  <1>2. CASE SetLockTrigger
    <2>1. pc[Main] = "set_trigger" /\ pc'[Main] = "set_sizes"
      BY <1>2, GotoPc DEF StartInv, SetLockTrigger
    <2>2. UNCHANGED <<runtimes, singleton, instance, IS_MMTK_REINITIALIZING>>
      BY <1>2 DEF SetLockTrigger, art, built, flags
    <2> QED BY <2>1, <2>2 DEF LaterRuntimes
  <1>3. CASE SetTriggerInit
    <2>1. pc[Main] = "set_sizes" /\ pc'[Main] = "set_policy"
      BY <1>3, GotoPc DEF StartInv, SetTriggerInit
    <2>2. UNCHANGED <<runtimes, singleton, instance, IS_MMTK_REINITIALIZING>>
      BY <1>3 DEF SetTriggerInit, art, built, flags
    <2> QED BY <2>1, <2>2 DEF LaterRuntimes
  <1>4. CASE SetPolicy
    <2>1. pc[Main] = "set_policy" /\ pc'[Main] = "init"
      BY <1>4, GotoPc DEF StartInv, SetPolicy
    <2>2. UNCHANGED <<runtimes, singleton, instance, IS_MMTK_REINITIALIZING>>
      BY <1>4 DEF SetPolicy, art, built, flags
    <2> QED BY <2>1, <2>2 DEF LaterRuntimes
  <1>5. CASE InitCheck
    <2>1. pc[Main] = "init" /\ pc'[Main] = IF Ready THEN "collection" ELSE "options"
      BY <1>5, GotoPc DEF StartInv, InitCheck, AfterCheck, OneInitializer
    <2>2. /\ UNCHANGED <<runtimes, singleton, instance>>
          /\ IS_MMTK_REINITIALIZING' =
               (IS_MMTK_REINITIALIZING \/ IS_MMTK_INITIALIZED)
      BY <1>5 DEF InitCheck, art, built
    <2>3. IS_MMTK_REINITIALIZING' = (IS_MMTK_REINITIALIZING \/ Ready)
      BY <2>2 DEF StartInv, OneInitializer
    <2>4. (runtimes = 1 => ~Ready) /\ (runtimes > 1 => Ready) /\ runtimes \in Nat
      BY <2>1 DEF StartInv, StartupTypeOK, FirstBuilds
    <2>5. runtimes # 0
      BY <2>1 DEF StartInv, FirstBuilds
    <2>6. (Ready => IS_MMTK_REINITIALIZING')
            /\ (~Ready /\ ~IS_MMTK_REINITIALIZING => ~IS_MMTK_REINITIALIZING')
      BY <2>3, Zenon
    <2>7. LaterRuntimes'
      BY <2>1, <2>2, <2>4, <2>5, <2>6 DEF LaterRuntimes
    <2> QED BY <2>1, <2>2, <2>7
  <1>6. CASE InitOptions
    <2>1. pc[Main] = "options" /\ pc'[Main] = "deref"
      BY <1>6 DEF InitOptions
    <2>2. UNCHANGED <<runtimes, singleton, instance, IS_MMTK_REINITIALIZING>>
      BY <1>6 DEF InitOptions, art, built, flags
    <2> QED BY <2>1, <2>2 DEF LaterRuntimes
  <1>7. CASE Deref(t)
    <2>1. /\ pc[t] = "deref" /\ pc'[t] \in {"build_lock", AfterDeref(t)}
          /\ \A u \in Threads : u # t => pc'[u] = pc[u]
      BY <1>7, GotoPc DEF StartInv, Deref
    <2>2. /\ UNCHANGED <<runtimes, instance, IS_MMTK_REINITIALIZING>>
          /\ Ready => Ready'
      BY <1>7 DEF Deref, art, built, flags
    <2> QED BY <2>1, <2>2 DEF StartInv, FirstBuilds, LaterRuntimes, AfterDeref
  <1>8. CASE BuildLock(t)
    <2>1. /\ pc[t] = "build_lock" /\ pc'[t] = "build_trigger"
          /\ \A u \in Threads : u # t => pc'[u] = pc[u]
      BY <1>8, GotoPc DEF StartInv, BuildLock
    <2>2. ~Ready /\ runtimes = 1
      BY <2>1, WhileBuilding
    <2>3. UNCHANGED <<runtimes, IS_MMTK_REINITIALIZING>>
      BY <1>8 DEF BuildLock, art, flags
    <2> QED BY <2>1, <2>2, <2>3 DEF LaterRuntimes
  <1>9. CASE BuildLockTrigger(t)
    <2>1. /\ pc[t] = "build_trigger" /\ pc'[t] = "build_layout"
          /\ \A u \in Threads : u # t => pc'[u] = pc[u]
      BY <1>9, GotoPc DEF StartInv, BuildLockTrigger
    <2>2. ~Ready /\ runtimes = 1
      BY <2>1, WhileBuilding
    <2>3. UNCHANGED <<runtimes, IS_MMTK_REINITIALIZING>>
      BY <1>9 DEF BuildLockTrigger, art, flags
    <2> QED BY <2>1, <2>2, <2>3 DEF LaterRuntimes
  <1>10. CASE BuildLayout(t)
    <2>1. /\ pc[t] = "build_layout" /\ pc'[t] = "build_instance"
          /\ \A u \in Threads : u # t => pc'[u] = pc[u]
      BY <1>10, GotoPc DEF StartInv, BuildLayout
    <2>2. ~Ready /\ runtimes = 1
      BY <2>1, WhileBuilding
    <2>3. UNCHANGED <<runtimes, IS_MMTK_REINITIALIZING>>
      BY <1>10 DEF BuildLayout, art, flags
    <2> QED BY <2>1, <2>2, <2>3 DEF LaterRuntimes
  <1>11. CASE BuildInstance(t)
    <2>1. /\ pc[t] = "build_instance" /\ pc'[t] = "build_done"
          /\ \A u \in Threads : u # t => pc'[u] = pc[u]
      BY <1>11, GotoPc DEF StartInv, BuildInstance
    <2>2. ~Ready /\ runtimes = 1
      BY <2>1, WhileBuilding
    <2>3. UNCHANGED <<runtimes, IS_MMTK_REINITIALIZING>>
      BY <1>11 DEF BuildInstance, art, flags
    <2> QED BY <2>1, <2>2, <2>3 DEF LaterRuntimes
  <1>12. CASE BuildDone(t)
    <2>1. /\ pc[t] = "build_done" /\ pc'[t] = AfterDeref(t)
          /\ \A u \in Threads : u # t => pc'[u] = pc[u]
      BY <1>12, GotoPc DEF StartInv, BuildDone
    <2>2. ~Ready /\ runtimes = 1
      BY <2>1, WhileBuilding
    <2>3. UNCHANGED <<runtimes, IS_MMTK_REINITIALIZING>>
      BY <1>12 DEF BuildDone, art, flags
    <2> QED BY <2>1, <2>2, <2>3 DEF LaterRuntimes, AfterDeref
  <1> QED BY <1>1, <1>2, <1>3, <1>4, <1>5, <1>6, <1>7, <1>8, <1>9, <1>10,
             <1>11, <1>12 DEF StartupStep, UseInstance, MainCalls

\* A step that leaves the workers and the Zygote alone, and moves the main thread
\* within the creation of a runtime only.
LEMMA WorkersAlone ==
    ASSUME ProcInv, UNCHANGED <<workers, sched, zygote>>, LaterRuntimes',
           NoWorkersYet' <=> NoWorkersYet,
           \/ pc'[Main] = pc[Main]
           \/ /\ pc[Main] \notin {"compacting", "tell_art"}
              /\ pc'[Main] \notin {"joining", "forking"},
           Ready => Ready' /\ instance' = instance
    PROVE  ProcInv'
  <1> USE DEF workers, sched, zygote
  <1>1. WorkersTypeOK'
    BY DEF ProcInv, WorkersTypeOK
  <1>2. OneOwner'
    BY DEF ProcInv, OneOwner, Owners
  <1>3. GoalFits'
    BY DEF ProcInv, GoalFits
  <1>4. ZygoteSpace'
    BY DEF ProcInv, ZygoteSpace
  <1> QED BY <1>1, <1>2, <1>3, <1>4 DEF ProcInv

\* The startup as part of the process.
LEMMA CallStep ==
    ASSUME Inv, ~panicked, NEW t \in Threads, Call(t)
    PROVE  Inv'
  <1>1. StartupStep(t) /\ UNCHANGED <<workers, sched, zygote>>
    BY DEF Call, StartupOnly
  <1>2. StartInv'
    BY <1>1, UseStep, SettingStep DEF Inv, StartupStep
  <1>3. /\ runtimes' = runtimes
        /\ pc'[Main] = pc[Main]
             \/ (pc[Main] \in Creating /\ pc'[Main] \in Creating)
        /\ LaterRuntimes'
        /\ Ready => Ready' /\ instance' = instance
    BY <1>1, StartupEffect DEF Inv, ProcInv
  <1>4. ProcInv'
    BY <1>1, <1>3, WorkersAlone
       DEF Inv, NoWorkersYet, Creating, Setting, AtSingleton, Build
  <1> QED BY <1>2, <1>4 DEF Inv

LEMMA RuntimeCreated ==
    ASSUME Inv, NEW s \in Sizes, NEW z \in BOOLEAN, StartupOnly(CreateRuntime(s, z))
    PROVE  Inv'
  <1>1. CreateRuntime(s, z) /\ UNCHANGED <<workers, sched, zygote>>
    BY DEF StartupOnly
  <1>2. StartInv'
    BY <1>1, CreateRuntimeStep DEF Inv
  <1>3. /\ pc[Main] = "up" /\ pc'[Main] = "set_builder"
        /\ runtimes \in Nat /\ runtimes' = runtimes + 1
        /\ UNCHANGED <<singleton, instance, IS_MMTK_REINITIALIZING>>
    BY <1>1, GotoPc, ThreadNames
       DEF Inv, StartInv, StartupTypeOK, CreateRuntime, built, flags
  <1>4. NoWorkersYet' <=> NoWorkersYet
    BY <1>3 DEF NoWorkersYet, Creating, Setting, AtSingleton, Build
  <1>5. LaterRuntimes'
    BY <1>3 DEF Inv, ProcInv, LaterRuntimes
  <1>6. ProcInv'
    BY <1>1, <1>3, <1>4, <1>5, WorkersAlone DEF Inv, Ready
  <1> QED BY <1>2, <1>6 DEF Inv

LEMMA QueryMade ==
    ASSUME Inv, NEW t \in Helpers, StartupOnly(Query(t))
    PROVE  Inv'
  <1>1. Query(t) /\ UNCHANGED <<workers, sched, zygote>>
    BY DEF StartupOnly
  <1>2. StartInv'
    BY <1>1, QueryStep, ThreadNames DEF Inv
  <1>3. pc'[Main] = pc[Main]
    BY <1>1, GotoPc, ThreadNames DEF Inv, StartInv, Query
  <1>4. UNCHANGED <<runtimes, singleton, instance, IS_MMTK_REINITIALIZING>>
    BY <1>1 DEF Query, built, flags, art
  <1>5. ProcInv'
    BY <1>1, <1>3, <1>4, WorkersAlone
       DEF Inv, ProcInv, LaterRuntimes, NoWorkersYet, Ready
  <1> QED BY <1>2, <1>5 DEF Inv

\* Workers exist only once the instance does.
LEMMA WorkersExist ==
    ASSUME Inv, ~NoWorkersYet
    PROVE  Ready /\ runtimes > 0
  BY DEF Inv, StartInv, FirstBuilds, NoWorkersYet, Creating, AtSingleton

\* Who owns a context has it from the first runtime.
LEMMA OwnedThenWorkers ==
    ASSUME Inv, NEW w \in Workers, w \in saved \/ raw[w] + alive[w] > 0
    PROVE  ~NoWorkersYet
  <1>1. raw[w] \in Nat /\ alive[w] \in Nat
    BY DEF Inv, ProcInv, WorkersTypeOK
  <1> QED BY <1>1 DEF Inv, ProcInv, OneOwner, Owners

\* Outside of the creation of a runtime and past the first one, there are workers.
LEMMA PastCreation ==
    ASSUME Inv, pc[Main] \notin Creating \cup {"up"}
    PROVE  Ready /\ ~NoWorkersYet
  BY DEF Inv, StartInv, StartupTypeOK, FirstBuilds, NoWorkersYet, Creating, AtSingleton

\* A step that touches nothing of the startup.
LEMMA StartupUntouched ==
    ASSUME StartInv, UNCHANGED startup
    PROVE  StartInv' /\ UNCHANGED <<pc, runtimes, singleton, instance,
                                    IS_MMTK_REINITIALIZING>>
  <1> USE DEF startup, params, built, flags, art
  <1>1. StartupTypeOK' /\ OneInitializer'
    BY DEF StartInv, StartupTypeOK, OneInitializer, Ready
  <1>2. FirstBuilds' /\ ParametersSet'
    BY DEF StartInv, FirstBuilds, ParametersSet, Ready
  <1>3. BuildProgress'
    BY DEF StartInv, BuildProgress, Ready, AsChosen
  <1> QED BY <1>1, <1>2, <1>3 DEF StartInv

\* A call of a thread, between creations of runtimes, that takes it from one
\* label to another and changes nothing else of the startup.
LEMMA BetweenCalls ==
    ASSUME Inv, Ready, NEW t \in Threads, NEW from, NEW to, Goto(t, from, to),
           to \notin Setting \cup AtSingleton, UNCHANGED fixed
    PROVE  /\ StartInv'
           /\ pc[t] = from /\ pc'[t] = to
           /\ \A u \in Threads : u # t => pc'[u] = pc[u]
           /\ UNCHANGED <<runtimes, singleton, instance,
                          IS_MMTK_REINITIALIZING>>
  <1>1. UNCHANGED <<builder, trigger_init, singleton, instance,
                    IS_MMTK_INITIALIZED, IS_MMTK_REINITIALIZING, runtime,
                    runtimes, first, panicked>>
    BY DEF fixed, params, built, flags, art
  <1>2. /\ pc[t] = from /\ pc'[t] = to
        /\ \A u \in Threads : u # t => pc'[u] = pc[u]
        /\ DOMAIN pc' = Threads /\ pc' = [u \in Threads |-> pc'[u]]
    BY GotoPc DEF Inv, StartInv
  <1>3. StartInv'
    BY <1>1, <1>2, ReadyStep, ThreadNames DEF Inv, AtSingleton
  <1> QED BY <1>1, <1>2, <1>3

\* Workers are spawned once: by the first runtime of the process.
LEMMA InitializeStep ==
    ASSUME Inv, mmtk_initialize_collection
    PROVE  Inv'
  <1> USE DEF Creating, Setting, AtSingleton, Build
  <1>1. pc[Main] = "collection" /\ Ready /\ runtimes > 0
    BY DEF mmtk_initialize_collection, Goto, Inv, StartInv, FirstBuilds
  <1>2. /\ StartInv' /\ pc'[Main] = "up"
        /\ UNCHANGED <<runtimes, singleton, instance, IS_MMTK_REINITIALIZING>>
    BY <1>1, BetweenCalls, ThreadNames DEF mmtk_initialize_collection
  <1>3. runtimes \in Nat /\ ~NoWorkersYet'
        /\ (runtimes = 1 <=> NoWorkersYet)
    BY <1>1, <1>2 DEF Inv, StartInv, StartupTypeOK, NoWorkersYet
  <1>4. UNCHANGED <<alive, saved, goal, compacted, has_zygote_space_in_art>>
    BY DEF mmtk_initialize_collection, sched
  <1>5. CASE runtimes = 1
    <2>1. /\ raw' = [w \in Workers |-> raw[w] + 1]
          /\ is_zygote_process' = instance.zygote
      BY <1>5 DEF Inv, ProcInv, LaterRuntimes, mmtk_initialize_collection,
                  InitializesCollection, spawn_gc_threads
    <2>2. WorkersTypeOK'
      BY <2>1, <1>4 DEF Inv, ProcInv, WorkersTypeOK
    <2>3. OneOwner'
      BY <2>1, <1>3, <1>4, <1>5 DEF Inv, ProcInv, WorkersTypeOK, OneOwner, Owners
    <2>4. LaterRuntimes' /\ GoalFits'
      BY <1>2, <1>4 DEF Inv, ProcInv, LaterRuntimes, GoalFits
    <2>5. ZygoteSpace'
      BY <2>1, <1>1, <1>2, <1>4 DEF Inv, ProcInv, ZygoteSpace, Ready
    <2> QED BY <2>2, <2>3, <2>4, <2>5, <1>2 DEF Inv, ProcInv
  <1>6. CASE runtimes # 1
    <2>1. UNCHANGED <<raw, is_zygote_process>>
      BY <1>1, <1>3, <1>6 DEF Inv, ProcInv, LaterRuntimes,
                  mmtk_initialize_collection, InitializesCollection
    <2>2. WorkersTypeOK' /\ OneOwner'
      BY <2>1, <1>3, <1>4, <1>6 DEF Inv, ProcInv, WorkersTypeOK, OneOwner, Owners
    <2>3. LaterRuntimes' /\ GoalFits'
      BY <1>2, <1>4 DEF Inv, ProcInv, LaterRuntimes, GoalFits
    <2>4. ZygoteSpace'
      BY <2>1, <1>1, <1>2, <1>4 DEF Inv, ProcInv, ZygoteSpace, Ready
    <2> QED BY <2>2, <2>3, <2>4, <1>2 DEF Inv, ProcInv
  <1> QED BY <1>5, <1>6

\* A worker thread takes its context, or gives it to MMTk.
LEMMA WorkerStep ==
    ASSUME Inv, NEW w \in Workers, Worker(w)
    PROVE  Inv'
  <1>1. UNCHANGED startup /\ UNCHANGED zygote
    BY DEF Worker, mmtk_start_gc_worker_thread, Surrender
  <1>2. StartInv' /\ UNCHANGED <<pc, runtimes, singleton, instance,
                                 IS_MMTK_REINITIALIZING>>
    BY <1>1, StartupUntouched DEF Inv
  <1>3. LaterRuntimes' /\ ZygoteSpace' /\ (NoWorkersYet' <=> NoWorkersYet)
    BY <1>1, <1>2 DEF Inv, ProcInv, LaterRuntimes, ZygoteSpace, NoWorkersYet,
                      zygote, Ready
  <1>4. /\ raw \in [Workers -> Nat] /\ alive \in [Workers -> Nat]
        /\ saved \subseteq Workers
    BY DEF Inv, ProcInv, WorkersTypeOK
  <1>5. \A v \in Workers : Owners(v) = IF NoWorkersYet THEN 0 ELSE 1
    BY DEF Inv, ProcInv, OneOwner
  <1>6. CASE mmtk_start_gc_worker_thread(w)
    <2>1. /\ raw[w] > 0 /\ UNCHANGED <<saved, goal>>
          /\ raw' = [raw EXCEPT ![w] = @ - 1]
          /\ alive' = [alive EXCEPT ![w] = @ + 1]
      BY <1>6 DEF mmtk_start_gc_worker_thread, sched
    <2>2. WorkersTypeOK'
      BY <2>1, <1>4 DEF Inv, ProcInv, WorkersTypeOK
    <2>3. OneOwner'
      BY <2>1, <1>3, <1>4, <1>5 DEF OneOwner, Owners
    <2>4. GoalFits'
      BY <2>1, <1>2, <1>4 DEF Inv, ProcInv, GoalFits
    <2> QED BY <2>2, <2>3, <2>4, <1>2, <1>3 DEF Inv, ProcInv
  <1>7. CASE Surrender(w)
    <2>1. /\ goal = "stop" /\ alive[w] > 0 /\ UNCHANGED raw
          /\ alive' = [alive EXCEPT ![w] = @ - 1]
          /\ saved' = saved \cup {w}
          /\ goal' = IF saved' = Workers THEN "none" ELSE "stop"
      BY <1>7 DEF Surrender
    <2>2. WorkersTypeOK'
      BY <2>1, <1>4 DEF WorkersTypeOK
    <2>3. w \notin saved
      BY <2>1, <1>4, <1>5 DEF Owners
    <2>4. OneOwner'
      BY <2>1, <2>3, <1>3, <1>4, <1>5 DEF OneOwner, Owners
    <2>5. GoalFits'
      BY <2>1, <1>2 DEF Inv, ProcInv, GoalFits
    <2> QED BY <2>2, <2>4, <2>5, <1>2, <1>3 DEF Inv, ProcInv
  <1> QED BY <1>6, <1>7 DEF Worker

\* A collection can be asked for once there are workers, and only then.
LEMMA RequestNeedsWorkers ==
    ASSUME Inv, NEW t, NEW from, NEW to, RequestCollection(t, from, to)
    PROVE  Ready /\ ~NoWorkersYet
  <1>1. \A w \in Workers : w \in saved \/ raw[w] + alive[w] > 0
    BY DEF RequestCollection
  <1>2. PICK w \in Workers : w \in saved \/ raw[w] + alive[w] > 0
    BY <1>1, WorkersAssumption
  <1> QED BY <1>2, OwnedThenWorkers, WorkersExist

\* Of the workers and the Zygote, a call that only moves a thread outside of the
\* creation of runtimes leaves everything as it is but what it says.
LEMMA RequestStep ==
    ASSUME Inv, NEW t \in Threads, mmtk_handle_user_collection_request(t)
    PROVE  Inv'
  <1> USE DEF Creating, Setting, AtSingleton, Build
  <1> DEFINE from == IF t = Main THEN "up" ELSE "idle"
  <1>1. RequestCollection(t, from, "blocked") /\ UNCHANGED zygote
    BY DEF mmtk_handle_user_collection_request
  <1>2. Ready /\ ~NoWorkersYet
    BY <1>1, RequestNeedsWorkers
  <1>3. /\ StartInv' /\ pc[t] = from /\ pc'[t] = "blocked"
        /\ \A u \in Threads : u # t => pc'[u] = pc[u]
        /\ UNCHANGED <<runtimes, singleton, instance, IS_MMTK_REINITIALIZING>>
    BY <1>1, <1>2, BetweenCalls DEF RequestCollection
  <1>4. UNCHANGED <<raw, alive, saved, goal, is_zygote_process,
                    has_zygote_space_in_art, compacted>>
    BY <1>1 DEF RequestCollection, workers, zygote
  <1>5. \/ pc'[Main] = pc[Main]
        \/ pc[Main] = "up" /\ pc'[Main] = "blocked"
    BY <1>3, ThreadNames
  <1>6. NoWorkersYet' <=> NoWorkersYet
    BY <1>3, <1>5 DEF NoWorkersYet
  <1>7. WorkersTypeOK' /\ OneOwner'
    BY <1>4, <1>6 DEF Inv, ProcInv, WorkersTypeOK, OneOwner, Owners
  <1>8. LaterRuntimes' /\ GoalFits'
    BY <1>3, <1>4, <1>5 DEF Inv, ProcInv, LaterRuntimes, GoalFits
  <1>9. ZygoteSpace'
    BY <1>3, <1>4, <1>5 DEF Inv, ProcInv, ZygoteSpace, Ready
  <1> QED BY <1>3, <1>7, <1>8, <1>9 DEF Inv, ProcInv

\* The collection before the first fork, and what ART learns when it has ended.
LEMMA CompactStep ==
    ASSUME Inv, mmtk_handle_pre_first_zygote_fork_collection_request
    PROVE  Inv'
  <1> USE DEF Creating, Setting, AtSingleton, Build
  <1>1. /\ RequestCollection(Main, "up", "compacting")
        /\ is_zygote_process /\ compacted'
        /\ UNCHANGED <<is_zygote_process, has_zygote_space_in_art>>
    BY DEF mmtk_handle_pre_first_zygote_fork_collection_request
  <1>2. Ready /\ ~NoWorkersYet
    BY <1>1, RequestNeedsWorkers
  <1>3. /\ StartInv' /\ pc[Main] = "up" /\ pc'[Main] = "compacting"
        /\ UNCHANGED <<runtimes, singleton, instance, IS_MMTK_REINITIALIZING>>
    BY <1>1, <1>2, BetweenCalls, ThreadNames DEF RequestCollection
  <1>4. UNCHANGED <<raw, alive, saved, goal>>
    BY <1>1 DEF RequestCollection, workers
  <1>5. NoWorkersYet' <=> NoWorkersYet
    BY <1>3 DEF NoWorkersYet
  <1>6. WorkersTypeOK' /\ OneOwner'
    BY <1>4, <1>5 DEF Inv, ProcInv, WorkersTypeOK, OneOwner, Owners
  <1>7. LaterRuntimes' /\ GoalFits'
    BY <1>3, <1>4 DEF Inv, ProcInv, LaterRuntimes, GoalFits
  <1>8. ZygoteSpace'
    BY <1>1, <1>3 DEF Inv, ProcInv, ZygoteSpace, Ready
  <1> QED BY <1>3, <1>6, <1>7, <1>8 DEF Inv, ProcInv

LEMMA TellStep ==
    ASSUME Inv, TellArt
    PROVE  Inv'
  <1> USE DEF Creating, Setting, AtSingleton, Build
  <1>1. pc[Main] = "tell_art"
    BY DEF TellArt, Goto
  <1>2. Ready /\ ~NoWorkersYet
    BY <1>1, PastCreation
  <1>3. /\ StartInv' /\ pc'[Main] = "up"
        /\ UNCHANGED <<runtimes, singleton, instance, IS_MMTK_REINITIALIZING>>
    BY <1>2, BetweenCalls, ThreadNames DEF TellArt
  <1>4. /\ UNCHANGED <<raw, alive, saved, goal, is_zygote_process, compacted>>
        /\ has_zygote_space_in_art' = instance.zygote
    BY DEF TellArt, TellsZygoteSpace, workers, sched
  <1>5. NoWorkersYet' <=> NoWorkersYet
    BY <1>1, <1>3 DEF NoWorkersYet
  <1>6. WorkersTypeOK' /\ OneOwner'
    BY <1>4, <1>5 DEF Inv, ProcInv, WorkersTypeOK, OneOwner, Owners
  <1>7. LaterRuntimes' /\ GoalFits'
    BY <1>3, <1>4 DEF Inv, ProcInv, LaterRuntimes, GoalFits
  <1>8. ZygoteSpace'
    BY <1>3, <1>4 DEF Inv, ProcInv, ZygoteSpace, Ready
  <1> QED BY <1>3, <1>6, <1>7, <1>8 DEF Inv, ProcInv

\* The scheduler turns to a goal: no context is in the hands of MMTk when all
\* workers have parked.
LEMMA GoalStep ==
    ASSUME Inv, StartCollection \/ StartStopping
    PROVE  Inv'
  <1>1. /\ UNCHANGED <<startup, workers, zygote>>
        /\ goal' \in {"gc", "stop"}
        /\ \A w \in Workers : alive[w] > 0
    BY DEF StartCollection, StartStopping, AllParked
  <1>2. StartInv' /\ UNCHANGED <<pc, runtimes, singleton, instance,
                                 IS_MMTK_REINITIALIZING>>
    BY <1>1, StartupUntouched DEF Inv
  <1>3. UNCHANGED <<raw, alive, saved, is_zygote_process,
                    has_zygote_space_in_art, compacted>>
    BY <1>1 DEF workers, zygote
  <1>4. WorkersTypeOK' /\ OneOwner'
    BY <1>1, <1>2, <1>3 DEF Inv, ProcInv, WorkersTypeOK, OneOwner, Owners, NoWorkersYet
  <1>5. LaterRuntimes' /\ ZygoteSpace'
    BY <1>2, <1>3 DEF Inv, ProcInv, LaterRuntimes, ZygoteSpace, Ready
  <1>6. \A w \in Workers : w \notin saved
    BY <1>1 DEF Inv, ProcInv, WorkersTypeOK, OneOwner, Owners
  <1>7. saved # Workers
    BY <1>6, WorkersAssumption
  <1>8. GoalFits'
    BY <1>1, <1>2, <1>3, <1>7 DEF Inv, ProcInv, GoalFits
  <1> QED BY <1>2, <1>4, <1>5, <1>8 DEF Inv, ProcInv

\* A collection ends, and the threads that wait for it go on.
LEMMA EndStep ==
    ASSUME Inv, EndCollection
    PROVE  Inv'
  <1> USE DEF Creating, Setting, AtSingleton, Build
  <1>1. /\ goal = "gc" /\ goal' = "none" /\ UNCHANGED <<fixed, workers, zygote>>
        /\ pc' = [t \in Threads |->
                     CASE pc[t] = "blocked" -> IF t = Main THEN "up" ELSE "idle"
                       [] pc[t] = "compacting" -> "tell_art"
                       [] OTHER -> pc[t]]
    BY DEF EndCollection
  <1>2. PICK w \in Workers : alive[w] > 0
    BY <1>1, WorkersAssumption DEF Inv, ProcInv, GoalFits
  <1>3. Ready /\ ~NoWorkersYet
    <2>1. raw[w] + alive[w] > 0
      BY <1>2 DEF Inv, ProcInv, WorkersTypeOK
    <2> QED BY <2>1, OwnedThenWorkers, WorkersExist
  <1>4. UNCHANGED <<builder, trigger_init, singleton, instance,
                    IS_MMTK_INITIALIZED, IS_MMTK_REINITIALIZING, runtime,
                    runtimes, first, panicked>>
    BY <1>1 DEF fixed, params, built, flags, art
  <1>5. \A t \in Threads : pc'[t] \in {"up", "idle", "tell_art", pc[t]}
    BY <1>1
  <1>6. DOMAIN pc' = Threads /\ pc' = [u \in Threads |-> pc'[u]]
    BY <1>1
  <1>7. StartInv'
    BY <1>3, <1>4, <1>5, <1>6, ReadyStep, ThreadNames DEF Inv
  <1>8. /\ pc[Main] = "blocked" => pc'[Main] = "up"
        /\ pc[Main] = "compacting" => pc'[Main] = "tell_art"
        /\ pc[Main] \notin {"blocked", "compacting"} => pc'[Main] = pc[Main]
    BY <1>1, ThreadNames
  <1>9. NoWorkersYet' <=> NoWorkersYet
    BY <1>4, <1>8 DEF NoWorkersYet
  <1>10. WorkersTypeOK' /\ OneOwner'
    BY <1>1, <1>9 DEF Inv, ProcInv, WorkersTypeOK, OneOwner, Owners, workers
  <1>11. LaterRuntimes' /\ GoalFits'
    BY <1>1, <1>4, <1>8 DEF Inv, ProcInv, LaterRuntimes, GoalFits, workers
  <1>12. ZygoteSpace'
    BY <1>1, <1>4, <1>8 DEF Inv, ProcInv, ZygoteSpace, Ready, zygote
  <1> QED BY <1>7, <1>10, <1>11, <1>12 DEF Inv, ProcInv

\* The Zygote asks the workers to stop: it has been compacted.
LEMMA PreForkStep ==
    ASSUME Inv, mmtk_pre_zygote_fork
    PROVE  Inv'
  <1> USE DEF Creating, Setting, AtSingleton, Build
  <1>1. Ready /\ compacted
    BY DEF mmtk_pre_zygote_fork, Inv, ProcInv, ZygoteSpace
  <1>2. /\ StartInv' /\ pc[Main] = "up" /\ pc'[Main] = "joining"
        /\ UNCHANGED <<runtimes, singleton, instance, IS_MMTK_REINITIALIZING>>
    BY <1>1, BetweenCalls, ThreadNames DEF mmtk_pre_zygote_fork
  <1>3. UNCHANGED <<raw, alive, saved, goal, is_zygote_process,
                    has_zygote_space_in_art, compacted>>
    BY DEF mmtk_pre_zygote_fork, workers, zygote
  <1>4. NoWorkersYet' <=> NoWorkersYet
    BY <1>2 DEF NoWorkersYet
  <1>5. WorkersTypeOK' /\ OneOwner'
    BY <1>3, <1>4 DEF Inv, ProcInv, WorkersTypeOK, OneOwner, Owners
  <1>6. LaterRuntimes' /\ GoalFits'
    BY <1>2, <1>3 DEF Inv, ProcInv, LaterRuntimes, GoalFits
  <1>7. ZygoteSpace'
    BY <1>1, <1>2, <1>3 DEF Inv, ProcInv, ZygoteSpace, Ready
  <1> QED BY <1>2, <1>5, <1>6, <1>7 DEF Inv, ProcInv

\* When no thread runs a worker, MMTk has every context and no goal.
LEMMA JoinStep ==
    ASSUME Inv, JoinWorkers
    PROVE  Inv'
  <1> USE DEF Creating, Setting, AtSingleton, Build
  <1>1. pc[Main] = "joining" /\ \A w \in Workers : raw[w] + alive[w] = 0
    BY DEF JoinWorkers, Goto
  <1>2. Ready /\ ~NoWorkersYet
    BY <1>1, PastCreation
  <1>3. /\ StartInv' /\ pc'[Main] = "forking"
        /\ UNCHANGED <<runtimes, singleton, instance, IS_MMTK_REINITIALIZING>>
    BY <1>2, BetweenCalls, ThreadNames DEF JoinWorkers
  <1>4. UNCHANGED <<raw, alive, saved, goal, is_zygote_process,
                    has_zygote_space_in_art, compacted>>
    BY DEF JoinWorkers, workers, sched, zygote
  <1>5. NoWorkersYet' <=> NoWorkersYet
    BY <1>1, <1>3 DEF NoWorkersYet
  <1>6. WorkersTypeOK' /\ OneOwner'
    BY <1>4, <1>5 DEF Inv, ProcInv, WorkersTypeOK, OneOwner, Owners
  <1>7. saved = Workers
    BY <1>1, <1>2 DEF Inv, ProcInv, WorkersTypeOK, OneOwner, Owners
  <1>8. goal = "none"
    <2>1. PICK w \in Workers : raw[w] + alive[w] = 0
      BY <1>1, WorkersAssumption
    <2>2. ~(alive[w] > 0)
      BY <2>1 DEF Inv, ProcInv, WorkersTypeOK
    <2> QED BY <2>2, <1>7 DEF Inv, ProcInv, WorkersTypeOK, GoalFits
  <1>9. LaterRuntimes' /\ GoalFits'
    BY <1>3, <1>4, <1>7, <1>8 DEF Inv, ProcInv, LaterRuntimes, GoalFits
  <1>10. ZygoteSpace'
    BY <1>1, <1>3, <1>4 DEF Inv, ProcInv, ZygoteSpace, Ready
  <1> QED BY <1>3, <1>6, <1>9, <1>10 DEF Inv, ProcInv

\* The fork moves threads and nothing else.
LEMMA ForkStep ==
    ASSUME Inv, NEW child \in BOOLEAN, Fork(child)
    PROVE  Inv'
  <1> USE DEF Creating, Setting, AtSingleton, Build
  <1>1. /\ pc[Main] = "forking"
        /\ pc' = [t \in Threads |->
                     IF t = Main THEN IF child THEN "specialize" ELSE "post_fork"
                     ELSE IF child THEN "idle" ELSE pc[t]]
        /\ UNCHANGED <<fixed, workers, sched, zygote>>
    BY DEF Fork
  <1>2. Ready /\ ~NoWorkersYet
    BY <1>1, PastCreation
  <1>3. UNCHANGED <<builder, trigger_init, singleton, instance,
                    IS_MMTK_INITIALIZED, IS_MMTK_REINITIALIZING, runtime,
                    runtimes, first, panicked>>
    BY <1>1 DEF fixed, params, built, flags, art
  <1>4. /\ \A t \in Threads : pc'[t] \in {"specialize", "post_fork", "idle", pc[t]}
        /\ DOMAIN pc' = Threads /\ pc' = [u \in Threads |-> pc'[u]]
    BY <1>1
  <1>5. pc'[Main] \in {"specialize", "post_fork"}
    BY <1>1, ThreadNames
  <1>6. StartInv'
    BY <1>2, <1>3, <1>4, <1>5, ReadyStep DEF Inv
  <1>7. NoWorkersYet' <=> NoWorkersYet
    BY <1>1, <1>3, <1>5 DEF NoWorkersYet
  <1>8. WorkersTypeOK' /\ OneOwner'
    BY <1>1, <1>7 DEF Inv, ProcInv, WorkersTypeOK, OneOwner, Owners, workers, sched
  <1>9. LaterRuntimes' /\ GoalFits'
    BY <1>1, <1>3, <1>5 DEF Inv, ProcInv, LaterRuntimes, GoalFits, workers, sched
  <1>10. ZygoteSpace'
    BY <1>1, <1>3, <1>5 DEF Inv, ProcInv, ZygoteSpace, Ready, zygote
  <1> QED BY <1>6, <1>8, <1>9, <1>10 DEF Inv, ProcInv

\* A child becomes an application.
LEMMA SpecializeStep ==
    ASSUME Inv, mmtk_set_is_zygote_process
    PROVE  Inv'
  <1> USE DEF Creating, Setting, AtSingleton, Build
  <1>1. pc[Main] = "specialize"
    BY DEF mmtk_set_is_zygote_process, Goto
  <1>2. Ready
    BY <1>1, PastCreation
  <1>3. /\ StartInv' /\ pc'[Main] = "post_fork"
        /\ UNCHANGED <<runtimes, singleton, instance, IS_MMTK_REINITIALIZING>>
    BY <1>2, BetweenCalls, ThreadNames DEF mmtk_set_is_zygote_process
  <1>4. /\ UNCHANGED <<raw, alive, saved, goal, has_zygote_space_in_art, compacted>>
        /\ is_zygote_process' = FALSE
    BY DEF mmtk_set_is_zygote_process, workers, sched
  <1>5. NoWorkersYet' <=> NoWorkersYet
    BY <1>1, <1>3 DEF NoWorkersYet
  <1>6. WorkersTypeOK' /\ OneOwner'
    BY <1>4, <1>5 DEF Inv, ProcInv, WorkersTypeOK, OneOwner, Owners
  <1>7. LaterRuntimes' /\ GoalFits'
    BY <1>3, <1>4 DEF Inv, ProcInv, LaterRuntimes, GoalFits
  <1>8. ZygoteSpace'
    BY <1>1, <1>3, <1>4 DEF Inv, ProcInv, ZygoteSpace, Ready
  <1> QED BY <1>3, <1>6, <1>7, <1>8 DEF Inv, ProcInv

\* The contexts that MMTk has go to new threads.
LEMMA PostForkStep ==
    ASSUME Inv, mmtk_post_zygote_fork
    PROVE  Inv'
  <1> USE DEF Creating, Setting, AtSingleton, Build
  <1>1. pc[Main] = "post_fork"
    BY DEF mmtk_post_zygote_fork, Goto
  <1>2. Ready /\ ~NoWorkersYet
    BY <1>1, PastCreation
  <1>3. /\ StartInv' /\ pc'[Main] = "up"
        /\ UNCHANGED <<runtimes, singleton, instance, IS_MMTK_REINITIALIZING>>
    BY <1>2, BetweenCalls, ThreadNames DEF mmtk_post_zygote_fork
  <1>4. /\ UNCHANGED <<alive, goal, is_zygote_process,
                       has_zygote_space_in_art, compacted>>
        /\ raw' = [w \in Workers |-> raw[w] + IF w \in saved THEN 1 ELSE 0]
        /\ saved' = {}
    BY DEF mmtk_post_zygote_fork, spawn_gc_threads, sched, zygote
  <1>5. NoWorkersYet' <=> NoWorkersYet
    BY <1>1, <1>3 DEF NoWorkersYet
  <1>6. WorkersTypeOK'
    BY <1>4 DEF Inv, ProcInv, WorkersTypeOK
  <1>7. OneOwner'
    <2> SUFFICES ASSUME NEW w \in Workers
                 PROVE  Owners(w)' = Owners(w)
      BY <1>5 DEF Inv, ProcInv, OneOwner
    <2>1. raw[w] \in Nat /\ alive[w] \in Nat
      BY DEF Inv, ProcInv, WorkersTypeOK
    <2> QED BY <2>1, <1>4 DEF Owners
  <1>8. LaterRuntimes' /\ GoalFits'
    BY <1>3, <1>4, WorkersAssumption DEF Inv, ProcInv, LaterRuntimes, GoalFits
  <1>9. ZygoteSpace'
    BY <1>1, <1>3, <1>4 DEF Inv, ProcInv, ZygoteSpace, Ready
  <1> QED BY <1>3, <1>6, <1>7, <1>8, <1>9 DEF Inv, ProcInv

\* A step that changes nothing.
LEMMA StutterStep ==
    ASSUME Inv, UNCHANGED vars
    PROVE  Inv'
  <1>1. UNCHANGED <<startup, workers, sched, zygote>>
    BY DEF vars
  <1>2. StartInv' /\ UNCHANGED <<pc, runtimes, singleton, instance,
                                 IS_MMTK_REINITIALIZING>>
    BY <1>1, StartupUntouched DEF Inv
  <1>3. ProcInv'
    BY <1>1, <1>2, WorkersAlone DEF Inv, ProcInv, LaterRuntimes, NoWorkersYet, Ready
  <1> QED BY <1>2, <1>3 DEF Inv

(***************************************************************************)
(* The theorems                                                            *)
(***************************************************************************)
\* The initial state.
LEMMA InitInv ==
    ASSUME Init
    PROVE  Inv
  <1> USE ThreadNames
  <1> USE DEF Build, Setting, AtSingleton, Creating, Ready
  <1>1. /\ pc = [t \in Threads |-> pc[t]] /\ DOMAIN pc = Threads
        /\ pc[Main] = "up" /\ \A t \in Helpers : pc[t] = "absent"
    BY DEF Init, StartupInit
  <1>2. runtimes = 0 /\ singleton = "unset" /\ IS_MMTK_INITIALIZED = FALSE
        /\ IS_MMTK_REINITIALIZING = FALSE
    BY DEF Init, StartupInit
  <1>3. builder = [zygote |-> builder.zygote, policy |-> builder.policy,
                   layout |-> builder.layout]
    BY DEF Init, StartupInit
  <1>4. StartupTypeOK
    <2>1. IS_MMTK_INITIALIZED \in BOOLEAN /\ IS_MMTK_REINITIALIZING \in BOOLEAN
      BY <1>2, Zenon
    <2>2. runtimes \in Nat /\ ~(runtimes > 0) /\ runtimes # 1
      BY <1>2, SMT
    <2> QED BY <1>1, <1>3, <2>1, <2>2, Zenon DEF StartupTypeOK
  <1>5. OneInitializer
    BY <1>1, <1>2 DEF OneInitializer
  <1>6. FirstBuilds /\ ParametersSet
    BY <1>1, <1>2 DEF FirstBuilds, ParametersSet
  <1>7. BuildProgress
    BY <1>1, <1>2 DEF BuildProgress
  <1>8. WorkersTypeOK /\ OneOwner
    BY <1>2 DEF Init, WorkersTypeOK, OneOwner, Owners, NoWorkersYet
  <1>9. LaterRuntimes /\ GoalFits /\ ZygoteSpace
    BY <1>1, <1>2 DEF Init, LaterRuntimes, GoalFits, ZygoteSpace
  <1> QED BY <1>4, <1>5, <1>6, <1>7, <1>8, <1>9 DEF Inv, StartInv, ProcInv

\* Every step of the process keeps the invariant.
LEMMA NextInv ==
    ASSUME Inv, [Next]_vars
    PROVE  Inv'
  <1>1. CASE ~panicked /\ \E s \in Sizes, z \in BOOLEAN :
                              StartupOnly(CreateRuntime(s, z))
    BY <1>1, RuntimeCreated
  <1>2. CASE ~panicked /\ \E t \in Helpers : StartupOnly(Query(t))
    BY <1>2, QueryMade
  <1>3. CASE ~panicked /\ \E t \in Threads : Call(t)
    BY <1>3, CallStep
  <1>4. CASE \E t \in Threads : mmtk_handle_user_collection_request(t)
    BY <1>4, RequestStep
  <1>5. CASE mmtk_handle_pre_first_zygote_fork_collection_request
    BY <1>5, CompactStep
  <1>6. CASE mmtk_pre_zygote_fork
    BY <1>6, PreForkStep
  <1>7. CASE MainCall
    BY <1>7, InitializeStep, TellStep, JoinStep, ForkStep, SpecializeStep,
       PostForkStep DEF MainCall
  <1>8. CASE StartCollection \/ StartStopping
    BY <1>8, GoalStep
  <1>9. CASE EndCollection
    BY <1>9, EndStep
  <1>10. CASE \E w \in Workers : Worker(w)
    BY <1>10, WorkerStep
  <1>11. CASE UNCHANGED vars
    BY <1>11, StutterStep
  <1> QED BY <1>1, <1>2, <1>3, <1>4, <1>5, <1>6, <1>7, <1>8, <1>9, <1>10,
             <1>11 DEF Next

\* The inductive invariant of a process and its startup always holds.
THEOREM Invariant == Spec => []Inv
  BY InitInv, NextInv, PTL DEF Spec

\* However the threads interleave and however many runtimes are created, the
\* instance is built from what the first runtime asked for (mmtk_set_heap_size,
\* mmtk_init and the initializer of SINGLETON).
THEOREM InstanceAsChosen == Spec => []BuiltAsChosen
  <1>1. Inv => BuiltAsChosen
    BY DEF Inv, StartInv, BuildProgress, Ready, AsChosen, BuiltAsChosen
  <1> QED BY <1>1, Invariant, PTL

\* Rounding to chunks.
LEMMA ChunkAligned ==
    ASSUME NEW a \in Nat
    PROVE  /\ chunk_align_up(a) \in Nat
           /\ a <= chunk_align_up(a) /\ chunk_align_up(a) < a + PagesInChunk
  BY DEF chunk_align_up, PagesInChunk

\* The layout of a heap that is not too large: the capacity and its slack fit
\* between its ends, and no address of it is null or needs more than 32 bits.
LEMMA LayoutFits ==
    ASSUME NEW max \in Nat, ~TooLarge(max)
    PROVE  /\ Layout(max).heap_start \in Nat /\ Layout(max).heap_end \in Nat
           /\ Layout(max).heap_start > 0
           /\ Layout(max).heap_end <= AddressSpace
           /\ Layout(max).heap_end - Layout(max).heap_start
                >= max + 5 * PagesInChunk
  <1>1. HeapStart \in {1024, 131072}
    BY StartupAssumption
  <1>2. Layout(max).heap_start = HeapStart
    BY <1>1 DEF Layout, chunk_align_down, PagesInChunk
  <1>3. Layout(max).heap_end = chunk_align_up(HeapStart + max + 5 * PagesInChunk)
    BY DEF Layout
  <1>4. HeapStart + max + 5 * PagesInChunk \in Nat /\ max <= 524288
    BY <1>1 DEF PagesInChunk, TooLarge, MaxCapacity
  <1>5. /\ Layout(max).heap_end \in Nat
        /\ HeapStart + max + 5 * PagesInChunk <= Layout(max).heap_end
        /\ Layout(max).heap_end
             < HeapStart + max + 5 * PagesInChunk + PagesInChunk
    BY <1>3, <1>4, ChunkAligned
  <1> QED BY <1>1, <1>2, <1>4, <1>5 DEF PagesInChunk, AddressSpace

\* A reference to any page of the heap, not only to those that the runs look
\* at, survives compress and decompress.
EveryPageAddressable ==
    Ready => \A a \in instance.layout.heap_start .. instance.layout.heap_end - 1 :
               decompress(compress(a)) = a

\* What the invariant says of the layout.
LEMMA ReadyLayout ==
    ASSUME Inv, Ready
    PROVE  /\ instance.layout = Layout(first.sizes.max)
           /\ instance.sizes.max = first.sizes.max
           /\ first.sizes.max \in Nat /\ ~TooLarge(first.sizes.max)
  <1>1. first.sizes \in Sizes
    BY DEF Inv, StartInv, StartupTypeOK, FirstBuilds
  <1> QED BY <1>1, StartupAssumption DEF Inv, StartInv, BuildProgress, AsChosen

LEMMA PagesAddressable == Inv => EveryPageAddressable
  <1> SUFFICES ASSUME Inv, Ready,
                      NEW a \in instance.layout.heap_start ..
                                  instance.layout.heap_end - 1
               PROVE  decompress(compress(a)) = a
    BY DEF EveryPageAddressable
  <1>1. a \in Nat /\ a > 0 /\ a < AddressSpace
    BY ReadyLayout, LayoutFits DEF AddressSpace
  <1>2. a % AddressSpace = a
    BY <1>1 DEF AddressSpace
  <1> QED BY <1>1, <1>2 DEF compress, decompress

\* The heap of an instance holds the capacity and its slack, and a slot can
\* refer to every page of it (set_vm_layout, compress and decompress).
THEOREM HeapInReach == Spec => []HeapAddressable /\ []EveryPageAddressable
  <1>1. Inv => HeapAddressable
    <2> SUFFICES ASSUME Inv, Ready
                 PROVE  HeapAddressable
      BY DEF HeapAddressable, Ready
    <2> DEFINE start == instance.layout.heap_start
               end   == instance.layout.heap_end
    <2>1. /\ start \in Nat /\ end \in Nat
          /\ end - start >= instance.sizes.max + 5 * PagesInChunk
          /\ instance.sizes.max \in Nat
      BY ReadyLayout, LayoutFits
    <2>2. {start, start + PagesInChunk, end - 1} \subseteq start .. end - 1
      BY <2>1 DEF PagesInChunk
    <2>3. \A a \in start .. end - 1 : decompress(compress(a)) = a
      BY PagesAddressable DEF EveryPageAddressable
    <2> QED BY <2>1, <2>2, <2>3 DEF HeapAddressable
  <1> QED BY <1>1, PagesAddressable, Invariant, PTL

\* Each worker context has one owner, never two (mmtk_initialize_collection,
\* spawn_gc_thread, mmtk_start_gc_worker_thread, mmtk_post_zygote_fork).
THEOREM OneOwnerEach == Spec => []ContextOwnedOnce
  <1>1. Inv => ContextOwnedOnce
    BY DEF Inv, ProcInv, OneOwner, Owners, NoWorkersYet, Creating, Setting,
           AtSingleton, Build, ContextOwnedOnce
  <1> QED BY <1>1, Invariant, PTL

\* The Zygote forks with no collection under way, all contexts in the hands of
\* MMTk, and ART knowing of the space to share (mmtk_pre_zygote_fork).
THEOREM ForksWhenAlone == Spec => []ForksAlone
  <1>1. Inv => ForksAlone
    BY DEF Inv, ProcInv, GoalFits, ZygoteSpace, ForksAlone
  <1> QED BY <1>1, Invariant, PTL
============================================================================
