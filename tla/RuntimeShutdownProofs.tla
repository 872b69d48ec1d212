----------------------- MODULE RuntimeShutdownProofs -----------------------
(***************************************************************************)
(* Proofs of the safety properties of RuntimeShutdown, for every number of *)
(* plugins, clients and instances.                                         *)
(*                                                                         *)
(* The inductive invariant is built in layers, each of which is inductive  *)
(* once those before it are: where the loader and finishClose are (Course);*)
(* what a goroutine and an instance may be doing (Places); the counters:   *)
(* calls of each gate (Gates), operations and pending creations (Counts);  *)
(* and what finishClose has finished with (Stages).                        *)
(***************************************************************************)
EXTENDS RuntimeShutdown, FiniteSetTheorems, TLAPS

(* The phases of finishClose. *)
Early == {"idle", "loading", "compiles", "moduleCloses", "terminal", "direct"}
Stopping == {"stop", "stopping", "revoking"}
Draining == {"drain", "drainGate"}
Late == {"waitDirect", "lanes", "finish", "done"}
Final == {"lanes", "finish", "done"}

Course ==
    /\ state \in {"ready", "loading", "closing", "closed"}
    /\ phase \in Early \cup Stopping \cup Draining \cup Late
    /\ k \in 0..N
    /\ phase \in {"stopping", "revoking", "drainGate"} => k > 0
    /\ phase \in {"finish", "done"} => k = 0
    /\ closing <=> phase # "idle"
    /\ closing => Closing
    /\ phase = "done" <=> state = "closed"
    /\ phase \notin {"idle", "loading"} => LoadingDone /\ runs = started
    /\ ~committed => k = 0
    /\ committed => loader \notin {"idle", "registered"}
    /\ loader \in {"starting", "failed"} => committed
    /\ ~committed => started = {} \/ phase = "done"
    /\ IsFiniteSet(started) /\ started \subseteq Plugins
    /\ \A p \in started : \E j \in 1..Cardinality(started) : p = Order[j]
    /\ loader = "starting" => Cardinality(started) < N
    /\ torn \subseteq Plugins
    /\ torn # {} => phase \in {"finish", "done"}

(* Operations that count in activeOperations, creations that count in       *)
(* pending, and uses of an instance that exists.                            *)
Operating == {"compile", "moduleClose", "instantiate", "registered", "built", "closeBuilt", "ending",
              "endingOk", "admitting", "reserving", "invoke", "returning", "returned"}
Making == {"admitted", "instantiate", "registered", "built", "ending", "endingOk", "closeBuilt",
           "adopt", "closeRejected", "rejected"}
Using == {"admitting", "reserving", "invoke", "returning", "returned", "close"}
Closers == {"close", "closeBuilt", "closeRejected"}
Reserving == {"instantiate", "registered", "built", "closeBuilt", "ending", "endingOk", "reserving",
              "invoke"}

Types ==
    /\ DOMAIN op = Threads /\ on \in [Threads -> Instances \cup {Nobody}]
    /\ reserved \in [Threads -> SUBSET Plugins]
    /\ inside \in [Threads -> Plugins \cup {Nobody}]
    /\ leaseOn \in [Threads -> {Order[1], Nobody}]
    /\ DOMAIN inst = Instances /\ leases \in [Instances -> Int]
    /\ hook \in [Instances -> 0..N] /\ DOMAIN lane = Instances
    /\ DOMAIN runner = Instances /\ adopted \subseteq Managed

(* What a goroutine holds where it is. *)
Holds(t) ==
    /\ op[t] \in Making \cup Using => on[t] \in Instances
    /\ t = Shutdown => op[t] \in {"idle", "close"}
    /\ op[t] \notin Reserving => reserved[t] = {}
    /\ op[t] \notin Working => inside[t] = Nobody
    /\ leaseOn[t] # Nobody => inside[t] \notin {Nobody, Order[1]}
    /\ op[t] = "reserving" => \A p \in reserved[t] : \E j \in 1..Cardinality(reserved[t]) : p = Order[j]
    /\ ~committed /\ phase # "done" => reserved[t] = {} /\ inside[t] = Nobody
    /\ op[t] \in {"adopt", "admitted", "closeRejected", "rejected"} => on[t] \in Managed

(* What that says about its instance; one that its manager has not adopted   *)
(* is its creator's alone.                                                  *)
Acts(t) ==
    /\ op[t] \in Closers => inst[on[t]] = "preparing"
    /\ op[t] \in {"admitted", "instantiate"} => inst[on[t]] = "none"
    /\ op[t] \in Making => on[t] \notin adopted
    /\ op[t] \in Using /\ on[t] \in Managed => on[t] \in adopted
    /\ op[t] \in Making /\ on[t] \in Managed =>
          /\ op[t] = "registered" => inst[on[t]] = "open" /\ leases[on[t]] = 1
          /\ op[t] \in {"built", "endingOk", "adopt"} => inst[on[t]] = "open" /\ leases[on[t]] = 0
          /\ op[t] \in {"closeBuilt", "closeRejected"} => leases[on[t]] = 0
          /\ op[t] = "ending" => inst[on[t]] \in {"none", "done"} \/ runner[on[t]] = t

Alone(t, u) ==
    /\ op[t] \in Making /\ op[u] \in Making /\ on[t] = on[u] => t = u
    /\ op[t] \in Closers /\ op[u] \in Closers /\ on[t] = on[u] => t = u

Instance(i) ==
    /\ lane[i] \in {"none", "terminal", "ordinary"}
    /\ lane[i] # "none" => inst[i] = "hooks" /\ hook[i] > 0
    /\ i \in Managed \ adopted /\ inst[i] \notin {"none", "done"} =>
          \E t \in Clients : op[t] \in Making /\ on[t] = i
    /\ i \in adopted => inst[i] # "none"
    /\ ~committed /\ phase # "done" => hook[i] = 0 /\ (i \in Managed => inst[i] = "none")
    /\ ~committed /\ phase # "done" /\ i \in Managed => \A t \in Threads : on[t] # i

Places ==
    /\ Types
    /\ \A t \in Threads : Holds(t) /\ Acts(t)
    /\ \A t, u \in Threads : Alone(t, u)
    /\ \A i \in Instances : Instance(i)

(* Who is counted in the calls of a gate. *)
Users(p) ==
    {t \in Threads : p \in reserved[t] \/ inside[t] = p}
        \cup {i \in Instances : lane[i] = "ordinary" /\ Order[hook[i]] = p}

Gate(p) ==
    /\ calls[p] = Cardinality(Users(p))
    /\ drained[p] => shut[p] /\ calls[p] = 0

Gates ==
    /\ DOMAIN calls = Plugins /\ DOMAIN shut = Plugins /\ DOMAIN drained = Plugins
    /\ DOMAIN terminal = Plugins
    /\ \A p \in Plugins : Gate(p)

Operators == {t \in Clients : op[t] \in Operating}
Makers(p) == {t \in Clients : op[t] \in Making /\ on[t] \in Managed /\ Owner[on[t]] = p}

Counts ==
    /\ operations = Cardinality(Operators)
    /\ DOMAIN pending = Plugins
    /\ \A p \in Plugins : pending[p] = Cardinality(Makers(p))

(* What finishClose has done with the j-th plugin. *)
OpenedTo(j) ==
    \/ phase = "terminal" /\ j > k
    \/ phase \in {"direct", "waitDirect"} \cup Stopping \cup Draining

StoppedTo(j) ==
    \/ phase \in Stopping /\ j > k
    \/ phase \in Draining \cup Late

DrainedTo(j) ==
    \/ phase \in Draining /\ j > k
    \/ phase \in Late

Past(j) ==
    /\ OpenedTo(j) /\ committed => terminal[Order[j]]
    /\ shut[Order[j]] => phase \notin Early
    /\ Order[j] \in stopped => StoppedTo(j) \/ (phase = "revoking" /\ j = k)
    /\ StoppedTo(j) \/ (phase \in {"stopping", "revoking"} /\ j = k) =>
          (committed => shut[Order[j]] /\ Order[j] \in managerClosed)
    /\ StoppedTo(j) \/ (phase = "revoking" /\ j = k) =>
          /\ committed => Order[j] \in revoked
          /\ Order[j] \in started => Order[j] \in stopped

(* What a goroutine no longer does then, ... *)
Parted(t) ==
    /\ \A j \in 1..N :
          /\ StoppedTo(j) /\ inside[t] = Order[j] => leaseOn[t] = Nobody
          /\ DrainedTo(j) \/ (phase = "drainGate" /\ j = k) =>
                (t \in Clients /\ op[t] \in Making /\ on[t] \in Managed => Owner[on[t]] # Order[j])
          /\ DrainedTo(j) => inside[t] # Order[j] /\ Order[j] \notin reserved[t]
    /\ phase \in Late /\ t \in Clients /\ op[t] \in Operating => op[t] = "admitting" /\ on[t] \in Managed

(* ... and the instances that are over. *)
Ended(i) ==
    /\ \A j \in 1..N : DrainedTo(j) /\ i \in Managed /\ Owner[i] = Order[j] => inst[i] \in {"none", "done"}
    /\ phase \in Final /\ i \in Direct => inst[i] \in {"none", "done"}

Stages ==
    /\ \A j \in 1..N : Past(j)
    /\ \A t \in Threads : Parted(t)
    /\ \A i \in Instances : Ended(i)
    /\ stopped \subseteq Plugins

IInv == Course /\ Places /\ Gates /\ Counts /\ Stages

-----------------------------------------------------------------------------
(* The order of the plugins, and counting. *)

LEMMA OrderFacts ==
    /\ N \in Nat /\ N >= 1 /\ 1 \in 1..N
    /\ \A j \in 1..N : Order[j] \in Plugins
    /\ IsFiniteSet(Plugins) /\ Cardinality(Plugins) = N
<1> N \in Nat /\ N >= 1 /\ Order \in [1..N -> Plugins]
  BY OrderAssumption DEF N
<1> Order \in Injection(1..N, Plugins)
  BY OrderAssumption DEF Injection, IsInjective
<1> Order \in Surjection(1..N, Plugins)
  BY OrderAssumption DEF Surjection
<1> IsFiniteSet(1..N) /\ Cardinality(1..N) = N
  BY FS_Interval
<1> IsFiniteSet(Plugins) /\ Cardinality(Plugins) = N
  BY FS_Surjection
<1> QED
  OBVIOUS

LEMMA BoundFacts ==
    /\ committed => Bound = Plugins /\ Cardinality(Bound) = N
    /\ ~committed => Bound = {} /\ Cardinality(Bound) = 0
    /\ Bound \subseteq Plugins /\ Cardinality(Bound) \in 0..N
BY OrderFacts, FS_EmptySet DEF Bound

\* The first plugins of the order, and the next one.
LEMMA NextInOrder ==
    ASSUME NEW S \in SUBSET Plugins, \A p \in S : \E j \in 1..Cardinality(S) : p = Order[j]
    PROVE  /\ IsFiniteSet(S) /\ Cardinality(S) \in Nat
           /\ S # Plugins => Cardinality(S) < N
           /\ Cardinality(S) < N =>
                /\ Order[Cardinality(S) + 1] \in Plugins \ S
                /\ IsFiniteSet(S \cup {Order[Cardinality(S) + 1]})
                /\ Cardinality(S \cup {Order[Cardinality(S) + 1]}) = Cardinality(S) + 1
                /\ \A p \in S \cup {Order[Cardinality(S) + 1]} :
                      \E j \in 1..(Cardinality(S) + 1) : p = Order[j]
<1> IsFiniteSet(S) /\ Cardinality(S) \in Nat /\ (S # Plugins => Cardinality(S) < N)
  BY OrderFacts, FS_Subset, FS_CardinalityType
<1>2. ASSUME Cardinality(S) < N
      PROVE  /\ Order[Cardinality(S) + 1] \in Plugins \ S
             /\ \A p \in S \cup {Order[Cardinality(S) + 1]} :
                   \E j \in 1..(Cardinality(S) + 1) : p = Order[j]
  <2> Cardinality(S) + 1 \in 1..N /\ 1..Cardinality(S) \subseteq 1..N
    BY <1>2, OrderFacts
  <2> Order[Cardinality(S) + 1] \in Plugins
    BY OrderFacts
  <2> Order[Cardinality(S) + 1] \notin S
    <3> SUFFICES ASSUME Order[Cardinality(S) + 1] \in S
                 PROVE  FALSE
      OBVIOUS
    <3> PICK j \in 1..Cardinality(S) : Order[Cardinality(S) + 1] = Order[j]
      OBVIOUS
    <3> j = Cardinality(S) + 1
      BY Zenon, OrderAssumption
    <3> QED
      OBVIOUS
  <2> 1..Cardinality(S) \subseteq 1..(Cardinality(S) + 1)
    OBVIOUS
  <2> Cardinality(S) + 1 \in 1..(Cardinality(S) + 1)
    OBVIOUS
  <2> QED
    OBVIOUS
<1> /\ IsFiniteSet(S \cup {Order[Cardinality(S) + 1]})
    /\ Order[Cardinality(S) + 1] \notin S =>
         Cardinality(S \cup {Order[Cardinality(S) + 1]}) = Cardinality(S) + 1
  BY FS_AddElement
<1> QED
  BY <1>2

LEMMA KindsFacts ==
    /\ IsFiniteSet(Threads) /\ IsFiniteSet(Threads \cup Instances)
    /\ Shutdown \in Threads /\ Shutdown \notin Clients /\ Clients \subseteq Threads
    /\ \A t \in Threads : t \in Clients \/ t = Shutdown
    /\ Nobody \notin Plugins /\ Nobody \notin Instances /\ Nobody \notin Threads
    /\ \A i : i \in Direct => i \notin Managed
    /\ Managed \subseteq Instances /\ Direct \subseteq Instances /\ Nobody \notin Managed
    /\ \A i \in Managed : Owner[i] \in Plugins
<1> IsFiniteSet(Threads)
  BY KindsAssumption, FS_AddElement DEF Threads
<1> IsFiniteSet(Threads \cup Instances)
  BY Zenon, KindsAssumption, FS_Union
<1> \A i \in Managed : Owner[i] \in Plugins
  BY OrderAssumption
<1> QED
  BY Zenon, KindsAssumption DEF Threads, Instances

\* A set of goroutines and instances that gains, loses or keeps its members.
LEMMA Counting ==
    ASSUME NEW S \in SUBSET (Threads \cup Instances), NEW T \in SUBSET (Threads \cup Instances)
    PROVE  /\ Cardinality(S) \in Nat /\ (Cardinality(S) = 0 <=> S = {})
           /\ \A x : x \notin S /\ T = S \cup {x} => Cardinality(T) = Cardinality(S) + 1
           /\ \A x : x \in S /\ T = S \ {x} => Cardinality(T) = Cardinality(S) - 1
<1> IsFiniteSet(S) /\ Cardinality(S) \in Nat
  BY KindsFacts, FS_Subset, FS_CardinalityType
<1> Cardinality(S) = 0 <=> S = {}
  BY FS_EmptySet
<1> \A x : x \notin S /\ T = S \cup {x} => Cardinality(T) = Cardinality(S) + 1
  BY FS_AddElement
<1> \A x : x \in S /\ T = S \ {x} => Cardinality(T) = Cardinality(S) - 1
  BY SMTT(30), FS_RemoveElement
<1> QED
  OBVIOUS

-----------------------------------------------------------------------------
(* Where the loader and finishClose are: one lemma per step. *)

LEMMA BeginPluginLoadCourse ==
    ASSUME Course, BeginPluginLoad
    PROVE  Course'
BY OrderFacts, BoundFacts DEF BeginPluginLoad, Course, Closing, LoadingDone, Early,
    Stopping, Draining, Late, runtime, worker, unchangedByWorker

LEMMA CommitPluginPlanCourse ==
    ASSUME Course, CommitPluginPlan
    PROVE  Course'
BY OrderFacts, BoundFacts DEF CommitPluginPlan, Course, Closing, LoadingDone, Early,
    Stopping, Draining, Late, runtime, worker, unchangedByWorker

LEMMA FinishPluginLoadCourse ==
    ASSUME Course, FinishPluginLoad
    PROVE  Course'
BY OrderFacts, BoundFacts DEF FinishPluginLoad, Course, Closing, LoadingDone, Early,
    Stopping, Draining, Late, runtime, worker, unchangedByWorker

LEMMA BeginFailedPluginRollbackCourse ==
    ASSUME Course, BeginFailedPluginRollback
    PROVE  Course'
BY OrderFacts, BoundFacts DEF BeginFailedPluginRollback, Course, Closing, LoadingDone, Early,
    Stopping, Draining, Late, runtime, worker, unchangedByWorker

LEMMA RollbackCommittedPluginPlanCourse ==
    ASSUME Course, RollbackCommittedPluginPlan
    PROVE  Course'
BY OrderFacts, BoundFacts DEF RollbackCommittedPluginPlan, PublishClose, Course, Closing, LoadingDone, Early,
    Stopping, Draining, Late, runtime, worker, unchangedByWorker

LEMMA FinishRollbackCourse ==
    ASSUME Course, FinishRollback
    PROVE  Course'
BY OrderFacts, BoundFacts DEF FinishRollback, Course, Closing, LoadingDone, Early,
    Stopping, Draining, Late, runtime, worker, unchangedByWorker

LEMMA CloseCourse ==
    ASSUME Course, Close
    PROVE  Course'
BY OrderFacts, BoundFacts DEF Close, PublishClose, Course, Closing, LoadingDone, Early,
    Stopping, Draining, Late, runtime, worker, unchangedByWorker

LEMMA SnapshotCloseCourse ==
    ASSUME Course, SnapshotClose
    PROVE  Course'
BY OrderFacts, BoundFacts DEF SnapshotClose, Advance, Course, Closing, LoadingDone, Early,
    Stopping, Draining, Late, runtime, worker, unchangedByWorker

LEMMA DrainCallbacksCourse ==
    ASSUME Course, DrainCallbacks
    PROVE  Course'
BY OrderFacts, BoundFacts DEF DrainCallbacks, Advance, Course, Closing, LoadingDone, Early,
    Stopping, Draining, Late, runtime, worker, unchangedByWorker

LEMMA OpenTerminalLaneCourse ==
    ASSUME Course, OpenTerminalLane
    PROVE  Course'
BY OrderFacts, BoundFacts DEF OpenTerminalLane, At, Course, Closing, LoadingDone, Early,
    Stopping, Draining, Late, runtime, worker, unchangedByWorker

LEMMA CloseDirectCourse ==
    ASSUME Course, CloseDirect
    PROVE  Course'
BY OrderFacts, BoundFacts DEF CloseDirect, Advance, Course, Closing, LoadingDone, Early,
    Stopping, Draining, Late, runtime, worker, unchangedByWorker

LEMMA StopAdmissionCourse ==
    ASSUME Course, StopAdmission
    PROVE  Course'
BY OrderFacts, BoundFacts DEF StopAdmission, At, Course, Closing, LoadingDone, Early,
    Stopping, Draining, Late, runtime, worker, unchangedByWorker

LEMMA StopPluginCourse ==
    ASSUME Course, StopPlugin
    PROVE  Course'
BY OrderFacts, BoundFacts DEF StopPlugin, Course, Closing, LoadingDone, Early,
    Stopping, Draining, Late, runtime, worker, unchangedByWorker

LEMMA RevokeContractsCourse ==
    ASSUME Course, RevokeContracts
    PROVE  Course'
BY OrderFacts, BoundFacts DEF RevokeContracts, Course, Closing, LoadingDone, Early,
    Stopping, Draining, Late, runtime, worker, unchangedByWorker

LEMMA AllStoppedCourse ==
    ASSUME Course, AllStopped
    PROVE  Course'
BY OrderFacts, BoundFacts DEF AllStopped, Advance, Course, Closing, LoadingDone, Early,
    Stopping, Draining, Late, runtime, worker, unchangedByWorker

LEMMA DrainManagerCourse ==
    ASSUME Course, DrainManager
    PROVE  Course'
BY OrderFacts, BoundFacts DEF DrainManager, At, Course, Closing, LoadingDone, Early,
    Stopping, Draining, Late, runtime, worker, unchangedByWorker

LEMMA DrainGateCourse ==
    ASSUME Course, DrainGate
    PROVE  Course'
BY OrderFacts, BoundFacts DEF DrainGate, Course, Closing, LoadingDone, Early,
    Stopping, Draining, Late, runtime, worker, unchangedByWorker

LEMMA DrainOperationsCourse ==
    ASSUME Course, DrainOperations
    PROVE  Course'
BY OrderFacts, BoundFacts DEF DrainOperations, Advance, Course, Closing, LoadingDone, Early,
    Stopping, Draining, Late, runtime, worker, unchangedByWorker

LEMMA CloseTerminalLaneCourse ==
    ASSUME Course, CloseTerminalLane
    PROVE  Course'
BY OrderFacts, BoundFacts DEF CloseTerminalLane, At, Course, Closing, LoadingDone, Early,
    Stopping, Draining, Late, runtime, worker, unchangedByWorker

LEMMA FinishPluginRunsCourse ==
    ASSUME Course, FinishPluginRuns
    PROVE  Course'
BY OrderFacts, BoundFacts DEF FinishPluginRuns, Course, Closing, LoadingDone, Early,
    Stopping, Draining, Late, runtime, worker, unchangedByWorker

LEMMA PublishClosedCourse ==
    ASSUME Course, PublishClosed
    PROVE  Course'
BY OrderFacts, BoundFacts DEF PublishClosed, Course, Closing, LoadingDone, Early,
    Stopping, Draining, Late, runtime, worker, unchangedByWorker

\* One more plugin is marked for Stop.
LEMMA StartPluginCourse ==
    ASSUME Course, StartPlugin
    PROVE  Course'
<1>1. /\ started \in SUBSET Plugins /\ Cardinality(started) < N
      /\ \A p \in started : \E j \in 1..Cardinality(started) : p = Order[j]
  BY DEF Course, StartPlugin
<1>2. /\ started' \subseteq Plugins /\ IsFiniteSet(started')
      /\ Cardinality(started') = Cardinality(started) + 1 /\ Cardinality(started) \in Nat
      /\ \A p \in started' : \E j \in 1..Cardinality(started') : p = Order[j]
  BY <1>1, NextInOrder DEF StartPlugin
<1>3. loader' = "starting" => Cardinality(started') < N
  BY <1>1, <1>2, OrderFacts DEF StartPlugin
<1>4. phase \in {"idle", "loading"} /\ committed
  BY DEF StartPlugin, Course, LoadingDone
<1>5. /\ UNCHANGED <<state, committed, closing, phase, k, runs, torn>>
      /\ loader' \in {"failed", "starting", "finishing"}
  BY DEF StartPlugin, worker
<1>6. QED
  BY <1>2, <1>3, <1>4, <1>5 DEF Course, Closing

LEMMA InitCourse ==
    ASSUME Init
    PROVE  Course
BY OrderFacts, FS_EmptySet DEF Init, Course, Closing, LoadingDone, Early, Stopping, Draining, Late

\* The plugin that finishClose is at.
LEMMA AtPlugin ==
    ASSUME Course, k > 0 \/ phase \in {"stopping", "revoking", "drainGate"}
    PROVE  k \in 1..N /\ Order[k] \in Plugins
<1> k \in 1..N
  BY OrderFacts DEF Course
<1> QED
  BY OrderFacts

\* The plugin whose hook an instance is at.
LEMMA HookPlugin ==
    ASSUME Types, NEW i \in Instances, hook[i] > 0
    PROVE  Order[hook[i]] \in Plugins /\ hook[i] - 1 \in 0..N /\ hook[i] # 0
<1> hook[i] \in 1..N
  BY OrderFacts DEF Types
<1> QED
  BY OrderFacts

\* From here on a leaf is Zenon's, unless it names SMT.
USE ZenonT(10)

-----------------------------------------------------------------------------
(* Frames: what a step has to show of its own goroutine and instance for the *)
(* invariant to hold of all of them.                                         *)

course == <<state, loader, started, committed, closing, phase, k, runs, torn>>
stage == <<course, stopped, managerClosed, revoked, shut, terminal>>

(* Only goroutine t moves, ... *)
Others(t) ==
    \A u \in Threads : u # t =>
        /\ op'[u] = op[u] /\ on'[u] = on[u] /\ reserved'[u] = reserved[u]
        /\ inside'[u] = inside[u] /\ leaseOn'[u] = leaseOn[u]

(* ... and only instance i changes.  *)
Alike(i) ==
    /\ \A j \in Instances : j # i =>
          inst'[j] = inst[j] /\ leases'[j] = leases[j] /\ hook'[j] = hook[j] /\ runner'[j] = runner[j]
    /\ UNCHANGED <<lane, adopted>>

(* A goroutine creates or closes an instance alone, and leaves one that it   *)
(* creates only as its manager's or when it is over.                         *)
Careful(t) ==
    /\ op'[t] \in Making =>
          \/ op[t] \in Making /\ on'[t] = on[t]
          \/ \A u \in Threads : op[u] \in Making => on[u] # on'[t]
    /\ op'[t] \in Closers =>
          \/ op[t] \in Closers /\ on'[t] = on[t]
          \/ \A u \in Threads : op[u] \in Closers => on[u] # on'[t]
    /\ op[t] \in Making /\ on[t] \in Managed \ adopted /\ inst[on[t]] \notin {"none", "done"} =>
          op'[t] \in Making /\ on'[t] = on[t]
    /\ ~committed /\ phase # "done" => on'[t] = on[t] \/ on'[t] \notin Managed

(* The changes of an instance outside of its terminal phase: it is made by   *)
(* its creator, prepared by its closer and, until adopted, its creator's.    *)
Touched(t, i) ==
    /\ inst[i] # "hooks" \/ (inst'[i] = inst[i] /\ hook'[i] = hook[i])
    /\ inst[i] = "none" => inst'[i] = "none" \/ (op[t] \in Making /\ on[t] = i)
    /\ inst[i] = "preparing" => inst'[i] = "preparing" \/ (op[t] \in Closers /\ on[t] = i)
    /\ inst'[i] = "none" => inst[i] = "none"
    /\ i \in Managed \ adopted =>
          t \in Clients /\ op[t] \in Making /\ on[t] = i /\ op'[t] \in Making /\ on'[t] = i
    /\ hook'[i] \in {hook[i], Cardinality(Bound)}

LEMMA CourseFrame ==
    ASSUME Course, UNCHANGED course
    PROVE  Course'
BY SMTT(30) DEF Course, course, Closing, LoadingDone

LEMMA PlacesFrame ==
    ASSUME Places, UNCHANGED <<op, on, reserved, inside, leaseOn, instances>>,
           ~committed' /\ phase' # "done" => ~committed /\ phase # "done"
    PROVE  Places'
<1> UNCHANGED <<op, on, reserved, inside, leaseOn, inst, leases, hook, lane, runner, adopted>>
  BY DEF instances
<1> Types'
  BY DEF Places, Types
<1> \A t \in Threads : Holds(t)' /\ Acts(t)'
  BY SMTT(30) DEF Places, Holds, Acts
<1> \A t, u \in Threads : Alone(t, u)'
  BY DEF Places, Alone
<1> ASSUME NEW i \in Instances
    PROVE  Instance(i)'
  <2> Instance(i)
    BY DEF Places
  <2> QED
    BY DEF Instance
<1> QED
  BY DEF Places

\* Two goroutines are still not both at the same instance.
LEMMA StillAlone ==
    ASSUME Places, NEW t \in Threads, Others(t), Careful(t), NEW u \in Threads, NEW v \in Threads
    PROVE  Alone(u, v)'
<1> Alone(u, v)
  BY DEF Places
<1> CASE u = v
  BY DEF Alone
<1> CASE u # t /\ v # t
  BY DEF Alone, Others
<1> CASE u = t /\ v # t
  BY DEF Alone, Others, Careful
<1> CASE u # t /\ v = t
  BY DEF Alone, Others, Careful
<1> QED
  OBVIOUS

\* An instance that does not change, when goroutine t moves.
LEMMA StillInstance ==
    ASSUME Places, NEW t \in Threads, Others(t), Careful(t), NEW i \in Instances,
           inst'[i] = inst[i], hook'[i] = hook[i], lane'[i] = lane[i], UNCHANGED adopted,
           committed' = committed, phase' = "done" <=> phase = "done"
    PROVE  Instance(i)'
<1> Instance(i)
  BY DEF Places
<1> i \in Managed \ adopted /\ inst[i] \notin {"none", "done"} =>
      \E u \in Clients : op'[u] \in Making /\ on'[u] = i
  <2> SUFFICES ASSUME i \in Managed \ adopted, inst[i] \notin {"none", "done"}
               PROVE  \E u \in Clients : op'[u] \in Making /\ on'[u] = i
    OBVIOUS
  <2> PICK u \in Clients : op[u] \in Making /\ on[u] = i
    BY DEF Instance
  <2> u \in Threads
    BY DEF Threads
  <2> op'[u] \in Making /\ on'[u] = i
    BY DEF Others, Careful
  <2> QED
    OBVIOUS
<1> ~committed /\ phase # "done" /\ i \in Managed => \A u \in Threads : on'[u] # i
  BY DEF Instance, Others, Careful
<1> QED
  BY DEF Instance

LEMMA CalmPlaces ==
    ASSUME Places, UNCHANGED <<course, instances>>, Types', NEW t \in Threads, Others(t),
           Holds(t)', Acts(t)', Careful(t)
    PROVE  Places'
<1> UNCHANGED <<committed, phase, inst, leases, hook, lane, runner, adopted>>
  BY DEF course, instances
<1> ASSUME NEW u \in Threads, u # t
    PROVE  Holds(u)' /\ Acts(u)'
  <2> /\ op'[u] = op[u] /\ on'[u] = on[u] /\ reserved'[u] = reserved[u] /\ inside'[u] = inside[u]
      /\ leaseOn'[u] = leaseOn[u] /\ Holds(u) /\ Acts(u)
    BY DEF Others, Places
  <2> Holds(u)'
    BY DEF Holds
  <2> QED
    BY DEF Acts
<1> \A u, v \in Threads : Alone(u, v)'
  BY StillAlone
<1> \A i \in Instances : Instance(i)'
  BY StillInstance
<1> QED
  BY DEF Places

LEMMA TouchPlaces ==
    ASSUME Places, UNCHANGED committed, phase' = "done" <=> phase = "done", Types',
           NEW t \in Threads, NEW i \in Instances, Others(t), Alike(i),
           Holds(t)', Acts(t)', Careful(t), Touched(t, i)
    PROVE  Places'
<1> UNCHANGED <<lane, adopted>>
  BY DEF Alike
<1> ASSUME NEW u \in Threads, u # t
    PROVE  Holds(u)' /\ Acts(u)'
  <2> /\ op'[u] = op[u] /\ on'[u] = on[u] /\ reserved'[u] = reserved[u] /\ inside'[u] = inside[u]
      /\ leaseOn'[u] = leaseOn[u] /\ Holds(u) /\ Acts(u) /\ Alone(t, u)
    BY DEF Others, Places
  <2> Holds(u)'
    BY DEF Holds
  <2> CASE on[u] = i
    <3> op[u] \in Closers => inst'[i] = "preparing"
      BY DEF Acts, Alone, Touched
    <3> op[u] \in {"admitted", "instantiate"} => inst'[i] = "none"
      BY DEF Acts, Alone, Touched, Making
    <3> ~(op[u] \in Making /\ i \in Managed)
      BY DEF Acts, Alone, Touched
    <3> QED
      BY DEF Acts
  <2> CASE on[u] # i
    <3> op[u] \in Making \cup Using =>
          inst'[on[u]] = inst[on[u]] /\ leases'[on[u]] = leases[on[u]] /\ runner'[on[u]] = runner[on[u]]
      BY DEF Holds, Alike
    <3> QED
      BY DEF Acts, Making, Using, Closers
  <2> QED
    OBVIOUS
<1> \A u, v \in Threads : Alone(u, v)'
  BY StillAlone
<1> \A j \in Instances : j # i => Instance(j)'
  BY StillInstance DEF Alike
<1> Instance(i)'
  <2> Instance(i)
    BY DEF Places
  <2> lane[i] # "none" => inst'[i] = "hooks" /\ hook'[i] > 0
    BY DEF Instance, Touched
  <2> i \in adopted => inst'[i] # "none"
    BY DEF Instance, Touched
  <2> i \in Managed \ adopted => \E u \in Clients : op'[u] \in Making /\ on'[u] = i
    BY DEF Touched
  <2> ~committed /\ phase # "done" =>
        hook'[i] = 0 /\ (i \in Managed => inst'[i] = "none" /\ \A u \in Threads : on'[u] # i)
    BY BoundFacts DEF Instance, Touched, Others, Careful
  <2> QED
    BY DEF Instance
<1> QED
  BY DEF Places

\* The creators and the closers of an instance that has none of its own.
LEMMA NotCreating ==
    ASSUME Places, NEW i \in Instances, ~Creating(i)
    PROVE  /\ \A u \in Threads : op[u] \in Making => on[u] # i
           /\ i \in Managed /\ inst[i] # "none" => i \in adopted
<1> \A u \in Clients : op[u] \in Making => on[u] # i
  BY DEF Creating, Making
<1> op[Shutdown] \notin Making
  BY KindsFacts DEF Places, Holds, Making
<1> QED
  BY DEF Creating, Threads

-----------------------------------------------------------------------------
(* Gates: a gate counts the goroutines and hooks inside of it. *)

LEMMA UsersKinds ==
    \A p : /\ Users(p) \in SUBSET (Threads \cup Instances)
           /\ Users(p)' \in SUBSET (Threads \cup Instances)
BY DEF Users

\* enter: one more user of each of these gates.
LEMMA GatesEnter ==
    ASSUME Gates, NEW ps, NEW x, UNCHANGED <<shut, drained, terminal>>, DOMAIN calls' = Plugins,
           \A p \in Plugins : p \in ps => ~shut[p] /\ calls'[p] = calls[p] + 1,
           \A p \in Plugins : p \notin ps => calls'[p] = calls[p],
           \A p \in Plugins : p \in ps => x \notin Users(p) /\ Users(p)' = Users(p) \cup {x},
           \A p \in Plugins : p \notin ps => Users(p)' = Users(p)
    PROVE  Gates'
<1> ASSUME NEW p \in Plugins
    PROVE  Gate(p)'
  <2> Gate(p)
    BY DEF Gates
  <2> CASE p \in ps
    <3> Cardinality(Users(p)') = Cardinality(Users(p)) + 1
      BY UsersKinds, Counting
    <3> QED
      BY DEF Gate
  <2> CASE p \notin ps
    BY DEF Gate
  <2> QED
    OBVIOUS
<1> QED
  BY DEF Gates

\* release: one user less.
LEMMA GatesLeave ==
    ASSUME Gates, NEW ps, Leave(ps), NEW x,
           \A p \in Plugins : p \in ps => x \in Users(p) /\ Users(p)' = Users(p) \ {x},
           \A p \in Plugins : p \notin ps => Users(p)' = Users(p)
    PROVE  Gates'
<1> /\ DOMAIN calls' = Plugins /\ DOMAIN drained' = Plugins /\ UNCHANGED <<shut, terminal>>
    /\ \A p \in Plugins : p \in ps => calls'[p] = calls[p] - 1
    /\ \A p \in Plugins : p \notin ps => calls'[p] = calls[p]
    /\ \A p \in Plugins : drained'[p] <=> drained[p] \/ (p \in ps /\ shut[p] /\ calls[p] = 1)
  BY DEF Leave
<1> ASSUME NEW p \in Plugins
    PROVE  Gate(p)'
  <2> Gate(p)
    BY DEF Gates
  <2> CASE p \in ps
    <3> /\ Cardinality(Users(p)') = Cardinality(Users(p)) - 1 /\ Cardinality(Users(p)) \in Nat
        /\ Cardinality(Users(p)) # 0
      BY UsersKinds, Counting
    <3> calls[p] = Cardinality(Users(p)) /\ ~drained[p]
      BY DEF Gate
    <3> calls'[p] = Cardinality(Users(p)')
      OBVIOUS
    <3> drained'[p] => shut'[p] /\ calls'[p] = 0
      BY SMTT(30)
    <3> QED
      BY DEF Gate
  <2> CASE p \notin ps
    <3> calls'[p] = calls[p] /\ Users(p)' = Users(p) /\ (drained'[p] <=> drained[p]) /\ shut'[p] = shut[p]
      OBVIOUS
    <3> QED
      BY DEF Gate
  <2> QED
    OBVIOUS
<1> QED
  BY DEF Gates

(* Goroutine t is a user of the gates of its reservation and of its callback. *)
Uses(t, p) == p \in reserved[t] \/ inside[t] = p

LEMMA OneUser ==
    ASSUME NEW t \in Threads, Others(t), UNCHANGED <<lane, hook>>, NEW p
    PROVE  /\ t \in Users(p) <=> Uses(t, p)
           /\ t \in Users(p)' <=> Uses(t, p)'
           /\ \A x : x # t => (x \in Users(p)' <=> x \in Users(p))
<1> t \notin Instances
  BY KindsAssumption
<1> (t \in Users(p) <=> Uses(t, p)) /\ (t \in Users(p)' <=> Uses(t, p)')
  BY DEF Users, Uses
<1> \A x : x # t => (x \in Users(p)' <=> x \in Users(p))
  BY DEF Users, Others
<1> QED
  OBVIOUS

LEMMA TakesUp ==
    ASSUME Gates, NEW t \in Threads, Others(t), UNCHANGED <<lane, hook>>, NEW ps,
           UNCHANGED <<shut, drained, terminal>>, DOMAIN calls' = Plugins,
           \A p \in Plugins : p \in ps => ~shut[p] /\ calls'[p] = calls[p] + 1,
           \A p \in Plugins : p \notin ps => calls'[p] = calls[p],
           \A p \in Plugins : p \in ps => ~Uses(t, p) /\ Uses(t, p)',
           \A p \in Plugins : p \notin ps => (Uses(t, p)' <=> Uses(t, p))
    PROVE  Gates'
<1> ASSUME NEW p \in Plugins
    PROVE  /\ p \in ps => t \notin Users(p) /\ Users(p)' = Users(p) \cup {t}
           /\ p \notin ps => Users(p)' = Users(p)
  <2> /\ t \in Users(p) <=> Uses(t, p)
      /\ t \in Users(p)' <=> Uses(t, p)'
      /\ \A x : x # t => (x \in Users(p)' <=> x \in Users(p))
    BY OneUser
  <2> QED
    BY SMTT(30)
<1> QED
  BY GatesEnter

LEMMA GivesBack ==
    ASSUME Gates, NEW t \in Threads, Others(t), UNCHANGED <<lane, hook>>, NEW ps, Leave(ps),
           \A p \in Plugins : p \in ps => Uses(t, p) /\ ~Uses(t, p)',
           \A p \in Plugins : p \notin ps => (Uses(t, p)' <=> Uses(t, p))
    PROVE  Gates'
<1> ASSUME NEW p \in Plugins
    PROVE  /\ p \in ps => t \in Users(p) /\ Users(p)' = Users(p) \ {t}
           /\ p \notin ps => Users(p)' = Users(p)
  <2> /\ t \in Users(p) <=> Uses(t, p)
      /\ t \in Users(p)' <=> Uses(t, p)'
      /\ \A x : x # t => (x \in Users(p)' <=> x \in Users(p))
    BY OneUser
  <2> QED
    BY SMTT(30)
<1> QED
  BY GatesLeave

LEMMA SameUses ==
    ASSUME Gates, NEW t \in Threads, Others(t), UNCHANGED <<lane, hook, calls, shut, drained, terminal>>,
           \A p \in Plugins : Uses(t, p)' <=> Uses(t, p)
    PROVE  Gates'
<1> ASSUME NEW p \in Plugins
    PROVE  Users(p)' = Users(p)
  <2> /\ t \in Users(p)' <=> t \in Users(p)
      /\ \A x : x # t => (x \in Users(p)' <=> x \in Users(p))
    BY OneUser
  <2> QED
    BY SMTT(30)
<1> QED
  BY DEF Gates, Gate

\* A step that changes no gate, reservation or callback.
LEMMA QuietGates ==
    ASSUME Gates, UNCHANGED <<gates, reserved, inside, lane>>,
           \A i \in Instances : lane[i] # "none" => hook'[i] = hook[i]
    PROVE  Gates'
<1> \A p : Users(p)' = Users(p)
  BY DEF Users
<1> UNCHANGED <<calls, shut, drained, terminal>>
  BY DEF gates
<1> QED
  BY DEF Gates, Gate

-----------------------------------------------------------------------------
(* Counts: operations and pending creations are counted one by one. *)

Counted(t) ==
    /\ \/ operations' = operations /\ (op'[t] \in Operating <=> op[t] \in Operating)
       \/ operations' = operations + 1 /\ t \in Clients /\ op[t] \notin Operating /\ op'[t] \in Operating
       \/ operations' = operations - 1 /\ t \in Clients /\ op[t] \in Operating /\ op'[t] \notin Operating
    /\ DOMAIN pending' = Plugins
    /\ \A p \in Plugins :
          \/ pending'[p] = pending[p] /\ (t \in Makers(p)' <=> t \in Makers(p))
          \/ pending'[p] = pending[p] + 1 /\ t \notin Makers(p) /\ t \in Makers(p)'
          \/ pending'[p] = pending[p] - 1 /\ t \in Makers(p) /\ t \notin Makers(p)'

LEMMA CountsKeep ==
    ASSUME Counts, NEW t \in Threads, Others(t), Counted(t)
    PROVE  Counts'
<1> /\ Operators \in SUBSET (Threads \cup Instances) /\ Operators' \in SUBSET (Threads \cup Instances)
    /\ \A p : /\ Makers(p) \in SUBSET (Threads \cup Instances)
              /\ Makers(p)' \in SUBSET (Threads \cup Instances)
  BY KindsFacts DEF Operators, Makers
<1> /\ \A x : x # t => (x \in Operators' <=> x \in Operators)
    /\ \A p, x : x # t => (x \in Makers(p)' <=> x \in Makers(p))
  BY KindsFacts DEF Operators, Makers, Others
<1> operations' = Cardinality(Operators')
  <2> /\ t \in Operators <=> t \in Clients /\ op[t] \in Operating
      /\ t \in Operators' <=> t \in Clients /\ op'[t] \in Operating
      /\ operations = Cardinality(Operators)
    BY DEF Operators, Counts
  <2> CASE operations' = operations /\ (op'[t] \in Operating <=> op[t] \in Operating)
    <3> Operators' = Operators
      BY SMTT(30)
    <3> QED
      OBVIOUS
  <2> CASE operations' = operations + 1 /\ t \in Clients /\ op[t] \notin Operating /\ op'[t] \in Operating
    <3> t \notin Operators /\ Operators' = Operators \cup {t}
      OBVIOUS
    <3> QED
      BY Counting
  <2> CASE operations' = operations - 1 /\ t \in Clients /\ op[t] \in Operating /\ op'[t] \notin Operating
    <3> t \in Operators /\ Operators' = Operators \ {t}
      OBVIOUS
    <3> QED
      BY Counting
  <2> QED
    BY DEF Counted
<1> ASSUME NEW p \in Plugins
    PROVE  pending'[p] = Cardinality(Makers(p)')
  <2> pending[p] = Cardinality(Makers(p))
    BY DEF Counts
  <2> CASE pending'[p] = pending[p] /\ (t \in Makers(p)' <=> t \in Makers(p))
    <3> Makers(p)' = Makers(p)
      BY SMTT(30)
    <3> QED
      OBVIOUS
  <2> CASE pending'[p] = pending[p] + 1 /\ t \notin Makers(p) /\ t \in Makers(p)'
    <3> Makers(p)' = Makers(p) \cup {t}
      OBVIOUS
    <3> QED
      BY SMTT(30), Counting
  <2> CASE pending'[p] = pending[p] - 1 /\ t \in Makers(p) /\ t \notin Makers(p)'
    <3> Makers(p)' = Makers(p) \ {t}
      OBVIOUS
    <3> QED
      BY SMTT(30), Counting
  <2> QED
    BY DEF Counted
<1> QED
  BY DEF Counts, Counted

LEMMA CountsFrame ==
    ASSUME Counts, UNCHANGED <<operations, pending, op, on>>
    PROVE  Counts'
<1> Operators' = Operators /\ \A p : Makers(p)' = Makers(p)
  BY DEF Operators, Makers
<1> QED
  BY DEF Counts

-----------------------------------------------------------------------------
(* Stages: what is over stays over. *)

(* An instance that is over, or does not exist, stays so once the runtime closes. *)
Onward ==
    \/ phase = "idle"
    \/ \A i \in Instances : inst[i] \notin {"none", "done"} \/ inst'[i] \in {"none", "done"}

(* Goroutine t takes up nothing: no callback, gate, creation or operation. *)
Winds(t) ==
    /\ leaseOn'[t] = Nobody \/ (leaseOn'[t] = leaseOn[t] /\ inside'[t] = inside[t])
    /\ op'[t] \in Making /\ on'[t] \in Managed => op[t] \in Making /\ on'[t] = on[t]
    /\ inside'[t] \in {inside[t], Nobody} /\ reserved'[t] \subseteq reserved[t]
    /\ op'[t] \in Operating =>
          op[t] \in Operating /\ (op[t] # "admitting" \/ (op'[t] = op[t] /\ on'[t] = on[t]))

LEMMA Winding ==
    ASSUME NEW t \in Threads, Parted(t), UNCHANGED <<phase, k>>, Winds(t)
    PROVE  Parted(t)'
<1> \A j \in 1..N : Order[j] # Nobody
  BY OrderFacts, KindsFacts
<1> \A j \in 1..N : (StoppedTo(j)' <=> StoppedTo(j)) /\ (DrainedTo(j)' <=> DrainedTo(j))
  BY DEF StoppedTo, DrainedTo
<1> ASSUME NEW j \in 1..N
    PROVE  /\ StoppedTo(j) /\ inside'[t] = Order[j] => leaseOn'[t] = Nobody
           /\ DrainedTo(j) => inside'[t] # Order[j] /\ Order[j] \notin reserved'[t]
  BY DEF Parted, Winds
<1> ASSUME NEW j \in 1..N, DrainedTo(j) \/ (phase = "drainGate" /\ j = k)
    PROVE  t \in Clients /\ op'[t] \in Making /\ on'[t] \in Managed => Owner[on'[t]] # Order[j]
  BY DEF Parted, Winds
<1> phase \in Late /\ t \in Clients /\ op'[t] \in Operating => op'[t] = "admitting" /\ on'[t] \in Managed
  BY DEF Parted, Winds
<1> QED
  BY DEF Parted

LEMMA StagesFrame ==
    ASSUME Stages, NEW t, Others(t), t \in Threads => Parted(t)', Onward,
           UNCHANGED <<committed, phase, k, started, stopped, managerClosed, revoked, shut, terminal>>
    PROVE  Stages'
<1> \A j \in 1..N : /\ StoppedTo(j)' <=> StoppedTo(j)
                    /\ DrainedTo(j)' <=> DrainedTo(j)
                    /\ OpenedTo(j)' <=> OpenedTo(j)
  BY DEF StoppedTo, DrainedTo, OpenedTo
<1> \A j \in 1..N : Past(j)'
  BY DEF Stages, Past
<1> ASSUME NEW u \in Threads, u # t
    PROVE  Parted(u)'
  <2> Winds(u)
    BY DEF Winds, Others
  <2> QED
    BY Winding DEF Stages
<1> ASSUME NEW i \in Instances
    PROVE  Ended(i)'
  <2> CASE phase = "idle"
    BY DEF Ended, DrainedTo, Draining, Late, Final
  <2> CASE phase # "idle"
    BY DEF Stages, Ended, Onward
  <2> QED
    OBVIOUS
<1> QED
  BY DEF Stages

\* Until the direct instances are closed nothing is over.
LEMMA NothingParted ==
    ASSUME phase' = "idle", NEW t
    PROVE  Parted(t)'
BY DEF Parted, StoppedTo, DrainedTo, Stopping, Draining, Late

LEMMA EarlyStages ==
    ASSUME Stages, phase \in Early, phase' \in Early \ {"terminal", "direct"}, UNCHANGED <<stopped, shut>>
    PROVE  Stages'
<1> \A j \in 1..N : ~StoppedTo(j) /\ ~StoppedTo(j)' /\ ~DrainedTo(j)' /\ ~OpenedTo(j)'
  BY DEF StoppedTo, DrainedTo, OpenedTo, Early, Stopping, Draining, Late
<1> phase # "revoking" /\ phase' \notin {"revoking", "stopping", "drainGate"} \cup Late
  BY DEF Early, Late
<1> \A j \in 1..N : Past(j)'
  BY DEF Stages, Past
<1> \A t \in Threads : Parted(t)'
  BY DEF Parted
<1> \A i \in Instances : Ended(i)'
  BY DEF Ended, Final, Late
<1> QED
  BY DEF Stages

-----------------------------------------------------------------------------
(* The three kinds of steps: those of a goroutine that leave the instances   *)
(* alone, those that change one instance, and those of the loader and of     *)
(* finishClose, which leave goroutines and instances alone.                  *)

LEMMA StepKeeps ==
    ASSUME IInv, UNCHANGED stage, NEW t, Others(t), t \in Threads => Parted(t)', Onward,
           Places', Gates', Counts'
    PROVE  IInv'
<1> UNCHANGED course
  BY DEF stage
<1> Course'
  BY CourseFrame DEF IInv
<1> UNCHANGED <<committed, phase, k, started, stopped, managerClosed, revoked, shut, terminal>>
  BY DEF stage, course
<1> Stages'
  BY StagesFrame DEF IInv
<1> QED
  BY DEF IInv

LEMMA CalmStep ==
    ASSUME IInv, UNCHANGED <<stage, instances>>, NEW t \in Threads, Others(t), Types',
           Holds(t)', Acts(t)', Careful(t), Counted(t), Gates', Winds(t) \/ Parted(t)'
    PROVE  IInv'
<1> UNCHANGED course /\ UNCHANGED <<phase, k, inst>>
  BY DEF stage, course, instances
<1> Places'
  BY CalmPlaces DEF IInv
<1> Counts'
  BY CountsKeep DEF IInv
<1> Parted(t)'
  BY Winding DEF IInv, Stages
<1> Onward
  BY DEF Onward
<1> QED
  BY StepKeeps

LEMMA TouchStep ==
    ASSUME IInv, UNCHANGED <<stage, gates, reserved, inside>>, NEW t \in Threads, NEW i \in Instances,
           Others(t), Alike(i), Types', Holds(t)', Acts(t)', Careful(t), Touched(t, i), Counted(t),
           Onward, Winds(t) \/ Parted(t)'
    PROVE  IInv'
<1> UNCHANGED <<committed, phase, k>>
  BY DEF stage, course
<1> Places'
  BY TouchPlaces DEF IInv
<1> Gates'
  <2> lane[i] # "none" => inst[i] = "hooks"
    BY DEF IInv, Places, Instance
  <2> UNCHANGED lane /\ \A j \in Instances : lane[j] # "none" => hook'[j] = hook[j]
    BY DEF Alike, Touched
  <2> QED
    BY QuietGates DEF IInv
<1> Counts'
  BY CountsKeep DEF IInv
<1> Parted(t)'
  BY Winding DEF IInv, Stages
<1> QED
  BY StepKeeps

LEMMA StandingStep ==
    ASSUME IInv, UNCHANGED <<op, on, reserved, inside, leaseOn, instances, operations, pending>>,
           ~committed' /\ phase' # "done" => ~committed /\ phase # "done",
           Course', Gates', Stages'
    PROVE  IInv'
<1> Places'
  BY PlacesFrame DEF IInv
<1> Counts'
  BY CountsFrame DEF IInv
<1> QED
  BY DEF IInv

-----------------------------------------------------------------------------
(* Steps of goroutines that leave the instances alone. *)

LEMMA BeginCompileOperationKeeps ==
    ASSUME IInv, NEW t \in Clients, BeginCompileOperation(t)
    PROVE  IInv'
<1> /\ t \in Threads /\ t # Shutdown /\ Places /\ Gates /\ Types /\ Holds(t) /\ Acts(t) /\ Parted(t)
    /\ Course /\ Counts
  BY KindsFacts DEF IInv, Places, Stages
<1> op[t] = "idle" /\ state = "ready"
  BY DEF BeginCompileOperation, Closing
<1> /\ Others(t) /\ op'[t] = "compile" /\ on'[t] = on[t] /\ reserved'[t] = reserved[t]
    /\ inside'[t] = inside[t] /\ leaseOn'[t] = leaseOn[t]
  BY DEF BeginCompileOperation, Others, Types, caller, Goto
<1> /\ UNCHANGED <<stage, instances, gates, reserved, inside>>
    /\ UNCHANGED <<committed, phase, k, inst, leases, hook, lane, runner, adopted>>
  BY DEF BeginCompileOperation, stage, course, instances, runtime, managers, worker, gates, caller
<1> Types'
  BY DEF BeginCompileOperation, Types, caller, Goto
<1> Holds(t)'
  BY DEF Holds, Making, Using, Reserving, Working
<1> Acts(t)'
  BY DEF Acts, Making, Using, Closers
<1> Careful(t)
  BY DEF Careful, Making, Closers
<1> Counted(t)
  BY DEF Counted, Counts, BeginCompileOperation, managers, Makers, Making, Operating
<1> Gates'
  BY QuietGates
<1> Parted(t)'
  BY NothingParted DEF Course, Closing
<1> QED
  BY CalmStep

LEMMA BeginModuleCloseCallbacksKeeps ==
    ASSUME IInv, NEW t \in Clients, BeginModuleCloseCallbacks(t)
    PROVE  IInv'
<1> /\ t \in Threads /\ t # Shutdown /\ Places /\ Gates /\ Types /\ Holds(t) /\ Acts(t) /\ Parted(t)
    /\ Course /\ Counts
  BY KindsFacts DEF IInv, Places, Stages
<1> op[t] = "idle" /\ ~Closing
  BY DEF BeginModuleCloseCallbacks, Closing
<1> /\ Others(t) /\ op'[t] = "moduleClose" /\ on'[t] = on[t] /\ reserved'[t] = reserved[t]
    /\ inside'[t] = inside[t] /\ leaseOn'[t] = leaseOn[t]
  BY DEF BeginModuleCloseCallbacks, Others, Types, caller, Goto
<1> /\ UNCHANGED <<stage, instances, gates, reserved, inside>>
    /\ UNCHANGED <<committed, phase, k, inst, leases, hook, lane, runner, adopted>>
  BY DEF BeginModuleCloseCallbacks, stage, course, instances, runtime, managers, worker, gates, caller
<1> Types'
  BY DEF BeginModuleCloseCallbacks, Types, caller, Goto
<1> Holds(t)'
  BY DEF Holds, Making, Using, Reserving, Working
<1> Acts(t)'
  BY DEF Acts, Making, Using, Closers
<1> Careful(t)
  BY DEF Careful, Making, Closers
<1> Counted(t)
  BY DEF Counted, Counts, BeginModuleCloseCallbacks, managers, Makers, Making, Operating
<1> Gates'
  BY QuietGates
<1> Parted(t)'
  BY NothingParted DEF Course, Closing
<1> QED
  BY CalmStep

LEMMA EndOperationKeeps ==
    ASSUME IInv, NEW t \in Clients, EndOperation(t)
    PROVE  IInv'
<1> /\ t \in Threads /\ t # Shutdown /\ Places /\ Gates /\ Types /\ Holds(t) /\ Acts(t) /\ Parted(t)
    /\ Course /\ Counts
  BY KindsFacts DEF IInv, Places, Stages
<1> op[t] \in {"compile", "moduleClose"} /\ inside[t] = Nobody
  BY DEF EndOperation, Closing
<1> /\ Others(t) /\ op'[t] = "idle" /\ on'[t] = on[t] /\ reserved'[t] = reserved[t]
    /\ inside'[t] = inside[t] /\ leaseOn'[t] = leaseOn[t]
  BY DEF EndOperation, Others, Types, caller, Goto
<1> /\ UNCHANGED <<stage, instances, gates, reserved, inside>>
    /\ UNCHANGED <<committed, phase, k, inst, leases, hook, lane, runner, adopted>>
  BY DEF EndOperation, stage, course, instances, runtime, managers, worker, gates, caller
<1> Types'
  BY DEF EndOperation, Types, caller, Goto
<1> Holds(t)'
  BY DEF Holds, Making, Using, Reserving, Working
<1> Acts(t)'
  BY DEF Acts, Making, Using, Closers
<1> Careful(t)
  BY DEF Careful, Making, Closers
<1> Counted(t)
  BY DEF Counted, Counts, EndOperation, managers, Makers, Making, Operating
<1> Gates'
  BY QuietGates
<1> Winds(t)
  BY DEF Winds, Making, Operating
<1> QED
  BY CalmStep

LEMMA RefuseOperationKeeps ==
    ASSUME IInv, NEW t \in Clients, RefuseOperation(t)
    PROVE  IInv'
<1> /\ t \in Threads /\ t # Shutdown /\ Places /\ Gates /\ Types /\ Holds(t) /\ Acts(t) /\ Parted(t)
    /\ Course /\ Counts
  BY KindsFacts DEF IInv, Places, Stages
<1> op[t] = "admitted"
  BY DEF RefuseOperation, Closing
<1> /\ Others(t) /\ op'[t] = "idle" /\ on'[t] = Nobody /\ reserved'[t] = reserved[t]
    /\ inside'[t] = inside[t] /\ leaseOn'[t] = leaseOn[t]
  BY DEF RefuseOperation, Others, Types, caller, Goto, Finish
<1> /\ UNCHANGED <<stage, instances, gates, reserved, inside>>
    /\ UNCHANGED <<committed, phase, k, inst, leases, hook, lane, runner, adopted>>
  BY DEF RefuseOperation, stage, course, instances, runtime, managers, worker, gates, caller
<1> inst[on[t]] = "none"
  BY DEF Acts
<1> Types'
  BY DEF RefuseOperation, Types, caller, Goto, Finish
<1> Holds(t)'
  BY DEF Holds, Making, Using, Reserving, Working
<1> Acts(t)'
  BY DEF Acts, Making, Using, Closers
<1> Careful(t)
  BY KindsFacts DEF Careful, Making, Closers
<1> /\ on[t] \in Managed /\ DOMAIN pending' = Plugins /\ pending'[Owner[on[t]]] = pending[Owner[on[t]]] - 1
    /\ \A p \in Plugins : p # Owner[on[t]] => pending'[p] = pending[p]
  BY KindsFacts DEF Holds, Counts, RefuseOperation
<1> \A p \in Plugins : (t \in Makers(p) <=> p = Owner[on[t]]) /\ t \notin Makers(p)'
  BY KindsFacts DEF Makers, Making
<1> Counted(t)
  BY KindsFacts DEF Counted, RefuseOperation, Operating
<1> Gates'
  BY QuietGates
<1> Winds(t)
  BY DEF Winds, Making, Operating
<1> QED
  BY CalmStep

LEMMA WaitRejectedKeeps ==
    ASSUME IInv, NEW t \in Clients, WaitRejected(t)
    PROVE  IInv'
<1> /\ t \in Threads /\ t # Shutdown /\ Places /\ Gates /\ Types /\ Holds(t) /\ Acts(t) /\ Parted(t)
    /\ Course /\ Counts
  BY KindsFacts DEF IInv, Places, Stages
<1> op[t] = "rejected" /\ inst[on[t]] = "done"
  BY DEF WaitRejected, Closing
<1> /\ Others(t) /\ op'[t] = "idle" /\ on'[t] = Nobody /\ reserved'[t] = reserved[t]
    /\ inside'[t] = inside[t] /\ leaseOn'[t] = leaseOn[t]
  BY DEF WaitRejected, Others, Types, caller, Goto, Finish
<1> /\ UNCHANGED <<stage, instances, gates, reserved, inside>>
    /\ UNCHANGED <<committed, phase, k, inst, leases, hook, lane, runner, adopted>>
  BY DEF WaitRejected, stage, course, instances, runtime, managers, worker, gates, caller
<1> Types'
  BY DEF WaitRejected, Types, caller, Goto, Finish
<1> Holds(t)'
  BY DEF Holds, Making, Using, Reserving, Working
<1> Acts(t)'
  BY DEF Acts, Making, Using, Closers
<1> Careful(t)
  BY KindsFacts DEF Careful, Making, Closers
<1> /\ on[t] \in Managed /\ DOMAIN pending' = Plugins /\ pending'[Owner[on[t]]] = pending[Owner[on[t]]] - 1
    /\ \A p \in Plugins : p # Owner[on[t]] => pending'[p] = pending[p]
  BY KindsFacts DEF Holds, Counts, WaitRejected
<1> \A p \in Plugins : (t \in Makers(p) <=> p = Owner[on[t]]) /\ t \notin Makers(p)'
  BY KindsFacts DEF Makers, Making
<1> Counted(t)
  BY KindsFacts DEF Counted, WaitRejected, Operating
<1> Gates'
  BY QuietGates
<1> Winds(t)
  BY DEF Winds, Making, Operating
<1> QED
  BY CalmStep

LEMMA ReserveKeeps ==
    ASSUME IInv, NEW t \in Clients, Reserve(t)
    PROVE  IInv'
<1> /\ t \in Threads /\ t # Shutdown /\ Places /\ Gates /\ Types /\ Holds(t) /\ Acts(t) /\ Parted(t)
    /\ Course /\ Counts
  BY KindsFacts DEF IInv, Places, Stages
<1> op[t] = "reserving" /\ reserved[t] = Bound
  BY DEF Reserve, Closing
<1> /\ Others(t) /\ op'[t] = "invoke" /\ on'[t] = on[t] /\ reserved'[t] = reserved[t]
    /\ inside'[t] = inside[t] /\ leaseOn'[t] = leaseOn[t]
  BY DEF Reserve, Others, Types, caller, Goto
<1> /\ UNCHANGED <<stage, instances, gates, reserved, inside>>
    /\ UNCHANGED <<committed, phase, k, inst, leases, hook, lane, runner, adopted>>
  BY DEF Reserve, stage, course, instances, runtime, managers, worker, gates, caller
<1> Types'
  BY DEF Reserve, Types, caller, Goto
<1> Holds(t)'
  BY DEF Holds, Making, Using, Reserving, Working
<1> Acts(t)'
  BY DEF Acts, Making, Using, Closers
<1> Careful(t)
  BY DEF Careful, Making, Closers
<1> Counted(t)
  BY DEF Counted, Counts, Reserve, managers, Makers, Making, Operating
<1> Gates'
  BY QuietGates
<1> Winds(t)
  BY DEF Winds, Making, Operating
<1> QED
  BY CalmStep

LEMMA EndRuntimeInvocationKeeps ==
    ASSUME IInv, NEW t \in Clients, EndRuntimeInvocation(t)
    PROVE  IInv'
<1> /\ t \in Threads /\ t # Shutdown /\ Places /\ Gates /\ Types /\ Holds(t) /\ Acts(t) /\ Parted(t)
    /\ Course /\ Counts
  BY KindsFacts DEF IInv, Places, Stages
<1> op[t] = "returned"
  BY DEF EndRuntimeInvocation, Closing
<1> /\ Others(t) /\ op'[t] = "idle" /\ on'[t] = Nobody /\ reserved'[t] = reserved[t]
    /\ inside'[t] = inside[t] /\ leaseOn'[t] = leaseOn[t]
  BY DEF EndRuntimeInvocation, Others, Types, caller, Goto, Finish
<1> /\ UNCHANGED <<stage, instances, gates, reserved, inside>>
    /\ UNCHANGED <<committed, phase, k, inst, leases, hook, lane, runner, adopted>>
  BY DEF EndRuntimeInvocation, stage, course, instances, runtime, managers, worker, gates, caller
<1> Types'
  BY DEF EndRuntimeInvocation, Types, caller, Goto, Finish
<1> Holds(t)'
  BY DEF Holds, Making, Using, Reserving, Working
<1> Acts(t)'
  BY DEF Acts, Making, Using, Closers
<1> Careful(t)
  BY KindsFacts DEF Careful, Making, Closers
<1> Counted(t)
  BY DEF Counted, Counts, EndRuntimeInvocation, managers, Makers, Making, Operating
<1> Gates'
  BY QuietGates
<1> Winds(t)
  BY DEF Winds, Making, Operating
<1> QED
  BY CalmStep

LEMMA ManagerInstantiateKeeps ==
    ASSUME IInv, NEW t \in Clients, NEW i \in Instances, ManagerInstantiate(t, i)
    PROVE  IInv'
<1> /\ t \in Threads /\ t # Shutdown /\ Places /\ Gates /\ Types /\ Holds(t) /\ Acts(t) /\ Parted(t)
    /\ Course /\ Counts
  BY KindsFacts DEF IInv, Places, Stages
<1> /\ op[t] = "idle" /\ i \in Managed /\ inst[i] = "none" /\ ~Creating(i)
    /\ committed /\ Owner[i] \notin managerClosed
  BY DEF ManagerInstantiate, Closing
<1> /\ Others(t) /\ op'[t] = "admitted" /\ on'[t] = i /\ reserved'[t] = reserved[t]
    /\ inside'[t] = inside[t] /\ leaseOn'[t] = leaseOn[t]
  BY DEF ManagerInstantiate, Others, Types, caller, Goto
<1> /\ UNCHANGED <<stage, instances, gates, reserved, inside>>
    /\ UNCHANGED <<committed, phase, k, inst, leases, hook, lane, runner, adopted>>
  BY DEF ManagerInstantiate, stage, course, instances, runtime, managers, worker, gates, caller
<1> (\A u \in Threads : op[u] \in Making => on[u] # i) /\ i \notin adopted
  BY NotCreating DEF Places, Instance
<1> Types'
  BY DEF ManagerInstantiate, Types, caller, Goto
<1> Holds(t)'
  BY DEF Holds, Making, Using, Reserving, Working
<1> Acts(t)'
  BY DEF Acts, Making, Using, Closers
<1> Careful(t)
  BY KindsFacts DEF Careful, Making, Closers
<1> /\ DOMAIN pending' = Plugins /\ pending'[Owner[i]] = pending[Owner[i]] + 1
    /\ \A p \in Plugins : p # Owner[i] => pending'[p] = pending[p]
  BY KindsFacts DEF Counts, ManagerInstantiate
<1> \A p \in Plugins : (t \in Makers(p)' <=> p = Owner[i]) /\ t \notin Makers(p)
  BY DEF Makers, Making
<1> Counted(t)
  BY DEF Counted, ManagerInstantiate, Operating
<1> Gates'
  BY QuietGates
<1> ASSUME NEW j \in 1..N, DrainedTo(j) \/ (phase = "drainGate" /\ j = k)
    PROVE  Owner[i] # Order[j]
  <2> StoppedTo(j) /\ Past(j)
    BY DEF DrainedTo, StoppedTo, Draining, Late, IInv, Stages
  <2> QED
    BY DEF Past
<1> Parted(t)'
  BY DEF Parted, StoppedTo, DrainedTo, Operating
<1> QED
  BY CalmStep

LEMMA BeginOperationGenerationKeeps ==
    ASSUME IInv, NEW t \in Clients, NEW i \in Instances, BeginOperationGeneration(t, i)
    PROVE  IInv'
<1> /\ t \in Threads /\ t # Shutdown /\ Places /\ Gates /\ Types /\ Holds(t) /\ Acts(t) /\ Parted(t)
    /\ Course /\ Counts
  BY KindsFacts DEF IInv, Places, Stages
<1> /\ ~Closing /\ \A p \in Bound : ~shut[p]
    /\ \/ op[t] = "idle" /\ i \in Direct /\ inst[i] = "none" /\ ~Creating(i)
       \/ op[t] = "admitted" /\ on[t] = i
  BY DEF BeginOperationGeneration, Closing
<1> /\ Others(t) /\ op'[t] = "instantiate" /\ on'[t] = i /\ reserved'[t] = Bound
    /\ inside'[t] = inside[t] /\ leaseOn'[t] = leaseOn[t]
  BY DEF BeginOperationGeneration, Others, Types, caller, Goto
<1> /\ UNCHANGED <<stage, instances>>
    /\ UNCHANGED <<committed, phase, k, inst, leases, hook, lane, runner, adopted>>
  BY DEF BeginOperationGeneration, stage, course, instances, runtime, managers, worker, gates, caller
<1> /\ inst[i] = "none" /\ i \notin adopted /\ reserved[t] = {} /\ inside[t] = Nobody
    /\ op[t] = "idle" => i \notin Managed /\ \A u \in Threads : op[u] \in Making => on[u] # i
  BY NotCreating, KindsFacts DEF Types, Holds, Acts, Making, Reserving, Working
<1> Types'
  BY BoundFacts DEF BeginOperationGeneration, Types, caller, Goto
<1> Holds(t)'
  BY BoundFacts DEF Holds, Making, Using, Reserving, Working
<1> Acts(t)'
  BY DEF Acts, Making, Using, Closers
<1> Careful(t)
  BY KindsFacts DEF Careful, Making, Closers
<1> Counted(t)
  BY DEF Counted, Counts, BeginOperationGeneration, managers, Makers, Making, Operating
<1> Gates'
  <2> /\ UNCHANGED <<shut, drained, terminal, lane, hook>> /\ DOMAIN calls' = Plugins
      /\ \A p \in Plugins : p \in Bound => calls'[p] = calls[p] + 1
      /\ \A p \in Plugins : p \notin Bound => calls'[p] = calls[p]
    BY DEF BeginOperationGeneration
  <2> \A p \in Plugins : ~Uses(t, p) /\ (Uses(t, p)' <=> p \in Bound)
    BY KindsFacts DEF Uses
  <2> QED
    BY TakesUp
<1> Parted(t)'
  BY NothingParted DEF Course, Closing
<1> QED
  BY CalmStep

LEMMA BeginInvocationKeeps ==
    ASSUME IInv, NEW t \in Clients, NEW i \in Instances, BeginInvocation(t, i)
    PROVE  IInv'
<1> /\ t \in Threads /\ t # Shutdown /\ Places /\ Gates /\ Types /\ Holds(t) /\ Acts(t) /\ Parted(t)
    /\ Course /\ Counts
  BY KindsFacts DEF IInv, Places, Stages
<1> /\ op[t] = "idle" /\ inst[i] # "none" /\ ~Creating(i)
    /\ state # "closed" /\ (state = "closing" => i \in Managed)
  BY DEF BeginInvocation, Closing
<1> /\ Others(t) /\ op'[t] = "admitting" /\ on'[t] = i /\ reserved'[t] = reserved[t]
    /\ inside'[t] = inside[t] /\ leaseOn'[t] = leaseOn[t]
  BY DEF BeginInvocation, Others, Types, caller, Goto
<1> /\ UNCHANGED <<stage, instances, gates, reserved, inside>>
    /\ UNCHANGED <<committed, phase, k, inst, leases, hook, lane, runner, adopted>>
  BY DEF BeginInvocation, stage, course, instances, runtime, managers, worker, gates, caller
<1> Instance(i) /\ (i \in Managed => i \in adopted)
  BY NotCreating DEF Places
<1> ~committed /\ phase # "done" => i \notin Managed
  BY DEF Instance
<1> Types'
  BY DEF BeginInvocation, Types, caller, Goto
<1> Holds(t)'
  BY DEF Holds, Making, Using, Reserving, Working
<1> Acts(t)'
  BY DEF Acts, Making, Using, Closers
<1> Careful(t)
  BY KindsFacts DEF Careful, Making, Closers
<1> Counted(t)
  BY DEF Counted, Counts, BeginInvocation, managers, Makers, Making, Operating
<1> Gates'
  BY QuietGates
<1> phase \in Late => i \in Managed
  BY DEF Course, Closing, Late
<1> Parted(t)'
  BY DEF Parted, StoppedTo, DrainedTo, Making
<1> QED
  BY CalmStep

\* reservePluginOperation has a next gate as long as it has not got them all.
LEMMA NextGateFacts ==
    ASSUME IInv, NEW t \in Clients, op[t] = "reserving", reserved[t] # Bound
    PROVE  /\ committed /\ NextGate(t) \in Plugins /\ NextGate(t) \notin reserved[t]
           /\ LET r == reserved[t] \cup {NextGate(t)}
              IN  \A p \in r : \E j \in 1..Cardinality(r) : p = Order[j]
<1> t \in Threads /\ Holds(t) /\ Parted(t) /\ reserved[t] \in SUBSET Plugins
  BY KindsFacts DEF IInv, Places, Stages, Types
<1> phase # "done"
  BY DEF Parted, Late, Operating
<1> committed /\ reserved[t] # Plugins
  BY BoundFacts DEF Holds
<1> \A p \in reserved[t] : \E j \in 1..Cardinality(reserved[t]) : p = Order[j]
  BY DEF Holds
<1> Cardinality(reserved[t]) < N
  BY NextInOrder
<1> /\ NextGate(t) \in Plugins \ reserved[t]
    /\ Cardinality(reserved[t] \cup {NextGate(t)}) = Cardinality(reserved[t]) + 1
    /\ \A p \in reserved[t] \cup {NextGate(t)} : \E j \in 1..(Cardinality(reserved[t]) + 1) : p = Order[j]
  BY NextInOrder DEF NextGate
<1> QED
  OBVIOUS

\* A gate that is still open is not drained.
LEMMA OpenGate ==
    ASSUME IInv, committed, NEW j \in 1..N, DrainedTo(j)
    PROVE  shut[Order[j]]
<1> StoppedTo(j) /\ Past(j)
  BY DEF DrainedTo, StoppedTo, Draining, IInv, Stages
<1> QED
  BY DEF Past

LEMMA ReserveNextKeeps ==
    ASSUME IInv, NEW t \in Clients, ReserveNext(t)
    PROVE  IInv'
<1> /\ t \in Threads /\ t # Shutdown /\ Places /\ Gates /\ Types /\ Holds(t) /\ Acts(t) /\ Parted(t)
    /\ Course /\ Counts
  BY KindsFacts DEF IInv, Places, Stages
<1> op[t] = "reserving" /\ reserved[t] # Bound /\ Enter(NextGate(t))
  BY DEF ReserveNext, Closing
<1> /\ Others(t) /\ op'[t] = op[t] /\ on'[t] = on[t] /\ reserved'[t] = reserved[t] \cup {NextGate(t)}
    /\ inside'[t] = inside[t] /\ leaseOn'[t] = leaseOn[t]
  BY DEF ReserveNext, Others, Types, caller, Enter
<1> /\ UNCHANGED <<stage, instances>>
    /\ UNCHANGED <<committed, phase, k, inst, leases, hook, lane, runner, adopted>>
  BY DEF ReserveNext, stage, course, instances, runtime, managers, worker, gates, caller, Enter
<1> /\ committed /\ NextGate(t) \in Plugins /\ NextGate(t) \notin reserved[t] /\ inside[t] = Nobody
    /\ \A p \in reserved'[t] : \E j \in 1..Cardinality(reserved'[t]) : p = Order[j]
  BY NextGateFacts DEF Holds, Working
<1> Types'
  BY DEF ReserveNext, Types, caller, Enter
<1> Holds(t)'
  BY DEF Holds, Making, Using, Reserving, Working
<1> Acts(t)'
  BY DEF Acts, Making, Using, Closers
<1> Careful(t)
  BY DEF Careful, Making, Closers
<1> Counted(t)
  BY DEF Counted, Counts, ReserveNext, managers, Makers, Making, Operating
<1> Gates'
  <2> /\ ~shut[NextGate(t)] /\ UNCHANGED <<shut, drained, terminal>> /\ DOMAIN calls' = Plugins
      /\ calls'[NextGate(t)] = calls[NextGate(t)] + 1
      /\ \A p \in Plugins : p # NextGate(t) => calls'[p] = calls[p]
    BY DEF Enter, Gates
  <2> \A p \in Plugins : (Uses(t, p) <=> p \in reserved[t]) /\ (Uses(t, p)' <=> p \in reserved'[t])
    BY KindsFacts DEF Uses
  <2> /\ \A p \in Plugins : p \in {NextGate(t)} =>
            ~shut[p] /\ calls'[p] = calls[p] + 1 /\ ~Uses(t, p) /\ Uses(t, p)'
      /\ \A p \in Plugins : p \notin {NextGate(t)} => calls'[p] = calls[p] /\ (Uses(t, p)' <=> Uses(t, p))
    OBVIOUS
  <2> QED
    BY TakesUp
<1> \A j \in 1..N : DrainedTo(j) => Order[j] # NextGate(t)
  BY OpenGate DEF Enter
<1> Parted(t)'
  BY DEF Parted, StoppedTo, DrainedTo
<1> QED
  BY CalmStep

LEMMA ReserveRefusedKeeps ==
    ASSUME IInv, NEW t \in Clients, ReserveRefused(t)
    PROVE  IInv'
<1> /\ t \in Threads /\ t # Shutdown /\ Places /\ Gates /\ Types /\ Holds(t) /\ Acts(t) /\ Parted(t)
    /\ Course /\ Counts
  BY KindsFacts DEF IInv, Places, Stages
<1> op[t] = "reserving"
  BY DEF ReserveRefused, Closing
<1> /\ Others(t) /\ op'[t] = "returning" /\ on'[t] = on[t] /\ reserved'[t] = {}
    /\ inside'[t] = inside[t] /\ leaseOn'[t] = leaseOn[t]
  BY DEF ReserveRefused, Others, Types, caller, Goto, Leave
<1> /\ UNCHANGED <<stage, instances>>
    /\ UNCHANGED <<committed, phase, k, inst, leases, hook, lane, runner, adopted>>
  BY DEF ReserveRefused, stage, course, instances, runtime, managers, worker, gates, caller, Goto, Leave
<1> inside[t] = Nobody
  BY DEF Holds, Working
<1> Types'
  BY DEF ReserveRefused, Types, caller, Goto, Leave
<1> Holds(t)'
  BY DEF Holds, Making, Using, Reserving, Working
<1> Acts(t)'
  BY DEF Acts, Making, Using, Closers
<1> Careful(t)
  BY DEF Careful, Making, Closers
<1> Counted(t)
  BY DEF Counted, Counts, ReserveRefused, managers, Makers, Making, Operating
<1> Gates'
  <2> \A p \in Plugins : (Uses(t, p) <=> p \in reserved[t]) /\ ~Uses(t, p)'
    BY KindsFacts DEF Uses
  <2> Leave(reserved[t])
    BY DEF ReserveRefused
  <2> QED
    BY GivesBack
<1> Winds(t)
  BY DEF Winds, Making, Operating
<1> QED
  BY CalmStep

LEMMA ReturnInvocationKeeps ==
    ASSUME IInv, NEW t \in Clients, ReturnInvocation(t)
    PROVE  IInv'
<1> /\ t \in Threads /\ t # Shutdown /\ Places /\ Gates /\ Types /\ Holds(t) /\ Acts(t) /\ Parted(t)
    /\ Course /\ Counts
  BY KindsFacts DEF IInv, Places, Stages
<1> op[t] = "invoke" /\ inside[t] = Nobody
  BY DEF ReturnInvocation, Closing
<1> /\ Others(t) /\ op'[t] = "returning" /\ on'[t] = on[t] /\ reserved'[t] = {}
    /\ inside'[t] = inside[t] /\ leaseOn'[t] = leaseOn[t]
  BY DEF ReturnInvocation, Others, Types, caller, Goto, Leave
<1> /\ UNCHANGED <<stage, instances>>
    /\ UNCHANGED <<committed, phase, k, inst, leases, hook, lane, runner, adopted>>
  BY DEF ReturnInvocation, stage, course, instances, runtime, managers, worker, gates, caller, Goto, Leave
<1> Types'
  BY DEF ReturnInvocation, Types, caller, Goto, Leave
<1> Holds(t)'
  BY DEF Holds, Making, Using, Reserving, Working
<1> Acts(t)'
  BY DEF Acts, Making, Using, Closers
<1> Careful(t)
  BY DEF Careful, Making, Closers
<1> Counted(t)
  BY DEF Counted, Counts, ReturnInvocation, managers, Makers, Making, Operating
<1> Gates'
  <2> \A p \in Plugins : (Uses(t, p) <=> p \in reserved[t]) /\ ~Uses(t, p)'
    BY KindsFacts DEF Uses
  <2> Leave(reserved[t])
    BY DEF ReturnInvocation
  <2> QED
    BY GivesBack
<1> Winds(t)
  BY DEF Winds, Making, Operating
<1> QED
  BY CalmStep

LEMMA EnterCallbackKeeps ==
    ASSUME IInv, NEW t \in Threads, NEW p \in Plugins, EnterCallback(t, p)
    PROVE  IInv'
<1> /\ t \in Threads /\ Places /\ Gates /\ Types /\ Holds(t) /\ Acts(t) /\ Parted(t)
    /\ Course /\ Counts
  BY KindsFacts DEF IInv, Places, Stages
<1> op[t] \in Working /\ inside[t] = Nobody /\ p \in Bound
  BY DEF EnterCallback, Closing
<1> /\ Others(t) /\ op'[t] = op[t] /\ on'[t] = on[t] /\ reserved'[t] = reserved[t]
    /\ inside'[t] = p /\ leaseOn'[t] = leaseOn[t]
  BY DEF EnterCallback, Others, Types, caller, Enter, gates
<1> /\ UNCHANGED <<stage, instances>>
    /\ UNCHANGED <<committed, phase, k, inst, leases, hook, lane, runner, adopted>>
  BY DEF EnterCallback, stage, course, instances, runtime, managers, worker, gates, caller, Enter, gates
<1> committed /\ p # Nobody /\ leaseOn[t] = Nobody
  BY BoundFacts, KindsFacts DEF Holds
<1> p \in reserved[t] => UNCHANGED gates
  BY DEF EnterCallback
<1> p \notin reserved[t] => Enter(p)
  BY DEF EnterCallback
<1> Types'
  BY DEF EnterCallback, Types, caller, Enter, gates
<1> Holds(t)'
  BY DEF Holds, Making, Using, Reserving, Working
<1> Acts(t)'
  BY DEF Acts, Making, Using, Closers
<1> Careful(t)
  BY DEF Careful, Making, Closers
<1> Counted(t)
  BY DEF Counted, Counts, EnterCallback, managers, Makers, Making, Operating
<1> \A q \in Plugins : (Uses(t, q) <=> q \in reserved[t]) /\ (Uses(t, q)' <=> q \in reserved[t] \/ q = p)
  BY KindsFacts DEF Uses
<1> CASE p \in reserved[t]
  <2> UNCHANGED <<calls, shut, drained, terminal>> /\ \A q \in Plugins : Uses(t, q)' <=> Uses(t, q)
    BY DEF gates
  <2> Gates'
    BY SameUses
  <2> \A j \in 1..N : (StoppedTo(j)' <=> StoppedTo(j)) /\ (DrainedTo(j)' <=> DrainedTo(j))
    BY DEF StoppedTo, DrainedTo
  <2> \A j \in 1..N : DrainedTo(j) => inside'[t] # Order[j]
    BY DEF Parted
  <2> Parted(t)'
    BY ZenonT(30) DEF Parted
  <2> QED
    BY CalmStep
<1> CASE p \notin reserved[t]
  <2> /\ ~shut[p] /\ UNCHANGED <<shut, drained, terminal>> /\ DOMAIN calls' = Plugins
      /\ calls'[p] = calls[p] + 1 /\ \A q \in Plugins : q # p => calls'[q] = calls[q]
    BY DEF Enter, Gates
  <2> /\ \A q \in Plugins : q \in {p} => ~shut[q] /\ calls'[q] = calls[q] + 1 /\ ~Uses(t, q) /\ Uses(t, q)'
      /\ \A q \in Plugins : q \notin {p} => calls'[q] = calls[q] /\ (Uses(t, q)' <=> Uses(t, q))
    OBVIOUS
  <2> Gates'
    BY TakesUp
  <2> \A j \in 1..N : DrainedTo(j) => inside'[t] # Order[j]
    BY OpenGate
  <2> \A j \in 1..N : (StoppedTo(j)' <=> StoppedTo(j)) /\ (DrainedTo(j)' <=> DrainedTo(j))
    BY DEF StoppedTo, DrainedTo
  <2> Parted(t)'
    BY DEF Parted
  <2> QED
    BY CalmStep
<1> QED
  OBVIOUS

LEMMA LeaveCallbackKeeps ==
    ASSUME IInv, NEW t \in Threads, LeaveCallback(t)
    PROVE  IInv'
<1> /\ t \in Threads /\ Places /\ Gates /\ Types /\ Holds(t) /\ Acts(t) /\ Parted(t)
    /\ Course /\ Counts
  BY KindsFacts DEF IInv, Places, Stages
<1> inside[t] # Nobody /\ leaseOn[t] = Nobody
  BY DEF LeaveCallback, Closing
<1> /\ Others(t) /\ op'[t] = op[t] /\ on'[t] = on[t] /\ reserved'[t] = reserved[t]
    /\ inside'[t] = Nobody /\ leaseOn'[t] = leaseOn[t]
  BY DEF LeaveCallback, Others, Types, caller, Leave, gates
<1> /\ UNCHANGED <<stage, instances>>
    /\ UNCHANGED <<committed, phase, k, inst, leases, hook, lane, runner, adopted>>
  BY DEF LeaveCallback, stage, course, instances, runtime, managers, worker, gates, caller, Leave, gates
<1> inside[t] \in Plugins
  BY DEF Types
<1> Types'
  BY DEF LeaveCallback, Types, caller, Leave, gates
<1> Holds(t)'
  BY DEF Holds, Making, Using, Reserving, Working
<1> Acts(t)'
  BY DEF Acts, Making, Using, Closers
<1> Careful(t)
  BY DEF Careful, Making, Closers
<1> Counted(t)
  BY DEF Counted, Counts, LeaveCallback, managers, Makers, Making, Operating
<1> Gates'
  <2> \A q \in Plugins :
        (Uses(t, q) <=> q \in reserved[t] \/ q = inside[t]) /\ (Uses(t, q)' <=> q \in reserved[t])
    BY KindsFacts DEF Uses
  <2> CASE inside[t] \in reserved[t]
    <3> UNCHANGED <<calls, shut, drained, terminal>> /\ \A q \in Plugins : Uses(t, q)' <=> Uses(t, q)
      BY DEF LeaveCallback, gates
    <3> QED
      BY SameUses
  <2> CASE inside[t] \notin reserved[t]
    <3> Leave({inside[t]})
      BY DEF LeaveCallback
    <3> /\ \A q \in Plugins : q \in {inside[t]} => Uses(t, q) /\ ~Uses(t, q)'
        /\ \A q \in Plugins : q \notin {inside[t]} => (Uses(t, q)' <=> Uses(t, q))
      OBVIOUS
    <3> QED
      BY GivesBack
  <2> QED
    OBVIOUS
<1> Winds(t)
  BY DEF Winds, Making, Operating
<1> QED
  BY CalmStep

LEMMA ContractAcquireKeeps ==
    ASSUME IInv, NEW t \in Threads, ContractAcquire(t)
    PROVE  IInv'
<1> /\ t \in Threads /\ Places /\ Gates /\ Types /\ Holds(t) /\ Acts(t) /\ Parted(t)
    /\ Course /\ Counts
  BY KindsFacts DEF IInv, Places, Stages
<1> inside[t] \notin {Nobody, Order[1]} \cup revoked
  BY DEF ContractAcquire, Closing
<1> /\ Others(t) /\ op'[t] = op[t] /\ on'[t] = on[t] /\ reserved'[t] = reserved[t]
    /\ inside'[t] = inside[t] /\ leaseOn'[t] = Order[1]
  BY DEF ContractAcquire, Others, Types, caller
<1> /\ UNCHANGED <<stage, instances, gates, reserved, inside>>
    /\ UNCHANGED <<committed, phase, k, inst, leases, hook, lane, runner, adopted>>
  BY DEF ContractAcquire, stage, course, instances, runtime, managers, worker, gates, caller
<1> Types'
  BY OrderFacts DEF ContractAcquire, Types, caller
<1> Holds(t)'
  BY DEF Holds, Making, Using, Reserving, Working
<1> Acts(t)'
  BY DEF Acts, Making, Using, Closers
<1> Careful(t)
  BY DEF Careful, Making, Closers
<1> Counted(t)
  BY DEF Counted, Counts, ContractAcquire, managers, Makers, Making, Operating
<1> Gates'
  BY QuietGates
<1> ASSUME NEW j \in 1..N, StoppedTo(j)
    PROVE  inside[t] # Order[j]
  <2> Past(j) /\ (phase = "done" => DrainedTo(j))
    BY DEF IInv, Stages, DrainedTo, Late
  <2> QED
    BY DEF Past, Parted, Holds
<1> Parted(t)'
  BY DEF Parted, StoppedTo, DrainedTo
<1> QED
  BY CalmStep

LEMMA ContractReleaseKeeps ==
    ASSUME IInv, NEW t \in Threads, ContractRelease(t)
    PROVE  IInv'
<1> /\ t \in Threads /\ Places /\ Gates /\ Types /\ Holds(t) /\ Acts(t) /\ Parted(t)
    /\ Course /\ Counts
  BY KindsFacts DEF IInv, Places, Stages
<1> /\ Others(t) /\ op'[t] = op[t] /\ on'[t] = on[t] /\ reserved'[t] = reserved[t]
    /\ inside'[t] = inside[t] /\ leaseOn'[t] = Nobody
  BY DEF ContractRelease, Others, Types, caller
<1> /\ UNCHANGED <<stage, instances, gates, reserved, inside>>
    /\ UNCHANGED <<committed, phase, k, inst, leases, hook, lane, runner, adopted>>
  BY DEF ContractRelease, stage, course, instances, runtime, managers, worker, gates, caller
<1> Types'
  BY DEF ContractRelease, Types, caller
<1> Holds(t)'
  BY DEF Holds, Making, Using, Reserving, Working
<1> Acts(t)'
  BY DEF Acts, Making, Using, Closers
<1> Careful(t)
  BY DEF Careful, Making, Closers
<1> Counted(t)
  BY DEF Counted, Counts, ContractRelease, managers, Makers, Making, Operating
<1> Gates'
  BY QuietGates
<1> Winds(t)
  BY DEF Winds, Making, Operating
<1> QED
  BY CalmStep

LEMMA EndInstantiateKeeps ==
    ASSUME IInv, NEW t \in Clients, EndInstantiate(t)
    PROVE  IInv'
<1> /\ t \in Threads /\ t # Shutdown /\ Places /\ Gates /\ Types /\ Holds(t) /\ Acts(t) /\ Parted(t)
    /\ Course /\ Counts
  BY KindsFacts DEF IInv, Places, Stages
<1> /\ op[t] \in {"ending", "endingOk"} /\ Free(t) /\ Leave(reserved[t]) /\ on[t] \in Instances
    /\ inside[t] = Nobody /\ operations' = operations - 1
  BY DEF EndInstantiate, Holds, Making, Working
<1> Others(t) /\ reserved'[t] = {} /\ inside'[t] = inside[t] /\ leaseOn'[t] = leaseOn[t]
  BY DEF EndInstantiate, Others, Types, Goto, Finish
<1> /\ UNCHANGED <<stage, instances>>
    /\ UNCHANGED <<committed, phase, inst, leases, hook, lane, runner, adopted>>
  BY DEF EndInstantiate, Leave, stage, course, instances, runtime, worker
<1> Types'
  BY DEF EndInstantiate, Types, Goto, Finish
<1> Gates'
  <2> \A p \in Plugins : (Uses(t, p) <=> p \in reserved[t]) /\ ~Uses(t, p)'
    BY KindsFacts DEF Uses
  <2> QED
    BY GivesBack
<1> CASE on[t] \in Managed /\ op[t] = "endingOk"
  <2> op'[t] = "adopt" /\ on'[t] = on[t] /\ pending' = pending
    BY DEF EndInstantiate, Types, Goto
  <2> Holds(t)'
    BY DEF Holds, Making, Using, Reserving, Working
  <2> Acts(t)'
    BY DEF Acts, Making, Using, Closers
  <2> Careful(t)
    BY DEF Careful, Making, Closers
  <2> Counted(t)
    BY DEF Counted, Makers, Making, Operating, Counts
  <2> Winds(t)
    BY DEF Winds, Making, Operating
  <2> QED
    BY CalmStep
<1> CASE ~(on[t] \in Managed /\ op[t] = "endingOk")
  <2> /\ Finish(t)
      /\ pending' = [p \in Plugins |-> IF on[t] \in Managed /\ p = Owner[on[t]]
                                          THEN pending[p] - 1 ELSE pending[p]]
    BY DEF EndInstantiate
  <2> /\ op'[t] = "idle" /\ on'[t] = Nobody /\ DOMAIN pending' = Plugins
      /\ \A p \in Plugins : on[t] \in Managed /\ p = Owner[on[t]] => pending'[p] = pending[p] - 1
      /\ \A p \in Plugins : ~(on[t] \in Managed /\ p = Owner[on[t]]) => pending'[p] = pending[p]
    BY DEF Types, Goto, Finish
  <2> \A p \in Plugins : (t \in Makers(p) <=> on[t] \in Managed /\ p = Owner[on[t]]) /\ t \notin Makers(p)'
    BY DEF Makers, Making
  <2> Counted(t)
    BY DEF Counted, Operating
  <2> on[t] \in Managed => inst[on[t]] \in {"none", "done"}
    BY DEF Acts, Making, Free
  <2> Holds(t)'
    BY DEF Holds, Making, Using, Reserving, Working
  <2> Acts(t)'
    BY DEF Acts, Making, Using, Closers
  <2> Careful(t)
    BY KindsFacts DEF Careful, Making, Closers
  <2> Winds(t)
    BY DEF Winds, Making, Operating
  <2> QED
    BY CalmStep
<1> QED
  OBVIOUS

-----------------------------------------------------------------------------
(* Steps of goroutines that change an instance. *)

\* One lease of i ends; the last one of a closed instance starts its hooks.
LEMMA LeaseEnds ==
    ASSUME Types, NEW t, NEW i \in Instances, EndLease(t, i)
    PROVE  /\ Alike(i) /\ leases'[i] = leases[i] - 1 /\ (leases[i] = 1 => leases'[i] = 0)
           /\ \/ inst[i] = "closing" /\ inst'[i] = "hooks" /\ hook'[i] = Cardinality(Bound)
              \/ inst'[i] = inst[i] /\ hook'[i] = hook[i] /\ runner'[i] = runner[i]
           /\ DOMAIN inst' = Instances /\ leases' \in [Instances -> Int] /\ DOMAIN lane' = Instances
           /\ hook' \in [Instances -> 0..N] /\ DOMAIN runner' = Instances /\ adopted' \subseteq Managed
BY SMTT(30), BoundFacts DEF Types, EndLease, StartHooks, Alike

LEMMA EndConstructionKeeps ==
    ASSUME IInv, NEW t \in Clients, EndConstruction(t)
    PROVE  IInv'
<1> /\ t \in Threads /\ t # Shutdown /\ Places /\ Gates /\ Types /\ Holds(t) /\ Acts(t) /\ Parted(t)
    /\ Course /\ Counts
  BY KindsFacts DEF IInv, Places, Stages
<1> op[t] = "registered" /\ inside[t] = Nobody /\ on[t] \in Instances /\ EndLease(t, on[t])
  BY DEF EndConstruction, Holds, Making
<1> /\ Others(t) /\ op'[t] = "built" /\ on'[t] = on[t] /\ reserved'[t] = reserved[t]
    /\ inside'[t] = inside[t] /\ leaseOn'[t] = leaseOn[t] /\ UNCHANGED <<operations, pending>>
  BY DEF EndConstruction, Others, Types, caller, managers, Goto
<1> UNCHANGED <<stage, gates, reserved, inside, committed, phase, k>>
  BY DEF EndConstruction, stage, course, gates, runtime, managers, worker, caller
<1> /\ Alike(on[t]) /\ leases'[on[t]] = leases[on[t]] - 1 /\ UNCHANGED <<lane, adopted>>
    /\ \/ inst[on[t]] = "closing" /\ inst'[on[t]] = "hooks" /\ hook'[on[t]] = Cardinality(Bound)
       \/ inst'[on[t]] = inst[on[t]] /\ hook'[on[t]] = hook[on[t]]
  BY LeaseEnds DEF Alike
<1> on[t] \in Managed => inst[on[t]] = "open" /\ leases[on[t]] = 1
  BY DEF Acts, Making
<1> on[t] \in Managed => inst'[on[t]] = "open" /\ leases'[on[t]] = 0
  BY LeaseEnds
<1> Types'
  BY LeaseEnds DEF EndConstruction, Types, Goto, caller
<1> Holds(t)'
  BY DEF Holds, Making, Using, Reserving, Working
<1> Acts(t)'
  BY DEF Acts, Making, Using, Closers
<1> Careful(t)
  BY DEF Careful, Making, Closers
<1> Touched(t, on[t])
  BY DEF Touched, Making, Closers
<1> Onward
  BY DEF Onward, Alike
<1> Counted(t)
  BY DEF Counted, Makers, Making, Operating, Counts
<1> Winds(t)
  BY DEF Winds, Making, Operating
<1> QED
  BY TouchStep

LEMMA EndInvocationKeeps ==
    ASSUME IInv, NEW t \in Clients, EndInvocation(t)
    PROVE  IInv'
<1> /\ t \in Threads /\ t # Shutdown /\ Places /\ Gates /\ Types /\ Holds(t) /\ Acts(t) /\ Parted(t)
    /\ Course /\ Counts
  BY KindsFacts DEF IInv, Places, Stages
<1> op[t] = "returning" /\ on[t] \in Instances /\ EndLease(t, on[t]) /\ (on[t] \in Managed => on[t] \in adopted)
  BY DEF EndInvocation, Holds, Acts, Using
<1> /\ Others(t) /\ op'[t] = "returned" /\ on'[t] = on[t] /\ reserved'[t] = reserved[t]
    /\ inside'[t] = inside[t] /\ leaseOn'[t] = leaseOn[t] /\ UNCHANGED <<operations, pending>>
  BY DEF EndInvocation, Others, Types, caller, managers, Goto
<1> UNCHANGED <<stage, gates, reserved, inside, committed, phase, k>>
  BY DEF EndInvocation, stage, course, gates, runtime, managers, worker, caller
<1> /\ Alike(on[t]) /\ UNCHANGED <<lane, adopted>>
    /\ \/ inst[on[t]] = "closing" /\ inst'[on[t]] = "hooks" /\ hook'[on[t]] = Cardinality(Bound)
       \/ inst'[on[t]] = inst[on[t]] /\ hook'[on[t]] = hook[on[t]]
  BY LeaseEnds DEF Alike
<1> Types'
  BY LeaseEnds DEF EndInvocation, Types, Goto, caller
<1> Holds(t)'
  BY DEF Holds, Making, Using, Reserving, Working
<1> Acts(t)'
  BY DEF Acts, Making, Using, Closers
<1> Careful(t)
  BY DEF Careful, Making, Closers
<1> Touched(t, on[t])
  BY DEF Touched, Making, Closers
<1> Onward
  BY DEF Onward, Alike
<1> Counted(t)
  BY DEF Counted, Makers, Making, Operating, Counts
<1> Winds(t)
  BY DEF Winds, Making, Operating
<1> QED
  BY TouchStep

LEMMA CloseInstanceKeeps ==
    ASSUME IInv, NEW t \in Clients, NEW i \in Instances, CloseInstance(t, i)
    PROVE  IInv'
<1> /\ t \in Threads /\ t # Shutdown /\ Places /\ Gates /\ Types /\ Holds(t) /\ Acts(t) /\ Parted(t)
    /\ Course /\ Counts
  BY KindsFacts DEF IInv, Places, Stages
<1> op[t] = "idle" /\ inst[i] = "open" /\ ~Creating(i) /\ CallClose(t, i, "close", "idle")
  BY DEF CloseInstance
<1> /\ Alike(i) /\ op' = [op EXCEPT ![t] = "close"] /\ inst'[i] = "preparing" /\ hook'[i] = hook[i]
    /\ DOMAIN inst' = Instances /\ UNCHANGED <<leases, hook, lane, runner, adopted>>
  BY DEF CallClose, Goto, Alike, Types
<1> \A u \in Threads : op[u] \in Closers => on[u] # i
  BY DEF Places, Acts
<1> /\ Others(t) /\ op'[t] = "close" /\ on'[t] = i /\ reserved'[t] = reserved[t]
    /\ inside'[t] = inside[t] /\ leaseOn'[t] = leaseOn[t] /\ UNCHANGED <<operations, pending>>
  BY DEF CloseInstance, Others, Types, managers
<1> UNCHANGED <<stage, gates, reserved, inside, committed, phase, k>>
  BY DEF CloseInstance, stage, course, gates, runtime, managers, worker
<1> Instance(i) /\ (i \in Managed => i \in adopted)
  BY NotCreating DEF Places
<1> ~committed /\ phase # "done" => i \notin Managed
  BY DEF Instance
<1> Types'
  BY DEF CloseInstance, Types
<1> Holds(t)'
  BY DEF Holds, Making, Using, Reserving, Working
<1> Acts(t)'
  BY DEF Acts, Making, Using, Closers
<1> Careful(t)
  BY DEF Careful, Making, Closers
<1> Touched(t, i)
  BY DEF Touched, Making, Closers
<1> Onward
  BY DEF Onward, Alike
<1> Counted(t)
  BY DEF Counted, Makers, Making, Operating, Counts
<1> Winds(t)
  BY DEF Winds, Making, Operating
<1> QED
  BY TouchStep

LEMMA RegisterInstanceKeeps ==
    ASSUME IInv, NEW t \in Clients, RegisterInstance(t)
    PROVE  IInv'
<1> /\ t \in Threads /\ t # Shutdown /\ Places /\ Gates /\ Types /\ Holds(t) /\ Acts(t) /\ Parted(t)
    /\ Course /\ Counts
  BY KindsFacts DEF IInv, Places, Stages
<1> /\ op[t] = "instantiate" /\ inside[t] = Nobody /\ on[t] \in Instances /\ inst[on[t]] = "none"
    /\ on[t] \notin adopted
  BY DEF RegisterInstance, Holds, Acts, Making
<1> /\ Others(t) /\ on'[t] = on[t] /\ reserved'[t] = reserved[t] /\ inside'[t] = inside[t]
    /\ leaseOn'[t] = leaseOn[t] /\ UNCHANGED <<operations, pending, hook, lane, runner, adopted>>
  BY DEF RegisterInstance, Others, Types, caller, managers, Goto
<1> UNCHANGED <<stage, gates, reserved, inside, committed, phase, k>>
  BY DEF RegisterInstance, stage, course, gates, runtime, managers, worker, caller
<1> Types'
  BY SMTT(30) DEF RegisterInstance, Types, Goto, caller
<1> CASE Closing
  <2> op'[t] = "ending" /\ UNCHANGED <<inst, leases, instances>>
    BY DEF RegisterInstance, Types, Goto, instances
  <2> Gates'
    BY QuietGates
  <2> Holds(t)'
    BY DEF Holds, Making, Using, Reserving, Working
  <2> Acts(t)'
    BY DEF Acts, Making, Using, Closers
  <2> Careful(t)
    BY DEF Careful, Making, Closers
  <2> Counted(t)
    BY DEF Counted, Makers, Making, Operating, Counts
  <2> Winds(t)
    BY DEF Winds, Making, Operating
  <2> QED
    BY CalmStep
<1> CASE ~Closing
  <2> /\ op'[t] = "registered" /\ inst'[on[t]] = "open" /\ leases'[on[t]] = 1 /\ Alike(on[t])
      /\ phase = "idle"
    BY DEF RegisterInstance, Types, Goto, Alike, Course, Closing
  <2> Holds(t)'
    BY DEF Holds, Making, Using, Reserving, Working
  <2> Acts(t)'
    BY DEF Acts, Making, Using, Closers
  <2> Careful(t)
    BY DEF Careful, Making, Closers
  <2> Touched(t, on[t])
    BY DEF Touched, Making, Closers
  <2> Onward
    BY DEF Onward, Alike
  <2> Counted(t)
    BY DEF Counted, Makers, Making, Operating, Counts
  <2> Winds(t)
    BY DEF Winds, Making, Operating
  <2> QED
    BY TouchStep
<1> QED
  OBVIOUS

LEMMA FinishInstantiateKeeps ==
    ASSUME IInv, NEW t \in Clients, FinishInstantiate(t)
    PROVE  IInv'
<1> /\ t \in Threads /\ t # Shutdown /\ Places /\ Gates /\ Types /\ Holds(t) /\ Acts(t) /\ Parted(t)
    /\ Course /\ Counts
  BY KindsFacts DEF IInv, Places, Stages
<1> op[t] = "built" /\ on[t] \in Instances /\ inside[t] = Nobody
  BY DEF FinishInstantiate, Holds, Making, Working
<1> /\ Others(t) /\ on'[t] = on[t] /\ reserved'[t] = reserved[t] /\ inside'[t] = inside[t]
    /\ leaseOn'[t] = leaseOn[t] /\ UNCHANGED <<operations, pending>>
  BY DEF FinishInstantiate, Others, Types, caller, managers, Goto, TakeBack, CallClose
<1> UNCHANGED <<stage, gates, reserved, inside, committed, phase, k>>
  BY DEF FinishInstantiate, stage, course, gates, runtime, managers, worker, caller
<1> Types'
  BY DEF FinishInstantiate, Types, Goto, TakeBack, CallClose, caller, instances
<1> CASE TakeBack(t) /\ inst[on[t]] = "open"
  <2> /\ Alike(on[t]) /\ op' = [op EXCEPT ![t] = "closeBuilt"] /\ inst'[on[t]] = "preparing"
      /\ UNCHANGED <<leases, hook, lane, runner, adopted>>
    BY DEF TakeBack, CallClose, Goto, Alike, Types
  <2> \A u \in Threads : op[u] \in Closers => on[u] # on[t]
    BY DEF Places, Acts
  <2> op'[t] = "closeBuilt"
    BY DEF Types
  <2> Holds(t)'
    BY DEF Holds, Making, Using, Reserving, Working
  <2> Acts(t)'
    BY DEF Acts, Making, Using, Closers
  <2> Careful(t)
    BY DEF Careful, Making, Closers
  <2> Touched(t, on[t])
    BY DEF Touched, Making, Closers
  <2> Onward
    BY DEF Onward, Alike
  <2> Counted(t)
    BY DEF Counted, Makers, Making, Operating, Counts
  <2> Winds(t)
    BY DEF Winds, Making, Operating
  <2> QED
    BY TouchStep
<1> CASE ~(TakeBack(t) /\ inst[on[t]] = "open")
  <2> /\ UNCHANGED instances /\ UNCHANGED <<inst, leases, hook, lane, runner, adopted>>
      /\ \/ op'[t] = "ending" /\ inst[on[t]] # "open"
         \/ op'[t] = "endingOk"
    BY DEF FinishInstantiate, TakeBack, CallClose, Types, Goto, instances
  <2> Gates'
    BY QuietGates
  <2> Holds(t)'
    BY DEF Holds, Making, Using, Reserving, Working
  <2> Acts(t)'
    BY DEF Acts, Making, Using, Closers
  <2> Careful(t)
    BY DEF Careful, Making, Closers
  <2> Counted(t)
    BY DEF Counted, Makers, Making, Operating, Counts
  <2> Winds(t)
    BY DEF Winds, Making, Operating
  <2> QED
    BY CalmStep
<1> QED
  OBVIOUS

LEMMA AdoptKeeps ==
    ASSUME IInv, NEW t \in Clients, Adopt(t)
    PROVE  IInv'
<1> /\ t \in Threads /\ t # Shutdown /\ Places /\ Gates /\ Types /\ Holds(t) /\ Acts(t) /\ Parted(t)
    /\ Course /\ Counts
  BY KindsFacts DEF IInv, Places, Stages
<1> /\ op[t] = "adopt" /\ on[t] \in Managed /\ on[t] \in Instances /\ inst[on[t]] = "open"
    /\ on[t] \notin adopted /\ reserved[t] = {} /\ inside[t] = Nobody
  BY KindsFacts DEF Adopt, Holds, Acts, Making, Reserving, Working
<1> /\ Others(t) /\ reserved'[t] = reserved[t] /\ inside'[t] = inside[t] /\ leaseOn'[t] = leaseOn[t]
    /\ UNCHANGED operations
  BY DEF Adopt, Others, Types, Goto, Finish, CallClose
<1> UNCHANGED <<stage, gates, reserved, inside, committed, phase, k>>
  BY DEF Adopt, stage, course, gates, runtime, worker
<1> CASE Owner[on[t]] \notin managerClosed
  <2> /\ adopted' = adopted \cup {on[t]} /\ pending' = [pending EXCEPT ![Owner[on[t]]] = @ - 1]
      /\ Finish(t) /\ UNCHANGED <<inst, leases, hook, lane, runner>>
    BY DEF Adopt
  <2> op'[t] = "idle" /\ on'[t] = Nobody
    BY DEF Types, Goto, Finish
  <2> Types'
    <3> UNCHANGED <<reserved, inside, leaseOn>>
      BY DEF Adopt
    <3> QED
      BY DEF Types, Goto, Finish
  <2> /\ DOMAIN pending' = Plugins /\ pending'[Owner[on[t]]] = pending[Owner[on[t]]] - 1
      /\ \A p \in Plugins : p # Owner[on[t]] => pending'[p] = pending[p]
    BY KindsFacts DEF Counts
  <2> \A p \in Plugins : (t \in Makers(p) <=> p = Owner[on[t]]) /\ t \notin Makers(p)'
    BY DEF Makers, Making
  <2> Counted(t)
    BY KindsFacts DEF Counted, Operating
  <2> Counts'
    BY CountsKeep
  <2> Gates'
    BY QuietGates
  <2> Winds(t) /\ Onward
    BY DEF Winds, Making, Operating, Onward
  <2> Parted(t)'
    BY Winding
  <2> \A u \in Threads : Holds(u)'
    <3> Holds(t)'
      BY DEF Holds, Making, Using, Working
    <3> ASSUME NEW u \in Threads, u # t
        PROVE  Holds(u)'
      <4> /\ Holds(u) /\ op'[u] = op[u] /\ on'[u] = on[u] /\ reserved'[u] = reserved[u]
          /\ inside'[u] = inside[u] /\ leaseOn'[u] = leaseOn[u]
        BY DEF Places, Others
      <4> QED
        BY DEF Holds
    <3> QED
      OBVIOUS
  <2> \A u \in Threads : Acts(u)'
    <3> Acts(t)'
      BY DEF Acts, Making, Using, Closers
    <3> ASSUME NEW u \in Threads, u # t
        PROVE  Acts(u)'
      <4> /\ Acts(u) /\ Alone(t, u) /\ op'[u] = op[u] /\ on'[u] = on[u]
          /\ op[u] \in Making => on[u] # on[t]
        BY DEF Places, Others, Alone, Making
      <4> QED
        BY DEF Acts
    <3> QED
      OBVIOUS
  <2> \A u, v \in Threads : Alone(u, v)'
    <3> ASSUME NEW u \in Threads, NEW v \in Threads
        PROVE  Alone(u, v)'
      <4> op'[t] \notin Making \cup Closers /\ Alone(u, v)
        BY DEF Making, Closers, Places
      <4> QED
        BY DEF Alone, Others
    <3> QED
      OBVIOUS
  <2> \A i \in Instances : Instance(i)'
    <3> ASSUME NEW i \in Instances
        PROVE  Instance(i)'
      <4> Instance(i)
        BY DEF Places
      <4> i \in Managed \ adopted' /\ inst[i] \notin {"none", "done"} =>
            \E u \in Clients : op'[u] \in Making /\ on'[u] = i
        <5> SUFFICES ASSUME i \in Managed \ adopted', inst[i] \notin {"none", "done"}
                     PROVE  \E u \in Clients : op'[u] \in Making /\ on'[u] = i
          OBVIOUS
        <5> PICK u \in Clients : op[u] \in Making /\ on[u] = i
          BY DEF Instance
        <5> u \in Threads /\ u # t
          BY DEF Threads
        <5> QED
          BY DEF Others
      <4> i # Nobody
        BY KindsFacts
      <4> on'[t] # i
        OBVIOUS
      <4> ~committed /\ phase # "done" /\ i \in Managed => \A u \in Threads : on'[u] # i
        BY DEF Instance, Others
      <4> QED
        BY DEF Instance
    <3> QED
      OBVIOUS
  <2> Places'
    BY DEF Places
  <2> QED
    BY StepKeeps
<1> CASE Owner[on[t]] \in managerClosed
  <2> CallClose(t, on[t], "closeRejected", "rejected") /\ UNCHANGED <<on, pending>>
    BY DEF Adopt
  <2> /\ Alike(on[t]) /\ op' = [op EXCEPT ![t] = "closeRejected"] /\ inst'[on[t]] = "preparing"
      /\ UNCHANGED <<leases, hook, lane, runner, adopted>>
    BY DEF CallClose, Goto, Alike, Types
  <2> \A u \in Threads : op[u] \in Closers => on[u] # on[t]
    BY DEF Places, Acts
  <2> op'[t] = "closeRejected" /\ on'[t] = on[t]
    BY DEF Types
  <2> Types'
    <3> DOMAIN inst' = Instances /\ UNCHANGED <<reserved, inside, leaseOn>>
      BY DEF Adopt, CallClose, Types
    <3> QED
      BY DEF Types
  <2> Holds(t)'
    BY DEF Holds, Making, Using, Reserving, Working
  <2> Acts(t)'
    BY DEF Acts, Making, Using, Closers
  <2> Careful(t)
    BY DEF Careful, Making, Closers
  <2> Touched(t, on[t])
    BY DEF Touched, Making, Closers
  <2> Onward
    BY DEF Onward, Alike
  <2> Counted(t)
    BY DEF Counted, Makers, Making, Operating, Counts
  <2> Winds(t)
    BY DEF Winds, Making, Operating
  <2> QED
    BY TouchStep
<1> QED
  OBVIOUS

LEMMA BeginInstanceInvocationKeeps ==
    ASSUME IInv, NEW t \in Clients, BeginInstanceInvocation(t)
    PROVE  IInv'
<1> /\ t \in Threads /\ t # Shutdown /\ Places /\ Gates /\ Types /\ Holds(t) /\ Acts(t) /\ Parted(t)
    /\ Course /\ Counts
  BY KindsFacts DEF IInv, Places, Stages
<1> op[t] = "admitting" /\ on[t] \in Instances /\ (on[t] \in Managed => on[t] \in adopted) /\ reserved[t] = {}
  BY DEF BeginInstanceInvocation, Holds, Acts, Using, Reserving
<1> /\ Others(t) /\ reserved'[t] = reserved[t] /\ inside'[t] = inside[t] /\ leaseOn'[t] = leaseOn[t]
    /\ UNCHANGED <<pending, inst, hook, lane, runner, adopted>>
  BY DEF BeginInstanceInvocation, Others, Types, Goto, Finish, managers
<1> UNCHANGED <<stage, gates, reserved, inside, committed, phase, k>>
  BY DEF BeginInstanceInvocation, stage, course, gates, runtime, managers, worker
<1> CASE inst[on[t]] = "open"
  <2> PICK o \in {"invoke", "reserving"} : Goto(t, o)
    BY DEF BeginInstanceInvocation
  <2> leases' = [leases EXCEPT ![on[t]] = @ + 1] /\ UNCHANGED <<on, operations>>
    BY DEF BeginInstanceInvocation
  <2> leases[on[t]] \in Int
    BY DEF Types
  <2> leases[on[t]] + 1 \in Int
    BY SMTT(30)
  <2> Types'
    <3> UNCHANGED <<reserved, inside, leaseOn>>
      BY DEF BeginInstanceInvocation
    <3> QED
      BY DEF Types, Goto
  <2> op'[t] \in {"invoke", "reserving"} /\ on'[t] = on[t]
    BY DEF Types, Goto
  <2> Alike(on[t])
    BY DEF Alike, Types
  <2> phase \notin Late
    <3> SUFFICES ASSUME phase \in Late
                 PROVE  FALSE
      OBVIOUS
    <3> on[t] \in Managed
      BY DEF Parted, Operating
    <3> PICK j \in 1..N : Owner[on[t]] = Order[j]
      BY OrderAssumption, KindsFacts
    <3> DrainedTo(j) /\ Ended(on[t])
      BY DEF DrainedTo, IInv, Stages
    <3> QED
      BY DEF Ended
  <2> Holds(t)'
    BY DEF Holds, Making, Using, Reserving, Working
  <2> Acts(t)'
    BY DEF Acts, Making, Using, Closers
  <2> Careful(t)
    BY DEF Careful, Making, Closers
  <2> Touched(t, on[t])
    BY DEF Touched, Making, Closers
  <2> Onward
    BY DEF Onward, Alike
  <2> Counted(t)
    BY DEF Counted, Makers, Making, Operating, Counts
  <2> Parted(t)'
    BY DEF Parted, StoppedTo, DrainedTo, Making
  <2> QED
    BY TouchStep
<1> CASE inst[on[t]] # "open"
  <2> op'[t] = "idle" /\ on'[t] = Nobody /\ operations' = operations - 1 /\ UNCHANGED leases
    BY DEF BeginInstanceInvocation, Types, Goto, Finish
  <2> Types'
    BY DEF BeginInstanceInvocation, Types, Goto, Finish
  <2> UNCHANGED instances
    BY DEF instances
  <2> Gates'
    BY QuietGates
  <2> Holds(t)'
    BY DEF Holds, Making, Using, Reserving, Working
  <2> Acts(t)'
    BY DEF Acts, Making, Using, Closers
  <2> Careful(t)
    BY KindsFacts DEF Careful, Making, Closers
  <2> Counted(t)
    BY DEF Counted, Makers, Making, Operating, Counts
  <2> Winds(t)
    BY DEF Winds, Making, Operating
  <2> QED
    BY CalmStep
<1> QED
  OBVIOUS

LEMMA PrepareCloseKeeps ==
    ASSUME IInv, NEW t \in Threads, PrepareClose(t)
    PROVE  IInv'
<1> /\ t \in Threads /\ Places /\ Gates /\ Types /\ Holds(t) /\ Acts(t) /\ Parted(t)
    /\ Course /\ Counts
  BY KindsFacts DEF IInv, Places, Stages
<1> /\ op[t] \in Closers /\ inside[t] = Nobody /\ on[t] \in Instances /\ inst[on[t]] = "preparing"
    /\ t = Shutdown => op[t] = "close"
  BY DEF PrepareClose, Holds, Acts, Making, Using, Closers
<1> UNCHANGED <<stage, gates, reserved, inside, leaseOn, operations, pending, leases, lane, adopted>>
  BY DEF PrepareClose, StartHooks, stage, course, gates, runtime, managers, worker
<1> UNCHANGED <<committed, phase, k>>
  BY DEF stage, course
<1> /\ DOMAIN op' = Threads /\ on' \in [Threads -> Instances \cup {Nobody}]
    /\ \A u \in Threads : u # t => op'[u] = op[u] /\ on'[u] = on[u]
    /\ op[t] = "close" => op'[t] = "idle" /\ on'[t] = Nobody
    /\ op[t] = "closeBuilt" => op'[t] = "ending" /\ on'[t] = on[t]
    /\ op[t] = "closeRejected" => op'[t] = "rejected" /\ on'[t] = on[t]
  <2> CASE op[t] = "close"
    <3> Finish(t)
      BY DEF PrepareClose
    <3> QED
      BY DEF Types, Goto, Finish
  <2> CASE op[t] = "closeBuilt"
    <3> Goto(t, "ending") /\ UNCHANGED on
      BY DEF PrepareClose
    <3> QED
      BY DEF Types, Goto
  <2> CASE op[t] = "closeRejected"
    <3> Goto(t, "rejected") /\ UNCHANGED on
      BY DEF PrepareClose
    <3> QED
      BY DEF Types, Goto
  <2> QED
    BY DEF Closers
<1> Others(t) /\ reserved'[t] = reserved[t] /\ inside'[t] = inside[t] /\ leaseOn'[t] = leaseOn[t]
  BY DEF Others
<1> /\ Alike(on[t]) /\ inst'[on[t]] \in {"hooks", "closing"}
    /\ hook'[on[t]] \in {hook[on[t]], Cardinality(Bound)}
    /\ leases[on[t]] = 0 /\ on[t] \notin adopted => runner'[on[t]] = t
    /\ DOMAIN inst' = Instances /\ hook' \in [Instances -> 0..N] /\ DOMAIN runner' = Instances
  <2> CASE leases[on[t]] = 0
    <3> StartHooks(t, on[t])
      BY DEF PrepareClose
    <3> QED
      BY BoundFacts DEF StartHooks, Alike, Types
  <2> CASE leases[on[t]] # 0
    <3> inst' = [inst EXCEPT ![on[t]] = "closing"] /\ UNCHANGED <<hook, runner>>
      BY DEF PrepareClose
    <3> QED
      BY DEF Alike, Types
  <2> QED
    OBVIOUS
<1> Types'
  BY DEF Types
<1> Holds(t)'
  BY DEF Holds, Closers, Making, Using, Reserving, Working
<1> Acts(t)'
  BY DEF Acts, Making, Using, Closers
<1> Careful(t)
  BY KindsFacts DEF Careful, Making, Closers
<1> Touched(t, on[t])
  BY KindsFacts DEF Touched, Acts, Using, Making, Closers
<1> Onward
  BY DEF Onward, Alike
<1> Counted(t)
  BY DEF Counted, Makers, Making, Operating, Counts, Closers
<1> Winds(t)
  BY DEF Winds, Closers, Making, Operating
<1> QED
  BY TouchStep

-----------------------------------------------------------------------------
(* AfterClose hooks, which no goroutine waits for in between. *)

\* Instances in their terminal phase, as no goroutine moves.
LEMMA HookPlaces ==
    ASSUME IInv, UNCHANGED <<stage, op, on, reserved, inside, leaseOn, leases, adopted>>,
           NEW i \in Instances, inst[i] = "hooks", inst'[i] \in {"hooks", "done"}, Types',
           \A j \in Instances : j # i =>
              inst'[j] = inst[j] /\ hook'[j] = hook[j] /\ lane'[j] = lane[j] /\ runner'[j] = runner[j],
           runner'[i] = runner[i] \/ inst'[i] = "done",
           lane'[i] \in {"none", "terminal", "ordinary"},
           lane'[i] # "none" => inst'[i] = "hooks" /\ hook'[i] > 0,
           ~committed /\ phase # "done" => hook'[i] = 0
    PROVE  Places' /\ Onward /\ Others(Nobody)
<1> Places /\ Types /\ UNCHANGED <<committed, phase>>
  BY DEF IInv, Places, stage, course
<1> ASSUME NEW t \in Threads
    PROVE  Holds(t)' /\ Acts(t)'
  <2> Holds(t) /\ Acts(t)
    BY DEF Places
  <2> Holds(t)'
    BY DEF Holds
  <2> Acts(t)'
    <3> CASE on[t] = i
      BY DEF Acts
    <3> CASE on[t] # i
      <4> op[t] \in Making \cup Using =>
            on[t] \in Instances /\ inst'[on[t]] = inst[on[t]] /\ runner'[on[t]] = runner[on[t]]
        BY DEF Holds
      <4> QED
        BY DEF Acts, Making, Using, Closers
    <3> QED
      OBVIOUS
  <2> QED
    OBVIOUS
<1> \A t, u \in Threads : Alone(t, u)'
  BY DEF Places, Alone
<1> ASSUME NEW j \in Instances
    PROVE  Instance(j)'
  <2> Instance(j)
    BY DEF Places
  <2> CASE j # i
    BY DEF Instance
  <2> CASE j = i
    BY DEF Instance
  <2> QED
    OBVIOUS
<1> Onward /\ Others(Nobody)
  BY DEF Onward, Others
<1> QED
  BY DEF Places

\* The users of gates, when only the lane of i changes.
LEMMA HookUses ==
    ASSUME NEW i \in Instances, UNCHANGED <<reserved, inside>>,
           \A j \in Instances : j # i => hook'[j] = hook[j] /\ lane'[j] = lane[j], NEW p
    PROVE  LET before == lane[i] = "ordinary" /\ Order[hook[i]] = p
               after  == lane'[i] = "ordinary" /\ Order[hook'[i]] = p
           IN /\ (before <=> after) => Users(p)' = Users(p)
              /\ ~before /\ after => i \notin Users(p) /\ Users(p)' = Users(p) \cup {i}
              /\ before /\ ~after => i \in Users(p) /\ Users(p)' = Users(p) \ {i}
<1> DEFINE before == lane[i] = "ordinary" /\ Order[hook[i]] = p
           after  == lane'[i] = "ordinary" /\ Order[hook'[i]] = p
<1> i \notin Threads
  BY KindsAssumption
<1> i \in Users(p) <=> before
  BY DEF Users
<1> i \in Users(p)' <=> after
  BY DEF Users
<1> \A x : x # i => (x \in Users(p)' <=> x \in Users(p))
  BY DEF Users
<1> HIDE DEF before, after
<1> (before <=> after) => Users(p)' = Users(p)
  BY SMTT(30)
<1> ~before /\ after => i \notin Users(p) /\ Users(p)' = Users(p) \cup {i}
  BY SMTT(30)
<1> before /\ ~after => i \in Users(p) /\ Users(p)' = Users(p) \ {i}
  BY SMTT(30)
<1> QED
  BY DEF before, after

\* A hook on the terminal lane is nobody's call.
LEMMA SameUsers ==
    ASSUME Gates, UNCHANGED <<calls, shut, drained, terminal>>, \A p \in Plugins : Users(p)' = Users(p)
    PROVE  Gates'
BY DEF Gates, Gate

LEMMA HookStepKeeps ==
    ASSUME IInv, UNCHANGED <<stage, op, on, operations, pending>>, Places', Gates', Onward, Others(Nobody)
    PROVE  IInv'
<1> Counts'
  BY CountsFrame DEF IInv
<1> QED
  BY StepKeeps, KindsFacts

LEMMA TerminalDoneKeeps ==
    ASSUME IInv, NEW i \in Instances, TerminalDone(i)
    PROVE  IInv'
<1> Types /\ Instance(i) /\ Gates
  BY DEF IInv, Places
<1> /\ inst[i] = "hooks" /\ hook[i] = 0 /\ inst'[i] = "done" /\ UNCHANGED <<hook, lane, leases, adopted>>
    /\ \A j \in Instances : j # i => inst'[j] = inst[j] /\ runner'[j] = runner[j]
  BY DEF TerminalDone, Types
<1> /\ UNCHANGED <<stage, gates, op, on, reserved, inside, leaseOn, operations, pending>>
  BY DEF TerminalDone, stage, course, gates, runtime, managers, worker, caller
<1> lane[i] = "none"
  BY SMTT(30) DEF Instance
<1> Types'
  BY DEF TerminalDone, Types, caller
<1> Places' /\ Onward /\ Others(Nobody)
  BY HookPlaces
<1> Gates'
  BY QuietGates
<1> QED
  BY HookStepKeeps

LEMMA EnterHookKeeps ==
    ASSUME IInv, NEW i \in Instances, EnterHook(i)
    PROVE  IInv'
<1> Types /\ Instance(i) /\ Gates
  BY DEF IInv, Places
<1> /\ inst[i] = "hooks" /\ hook[i] > 0 /\ lane[i] = "none" /\ lane'[i] \in {"terminal", "ordinary"}
    /\ UNCHANGED <<inst, hook, runner, leases, adopted>>
    /\ \A j \in Instances : j # i => lane'[j] = lane[j]
  BY DEF EnterHook, Types
<1> /\ UNCHANGED <<stage, op, on, reserved, inside, leaseOn, operations, pending>>
  BY DEF EnterHook, EnterTerminal, EnterOrdinary, Enter, stage, course, runtime, managers, worker, caller
<1> Types'
  BY DEF EnterHook, Types, caller
<1> Places' /\ Onward /\ Others(Nobody)
  BY HookPlaces DEF Instance
<1> Order[hook[i]] \in Plugins
  BY HookPlugin
<1> Gates'
  <2> CASE EnterTerminal(Order[hook[i]]) /\ lane' = [lane EXCEPT ![i] = "terminal"]
    <3> lane'[i] = "terminal" /\ UNCHANGED <<calls, shut, drained, terminal>>
      BY DEF EnterTerminal, Types
    <3> \A p \in Plugins : Users(p)' = Users(p)
      BY HookUses
    <3> QED
      BY SameUsers
  <2> CASE EnterOrdinary(Order[hook[i]]) /\ lane' = [lane EXCEPT ![i] = "ordinary"]
    <3> DEFINE q == Order[hook[i]]
    <3> /\ lane'[i] = "ordinary" /\ UNCHANGED <<shut, drained, terminal>> /\ DOMAIN calls' = Plugins
        /\ ~shut[q] /\ calls'[q] = calls[q] + 1 /\ \A p \in Plugins : p # q => calls'[p] = calls[p]
      BY DEF EnterOrdinary, Enter, Types, Gates
    <3> HIDE DEF q
    <3> /\ \A p \in Plugins : p \in {q} => i \notin Users(p) /\ Users(p)' = Users(p) \cup {i}
        /\ \A p \in Plugins : p \notin {q} => Users(p)' = Users(p)
      BY HookUses DEF q
    <3> /\ \A p \in Plugins : p \in {q} => ~shut[p] /\ calls'[p] = calls[p] + 1
        /\ \A p \in Plugins : p \notin {q} => calls'[p] = calls[p]
      OBVIOUS
    <3> QED
      BY GatesEnter
  <2> QED
    BY DEF EnterHook
<1> QED
  BY HookStepKeeps

LEMMA LeaveHookKeeps ==
    ASSUME IInv, NEW i \in Instances, LeaveHook(i)
    PROVE  IInv'
<1> Types /\ Instance(i) /\ Gates
  BY DEF IInv, Places
<1> /\ inst[i] = "hooks" /\ hook[i] > 0 /\ lane[i] \in {"terminal", "ordinary"} /\ lane'[i] = "none"
    /\ UNCHANGED <<inst, runner, leases, adopted>>
    /\ \A j \in Instances : j # i => hook'[j] = hook[j] /\ lane'[j] = lane[j]
  BY DEF LeaveHook, Types, Instance
<1> /\ UNCHANGED <<stage, op, on, reserved, inside, leaseOn, operations, pending>>
  BY DEF LeaveHook, ReleaseTerminal, Leave, stage, course, runtime, managers, worker, caller
<1> hook[i] \in 0..N /\ hook' = [hook EXCEPT ![i] = hook[i] - 1] /\ hook \in [Instances -> 0..N]
  BY DEF LeaveHook, Types
<1> hook[i] - 1 \in 0..N /\ hook[i] # 0
  BY HookPlugin
<1> hook' \in [Instances -> 0..N]
  OBVIOUS
<1> Types'
  BY DEF LeaveHook, Types, caller
<1> committed \/ phase = "done"
  BY DEF Instance
<1> Places' /\ Onward /\ Others(Nobody)
  BY HookPlaces
<1> Order[hook[i]] \in Plugins
  BY HookPlugin
<1> Gates'
  <2> CASE lane[i] = "terminal"
    <3> UNCHANGED <<calls, shut, drained, terminal>>
      BY DEF LeaveHook, ReleaseTerminal
    <3> \A p \in Plugins : Users(p)' = Users(p)
      BY HookUses
    <3> QED
      BY SameUsers
  <2> CASE lane[i] = "ordinary"
    <3> DEFINE q == Order[hook[i]]
    <3> Leave({q})
      BY DEF LeaveHook
    <3> HIDE DEF q
    <3> /\ \A p \in Plugins : p \in {q} => i \in Users(p) /\ Users(p)' = Users(p) \ {i}
        /\ \A p \in Plugins : p \notin {q} => Users(p)' = Users(p)
      BY HookUses DEF q
    <3> QED
      BY GatesLeave
  <2> QED
    OBVIOUS
<1> QED
  BY HookStepKeeps

-----------------------------------------------------------------------------
(* Stages: the loader and finishClose. *)

still == <<op, on, reserved, inside, leaseOn, inst>>

LEMMA NotYetClosing ==
    ASSUME Course, ~Closing
    PROVE  phase = "idle" /\ phase \in Early \ {"terminal", "direct"}
BY DEF Course, Early

LEMMA BeginPluginLoadStages ==
    ASSUME IInv, BeginPluginLoad
    PROVE  Stages'
<1> ~Closing /\ UNCHANGED <<phase, stopped, shut>>
  BY DEF BeginPluginLoad, Closing, gates, worker
<1> QED
  BY NotYetClosing, EarlyStages DEF IInv

\* The load transaction, before finishClose has waited for it.
LEMMA LoadingStages ==
    ASSUME IInv, CommitPluginPlan \/ StartPlugin \/ FinishPluginLoad \/ BeginFailedPluginRollback
    PROVE  Stages'
<1> ~LoadingDone /\ UNCHANGED <<phase, stopped, shut>>
  BY DEF CommitPluginPlan, StartPlugin, FinishPluginLoad, BeginFailedPluginRollback, LoadingDone,
      gates, worker
<1> phase \in {"idle", "loading"}
  BY DEF IInv, Course
<1> phase \in Early \ {"terminal", "direct"}
  BY DEF Early
<1> QED
  BY EarlyStages DEF IInv

LEMMA PublishStages ==
    ASSUME IInv, ~closing, PublishClose, UNCHANGED <<stopped, shut>>
    PROVE  Stages'
<1> phase = "idle" /\ phase' = "loading"
  BY DEF IInv, Course, PublishClose
<1> phase \in Early /\ phase' \in Early \ {"terminal", "direct"}
  BY DEF Early
<1> QED
  BY EarlyStages DEF IInv

LEMMA CloseStages ==
    ASSUME IInv, Close
    PROVE  Stages'
BY PublishStages DEF Close, gates

LEMMA RollbackCommittedPluginPlanStages ==
    ASSUME IInv, RollbackCommittedPluginPlan
    PROVE  Stages'
<1> CASE ~closing
  BY PublishStages DEF RollbackCommittedPluginPlan, gates
<1> CASE closing
  <2> /\ UNCHANGED <<committed, phase, k, started, stopped, managerClosed, revoked, shut, terminal>>
      /\ UNCHANGED still
    BY DEF RollbackCommittedPluginPlan, gates, managers, caller, instances, still
  <2> Others(Nobody) /\ Onward
    BY DEF Others, Onward, still
  <2> QED
    BY StagesFrame, KindsFacts DEF IInv
<1> QED
  OBVIOUS

\* A rolled-back plan is unpublished when the runtime is closed.
LEMMA FinishRollbackStages ==
    ASSUME IInv, FinishRollback
    PROVE  Stages'
<1> /\ phase = "done" /\ committed' = FALSE /\ UNCHANGED <<phase, k, started, stopped, shut>>
    /\ UNCHANGED <<op, on, reserved, inside, leaseOn, inst>>
  BY DEF FinishRollback, gates, caller, instances, worker
<1> \A j \in 1..N : /\ StoppedTo(j)' <=> StoppedTo(j)
                    /\ DrainedTo(j)' <=> DrainedTo(j)
  BY DEF StoppedTo, DrainedTo
<1> \A j \in 1..N : Past(j)'
  BY DEF IInv, Stages, Past
<1> \A t \in Threads : Parted(t)'
  BY DEF IInv, Stages, Parted
<1> \A i \in Instances : Ended(i)'
  BY DEF IInv, Stages, Ended
<1> QED
  BY DEF IInv, Stages

LEMMA SnapshotCloseStages ==
    ASSUME IInv, SnapshotClose
    PROVE  Stages'
<1> phase = "loading" /\ phase' = "compiles" /\ UNCHANGED <<stopped, shut>>
  BY DEF SnapshotClose, Advance, gates
<1> phase \in Early /\ phase' \in Early \ {"terminal", "direct"}
  BY DEF Early
<1> QED
  BY EarlyStages DEF IInv

\* Nothing but the terminal lanes is touched yet.
LEMMA OpeningStages ==
    ASSUME IInv, phase \in Early, phase' \in {"terminal", "direct"}, UNCHANGED <<stopped, shut>>,
           \A j \in 1..N : OpenedTo(j)' /\ committed' => terminal'[Order[j]]
    PROVE  Stages'
<1> \A j \in 1..N : ~StoppedTo(j) /\ ~StoppedTo(j)' /\ ~DrainedTo(j)'
  BY DEF StoppedTo, DrainedTo, Early, Stopping, Draining, Late
<1> phase # "revoking" /\ phase' \notin {"revoking", "stopping", "drainGate"} \cup Late /\ phase' \in Early
  BY DEF Early, Late
<1> \A j \in 1..N : Past(j)'
  BY DEF IInv, Stages, Past
<1> \A t \in Threads : Parted(t)'
  BY DEF Parted
<1> \A i \in Instances : Ended(i)'
  BY DEF Ended, Final, Late
<1> QED
  BY DEF IInv, Stages

LEMMA DrainCallbacksStages ==
    ASSUME IInv, DrainCallbacks
    PROVE  Stages'
<1> UNCHANGED <<stopped, shut, committed>> /\ k' = Cardinality(Bound)
  BY DEF DrainCallbacks, Advance, gates, unchangedByWorker, runtime
<1> CASE phase = "compiles" /\ phase' = "moduleCloses"
  <2> phase \in Early /\ phase' \in Early \ {"terminal", "direct"}
    BY DEF Early
  <2> QED
    BY EarlyStages DEF IInv
<1> CASE phase = "moduleCloses" /\ phase' = "terminal"
  <2> phase \in Early
    BY DEF Early
  <2> \A j \in 1..N : ~(OpenedTo(j)' /\ committed')
    BY SMTT(30), OrderFacts, BoundFacts DEF OpenedTo, Stopping, Draining
  <2> QED
    BY OpeningStages
<1> QED
  BY DEF DrainCallbacks, Advance

LEMMA OpenTerminalLaneStages ==
    ASSUME IInv, OpenTerminalLane
    PROVE  Stages'
<1> /\ phase = "terminal" /\ phase' = "terminal" /\ k' = k - 1
    /\ UNCHANGED <<stopped, shut, committed>>
  BY DEF OpenTerminalLane, At, BeginTerminalCallbacks, unchangedByWorker, runtime
<1> k \in 1..N /\ Order[k] \in Plugins
  BY AtPlugin DEF IInv, OpenTerminalLane, At
<1> terminal' = [terminal EXCEPT ![Order[k]] = TRUE] /\ DOMAIN terminal = Plugins
  BY DEF OpenTerminalLane, BeginTerminalCallbacks, Here, IInv, Gates
<1> \A j \in 1..N : OpenedTo(j)' => OpenedTo(j) \/ j = k
  BY SMTT(30), OrderFacts DEF OpenedTo, Stopping, Draining
<1> ASSUME NEW j \in 1..N, OpenedTo(j)', committed'
    PROVE  terminal'[Order[j]]
  <2> Order[j] \in Plugins /\ Past(j)
    BY OrderFacts DEF IInv, Stages
  <2> QED
    BY DEF Past
<1> phase \in Early
  BY DEF Early
<1> QED
  BY OpeningStages

LEMMA StopAdmissionStages ==
    ASSUME IInv, StopAdmission
    PROVE  Stages'
<1> /\ phase = "stop" /\ phase' = "stopping" /\ k' = k
    /\ UNCHANGED <<stopped, committed, started, revoked, terminal>>
    /\ UNCHANGED still
  BY DEF StopAdmission, At, Deactivate, unchangedByWorker, runtime, instances, still
<1> k \in 1..N /\ Order[k] \in Plugins
  BY AtPlugin DEF IInv, StopAdmission, At
<1> /\ shut' = [shut EXCEPT ![Order[k]] = TRUE] /\ DOMAIN shut = Plugins
    /\ managerClosed' = managerClosed \cup {Order[k]}
  BY DEF StopAdmission, Deactivate, Here, IInv, Gates
<1> \A j \in 1..N : /\ StoppedTo(j)' <=> StoppedTo(j)
                    /\ OpenedTo(j) /\ ~DrainedTo(j)'
  BY DEF StoppedTo, DrainedTo, OpenedTo, Stopping, Draining, Late
<1> ASSUME NEW j \in 1..N
    PROVE  Past(j)'
  <2> Past(j) /\ Order[j] \in Plugins
    BY OrderFacts DEF IInv, Stages
  <2> (shut[Order[j]] => shut'[Order[j]]) /\ (j = k => shut'[Order[j]])
    OBVIOUS
  <2> phase' \notin Early
    BY DEF Early
  <2> QED
    BY DEF Past
<1> \A t \in Threads : Parted(t)'
  BY DEF IInv, Stages, Parted, Late, still
<1> \A i \in Instances : Ended(i)'
  BY DEF Ended, Final
<1> QED
  BY DEF IInv, Stages

LEMMA StopPluginStages ==
    ASSUME IInv, StopPlugin
    PROVE  Stages'
<1> /\ phase = "stopping" /\ phase' = "revoking" /\ k' = k
    /\ UNCHANGED <<committed, started, managerClosed, shut, terminal>> /\ UNCHANGED still
  BY DEF StopPlugin, gates, unchangedByWorker, runtime, instances, still
<1> k \in 1..N /\ Order[k] \in Plugins
  BY AtPlugin DEF IInv
<1> /\ stopped' = stopped \cup ({Order[k]} \cap started)
    /\ revoked' = revoked \cup {Order[k]}
  BY DEF StopPlugin, Here, IInv, Course
<1> \A j \in 1..N : /\ StoppedTo(j)' <=> StoppedTo(j)
                    /\ OpenedTo(j) /\ ~DrainedTo(j)'
  BY DEF StoppedTo, DrainedTo, OpenedTo, Stopping, Draining, Late
<1> ASSUME NEW j \in 1..N
    PROVE  Past(j)'
  <2> Past(j) /\ (Order[j] = Order[k] => j = k)
    BY OrderAssumption DEF IInv, Stages
  <2> phase' \notin Early
    BY DEF Early
  <2> QED
    BY DEF Past
<1> \A t \in Threads : Parted(t)'
  BY DEF IInv, Stages, Parted, Late, still
<1> \A i \in Instances : Ended(i)'
  BY DEF Ended, Final
<1> stopped' \subseteq Plugins
  BY DEF IInv, Stages, Course
<1> QED
  BY DEF Stages

\* The leases of a stopped consumer have ended.
LEMMA RevokeContractsStages ==
    ASSUME IInv, RevokeContracts
    PROVE  Stages'
<1> /\ phase = "revoking" /\ phase' = "stop" /\ k' = k - 1
    /\ UNCHANGED <<stopped, committed, started, managerClosed, revoked, shut, terminal>>
    /\ UNCHANGED still
  BY DEF RevokeContracts, gates, managers, unchangedByWorker, runtime, instances, still
<1> k \in 1..N /\ Order[k] \in Plugins
  BY AtPlugin DEF IInv
<1> \A j \in 1..N : /\ StoppedTo(j)' <=> StoppedTo(j) \/ j = k
                    /\ OpenedTo(j) /\ ~DrainedTo(j)'
  BY SMTT(30), OrderFacts DEF StoppedTo, DrainedTo, OpenedTo, Stopping, Draining, Late
<1> ASSUME NEW j \in 1..N
    PROVE  Past(j)'
  <2> Past(j) /\ phase' \notin Early
    BY DEF IInv, Stages, Early
  <2> QED
    BY DEF Past
<1> ASSUME NEW t \in Threads
    PROVE  Parted(t)'
  <2> Parted(t) /\ (inside[t] = Order[k] => leaseOn[t] = Nobody)
    BY DEF RevokeContracts, Here, IInv, Stages
  <2> QED
    BY DEF Parted, Late, still
<1> \A i \in Instances : Ended(i)'
  BY DEF Ended, Final
<1> QED
  BY DEF IInv, Stages

\* Without plugins there is nothing to drain.
LEMMA NothingBound ==
    ASSUME IInv, ~committed, phase # "done", NEW j \in 1..N
    PROVE  /\ \A t \in Threads : inside[t] # Order[j] /\ Order[j] \notin reserved[t] /\ on[t] \notin Managed
           /\ \A i \in Managed : inst[i] = "none"
<1> Order[j] # Nobody /\ Managed \subseteq Instances
  BY OrderFacts, KindsFacts
<1> \A t \in Threads : inside[t] = Nobody /\ reserved[t] = {}
  BY DEF IInv, Places, Holds
<1> \A i \in Managed : inst[i] = "none" /\ \A t \in Threads : on[t] # i
  BY DEF IInv, Places, Instance
<1> QED
  OBVIOUS

LEMMA AllStoppedStages ==
    ASSUME IInv, AllStopped
    PROVE  Stages'
<1> /\ phase = "stop" /\ phase' = "drain" /\ k = 0 /\ k' = Cardinality(Bound)
    /\ UNCHANGED <<stopped, committed, started, managerClosed, revoked, shut, terminal>>
    /\ UNCHANGED still
  BY DEF AllStopped, Advance, gates, managers, unchangedByWorker, runtime, instances, still
<1> \A j \in 1..N : StoppedTo(j)' /\ StoppedTo(j) /\ OpenedTo(j)
  BY SMTT(30), OrderFacts DEF StoppedTo, OpenedTo, Stopping, Draining, Late
<1> \A j \in 1..N : DrainedTo(j)' => ~committed
  BY SMTT(30), OrderFacts, BoundFacts DEF DrainedTo, Draining, Late
<1> ASSUME NEW j \in 1..N
    PROVE  Past(j)'
  <2> Past(j) /\ phase' \notin Early
    BY DEF IInv, Stages, Early
  <2> QED
    BY DEF Past
<1> ASSUME NEW t \in Threads
    PROVE  Parted(t)'
  <2> Parted(t) /\ phase # "done"
    BY DEF IInv, Stages
  <2> \A j \in 1..N : DrainedTo(j)' =>
        inside[t] # Order[j] /\ Order[j] \notin reserved[t] /\ on[t] \notin Managed
    BY NothingBound
  <2> QED
    BY DEF Parted, Late, still
<1> ASSUME NEW i \in Instances
    PROVE  Ended(i)'
  <2> \A j \in 1..N : DrainedTo(j)' /\ i \in Managed => inst[i] = "none"
    BY NothingBound
  <2> QED
    BY DEF Ended, Final, still
<1> QED
  BY DEF IInv, Stages

\* A drained gate has no caller, and the manager's instances are over.
LEMMA DrainGateStages ==
    ASSUME IInv, DrainGate
    PROVE  Stages'
<1> /\ phase = "drainGate" /\ phase' = "drain" /\ k' = k - 1 /\ drained[Order[k]]
    /\ UNCHANGED <<stopped, committed, started, managerClosed, revoked, shut, terminal>>
    /\ UNCHANGED still
  BY DEF DrainGate, Here, gates, managers, unchangedByWorker, runtime, instances, still
<1> k \in 1..N /\ Order[k] \in Plugins
  BY AtPlugin DEF IInv
<1> \A j \in 1..N : /\ StoppedTo(j)' /\ StoppedTo(j) /\ OpenedTo(j)
                    /\ DrainedTo(j)' <=> DrainedTo(j) \/ j = k
  BY SMTT(30), OrderFacts DEF StoppedTo, DrainedTo, OpenedTo, Draining, Late
<1> ASSUME NEW j \in 1..N
    PROVE  Past(j)'
  <2> Past(j) /\ phase' \notin Early
    BY DEF IInv, Stages, Early
  <2> QED
    BY DEF Past
<1> \A t \in Threads : inside[t] # Order[k] /\ Order[k] \notin reserved[t]
  <2> Order[k] \in Plugins
    BY OrderFacts
  <2> Cardinality(Users(Order[k])) = 0
    BY DEF IInv, Gates, Gate
  <2> Users(Order[k]) = {}
    BY UsersKinds, Counting
  <2> QED
    BY DEF Users
<1> ASSUME NEW t \in Threads
    PROVE  Parted(t)'
  <2> Parted(t)
    BY DEF IInv, Stages
  <2> QED
    BY DEF Parted, Late, still
<1> ASSUME NEW i \in Instances
    PROVE  Ended(i)'
  <2> i \in Managed /\ Owner[i] = Order[k] => inst[i] \in {"none", "done"}
    <3> SUFFICES ASSUME i \in Managed, Owner[i] = Order[k], inst[i] \notin {"none", "done"}
                 PROVE  FALSE
      OBVIOUS
    <3> i \notin adopted
      BY DEF DrainGate, OwnedBy, Here
    <3> PICK t \in Clients : op[t] \in Making /\ on[t] = i
      BY DEF IInv, Places, Instance
    <3> Parted(t)
      BY KindsFacts DEF IInv, Stages
    <3> QED
      BY DEF Parted
  <2> Ended(i)
    BY DEF IInv, Stages
  <2> QED
    BY DEF Ended, Final, still
<1> QED
  BY DEF IInv, Stages

\* From here on only calls of managed instances may still be admitted.
LEMMA DrainOperationsStages ==
    ASSUME IInv, DrainOperations
    PROVE  Stages'
<1> /\ phase \in Draining \cup Late /\ (phase \in Draining => k = 0 /\ phase # "drainGate")
    /\ phase' \in {"waitDirect", "lanes"} /\ (phase \notin Late => operations = 0)
    /\ phase' = "lanes" => \A i \in Direct : inst[i] \in {"none", "done"}
    /\ phase' # "lanes" => phase \in Draining
    /\ phase \in Draining \/ phase = "waitDirect"
    /\ UNCHANGED <<stopped, committed, started, managerClosed, revoked, shut, terminal>>
    /\ UNCHANGED still
  BY DEF DrainOperations, Advance, gates, managers, unchangedByWorker, runtime, instances, still,
      Draining, Late
<1> \A j \in 1..N : /\ StoppedTo(j)' /\ StoppedTo(j) /\ OpenedTo(j)
                    /\ DrainedTo(j)' /\ DrainedTo(j)
  BY SMTT(30), OrderFacts DEF StoppedTo, DrainedTo, OpenedTo, Draining, Late
<1> phase' \in Late
  BY DEF Late
<1> ASSUME NEW j \in 1..N
    PROVE  Past(j)'
  <2> Past(j) /\ phase' \notin Early
    BY DEF IInv, Stages, Early
  <2> QED
    BY DEF Past
<1> phase \notin Late => \A t \in Clients : op[t] \notin Operating
  <2> phase \notin Late => Cardinality(Operators) = 0
    BY DEF IInv, Counts
  <2> Operators \in SUBSET (Threads \cup Instances)
    BY KindsFacts DEF Operators
  <2> phase \notin Late => Operators = {}
    BY Counting
  <2> QED
    BY DEF Operators
<1> ASSUME NEW t \in Threads
    PROVE  Parted(t)'
  <2> Parted(t)
    BY DEF IInv, Stages
  <2> QED
    BY DEF Parted, still
<1> ASSUME NEW i \in Instances
    PROVE  Ended(i)'
  <2> Ended(i)
    BY DEF IInv, Stages
  <2> QED
    BY DEF Ended, Final, still
<1> QED
  BY DEF IInv, Stages

LEMMA EndStages ==
    ASSUME IInv, CloseTerminalLane \/ FinishPluginRuns \/ PublishClosed
    PROVE  Stages'
<1> /\ phase \in {"lanes", "finish"} /\ phase' \in {"lanes", "finish", "done"}
    /\ UNCHANGED <<stopped, committed, started, managerClosed, revoked, shut>>
    /\ UNCHANGED still
  BY DEF CloseTerminalLane, FinishPluginRuns, PublishClosed, At, RequestTerminalLock,
      EndTerminalCallbacks, gates, managers, unchangedByWorker, runtime, instances, caller, still
<1> \A j \in 1..N : /\ StoppedTo(j)' /\ StoppedTo(j) /\ ~OpenedTo(j)'
                    /\ DrainedTo(j)' /\ DrainedTo(j)
  BY DEF StoppedTo, DrainedTo, OpenedTo, Stopping, Draining, Late
<1> phase \in Late /\ phase \in Final
  BY DEF Late, Final
<1> ASSUME NEW j \in 1..N
    PROVE  Past(j)'
  <2> Past(j) /\ phase' \notin Early
    BY DEF IInv, Stages, Early
  <2> QED
    BY DEF Past
<1> ASSUME NEW t \in Threads
    PROVE  Parted(t)'
  <2> Parted(t)
    BY DEF IInv, Stages
  <2> QED
    BY DEF Parted, still
<1> ASSUME NEW i \in Instances
    PROVE  Ended(i)'
  <2> Ended(i)
    BY DEF IInv, Stages
  <2> QED
    BY DEF Ended, still
<1> QED
  BY DEF IInv, Stages

-----------------------------------------------------------------------------
(* The steps of the loader and of finishClose that leave goroutines and      *)
(* instances alone.                                                         *)

LEMMA QuietStanding ==
    ASSUME IInv, UNCHANGED <<op, on, reserved, inside, leaseOn, instances, operations, pending, gates>>,
           ~committed' /\ phase' # "done" => ~committed /\ phase # "done", Course', Stages'
    PROVE  IInv'
<1> Gates'
  BY QuietGates DEF IInv, instances
<1> QED
  BY StandingStep

LEMMA BeginPluginLoadKeeps ==
    ASSUME IInv, BeginPluginLoad
    PROVE  IInv'
<1> UNCHANGED <<op, on, reserved, inside, leaseOn, instances, operations, pending, gates>>
  BY DEF BeginPluginLoad, caller, managers
<1> ~committed' /\ phase' # "done" => ~committed /\ phase # "done"
  BY DEF BeginPluginLoad, worker
<1> Course' /\ Stages'
  BY BeginPluginLoadCourse, BeginPluginLoadStages DEF IInv
<1> QED
  BY QuietStanding

LEMMA CommitPluginPlanKeeps ==
    ASSUME IInv, CommitPluginPlan
    PROVE  IInv'
<1> UNCHANGED <<op, on, reserved, inside, leaseOn, instances, operations, pending, gates>>
  BY DEF CommitPluginPlan, caller, managers
<1> ~committed' /\ phase' # "done" => ~committed /\ phase # "done"
  BY DEF CommitPluginPlan, worker
<1> Course' /\ Stages'
  BY CommitPluginPlanCourse, LoadingStages DEF IInv
<1> QED
  BY QuietStanding

LEMMA StartPluginKeeps ==
    ASSUME IInv, StartPlugin
    PROVE  IInv'
<1> UNCHANGED <<op, on, reserved, inside, leaseOn, instances, operations, pending, gates>>
  BY DEF StartPlugin, caller, managers
<1> ~committed' /\ phase' # "done" => ~committed /\ phase # "done"
  BY DEF StartPlugin, worker
<1> Course' /\ Stages'
  BY StartPluginCourse, LoadingStages DEF IInv
<1> QED
  BY QuietStanding

LEMMA FinishPluginLoadKeeps ==
    ASSUME IInv, FinishPluginLoad
    PROVE  IInv'
<1> UNCHANGED <<op, on, reserved, inside, leaseOn, instances, operations, pending, gates>>
  BY DEF FinishPluginLoad, caller, managers
<1> ~committed' /\ phase' # "done" => ~committed /\ phase # "done"
  BY DEF FinishPluginLoad, worker
<1> Course' /\ Stages'
  BY FinishPluginLoadCourse, LoadingStages DEF IInv
<1> QED
  BY QuietStanding

LEMMA BeginFailedPluginRollbackKeeps ==
    ASSUME IInv, BeginFailedPluginRollback
    PROVE  IInv'
<1> UNCHANGED <<op, on, reserved, inside, leaseOn, instances, operations, pending, gates>>
  BY DEF BeginFailedPluginRollback, caller, managers
<1> ~committed' /\ phase' # "done" => ~committed /\ phase # "done"
  BY DEF BeginFailedPluginRollback, worker
<1> Course' /\ Stages'
  BY BeginFailedPluginRollbackCourse, LoadingStages DEF IInv
<1> QED
  BY QuietStanding

LEMMA RollbackCommittedPluginPlanKeeps ==
    ASSUME IInv, RollbackCommittedPluginPlan
    PROVE  IInv'
<1> UNCHANGED <<op, on, reserved, inside, leaseOn, instances, operations, pending, gates>>
  BY DEF RollbackCommittedPluginPlan, caller, managers
<1> ~committed' /\ phase' # "done" => ~committed /\ phase # "done"
  BY DEF RollbackCommittedPluginPlan, PublishClose, IInv, Course, worker
<1> Course' /\ Stages'
  BY RollbackCommittedPluginPlanCourse, RollbackCommittedPluginPlanStages DEF IInv
<1> QED
  BY QuietStanding

LEMMA FinishRollbackKeeps ==
    ASSUME IInv, FinishRollback
    PROVE  IInv'
<1> UNCHANGED <<op, on, reserved, inside, leaseOn, instances, operations, pending, gates>>
  BY DEF FinishRollback, caller, managers
<1> ~committed' /\ phase' # "done" => ~committed /\ phase # "done"
  BY DEF FinishRollback, worker
<1> Course' /\ Stages'
  BY FinishRollbackCourse, FinishRollbackStages DEF IInv
<1> QED
  BY QuietStanding

LEMMA CloseKeeps ==
    ASSUME IInv, Close
    PROVE  IInv'
<1> UNCHANGED <<op, on, reserved, inside, leaseOn, instances, operations, pending, gates>>
  BY DEF Close, caller, managers
<1> ~committed' /\ phase' # "done" => ~committed /\ phase # "done"
  BY DEF Close, PublishClose, IInv, Course, worker
<1> Course' /\ Stages'
  BY CloseCourse, CloseStages DEF IInv
<1> QED
  BY QuietStanding

LEMMA SnapshotCloseKeeps ==
    ASSUME IInv, SnapshotClose
    PROVE  IInv'
<1> UNCHANGED <<op, on, reserved, inside, leaseOn, instances, operations, pending, gates>>
  BY DEF SnapshotClose, managers, unchangedByWorker
<1> ~committed' /\ phase' # "done" => ~committed /\ phase # "done"
  BY DEF SnapshotClose, unchangedByWorker, runtime
<1> Course' /\ Stages'
  BY SnapshotCloseCourse, SnapshotCloseStages DEF IInv
<1> QED
  BY QuietStanding

LEMMA DrainCallbacksKeeps ==
    ASSUME IInv, DrainCallbacks
    PROVE  IInv'
<1> UNCHANGED <<op, on, reserved, inside, leaseOn, instances, operations, pending, gates>>
  BY DEF DrainCallbacks, managers, unchangedByWorker
<1> ~committed' /\ phase' # "done" => ~committed /\ phase # "done"
  BY DEF DrainCallbacks, unchangedByWorker, runtime
<1> Course' /\ Stages'
  BY DrainCallbacksCourse, DrainCallbacksStages DEF IInv
<1> QED
  BY QuietStanding

LEMMA StopPluginKeeps ==
    ASSUME IInv, StopPlugin
    PROVE  IInv'
<1> UNCHANGED <<op, on, reserved, inside, leaseOn, instances, operations, pending, gates>>
  BY DEF StopPlugin, managers, unchangedByWorker
<1> ~committed' /\ phase' # "done" => ~committed /\ phase # "done"
  BY DEF StopPlugin, unchangedByWorker, runtime
<1> Course' /\ Stages'
  BY StopPluginCourse, StopPluginStages DEF IInv
<1> QED
  BY QuietStanding

LEMMA RevokeContractsKeeps ==
    ASSUME IInv, RevokeContracts
    PROVE  IInv'
<1> UNCHANGED <<op, on, reserved, inside, leaseOn, instances, operations, pending, gates>>
  BY DEF RevokeContracts, managers, unchangedByWorker
<1> ~committed' /\ phase' # "done" => ~committed /\ phase # "done"
  BY DEF RevokeContracts, unchangedByWorker, runtime
<1> Course' /\ Stages'
  BY RevokeContractsCourse, RevokeContractsStages DEF IInv
<1> QED
  BY QuietStanding

LEMMA AllStoppedKeeps ==
    ASSUME IInv, AllStopped
    PROVE  IInv'
<1> UNCHANGED <<op, on, reserved, inside, leaseOn, instances, operations, pending, gates>>
  BY DEF AllStopped, managers, unchangedByWorker
<1> ~committed' /\ phase' # "done" => ~committed /\ phase # "done"
  BY DEF AllStopped, unchangedByWorker, runtime
<1> Course' /\ Stages'
  BY AllStoppedCourse, AllStoppedStages DEF IInv
<1> QED
  BY QuietStanding

LEMMA DrainGateKeeps ==
    ASSUME IInv, DrainGate
    PROVE  IInv'
<1> UNCHANGED <<op, on, reserved, inside, leaseOn, instances, operations, pending, gates>>
  BY DEF DrainGate, managers, unchangedByWorker
<1> ~committed' /\ phase' # "done" => ~committed /\ phase # "done"
  BY DEF DrainGate, unchangedByWorker, runtime
<1> Course' /\ Stages'
  BY DrainGateCourse, DrainGateStages DEF IInv
<1> QED
  BY QuietStanding

LEMMA DrainOperationsKeeps ==
    ASSUME IInv, DrainOperations
    PROVE  IInv'
<1> UNCHANGED <<op, on, reserved, inside, leaseOn, instances, operations, pending, gates>>
  BY DEF DrainOperations, managers, unchangedByWorker
<1> ~committed' /\ phase' # "done" => ~committed /\ phase # "done"
  BY DEF DrainOperations, unchangedByWorker, runtime
<1> Course' /\ Stages'
  BY DrainOperationsCourse, DrainOperationsStages DEF IInv
<1> QED
  BY QuietStanding

LEMMA FinishPluginRunsKeeps ==
    ASSUME IInv, FinishPluginRuns
    PROVE  IInv'
<1> UNCHANGED <<op, on, reserved, inside, leaseOn, instances, operations, pending, gates>>
  BY DEF FinishPluginRuns, managers, unchangedByWorker
<1> ~committed' /\ phase' # "done" => ~committed /\ phase # "done"
  BY DEF FinishPluginRuns, unchangedByWorker, runtime
<1> Course' /\ Stages'
  BY FinishPluginRunsCourse, EndStages DEF IInv
<1> QED
  BY QuietStanding

LEMMA PublishClosedKeeps ==
    ASSUME IInv, PublishClosed
    PROVE  IInv'
<1> UNCHANGED <<op, on, reserved, inside, leaseOn, instances, operations, pending, gates>>
  BY DEF PublishClosed, caller, managers
<1> ~committed' /\ phase' # "done" => ~committed /\ phase # "done"
  BY DEF PublishClosed, worker
<1> Course' /\ Stages'
  BY PublishClosedCourse, EndStages DEF IInv
<1> QED
  BY QuietStanding

LEMMA OpenTerminalLaneKeeps ==
    ASSUME IInv, OpenTerminalLane
    PROVE  IInv'
<1> /\ UNCHANGED <<op, on, reserved, inside, leaseOn, instances, operations, pending>>
    /\ UNCHANGED <<committed, phase, lane, hook>>
  BY DEF OpenTerminalLane, managers, unchangedByWorker, runtime, instances
<1> Course' /\ Stages'
  BY OpenTerminalLaneCourse, OpenTerminalLaneStages DEF IInv
<1> Gates /\ UNCHANGED <<calls, shut, drained>> /\ DOMAIN terminal' = Plugins
  BY DEF OpenTerminalLane, BeginTerminalCallbacks, IInv, Gates
<1> \A p \in Plugins : Users(p)' = Users(p)
  BY DEF Users
<1> Gates'
  BY DEF Gates, Gate
<1> QED
  BY StandingStep

LEMMA CloseTerminalLaneKeeps ==
    ASSUME IInv, CloseTerminalLane
    PROVE  IInv'
<1> /\ UNCHANGED <<op, on, reserved, inside, leaseOn, instances, operations, pending>>
    /\ UNCHANGED <<committed, phase, lane, hook>>
  BY DEF CloseTerminalLane, managers, unchangedByWorker, runtime, instances
<1> Course' /\ Stages'
  BY CloseTerminalLaneCourse, EndStages DEF IInv
<1> Gates /\ UNCHANGED <<calls, shut, drained>> /\ DOMAIN terminal' = Plugins
  BY DEF CloseTerminalLane, RequestTerminalLock, EndTerminalCallbacks, IInv, Gates
<1> \A p \in Plugins : Users(p)' = Users(p)
  BY DEF Users
<1> Gates'
  BY DEF Gates, Gate
<1> QED
  BY StandingStep

LEMMA StopAdmissionKeeps ==
    ASSUME IInv, StopAdmission
    PROVE  IInv'
<1> /\ UNCHANGED <<op, on, reserved, inside, leaseOn, instances, operations, pending>>
    /\ UNCHANGED <<committed, lane, hook>> /\ phase = "stop" /\ Gates
  BY DEF StopAdmission, At, unchangedByWorker, runtime, instances, IInv
<1> Course' /\ Stages'
  BY StopAdmissionCourse, StopAdmissionStages DEF IInv
<1> /\ UNCHANGED <<calls, terminal>> /\ DOMAIN shut' = Plugins /\ DOMAIN drained' = Plugins
    /\ \A p \in Plugins : p = Here => shut'[p] /\ (drained'[p] <=> drained[p] \/ calls[p] = 0)
    /\ \A p \in Plugins : p # Here => shut'[p] = shut[p] /\ drained'[p] = drained[p]
  BY DEF StopAdmission, Deactivate, Gates
<1> \A p \in Plugins : Users(p)' = Users(p)
  BY DEF Users
<1> ASSUME NEW p \in Plugins
    PROVE  Gate(p)'
  <2> Gate(p)
    BY DEF Gates
  <2> CASE p = Here
    BY DEF Gate
  <2> CASE p # Here
    BY DEF Gate
  <2> QED
    OBVIOUS
<1> Gates'
  BY DEF Gates
<1> QED
  BY StandingStep

-----------------------------------------------------------------------------
(* finishClose closes instances, or goes on when none is left. *)

LEMMA ShutdownCloses ==
    ASSUME IInv, NEW i \in Instances, inst[i] = "open", i \in Managed => i \in adopted,
           op[Shutdown] = "idle", CallClose(Shutdown, i, "close", "idle"), on' = [on EXCEPT ![Shutdown] = i],
           UNCHANGED <<gates, reserved, inside, leaseOn, operations, pending, committed>>,
           phase # "done", phase' # "done"
    PROVE  /\ Places' /\ Gates' /\ Counts'
           /\ Others(Shutdown) /\ Onward /\ Winds(Shutdown)
<1> DEFINE t == Shutdown
<1> /\ t \in Threads /\ t \notin Clients /\ Places /\ Gates /\ Types /\ Holds(t) /\ Acts(t) /\ Instance(i)
    /\ Counts
  BY KindsFacts DEF IInv, Places
<1> HIDE DEF t
<1> /\ Alike(i) /\ op' = [op EXCEPT ![t] = "close"] /\ inst'[i] = "preparing" /\ hook'[i] = hook[i]
    /\ DOMAIN inst' = Instances /\ UNCHANGED <<leases, hook, lane, runner, adopted>>
  BY DEF CallClose, Goto, Alike, Types, t
<1> \A u \in Threads : op[u] \in Closers => on[u] # i
  BY DEF Places, Acts
<1> /\ op[t] = "idle" /\ on' = [on EXCEPT ![t] = i]
  BY DEF t
<1> /\ Others(t) /\ op'[t] = "close" /\ on'[t] = i /\ reserved'[t] = reserved[t]
    /\ inside'[t] = inside[t] /\ leaseOn'[t] = leaseOn[t]
  BY DEF Others, Types
<1> ~committed => i \notin Managed
  BY DEF Instance
<1> Types'
  BY DEF Types
<1> Holds(t)'
  BY DEF Holds, Making, Using, Reserving, Working
<1> Acts(t)'
  BY DEF Acts, Making, Using, Closers
<1> Careful(t)
  BY DEF Careful, Making, Closers
<1> Touched(t, i)
  BY DEF Touched, Making, Closers
<1> Onward
  BY DEF Onward, Alike
<1> Counted(t)
  BY DEF Counted, Makers, Making, Operating, Counts
<1> Winds(t)
  BY DEF Winds, Making, Operating
<1> Places'
  BY TouchPlaces
<1> Gates'
  BY QuietGates
<1> Counts'
  BY CountsKeep
<1> QED
  BY DEF t

\* The direct instances are closed; without plugins everything is stopped.
LEMMA CloseDirectKeeps ==
    ASSUME IInv, CloseDirect
    PROVE  IInv'
<1> /\ (phase = "terminal" /\ k = 0) \/ phase = "direct"
    /\ UNCHANGED <<stopped, shut, committed, started, managerClosed, revoked, terminal>>
    /\ UNCHANGED <<gates, reserved, inside, leaseOn, operations, pending>> /\ op[Shutdown] = "idle"
  BY DEF CloseDirect, gates, managers, unchangedByWorker, runtime
<1> phase # "done" /\ phase \in Early
  BY DEF Early
<1> Course' /\ Course /\ Stages
  BY CloseDirectCourse DEF IInv
<1> \A j \in 1..N : OpenedTo(j)
  BY SMTT(30), OrderFacts DEF OpenedTo
<1> \A j \in 1..N : Past(j)
  BY DEF Stages
<1> CASE \E i \in Direct : /\ inst[i] = "open" /\ CallClose(Shutdown, i, "close", "idle")
                           /\ on' = [on EXCEPT ![Shutdown] = i] /\ phase' = "direct"
  <2> PICK i \in Direct : /\ inst[i] = "open" /\ CallClose(Shutdown, i, "close", "idle")
                          /\ on' = [on EXCEPT ![Shutdown] = i] /\ phase' = "direct"
    OBVIOUS
  <2> i \in Instances /\ i \notin Managed
    BY KindsFacts
  <2> Places' /\ Gates' /\ Counts'
    BY ShutdownCloses
  <2> \A j \in 1..N : OpenedTo(j)' /\ committed' => terminal'[Order[j]]
    BY DEF Past
  <2> Stages'
    BY OpeningStages
  <2> QED
    BY DEF IInv
<1> CASE phase' = "stop" /\ k' = Cardinality(Bound) /\ UNCHANGED <<op, on, instances>>
  <2> UNCHANGED still
    BY DEF still, instances
  <2> \A j \in 1..N : /\ ~StoppedTo(j) /\ ~DrainedTo(j)'
                      /\ phase # "revoking" /\ phase \notin {"stopping", "drainGate"}
    BY DEF StoppedTo, DrainedTo, Stopping, Draining, Late
  <2> \A j \in 1..N : StoppedTo(j)' => ~committed
    BY SMTT(30), OrderFacts, BoundFacts DEF StoppedTo, Stopping, Draining, Late
  <2> ~committed => started = {}
    BY DEF Course
  <2> \A j \in 1..N : Past(j)'
    BY DEF Past, Early
  <2> ASSUME NEW t \in Threads
      PROVE  Parted(t)'
    <3> ~committed => inside[t] = Nobody
      BY DEF IInv, Places, Holds
    <3> \A j \in 1..N : ~(StoppedTo(j)' /\ inside[t] = Order[j])
      BY OrderFacts, KindsFacts
    <3> QED
      BY DEF Parted, Late, still
  <2> \A i \in Instances : Ended(i)'
    BY DEF Ended, Final
  <2> Stages'
    BY DEF Stages
  <2> QED
    BY QuietStanding
<1> \/ phase' = "stop" /\ k' = Cardinality(Bound) /\ UNCHANGED <<op, on, instances>>
    \/ \E i \in Direct : /\ inst[i] = "open" /\ CallClose(Shutdown, i, "close", "idle")
                         /\ on' = [on EXCEPT ![Shutdown] = i] /\ phase' = "direct"
  BY DEF CloseDirect, Advance
<1> QED
  OBVIOUS

\* A manager without pending creations that is closed gets no more.
LEMMA DrainManagerKeeps ==
    ASSUME IInv, DrainManager
    PROVE  IInv'
<1> /\ phase = "drain" /\ k > 0 /\ k' = k /\ pending[Order[k]] = 0
    /\ UNCHANGED <<stopped, committed, started, managerClosed, revoked, shut, terminal>>
    /\ UNCHANGED <<gates, reserved, inside, leaseOn, operations, pending>> /\ op[Shutdown] = "idle"
    /\ UNCHANGED <<state, loader, closing, runs, torn>>
  BY DEF DrainManager, At, Here, gates, managers, unchangedByWorker, runtime
<1> Course' /\ Course /\ Stages /\ Types /\ k \in 1..N /\ Order[k] \in Plugins
  BY DrainManagerCourse, AtPlugin DEF IInv, Places
<1> CASE phase' = "drainGate" /\ UNCHANGED <<op, on, instances>>
  <2> UNCHANGED still
    BY DEF still, instances
  <2> \A j \in 1..N : /\ StoppedTo(j)' /\ StoppedTo(j) /\ OpenedTo(j)
                      /\ DrainedTo(j)' <=> DrainedTo(j)
    BY DEF StoppedTo, DrainedTo, OpenedTo, Draining, Late
  <2> ASSUME NEW j \in 1..N
      PROVE  Past(j)'
    <3> Past(j) /\ phase' \notin Early
      BY DEF Stages, Early
    <3> QED
      BY DEF Past
  <2> \A t \in Clients : op[t] \in Making /\ on[t] \in Managed => Owner[on[t]] # Order[k]
    <3> Cardinality(Makers(Order[k])) = 0
      BY DEF IInv, Counts
    <3> Makers(Order[k]) \in SUBSET (Threads \cup Instances)
      BY KindsFacts DEF Makers
    <3> Makers(Order[k]) = {}
      BY Counting
    <3> QED
      BY DEF Makers
  <2> ASSUME NEW t \in Threads
      PROVE  Parted(t)'
    <3> Parted(t)
      BY DEF Stages
    <3> QED
      BY DEF Parted, Late, still
  <2> \A i \in Instances : Ended(i)'
    BY DEF Stages, Ended, Final, still
  <2> Stages'
    BY DEF Stages
  <2> QED
    BY QuietStanding
<1> CASE \E i \in adopted : /\ inst[i] = "open" /\ CallClose(Shutdown, i, "close", "idle")
                            /\ on' = [on EXCEPT ![Shutdown] = i] /\ UNCHANGED phase
  <2> PICK i \in adopted : /\ inst[i] = "open" /\ CallClose(Shutdown, i, "close", "idle")
                           /\ on' = [on EXCEPT ![Shutdown] = i] /\ UNCHANGED phase
    OBVIOUS
  <2> i \in Instances
    BY KindsFacts DEF Types
  <2> Places' /\ Gates' /\ Counts' /\ Others(Shutdown) /\ Onward /\ Winds(Shutdown)
    BY ShutdownCloses
  <2> UNCHANGED stage
    BY DEF stage, course
  <2> Shutdown \in Threads /\ Parted(Shutdown)
    BY KindsFacts DEF Stages
  <2> Parted(Shutdown)'
    BY Winding
  <2> QED
    BY StepKeeps
<1> \/ phase' = "drainGate" /\ UNCHANGED <<op, on, instances>>
    \/ \E i \in adopted : /\ inst[i] = "open" /\ CallClose(Shutdown, i, "close", "idle")
                          /\ on' = [on EXCEPT ![Shutdown] = i] /\ UNCHANGED phase
  BY DEF DrainManager, OwnedBy
<1> QED
  OBVIOUS

-----------------------------------------------------------------------------
(* The invariant is inductive. *)

LEMMA InitKeeps ==
    ASSUME Init
    PROVE  IInv
<1> Course
  BY InitCourse
<1> Places
  <2> Types
    BY SMTT(30), OrderFacts DEF Init, Types
  <2> \A t \in Threads : Holds(t) /\ Acts(t)
    BY DEF Init, Holds, Acts, Making, Using, Reserving, Closers
  <2> \A t, u \in Threads : Alone(t, u)
    BY DEF Init, Alone, Making, Closers
  <2> \A i \in Instances : Instance(i)
    BY KindsFacts DEF Init, Instance
  <2> QED
    BY DEF Places
<1> Gates
  <2> \A p \in Plugins : Users(p) = {}
    <3> \A t \in Threads : reserved[t] = {} /\ inside[t] = Nobody
      BY DEF Init
    <3> \A i \in Instances : lane[i] = "none"
      BY DEF Init
    <3> Nobody \notin Plugins
      BY KindsFacts
    <3> QED
      BY SMTT(30) DEF Users
  <2> QED
    BY FS_EmptySet DEF Init, GatesInit, Gates, Gate
<1> Counts
  <2> Operators = {} /\ \A p \in Plugins : Makers(p) = {}
    BY SMTT(30), KindsFacts DEF Init, Operators, Makers, Operating, Making
  <2> QED
    BY FS_EmptySet DEF Init, Counts
<1> Stages
  <2> phase = "idle" /\ stopped = {} /\ shut = [p \in Plugins |-> FALSE]
    BY DEF Init, GatesInit
  <2> \A j \in 1..N : ~StoppedTo(j) /\ ~DrainedTo(j) /\ ~OpenedTo(j)
    BY DEF StoppedTo, DrainedTo, OpenedTo, Stopping, Draining, Late
  <2> \A j \in 1..N : Past(j)
    BY OrderFacts DEF Past
  <2> \A t \in Threads : Parted(t)
    BY DEF Parted, Late
  <2> \A i \in Instances : Ended(i)
    BY DEF Ended, Final
  <2> QED
    BY DEF Stages
<1> QED
  BY DEF IInv

LEMMA StutterKeeps ==
    ASSUME IInv, UNCHANGED vars
    PROVE  IInv'
<1> /\ UNCHANGED <<stage, gates, instances>>
    /\ UNCHANGED <<op, on, reserved, inside, leaseOn, operations, pending, committed, phase, lane, hook, inst>>
  BY DEF vars, gates, runtime, caller, instances, managers, worker, course, stage
<1> Places'
  BY PlacesFrame DEF IInv
<1> Gates'
  BY QuietGates DEF IInv
<1> Counts'
  BY CountsFrame DEF IInv
<1> Others(Nobody) /\ Onward
  BY DEF Others, Onward
<1> QED
  BY StepKeeps, KindsFacts

LEMMA NextKeeps ==
    ASSUME IInv, Next
    PROVE  IInv'
<1> CASE Close \/ BeginPluginLoad \/ LoaderStep
  BY CloseKeeps, BeginPluginLoadKeeps, CommitPluginPlanKeeps, StartPluginKeeps, FinishPluginLoadKeeps,
     BeginFailedPluginRollbackKeeps, RollbackCommittedPluginPlanKeeps, FinishRollbackKeeps DEF LoaderStep
<1> CASE ShutdownStep
  BY SnapshotCloseKeeps, DrainCallbacksKeeps, OpenTerminalLaneKeeps, CloseDirectKeeps, StopAdmissionKeeps,
     StopPluginKeeps, RevokeContractsKeeps, AllStoppedKeeps, DrainManagerKeeps, DrainGateKeeps,
     DrainOperationsKeeps, CloseTerminalLaneKeeps, FinishPluginRunsKeeps, PublishClosedKeeps DEF ShutdownStep
<1> ASSUME NEW t \in Clients, BeginStep(t)
    PROVE  IInv'
  BY BeginCompileOperationKeeps, BeginModuleCloseCallbacksKeeps, ManagerInstantiateKeeps,
     BeginOperationGenerationKeeps, BeginInvocationKeeps, CloseInstanceKeeps DEF BeginStep
<1> ASSUME NEW t \in Clients, EndStep(t)
    PROVE  IInv'
  <2> CASE EndOperation(t)
    BY EndOperationKeeps
  <2> CASE InstantiateStep(t)
    BY RefuseOperationKeeps, RegisterInstanceKeeps, EndConstructionKeeps, FinishInstantiateKeeps,
       EndInstantiateKeeps, AdoptKeeps, WaitRejectedKeeps DEF InstantiateStep
  <2> CASE InvokeStep(t)
    BY BeginInstanceInvocationKeeps, ReserveNextKeeps, ReserveKeeps, ReserveRefusedKeeps,
       ReturnInvocationKeeps, EndInvocationKeeps, EndRuntimeInvocationKeeps DEF InvokeStep
  <2> QED
    BY DEF EndStep
<1> ASSUME NEW t \in Threads, CallbackReturn(t) \/ PrepareClose(t) \/ ContractAcquire(t)
    PROVE  IInv'
  BY LeaveCallbackKeeps, ContractReleaseKeeps, PrepareCloseKeeps, ContractAcquireKeeps DEF CallbackReturn
<1> ASSUME NEW t \in Threads, NEW p \in Plugins, EnterCallback(t, p)
    PROVE  IInv'
  BY EnterCallbackKeeps
<1> ASSUME NEW i \in Instances, HookStep(i)
    PROVE  IInv'
  BY EnterHookKeeps, LeaveHookKeeps, TerminalDoneKeeps DEF HookStep
<1> QED
  BY DEF Next

\* The inductive invariant: the layers hold in every state that LoadPlugins,
\* Runtime.Close and their callers reach.
THEOREM Invariance == Spec => []IInv
<1>1. Init => IInv
  BY InitKeeps
<1>2. IInv /\ [Next]_vars => IInv'
  BY NextKeeps, StutterKeeps
<1>3. QED
  BY <1>1, <1>2, PTL DEF Spec

-----------------------------------------------------------------------------
(* What it says. *)

\* When the terminal lanes are closed every instance is over.
LEMMA AllOver ==
    ASSUME IInv, phase \in Final
    PROVE  \A i \in Instances : inst[i] \in {"none", "done"} /\ lane[i] = "none"
<1> SUFFICES ASSUME NEW i \in Instances
             PROVE  inst[i] \in {"none", "done"} /\ lane[i] = "none"
  OBVIOUS
<1> Ended(i) /\ Instance(i) /\ \A j \in 1..N : DrainedTo(j)
  BY DEF IInv, Stages, Places, DrainedTo, Final, Late
<1> CASE i \in Direct
  BY DEF Ended, Instance
<1> CASE i \in Managed
  <2> PICK j \in 1..N : Owner[i] = Order[j]
    BY KindsFacts, OrderAssumption
  <2> inst[i] \in {"none", "done"}
    BY DEF Ended
  <2> QED
    BY DEF Instance
<1> QED
  BY DEF Instances

\* A goroutine that holds a lease is inside a plugin that is not the first one
\* and that finishClose is not past.
LEMMA LeaseHolder ==
    ASSUME IInv, NEW t \in Threads, leaseOn[t] # Nobody
    PROVE  leaseOn[t] = Order[1] /\ \E m \in 2..N : inside[t] = Order[m] /\ ~StoppedTo(m)
<1> Types /\ Holds(t) /\ Parted(t)
  BY DEF IInv, Places, Stages
<1> leaseOn[t] = Order[1] /\ inside[t] \in Plugins /\ inside[t] # Order[1]
  BY DEF Types, Holds
<1> PICK m \in 1..N : inside[t] = Order[m]
  BY OrderAssumption
<1> m \in 2..N
  BY SMTT(30), OrderFacts
<1> QED
  BY DEF Parted

\* finishPluginRuns in finishClose revokes a plugin's handles when none of its
\* callbacks, hooks or contract calls runs, for any number of plugins, clients
\* and instances.
THEOREM TeardownIsQuiet == Spec => []NoCallAfterTeardown
<1>1. IInv => NoCallAfterTeardown
  <2> HAVE IInv
  <2> SUFFICES ASSUME NEW p \in torn, p \in Running
               PROVE  FALSE
    BY DEF NoCallAfterTeardown
  <2> p \in Plugins /\ phase \in Final /\ phase \in Late
    BY DEF IInv, Course, Final, Late
  <2> \A j \in 1..N : DrainedTo(j) /\ StoppedTo(j)
    BY DEF DrainedTo, StoppedTo
  <2> PICK j \in 1..N : p = Order[j]
    BY OrderAssumption
  <2> \A t \in Threads : inside[t] # p
    BY DEF IInv, Stages, Parted
  <2> \A t \in Threads : leaseOn[t] = Nobody
    <3> \A m \in 2..N : m \in 1..N
      BY SMTT(30), OrderFacts
    <3> QED
      BY LeaseHolder
  <2> \A i \in Instances : lane[i] = "none"
    BY AllOver
  <2> QED
    BY KindsFacts DEF Running
<1>2. QED
  BY <1>1, Invariance, PTL

\* stopPluginRun calls Stop of a provider only when no consumer is inside a
\* contract call to it.
THEOREM LeasesOutliveStops == Spec => []LeaseOutlivesStop
<1>1. IInv => LeaseOutlivesStop
  <2> HAVE IInv
  <2> SUFFICES ASSUME NEW t \in Threads, leaseOn[t] \in stopped
               PROVE  FALSE
    BY DEF LeaseOutlivesStop
  <2> leaseOn[t] # Nobody
    BY KindsFacts DEF IInv, Stages
  <2> PICK m \in 2..N : inside[t] = Order[m] /\ ~StoppedTo(m)
    BY LeaseHolder
  <2> Order[1] \in stopped /\ Past(1) /\ k \in 0..N
    BY LeaseHolder, OrderFacts DEF IInv, Stages, Course
  <2> StoppedTo(1) \/ (phase = "revoking" /\ k = 1)
    BY SMTT(30), OrderFacts DEF Past
  <2> StoppedTo(m)
    BY SMTT(30), OrderFacts DEF StoppedTo, Stopping
  <2> QED
    OBVIOUS
<1>2. QED
  BY <1>1, Invariance, PTL

\* When finishClose publishes the closed state, every plugin that was marked for
\* Stop is stopped, every instance is over with its hooks run, and no client
\* compiles, instantiates or runs guest code; so too after a failed load that was
\* rolled back.
THEOREM ClosedRuntimeIsQuiet == Spec => []ClosedIsQuiet
<1>1. IInv => ClosedIsQuiet
  <2> HAVE IInv
  <2> SUFFICES ASSUME phase = "done"
               PROVE  /\ started \subseteq stopped
                      /\ \A i \in Instances : inst[i] \in {"none", "done"}
                      /\ \A t \in Clients : op[t] \notin {"compile", "instantiate", "registered", "invoke"}
    BY DEF ClosedIsQuiet
  <2> phase \in Final /\ phase \in Late
    BY DEF Final, Late
  <2> ASSUME NEW p \in started
      PROVE  p \in stopped
    <3> PICK j \in 1..N : p = Order[j]
      BY OrderAssumption DEF IInv, Course
    <3> StoppedTo(j) /\ Past(j)
      BY DEF IInv, Stages, StoppedTo
    <3> QED
      BY DEF Past
  <2> \A i \in Instances : inst[i] \in {"none", "done"}
    BY AllOver
  <2> ASSUME NEW t \in Clients
      PROVE  op[t] \notin {"compile", "instantiate", "registered", "invoke"}
    <3> Parted(t)
      BY KindsFacts DEF IInv, Stages
    <3> QED
      BY DEF Parted, Operating
  <2> QED
    OBVIOUS
<1>2. QED
  BY <1>1, Invariance, PTL

\* withTerminalPluginHook finds a lane for every AfterClose hook: the ordinary one
\* until the plugin's gate is deactivated, the terminal one from then on.
THEOREM HooksFindALane == Spec => []HooksAreDelivered
<1>1. IInv => HooksAreDelivered
  <2> HAVE IInv
  <2> SUFFICES ASSUME NEW i \in Instances, inst[i] = "hooks", hook[i] > 0, shut[Order[hook[i]]]
               PROVE  terminal[Order[hook[i]]]
    BY DEF HooksAreDelivered
  <2> Types /\ Instance(i)
    BY DEF IInv, Places
  <2> hook[i] \in 1..N
    BY SMTT(30), OrderFacts DEF Types
  <2> Past(hook[i]) /\ Course
    BY DEF IInv, Stages
  <2> phase \notin Final
    BY AllOver
  <2> phase \notin Early
    BY DEF Past
  <2> OpenedTo(hook[i]) /\ phase # "done"
    BY DEF Course, OpenedTo, Late, Final
  <2> committed
    BY SMTT(30) DEF Instance
  <2> QED
    BY DEF Past
<1>2. QED
  BY <1>1, Invariance, PTL
=============================================================================
