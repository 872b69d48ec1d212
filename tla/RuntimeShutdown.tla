-------------------------- MODULE RuntimeShutdown --------------------------
(***************************************************************************)
(* Runtime.Close against everything that may still run: plugin loading,    *)
(* runtime operations, guest invocations, plugin callbacks on each of      *)
(* their lanes, contract calls, managed instances and terminal hooks       *)
(* (src/wago/runtime.go, plugin_plan.go, managed_instances.go, hooks.go,   *)
(* services.go), with the gates of PluginCallGate.                         *)
(*                                                                         *)
(* An instance is what InstanceLifecycle promises of it: "open" while it   *)
(* admits invocations, "preparing" while its BeforeClose hooks run,        *)
(* "closing" until its invocations have ended, "hooks" while its           *)
(* AfterClose hooks run on one plugin after the other, and "done" when     *)
(* terminalDone is closed.                                                 *)
(***************************************************************************)
EXTENDS PluginCallGate, Sequences, FiniteSets

CONSTANTS
    Order,      \* the plugins, providers before their consumers
    Clients,    \* goroutines that use the runtime
    Shutdown,   \* the goroutine of finishClose
    Direct,     \* instances made by Runtime.Instantiate
    Managed,    \* instances made by a plugin's InstanceManager
    Owner,      \* Owner[i]: the plugin whose manager makes i
    Nobody      \* no plugin, no instance

Instances == Direct \cup Managed
Threads == Clients \cup {Shutdown}
N == Len(Order)

\* Every plugin has one place in the order.
ASSUME OrderAssumption ==
    /\ Order \in Seq(Plugins) /\ N > 0
    /\ \A p \in Plugins : \E j \in 1..N : p = Order[j]
    /\ \A j, l \in 1..N : Order[j] = Order[l] => j = l
    /\ Owner \in [Managed -> Plugins]

\* Goroutines and instances are finitely many, and everything has one kind.
ASSUME KindsAssumption ==
    /\ IsFiniteSet(Clients) /\ IsFiniteSet(Instances)
    /\ Shutdown \notin Clients /\ Direct \cap Managed = {} /\ Threads \cap Instances = {}
    /\ Nobody \notin Plugins \cup Instances \cup Threads

VARIABLES
    state,        \* rt.state
    operational,
    loader,       \* LoadPlugins: where the load transaction is
    started,      \* shouldStop of each plugin run
    committed,    \* pluginRuns and hooks are published
    closing,      \* rt.closeState # nil
    operations,   \* activeOperations
    op,           \* what each goroutine does
    on,           \* the instance it does it to
    reserved,     \* the gates of its reservation
    inside,       \* the plugin whose callback it runs
    awaits,       \* the plugin whose Stop its callback waits for
    leaseOn,      \* the provider on which it holds a contract lease
    inst,         \* the instances
    leases,       \* their invocation leases
    hook,         \* hook[i]: AfterClose hooks still to run, last plugin first
    lane,         \* lane[i]: the lane of the hook that runs, or "none"
    runner,       \* runner[i]: the goroutine that runs them, Nobody for a worker
    adopted,      \* managed instances that their manager owns
    managerClosed,
    pending,      \* manager.pending
    revoked,      \* consumer contract slots that are deactivated
    phase,        \* where finishClose is
    k,            \* the plugin it is at
    runs,         \* its snapshot of the plugins to stop
    stopped,      \* history: plugins whose Stop has returned
    torn          \* plugins whose handles are revoked

runtime == <<state, operational, loader, started, committed, closing>>
caller == <<on, reserved, inside, awaits, leaseOn>>
instances == <<inst, leases, hook, lane, runner, adopted>>
managers == <<managerClosed, pending, revoked>>
worker == <<phase, k, runs, stopped, torn>>
vars == <<gates, runtime, operations, op, caller, instances, managers, worker>>

Closing == state \in {"closing", "closed"}
Bound == IF committed THEN Plugins ELSE {}

Init ==
    /\ GatesInit
    /\ state = "ready" /\ operational = FALSE /\ loader = "idle"
    /\ started = {} /\ committed = FALSE /\ closing = FALSE
    /\ operations = 0
    /\ op = [t \in Threads |-> "idle"]
    /\ on = [t \in Threads |-> Nobody]
    /\ reserved = [t \in Threads |-> {}]
    /\ inside = [t \in Threads |-> Nobody]
    /\ awaits = [t \in Threads |-> Nobody]
    /\ leaseOn = [t \in Threads |-> Nobody]
    /\ inst = [i \in Instances |-> "none"]
    /\ leases = [i \in Instances |-> 0]
    /\ hook = [i \in Instances |-> 0]
    /\ lane = [i \in Instances |-> "none"]
    /\ runner = [i \in Instances |-> Nobody]
    /\ adopted = {}
    /\ managerClosed = {} /\ pending = [p \in Plugins |-> 0] /\ revoked = {}
    /\ phase = "idle" /\ k = 0 /\ runs = {} /\ stopped = {} /\ torn = {}

-----------------------------------------------------------------------------
Goto(t, o) == op' = [op EXCEPT ![t] = o]
Finish(t) == Goto(t, "idle") /\ on' = [on EXCEPT ![t] = Nobody]

\* The goroutine is not busy with the AfterClose hooks of an instance.
Free(t) == \A i \in Instances : runner[i] # t

\* Its creator has not returned; a manager returns the instances it adopted.
Creating(i) == (i \in Managed \ adopted /\ inst[i] # "none") \/ \E t \in Clients :
    on[t] = i /\ op[t] \in {"admitted", "instantiate", "registered", "built", "ending", "endingOk",
                            "closeBuilt", "adopt", "closeRejected", "rejected"}

\* One lease of i ends; the last one of a closed instance starts its AfterClose
\* hooks, on the goroutine itself unless a manager owns the instance.
StartHooks(t, i) ==
    /\ inst' = [inst EXCEPT ![i] = "hooks"]
    /\ hook' = [hook EXCEPT ![i] = Cardinality(Bound)]
    /\ runner' = [runner EXCEPT ![i] = IF i \in adopted THEN Nobody ELSE t]
    /\ UNCHANGED <<lane, adopted>>

EndLease(t, i) ==
    /\ leases' = [leases EXCEPT ![i] = @ - 1]
    /\ IF inst[i] = "closing" /\ leases[i] = 1
          THEN StartHooks(t, i)
          ELSE UNCHANGED <<inst, hook, lane, runner, adopted>>

-----------------------------------------------------------------------------
(* Runtime operations *)

BeginCompileOperation(t) ==
    /\ op[t] = "idle" /\ state = "ready"
    /\ operational' = TRUE
    /\ operations' = operations + 1
    /\ Goto(t, "compile")
    /\ UNCHANGED <<gates, state, loader, started, committed, closing, caller, instances, managers, worker>>

BeginModuleCloseCallbacks(t) ==
    /\ op[t] = "idle" /\ ~Closing
    /\ operations' = operations + 1
    /\ Goto(t, "moduleClose")
    /\ UNCHANGED <<gates, runtime, caller, instances, managers, worker>>

EndOperation(t) ==
    /\ op[t] \in {"compile", "moduleClose"} /\ inside[t] = Nobody
    /\ operations' = operations - 1
    /\ Goto(t, "idle")
    /\ UNCHANGED <<gates, runtime, caller, instances, managers, worker>>

-----------------------------------------------------------------------------
(* Instantiation *)

\* InstanceManager.Instantiate: admission by the manager comes first.
ManagerInstantiate(t, i) ==
    /\ op[t] = "idle" /\ i \in Managed /\ inst[i] = "none" /\ ~Creating(i)
    /\ committed /\ Owner[i] \notin managerClosed
    /\ pending' = [pending EXCEPT ![Owner[i]] = @ + 1]
    /\ Goto(t, "admitted") /\ on' = [on EXCEPT ![t] = i]
    /\ UNCHANGED <<gates, runtime, operations, reserved, inside, awaits, leaseOn, instances,
                   managerClosed, revoked, worker>>

\* beginOperationGeneration: lease the runtime and every plugin of the
\* published generation.  A manager may do so while plugins start.
BeginOperationGeneration(t, i) ==
    /\ \/ op[t] = "idle" /\ i \in Direct /\ inst[i] = "none" /\ ~Creating(i) /\ state = "ready"
       \/ op[t] = "admitted" /\ on[t] = i /\ state \in {"ready", "loading"}
    /\ operational' = TRUE
    /\ operations' = operations + 1
    /\ \A p \in Bound : ~shut[p]
    /\ calls' = [p \in Plugins |-> IF p \in Bound THEN calls[p] + 1 ELSE calls[p]]
    /\ reserved' = [reserved EXCEPT ![t] = Bound]
    /\ Goto(t, "instantiate") /\ on' = [on EXCEPT ![t] = i]
    /\ UNCHANGED <<shut, drained, terminal, readers, writing, state, loader, started, committed, closing,
                   inside, awaits, leaseOn, instances, managers, worker>>

RefuseOperation(t) ==
    /\ op[t] = "admitted" /\ Closing
    /\ pending' = [pending EXCEPT ![Owner[on[t]]] = @ - 1]
    /\ Finish(t)
    /\ UNCHANGED <<gates, runtime, operations, reserved, inside, awaits, leaseOn, instances,
                   managerClosed, revoked, worker>>

\* registerInstance; construction counts as a lease until it has ended.
RegisterInstance(t) ==
    /\ op[t] = "instantiate" /\ inside[t] = Nobody
    /\ IF Closing
          THEN Goto(t, "ending") /\ UNCHANGED <<inst, leases>>
          ELSE /\ inst' = [inst EXCEPT ![on[t]] = "open"]
               /\ leases' = [leases EXCEPT ![on[t]] = 1]
               /\ Goto(t, "registered")
    /\ UNCHANGED <<gates, runtime, operations, caller, hook, lane, runner, adopted, managers, worker>>

EndConstruction(t) ==
    /\ op[t] = "registered" /\ inside[t] = Nobody
    /\ EndLease(t, on[t])
    /\ Goto(t, "built")
    /\ UNCHANGED <<gates, runtime, operations, caller, managers, worker>>

\* Close of i on behalf of operation o; an instance that is already closed
\* returns at once, to label l.
CallClose(t, i, o, l) ==
    /\ IF inst[i] = "open"
          THEN inst' = [inst EXCEPT ![i] = "preparing"] /\ Goto(t, o)
          ELSE UNCHANGED inst /\ Goto(t, l)
    /\ UNCHANGED <<leases, hook, lane, runner, adopted>>

\* An observer that fails and a cancelled context each take the instance back.
\* After a cancellation the code also waits for the terminal hooks of that
\* instance; the wait is left out.
TakeBack(t) == CallClose(t, on[t], "closeBuilt", "ending")

\* So does a runtime that was closed meanwhile.
FinishInstantiate(t) ==
    /\ op[t] = "built" /\ Free(t)
    /\ \/ TakeBack(t)
       \/ ~Closing /\ Goto(t, "endingOk") /\ UNCHANGED instances
    /\ UNCHANGED <<gates, runtime, operations, caller, managers, worker>>

\* operation.end, and adoption by the manager on success.
EndInstantiate(t) ==
    /\ op[t] \in {"ending", "endingOk"} /\ Free(t)
    /\ Leave(reserved[t])
    /\ reserved' = [reserved EXCEPT ![t] = {}]
    /\ operations' = operations - 1
    /\ IF on[t] \in Managed /\ op[t] = "endingOk"
          THEN Goto(t, "adopt") /\ UNCHANGED <<on, pending>>
          ELSE /\ Finish(t)
               /\ pending' = [p \in Plugins |-> IF on[t] \in Managed /\ p = Owner[on[t]]
                                                   THEN pending[p] - 1 ELSE pending[p]]
    /\ UNCHANGED <<runtime, inside, awaits, leaseOn, instances, managerClosed, revoked, worker>>

Adopt(t) ==
    /\ op[t] = "adopt"
    /\ IF Owner[on[t]] \notin managerClosed /\ inst[on[t]] = "open"
          THEN /\ adopted' = adopted \cup {on[t]}
               /\ pending' = [pending EXCEPT ![Owner[on[t]]] = @ - 1]
               /\ Finish(t)
               /\ UNCHANGED <<inst, leases, hook, lane, runner>>
          ELSE CallClose(t, on[t], "closeRejected", "rejected") /\ UNCHANGED <<on, pending>>
    /\ UNCHANGED <<gates, runtime, operations, reserved, inside, awaits, leaseOn, managerClosed, revoked, worker>>

WaitRejected(t) ==
    /\ op[t] = "rejected" /\ inst[on[t]] = "done"
    /\ pending' = [pending EXCEPT ![Owner[on[t]]] = @ - 1]
    /\ Finish(t)
    /\ UNCHANGED <<gates, runtime, operations, reserved, inside, awaits, leaseOn, instances,
                   managerClosed, revoked, worker>>

-----------------------------------------------------------------------------
(* Invocations *)

\* beginInvocation: an operation of the runtime first, then a lease of the
\* instance.  A managed instance stays callable while the runtime closes.
BeginInvocation(t, i) ==
    /\ op[t] = "idle" /\ inst[i] # "none" /\ ~Creating(i)
    /\ state # "closed" /\ (state = "closing" => i \in Managed)
    /\ operations' = operations + 1
    /\ Goto(t, "admitting") /\ on' = [on EXCEPT ![t] = i]
    /\ UNCHANGED <<gates, runtime, reserved, inside, awaits, leaseOn, instances, managers, worker>>

\* The lease, if the instance is open; with invoke hooks the call reserves.
BeginInstanceInvocation(t) ==
    /\ op[t] = "admitting"
    /\ \/ /\ inst[on[t]] = "open"
          /\ leases' = [leases EXCEPT ![on[t]] = @ + 1]
          /\ \E o \in {"invoke", "reserving"} : Goto(t, o)
          /\ UNCHANGED <<on, operations>>
       \/ /\ inst[on[t]] # "open"
          /\ operations' = operations - 1
          /\ Finish(t)
          /\ UNCHANGED leases
    /\ UNCHANGED <<gates, runtime, reserved, inside, awaits, leaseOn, inst, hook, lane, runner, adopted,
                   managers, worker>>

NextGate(t) == Order[Cardinality(reserved[t]) + 1]

\* reservePluginOperation enters one gate after the other ...
ReserveNext(t) ==
    /\ op[t] = "reserving" /\ reserved[t] # Bound
    /\ Enter(NextGate(t))
    /\ reserved' = [reserved EXCEPT ![t] = @ \cup {NextGate(t)}]
    /\ UNCHANGED <<runtime, operations, op, on, inside, awaits, leaseOn, instances, managers, worker>>

Reserve(t) ==
    /\ op[t] = "reserving" /\ reserved[t] = Bound
    /\ Goto(t, "invoke")
    /\ UNCHANGED <<gates, runtime, operations, caller, instances, managers, worker>>

\* ... and gives them back when one refuses.
ReserveRefused(t) ==
    /\ op[t] = "reserving" /\ reserved[t] # Bound /\ shut[NextGate(t)]
    /\ Leave(reserved[t])
    /\ reserved' = [reserved EXCEPT ![t] = {}]
    /\ Goto(t, "returning")
    /\ UNCHANGED <<runtime, operations, on, inside, awaits, leaseOn, instances, managers, worker>>

ReturnInvocation(t) ==
    /\ op[t] = "invoke" /\ inside[t] = Nobody
    /\ Leave(reserved[t])
    /\ reserved' = [reserved EXCEPT ![t] = {}]
    /\ Goto(t, "returning")
    /\ UNCHANGED <<runtime, operations, on, inside, awaits, leaseOn, instances, managers, worker>>

EndInvocation(t) ==
    /\ op[t] = "returning"
    /\ EndLease(t, on[t])
    /\ Goto(t, "returned")
    /\ UNCHANGED <<gates, runtime, operations, caller, managers, worker>>

\* The operation stays admitted until the hooks it had to run have returned.
EndRuntimeInvocation(t) ==
    /\ op[t] = "returned" /\ Free(t)
    /\ operations' = operations - 1
    /\ Finish(t)
    /\ UNCHANGED <<gates, runtime, reserved, inside, awaits, leaseOn, instances, managers, worker>>

-----------------------------------------------------------------------------
(* Plugin callbacks *)

Working == {"compile", "moduleClose", "instantiate", "registered", "invoke",
            "close", "closeBuilt", "closeRejected"}

\* A host import or hook of p: under the operation's reservation, or admitted
\* by the gate.  A host import may wait for what some plugin's Stop does.
EnterCallback(t, p) ==
    /\ op[t] \in Working /\ inside[t] = Nobody /\ p \in Bound
    /\ IF p \in reserved[t] THEN UNCHANGED gates ELSE Enter(p)
    /\ inside' = [inside EXCEPT ![t] = p]
    /\ \E q \in {Nobody} \cup (IF op[t] = "invoke" THEN started ELSE {}) :
          awaits' = [awaits EXCEPT ![t] = q]
    /\ UNCHANGED <<runtime, operations, op, on, reserved, leaseOn, instances, managers, worker>>

LeaveCallback(t) ==
    /\ inside[t] # Nobody /\ leaseOn[t] = Nobody
    /\ awaits[t] = Nobody \/ awaits[t] \in stopped
    /\ IF inside[t] \in reserved[t] THEN UNCHANGED gates ELSE Leave({inside[t]})
    /\ inside' = [inside EXCEPT ![t] = Nobody]
    /\ awaits' = [awaits EXCEPT ![t] = Nobody]
    /\ UNCHANGED <<runtime, operations, op, on, reserved, leaseOn, instances, managers, worker>>

\* ContractRef.Call from a consumer to the first plugin, under a lease.
ContractAcquire(t) ==
    /\ inside[t] \notin {Nobody, Order[1]} \cup revoked
    /\ awaits[t] = Nobody /\ leaseOn[t] = Nobody
    /\ leaseOn' = [leaseOn EXCEPT ![t] = Order[1]]
    /\ UNCHANGED <<gates, runtime, operations, op, on, reserved, inside, awaits, instances, managers, worker>>

ContractRelease(t) ==
    /\ leaseOn[t] # Nobody
    /\ leaseOn' = [leaseOn EXCEPT ![t] = Nobody]
    /\ UNCHANGED <<gates, runtime, operations, op, on, reserved, inside, awaits, instances, managers, worker>>

-----------------------------------------------------------------------------
(* Closing one instance *)

CloseInstance(t, i) ==
    /\ op[t] = "idle" /\ inst[i] = "open" /\ ~Creating(i)
    /\ CallClose(t, i, "close", "idle")
    /\ on' = [on EXCEPT ![t] = i]
    /\ UNCHANGED <<gates, runtime, operations, reserved, inside, awaits, leaseOn, managers, worker>>

\* The BeforeClose hooks have run: prepared, and tryFinalize.
PrepareClose(t) ==
    /\ op[t] \in {"close", "closeBuilt", "closeRejected"} /\ inside[t] = Nobody
    /\ LET i == on[t] IN
          IF leases[i] = 0
             THEN StartHooks(t, i) /\ UNCHANGED leases
             ELSE inst' = [inst EXCEPT ![i] = "closing"] /\ UNCHANGED <<leases, hook, lane, runner, adopted>>
    /\ IF op[t] = "close" THEN Finish(t)
       ELSE Goto(t, IF op[t] = "closeBuilt" THEN "ending" ELSE "rejected") /\ UNCHANGED on
    /\ UNCHANGED <<gates, runtime, operations, reserved, inside, awaits, leaseOn, managers, worker>>

\* withTerminalPluginHook, last plugin first.  A gate that admits on neither lane
\* would drop the hook; HooksAreDelivered says that no gate ever does.
EnterHook(i) ==
    /\ inst[i] = "hooks" /\ hook[i] > 0 /\ lane[i] = "none"
    /\ \/ EnterTerminal(Order[hook[i]]) /\ lane' = [lane EXCEPT ![i] = "terminal"]
       \/ EnterOrdinary(Order[hook[i]]) /\ lane' = [lane EXCEPT ![i] = "ordinary"]
    /\ UNCHANGED <<runtime, operations, op, caller, inst, leases, hook, runner, adopted, managers, worker>>

LeaveHook(i) ==
    /\ lane[i] # "none"
    /\ IF lane[i] = "terminal" THEN ReleaseTerminal(Order[hook[i]]) ELSE Leave({Order[hook[i]]})
    /\ lane' = [lane EXCEPT ![i] = "none"]
    /\ hook' = [hook EXCEPT ![i] = @ - 1]
    /\ UNCHANGED <<runtime, operations, op, caller, inst, leases, runner, adopted, managers, worker>>

TerminalDone(i) ==
    /\ inst[i] = "hooks" /\ hook[i] = 0
    /\ inst' = [inst EXCEPT ![i] = "done"]
    /\ runner' = [runner EXCEPT ![i] = Nobody]
    /\ UNCHANGED <<gates, runtime, operations, op, caller, leases, hook, lane, adopted, managers, worker>>

-----------------------------------------------------------------------------
(* LoadPlugins *)

LoadingDone == loader \notin {"registered", "starting", "failed", "finishing"}

BeginPluginLoad ==
    /\ loader = "idle" /\ ~operational /\ state = "ready"
    /\ state' = "loading" /\ loader' = "registered"
    /\ UNCHANGED <<gates, operational, started, committed, closing, operations, op, caller, instances,
                   managers, worker>>

\* commitPluginPlan; an invalid plan, or a runtime closed meanwhile, ends here.
CommitPluginPlan ==
    /\ loader = "registered"
    /\ \/ state = "loading" /\ committed' = TRUE /\ loader' = "starting"
       \/ loader' = "finishing" /\ UNCHANGED committed
    /\ UNCHANGED <<gates, state, operational, started, closing, operations, op, caller, instances,
                   managers, worker>>

\* startPluginPlan: mark the run for Stop, then call Start, which may fail.
StartPlugin ==
    /\ loader = "starting"
    /\ started' = started \cup {Order[Cardinality(started) + 1]}
    /\ loader' \in {"failed", IF Cardinality(started) + 1 = N THEN "finishing" ELSE "starting"}
    /\ UNCHANGED <<gates, state, operational, committed, closing, operations, op, caller, instances,
                   managers, worker>>

FinishPluginLoad ==
    /\ loader = "finishing"
    /\ state' = IF state = "loading" THEN "ready" ELSE state
    /\ loader' = "done"
    /\ UNCHANGED <<gates, operational, started, committed, closing, operations, op, caller, instances,
                   managers, worker>>

BeginFailedPluginRollback ==
    /\ loader = "failed"
    /\ state' = IF state = "loading" THEN "closing" ELSE state
    /\ loader' = "rollback"
    /\ UNCHANGED <<gates, operational, started, committed, closing, operations, op, caller, instances,
                   managers, worker>>

\* publishCloseLocked, and the goroutine that finishes the close.
PublishClose ==
    /\ closing' = TRUE
    /\ state' = "closing"
    /\ operational' = (operational \/ state = "loading")
    /\ phase' = "loading"

RollbackCommittedPluginPlan ==
    /\ loader = "rollback"
    /\ IF closing THEN UNCHANGED <<closing, state, operational, phase>> ELSE PublishClose
    /\ loader' = "joining"
    /\ UNCHANGED <<gates, started, committed, operations, op, caller, instances, managers,
                   k, runs, stopped, torn>>

FinishRollback ==
    /\ loader = "joining" /\ phase = "done"
    /\ committed' = FALSE
    /\ loader' = "rolledBack"
    /\ UNCHANGED <<gates, state, operational, started, closing, operations, op, caller, instances,
                   managers, worker>>

LoaderStep ==
    \/ CommitPluginPlan \/ StartPlugin \/ FinishPluginLoad \/ BeginFailedPluginRollback
    \/ RollbackCommittedPluginPlan \/ FinishRollback

-----------------------------------------------------------------------------
(* Runtime.Close and finishClose *)

Close ==
    /\ ~closing
    /\ PublishClose
    /\ UNCHANGED <<gates, loader, started, committed, operations, op, caller, instances, managers,
                   k, runs, stopped, torn>>

Advance(ph) == phase' = ph /\ k' = Cardinality(Bound)
At(ph) == phase = ph /\ k > 0
Here == Order[k]
unchangedByWorker == <<runtime, operations, reserved, inside, awaits, leaseOn>>

\* Fault: the snapshot does not wait for the load transaction.
SnapshotCloseEarly ==
    /\ phase = "loading"
    /\ runs' = started \cap Bound
    /\ Advance("compiles")
    /\ UNCHANGED <<gates, op, on, unchangedByWorker, instances, managers, stopped, torn>>

\* finishCloseAfterLoading and snapshotCloseLocked.
SnapshotClose ==
    /\ phase = "loading" /\ LoadingDone
    /\ runs' = started \cap Bound
    /\ Advance("compiles")
    /\ UNCHANGED <<gates, op, on, unchangedByWorker, instances, managers, stopped, torn>>

\* Compilations and module closes drain; the close observers run in between,
\* through gates that are still open.
DrainCallbacks ==
    /\ \/ phase = "compiles" /\ (\A t \in Clients : op[t] # "compile") /\ Advance("moduleCloses")
       \/ phase = "moduleCloses" /\ (\A t \in Clients : op[t] # "moduleClose") /\ Advance("terminal")
    /\ UNCHANGED <<gates, op, on, unchangedByWorker, instances, managers, runs, stopped, torn>>

\* Fault: the lane of a plugin is not opened.
OpenTerminalLaneNot ==
    /\ At("terminal")
    /\ k' = k - 1
    /\ UNCHANGED <<gates, op, on, unchangedByWorker, instances, managers, phase, runs, stopped, torn>>

OpenTerminalLane ==
    /\ At("terminal")
    /\ BeginTerminalCallbacks(Here)
    /\ k' = k - 1
    /\ UNCHANGED <<op, on, unchangedByWorker, instances, managers, phase, runs, stopped, torn>>

\* Close the direct instances, then go on to the plugins.
CloseDirect ==
    /\ op[Shutdown] = "idle" /\ Free(Shutdown)
    /\ \/ phase = "terminal" /\ k = 0
       \/ phase = "direct"
    /\ LET todo == {i \in Direct : inst[i] = "open"} IN
          IF todo = {}
             THEN Advance("stop") /\ UNCHANGED <<op, on, instances>>
             ELSE /\ \E i \in todo : /\ CallClose(Shutdown, i, "close", "idle")
                                     /\ on' = [on EXCEPT ![Shutdown] = i]
                  /\ phase' = "direct" /\ UNCHANGED k
    /\ UNCHANGED <<gates, unchangedByWorker, managers, runs, stopped, torn>>

\* stopPluginRun: close the manager's and the gate's admission, ...
StopAdmission ==
    /\ At("stop")
    /\ managerClosed' = managerClosed \cup {Here}
    /\ Deactivate(Here)
    /\ phase' = "stopping"
    /\ UNCHANGED <<op, on, unchangedByWorker, instances, pending, revoked, k, runs, stopped, torn>>

\* ... call Stop and deactivate the contracts this plugin consumes, ...
StopPlugin ==
    /\ phase = "stopping"
    /\ stopped' = stopped \cup ({Here} \cap runs)
    /\ revoked' = revoked \cup {Here}
    /\ phase' = "revoking"
    /\ UNCHANGED <<gates, op, on, unchangedByWorker, instances, managerClosed, pending, k, runs, torn>>

\* Fault: contract leases are not waited for.
RevokeContractsNoWait ==
    /\ phase = "revoking"
    /\ phase' = "stop" /\ k' = k - 1
    /\ UNCHANGED <<gates, op, on, unchangedByWorker, instances, managers, runs, stopped, torn>>

\* Fault: each plugin's callers are drained before the next plugin is stopped.
RevokeContractsDrains ==
    /\ phase = "revoking" /\ drained[Here]
    /\ \A t \in Threads : inside[t] = Here => leaseOn[t] = Nobody
    /\ phase' = "stop" /\ k' = k - 1
    /\ UNCHANGED <<gates, op, on, unchangedByWorker, instances, managers, runs, stopped, torn>>

\* ... and wait for its contract leases before a provider is stopped.
RevokeContracts ==
    /\ phase = "revoking"
    /\ \A t \in Threads : inside[t] = Here => leaseOn[t] = Nobody
    /\ phase' = "stop" /\ k' = k - 1
    /\ UNCHANGED <<gates, op, on, unchangedByWorker, instances, managers, runs, stopped, torn>>

AllStopped ==
    /\ phase = "stop" /\ k = 0
    /\ Advance("drain")
    /\ UNCHANGED <<gates, op, on, unchangedByWorker, instances, managers, runs, stopped, torn>>

OwnedBy(p) == {i \in adopted : Owner[i] = p}

\* drainPluginRun: wait for creators, close the manager's instances, ...
DrainManager ==
    /\ At("drain") /\ op[Shutdown] = "idle" /\ Free(Shutdown)
    /\ pending[Here] = 0
    /\ LET todo == {i \in OwnedBy(Here) : inst[i] = "open"} IN
          IF todo = {}
             THEN phase' = "drainGate" /\ UNCHANGED <<op, on, instances>>
             ELSE /\ \E i \in todo : /\ CallClose(Shutdown, i, "close", "idle")
                                     /\ on' = [on EXCEPT ![Shutdown] = i]
                  /\ UNCHANGED phase
    /\ UNCHANGED <<gates, unchangedByWorker, managers, k, runs, stopped, torn>>

\* ... wait for their terminal phase, and for the gate's callers.
DrainGate ==
    /\ phase = "drainGate"
    /\ \A i \in OwnedBy(Here) : inst[i] = "done"
    /\ drained[Here]
    /\ phase' = "drain" /\ k' = k - 1
    /\ UNCHANGED <<gates, op, on, unchangedByWorker, instances, managers, runs, stopped, torn>>

\* Fault: handles are revoked before the terminal hooks are over.
DrainOperationsTears ==
    /\ \/ phase = "drain" /\ k = 0 /\ operations = 0 /\ Advance("waitDirect") /\ torn' = Bound
       \/ /\ phase = "waitDirect" /\ (\A i \in Direct : inst[i] \in {"none", "done"})
          /\ Advance("lanes") /\ UNCHANGED torn
    /\ UNCHANGED <<gates, op, on, unchangedByWorker, instances, managers, runs, stopped>>

\* The remaining operations, then the direct instances' terminal phases.
DrainOperations ==
    /\ \/ phase = "drain" /\ k = 0 /\ operations = 0 /\ Advance("waitDirect")
       \/ phase = "waitDirect" /\ (\A i \in Direct : inst[i] \in {"none", "done"}) /\ Advance("lanes")
    /\ UNCHANGED <<gates, op, on, unchangedByWorker, instances, managers, runs, stopped, torn>>

CloseTerminalLane ==
    /\ At("lanes")
    /\ \/ ~writing[Here] /\ RequestTerminalLock(Here) /\ UNCHANGED k
       \/ EndTerminalCallbacks(Here) /\ k' = k - 1
    /\ UNCHANGED <<op, on, unchangedByWorker, instances, managers, phase, runs, stopped, torn>>

FinishPluginRuns ==
    /\ phase = "lanes" /\ k = 0
    /\ torn' = Bound
    /\ phase' = "finish"
    /\ UNCHANGED <<gates, op, on, unchangedByWorker, instances, managers, k, runs, stopped>>

PublishClosed ==
    /\ phase = "finish"
    /\ state' = "closed"
    /\ phase' = "done"
    /\ UNCHANGED <<gates, operational, loader, started, committed, closing, operations, op, caller,
                   instances, managers, k, runs, stopped, torn>>

ShutdownStep ==
    \/ SnapshotClose \/ DrainCallbacks \/ OpenTerminalLane \/ CloseDirect
    \/ StopAdmission \/ StopPlugin \/ RevokeContracts \/ AllStopped
    \/ DrainManager \/ DrainGate \/ DrainOperations
    \/ CloseTerminalLane \/ FinishPluginRuns \/ PublishClosed

-----------------------------------------------------------------------------
BeginStep(t) ==
    \/ BeginCompileOperation(t) \/ BeginModuleCloseCallbacks(t)
    \/ \E i \in Instances :
          \/ ManagerInstantiate(t, i) \/ BeginOperationGeneration(t, i)
          \/ BeginInvocation(t, i) \/ CloseInstance(t, i)

InstantiateStep(t) ==
    \/ RefuseOperation(t) \/ RegisterInstance(t) \/ EndConstruction(t) \/ FinishInstantiate(t)
    \/ EndInstantiate(t) \/ Adopt(t) \/ WaitRejected(t)

InvokeStep(t) ==
    \/ BeginInstanceInvocation(t) \/ ReserveNext(t) \/ Reserve(t) \/ ReserveRefused(t)
    \/ ReturnInvocation(t) \/ EndInvocation(t) \/ EndRuntimeInvocation(t)

EndStep(t) == EndOperation(t) \/ InstantiateStep(t) \/ InvokeStep(t)

CallbackReturn(t) == LeaveCallback(t) \/ ContractRelease(t)

HookStep(i) == EnterHook(i) \/ LeaveHook(i) \/ TerminalDone(i)

Next ==
    \/ Close \/ ShutdownStep \/ BeginPluginLoad \/ LoaderStep
    \/ \E t \in Clients : BeginStep(t) \/ EndStep(t)
    \/ \E t \in Threads :
          \/ CallbackReturn(t) \/ PrepareClose(t) \/ ContractAcquire(t)
          \/ \E p \in Plugins : EnterCallback(t, p)
    \/ \E i \in Instances : HookStep(i)

Spec == Init /\ [][Next]_vars

\* Goroutines are scheduled; an operation, a guest call and a close make
\* finitely many callbacks, so they get to their end; callbacks return unless
\* they wait for a Stop; contract calls return.  A caller that tries a closed
\* managed instance for ever does not win rt.mu from the drain each time.
Fairness ==
    /\ WF_vars(ShutdownStep) /\ SF_vars(DrainOperations) /\ WF_vars(LoaderStep)
    /\ \A t \in Threads : /\ WF_vars(CallbackReturn(t)) /\ SF_vars(PrepareClose(t))
                          /\ SF_vars(LeaveCallback(t))
    /\ \A t \in Clients : SF_vars(EndStep(t) \/ BeginOperationGeneration(t, on[t]))
    /\ \A i \in Instances : WF_vars(HookStep(i))

FairSpec == Spec /\ Fairness

-----------------------------------------------------------------------------
(* Properties *)

\* The plugins whose code runs now: callbacks, hooks and contract calls.
Running ==
    {inside[t] : t \in Threads} \cup {leaseOn[t] : t \in Threads}
        \cup {Order[hook[i]] : i \in {j \in Instances : lane[j] # "none"}}

\* When a plugin's handles are revoked none of its code runs, on whatever lane
\* it was entered, and none is entered again.
NoCallAfterTeardown == torn \cap Running = {}

\* A contract lease keeps its provider live: Stop of a provider is not called
\* while a consumer is inside a contract call.
LeaseOutlivesStop == \A t \in Threads : leaseOn[t] \notin stopped

\* A closed runtime has stopped every plugin it started, runs no guest code and
\* has no instance left whose terminal hooks have not run.
ClosedIsQuiet ==
    phase = "done" =>
        /\ started \subseteq stopped
        /\ \A i \in Instances : inst[i] \in {"none", "done"}
        /\ \A t \in Clients : op[t] \notin {"compile", "instantiate", "registered", "invoke"}

\* No AfterClose hook is lost to shutdown: whenever an instance is about to run
\* the hook of a plugin, that plugin's gate admits it, by the ordinary lane until
\* it is deactivated and by the terminal lane after that.
HooksAreDelivered ==
    \A i \in Instances : inst[i] = "hooks" /\ hook[i] > 0 /\ lane[i] = "none" =>
        ~shut[Order[hook[i]]] \/ terminal[Order[hook[i]]]

\* Close ends: everyone waits for someone, but not in a circle, also when host
\* callbacks return only after some plugin's Stop.
ShutdownCompletes == closing ~> (phase = "done")
=============================================================================
