-------------------------- MODULE InstanceLifecycle --------------------------
(***************************************************************************)
(* From admission to physical release of one Instance: the lease word, the *)
(* close owner, the terminal phase and the finalization scan               *)
(* (src/wago/instance_lifecycle.go, src/wago/reference_lifetime.go and the *)
(* resource roots of src/wago/reference_store.go).                         *)
(*                                                                         *)
(* One step is one atomic operation, one critical section of lifeMu or     *)
(* terminalCollectionMu, or one call of foreign code (hooks, scans).  The  *)
(* loads that guard tryFinalize are one step: entry is closed when they    *)
(* pass, and from then on each of the conditions stays true.               *)
(***************************************************************************)
EXTENDS Integers, FiniteSets

CONSTANTS
    Invokers,    \* goroutines that invoke exports
    Closers,     \* goroutines that call Close
    Waiters,     \* goroutines that call waitTerminalClose
    Holders,     \* references and containers that may hold a resource root
    Builder,     \* the goroutine that constructs the instance and, for a
                 \* manager, adopts it
    Worker,      \* the goroutine that a managed close starts for its hooks
    Config       \* the instances considered: made for a manager, with a
                 \* collected dependency graph, with AfterClose hooks

Threads == Invokers \cup Closers \cup Waiters \cup Holders \cup {Builder, Worker}

ASSUME ConfigAssumption == Config \subseteq [adopted : BOOLEAN, collects : BOOLEAN, hooks : BOOLEAN]

\* The worker is a goroutine of its own, and there are finitely many callers.
ASSUME ThreadsAssumption ==
    /\ IsFiniteSet(Invokers) /\ IsFiniteSet(Holders)
    /\ Worker \notin Invokers \cup Closers \cup Waiters \cup Holders \cup {Builder}

VARIABLES
    count,           \* the lease count of invocationState
    entryClosed,     \* its close bit
    constructionActive,
    closed,          \* in.closed
    finalizing,
    resourceRefs,
    resourcesClosed,
    managed,         \* finalizers.managed # nil
    config,          \* collects: railshotTerminalClosedDependencyCollectionEnabled
    closeState,      \* the flags of *instanceCloseState; "started": it exists
    claimed,         \* terminalCollectionClaimed
    deferred,        \* terminalCollectionDeferred
    pc,
    ret,             \* where tryFinalize returns to
    fret,            \* where finalize returns to
    releases,        \* history: calls of releaseResources
    signals,         \* history: calls of signalTerminalDone
    collections      \* history: owners of the collection attempt

vars == <<count, entryClosed, constructionActive, closed, finalizing, resourceRefs,
          resourcesClosed, managed, config, closeState, claimed, deferred,
          pc, ret, fret, releases, signals, collections>>

Flags == {"started", "hooked", "prepared", "completed", "terminalStarted",
          "terminalComplete", "terminalDone"}

Init ==
    /\ count = 0
    /\ entryClosed = FALSE
    /\ constructionActive = TRUE
    /\ closed = FALSE
    /\ finalizing = FALSE
    /\ resourceRefs = 0
    /\ resourcesClosed = FALSE
    /\ managed = FALSE
    /\ config \in Config
    /\ closeState = {}
    /\ claimed = FALSE
    /\ deferred = FALSE
    /\ pc = [t \in Threads |-> IF t = Builder THEN "building" ELSE "idle"]
    /\ ret = [t \in Threads |-> "idle"]
    /\ fret = [t \in Threads |-> "idle"]
    /\ releases = 0
    /\ signals = 0
    /\ collections = 0

-----------------------------------------------------------------------------
lease == <<count, entryClosed>>
life == <<constructionActive, closed, finalizing, resourceRefs, resourcesClosed, managed, config>>
collection == <<claimed, deferred>>
history == <<releases, signals, collections>>

\* adopt holds lifeMu from its check of the close bit to its assignment.
LifeMuFree == pc[Builder] # "adopting"

Goto(t, l) == pc' = [pc EXCEPT ![t] = l]

\* in.tryFinalize(), after which the goroutine goes on at label l.
CallTryFinalize(t, l) ==
    /\ Goto(t, "tryFinalize")
    /\ ret' = [ret EXCEPT ![t] = l]

\* referenceLifetime().finalize(), after which it goes on at label l.
CallFinalize(t, l) ==
    /\ Goto(t, "finalize")
    /\ fret' = [fret EXCEPT ![t] = l]

-----------------------------------------------------------------------------
(* Invocation leases *)

BeginInstanceInvocation(t) ==
    /\ t \in Invokers /\ pc[t] = "idle"
    /\ ~entryClosed
    /\ count' = count + 1
    /\ Goto(t, "invoking")
    /\ UNCHANGED <<entryClosed, life, closeState, collection, ret, fret, history>>

EndInvocation(t) ==
    /\ pc[t] = "invoking"
    /\ count' = count - 1
    /\ IF entryClosed /\ count = 1
          THEN CallTryFinalize(t, "idle")
          ELSE Goto(t, "idle") /\ UNCHANGED ret
    /\ UNCHANGED <<entryClosed, life, closeState, collection, fret, history>>

\* A managed instance is adopted when its construction has ended.
EndConstruction ==
    /\ pc[Builder] = "building"
    /\ constructionActive' = FALSE
    /\ CallTryFinalize(Builder, IF config.adopted THEN "adopt" ELSE "built")
    /\ UNCHANGED <<lease, closed, finalizing, resourceRefs, resourcesClosed, managed, config,
                   closeState, collection, fret, history>>

\* Fault: an instance closed while it was created is adopted all the same.
AdoptAlways ==
    /\ pc[Builder] = "adopt"
    /\ Goto(Builder, "adopting")
    /\ UNCHANGED <<lease, life, closeState, collection, ret, fret, history>>

\* adopt checks, under lifeMu, that neither the instance nor its manager (the
\* free choice) is closed; otherwise its caller closes the instance and waits.
Adopt ==
    /\ pc[Builder] = "adopt"
    /\ \/ ~entryClosed /\ Goto(Builder, "adopting")
       \/ Goto(Builder, "rejected")
    /\ UNCHANGED <<lease, life, closeState, collection, ret, fret, history>>

AdoptCommit ==
    /\ pc[Builder] = "adopting"
    /\ managed' = TRUE
    /\ Goto(Builder, "built")
    /\ UNCHANGED <<lease, constructionActive, closed, finalizing, resourceRefs, resourcesClosed, config,
                   closeState, collection, ret, fret, history>>

-----------------------------------------------------------------------------
(* Resource roots *)

\* A root on an open instance.  A table or global that receives a function of
\* a closed one retains it as well, until the physical release is claimed.
RetainResourceRootMode(h, finalization) ==
    /\ h \in Holders /\ pc[h] = "idle" /\ LifeMuFree
    /\ ~resourcesClosed /\ (finalization \/ ~entryClosed)
    /\ resourceRefs' = resourceRefs + 1
    /\ Goto(h, "holding")
    /\ UNCHANGED <<lease, constructionActive, closed, finalizing, resourcesClosed, managed, config,
                   closeState, collection, ret, fret, history>>

\* Fault: the last root is expected to be noticed by someone else.
ReleaseResourceRootQuietly(h) ==
    /\ pc[h] = "holding" /\ LifeMuFree
    /\ resourceRefs' = resourceRefs - 1
    /\ Goto(h, IF closed THEN "spent" ELSE "idle")
    /\ UNCHANGED <<lease, constructionActive, closed, finalizing, resourcesClosed, managed, config,
                   closeState, collection, ret, fret, history>>

\* A holder gives a reference to a closed instance back once.
ReleaseResourceRoot(h) ==
    /\ pc[h] = "holding" /\ LifeMuFree
    /\ resourceRefs' = resourceRefs - 1
    /\ IF closed
          THEN CallTryFinalize(h, "spent")
          ELSE Goto(h, "idle") /\ UNCHANGED ret
    /\ UNCHANGED <<lease, constructionActive, closed, finalizing, resourcesClosed, managed, config,
                   closeState, collection, fret, history>>

-----------------------------------------------------------------------------
(* Close *)

\* beginClose: one caller owns the close, the others return at once.
BeginClose(t) ==
    /\ (t \in Closers /\ pc[t] = "idle") \/ (t = Builder /\ pc[t] = "rejected")
    /\ closeState' = closeState \cup {"started"}
    /\ Goto(t, IF "started" \in closeState THEN "returned" ELSE "closing")
    /\ UNCHANGED <<lease, life, collection, ret, fret, history>>

CloseInvocationEntry(t) ==
    /\ pc[t] = "closing"
    /\ entryClosed' = TRUE
    /\ Goto(t, "beforeClose")
    /\ UNCHANGED <<count, life, closeState, collection, ret, fret, history>>

\* The BeforeClose hooks have run; logical closure is marked under lifeMu.
BeforeClose(t) ==
    /\ pc[t] = "beforeClose" /\ LifeMuFree
    /\ closed' = TRUE
    /\ closeState' = closeState \cup {"hooked"}
    /\ Goto(t, "closed")
    /\ UNCHANGED <<lease, constructionActive, finalizing, resourceRefs, resourcesClosed, managed, config,
                   collection, ret, fret, history>>

\* Fault: the close owner relies on the last invocation to finalize.
PrepareNoFinalize(t) ==
    /\ pc[t] = "closed"
    /\ closeState' = closeState \cup {"prepared"}
    /\ Goto(t, "handoff")
    /\ UNCHANGED <<lease, life, collection, ret, fret, history>>

\* prepared.Store(true), then tryFinalize.
Prepare(t) ==
    /\ pc[t] = "closed"
    /\ closeState' = closeState \cup {"prepared"}
    /\ CallTryFinalize(t, "handoff")
    /\ UNCHANGED <<lease, life, collection, fret, history>>

\* Fault: the close owner publishes its result without looking at the terminal side.
FinishLogicalCloseBlind(t) ==
    /\ pc[t] = "handoff"
    /\ closeState' = closeState \cup {"completed"}
    /\ Goto(t, "managed")
    /\ UNCHANGED <<lease, life, collection, ret, fret, history>>

\* finishLogicalCloseCollectionHandoff: publish the result, or claim the
\* collection that the terminal side left to the close owner.
FinishLogicalClose(t) ==
    /\ pc[t] = "handoff"
    /\ IF (config.collects \/ deferred) /\ "terminalComplete" \in closeState /\ ~claimed
          THEN /\ claimed' = TRUE
               /\ deferred' = FALSE
               /\ collections' = collections + 1
               /\ CallFinalize(t, "collected")
               /\ UNCHANGED closeState
          ELSE /\ closeState' = closeState \cup {"completed"}
               /\ Goto(t, "managed")
               /\ UNCHANGED <<collection, fret, collections>>
    /\ UNCHANGED <<lease, life, ret, releases, signals>>

\* completeLogicalCloseCollection, after the finalization and its retry.
CompleteLogicalClose(t) ==
    /\ pc[t] = "collected"
    /\ closeState' = closeState \cup {"completed"}
    /\ Goto(t, "managed")
    /\ UNCHANGED <<lease, life, collection, ret, fret, history>>

\* A managed instance could not finalize before its result was published.
RetryManaged(t) ==
    /\ pc[t] = "managed" /\ LifeMuFree
    /\ IF managed
          THEN CallTryFinalize(t, "returned")
          ELSE Goto(t, "returned") /\ UNCHANGED ret
    /\ UNCHANGED <<lease, life, closeState, collection, fret, history>>

WaitTerminalClose(t) ==
    /\ (t \in Waiters /\ pc[t] = "idle") \/ (t = Builder /\ pc[t] = "returned")
    /\ {"started", "completed", "terminalDone"} \subseteq closeState
    /\ Goto(t, "waited")
    /\ UNCHANGED <<lease, life, closeState, collection, ret, fret, history>>

-----------------------------------------------------------------------------
(* tryFinalize and the terminal phase *)

\* Fault: the BeforeClose hooks are not waited for.
FinalizableEarly ==
    /\ ~constructionActive /\ entryClosed /\ count = 0
    /\ managed => "completed" \in closeState

Finalizable ==
    /\ ~constructionActive /\ entryClosed /\ count = 0
    /\ "prepared" \in closeState
    /\ managed => "completed" \in closeState

TryFinalize(t) ==
    /\ pc[t] = "tryFinalize" /\ LifeMuFree
    /\ Goto(t, IF Finalizable THEN "terminal" ELSE ret[t])
    /\ UNCHANGED <<lease, life, closeState, collection, ret, fret, history>>

AsyncManagedTerminal == managed /\ (config.hooks \/ config.collects)

\* One caller owns the terminal phase; for a managed instance with hooks or a
\* graph it runs on a worker.  The others leave until it is complete, then may finalize.
StartTerminal(t) ==
    /\ pc[t] = "terminal"
    /\ \/ /\ "terminalStarted" \notin closeState
          /\ closeState' = closeState \cup {"terminalStarted"}
          /\ pc' = IF AsyncManagedTerminal THEN [pc EXCEPT ![Worker] = "afterClose", ![t] = ret[t]]
                   ELSE [pc EXCEPT ![t] = "afterClose"]
          /\ UNCHANGED fret
       \/ /\ "terminalStarted" \in closeState /\ "terminalComplete" \notin closeState
          /\ Goto(t, ret[t])
          /\ UNCHANGED <<closeState, fret>>
       \/ /\ "terminalStarted" \in closeState /\ "terminalComplete" \in closeState
          /\ CallFinalize(t, ret[t])
          /\ UNCHANGED closeState
    /\ UNCHANGED <<lease, life, collection, ret, history>>

\* The AfterClose hooks have run.  A managed instance detaches its owner.
AfterClose(t) ==
    /\ pc[t] = "afterClose" /\ LifeMuFree
    /\ managed' = FALSE
    /\ Goto(t, IF ~config.collects THEN "signal" ELSE IF managed THEN "readyManaged" ELSE "ready")
    /\ UNCHANGED <<lease, constructionActive, closed, finalizing, resourceRefs, resourcesClosed, config,
                   closeState, collection, ret, fret, history>>

\* publishTerminalCollectionReady: own the collection if the close owner has
\* published its result, else leave it to the close owner.
PublishReady(t) ==
    /\ closeState' = closeState \cup {"terminalComplete"}
    /\ IF "completed" \in closeState /\ ~claimed
          THEN /\ claimed' = TRUE
               /\ collections' = collections + 1
               /\ CallFinalize(t, "signalOnly")
               /\ UNCHANGED deferred
          ELSE /\ deferred' = (deferred \/ "completed" \notin closeState)
               /\ Goto(t, IF pc[t] = "ready" THEN "signalOnly" ELSE "signal")
               /\ UNCHANGED <<claimed, fret, collections>>
    /\ UNCHANGED <<lease, life, ret, releases, signals>>

PublishTerminalCollectionReady(t) ==
    pc[t] \in {"ready", "readyManaged"} /\ PublishReady(t)

\* signalTerminalDone, then finalize unless the collection's owner does it.
SignalTerminalDone(t) ==
    /\ pc[t] \in {"signal", "signalOnly"}
    /\ closeState' = closeState \cup {"terminalComplete", "terminalDone"}
    /\ signals' = signals + 1
    /\ IF pc[t] = "signal"
          THEN CallFinalize(t, ret[t])
          ELSE Goto(t, ret[t]) /\ UNCHANGED fret
    /\ UNCHANGED <<lease, life, collection, ret, releases, collections>>

-----------------------------------------------------------------------------
(* finalize *)

\* Fault: the scan is not claimed against a second finalizer.
ClaimFinalizationTwice(t) ==
    /\ pc[t] = "finalize" /\ LifeMuFree
    /\ IF ~closed \/ resourcesClosed \/ constructionActive \/ count # 0
          THEN Goto(t, fret[t]) /\ UNCHANGED finalizing
          ELSE Goto(t, "scan") /\ finalizing' = TRUE
    /\ UNCHANGED <<lease, constructionActive, closed, resourceRefs, resourcesClosed, managed, config,
                   closeState, collection, ret, fret, history>>

\* The first critical section: claim the scan.
ClaimFinalization(t) ==
    /\ pc[t] = "finalize" /\ LifeMuFree
    /\ IF ~closed \/ finalizing \/ resourcesClosed \/ constructionActive \/ count # 0
          THEN Goto(t, fret[t]) /\ UNCHANGED finalizing
          ELSE Goto(t, "scan") /\ finalizing' = TRUE
    /\ UNCHANGED <<lease, constructionActive, closed, resourceRefs, resourcesClosed, managed, config,
                   closeState, collection, ret, fret, history>>

\* Imported containers that still hold this instance's functions get a root.
ScanContainers(t) ==
    /\ pc[t] = "scan" /\ LifeMuFree
    /\ \E hs \in SUBSET {h \in Holders : pc[h] = "idle"} :
          /\ resourceRefs' = resourceRefs + Cardinality(hs)
          /\ pc' = [x \in Threads |-> IF x = t THEN "scanned"
                                     ELSE IF x \in hs THEN "holding" ELSE pc[x]]
    /\ UNCHANGED <<lease, constructionActive, closed, finalizing, resourcesClosed, managed, config,
                   closeState, collection, ret, fret, history>>

\* Fault: the roots are not looked at again after the scan.
CommitFinalizationStale(t) ==
    /\ pc[t] = "scanned" /\ LifeMuFree
    /\ finalizing' = FALSE
    /\ resourcesClosed' = TRUE /\ managed' = FALSE
    /\ Goto(t, "release")
    /\ UNCHANGED <<lease, constructionActive, closed, resourceRefs, config,
                   closeState, collection, ret, fret, history>>

\* The second critical section: check again and claim the physical release.
CommitFinalization(t) ==
    /\ pc[t] = "scanned" /\ LifeMuFree
    /\ finalizing' = FALSE
    /\ IF resourcesClosed \/ ~closed \/ resourceRefs # 0 \/ constructionActive \/ count # 0
          THEN Goto(t, fret[t]) /\ UNCHANGED <<resourcesClosed, managed>>
          ELSE resourcesClosed' = TRUE /\ managed' = FALSE /\ Goto(t, "release")
    /\ UNCHANGED <<lease, constructionActive, closed, resourceRefs, config,
                   closeState, collection, ret, fret, history>>

ReleaseResources(t) ==
    /\ pc[t] = "release"
    /\ releases' = releases + 1
    /\ Goto(t, fret[t])
    /\ UNCHANGED <<lease, life, closeState, collection, ret, fret, signals, collections>>

-----------------------------------------------------------------------------
CloseStep(t) ==
    \/ CloseInvocationEntry(t) \/ BeforeClose(t) \/ Prepare(t) \/ FinishLogicalClose(t)
    \/ CompleteLogicalClose(t) \/ RetryManaged(t)

FinalizeStep(t) ==
    \/ TryFinalize(t) \/ StartTerminal(t) \/ AfterClose(t)
    \/ PublishTerminalCollectionReady(t) \/ SignalTerminalDone(t)
    \/ ClaimFinalization(t) \/ ScanContainers(t) \/ CommitFinalization(t) \/ ReleaseResources(t)

CallerStep(t) ==
    \/ BeginInstanceInvocation(t) \/ BeginClose(t)
    \/ \E finalization \in BOOLEAN : RetainResourceRootMode(t, finalization)

Next ==
    \/ EndConstruction \/ Adopt \/ AdoptCommit
    \/ \E t \in Threads :
          \/ CloseStep(t) \/ FinalizeStep(t) \/ CallerStep(t)
          \/ EndInvocation(t) \/ ReleaseResourceRoot(t) \/ WaitTerminalClose(t)

Spec == Init /\ [][Next]_vars

\* Goroutines are scheduled and hooks return; admitted calls end, roots are
\* released and construction returns, also by closing what was rejected.
Fairness ==
    /\ WF_vars(\/ EndConstruction \/ Adopt \/ AdoptCommit \/ BeginClose(Builder)
               \/ CloseStep(Builder) \/ FinalizeStep(Builder) \/ WaitTerminalClose(Builder))
    /\ \A t \in Invokers : WF_vars(EndInvocation(t) \/ FinalizeStep(t))
    /\ \A t \in Closers : WF_vars(CloseStep(t) \/ FinalizeStep(t))
    /\ \A t \in Waiters : WF_vars(WaitTerminalClose(t))
    /\ \A t \in Holders : WF_vars(ReleaseResourceRoot(t) \/ FinalizeStep(t))
    /\ WF_vars(FinalizeStep(Worker))

FairSpec == Spec /\ Fairness

-----------------------------------------------------------------------------
(* Properties *)

\* Physical release claims an instance that nothing can reach any more: no
\* lease, no root, no construction, and both the BeforeClose and the AfterClose
\* hooks have returned.  It stays so: nothing is admitted afterwards.
ReleaseIsQuiet ==
    resourcesClosed =>
        /\ count = 0 /\ resourceRefs = 0 /\ ~constructionActive
        /\ {"hooked", "terminalComplete"} \subseteq closeState
        /\ \A t \in Threads : pc[t] \notin {"invoking", "holding", "building", "afterClose"}

\* The exactly-once claims: releaseResources runs once, terminalDone is closed
\* once (a second close panics), and one side of the crossing between
\* the logical result and terminal readiness owns the collection attempt.
OnceOnly ==
    /\ releases <= 1 /\ signals <= 1 /\ collections <= 1
    /\ \A s, t \in Threads : pc[s] \in {"scan", "scanned"} /\ pc[t] \in {"scan", "scanned"} => s = t

\* AfterClose hooks see an instance whose BeforeClose hooks have returned and
\* that will run no guest code again.
HooksInOrder ==
    \A t \in Threads : pc[t] = "afterClose" =>
        /\ "hooked" \in closeState /\ entryClosed
        /\ count = 0 /\ ~constructionActive

\* A manager never keeps an owner record for an instance whose terminal phase
\* is over: adopt and the terminal detachment cannot cross.
NoOwnerLeftBehind ==
    "terminalComplete" \in closeState => ~managed /\ pc[Builder] # "adopting"

\* A close that has begun releases the instance's resources, once its leases,
\* its roots and its construction have ended, whichever of them ends last.
CloseReleases == ("started" \in closeState) ~> (releases = 1)

\* waitTerminalClose returns.
TerminalWaitReturns ==
    \A t \in Waiters : ("started" \in closeState) ~> (pc[t] = "waited")

\* On an instance with a collected graph, a close leads to a collection attempt.
CollectionHappens == (config.collects /\ "started" \in closeState) ~> (collections = 1)
=============================================================================
