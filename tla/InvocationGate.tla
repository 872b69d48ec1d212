--------------------------- MODULE InvocationGate ---------------------------
(***************************************************************************)
(* The invocation gate of one instance (invocationGate in                  *)
(* src/wago/instance_entry.go) and the native-control publication that     *)
(* shares its notification channel (src/wago/instance_native_context.go).  *)
(*                                                                         *)
(* One step is one atomic operation of one goroutine: a load, a            *)
(* compare-and-swap, a store, or what it does under gate.mu between two    *)
(* such operations.  A compare-and-swap that is retried until it succeeds  *)
(* without any other effect in between is one step.                        *)
(***************************************************************************)
EXTENDS Integers, Sequences

CONSTANTS
    Threads,    \* goroutines that use the gate
    Lockers,    \* those that call Lock
    CtxLockers, \* those that call lockContext with a context
    Directs,    \* those that call tryPreparedDirect
    Preparers,  \* ordinary owners that enter through lockPreparedFastState
    Revokers,   \* those that call revokeFast or markNativeControlShared
    NoThread

ASSUME RolesAssumption ==
    /\ Lockers \cup CtxLockers \cup Directs \cup Preparers \cup Revokers \subseteq Threads
    /\ NoThread \notin Threads

VARIABLES
    state,              \* the bits set in the gate word
    mu,                 \* the goroutine inside gate.mu, or NoThread
    queue,              \* the waiters linked from slow.head to slow.tail
    granted,            \* dequeued waiters whose ready channel is closed
    revocationWaiters,  \* slow.revocationWaiters
    changed,            \* goroutines that hold the current slow.changed channel
    flags,              \* the bits of executionFlags that matter here
    pc,                 \* where each goroutine is
    seen,               \* the last value each goroutine loaded from the word
    ctx,                \* its context: none, live or done
    mode,               \* the ownership it holds: none, ord or fast
    revoked,            \* history: some revokeFast has returned
    published           \* history: some markNativeControlShared has returned

vars == <<state, mu, queue, granted, revocationWaiters, changed, flags, pc,
          seen, ctx, mode, revoked, published>>

Bits == {"Held", "Waiters", "Fast", "Revoked", "Handoff"}
Flags == {"NativeControlShared", "PreparedActive"}

Labels == {"idle", "lock1", "lock2", "top", "cas0", "casR", "claim", "acquired",
           "slow", "join", "parked", "cancel", "giveUp", "woken",
           "direct", "inside", "native", "preparedEnd",
           "unlock", "unlockCAS", "unlockSlow", "unlockStore", "unlockBits",
           "revoke", "revokeBits", "revokeWait",
           "share", "shareCheck", "shareLock", "shareWait", "panic"}

Init ==
    /\ state = {}
    /\ mu = NoThread
    /\ queue = <<>>
    /\ granted = {}
    /\ revocationWaiters = FALSE
    /\ changed = {}
    /\ flags = {}
    /\ pc = [t \in Threads |-> "idle"]
    /\ seen = [t \in Threads |-> {}]
    /\ ctx = [t \in Threads |-> "none"]
    /\ mode = [t \in Threads |-> "none"]
    /\ revoked = FALSE
    /\ published = FALSE

-----------------------------------------------------------------------------
slowVars == <<mu, queue, granted, revocationWaiters, changed>>
history == <<revoked, published>>

Goto(t, l) == pc' = [pc EXCEPT ![t] = l]

\* The state the goroutine's caller sees again: it owns the gate or it does not.
Home(t) == IF mode[t] = "none" THEN "idle" ELSE "inside"

\* Returning to the caller: the context and the loaded word are dead.
Return(t) ==
    /\ Goto(t, "idle")
    /\ ctx' = [ctx EXCEPT ![t] = "none"]
    /\ seen' = [seen EXCEPT ![t] = {}]

\* Fault: the bit follows the revocation observers only.
UpdateWaiterBitObservers(word, q, observers) ==
    IF observers THEN word \cup {"Waiters"} ELSE word \ {"Waiters"}

\* updateWaiterBitLocked: the bit says whether a waiter or an observer exists.
UpdateWaiterBit(word, q, observers) ==
    IF q # <<>> \/ observers THEN word \cup {"Waiters"} ELSE word \ {"Waiters"}

-----------------------------------------------------------------------------
(* Lock and lockContext *)

Lock(t) ==
    /\ pc[t] = "idle" /\ t \in Lockers
    /\ Goto(t, "lock1")
    /\ UNCHANGED <<state, slowVars, flags, seen, ctx, mode, history>>

LockContext(t) ==
    /\ pc[t] = "idle" /\ t \in CtxLockers
    /\ ctx' = [ctx EXCEPT ![t] = "live"]
    /\ Goto(t, "top")
    /\ UNCHANGED <<state, slowVars, flags, seen, mode, history>>

\* A caller's context ends while the call is in progress.
ContextDone(t) ==
    /\ ctx[t] = "live"
    /\ ctx' = [ctx EXCEPT ![t] = "done"]
    /\ UNCHANGED <<state, slowVars, flags, pc, seen, mode, history>>

\* CompareAndSwap(from, to) that takes the gate or goes on at another label.
TryClaim(t, from, to, won, lost) ==
    /\ IF state = from
          THEN state' = to /\ mode' = [mode EXCEPT ![t] = "ord"] /\ Goto(t, won)
          ELSE Goto(t, lost) /\ UNCHANGED <<state, mode>>
    /\ UNCHANGED <<slowVars, flags, seen, ctx, history>>

Lock1(t) == pc[t] = "lock1" /\ TryClaim(t, {}, {"Held"}, "inside", "lock2")
Lock2(t) == pc[t] = "lock2" /\ TryClaim(t, {"Revoked"}, {"Revoked", "Held"}, "inside", "top")

LockTop(t) ==
    /\ pc[t] = "top"
    /\ IF ctx[t] = "done" THEN Return(t) ELSE Goto(t, "cas0") /\ UNCHANGED <<ctx, seen>>
    /\ UNCHANGED <<state, slowVars, flags, mode, history>>

LockCAS0(t) == pc[t] = "cas0" /\ TryClaim(t, {}, {"Held"}, "acquired", "casR")
LockCASRevoked(t) ==
    pc[t] = "casR" /\ TryClaim(t, {"Revoked"}, {"Revoked", "Held"}, "acquired", "claim")

\* tryAcquireHandoff: clear Handoff, which makes the caller the owner.
TryAcquireHandoff(t, won, lost) ==
    IF "Handoff" \in state
       THEN /\ state' = state \ {"Handoff"}
            /\ mode' = [mode EXCEPT ![t] = "ord"]
            /\ Goto(t, won)
       ELSE Goto(t, lost) /\ UNCHANGED <<state, mode>>

LockBarge(t) ==
    /\ pc[t] = "claim"
    /\ TryAcquireHandoff(t, "acquired", "slow")
    /\ UNCHANGED <<slowVars, flags, seen, ctx, history>>

\* The context is read again after acquisition; if it ended, the slot goes back.
LockRecheck(t) ==
    /\ pc[t] = "acquired"
    /\ Goto(t, IF ctx[t] = "done" THEN "unlock" ELSE "inside")
    /\ ctx' = [ctx EXCEPT ![t] = "none"]
    /\ UNCHANGED <<state, slowVars, flags, seen, mode, history>>

LockSlow(t) ==
    /\ pc[t] = "slow" /\ mu = NoThread
    /\ mu' = t
    /\ seen' = [seen EXCEPT ![t] = state]
    /\ Goto(t, "join")
    /\ UNCHANGED <<state, queue, granted, revocationWaiters, changed, flags, ctx, mode, history>>

\* enqueueWaiterLocked: join only while the observed owner still owns the gate.
EnqueueWaiter(t) ==
    /\ "Held" \in seen[t] /\ state = seen[t]
    /\ state' = state \cup {"Waiters"}
    /\ queue' = Append(queue, t)

\* Still under mu: claim a gate that was released meanwhile, or join the queue
\* behind an owner that still owns it, or start again.
LockJoin(t) ==
    /\ pc[t] = "join"
    /\ mu' = NoThread
    /\ seen' = [seen EXCEPT ![t] = {}]
    /\ \/ /\ "Held" \notin seen[t] /\ queue = <<>> /\ state = seen[t]
          /\ state' = (state \cap {"Revoked"}) \cup {"Held"}
          /\ mode' = [mode EXCEPT ![t] = "ord"]
          /\ Goto(t, "acquired")
          /\ UNCHANGED queue
       \/ /\ EnqueueWaiter(t)
          /\ Goto(t, "parked")
          /\ UNCHANGED mode
       \/ /\ state # seen[t] \/ ("Held" \notin seen[t] /\ queue # <<>>)
          /\ Goto(t, "top")
          /\ UNCHANGED <<state, queue, mode>>
    /\ UNCHANGED <<granted, revocationWaiters, changed, flags, ctx, history>>

\* Fault: a notified waiter also waits for Held to be cleared.
WakeWhenFree(t) ==
    /\ pc[t] = "parked" /\ t \in granted /\ "Held" \notin state
    /\ Goto(t, "woken")
    /\ UNCHANGED <<state, slowVars, flags, seen, ctx, mode, history>>

Wake(t) ==
    /\ pc[t] = "parked" /\ t \in granted
    /\ Goto(t, "woken")
    /\ UNCHANGED <<state, slowVars, flags, seen, ctx, mode, history>>

\* select may take ctx.Done even when ready is closed as well.
WakeDone(t) ==
    /\ pc[t] = "parked" /\ ctx[t] = "done"
    /\ Goto(t, "cancel")
    /\ UNCHANGED <<state, slowVars, flags, seen, ctx, mode, history>>

Queued(t) == \E i \in DOMAIN queue : queue[i] = t

\* removeWaiterLocked: take the i-th waiter out of the list.
Unlink(q, i) == SubSeq(q, 1, i - 1) \o SubSeq(q, i + 1, Len(q))

Cancel(t) ==
    /\ pc[t] = "cancel" /\ mu = NoThread
    /\ IF Queued(t)
          THEN /\ \E i \in DOMAIN queue : queue[i] = t /\ queue' = Unlink(queue, i)
               /\ state' = UpdateWaiterBit(state, queue', revocationWaiters)
               /\ Return(t)
          ELSE Goto(t, "giveUp") /\ UNCHANGED <<state, queue, ctx, seen>>
    /\ UNCHANGED <<mu, granted, revocationWaiters, changed, flags, mode, history>>

\* A cancelled waiter that was already notified passes the obligation on.
GiveUp(t) ==
    /\ pc[t] = "giveUp"
    /\ granted' = granted \ {t}
    /\ \/ /\ t \in granted /\ "Handoff" \in state
          /\ TryAcquireHandoff(t, "unlock", "idle")
          /\ UNCHANGED <<ctx, seen>>
       \/ /\ t \notin granted \/ "Handoff" \notin state
          /\ Return(t)
          /\ UNCHANGED <<state, mode>>
    /\ UNCHANGED <<mu, queue, revocationWaiters, changed, flags, history>>

\* Fault: a notified waiter enters although another caller took the hand-off.
ClaimUnconditional(t) ==
    /\ pc[t] = "woken"
    /\ granted' = granted \ {t}
    /\ state' = state \ {"Handoff"}
    /\ mode' = [mode EXCEPT ![t] = "ord"]
    /\ Goto(t, "acquired")
    /\ UNCHANGED <<mu, queue, revocationWaiters, changed, flags, seen, ctx, history>>

Claim(t) ==
    /\ pc[t] = "woken"
    /\ granted' = granted \ {t}
    /\ TryAcquireHandoff(t, "acquired", "top")
    /\ UNCHANGED <<mu, queue, revocationWaiters, changed, flags, seen, ctx, history>>

-----------------------------------------------------------------------------
(* Unlock *)

\* The owner's call ends.
EndInvocation(t) ==
    /\ pc[t] = "inside"
    /\ Goto(t, "unlock")
    /\ UNCHANGED <<state, slowVars, flags, seen, ctx, mode, history>>

UnlockLoad(t) ==
    /\ pc[t] = "unlock"
    /\ seen' = [seen EXCEPT ![t] = state]
    /\ Goto(t, IF "Held" \in state /\ "Waiters" \notin state THEN "unlockCAS" ELSE "unlockSlow")
    /\ UNCHANGED <<state, slowVars, flags, ctx, mode, history>>

UnlockCAS(t) ==
    /\ pc[t] = "unlockCAS"
    /\ IF state = seen[t]
          THEN /\ state' = state \cap {"Revoked"}
               /\ mode' = [mode EXCEPT ![t] = "none"]
               /\ Return(t)
          ELSE Goto(t, "unlockSlow") /\ UNCHANGED <<state, mode, ctx, seen>>
    /\ UNCHANGED <<slowVars, flags, history>>

UnlockSlow(t) ==
    /\ pc[t] = "unlockSlow" /\ mu = NoThread
    /\ IF "Held" \in state
          THEN /\ mu' = t
               /\ seen' = [seen EXCEPT ![t] = state]
               /\ Goto(t, "unlockStore")
          ELSE Goto(t, "panic") /\ UNCHANGED <<mu, seen>>
    /\ UNCHANGED <<state, queue, granted, revocationWaiters, changed, flags, ctx, mode, history>>

\* The revocation observers this release notifies: those of a fast owner.
NotifyRevocation(t) == "Fast" \in seen[t] /\ revocationWaiters

\* Store: hand the slot to the oldest waiter, keeping Held, or free the gate.
UnlockStore(t) ==
    /\ pc[t] = "unlockStore"
    /\ IF queue # <<>>
          THEN /\ queue' = Tail(queue)
               /\ granted' = granted \cup {Head(queue)}
               /\ state' = UpdateWaiterBit((seen[t] \cap {"Revoked"}) \cup {"Held", "Handoff"},
                                           queue', revocationWaiters /\ ~NotifyRevocation(t))
          ELSE /\ state' = seen[t] \cap {"Revoked"}
               /\ UNCHANGED <<queue, granted>>
    /\ mode' = [mode EXCEPT ![t] = "none"]
    /\ Goto(t, "unlockBits")
    /\ UNCHANGED <<mu, revocationWaiters, changed, flags, seen, ctx, history>>

\* updateWaiterBitLocked, close(revocationChanged), mu.Unlock.
UnlockBits(t) ==
    /\ pc[t] = "unlockBits"
    /\ revocationWaiters' = (revocationWaiters /\ ~NotifyRevocation(t))
    /\ changed' = IF NotifyRevocation(t) THEN {} ELSE changed
    /\ state' = UpdateWaiterBit(state, queue, revocationWaiters')
    /\ mu' = NoThread
    /\ Return(t)
    /\ UNCHANGED <<queue, granted, flags, mode, history>>

-----------------------------------------------------------------------------
(* Direct entry, and prepared entry by an ordinary owner *)

Direct(t) ==
    /\ pc[t] = "idle" /\ t \in Directs
    /\ state = {}
    /\ state' = {"Held", "Fast"}
    /\ mode' = [mode EXCEPT ![t] = "fast"]
    /\ Goto(t, "direct")
    /\ UNCHANGED <<slowVars, flags, seen, ctx, history>>

\* preparedFastStateValid decides whether the reservation is kept.
DirectValid(t) ==
    /\ pc[t] = "direct"
    /\ Goto(t, IF "NativeControlShared" \in flags THEN "unlock" ELSE "inside")
    /\ UNCHANGED <<state, slowVars, flags, seen, ctx, mode, history>>

LockPreparedFastState(t) ==
    /\ pc[t] = "inside" /\ mode[t] = "ord" /\ t \in Preparers
    /\ flags = {}
    /\ flags' = {"PreparedActive"}
    /\ Goto(t, "native")
    /\ UNCHANGED <<state, slowVars, seen, ctx, mode, history>>

UnlockPreparedFastState(t) ==
    /\ pc[t] = "native"
    /\ flags' = flags \ {"PreparedActive"}
    /\ Goto(t, IF "NativeControlShared" \in flags THEN "preparedEnd" ELSE "inside")
    /\ UNCHANGED <<state, slowVars, seen, ctx, mode, history>>

\* Fault: the observers are cleared but the channel is not closed.
PreparedNotifyKeepsChannel(t) ==
    /\ pc[t] = "preparedEnd" /\ mu = NoThread
    /\ revocationWaiters' = FALSE
    /\ state' = UpdateWaiterBit(state, queue, FALSE)
    /\ Goto(t, "inside")
    /\ UNCHANGED <<changed, mu, queue, granted, flags, seen, ctx, mode, history>>

\* The activation saw the shared bit: wake everyone on the gate's channel.
PreparedNotify(t) ==
    /\ pc[t] = "preparedEnd" /\ mu = NoThread
    /\ IF changed # {}
          THEN /\ changed' = {}
               /\ revocationWaiters' = FALSE
               /\ state' = UpdateWaiterBit(state, queue, FALSE)
          ELSE UNCHANGED <<changed, revocationWaiters, state>>
    /\ Goto(t, "inside")
    /\ UNCHANGED <<mu, queue, granted, flags, seen, ctx, mode, history>>

-----------------------------------------------------------------------------
(* revokeFast and markNativeControlShared *)

\* Called by a publisher outside the gate, or by an ordinary owner parked in a
\* host callback.  A fast owner runs no host code and never gets here.
BeginRevoke(t) ==
    /\ pc[t] \in {"idle", "inside"} /\ mode[t] # "fast" /\ t \in Revokers
    /\ Goto(t, "revoke")
    /\ UNCHANGED <<state, slowVars, flags, seen, ctx, mode, history>>

\* Fault: revokeFast does not wait for the fast owner.
RevokeFastNoWait(t) ==
    /\ pc[t] = "revoke" /\ mu = NoThread
    /\ state' = state \cup {"Revoked"}
    /\ mu' = t
    /\ Goto(t, "revokeBits")
    /\ UNCHANGED <<revocationWaiters, changed, queue, granted, flags, seen, ctx, mode, history>>

RevokeFast(t) ==
    /\ pc[t] = "revoke" /\ mu = NoThread
    /\ IF "Fast" \in state
          THEN /\ state' = state \cup {"Revoked", "Waiters"}
               /\ revocationWaiters' = TRUE
               /\ changed' = changed \cup {t}
               /\ Goto(t, "revokeWait")
               /\ UNCHANGED mu
          ELSE /\ state' = state \cup {"Revoked"}
               /\ mu' = t
               /\ Goto(t, "revokeBits")
               /\ UNCHANGED <<revocationWaiters, changed>>
    /\ UNCHANGED <<queue, granted, flags, seen, ctx, mode, history>>

\* revokeFast returns; markNativeControlShared goes on, revokePrivateGCEntry ends.
RevokeBits(t) ==
    /\ pc[t] = "revokeBits"
    /\ state' = UpdateWaiterBit(state, queue, revocationWaiters)
    /\ mu' = NoThread
    /\ revoked' = TRUE
    /\ \E l \in {"share", Home(t)} : Goto(t, l)
    /\ UNCHANGED <<queue, granted, revocationWaiters, changed, flags, seen, ctx, mode, published>>

RevokeWake(t) ==
    /\ pc[t] = "revokeWait" /\ t \notin changed
    /\ Goto(t, "revoke")
    /\ UNCHANGED <<state, slowVars, flags, seen, ctx, mode, history>>

\* markNativeControlShared publishes the bit under nativeShareMu, and waits there
\* for the native-execution lock or the retained host gate of the instance.
\* Those waits are left out: without them the bit is set no later, and every
\* interleaving the code allows is still one of these.
ShareNativeControl(t) ==
    /\ pc[t] = "share"
    /\ flags' = flags \cup {"NativeControlShared"}
    /\ Goto(t, "shareCheck")
    /\ UNCHANGED <<state, slowVars, seen, ctx, mode, history>>

\* Fault: publication does not wait for the prepared activation.
ShareCheckNoWait(t) ==
    /\ pc[t] = "shareCheck"
    /\ Goto(t, Home(t))
    /\ published' = TRUE
    /\ UNCHANGED <<state, slowVars, flags, seen, ctx, mode, revoked>>

\* The unlocked test of PreparedActive.
ShareCheck(t) ==
    /\ pc[t] = "shareCheck"
    /\ IF "PreparedActive" \in flags
          THEN Goto(t, "shareLock") /\ UNCHANGED published
          ELSE Goto(t, Home(t)) /\ published' = TRUE
    /\ UNCHANGED <<state, slowVars, flags, seen, ctx, mode, revoked>>

\* The same test under gate.mu; the channel is created or shared before waiting.
ShareLock(t) ==
    /\ pc[t] = "shareLock" /\ mu = NoThread
    /\ IF "PreparedActive" \in flags
          THEN changed' = changed \cup {t} /\ Goto(t, "shareWait") /\ UNCHANGED published
          ELSE Goto(t, Home(t)) /\ published' = TRUE /\ UNCHANGED changed
    /\ UNCHANGED <<state, mu, queue, granted, revocationWaiters, flags, seen, ctx, mode, revoked>>

ShareWake(t) ==
    /\ pc[t] = "shareWait" /\ t \notin changed
    /\ Goto(t, "shareLock")
    /\ UNCHANGED <<state, slowVars, flags, seen, ctx, mode, history>>

-----------------------------------------------------------------------------
\* Steps of a goroutine inside a gate operation that need no lock.
FreeStep(t) ==
    \/ Lock1(t) \/ Lock2(t) \/ LockTop(t) \/ LockCAS0(t) \/ LockCASRevoked(t)
    \/ LockBarge(t) \/ LockRecheck(t) \/ Wake(t) \/ WakeDone(t) \/ GiveUp(t) \/ Claim(t)
    \/ UnlockLoad(t) \/ UnlockCAS(t)
    \/ DirectValid(t) \/ UnlockPreparedFastState(t)
    \/ RevokeWake(t) \/ ShareNativeControl(t) \/ ShareCheck(t) \/ ShareWake(t)

\* Steps taken while holding gate.mu, the last of which releases it.
HeldStep(t) ==
    \/ LockJoin(t) \/ UnlockStore(t) \/ UnlockBits(t) \/ RevokeBits(t)

\* Steps that first acquire gate.mu.
MuStep(t) ==
    \/ LockSlow(t) \/ Cancel(t) \/ UnlockSlow(t)
    \/ RevokeFast(t) \/ ShareLock(t) \/ PreparedNotify(t)

\* What callers choose to do.
CallerStep(t) ==
    \/ Lock(t) \/ LockContext(t) \/ ContextDone(t) \/ Direct(t)
    \/ LockPreparedFastState(t) \/ BeginRevoke(t)

Next ==
    \E t \in Threads :
        FreeStep(t) \/ HeldStep(t) \/ MuStep(t) \/ EndInvocation(t) \/ CallerStep(t)

Spec == Init /\ [][Next]_vars

\* Goroutines are scheduled, sync.Mutex does not starve a waiter (its
\* starvation mode hands the lock over), and every admitted call ends, also one
\* whose host callbacks publish now and then.
Fairness ==
    /\ \A t \in Threads : WF_vars(FreeStep(t) \/ HeldStep(t)) /\ SF_vars(MuStep(t))
    /\ \A t \in Threads \ Revokers : WF_vars(EndInvocation(t))
    /\ \A t \in Threads \cap Revokers : SF_vars(EndInvocation(t))

FairSpec == Spec /\ Fairness

-----------------------------------------------------------------------------
(* Properties *)

TypeOK ==
    /\ state \subseteq Bits
    /\ mu \in Threads \cup {NoThread}
    /\ queue \in Seq(Threads)
    /\ granted \subseteq Threads
    /\ revocationWaiters \in BOOLEAN
    /\ changed \subseteq Threads
    /\ flags \subseteq Flags
    /\ pc \in [Threads -> Labels]
    /\ seen \in [Threads -> SUBSET Bits]
    /\ ctx \in [Threads -> {"none", "live", "done"}]
    /\ mode \in [Threads -> {"none", "ord", "fast"}]
    /\ revoked \in BOOLEAN
    /\ published \in BOOLEAN

Owners == {t \in Threads : mode[t] # "none"}

\* At most one goroutine owns the gate, through every mixture of compare-and-
\* swap admission, claims under mu, hand-offs and barging, cancellation and
\* direct entry; and Unlock never meets a gate that is not held.
MutualExclusion ==
    /\ \A s, t \in Owners : s = t
    /\ \A t \in Threads : pc[t] # "panic"

\* No ownerless sleeping queue: while a waiter is queued the word is Held with
\* Waiters set, so its owner's release must take mu and notify; and a Held word
\* has an owner or is a hand-off some notified waiter still has to claim.
QueueHasReleaser ==
    /\ queue # <<>> => {"Held", "Waiters"} \subseteq state
    /\ "Held" \in state => Owners # {} \/ "Handoff" \in state
    /\ "Handoff" \in state => Owners = {} /\ granted # {}

\* When markNativeControlShared has returned, no direct or prepared activation
\* is in native code, and none starts afterwards.
PublicationIsQuiet ==
    published => \A t \in Threads : mode[t] # "fast" /\ pc[t] # "native"

\* Every step of the gate is a step of the contract its callers rely on.
holder ==
    IF Owners = {} THEN [thread |-> NoThread, kind |-> "none"]
    ELSE LET t == CHOOSE u \in Owners : TRUE IN [thread |-> t, kind |-> mode[t]]

Contract == INSTANCE GateContract
    WITH Threads <- Threads, NoThread <- NoThread, holder <- holder, revoked <- revoked
ImplementsContract == Contract!Spec

-----------------------------------------------------------------------------
Waiting(t) == pc[t] \in {"top", "cas0", "casR", "claim", "slow", "join", "parked", "woken"}

\* While some caller wants the gate, the gate is owned again and again: a queue
\* never sleeps behind a gate nobody will release or claim.
GateProgress ==
    (\E t \in Threads : Waiting(t) /\ ctx[t] = "none") ~> (Owners # {})

\* revokeFast and markNativeControlShared return once the activations they
\* wait for end: no wake-up on the shared channel is lost.
RevocationReturns ==
    \A t \in Revokers :
        (pc[t] \in {"revoke", "revokeWait", "shareLock", "shareWait"}) ~> (pc[t] = Home(t))
=============================================================================
