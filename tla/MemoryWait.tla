----------------------------- MODULE MemoryWait -----------------------------
(***************************************************************************)
(* memory.atomic.wait and memory.atomic.notify on one shared Memory        *)
(* (src/wago/memory_wait.go), with the native shortcut that skips the Go   *)
(* helper when nobody can be waiting (amd64/atomic_fast_wait.go), the      *)
(* context that lets Instance.Close cancel a parked wait                   *)
(* (src/wago/atomic_wait_helper.go) and Memory.Close (src/wago/memory.go). *)
(*                                                                         *)
(* The guest's plain store may stay in the processor's store buffer; Go's  *)
(* atomic operations do not.  Everything between s.mu.Lock and Unlock that *)
(* native code cannot see is one step.                                     *)
(***************************************************************************)
EXTENDS Integers, Sequences

CONSTANTS
    Waiters,    \* goroutines that wait
    Hosted,     \* those that wait from guest code of an instance of their own
    Notifiers,  \* guest threads that store and then notify
    Offsets,
    Values,
    Counts,     \* the counts notifiers pass
    Nobody

ASSUME MemoryAssumption ==
    /\ Hosted \subseteq Waiters
    /\ Waiters \cap Notifiers = {}
    /\ Nobody \notin Waiters \cup Notifiers
    /\ Nobody \notin Offsets \X Values
    /\ Offsets # {} /\ Values # {} /\ Counts # {} /\ Counts \subseteq Nat

VARIABLES
    value,     \* the cells of the linear memory
    buffer,    \* a notifier's store that no one else can see yet
    mu,        \* the waiter inside s.mu, or Nobody
    pending,   \* the SharedNotifyPending word of the backing
    queue,     \* ws.byOffset
    result,    \* w.result: empty, woken (nil sent) or closed (error sent)
    closed,    \* memoryStateClosed
    attached,  \* the instances counted by importerCount
    closer,    \* Instance.Close of each waiter's instance
    published, \* instances with an entry in atomicWaitInvocationContexts
    ctxDone,   \* waiters whose context is cancelled
    pc,
    arg,       \* the arguments of a wait
    out,       \* what the last wait returned
    narg,      \* the offset and the count of a notify
    credited   \* history: waiters that a notify counted in their current wait

vars == <<value, buffer, mu, pending, queue, result, closed, attached, closer,
          published, ctxDone, pc, arg, out, narg, credited>>

Guests == Hosted \cup Notifiers
Timeouts == {"zero", "finite", "infinite"}
WaitArgs == [off : Offsets, exp : Values, timeout : Timeouts]
Errors == {"canceled", "memoryClosed"}

NoArg == CHOOSE a \in WaitArgs : TRUE
NoNotify == CHOOSE n \in Offsets \X Counts : TRUE

Init ==
    /\ value \in [Offsets -> Values]
    /\ buffer = [n \in Notifiers |-> Nobody]
    /\ mu = Nobody
    /\ pending = FALSE
    /\ queue = [o \in Offsets |-> <<>>]
    /\ result = [w \in Waiters |-> "empty"]
    /\ closed = FALSE
    /\ attached = Guests
    /\ closer = [i \in Hosted |-> "open"]
    /\ published = {}
    /\ ctxDone = {}
    /\ pc = [x \in Waiters \cup Notifiers |-> "idle"]
    /\ arg = [w \in Waiters |-> NoArg]
    /\ out = [w \in Waiters |-> "none"]
    /\ narg = [n \in Notifiers |-> NoNotify]
    /\ credited = {}

-----------------------------------------------------------------------------
cells == <<value, buffer>>
waitState == <<mu, pending, queue, result>>
instances == <<attached, closer, published>>

Goto(x, l) == pc' = [pc EXCEPT ![x] = l]

Active == \E o \in Offsets : queue[o] # <<>>
Queued(w) == \E o \in Offsets : \E i \in DOMAIN queue[o] : queue[o][i] = w

\* The end of a wait, with its outcome.
Finish(w, r) ==
    /\ out' = [out EXCEPT ![w] = r]
    /\ Goto(w, "returned")

-----------------------------------------------------------------------------
(* The invocation around a guest's waits *)

\* An admitted invocation of the waiter's instance.
Invoke(w) ==
    /\ w \in Hosted /\ pc[w] = "idle"
    /\ w \in attached /\ closer[w] = "open"
    /\ Goto(w, "publish")
    /\ UNCHANGED <<cells, waitState, closed, instances, ctxDone, arg, out, narg, credited>>

PublishAtomicWaitContext(w) ==
    /\ pc[w] = "publish"
    /\ published' = published \cup {w}
    /\ Goto(w, "check")
    /\ UNCHANGED <<cells, waitState, closed, attached, closer, ctxDone, arg, out, narg, credited>>

\* Fault: no second look at the invocation gate.
RecheckClosedNever(w) ==
    /\ pc[w] = "check"
    /\ Goto(w, "guest")
    /\ UNCHANGED <<cells, waitState, closed, instances, ctxDone, arg, out, narg, credited>>

\* The second look at the invocation gate, after the entry is in the map.
RecheckClosed(w) ==
    /\ pc[w] = "check"
    /\ ctxDone' = IF closer[w] # "open" THEN ctxDone \cup {w} ELSE ctxDone
    /\ Goto(w, "guest")
    /\ UNCHANGED <<cells, waitState, closed, instances, arg, out, narg, credited>>

\* The invocation returns: the entry is deleted and its context cancelled.
EndInvocation(w) ==
    /\ pc[w] = "guest"
    /\ published' = published \ {w}
    /\ ctxDone' = ctxDone \ {w}
    /\ out' = [out EXCEPT ![w] = "none"]
    /\ Goto(w, "idle")
    /\ UNCHANGED <<cells, waitState, closed, attached, closer, arg, narg, credited>>

\* Guest code executes memory.atomic.wait.
GuestWait(w) ==
    /\ pc[w] = "guest" /\ out[w] \notin Errors
    /\ \E a \in WaitArgs : arg' = [arg EXCEPT ![w] = a]
    /\ Goto(w, "native")
    /\ UNCHANGED <<cells, waitState, closed, instances, ctxDone, out, narg, credited>>

\* The native comparison: unequal returns 1 without entering Go.
NativeCompare(w) ==
    /\ pc[w] = "native"
    /\ IF value[arg[w].off] # arg[w].exp
          THEN Finish(w, "notEqual")
          ELSE Goto(w, "call") /\ UNCHANGED out
    /\ UNCHANGED <<cells, waitState, closed, instances, ctxDone, arg, narg, credited>>

\* A Go caller of Memory.wait that has no instance.
HostWait(w) ==
    /\ w \in Waiters \ Hosted /\ pc[w] = "idle"
    /\ \E a \in WaitArgs : arg' = [arg EXCEPT ![w] = a]
    /\ Goto(w, "call")
    /\ UNCHANGED <<cells, waitState, closed, instances, ctxDone, out, narg, credited>>

\* A wait has returned to its caller.  An error is kept: it becomes a trap, so
\* that the invocation ends without another wait.
Resume(w) ==
    /\ pc[w] = "returned"
    /\ credited' = credited \ {w}
    /\ arg' = [arg EXCEPT ![w] = NoArg]
    /\ out' = [out EXCEPT ![w] = IF w \in Hosted /\ @ \in Errors THEN @ ELSE "none"]
    /\ Goto(w, IF w \in Hosted THEN "guest" ELSE "idle")
    /\ ctxDone' = IF w \in Hosted THEN ctxDone ELSE ctxDone \ {w}
    /\ UNCHANGED <<cells, waitState, closed, instances, narg>>

\* The context of the call ends for a reason of the caller's own.
ContextDone(w) ==
    /\ w \in Waiters /\ pc[w] = "parked"
    /\ w \notin ctxDone
    /\ ctxDone' = ctxDone \cup {w}
    /\ UNCHANGED <<cells, waitState, closed, instances, pc, arg, out, narg, credited>>

-----------------------------------------------------------------------------
(* Memory.wait *)

\* Under s.mu: refuse a closed memory, else announce the wait.
WaitAnnounce(w) ==
    /\ pc[w] = "call" /\ mu = Nobody
    /\ IF closed
          THEN Finish(w, "memoryClosed") /\ UNCHANGED <<mu, pending>>
          ELSE mu' = w /\ pending' = TRUE /\ Goto(w, "compare") /\ UNCHANGED out
    /\ UNCHANGED <<cells, queue, result, closed, instances, ctxDone, arg, narg, credited>>

\* Fault: the announcement is withdrawn without looking for other waiters.
ClearPendingAlways == pending' = FALSE

ClearPending == pending' = Active

AddWaiter(w) ==
    /\ queue' = [queue EXCEPT ![arg[w].off] = Append(@, w)]
    /\ pending' = TRUE

\* Still under s.mu: the values differ, or the caller does not want to wait.
WaitDecline(w) ==
    /\ pc[w] = "compare"
    /\ value[arg[w].off] # arg[w].exp \/ arg[w].timeout = "zero"
    /\ ClearPending
    /\ Finish(w, IF value[arg[w].off] # arg[w].exp THEN "notEqual" ELSE "timedOut")
    /\ mu' = Nobody
    /\ UNCHANGED <<cells, queue, result, closed, instances, ctxDone, arg, narg, credited>>

\* Still under s.mu: the values agree, so the waiter joins the offset's queue.
WaitPark(w) ==
    /\ pc[w] = "compare"
    /\ value[arg[w].off] = arg[w].exp /\ arg[w].timeout # "zero"
    /\ AddWaiter(w)
    /\ Goto(w, "parked")
    /\ mu' = Nobody
    /\ UNCHANGED <<cells, result, closed, instances, ctxDone, arg, out, narg, credited>>

\* A nil error is a notification; otherwise the error is errMemoryWaitClosed.
Answer(r) == IF r = "woken" THEN "notified" ELSE "memoryClosed"

\* case err := <-w.result, in the select or in cancelWait.
Receive(w) ==
    /\ pc[w] \in {"parked", "receive"} /\ result[w] # "empty"
    /\ result' = [result EXCEPT ![w] = "empty"]
    /\ Finish(w, Answer(result[w]))
    /\ UNCHANGED <<cells, mu, pending, queue, closed, instances, ctxDone, arg, narg, credited>>

\* case <-timer.C
Timer(w) ==
    /\ pc[w] = "parked" /\ arg[w].timeout = "finite"
    /\ Goto(w, "cancelTimer")
    /\ UNCHANGED <<cells, waitState, closed, instances, ctxDone, arg, out, narg, credited>>

\* case <-ctx.Done()
Cancelled(w) ==
    /\ pc[w] = "parked" /\ w \in ctxDone
    /\ Goto(w, "cancelCtx")
    /\ UNCHANGED <<cells, waitState, closed, instances, ctxDone, arg, out, narg, credited>>

\* removeWaiterLocked, for a waiter that is still queued: it is unlinked.
RemoveWaiter(w) ==
    /\ \E i \in DOMAIN queue[arg[w].off] :
          /\ queue[arg[w].off][i] = w
          /\ queue' = [queue EXCEPT ![arg[w].off] = SubSeq(@, 1, i - 1) \o SubSeq(@, i + 1, Len(@))]
    /\ pending' = (closed \/ \E o \in Offsets : queue'[o] # <<>>)

\* Fault: the caller's reason wins although a notify already chose this waiter.
CancelWaitIgnoresNotify(w) ==
    /\ pc[w] \in {"cancelTimer", "cancelCtx"} /\ mu = Nobody
    /\ IF Queued(w) THEN RemoveWaiter(w) ELSE UNCHANGED <<queue, pending>>
    /\ Finish(w, IF pc[w] = "cancelTimer" THEN "timedOut" ELSE "canceled")
    /\ result' = [result EXCEPT ![w] = "empty"]
    /\ UNCHANGED <<cells, mu, closed, instances, ctxDone, arg, narg, credited>>

CancelWait(w) ==
    /\ pc[w] \in {"cancelTimer", "cancelCtx"} /\ mu = Nobody
    /\ IF Queued(w)
          THEN /\ RemoveWaiter(w)
               /\ Finish(w, IF pc[w] = "cancelTimer" THEN "timedOut" ELSE "canceled")
          ELSE Goto(w, "receive") /\ UNCHANGED <<queue, pending, out>>
    /\ UNCHANGED <<cells, mu, result, closed, instances, ctxDone, arg, narg, credited>>

-----------------------------------------------------------------------------
(* Guest stores and memory.atomic.notify *)

\* The guest changes a cell and goes on to notify that offset.
Store(n) ==
    /\ n \in Notifiers /\ pc[n] = "idle" /\ n \in attached
    /\ \E o \in Offsets, v \in Values, c \in Counts :
          buffer' = [buffer EXCEPT ![n] = <<o, v>>] /\ narg' = [narg EXCEPT ![n] = <<o, c>>]
    /\ Goto(n, "fence")
    /\ UNCHANGED <<value, waitState, closed, instances, ctxDone, arg, out, credited>>

\* The processor makes a buffered store visible.
Drain(n) ==
    /\ n \in Notifiers /\ buffer[n] # Nobody
    /\ value' = [value EXCEPT ![buffer[n][1]] = buffer[n][2]]
    /\ buffer' = [buffer EXCEPT ![n] = Nobody]
    /\ UNCHANGED <<waitState, closed, instances, ctxDone, pc, arg, out, narg, credited>>

\* Fault: no StoreLoad barrier before the pending word is read.
FenceMissing(n) ==
    /\ pc[n] = "fence"
    /\ Goto(n, "test")
    /\ UNCHANGED <<cells, waitState, closed, instances, ctxDone, arg, out, narg, credited>>

\* The locked no-op waits for the store buffer.
Fence(n) ==
    /\ pc[n] = "fence" /\ buffer[n] = Nobody
    /\ Goto(n, "test")
    /\ UNCHANGED <<cells, waitState, closed, instances, ctxDone, arg, out, narg, credited>>

\* Nobody announced: notify returns 0 without entering Go.
TestPending(n) ==
    /\ pc[n] = "test"
    /\ Goto(n, IF pending THEN "slow" ELSE "idle")
    /\ narg' = IF pending THEN narg ELSE [narg EXCEPT ![n] = NoNotify]
    /\ UNCHANGED <<cells, waitState, closed, instances, ctxDone, arg, out, credited>>

\* The number of waiters that the loop of notify takes from a queue.
Woken(q, count) ==
    IF count < Len(q) THEN count ELSE Len(q)

\* Memory.notify, under s.mu.
Notify(n) ==
    /\ pc[n] = "slow" /\ mu = Nobody
    /\ Goto(n, "idle")
    /\ narg' = [narg EXCEPT ![n] = NoNotify]
    /\ LET o == narg[n][1]
           k == Woken(queue[o], narg[n][2])
           chosen == {queue[o][i] : i \in 1..k}
       IN  IF closed \/ k = 0
              THEN UNCHANGED <<queue, pending, result, credited>>
              ELSE /\ queue' = [queue EXCEPT ![o] = SubSeq(@, k + 1, Len(@))]
                   /\ pending' = \E p \in Offsets : queue'[p] # <<>>
                   /\ result' = [w \in Waiters |-> IF w \in chosen THEN "woken" ELSE result[w]]
                   /\ credited' = credited \cup chosen
    /\ UNCHANGED <<cells, mu, closed, instances, ctxDone, arg, out>>

-----------------------------------------------------------------------------
(* Closing instances and the memory *)

\* closeOnce: closeInvocationEntry, then cancelAtomicWaitContext.
CloseInvocationEntry(i) ==
    /\ i \in Hosted /\ i \in attached /\ closer[i] = "open"
    /\ closer' = [closer EXCEPT ![i] = "closing"]
    /\ UNCHANGED <<cells, waitState, closed, attached, published, ctxDone, pc, arg, out, narg, credited>>

CancelAtomicWaitContext(i) ==
    /\ i \in Hosted /\ closer[i] = "closing"
    /\ closer' = [closer EXCEPT ![i] = "closed"]
    /\ ctxDone' = IF i \in published THEN ctxDone \cup {i} ELSE ctxDone
    /\ UNCHANGED <<cells, waitState, closed, attached, published, pc, arg, out, narg, credited>>

\* Finalization of a closed instance detaches it from the memory.
DetachImporter(i) ==
    /\ i \in attached /\ pc[i] = "idle"
    /\ i \in Hosted => closer[i] = "closed"
    /\ i \in Notifiers => buffer[i] = Nobody
    /\ attached' = attached \ {i}
    /\ UNCHANGED <<cells, waitState, closed, closer, published, ctxDone, pc, arg, out, narg, credited>>

\* A new instance imports the memory.
AttachImporter(i) ==
    /\ i \in Guests \ attached
    /\ ~closed
    /\ mu = Nobody
    /\ attached' = attached \cup {i}
    /\ closer' = [h \in Hosted |-> IF h = i THEN "open" ELSE closer[h]]
    /\ UNCHANGED <<cells, waitState, closed, published, ctxDone, pc, arg, out, narg, credited>>

\* closeWaitersLocked: every queued waiter gets the error and leaves its queue.
CloseWaiters ==
    /\ pending' = (pending \/ Active)
    /\ result' = [w \in Waiters |-> IF Queued(w) THEN "closed" ELSE result[w]]
    /\ queue' = [o \in Offsets |-> <<>>]

\* Memory.Close is refused while an instance still imports the memory.
Close ==
    /\ ~closed /\ mu = Nobody /\ attached = {}
    /\ closed' = TRUE
    /\ CloseWaiters
    /\ UNCHANGED <<cells, mu, instances, ctxDone, pc, arg, out, narg, credited>>

-----------------------------------------------------------------------------
\* Steps of a wait or of an invocation that has begun, except those below.
WaitStep(w) ==
    \/ PublishAtomicWaitContext(w) \/ RecheckClosed(w) \/ NativeCompare(w)
    \/ WaitDecline(w) \/ WaitPark(w) \/ Receive(w) \/ Cancelled(w) \/ Resume(w)

NotifyStep(n) == Drain(n) \/ Fence(n) \/ TestPending(n)

\* Steps that acquire s.mu.
MuStep(x) == WaitAnnounce(x) \/ CancelWait(x) \/ Notify(x)

\* What the guests, the host and the environment may do.
CallerStep(x) ==
    \/ Invoke(x) \/ GuestWait(x) \/ HostWait(x) \/ ContextDone(x) \/ EndInvocation(x)
    \/ Store(x) \/ CloseInvocationEntry(x) \/ DetachImporter(x) \/ AttachImporter(x)

Next ==
    \/ \E w \in Waiters : WaitStep(w) \/ Timer(w)
    \/ \E n \in Notifiers : NotifyStep(n)
    \/ \E x \in Waiters \cup Notifiers : MuStep(x) \/ CallerStep(x)
    \/ \E i \in Hosted : CancelAtomicWaitContext(i)
    \/ Close

Spec == Init /\ [][Next]_vars

\* Goroutines and guest threads are scheduled, timers fire, Instance.Close runs
\* on, stores drain, and sync.Mutex does not starve a goroutine.
Fairness ==
    /\ \A w \in Waiters :
          WF_vars(WaitStep(w)) /\ WF_vars(Timer(w)) /\ SF_vars(WaitAnnounce(w) \/ CancelWait(w))
    /\ \A n \in Notifiers : WF_vars(NotifyStep(n)) /\ SF_vars(Notify(n))
    /\ \A i \in Hosted : WF_vars(CancelAtomicWaitContext(i))

FairSpec == Spec /\ Fairness

-----------------------------------------------------------------------------
(* Properties *)

\* The pending word never hides a waiter from the native shortcut: it is set
\* while a wait compares and while anyone is queued on any offset; and outside
\* s.mu on an open memory it is set for no other reason, so that an empty notify
\* never needs the helper (SetSharedNotifyPending in wait, removeWaiterLocked).
PendingIsExact ==
    /\ Active => pending
    /\ mu # Nobody => pending
    /\ mu = Nobody /\ ~closed /\ pending => Active

\* A waiter that is still queued although its cell no longer has the value it
\* compared has a notify on the way: the guest that stored has not yet tested the
\* pending word, or it has and is on its way to the helper.  (For notifiers
\* that wake everyone: the count is at least the number of waiters.)
NoLostWakeup ==
    \A w \in Waiters :
        Queued(w) /\ value[arg[w].off] # arg[w].exp =>
            \E n \in Notifiers : pc[n] \in {"fence", "test", "slow"} /\ narg[n][1] = arg[w].off

\* A wake is spent on exactly the waiter that reports it: a waiter counted by a
\* notify returns memoryWaitNotified even if its timer or its context fired in
\* between, and no other waiter does (cancelWait).
WakeIsReported ==
    \A w \in Waiters :
        pc[w] = "returned" => (w \in credited <=> out[w] = "notified")

\* A parked wait returns once its instance is closed, whatever the order of
\* Close and of the publication of the wait's context, once the memory is
\* closed, and when it has a timeout.
WaitReturns ==
    \A w \in Waiters :
        (pc[w] = "parked"
            /\ (closed \/ arg[w].timeout = "finite" \/ (w \in Hosted /\ closer[w] # "open")))
        ~> pc[w] = "idle" \/ pc[w] = "guest"
=============================================================================
