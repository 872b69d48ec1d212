------------------------ MODULE InvocationGateProofs ------------------------
(***************************************************************************)
(* Proofs about InvocationGate for any set of goroutines.                  *)
(*                                                                         *)
(* The gate is safe because of what a goroutine may conclude from its      *)
(* place in the code.  An owner's word is Held without Handoff, so every   *)
(* compare-and-swap from a free word and every hand-off claim by others    *)
(* fails; and the only plain Store, in Unlock, is made under mu by the     *)
(* owner, when no one else can change the word it loaded.                  *)
(***************************************************************************)
EXTENDS InvocationGate, TLAPS

\* Places at which a goroutine is the owner, and at which it is not.
OwnerLabels == {"acquired", "direct", "inside", "native", "preparedEnd",
                "unlock", "unlockCAS", "unlockSlow", "unlockStore"}
NonOwnerLabels == {"idle", "lock1", "lock2", "top", "cas0", "casR", "claim", "slow",
                   "join", "parked", "cancel", "giveUp", "woken", "unlockBits"}
MuLabels == {"join", "unlockStore", "unlockBits", "revokeBits"}

Placement ==
    \A t \in Threads :
        /\ pc[t] # "panic"
        /\ pc[t] \in OwnerLabels => mode[t] # "none"
        /\ pc[t] \in NonOwnerLabels => mode[t] = "none"
        /\ pc[t] \in MuLabels <=> mu = t

Ownership ==
    /\ \A s, t \in Threads : mode[s] # "none" /\ mode[t] # "none" => s = t
    /\ \A t \in Threads : mode[t] # "none" => "Held" \in state /\ "Handoff" \notin state
    /\ "Handoff" \in state => "Held" \in state

Loaded ==
    \A t \in Threads :
        /\ pc[t] = "unlockStore" => seen[t] = state
        /\ pc[t] = "unlockCAS" => "Waiters" \notin seen[t]

\* Places of markNativeControlShared after revokeFast, and after the shared bit.
ShareLabels == {"share", "shareCheck", "shareLock", "shareWait"}
SharedLabels == {"shareCheck", "shareLock", "shareWait"}

\* A fast owner shows in the word; Revoked is never cleared, and from the moment
\* revokeFast finds no fast owner none can come back; once native control is
\* shared no prepared activation starts, and publication waited for the last one.
Revocation ==
    /\ \A t \in Threads : mode[t] = "fast" => "Fast" \in state
    /\ \A t \in Threads : pc[t] = "revokeBits" => "Revoked" \in state /\ "Fast" \notin state
    /\ revoked => "Revoked" \in state /\ \A t \in Threads : mode[t] # "fast"
    /\ \A t \in Threads : pc[t] \in ShareLabels => revoked
    /\ \A t \in Threads : pc[t] \in SharedLabels => "NativeControlShared" \in flags
    /\ \A t \in Threads : pc[t] = "native" => "PreparedActive" \in flags
    /\ published => /\ revoked
                    /\ "NativeControlShared" \in flags
                    /\ "PreparedActive" \notin flags

IInv == TypeOK /\ Placement /\ Ownership /\ Loaded /\ QueueHasReleaser

-----------------------------------------------------------------------------
\* The gate starts free with nobody inside.
LEMMA InitIInv == Init => IInv
<1> SUFFICES ASSUME Init PROVE IInv
  OBVIOUS
<1> USE RolesAssumption DEF Init
<1>1. TypeOK
  <2>1. queue \in Seq(Threads)
    OBVIOUS
  <2>2. pc \in [Threads -> Labels]
    BY DEF Labels
  <2>3. /\ seen \in [Threads -> SUBSET Bits]
        /\ ctx \in [Threads -> {"none", "live", "done"}]
        /\ mode \in [Threads -> {"none", "ord", "fast"}]
    OBVIOUS
  <2> QED BY <2>1, <2>2, <2>3, Zenon DEF TypeOK
<1>2. Placement
  BY Zenon DEF Placement, OwnerLabels, NonOwnerLabels, MuLabels
<1>3. Ownership
  BY DEF Ownership
<1>4. Loaded
  BY Zenon DEF Loaded
<1>5. QueueHasReleaser
  BY DEF QueueHasReleaser, Owners
<1> QED BY <1>1, <1>2, <1>3, <1>4, <1>5 DEF IInv

-----------------------------------------------------------------------------
\* The only operations on the queue: join at the tail, leave from anywhere,
\* leave at the head.  All keep it a sequence of goroutines.
LEMMA QueueOperations ==
  ASSUME NEW q \in Seq(Threads)
  PROVE  /\ \A t \in Threads : Append(q, t) \in Seq(Threads)
         /\ \A i \in DOMAIN q : Unlink(q, i) \in Seq(Threads)
         /\ q # <<>> => Head(q) \in Threads /\ Tail(q) \in Seq(Threads)
<1>1. \A t \in Threads : Append(q, t) \in Seq(Threads)
  OBVIOUS
<1>2. ASSUME NEW i \in DOMAIN q PROVE Unlink(q, i) \in Seq(Threads)
  <2>1. Len(q) \in Nat /\ i \in 1..Len(q)
    BY <1>2
  <2>2. /\ SubSeq(q, 1, i-1) \in Seq(Threads)
        /\ SubSeq(q, i+1, Len(q)) \in Seq(Threads)
    BY <2>1
  <2> QED BY <2>2 DEF Unlink
<1>3. q # <<>> => Head(q) \in Threads /\ Tail(q) \in Seq(Threads)
  OBVIOUS
<1> QED BY <1>1, <1>2, <1>3

\* Every step keeps every variable in its type.
LEMMA TypeStep == TypeOK /\ [Next]_vars => TypeOK'
<1> SUFFICES ASSUME TypeOK, [Next]_vars PROVE TypeOK'
  OBVIOUS
<1> USE RolesAssumption DEF TypeOK, Flags, Labels, Goto, slowVars, history
<1>0. CASE UNCHANGED vars
  BY <1>0 DEF vars
<1>1. ASSUME NEW t \in Threads, Lock1(t) PROVE TypeOK'
  BY <1>1, ZenonT(40) DEF Lock1, TryClaim, Bits
<1>2. ASSUME NEW t \in Threads, Lock2(t) PROVE TypeOK'
  BY <1>2, ZenonT(40) DEF Lock2, TryClaim, Bits
<1>3. ASSUME NEW t \in Threads, LockTop(t) PROVE TypeOK'
  BY <1>3 DEF LockTop, Return
<1>4. ASSUME NEW t \in Threads, LockCAS0(t) PROVE TypeOK'
  BY <1>4, ZenonT(40) DEF LockCAS0, TryClaim, Bits
<1>5. ASSUME NEW t \in Threads, LockCASRevoked(t) PROVE TypeOK'
  BY <1>5, ZenonT(40) DEF LockCASRevoked, TryClaim, Bits
<1>6. ASSUME NEW t \in Threads, LockBarge(t) PROVE TypeOK'
  BY <1>6 DEF LockBarge, TryAcquireHandoff
<1>7. ASSUME NEW t \in Threads, LockRecheck(t) PROVE TypeOK'
  BY <1>7 DEF LockRecheck
<1>8. ASSUME NEW t \in Threads, Wake(t) PROVE TypeOK'
  BY <1>8 DEF Wake
<1>9. ASSUME NEW t \in Threads, WakeDone(t) PROVE TypeOK'
  BY <1>9 DEF WakeDone
<1>10. ASSUME NEW t \in Threads, GiveUp(t) PROVE TypeOK'
  BY <1>10 DEF GiveUp, TryAcquireHandoff, Return
<1>11. ASSUME NEW t \in Threads, Claim(t) PROVE TypeOK'
  BY <1>11 DEF Claim, TryAcquireHandoff
<1>12. ASSUME NEW t \in Threads, UnlockLoad(t) PROVE TypeOK'
  BY <1>12 DEF UnlockLoad
<1>13. ASSUME NEW t \in Threads, UnlockCAS(t) PROVE TypeOK'
  BY <1>13 DEF UnlockCAS, Return
<1>14. ASSUME NEW t \in Threads, DirectValid(t) PROVE TypeOK'
  BY <1>14 DEF DirectValid
<1>15. ASSUME NEW t \in Threads, UnlockPreparedFastState(t) PROVE TypeOK'
  BY <1>15 DEF UnlockPreparedFastState
<1>16. ASSUME NEW t \in Threads, RevokeWake(t) PROVE TypeOK'
  BY <1>16 DEF RevokeWake
<1>17. ASSUME NEW t \in Threads, ShareNativeControl(t) PROVE TypeOK'
  BY <1>17 DEF ShareNativeControl
<1>18. ASSUME NEW t \in Threads, ShareCheck(t) PROVE TypeOK'
  BY <1>18, ZenonT(40) DEF ShareCheck, Home
<1>19. ASSUME NEW t \in Threads, ShareWake(t) PROVE TypeOK'
  BY <1>19 DEF ShareWake
<1>20. ASSUME NEW t \in Threads, LockJoin(t) PROVE TypeOK'
  <2>1. queue' \in Seq(Threads)
    <3>1. Append(queue, t) \in Seq(Threads)
      BY QueueOperations
    <3> QED BY <1>20, <3>1, SMTT(60) DEF LockJoin, EnqueueWaiter
  <2>2. state' \subseteq Bits /\ mode' \in [Threads -> {"none", "ord", "fast"}]
    BY <1>20, Zenon DEF LockJoin, EnqueueWaiter, Bits
  <2> QED BY <1>20, <2>1, <2>2, ZenonT(40) DEF LockJoin, EnqueueWaiter
<1>21. ASSUME NEW t \in Threads, UnlockStore(t) PROVE TypeOK'
  <2>1. queue' \in Seq(Threads) /\ granted' \subseteq Threads
    <3>1. queue # <<>> => Head(queue) \in Threads /\ Tail(queue) \in Seq(Threads)
      BY QueueOperations
    <3> QED BY <1>21, <3>1, Zenon DEF UnlockStore
  <2>2. state' \subseteq Bits
    BY <1>21 DEF UnlockStore, UpdateWaiterBit, Bits
  <2> QED BY <1>21, <2>1, <2>2 DEF UnlockStore
<1>22. ASSUME NEW t \in Threads, UnlockBits(t) PROVE TypeOK'
  BY <1>22 DEF UnlockBits, UpdateWaiterBit, NotifyRevocation, Return, Bits
<1>23. ASSUME NEW t \in Threads, RevokeBits(t) PROVE TypeOK'
  BY <1>23 DEF RevokeBits, UpdateWaiterBit, Home, Bits
<1>24. ASSUME NEW t \in Threads, LockSlow(t) PROVE TypeOK'
  BY <1>24 DEF LockSlow
<1>25. ASSUME NEW t \in Threads, Cancel(t) PROVE TypeOK'
  <2>1. queue' \in Seq(Threads)
    BY <1>25, QueueOperations DEF Cancel
  <2>2. state' \subseteq Bits
    BY <1>25, Zenon DEF Cancel, UpdateWaiterBit, Bits
  <2> QED BY <1>25, <2>1, <2>2, ZenonT(40) DEF Cancel, Return
<1>26. ASSUME NEW t \in Threads, UnlockSlow(t) PROVE TypeOK'
  <2>1. CASE "Held" \in state
    BY <1>26, <2>1 DEF UnlockSlow
  <2>2. CASE "Held" \notin state
    BY <1>26, <2>2 DEF UnlockSlow
  <2> QED BY <2>1, <2>2
<1>27. ASSUME NEW t \in Threads, RevokeFast(t) PROVE TypeOK'
  <2>1. state' \subseteq Bits
    BY <1>27, ZenonT(40) DEF RevokeFast, Bits
  <2>2. mu' \in Threads \cup {NoThread} /\ changed' \subseteq Threads
    BY <1>27 DEF RevokeFast
  <2>3. revocationWaiters' \in BOOLEAN
    BY <1>27, Zenon DEF RevokeFast
  <2> QED BY <1>27, <2>1, <2>2, <2>3 DEF RevokeFast
<1>28. ASSUME NEW t \in Threads, ShareLock(t) PROVE TypeOK'
  <2>1. changed' \subseteq Threads /\ published' \in BOOLEAN
    BY <1>28, ZenonT(40) DEF ShareLock
  <2> QED BY <1>28, <2>1 DEF ShareLock, Home
<1>29. ASSUME NEW t \in Threads, PreparedNotify(t) PROVE TypeOK'
  BY <1>29, Zenon DEF PreparedNotify, UpdateWaiterBit, Bits
<1>30. ASSUME NEW t \in Threads, EndInvocation(t) PROVE TypeOK'
  BY <1>30 DEF EndInvocation
<1>31. ASSUME NEW t \in Threads, Lock(t) PROVE TypeOK'
  BY <1>31 DEF Lock
<1>32. ASSUME NEW t \in Threads, LockContext(t) PROVE TypeOK'
  BY <1>32 DEF LockContext
<1>33. ASSUME NEW t \in Threads, ContextDone(t) PROVE TypeOK'
  BY <1>33 DEF ContextDone
<1>34. ASSUME NEW t \in Threads, Direct(t) PROVE TypeOK'
  BY <1>34 DEF Direct, Bits
<1>35. ASSUME NEW t \in Threads, LockPreparedFastState(t) PROVE TypeOK'
  BY <1>35 DEF LockPreparedFastState
<1>36. ASSUME NEW t \in Threads, BeginRevoke(t) PROVE TypeOK'
  BY <1>36 DEF BeginRevoke
<1> HIDE DEF TypeOK, Flags, Labels, Goto, slowVars, history
<1> QED BY <1>0, <1>1, <1>2, <1>3, <1>4, <1>5, <1>6, <1>7, <1>8, <1>9, <1>10, <1>11,
   <1>12, <1>13, <1>14, <1>15, <1>16, <1>17, <1>18, <1>19, <1>20, <1>21, <1>22,
   <1>23, <1>24, <1>25, <1>26, <1>27, <1>28, <1>29, <1>30, <1>31, <1>32, <1>33,
   <1>34, <1>35, <1>36 DEF Next, FreeStep, HeldStep, MuStep, CallerStep

\* A goroutine's place tells whether it owns the gate and whether it holds mu;
\* in particular Unlock is only called by the owner, who finds the word Held.
LEMMA PlacementStep == IInv /\ [Next]_vars => Placement'
<1> SUFFICES ASSUME IInv, [Next]_vars PROVE Placement'
  OBVIOUS
<1> USE RolesAssumption DEF IInv, TypeOK, Placement, Ownership, OwnerLabels,
   NonOwnerLabels, MuLabels, Goto, slowVars, history
<1>0. CASE UNCHANGED vars
  BY <1>0 DEF vars
<1>1. ASSUME NEW t \in Threads, Lock1(t) PROVE Placement'
  BY <1>1 DEF Lock1, TryClaim
<1>2. ASSUME NEW t \in Threads, Lock2(t) PROVE Placement'
  BY <1>2 DEF Lock2, TryClaim
<1>3. ASSUME NEW t \in Threads, LockTop(t) PROVE Placement'
  BY <1>3 DEF LockTop, Return
<1>4. ASSUME NEW t \in Threads, LockCAS0(t) PROVE Placement'
  BY <1>4 DEF LockCAS0, TryClaim
<1>5. ASSUME NEW t \in Threads, LockCASRevoked(t) PROVE Placement'
  BY <1>5 DEF LockCASRevoked, TryClaim
<1>6. ASSUME NEW t \in Threads, LockBarge(t) PROVE Placement'
  BY <1>6 DEF LockBarge, TryAcquireHandoff
<1>7. ASSUME NEW t \in Threads, LockRecheck(t) PROVE Placement'
  BY <1>7 DEF LockRecheck
<1>8. ASSUME NEW t \in Threads, Wake(t) PROVE Placement'
  BY <1>8 DEF Wake
<1>9. ASSUME NEW t \in Threads, WakeDone(t) PROVE Placement'
  BY <1>9 DEF WakeDone
<1>10. ASSUME NEW t \in Threads, GiveUp(t) PROVE Placement'
  BY <1>10 DEF GiveUp, TryAcquireHandoff, Return
<1>11. ASSUME NEW t \in Threads, Claim(t) PROVE Placement'
  BY <1>11 DEF Claim, TryAcquireHandoff
<1>12. ASSUME NEW t \in Threads, UnlockLoad(t) PROVE Placement'
  BY <1>12 DEF UnlockLoad
<1>13. ASSUME NEW t \in Threads, UnlockCAS(t) PROVE Placement'
  BY <1>13 DEF UnlockCAS, Return
<1>14. ASSUME NEW t \in Threads, DirectValid(t) PROVE Placement'
  BY <1>14 DEF DirectValid
<1>15. ASSUME NEW t \in Threads, UnlockPreparedFastState(t) PROVE Placement'
  BY <1>15 DEF UnlockPreparedFastState
<1>16. ASSUME NEW t \in Threads, RevokeWake(t) PROVE Placement'
  BY <1>16 DEF RevokeWake
<1>17. ASSUME NEW t \in Threads, ShareNativeControl(t) PROVE Placement'
  BY <1>17 DEF ShareNativeControl
<1>18. ASSUME NEW t \in Threads, ShareCheck(t) PROVE Placement'
  BY <1>18 DEF ShareCheck, Home
<1>19. ASSUME NEW t \in Threads, ShareWake(t) PROVE Placement'
  BY <1>19 DEF ShareWake
<1>20. ASSUME NEW t \in Threads, LockJoin(t) PROVE Placement'
  BY <1>20 DEF LockJoin, EnqueueWaiter
<1>21. ASSUME NEW t \in Threads, UnlockStore(t) PROVE Placement'
  BY <1>21 DEF UnlockStore, UpdateWaiterBit, NotifyRevocation
<1>22. ASSUME NEW t \in Threads, UnlockBits(t) PROVE Placement'
  BY <1>22 DEF UnlockBits, UpdateWaiterBit, NotifyRevocation, Return
<1>23. ASSUME NEW t \in Threads, RevokeBits(t) PROVE Placement'
  BY <1>23 DEF RevokeBits, UpdateWaiterBit, Home
<1>24. ASSUME NEW t \in Threads, LockSlow(t) PROVE Placement'
  BY <1>24 DEF LockSlow
<1>25. ASSUME NEW t \in Threads, Cancel(t) PROVE Placement'
  BY <1>25 DEF Cancel, Return, Queued, UpdateWaiterBit, Unlink
<1>26. ASSUME NEW t \in Threads, UnlockSlow(t) PROVE Placement'
  BY <1>26 DEF UnlockSlow
<1>27. ASSUME NEW t \in Threads, RevokeFast(t) PROVE Placement'
  BY <1>27 DEF RevokeFast
<1>28. ASSUME NEW t \in Threads, ShareLock(t) PROVE Placement'
  BY <1>28 DEF ShareLock, Home
<1>29. ASSUME NEW t \in Threads, PreparedNotify(t) PROVE Placement'
  BY <1>29 DEF PreparedNotify, UpdateWaiterBit
<1>30. ASSUME NEW t \in Threads, EndInvocation(t) PROVE Placement'
  BY <1>30 DEF EndInvocation
<1>31. ASSUME NEW t \in Threads, Lock(t) PROVE Placement'
  BY <1>31 DEF Lock
<1>32. ASSUME NEW t \in Threads, LockContext(t) PROVE Placement'
  BY <1>32 DEF LockContext
<1>33. ASSUME NEW t \in Threads, ContextDone(t) PROVE Placement'
  BY <1>33 DEF ContextDone
<1>34. ASSUME NEW t \in Threads, Direct(t) PROVE Placement'
  BY <1>34 DEF Direct
<1>35. ASSUME NEW t \in Threads, LockPreparedFastState(t) PROVE Placement'
  BY <1>35 DEF LockPreparedFastState
<1>36. ASSUME NEW t \in Threads, BeginRevoke(t) PROVE Placement'
  BY <1>36 DEF BeginRevoke
<1> HIDE DEF IInv, TypeOK, Placement, Ownership, OwnerLabels, NonOwnerLabels,
   MuLabels, Goto, slowVars, history
<1> QED BY <1>0, <1>1, <1>2, <1>3, <1>4, <1>5, <1>6, <1>7, <1>8, <1>9, <1>10, <1>11,
   <1>12, <1>13, <1>14, <1>15, <1>16, <1>17, <1>18, <1>19, <1>20, <1>21, <1>22,
   <1>23, <1>24, <1>25, <1>26, <1>27, <1>28, <1>29, <1>30, <1>31, <1>32, <1>33,
   <1>34, <1>35, <1>36 DEF Next, FreeStep, HeldStep, MuStep, CallerStep

\* Every way to become the owner needs a word without Held, or with Handoff: no
\* second owner can appear, and only the owner's release ends the ownership.
LEMMA OwnershipStep == IInv /\ [Next]_vars => Ownership'
<1> SUFFICES ASSUME IInv, [Next]_vars PROVE Ownership'
  OBVIOUS
<1> USE RolesAssumption DEF IInv, TypeOK, Placement, Ownership, Loaded, OwnerLabels,
   MuLabels, Goto, slowVars, history
<1>0. CASE UNCHANGED vars
  BY <1>0 DEF vars
<1>1. ASSUME NEW t \in Threads, Lock1(t) PROVE Ownership'
  BY <1>1 DEF Lock1, TryClaim
<1>2. ASSUME NEW t \in Threads, Lock2(t) PROVE Ownership'
  BY <1>2 DEF Lock2, TryClaim
<1>3. ASSUME NEW t \in Threads, LockTop(t) PROVE Ownership'
  BY <1>3 DEF LockTop, Return
<1>4. ASSUME NEW t \in Threads, LockCAS0(t) PROVE Ownership'
  BY <1>4 DEF LockCAS0, TryClaim
<1>5. ASSUME NEW t \in Threads, LockCASRevoked(t) PROVE Ownership'
  BY <1>5 DEF LockCASRevoked, TryClaim
<1>6. ASSUME NEW t \in Threads, LockBarge(t) PROVE Ownership'
  BY <1>6 DEF LockBarge, TryAcquireHandoff
<1>7. ASSUME NEW t \in Threads, LockRecheck(t) PROVE Ownership'
  BY <1>7 DEF LockRecheck
<1>8. ASSUME NEW t \in Threads, Wake(t) PROVE Ownership'
  BY <1>8 DEF Wake
<1>9. ASSUME NEW t \in Threads, WakeDone(t) PROVE Ownership'
  BY <1>9 DEF WakeDone
<1>10. ASSUME NEW t \in Threads, GiveUp(t) PROVE Ownership'
  BY <1>10 DEF GiveUp, TryAcquireHandoff, Return
<1>11. ASSUME NEW t \in Threads, Claim(t) PROVE Ownership'
  BY <1>11 DEF Claim, TryAcquireHandoff
<1>12. ASSUME NEW t \in Threads, UnlockLoad(t) PROVE Ownership'
  BY <1>12 DEF UnlockLoad
<1>13. ASSUME NEW t \in Threads, UnlockCAS(t) PROVE Ownership'
  BY <1>13 DEF UnlockCAS, Return
<1>14. ASSUME NEW t \in Threads, DirectValid(t) PROVE Ownership'
  BY <1>14 DEF DirectValid
<1>15. ASSUME NEW t \in Threads, UnlockPreparedFastState(t) PROVE Ownership'
  BY <1>15 DEF UnlockPreparedFastState
<1>16. ASSUME NEW t \in Threads, RevokeWake(t) PROVE Ownership'
  BY <1>16 DEF RevokeWake
<1>17. ASSUME NEW t \in Threads, ShareNativeControl(t) PROVE Ownership'
  BY <1>17 DEF ShareNativeControl
<1>18. ASSUME NEW t \in Threads, ShareCheck(t) PROVE Ownership'
  BY <1>18 DEF ShareCheck, Home
<1>19. ASSUME NEW t \in Threads, ShareWake(t) PROVE Ownership'
  BY <1>19 DEF ShareWake
<1>20. ASSUME NEW t \in Threads, LockJoin(t) PROVE Ownership'
  BY <1>20 DEF LockJoin, EnqueueWaiter
<1>21. ASSUME NEW t \in Threads, UnlockStore(t) PROVE Ownership'
  BY <1>21 DEF UnlockStore, UpdateWaiterBit, NotifyRevocation
<1>22. ASSUME NEW t \in Threads, UnlockBits(t) PROVE Ownership'
  BY <1>22 DEF UnlockBits, UpdateWaiterBit, NotifyRevocation, Return
<1>23. ASSUME NEW t \in Threads, RevokeBits(t) PROVE Ownership'
  BY <1>23 DEF RevokeBits, UpdateWaiterBit, Home
<1>24. ASSUME NEW t \in Threads, LockSlow(t) PROVE Ownership'
  BY <1>24 DEF LockSlow
<1>25. ASSUME NEW t \in Threads, Cancel(t) PROVE Ownership'
  BY <1>25 DEF Cancel, Return, Queued, UpdateWaiterBit, Unlink
<1>26. ASSUME NEW t \in Threads, UnlockSlow(t) PROVE Ownership'
  BY <1>26 DEF UnlockSlow
<1>27. ASSUME NEW t \in Threads, RevokeFast(t) PROVE Ownership'
  BY <1>27 DEF RevokeFast
<1>28. ASSUME NEW t \in Threads, ShareLock(t) PROVE Ownership'
  BY <1>28 DEF ShareLock, Home
<1>29. ASSUME NEW t \in Threads, PreparedNotify(t) PROVE Ownership'
  BY <1>29 DEF PreparedNotify, UpdateWaiterBit
<1>30. ASSUME NEW t \in Threads, EndInvocation(t) PROVE Ownership'
  BY <1>30 DEF EndInvocation
<1>31. ASSUME NEW t \in Threads, Lock(t) PROVE Ownership'
  BY <1>31 DEF Lock
<1>32. ASSUME NEW t \in Threads, LockContext(t) PROVE Ownership'
  BY <1>32 DEF LockContext
<1>33. ASSUME NEW t \in Threads, ContextDone(t) PROVE Ownership'
  BY <1>33 DEF ContextDone
<1>34. ASSUME NEW t \in Threads, Direct(t) PROVE Ownership'
  BY <1>34 DEF Direct
<1>35. ASSUME NEW t \in Threads, LockPreparedFastState(t) PROVE Ownership'
  BY <1>35 DEF LockPreparedFastState
<1>36. ASSUME NEW t \in Threads, BeginRevoke(t) PROVE Ownership'
  BY <1>36 DEF BeginRevoke
<1> HIDE DEF IInv, TypeOK, Placement, Ownership, Loaded, OwnerLabels, MuLabels,
   Goto, slowVars, history
<1> QED BY <1>0, <1>1, <1>2, <1>3, <1>4, <1>5, <1>6, <1>7, <1>8, <1>9, <1>10, <1>11,
   <1>12, <1>13, <1>14, <1>15, <1>16, <1>17, <1>18, <1>19, <1>20, <1>21, <1>22,
   <1>23, <1>24, <1>25, <1>26, <1>27, <1>28, <1>29, <1>30, <1>31, <1>32, <1>33,
   <1>34, <1>35, <1>36 DEF Next, FreeStep, HeldStep, MuStep, CallerStep

\* Nobody changes the word between Unlock's load under mu and its Store, so the
\* Store loses no concurrent update.
LEMMA LoadedStep == IInv /\ [Next]_vars => Loaded'
<1> SUFFICES ASSUME IInv, [Next]_vars PROVE Loaded'
  OBVIOUS
<1> USE RolesAssumption DEF IInv, TypeOK, Placement, Ownership, Loaded, OwnerLabels,
   MuLabels, Goto, slowVars, history
<1>0. CASE UNCHANGED vars
  BY <1>0 DEF vars
<1>1. ASSUME NEW t \in Threads, Lock1(t) PROVE Loaded'
  BY <1>1 DEF Lock1, TryClaim
<1>2. ASSUME NEW t \in Threads, Lock2(t) PROVE Loaded'
  BY <1>2 DEF Lock2, TryClaim
<1>3. ASSUME NEW t \in Threads, LockTop(t) PROVE Loaded'
  BY <1>3 DEF LockTop, Return
<1>4. ASSUME NEW t \in Threads, LockCAS0(t) PROVE Loaded'
  BY <1>4 DEF LockCAS0, TryClaim
<1>5. ASSUME NEW t \in Threads, LockCASRevoked(t) PROVE Loaded'
  BY <1>5 DEF LockCASRevoked, TryClaim
<1>6. ASSUME NEW t \in Threads, LockBarge(t) PROVE Loaded'
  BY <1>6 DEF LockBarge, TryAcquireHandoff
<1>7. ASSUME NEW t \in Threads, LockRecheck(t) PROVE Loaded'
  BY <1>7 DEF LockRecheck
<1>8. ASSUME NEW t \in Threads, Wake(t) PROVE Loaded'
  BY <1>8 DEF Wake
<1>9. ASSUME NEW t \in Threads, WakeDone(t) PROVE Loaded'
  BY <1>9 DEF WakeDone
<1>10. ASSUME NEW t \in Threads, GiveUp(t) PROVE Loaded'
  BY <1>10 DEF GiveUp, TryAcquireHandoff, Return
<1>11. ASSUME NEW t \in Threads, Claim(t) PROVE Loaded'
  BY <1>11 DEF Claim, TryAcquireHandoff
<1>12. ASSUME NEW t \in Threads, UnlockLoad(t) PROVE Loaded'
  BY <1>12 DEF UnlockLoad
<1>13. ASSUME NEW t \in Threads, UnlockCAS(t) PROVE Loaded'
  BY <1>13 DEF UnlockCAS, Return
<1>14. ASSUME NEW t \in Threads, DirectValid(t) PROVE Loaded'
  BY <1>14 DEF DirectValid
<1>15. ASSUME NEW t \in Threads, UnlockPreparedFastState(t) PROVE Loaded'
  BY <1>15 DEF UnlockPreparedFastState
<1>16. ASSUME NEW t \in Threads, RevokeWake(t) PROVE Loaded'
  BY <1>16 DEF RevokeWake
<1>17. ASSUME NEW t \in Threads, ShareNativeControl(t) PROVE Loaded'
  BY <1>17 DEF ShareNativeControl
<1>18. ASSUME NEW t \in Threads, ShareCheck(t) PROVE Loaded'
  BY <1>18 DEF ShareCheck, Home
<1>19. ASSUME NEW t \in Threads, ShareWake(t) PROVE Loaded'
  BY <1>19 DEF ShareWake
<1>20. ASSUME NEW t \in Threads, LockJoin(t) PROVE Loaded'
  BY <1>20 DEF LockJoin, EnqueueWaiter
<1>21. ASSUME NEW t \in Threads, UnlockStore(t) PROVE Loaded'
  BY <1>21 DEF UnlockStore, UpdateWaiterBit, NotifyRevocation
<1>22. ASSUME NEW t \in Threads, UnlockBits(t) PROVE Loaded'
  BY <1>22 DEF UnlockBits, UpdateWaiterBit, NotifyRevocation, Return
<1>23. ASSUME NEW t \in Threads, RevokeBits(t) PROVE Loaded'
  BY <1>23 DEF RevokeBits, UpdateWaiterBit, Home
<1>24. ASSUME NEW t \in Threads, LockSlow(t) PROVE Loaded'
  BY <1>24 DEF LockSlow
<1>25. ASSUME NEW t \in Threads, Cancel(t) PROVE Loaded'
  <2>1. \A u \in Threads : pc[u] # "unlockStore"
    BY <1>25 DEF Cancel
  <2> QED BY <1>25, <2>1 DEF Cancel, Return
<1>26. ASSUME NEW t \in Threads, UnlockSlow(t) PROVE Loaded'
  BY <1>26 DEF UnlockSlow
<1>27. ASSUME NEW t \in Threads, RevokeFast(t) PROVE Loaded'
  BY <1>27 DEF RevokeFast
<1>28. ASSUME NEW t \in Threads, ShareLock(t) PROVE Loaded'
  BY <1>28 DEF ShareLock, Home
<1>29. ASSUME NEW t \in Threads, PreparedNotify(t) PROVE Loaded'
  BY <1>29 DEF PreparedNotify, UpdateWaiterBit
<1>30. ASSUME NEW t \in Threads, EndInvocation(t) PROVE Loaded'
  BY <1>30 DEF EndInvocation
<1>31. ASSUME NEW t \in Threads, Lock(t) PROVE Loaded'
  BY <1>31 DEF Lock
<1>32. ASSUME NEW t \in Threads, LockContext(t) PROVE Loaded'
  BY <1>32 DEF LockContext
<1>33. ASSUME NEW t \in Threads, ContextDone(t) PROVE Loaded'
  BY <1>33 DEF ContextDone
<1>34. ASSUME NEW t \in Threads, Direct(t) PROVE Loaded'
  BY <1>34 DEF Direct
<1>35. ASSUME NEW t \in Threads, LockPreparedFastState(t) PROVE Loaded'
  BY <1>35 DEF LockPreparedFastState
<1>36. ASSUME NEW t \in Threads, BeginRevoke(t) PROVE Loaded'
  BY <1>36 DEF BeginRevoke
<1> HIDE DEF IInv, TypeOK, Placement, Ownership, Loaded, OwnerLabels, MuLabels,
   Goto, slowVars, history
<1> QED BY <1>0, <1>1, <1>2, <1>3, <1>4, <1>5, <1>6, <1>7, <1>8, <1>9, <1>10, <1>11,
   <1>12, <1>13, <1>14, <1>15, <1>16, <1>17, <1>18, <1>19, <1>20, <1>21, <1>22,
   <1>23, <1>24, <1>25, <1>26, <1>27, <1>28, <1>29, <1>30, <1>31, <1>32, <1>33,
   <1>34, <1>35, <1>36 DEF Next, FreeStep, HeldStep, MuStep, CallerStep

\* A queued waiter never outlives the Held and Waiters bits, and a hand-off
\* never outlives the last notified waiter.
LEMMA QueueHasReleaserStep == IInv /\ [Next]_vars => QueueHasReleaser'
<1> SUFFICES ASSUME IInv, [Next]_vars PROVE QueueHasReleaser'
  OBVIOUS
<1> USE RolesAssumption DEF IInv, TypeOK, Placement, Ownership, Loaded,
   QueueHasReleaser, Owners, OwnerLabels, NonOwnerLabels, MuLabels, Goto, slowVars,
   history
<1>0. CASE UNCHANGED vars
  BY <1>0 DEF vars
<1>1. ASSUME NEW t \in Threads, Lock1(t) PROVE QueueHasReleaser'
  BY <1>1 DEF Lock1, TryClaim
<1>2. ASSUME NEW t \in Threads, Lock2(t) PROVE QueueHasReleaser'
  BY <1>2 DEF Lock2, TryClaim
<1>3. ASSUME NEW t \in Threads, LockTop(t) PROVE QueueHasReleaser'
  BY <1>3 DEF LockTop, Return
<1>4. ASSUME NEW t \in Threads, LockCAS0(t) PROVE QueueHasReleaser'
  BY <1>4 DEF LockCAS0, TryClaim
<1>5. ASSUME NEW t \in Threads, LockCASRevoked(t) PROVE QueueHasReleaser'
  BY <1>5 DEF LockCASRevoked, TryClaim
<1>6. ASSUME NEW t \in Threads, LockBarge(t) PROVE QueueHasReleaser'
  BY <1>6 DEF LockBarge, TryAcquireHandoff
<1>7. ASSUME NEW t \in Threads, LockRecheck(t) PROVE QueueHasReleaser'
  BY <1>7 DEF LockRecheck
<1>8. ASSUME NEW t \in Threads, Wake(t) PROVE QueueHasReleaser'
  BY <1>8 DEF Wake
<1>9. ASSUME NEW t \in Threads, WakeDone(t) PROVE QueueHasReleaser'
  BY <1>9 DEF WakeDone
<1>10. ASSUME NEW t \in Threads, GiveUp(t) PROVE QueueHasReleaser'
  BY <1>10 DEF GiveUp, TryAcquireHandoff, Return
<1>11. ASSUME NEW t \in Threads, Claim(t) PROVE QueueHasReleaser'
  BY <1>11 DEF Claim, TryAcquireHandoff
<1>12. ASSUME NEW t \in Threads, UnlockLoad(t) PROVE QueueHasReleaser'
  BY <1>12 DEF UnlockLoad
<1>13. ASSUME NEW t \in Threads, UnlockCAS(t) PROVE QueueHasReleaser'
  BY <1>13 DEF UnlockCAS, Return
<1>14. ASSUME NEW t \in Threads, DirectValid(t) PROVE QueueHasReleaser'
  BY <1>14 DEF DirectValid
<1>15. ASSUME NEW t \in Threads, UnlockPreparedFastState(t) PROVE QueueHasReleaser'
  BY <1>15 DEF UnlockPreparedFastState
<1>16. ASSUME NEW t \in Threads, RevokeWake(t) PROVE QueueHasReleaser'
  BY <1>16 DEF RevokeWake
<1>17. ASSUME NEW t \in Threads, ShareNativeControl(t) PROVE QueueHasReleaser'
  BY <1>17 DEF ShareNativeControl
<1>18. ASSUME NEW t \in Threads, ShareCheck(t) PROVE QueueHasReleaser'
  BY <1>18 DEF ShareCheck, Home
<1>19. ASSUME NEW t \in Threads, ShareWake(t) PROVE QueueHasReleaser'
  BY <1>19 DEF ShareWake
<1>20. ASSUME NEW t \in Threads, LockJoin(t) PROVE QueueHasReleaser'
  BY <1>20 DEF LockJoin, EnqueueWaiter
<1>21. ASSUME NEW t \in Threads, UnlockStore(t) PROVE QueueHasReleaser'
  <2>1. Owners' = {}
    BY <1>21 DEF UnlockStore
  <2>2. CASE queue = <<>>
    BY <1>21, <2>1, <2>2 DEF UnlockStore
  <2>3. CASE queue # <<>>
    <3>1. /\ {"Held", "Handoff"} \subseteq state'
          /\ queue' # <<>> => "Waiters" \in state'
      BY <1>21, <2>3 DEF UnlockStore, UpdateWaiterBit
    <3>2. granted' = granted \cup {Head(queue)}
      BY <1>21, <2>3 DEF UnlockStore
    <3>3. granted' # {}
      BY <3>2
    <3> QED BY <2>1, <3>1, <3>3
  <2> QED BY <2>2, <2>3
<1>22. ASSUME NEW t \in Threads, UnlockBits(t) PROVE QueueHasReleaser'
  BY <1>22 DEF UnlockBits, UpdateWaiterBit, NotifyRevocation, Return
<1>23. ASSUME NEW t \in Threads, RevokeBits(t) PROVE QueueHasReleaser'
  BY <1>23 DEF RevokeBits, UpdateWaiterBit, Home
<1>24. ASSUME NEW t \in Threads, LockSlow(t) PROVE QueueHasReleaser'
  BY <1>24 DEF LockSlow
<1>25. ASSUME NEW t \in Threads, Cancel(t) PROVE QueueHasReleaser'
  BY <1>25 DEF Cancel, Return, Queued, UpdateWaiterBit, Unlink
<1>26. ASSUME NEW t \in Threads, UnlockSlow(t) PROVE QueueHasReleaser'
  BY <1>26 DEF UnlockSlow
<1>27. ASSUME NEW t \in Threads, RevokeFast(t) PROVE QueueHasReleaser'
  BY <1>27 DEF RevokeFast
<1>28. ASSUME NEW t \in Threads, ShareLock(t) PROVE QueueHasReleaser'
  BY <1>28 DEF ShareLock, Home
<1>29. ASSUME NEW t \in Threads, PreparedNotify(t) PROVE QueueHasReleaser'
  BY <1>29 DEF PreparedNotify, UpdateWaiterBit
<1>30. ASSUME NEW t \in Threads, EndInvocation(t) PROVE QueueHasReleaser'
  BY <1>30 DEF EndInvocation
<1>31. ASSUME NEW t \in Threads, Lock(t) PROVE QueueHasReleaser'
  BY <1>31 DEF Lock
<1>32. ASSUME NEW t \in Threads, LockContext(t) PROVE QueueHasReleaser'
  BY <1>32 DEF LockContext
<1>33. ASSUME NEW t \in Threads, ContextDone(t) PROVE QueueHasReleaser'
  BY <1>33 DEF ContextDone
<1>34. ASSUME NEW t \in Threads, Direct(t) PROVE QueueHasReleaser'
  BY <1>34 DEF Direct
<1>35. ASSUME NEW t \in Threads, LockPreparedFastState(t) PROVE QueueHasReleaser'
  BY <1>35 DEF LockPreparedFastState
<1>36. ASSUME NEW t \in Threads, BeginRevoke(t) PROVE QueueHasReleaser'
  BY <1>36 DEF BeginRevoke
<1> HIDE DEF IInv, TypeOK, Placement, Ownership, Loaded, QueueHasReleaser, Owners,
   OwnerLabels, NonOwnerLabels, MuLabels, Goto, slowVars, history
<1> QED BY <1>0, <1>1, <1>2, <1>3, <1>4, <1>5, <1>6, <1>7, <1>8, <1>9, <1>10, <1>11,
   <1>12, <1>13, <1>14, <1>15, <1>16, <1>17, <1>18, <1>19, <1>20, <1>21, <1>22,
   <1>23, <1>24, <1>25, <1>26, <1>27, <1>28, <1>29, <1>30, <1>31, <1>32, <1>33,
   <1>34, <1>35, <1>36 DEF Next, FreeStep, HeldStep, MuStep, CallerStep

\* No compare-and-swap clears Revoked, a direct entry needs a word without it, and
\* a prepared entry needs both flags clear.
LEMMA RevocationStep == IInv /\ Revocation /\ [Next]_vars => Revocation'
<1> SUFFICES ASSUME IInv, Revocation, [Next]_vars PROVE Revocation'
  OBVIOUS
<1> USE RolesAssumption DEF IInv, TypeOK, Placement, Ownership, Loaded, Revocation,
   ShareLabels, SharedLabels, OwnerLabels, MuLabels, Goto, slowVars, history
<1>0. CASE UNCHANGED vars
  BY <1>0 DEF vars
<1>1. ASSUME NEW t \in Threads, Lock1(t) PROVE Revocation'
  BY <1>1 DEF Lock1, TryClaim
<1>2. ASSUME NEW t \in Threads, Lock2(t) PROVE Revocation'
  BY <1>2 DEF Lock2, TryClaim
<1>3. ASSUME NEW t \in Threads, LockTop(t) PROVE Revocation'
  BY <1>3 DEF LockTop, Return
<1>4. ASSUME NEW t \in Threads, LockCAS0(t) PROVE Revocation'
  BY <1>4 DEF LockCAS0, TryClaim
<1>5. ASSUME NEW t \in Threads, LockCASRevoked(t) PROVE Revocation'
  BY <1>5 DEF LockCASRevoked, TryClaim
<1>6. ASSUME NEW t \in Threads, LockBarge(t) PROVE Revocation'
  BY <1>6 DEF LockBarge, TryAcquireHandoff
<1>7. ASSUME NEW t \in Threads, LockRecheck(t) PROVE Revocation'
  BY <1>7 DEF LockRecheck
<1>8. ASSUME NEW t \in Threads, Wake(t) PROVE Revocation'
  BY <1>8 DEF Wake
<1>9. ASSUME NEW t \in Threads, WakeDone(t) PROVE Revocation'
  BY <1>9 DEF WakeDone
<1>10. ASSUME NEW t \in Threads, GiveUp(t) PROVE Revocation'
  BY <1>10 DEF GiveUp, TryAcquireHandoff, Return
<1>11. ASSUME NEW t \in Threads, Claim(t) PROVE Revocation'
  BY <1>11 DEF Claim, TryAcquireHandoff
<1>12. ASSUME NEW t \in Threads, UnlockLoad(t) PROVE Revocation'
  BY <1>12 DEF UnlockLoad
<1>13. ASSUME NEW t \in Threads, UnlockCAS(t) PROVE Revocation'
  BY <1>13 DEF UnlockCAS, Return
<1>14. ASSUME NEW t \in Threads, DirectValid(t) PROVE Revocation'
  BY <1>14 DEF DirectValid
<1>15. ASSUME NEW t \in Threads, UnlockPreparedFastState(t) PROVE Revocation'
  BY <1>15 DEF UnlockPreparedFastState
<1>16. ASSUME NEW t \in Threads, RevokeWake(t) PROVE Revocation'
  BY <1>16 DEF RevokeWake
<1>17. ASSUME NEW t \in Threads, ShareNativeControl(t) PROVE Revocation'
  BY <1>17 DEF ShareNativeControl
<1>18. ASSUME NEW t \in Threads, ShareCheck(t) PROVE Revocation'
  BY <1>18 DEF ShareCheck, Home
<1>19. ASSUME NEW t \in Threads, ShareWake(t) PROVE Revocation'
  BY <1>19 DEF ShareWake
<1>20. ASSUME NEW t \in Threads, LockJoin(t) PROVE Revocation'
  BY <1>20 DEF LockJoin, EnqueueWaiter
<1>21. ASSUME NEW t \in Threads, UnlockStore(t) PROVE Revocation'
  BY <1>21 DEF UnlockStore, UpdateWaiterBit, NotifyRevocation
<1>22. ASSUME NEW t \in Threads, UnlockBits(t) PROVE Revocation'
  BY <1>22 DEF UnlockBits, UpdateWaiterBit, NotifyRevocation, Return
<1>23. ASSUME NEW t \in Threads, RevokeBits(t) PROVE Revocation'
  BY <1>23 DEF RevokeBits, UpdateWaiterBit, Home
<1>24. ASSUME NEW t \in Threads, LockSlow(t) PROVE Revocation'
  BY <1>24 DEF LockSlow
<1>25. ASSUME NEW t \in Threads, Cancel(t) PROVE Revocation'
  BY <1>25 DEF Cancel, Return, Queued, UpdateWaiterBit, Unlink
<1>26. ASSUME NEW t \in Threads, UnlockSlow(t) PROVE Revocation'
  BY <1>26 DEF UnlockSlow
<1>27. ASSUME NEW t \in Threads, RevokeFast(t) PROVE Revocation'
  BY <1>27 DEF RevokeFast
<1>28. ASSUME NEW t \in Threads, ShareLock(t) PROVE Revocation'
  BY <1>28 DEF ShareLock, Home
<1>29. ASSUME NEW t \in Threads, PreparedNotify(t) PROVE Revocation'
  BY <1>29 DEF PreparedNotify, UpdateWaiterBit
<1>30. ASSUME NEW t \in Threads, EndInvocation(t) PROVE Revocation'
  BY <1>30 DEF EndInvocation
<1>31. ASSUME NEW t \in Threads, Lock(t) PROVE Revocation'
  BY <1>31 DEF Lock
<1>32. ASSUME NEW t \in Threads, LockContext(t) PROVE Revocation'
  BY <1>32 DEF LockContext
<1>33. ASSUME NEW t \in Threads, ContextDone(t) PROVE Revocation'
  BY <1>33 DEF ContextDone
<1>34. ASSUME NEW t \in Threads, Direct(t) PROVE Revocation'
  BY <1>34 DEF Direct
<1>35. ASSUME NEW t \in Threads, LockPreparedFastState(t) PROVE Revocation'
  BY <1>35 DEF LockPreparedFastState
<1>36. ASSUME NEW t \in Threads, BeginRevoke(t) PROVE Revocation'
  BY <1>36 DEF BeginRevoke
<1> HIDE DEF IInv, TypeOK, Placement, Ownership, Loaded, Revocation,
   ShareLabels, SharedLabels, OwnerLabels, MuLabels, Goto, slowVars, history
<1> QED BY <1>0, <1>1, <1>2, <1>3, <1>4, <1>5, <1>6, <1>7, <1>8, <1>9, <1>10, <1>11,
   <1>12, <1>13, <1>14, <1>15, <1>16, <1>17, <1>18, <1>19, <1>20, <1>21, <1>22,
   <1>23, <1>24, <1>25, <1>26, <1>27, <1>28, <1>29, <1>30, <1>31, <1>32, <1>33,
   <1>34, <1>35, <1>36 DEF Next, FreeStep, HeldStep, MuStep, CallerStep

-----------------------------------------------------------------------------
\* The inductive invariant holds in every reachable state.
THEOREM Invariance == Spec => []IInv
<1>1. IInv /\ [Next]_vars => IInv'
  BY TypeStep, PlacementStep, OwnershipStep, LoadedStep, QueueHasReleaserStep DEF IInv
<1> QED BY InitIInv, <1>1, PTL DEF Spec

\* Every variable of the gate stays in its type.
THEOREM TypeCorrect == Spec => []TypeOK
  BY Invariance, PTL DEF IInv

\* For any number of goroutines, Lock, lockContext and tryPreparedDirect admit
\* at most one owner at a time, and Unlock never panics.
THEOREM GateMutualExclusion == Spec => []MutualExclusion
<1>1. IInv => MutualExclusion
  BY DEF IInv, Placement, Ownership, MutualExclusion, Owners
<1> QED BY <1>1, Invariance, PTL

\* For any number of goroutines, no waiter sleeps in the queue of a gate that
\* nobody owns and nobody has been notified to claim.
THEOREM NoOwnerlessQueue == Spec => []QueueHasReleaser
  BY Invariance, PTL DEF IInv

\* The revocation invariant holds in every reachable state.
THEOREM RevocationInvariance == Spec => [](IInv /\ Revocation)
<1>1. Init => Revocation
  BY DEF Init, Revocation, ShareLabels, SharedLabels
<1> QED BY Invariance, <1>1, RevocationStep, PTL DEF Spec

\* For any number of goroutines, once markNativeControlShared has returned no
\* direct or prepared activation is in native code, now or later.
THEOREM PublicationQuiet == Spec => []PublicationIsQuiet
<1>1. IInv /\ Revocation => PublicationIsQuiet
  BY Zenon DEF Revocation, PublicationIsQuiet
<1> QED BY <1>1, RevocationInvariance, PTL

-----------------------------------------------------------------------------
\* Every step of the gate enters, leaves, reports a revocation, or is invisible
\* to the callers.
LEMMA ContractStep ==
  IInv /\ Revocation /\ [Next]_vars => [Contract!Next]_(Contract!vars)
<1> SUFFICES ASSUME IInv, Revocation, [Next]_vars PROVE [Contract!Next]_(Contract!vars)
  OBVIOUS
<1> DEFINE Free == Owners = {}
           Enters(t, k) == mode' = [mode EXCEPT ![t] = k] /\ UNCHANGED revoked
           Goal == [Contract!Next]_(Contract!vars)
<1>m. mode \in [Threads -> {"none", "ord", "fast"}]
  BY DEF IInv, TypeOK
<1>q. "Held" \notin state \/ "Handoff" \in state => Free
  BY DEF IInv, Ownership, Owners
<1>stay. ASSUME UNCHANGED <<mode, revoked>> PROVE Goal
  <2>1. UNCHANGED holder
    BY <1>stay DEF holder, Owners
  <2> QED BY <1>stay, <2>1 DEF Contract!vars
<1>enter. ASSUME NEW t \in Threads, NEW k \in {"ord", "fast"}, Free, Enters(t, k),
                 k = "fast" => ~revoked
          PROVE  Goal
  <2>1. holder = Contract!NoHolder
    BY <1>enter DEF holder, Contract!NoHolder
  <2>2. Owners' = {t} /\ mode'[t] = k
    BY <1>m, <1>enter DEF Owners
  <2>3. holder' = [thread |-> t, kind |-> k]
    BY <2>2 DEF holder
  <2>4. Contract!Enter(t, k)
    BY <1>enter, <2>1, <2>3 DEF Contract!Enter
  <2> QED BY <2>4 DEF Contract!Next
<1>leave. ASSUME NEW t \in Threads, mode[t] # "none", Enters(t, "none") PROVE Goal
  <2>1. Owners = {t} /\ Owners' = {}
    BY <1>m, <1>leave DEF IInv, Ownership, Owners
  <2>2. holder = [thread |-> t, kind |-> mode[t]]
    BY <2>1 DEF holder
  <2>3. holder' = Contract!NoHolder
    BY <2>1 DEF holder, Contract!NoHolder
  <2>4. holder # Contract!NoHolder
    BY <2>2, RolesAssumption DEF Contract!NoHolder
  <2>5. Contract!Leave
    BY <1>leave, <2>3, <2>4 DEF Contract!Leave
  <2> QED BY <2>5 DEF Contract!Next
<1> HIDE DEF Free, Goal
<1>0. ASSUME UNCHANGED vars PROVE Goal
  BY <1>0, <1>stay DEF vars
<1>1. ASSUME NEW t \in Threads, Lock1(t) PROVE Goal
  BY <1>1, <1>stay, <1>enter, <1>q DEF Lock1, TryClaim, history
<1>2. ASSUME NEW t \in Threads, Lock2(t) PROVE Goal
  BY <1>2, <1>stay, <1>enter, <1>q DEF Lock2, TryClaim, history
<1>3. ASSUME NEW t \in Threads, LockCAS0(t) PROVE Goal
  BY <1>3, <1>stay, <1>enter, <1>q DEF LockCAS0, TryClaim, history
<1>4. ASSUME NEW t \in Threads, LockCASRevoked(t) PROVE Goal
  BY <1>4, <1>stay, <1>enter, <1>q DEF LockCASRevoked, TryClaim, history
<1>5. ASSUME NEW t \in Threads, LockBarge(t) PROVE Goal
  BY <1>5, <1>stay, <1>enter, <1>q DEF LockBarge, TryAcquireHandoff, history
<1>6. ASSUME NEW t \in Threads, GiveUp(t) PROVE Goal
  BY <1>6, <1>stay, <1>enter, <1>q DEF GiveUp, TryAcquireHandoff, history
<1>7. ASSUME NEW t \in Threads, Claim(t) PROVE Goal
  BY <1>7, <1>stay, <1>enter, <1>q DEF Claim, TryAcquireHandoff, history
<1>8. ASSUME NEW t \in Threads, LockJoin(t) PROVE Goal
  BY <1>8, <1>stay, <1>enter, <1>q DEF LockJoin, history
<1>9. ASSUME NEW t \in Threads, Direct(t) PROVE Goal
  <2>1. ~revoked
    BY <1>9 DEF Direct, Revocation
  <2> QED BY <1>9, <2>1, <1>enter, <1>q, Zenon DEF Direct, history
<1>10. ASSUME NEW t \in Threads, UnlockCAS(t) PROVE Goal
  <2>1. mode[t] # "none"
    BY <1>10 DEF UnlockCAS, IInv, Placement, OwnerLabels
  <2> QED BY <1>10, <2>1, <1>stay, <1>leave DEF UnlockCAS, history
<1>11. ASSUME NEW t \in Threads, UnlockStore(t) PROVE Goal
  <2>1. mode[t] # "none"
    BY <1>11 DEF UnlockStore, IInv, Placement, OwnerLabels
  <2> QED BY <1>11, <2>1, <1>leave, Zenon DEF UnlockStore, history
<1>12. ASSUME NEW t \in Threads, RevokeBits(t) PROVE Goal
  <2>1. UNCHANGED holder
    BY <1>12 DEF RevokeBits, holder, Owners
  <2>2. \A u \in Threads : mode[u] # "fast"
    BY <1>12 DEF RevokeBits, Revocation
  <2>3. holder.kind # "fast"
    <3>1. CASE Owners = {}
      BY <3>1 DEF holder
    <3>2. CASE Owners # {}
      <4>1. PICK u \in Threads : Owners = {u}
        BY <3>2 DEF IInv, Ownership, Owners
      <4>2. holder = [thread |-> u, kind |-> mode[u]]
        BY <4>1 DEF holder
      <4> QED BY <2>2, <4>2
    <3> QED BY <3>1, <3>2
  <2>4. Contract!Revoke
    BY <1>12, <2>1, <2>3, SMTT(60) DEF RevokeBits, Contract!Revoke
  <2> QED BY <2>4 DEF Contract!Next, Goal
<1>13. ASSUME NEW t \in Threads,
              \/ LockTop(t) \/ LockRecheck(t) \/ Wake(t) \/ WakeDone(t) \/ LockSlow(t)
              \/ Cancel(t) \/ Lock(t) \/ LockContext(t) \/ ContextDone(t)
       PROVE  Goal
  <2>1. ASSUME LockTop(t) \/ LockRecheck(t) \/ Wake(t) \/ WakeDone(t)
        PROVE  UNCHANGED <<mode, revoked>>
    BY <2>1, ZenonT(40) DEF LockTop, LockRecheck, Wake, WakeDone, history
  <2>2. ASSUME LockSlow(t) \/ Cancel(t)
        PROVE  UNCHANGED <<mode, revoked>>
    BY <2>2, ZenonT(40) DEF LockSlow, Cancel, history
  <2>3. ASSUME Lock(t) \/ LockContext(t) \/ ContextDone(t)
        PROVE  UNCHANGED <<mode, revoked>>
    BY <2>3, ZenonT(40) DEF Lock, LockContext, ContextDone, history
  <2> QED BY <1>13, <1>stay, <2>1, <2>2, <2>3, Zenon
<1>14. ASSUME NEW t \in Threads,
              \/ UnlockLoad(t) \/ UnlockSlow(t) \/ UnlockBits(t) \/ EndInvocation(t)
              \/ DirectValid(t) \/ LockPreparedFastState(t)
              \/ UnlockPreparedFastState(t) \/ PreparedNotify(t)
       PROVE  Goal
  <2>1. ASSUME UnlockLoad(t) \/ UnlockSlow(t) \/ UnlockBits(t) \/ EndInvocation(t)
        PROVE  UNCHANGED <<mode, revoked>>
    BY <2>1, ZenonT(40) DEF UnlockLoad, UnlockSlow, UnlockBits, EndInvocation, history
  <2>2. ASSUME \/ DirectValid(t) \/ LockPreparedFastState(t)
               \/ UnlockPreparedFastState(t) \/ PreparedNotify(t)
        PROVE  UNCHANGED <<mode, revoked>>
    BY <2>2, ZenonT(40) DEF DirectValid, LockPreparedFastState, UnlockPreparedFastState,
       PreparedNotify, history
  <2> QED BY <1>14, <1>stay, <2>1, <2>2, Zenon
<1>15. ASSUME NEW t \in Threads,
              \/ BeginRevoke(t) \/ RevokeFast(t) \/ RevokeWake(t) \/ ShareNativeControl(t)
              \/ ShareCheck(t) \/ ShareLock(t) \/ ShareWake(t)
       PROVE  Goal
  BY <1>15, <1>stay, Zenon DEF BeginRevoke, RevokeFast, RevokeWake, ShareNativeControl,
     ShareCheck, ShareLock, ShareWake, history
<1>16. Goal
  BY <1>0, <1>1, <1>2, <1>3, <1>4, <1>5, <1>6, <1>7, <1>8, <1>9, <1>10, <1>11, <1>12,
     <1>13, <1>14, <1>15 DEF Next, FreeStep, HeldStep, MuStep, CallerStep
<1> QED BY <1>16 DEF Goal

\* For any number of goroutines, the gate implements its contract: one holder at
\* a time, and no direct entry once a revokeFast has returned.
THEOREM GateImplementsContract == Spec => ImplementsContract
<1>1. Init => Contract!Init
  BY Zenon DEF Init, Contract!Init, Contract!NoHolder, holder, Owners
<1> QED BY <1>1, ContractStep, RevocationInvariance, PTL
     DEF Spec, ImplementsContract, Contract!Spec
=============================================================================
