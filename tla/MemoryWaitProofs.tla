-------------------------- MODULE MemoryWaitProofs --------------------------
(***************************************************************************)
(* The safety properties of MemoryWait, for every set of waiters, of       *)
(* notifiers, of offsets, values and counts.                               *)
(*                                                                         *)
(* The argument: a waiter sits in at most one place of one queue, the one  *)
(* of the offset it compared, and only from the moment it parks until a    *)
(* notify, a cancel or a close takes it out; the notify that takes it out  *)
(* credits it and fills its result channel in the same critical section,   *)
(* so that the channel tells cancelWait who won (Own).  A store that is    *)
(* still in a processor's buffer belongs to a notifier that has not passed *)
(* its fence (OwnStore).                                                   *)
(***************************************************************************)
EXTENDS MemoryWait, FiniteSets, FiniteSetTheorems, TLAPS

Outside == {"idle", "publish", "check", "guest", "native", "call"}
Waiting == {"parked", "cancelTimer", "cancelCtx"}
WaiterLabels == Outside \cup Waiting \cup {"compare", "receive", "returned"}
NotifierLabels == {"idle", "fence", "test", "slow"}
Outcomes == {"none", "notified", "notEqual", "timedOut"} \cup Errors

Procs == Waiters \cup Notifiers

SharedTypes ==
    /\ value \in [Offsets -> Values]
    /\ buffer \in [Notifiers -> (Offsets \X Values) \cup {Nobody}]
    /\ mu \in Waiters \cup {Nobody}
    /\ pending \in BOOLEAN
    /\ queue \in [Offsets -> Seq(Waiters)]
    /\ result \in [Waiters -> {"empty", "woken", "closed"}]
    /\ closed \in BOOLEAN

LocalTypes ==
    /\ pc \in [Procs -> WaiterLabels \cup NotifierLabels]
    /\ \A w \in Waiters : pc[w] \in WaiterLabels
    /\ \A n \in Notifiers : pc[n] \in NotifierLabels
    /\ arg \in [Waiters -> WaitArgs]
    /\ out \in [Waiters -> Outcomes]
    /\ narg \in [Notifiers -> Offsets \X Counts]
    /\ credited \in SUBSET Waiters

Types == SharedTypes /\ LocalTypes

(* Membership in a queue, and a queue that holds no one twice. *)
In(q, x) == \E i \in DOMAIN q : q[i] = x
Distinct(q) == \A i, j \in DOMAIN q : q[i] = q[j] => i = j

Sits(o, w) == In(queue[o], w)

Order == \A o \in Offsets : Distinct(queue[o])

(* Memory.Close leaves no one in the critical section and no one queued. *)
ClosedIsEmpty == closed => mu = Nobody /\ ~Active

(* What a waiter's place, channel and credit say about one another. *)
Own(w) ==
    /\ pc[w] = "compare" <=> mu = w
    /\ \A o \in Offsets : Sits(o, w) =>
          /\ o = arg[w].off
          /\ pc[w] \in Waiting
          /\ result[w] = "empty"
          /\ w \notin credited
    /\ result[w] # "empty" => pc[w] \in Waiting \cup {"receive"}
    /\ result[w] = "woken" => w \in credited
    /\ result[w] = "closed" => w \notin credited
    /\ w \in credited => result[w] = "woken" \/ (pc[w] = "returned" /\ out[w] = "notified")
    /\ pc[w] = "returned" /\ out[w] = "notified" => w \in credited

(* A buffered store belongs to a notifier that waits at its fence. *)
OwnStore(n) ==
    buffer[n] # Nobody =>
        /\ pc[n] = "fence"
        /\ buffer[n] \in Offsets \X Values
        /\ buffer[n][1] = narg[n][1]

IInv ==
    /\ Types
    /\ Order
    /\ PendingIsExact
    /\ ClosedIsEmpty
    /\ \A w \in Waiters : Own(w)
    /\ \A n \in Notifiers : OwnStore(n)

(* The lost-wakeup property is carried beside the invariant. *)
Carries == NoLostWakeup => NoLostWakeup'

-----------------------------------------------------------------------------
(* Queues *)

\* Append puts one waiter at the end (addWaiterLocked).
LEMMA Appended ==
    ASSUME NEW S, NEW q \in Seq(S), NEW x \in S
    PROVE  /\ Append(q, x) \in Seq(S)
           /\ Append(q, x) # <<>>
           /\ \A y : In(Append(q, x), y) <=> (In(q, y) \/ y = x)
           /\ Distinct(q) /\ ~In(q, x) => Distinct(Append(q, x))
  <1> DEFINE r == Append(q, x)
  <1>1. r \in Seq(S) /\ Len(r) = Len(q) + 1 /\ DOMAIN r = 1..Len(q) + 1 /\ DOMAIN q = 1..Len(q) /\ Len(q) \in Nat
    OBVIOUS
  <1>2. (\A i \in 1..Len(q) : r[i] = q[i]) /\ r[Len(q) + 1] = x
    OBVIOUS
  <1>3. r # <<>>
    BY <1>1
  <1> HIDE DEF r
  <1>4. \A y : In(r, y) <=> (In(q, y) \/ y = x)
    BY <1>1, <1>2 DEF In
  <1>5. Distinct(q) /\ ~In(q, x) => Distinct(r)
    BY <1>1, <1>2 DEF Distinct, In
  <1> QED
    BY ZenonT(40), <1>1, <1>3, <1>4, <1>5 DEF r

\* The loop of notify takes the first k waiters.
LEMMA Dropped ==
    ASSUME NEW S, NEW q \in Seq(S), NEW k \in 0..Len(q), Distinct(q)
    PROVE  /\ SubSeq(q, k + 1, Len(q)) \in Seq(S)
           /\ Distinct(SubSeq(q, k + 1, Len(q)))
           /\ \A y : In(SubSeq(q, k + 1, Len(q)), y) => In(q, y) /\ y \notin {q[i] : i \in 1..k}
           /\ k = Len(q) => \A y : ~In(SubSeq(q, k + 1, Len(q)), y)
           /\ {q[i] : i \in 1..k} \subseteq S
           /\ \A y \in {q[i] : i \in 1..k} : In(q, y)
  <1> DEFINE r == SubSeq(q, k + 1, Len(q))
  <1>1. /\ r \in Seq(S) /\ DOMAIN r = 1..(Len(q) - k)
        /\ DOMAIN q = 1..Len(q) /\ Len(q) \in Nat /\ k \in Nat /\ k <= Len(q)
    OBVIOUS
  <1>2. \A i \in 1..(Len(q) - k) : r[i] = q[k + i] /\ k + i \in 1..Len(q)
    OBVIOUS
  <1>3. \A i \in 1..k : i \in DOMAIN q /\ q[i] \in S
    BY <1>1
  <1> HIDE DEF r
  <1>4. Distinct(r)
    <2>1. SUFFICES ASSUME NEW i \in 1..(Len(q) - k), NEW j \in 1..(Len(q) - k), r[i] = r[j]
                   PROVE  i = j
      BY ZenonT(40), <1>1 DEF Distinct
    <2>2. q[k + i] = q[k + j] /\ k + i \in DOMAIN q /\ k + j \in DOMAIN q
      BY ZenonT(40), <1>1, <1>2, <2>1
    <2>3. k + i = k + j
      BY ZenonT(40), <2>2 DEF Distinct
    <2> QED
      BY <1>1, <2>3
  <1>5. \A y : In(r, y) => In(q, y)
    BY ZenonT(40), <1>1, <1>2 DEF In
  <1>6. ASSUME NEW y, In(r, y), NEW i \in 1..k, y = q[i] PROVE FALSE
    <2>1. PICK j \in DOMAIN r : r[j] = y
      BY ZenonT(40), <1>6 DEF In
    <2>2. j \in 1..(Len(q) - k) /\ q[k + j] = q[i] /\ k + j \in 1..Len(q) /\ i \in 1..Len(q)
      BY <1>1, <1>2, <1>6, <2>1
    <2>3. k + j = i
      BY ZenonT(40), <1>1, <2>2 DEF Distinct
    <2> QED
      BY <1>1, <2>2, <2>3
  <1>7. k = Len(q) => \A y : ~In(r, y)
    BY <1>1 DEF In
  <1>8. \A y \in {q[i] : i \in 1..k} : In(q, y)
    BY ZenonT(40), <1>3 DEF In
  <1> QED
    BY ZenonT(40), <1>1, <1>3, <1>4, <1>5, <1>6, <1>7, <1>8 DEF r

\* removeWaiterLocked unlinks one waiter and leaves the others in order.
LEMMA Removed ==
    ASSUME NEW S, NEW q \in Seq(S), NEW k \in DOMAIN q, Distinct(q)
    PROVE  /\ SubSeq(q, 1, k - 1) \o SubSeq(q, k + 1, Len(q)) \in Seq(S)
           /\ Distinct(SubSeq(q, 1, k - 1) \o SubSeq(q, k + 1, Len(q)))
           /\ \A y : In(SubSeq(q, 1, k - 1) \o SubSeq(q, k + 1, Len(q)), y) => In(q, y) /\ y # q[k]
  <1> DEFINE a == SubSeq(q, 1, k - 1)
             b == SubSeq(q, k + 1, Len(q))
             r == a \o b
  <1>1. /\ DOMAIN q = 1..Len(q) /\ Len(q) \in Nat /\ k \in 1..Len(q)
        /\ a \in Seq(S) /\ Len(a) = k - 1 /\ \A i \in 1..(k - 1) : a[i] = q[i]
    OBVIOUS
  <1>2. b \in Seq(S) /\ Len(b) = Len(q) - k /\ \A i \in 1..(Len(q) - k) : b[i] = q[k + i]
    OBVIOUS
  <1> HIDE DEF a, b
  <1>3. /\ r \in Seq(S) /\ Len(r) = Len(a) + Len(b)
        /\ \A i \in 1..Len(r) : r[i] = IF i <= Len(a) THEN a[i] ELSE b[i - Len(a)]
    <2>1. a \in Seq(S) /\ b \in Seq(S)
      BY ZenonT(40), <1>1, <1>2
    <2>2. r \in Seq(S) /\ Len(r) = Len(a) + Len(b)
      BY <2>1
    <2>3. \A i \in 1..(Len(a) + Len(b)) : r[i] = IF i <= Len(a) THEN a[i] ELSE b[i - Len(a)]
      BY <2>1
    <2> QED
      BY ZenonT(40), <2>2, <2>3
  <1> HIDE DEF r
  <1>4. Len(r) = Len(q) - 1 /\ DOMAIN r = 1..(Len(q) - 1)
    BY <1>1, <1>2, <1>3
  <1>5. ASSUME NEW i \in 1..(Len(q) - 1)
        PROVE  /\ i < k => r[i] = q[i] /\ i \in DOMAIN q
               /\ i >= k => r[i] = q[i + 1] /\ i + 1 \in DOMAIN q
    <2>1. CASE i < k
      <3>1. i \in 1..(k - 1) /\ i <= Len(a) /\ i \in 1..Len(r)
        BY <1>1, <1>4, <2>1
      <3>2. r[i] = a[i] /\ a[i] = q[i]
        BY ZenonT(40), <1>1, <1>3, <3>1
      <3> QED
        BY <1>1, <2>1, <3>1, <3>2
    <2>2. CASE i >= k
      <3>1. i - (k - 1) \in 1..(Len(q) - k) /\ ~(i <= Len(a)) /\ i \in 1..Len(r)
        BY <1>1, <1>4, <2>2
      <3>2. r[i] = b[i - Len(a)]
        BY ZenonT(40), <1>3, <3>1
      <3>3. b[i - (k - 1)] = q[k + (i - (k - 1))]
        BY ZenonT(40), <1>2, <3>1
      <3>4. i - Len(a) = i - (k - 1) /\ k + (i - (k - 1)) = i + 1
        BY <1>1
      <3>5. r[i] = q[i + 1]
        BY ZenonT(40), <3>2, <3>3, <3>4
      <3> QED
        BY <1>1, <2>2, <3>5
    <2> QED
      BY ZenonT(40), <1>1, <2>1, <2>2
  <1>6. Distinct(r)
    <2>1. SUFFICES ASSUME NEW i \in 1..(Len(q) - 1), NEW j \in 1..(Len(q) - 1), r[i] = r[j]
                   PROVE  i = j
      BY ZenonT(40), <1>4 DEF Distinct
    <2>2. CASE i < k /\ j < k
      <3>1. q[i] = q[j] /\ i \in DOMAIN q /\ j \in DOMAIN q
        BY ZenonT(40), <1>5, <2>1, <2>2
      <3> QED
        BY ZenonT(40), <3>1 DEF Distinct
    <2>3. CASE i >= k /\ j >= k
      <3>1. q[i + 1] = q[j + 1] /\ i + 1 \in DOMAIN q /\ j + 1 \in DOMAIN q
        BY ZenonT(40), <1>5, <2>1, <2>3
      <3>2. i + 1 = j + 1
        BY ZenonT(40), <3>1 DEF Distinct
      <3> QED
        BY <3>2
    <2>4. CASE i < k /\ j >= k
      <3>1. q[i] = q[j + 1] /\ i \in DOMAIN q /\ j + 1 \in DOMAIN q
        BY ZenonT(40), <1>5, <2>1, <2>4
      <3>2. i = j + 1
        BY ZenonT(40), <3>1 DEF Distinct
      <3> QED
        BY <1>1, <2>4, <3>2
    <2>5. CASE i >= k /\ j < k
      <3>1. q[i + 1] = q[j] /\ i + 1 \in DOMAIN q /\ j \in DOMAIN q
        BY ZenonT(40), <1>5, <2>1, <2>5
      <3>2. i + 1 = j
        BY ZenonT(40), <3>1 DEF Distinct
      <3> QED
        BY <1>1, <2>5, <3>2
    <2> QED
      BY <1>1, <2>2, <2>3, <2>4, <2>5
  <1>7. ASSUME NEW y, In(r, y)
        PROVE  In(q, y) /\ y # q[k]
    <2>1. PICK i \in 1..(Len(q) - 1) : r[i] = y
      BY ZenonT(40), <1>4, <1>7 DEF In
    <2>2. CASE i < k
      <3>1. q[i] = y /\ i \in DOMAIN q /\ i # k
        BY <1>1, <1>5, <2>1, <2>2
      <3> QED
        BY ZenonT(40), <3>1 DEF In, Distinct
    <2>3. CASE i >= k
      <3>1. q[i + 1] = y /\ i + 1 \in DOMAIN q /\ i + 1 # k
        BY <1>1, <1>5, <2>1, <2>3
      <3> QED
        BY ZenonT(40), <3>1 DEF In, Distinct
    <2> QED
      BY <1>1, <2>2, <2>3
  <1> QED
    BY ZenonT(40), <1>3, <1>6, <1>7 DEF r, a, b

\* No one is in an empty queue, and a queue that is not empty has someone.
LEMMA Emptiness ==
    ASSUME NEW S, NEW q \in Seq(S)
    PROVE  q # <<>> <=> \E x \in S : In(q, x)
  <1>1. CASE q = <<>>
    BY <1>1 DEF In
  <1>2. CASE q # <<>>
    <2>1. 1 \in DOMAIN q /\ q[1] \in S
      BY <1>2
    <2> QED
      BY ZenonT(40), <1>2, <2>1 DEF In
  <1> QED
    BY ZenonT(40), <1>1, <1>2

\* A queue without repetitions is no longer than the set of waiters.
LEMMA QueueIsBounded ==
    ASSUME NEW S, IsFiniteSet(S), NEW q \in Seq(S), Distinct(q)
    PROVE  Len(q) <= Cardinality(S)
  <1>1. DOMAIN q = 1..Len(q) /\ Len(q) \in Nat /\ q \in [1..Len(q) -> S]
    OBVIOUS
  <1>2. q \in Injection(1..Len(q), S)
    BY ZenonT(40), <1>1 DEF Injection, IsInjective, Distinct
  <1>3. Cardinality(1..Len(q)) <= Cardinality(S)
    BY ZenonT(40), <1>2, FS_Injection
  <1>4. Cardinality(1..Len(q)) = Len(q)
    BY <1>1, FS_Interval
  <1> QED
    BY ZenonT(40), <1>3, <1>4

\* What Active and Queued mean in terms of places.
LEMMA ActiveIsSits ==
    ASSUME Types
    PROVE  /\ Active <=> \E o \in Offsets : \E w \in Waiters : Sits(o, w)
           /\ \A w \in Waiters : Queued(w) <=> \E o \in Offsets : Sits(o, w)
           /\ \A o \in Offsets : queue[o] # <<>> => Active
  <1>1. \A o \in Offsets : queue[o] \in Seq(Waiters)
    BY ZenonT(40) DEF Types, SharedTypes
  <1>2. \A o \in Offsets : queue[o] # <<>> <=> \E w \in Waiters : Sits(o, w)
    BY ZenonT(40), <1>1, Emptiness DEF Sits
  <1> QED
    BY ZenonT(40), <1>2 DEF Active, Queued, Sits, In

-----------------------------------------------------------------------------
(* Frames *)

\* The shape of a waiter's step on the control state.
LEMMA GotoEffect ==
    ASSUME Types, NEW x \in Procs, NEW l, Goto(x, l)
    PROVE  /\ pc'[x] = l
           /\ \A y \in Procs : y # x => pc'[y] = pc[y]
           /\ (x \in Waiters /\ l \in WaiterLabels) \/ (x \in Notifiers /\ l \in NotifierLabels) =>
                /\ pc' \in [Procs -> WaiterLabels \cup NotifierLabels]
                /\ \A w \in Waiters : pc'[w] \in WaiterLabels
                /\ \A n \in Notifiers : pc'[n] \in NotifierLabels
  <1>1. pc'[x] = l /\ \A y \in Procs : y # x => pc'[y] = pc[y]
    BY ZenonT(40) DEF Goto, Types, LocalTypes
  <1>2. DOMAIN pc' = Procs /\ pc' = [y \in Procs |-> pc'[y]]
    BY ZenonT(40) DEF Goto, Types, LocalTypes
  <1>3. Waiters \cap Notifiers = {}
    BY ZenonT(40), MemoryAssumption
  <1>4. CASE x \in Waiters /\ l \in WaiterLabels
    <2>1. \A w \in Waiters : pc'[w] \in WaiterLabels
      BY ZenonT(40), <1>1, <1>4 DEF Types, LocalTypes, Procs
    <2>2. \A n \in Notifiers : pc'[n] \in NotifierLabels
      BY ZenonT(40), <1>1, <1>3, <1>4 DEF Types, LocalTypes, Procs
    <2>3. \A y \in Procs : pc'[y] \in WaiterLabels \cup NotifierLabels
      BY ZenonT(40), <2>1, <2>2 DEF Procs
    <2> QED
      BY ZenonT(40), <1>1, <1>2, <2>1, <2>2, <2>3
  <1>5. CASE x \in Notifiers /\ l \in NotifierLabels
    <2>1. \A w \in Waiters : pc'[w] \in WaiterLabels
      BY ZenonT(40), <1>1, <1>3, <1>5 DEF Types, LocalTypes, Procs
    <2>2. \A n \in Notifiers : pc'[n] \in NotifierLabels
      BY ZenonT(40), <1>1, <1>5 DEF Types, LocalTypes, Procs
    <2>3. \A y \in Procs : pc'[y] \in WaiterLabels \cup NotifierLabels
      BY ZenonT(40), <2>1, <2>2 DEF Procs
    <2> QED
      BY ZenonT(40), <1>1, <1>2, <2>1, <2>2, <2>3
  <1> QED
    BY ZenonT(40), <1>1, <1>4, <1>5

\* A waiter that does not move, and that no one puts into a queue.
LEMMA OwnKept ==
    ASSUME NEW u \in Waiters, Own(u),
           pc'[u] = pc[u], arg'[u] = arg[u], out'[u] = out[u], result'[u] = result[u],
           u \in credited' <=> u \in credited, mu' = u <=> mu = u,
           \A o \in Offsets : Sits(o, u)' => Sits(o, u)
    PROVE  Own(u)'
  BY ZenonT(40) DEF Own

\* A step of one waiter leaves the others alone.
LEMMA WaiterFrame ==
    ASSUME IInv, NEW w \in Waiters, Types',
           value' = value, buffer' = buffer, narg' = narg,
           \A x \in Procs : x # w => pc'[x] = pc[x],
           \A u \in Waiters : u # w =>
              /\ arg'[u] = arg[u]
              /\ out'[u] = out[u]
              /\ result'[u] = result[u]
              /\ u \in credited' <=> u \in credited
              /\ mu' = u <=> mu = u,
           \A o \in Offsets : \A u \in Waiters : u # w => (Sits(o, u)' => Sits(o, u)),
           Order', PendingIsExact', ClosedIsEmpty', Own(w)',
           \A o \in Offsets : Sits(o, w)' =>
              (Sits(o, w) /\ arg'[w] = arg[w]) \/ value[arg'[w].off] = arg'[w].exp
    PROVE  IInv' /\ Carries
  <1>1. Waiters \cap Notifiers = {}
    BY ZenonT(40), MemoryAssumption
  <1>2. \A u \in Waiters : Own(u)'
    <2> SUFFICES ASSUME NEW u \in Waiters, u # w PROVE Own(u)'
      BY ZenonT(40)
    <2>1. Own(u) /\ u \in Procs
      BY ZenonT(40) DEF IInv, Procs
    <2>2. pc'[u] = pc[u]
      BY ZenonT(40), <2>1
    <2> QED
      BY ZenonT(40), <2>1, <2>2, OwnKept
  <1>3. \A n \in Notifiers : pc'[n] = pc[n]
    BY ZenonT(40), <1>1 DEF Procs
  <1>4. \A n \in Notifiers : OwnStore(n)'
    BY ZenonT(40), <1>3 DEF IInv, OwnStore
  <1>5. ASSUME NoLostWakeup PROVE NoLostWakeup'
    <2> SUFFICES ASSUME NEW u \in Waiters, Queued(u)', value[arg'[u].off] # arg'[u].exp
                 PROVE  \E n \in Notifiers : pc'[n] \in {"fence", "test", "slow"} /\ narg'[n][1] = arg'[u].off
      BY ZenonT(40) DEF NoLostWakeup
    <2>1. PICK o \in Offsets : Sits(o, u)'
      BY ZenonT(40) DEF Queued, Sits, In
    <2>2. Sits(o, u) /\ arg'[u] = arg[u]
      BY <2>1
    <2>3. Queued(u)
      BY ZenonT(40), <2>2 DEF Queued, Sits, In
    <2>4. \E n \in Notifiers : pc[n] \in {"fence", "test", "slow"} /\ narg[n][1] = arg[u].off
      BY ZenonT(40), <1>5, <2>2, <2>3 DEF NoLostWakeup
    <2> QED
      BY ZenonT(40), <1>3, <2>2, <2>4
  <1> QED
    BY ZenonT(40), <1>2, <1>4, <1>5 DEF IInv, Carries

\* The parts of the invariant that speak of queue, mu, pending and closed only.
LEMMA SharedKept ==
    ASSUME IInv, queue' = queue, mu' = mu, pending' = pending, closed' = closed
    PROVE  /\ Order' /\ PendingIsExact' /\ ClosedIsEmpty' /\ Active' = Active
           /\ \A o : \A u : Sits(o, u)' <=> Sits(o, u)
  BY ZenonT(40) DEF IInv, Order, PendingIsExact, ClosedIsEmpty, Active, Sits

\* A step that leaves everything the invariant speaks of.
LEMMA SameKeeps ==
    ASSUME IInv,
           UNCHANGED <<value, buffer, mu, pending, queue, result, closed, pc, arg, out, narg, credited>>
    PROVE  IInv' /\ Carries
  <1>1. Types'
    BY ZenonT(40) DEF IInv, Types, SharedTypes, LocalTypes
  <1>2. Order' /\ PendingIsExact' /\ ClosedIsEmpty' /\ \A o : \A u : Sits(o, u)' <=> Sits(o, u)
    BY ZenonT(40), SharedKept
  <1>3. \A u \in Waiters : Own(u)'
    BY ZenonT(40), <1>2, OwnKept DEF IInv
  <1>4. \A n \in Notifiers : OwnStore(n)'
    BY ZenonT(40) DEF IInv, OwnStore
  <1>5. Carries
    BY ZenonT(40) DEF Carries, NoLostWakeup, Queued
  <1> QED
    BY ZenonT(40), <1>1, <1>2, <1>3, <1>4, <1>5 DEF IInv

\* A step of a waiter on its own control state, outside the critical section.
LEMMA QuietKeeps ==
    ASSUME IInv, NEW w \in Waiters, NEW l \in WaiterLabels, Goto(w, l),
           UNCHANGED <<value, buffer, mu, pending, queue, result, closed, narg, credited>>,
           arg' \in [Waiters -> WaitArgs], out' \in [Waiters -> Outcomes],
           \A u \in Waiters : u # w => arg'[u] = arg[u] /\ out'[u] = out[u],
           \/ pc[w] \in Outside /\ l \in Outside
           \/ pc[w] \in Outside /\ l = "returned" /\ out'[w] # "notified"
           \/ pc[w] = "parked" /\ l \in Waiting /\ arg'[w] = arg[w]
           \/ pc[w] \in Waiting /\ ~Queued(w) /\ l = "receive" /\ arg'[w] = arg[w]
    PROVE  IInv' /\ Carries
  <1>0. Types /\ Own(w) /\ w \in Procs
    BY ZenonT(40) DEF IInv, Procs
  <1>1. /\ pc'[w] = l
        /\ \A y \in Procs : y # w => pc'[y] = pc[y]
        /\ pc' \in [Procs -> WaiterLabels \cup NotifierLabels]
        /\ \A u \in Waiters : pc'[u] \in WaiterLabels
        /\ \A n \in Notifiers : pc'[n] \in NotifierLabels
    BY ZenonT(40), <1>0, GotoEffect
  <1>2. Types'
    BY ZenonT(40), <1>0, <1>1 DEF Types, SharedTypes, LocalTypes
  <1>3. Order' /\ PendingIsExact' /\ ClosedIsEmpty' /\ \A o : \A u : Sits(o, u)' <=> Sits(o, u)
    BY ZenonT(40), SharedKept
  <1>4. \A o \in Offsets : Sits(o, w) => Queued(w)
    BY ZenonT(40) DEF Sits, Queued, In
  <1>5. Own(w)'
    <2>1. CASE pc[w] \in Outside /\ l \in Outside
      BY ZenonT(40), <1>0, <1>1, <1>3, <2>1 DEF Own, Outside, Waiting
    <2>2. CASE pc[w] \in Outside /\ l = "returned" /\ out'[w] # "notified"
      BY ZenonT(40), <1>0, <1>1, <1>3, <2>2 DEF Own, Outside, Waiting
    <2>3. CASE pc[w] = "parked" /\ l \in Waiting /\ arg'[w] = arg[w]
      BY ZenonT(40), <1>0, <1>1, <1>3, <2>3 DEF Own, Waiting
    <2>4. CASE pc[w] \in Waiting /\ ~Queued(w) /\ l = "receive" /\ arg'[w] = arg[w]
      BY ZenonT(40), <1>0, <1>1, <1>3, <1>4, <2>4 DEF Own, Waiting
    <2> QED
      BY ZenonT(40), <2>1, <2>2, <2>3, <2>4
  <1>6. \A o \in Offsets : Sits(o, w)' => Sits(o, w) /\ arg'[w] = arg[w]
    BY ZenonT(40), <1>0, <1>3 DEF Own, Outside, Waiting
  <1> QED
    BY ZenonT(40), <1>1, <1>2, <1>3, <1>5, <1>6, WaiterFrame

\* What the end of a wait does.
LEMMA FinishEffect ==
    ASSUME Types, NEW w \in Waiters, NEW r \in Outcomes, Finish(w, r)
    PROVE  /\ Goto(w, "returned")
           /\ out' \in [Waiters -> Outcomes]
           /\ out'[w] = r
           /\ \A u \in Waiters : u # w => out'[u] = out[u]
  <1>1. out \in [Waiters -> Outcomes]
    BY ZenonT(40) DEF Types, LocalTypes
  <1>2. out' = [out EXCEPT ![w] = r] /\ Goto(w, "returned")
    BY ZenonT(40) DEF Finish
  <1> QED
    BY ZenonT(40), <1>1, <1>2

-----------------------------------------------------------------------------
(* Waits *)

\* Memory.wait under s.mu: refused by a closed memory, or announced.
LEMMA AnnounceKeeps ==
    ASSUME IInv, NEW w \in Waiters, WaitAnnounce(w)
    PROVE  IInv' /\ Carries
  <1>0. Types /\ Own(w) /\ w \in Procs /\ w # Nobody /\ pc[w] = "call" /\ mu = Nobody
    BY ZenonT(40), MemoryAssumption DEF IInv, Procs, WaitAnnounce
  <1>1. UNCHANGED <<value, buffer, queue, result, closed, narg, credited, arg>>
    BY ZenonT(40) DEF WaitAnnounce, cells
  <1>2. CASE closed
    <2>1. Finish(w, "memoryClosed") /\ UNCHANGED <<mu, pending>>
      BY ZenonT(40), <1>2 DEF WaitAnnounce
    <2>2. /\ Goto(w, "returned") /\ out' \in [Waiters -> Outcomes] /\ out'[w] = "memoryClosed"
          /\ \A u \in Waiters : u # w => out'[u] = out[u]
      BY ZenonT(40), <1>0, <2>1, FinishEffect DEF Outcomes, Errors
    <2>3. arg' \in [Waiters -> WaitArgs] /\ "returned" \in WaiterLabels /\ pc[w] \in Outside
      BY ZenonT(40), <1>0, <1>1 DEF Types, LocalTypes, WaiterLabels, Outside
    <2> QED
      BY ZenonT(40), <1>1, <2>1, <2>2, <2>3, QuietKeeps
  <1>3. CASE ~closed
    <2>1. mu' = w /\ pending' = TRUE /\ Goto(w, "compare") /\ out' = out
      BY ZenonT(40), <1>3 DEF WaitAnnounce
    <2>2. /\ pc'[w] = "compare"
          /\ \A y \in Procs : y # w => pc'[y] = pc[y]
          /\ pc' \in [Procs -> WaiterLabels \cup NotifierLabels]
          /\ \A u \in Waiters : pc'[u] \in WaiterLabels
          /\ \A n \in Notifiers : pc'[n] \in NotifierLabels
      BY ZenonT(40), <1>0, <2>1, GotoEffect DEF WaiterLabels
    <2>3. Types'
      BY ZenonT(40), <1>0, <1>1, <2>1, <2>2 DEF Types, SharedTypes, LocalTypes
    <2>4. \A o : \A u : Sits(o, u)' <=> Sits(o, u)
      BY ZenonT(40), <1>1 DEF Sits
    <2>5. Order' /\ ClosedIsEmpty' /\ PendingIsExact'
      BY ZenonT(40), <1>0, <1>1, <1>3, <2>1 DEF IInv, Order, ClosedIsEmpty, PendingIsExact,
         Active
    <2>6. Own(w)'
      BY ZenonT(40), <1>0, <1>1, <2>1, <2>2, <2>4 DEF Own, Waiting
    <2>7. \A u \in Waiters : u # w => (mu' = u <=> mu = u)
      BY ZenonT(40), <1>0, <2>1, MemoryAssumption
    <2> QED
      BY ZenonT(40), <1>1, <2>1, <2>2, <2>3, <2>4, <2>5, <2>6, <2>7, WaiterFrame
  <1> QED
    BY ZenonT(40), <1>2, <1>3

\* The values differ, or the caller does not want to wait.
LEMMA DeclineKeeps ==
    ASSUME IInv, NEW w \in Waiters, WaitDecline(w)
    PROVE  IInv' /\ Carries
  <1>0. Types /\ Own(w) /\ w \in Procs /\ w # Nobody /\ pc[w] = "compare" /\ mu = w /\ ~closed
    BY ZenonT(40), MemoryAssumption DEF IInv, Procs, WaitDecline, Own, ClosedIsEmpty
  <1>1. /\ UNCHANGED <<value, buffer, queue, result, closed, narg, credited, arg>>
        /\ mu' = Nobody /\ pending' = Active
    BY ZenonT(40) DEF WaitDecline, cells, ClearPending
  <1>2. PICK r \in {"notEqual", "timedOut"} : Finish(w, r)
    BY ZenonT(40) DEF WaitDecline
  <1>3. /\ Goto(w, "returned") /\ out' \in [Waiters -> Outcomes] /\ out'[w] = r
        /\ \A u \in Waiters : u # w => out'[u] = out[u]
    BY ZenonT(40), <1>0, <1>2, FinishEffect DEF Outcomes
  <1>4. /\ pc'[w] = "returned"
        /\ \A y \in Procs : y # w => pc'[y] = pc[y]
        /\ pc' \in [Procs -> WaiterLabels \cup NotifierLabels]
        /\ \A u \in Waiters : pc'[u] \in WaiterLabels
        /\ \A n \in Notifiers : pc'[n] \in NotifierLabels
    BY ZenonT(40), <1>0, <1>3, GotoEffect DEF WaiterLabels
  <1>5. pending' \in BOOLEAN
    BY ZenonT(40), <1>1 DEF Active
  <1>6. Types'
    BY ZenonT(40), <1>0, <1>1, <1>3, <1>4, <1>5 DEF Types, SharedTypes, LocalTypes
  <1>7. \A o : \A u : Sits(o, u)' <=> Sits(o, u)
    BY ZenonT(40), <1>1 DEF Sits
  <1>8. Active' <=> Active
    BY ZenonT(40), <1>1 DEF Active
  <1>9. Order' /\ ClosedIsEmpty'
    BY ZenonT(40), <1>0, <1>1 DEF IInv, Order, ClosedIsEmpty
  <1>10. PendingIsExact'
    BY ZenonT(40), <1>1, <1>8 DEF PendingIsExact
  <1>11. Own(w)'
    BY ZenonT(40), <1>0, <1>1, <1>2, <1>3, <1>4, <1>7 DEF Own, Waiting
  <1>12. \A u \in Waiters : u # w => (mu' = u <=> mu = u)
    BY ZenonT(40), <1>0, <1>1, MemoryAssumption
  <1>13. \A o \in Offsets : Sits(o, w)' => Sits(o, w) /\ arg'[w] = arg[w]
    BY ZenonT(40), <1>1, <1>7
  <1> QED
    BY ZenonT(40), <1>1, <1>3, <1>4, <1>6, <1>7, <1>9, <1>10, <1>11, <1>12, <1>13, WaiterFrame

\* The values agree: the waiter joins the queue of its offset.
LEMMA ParkKeeps ==
    ASSUME IInv, NEW w \in Waiters, WaitPark(w)
    PROVE  IInv' /\ Carries
  <1> DEFINE a == arg[w].off
  <1>0. /\ Types /\ Own(w) /\ w \in Procs /\ w # Nobody /\ pc[w] = "compare" /\ mu = w /\ ~closed
        /\ value[a] = arg[w].exp
    BY ZenonT(40), MemoryAssumption DEF IInv, Procs, WaitPark, Own, ClosedIsEmpty
  <1>a. a \in Offsets /\ queue \in [Offsets -> Seq(Waiters)] /\ queue[a] \in Seq(Waiters)
    BY ZenonT(40), <1>0 DEF Types, SharedTypes, LocalTypes, WaitArgs
  <1>1. /\ UNCHANGED <<value, buffer, result, closed, narg, credited, arg, out>>
        /\ mu' = Nobody /\ pending' = TRUE /\ Goto(w, "parked")
        /\ queue' = [queue EXCEPT ![a] = Append(@, w)]
    BY ZenonT(40) DEF WaitPark, cells, AddWaiter
  <1> HIDE DEF a
  <1>2. queue'[a] = Append(queue[a], w) /\ \A o \in Offsets : o # a => queue'[o] = queue[o]
    BY ZenonT(40), <1>1, <1>a
  <1>3. ~In(queue[a], w) /\ Distinct(queue[a])
    BY ZenonT(40), <1>0, <1>a DEF IInv, Own, Sits, Waiting, Order
  <1>4. /\ queue'[a] \in Seq(Waiters) /\ queue'[a] # <<>> /\ Distinct(queue'[a])
        /\ \A y : In(queue'[a], y) <=> (In(queue[a], y) \/ y = w)
    BY <1>2, <1>3, <1>a, Appended
  <1>5. queue' \in [Offsets -> Seq(Waiters)]
    BY ZenonT(40), <1>1, <1>2, <1>4, <1>a
  <1>6. /\ pc'[w] = "parked"
        /\ \A y \in Procs : y # w => pc'[y] = pc[y]
        /\ pc' \in [Procs -> WaiterLabels \cup NotifierLabels]
        /\ \A u \in Waiters : pc'[u] \in WaiterLabels
        /\ \A n \in Notifiers : pc'[n] \in NotifierLabels
    BY ZenonT(40), <1>0, <1>1, GotoEffect DEF WaiterLabels, Waiting
  <1>7. Types'
    BY ZenonT(40), <1>0, <1>1, <1>5, <1>6 DEF Types, SharedTypes, LocalTypes
  <1>8. \A o \in Offsets : \A u \in Waiters : u # w => (Sits(o, u)' => Sits(o, u))
    BY ZenonT(40), <1>2, <1>4 DEF Sits
  <1>9. \A o \in Offsets : Sits(o, w)' => o = a
    <2> SUFFICES ASSUME NEW o \in Offsets, Sits(o, w)', o # a PROVE FALSE
      BY ZenonT(40)
    <2>1. Sits(o, w)
      BY ZenonT(40), <1>2 DEF Sits
    <2> QED
      BY ZenonT(40), <1>0, <2>1 DEF Own, Waiting
  <1>10. Order'
    BY ZenonT(40), <1>2, <1>4 DEF IInv, Order
  <1>11. Active'
    BY ZenonT(40), <1>4, <1>a DEF Active
  <1>12. PendingIsExact' /\ ClosedIsEmpty'
    BY ZenonT(40), <1>0, <1>1, <1>11 DEF PendingIsExact, ClosedIsEmpty
  <1>13. Own(w)'
    BY ZenonT(40), <1>0, <1>1, <1>6, <1>9 DEF Own, Waiting, a
  <1>14. \A u \in Waiters : u # w => (mu' = u <=> mu = u)
    BY ZenonT(40), <1>0, <1>1, MemoryAssumption
  <1>15. value[arg'[w].off] = arg'[w].exp
    BY ZenonT(40), <1>0, <1>1 DEF a
  <1> QED
    BY ZenonT(40), <1>1, <1>6, <1>7, <1>8, <1>10, <1>12, <1>13, <1>14, <1>15, WaiterFrame

\* The result channel is read, in the select or after a lost cancellation.
LEMMA ReceiveKeeps ==
    ASSUME IInv, NEW w \in Waiters, Receive(w)
    PROVE  IInv' /\ Carries
  <1>0. Types /\ Own(w) /\ w \in Procs /\ pc[w] \in {"parked", "receive"} /\ result[w] # "empty"
    BY ZenonT(40) DEF IInv, Procs, Receive
  <1>1. /\ UNCHANGED <<value, buffer, mu, pending, queue, closed, narg, credited, arg>>
        /\ result' = [result EXCEPT ![w] = "empty"]
        /\ Finish(w, Answer(result[w]))
    BY ZenonT(40) DEF Receive, cells
  <1>2. Answer(result[w]) \in Outcomes /\ (Answer(result[w]) = "notified" <=> result[w] = "woken")
    BY ZenonT(40) DEF Answer, Outcomes, Errors
  <1>3. /\ Goto(w, "returned") /\ out' \in [Waiters -> Outcomes] /\ out'[w] = Answer(result[w])
        /\ \A u \in Waiters : u # w => out'[u] = out[u]
    BY ZenonT(40), <1>0, <1>1, <1>2, FinishEffect
  <1>4. /\ pc'[w] = "returned"
        /\ \A y \in Procs : y # w => pc'[y] = pc[y]
        /\ pc' \in [Procs -> WaiterLabels \cup NotifierLabels]
        /\ \A u \in Waiters : pc'[u] \in WaiterLabels
        /\ \A n \in Notifiers : pc'[n] \in NotifierLabels
    BY ZenonT(40), <1>0, <1>3, GotoEffect DEF WaiterLabels
  <1>5. /\ result' \in [Waiters -> {"empty", "woken", "closed"}] /\ result'[w] = "empty"
        /\ \A u \in Waiters : u # w => result'[u] = result[u]
    BY ZenonT(40), <1>0, <1>1 DEF Types, SharedTypes
  <1>6. Types'
    BY ZenonT(40), <1>0, <1>1, <1>3, <1>4, <1>5 DEF Types, SharedTypes, LocalTypes
  <1>7. Order' /\ PendingIsExact' /\ ClosedIsEmpty' /\ \A o : \A u : Sits(o, u)' <=> Sits(o, u)
    BY ZenonT(40), <1>1, SharedKept
  <1>8. \A o \in Offsets : ~Sits(o, w)
    BY ZenonT(40), <1>0 DEF Own
  <1>9. result[w] = "woken" \/ result[w] = "closed"
    BY ZenonT(40), <1>0 DEF Types, SharedTypes
  <1>10. (w \in credited <=> result[w] = "woken") /\ mu # w
    BY ZenonT(40), <1>0, <1>9 DEF Own
  <1>11. Own(w)'
    BY ZenonT(40), <1>1, <1>2, <1>3, <1>4, <1>5, <1>7, <1>8, <1>10 DEF Own
  <1> QED
    BY ZenonT(40), <1>1, <1>3, <1>4, <1>5, <1>6, <1>7, <1>8, <1>11, WaiterFrame

\* The wait has returned to its caller.
LEMMA ResumeKeeps ==
    ASSUME IInv, NEW w \in Waiters, Resume(w)
    PROVE  IInv' /\ Carries
  <1>0. Types /\ Own(w) /\ w \in Procs /\ pc[w] = "returned"
    BY ZenonT(40) DEF IInv, Procs, Resume
  <1>1. /\ UNCHANGED <<value, buffer, mu, pending, queue, result, closed, narg>>
        /\ credited' = credited \ {w}
        /\ arg' = [arg EXCEPT ![w] = NoArg]
        /\ out' = [out EXCEPT ![w] = IF w \in Hosted /\ @ \in Errors THEN @ ELSE "none"]
    BY ZenonT(40) DEF Resume, cells, waitState
  <1>2. PICK l \in {"guest", "idle"} : Goto(w, l)
    BY ZenonT(40) DEF Resume
  <1>3. NoArg \in WaitArgs
    <2>1. \E a \in WaitArgs : TRUE
      <3>1. PICK o \in Offsets, v \in Values : TRUE
        BY ZenonT(40), MemoryAssumption
      <3>2. [off |-> o, exp |-> v, timeout |-> "zero"] \in WaitArgs
        BY ZenonT(40) DEF WaitArgs, Timeouts
      <3> QED
        BY ZenonT(40), <3>2
    <2> QED
      BY ZenonT(40), <2>1 DEF NoArg
  <1>4. /\ pc'[w] = l
        /\ \A y \in Procs : y # w => pc'[y] = pc[y]
        /\ pc' \in [Procs -> WaiterLabels \cup NotifierLabels]
        /\ \A u \in Waiters : pc'[u] \in WaiterLabels
        /\ \A n \in Notifiers : pc'[n] \in NotifierLabels
    BY ZenonT(40), <1>0, <1>2, GotoEffect DEF WaiterLabels, Outside
  <1>5. arg' \in [Waiters -> WaitArgs] /\ \A u \in Waiters : u # w => arg'[u] = arg[u]
    BY ZenonT(40), <1>0, <1>1, <1>3 DEF Types, LocalTypes
  <1>6. out' \in [Waiters -> Outcomes] /\ \A u \in Waiters : u # w => out'[u] = out[u]
    BY ZenonT(40), <1>0, <1>1 DEF Types, LocalTypes, Outcomes
  <1>7. credited' \in SUBSET Waiters /\ \A u \in Waiters : u # w => (u \in credited' <=> u \in credited)
    BY ZenonT(40), <1>0, <1>1 DEF Types, LocalTypes
  <1>8. Types'
    BY ZenonT(40), <1>0, <1>1, <1>4, <1>5, <1>6, <1>7 DEF Types, SharedTypes, LocalTypes
  <1>9. Order' /\ PendingIsExact' /\ ClosedIsEmpty' /\ \A o : \A u : Sits(o, u)' <=> Sits(o, u)
    BY ZenonT(40), <1>1, SharedKept
  <1>10. (\A o \in Offsets : ~Sits(o, w)) /\ result[w] = "empty" /\ mu # w
    BY ZenonT(40), <1>0 DEF Own, Waiting
  <1>11. w \notin credited' /\ result'[w] = "empty" /\ pc'[w] # "compare" /\ pc'[w] # "returned"
    BY ZenonT(40), <1>1, <1>2, <1>4, <1>10
  <1>12. Own(w)'
    BY ZenonT(40), <1>1, <1>9, <1>10, <1>11 DEF Own
  <1> QED
    BY ZenonT(40), <1>1, <1>4, <1>5, <1>6, <1>7, <1>8, <1>9, <1>10, <1>12, WaiterFrame

\* cancelWait: a queued waiter is unlinked, another one goes on to its channel.
LEMMA CancelKeeps ==
    ASSUME IInv, NEW w \in Waiters, CancelWait(w)
    PROVE  IInv' /\ Carries
  <1> DEFINE a == arg[w].off
  <1>0. /\ Types /\ Own(w) /\ w \in Procs /\ w # Nobody /\ mu = Nobody
        /\ pc[w] \in {"cancelTimer", "cancelCtx"}
    BY ZenonT(40), MemoryAssumption DEF IInv, Procs, CancelWait
  <1>a. a \in Offsets /\ queue \in [Offsets -> Seq(Waiters)] /\ queue[a] \in Seq(Waiters)
    BY ZenonT(40), <1>0 DEF Types, SharedTypes, LocalTypes, WaitArgs
  <1>1. UNCHANGED <<value, buffer, mu, result, closed, narg, credited, arg>>
    BY ZenonT(40) DEF CancelWait, cells
  <1>2. CASE ~Queued(w)
    <2>1. Goto(w, "receive") /\ UNCHANGED <<queue, pending, out>>
      BY ZenonT(40), <1>2 DEF CancelWait
    <2>2. arg' \in [Waiters -> WaitArgs] /\ out' \in [Waiters -> Outcomes] /\ "receive" \in WaiterLabels
      BY ZenonT(40), <1>0, <1>1, <2>1 DEF Types, LocalTypes, WaiterLabels
    <2>3. pc[w] \in Waiting
      BY ZenonT(40), <1>0 DEF Waiting
    <2> QED
      BY ZenonT(40), <1>1, <1>2, <2>1, <2>2, <2>3, QuietKeeps
  <1>3. CASE Queued(w)
    <2>1. PICK i \in DOMAIN queue[a] :
            /\ queue[a][i] = w
            /\ queue' = [queue EXCEPT ![a] = SubSeq(@, 1, i - 1) \o SubSeq(@, i + 1, Len(@))]
      BY ZenonT(40), <1>3 DEF CancelWait, RemoveWaiter
    <2>2. pending' = (closed \/ Active')
      BY ZenonT(40), <1>3 DEF CancelWait, RemoveWaiter, Active
    <2>3. PICK r \in {"timedOut", "canceled"} : Finish(w, r)
      BY ZenonT(40), <1>3 DEF CancelWait
    <2> HIDE DEF a
    <2>4. /\ queue'[a] = SubSeq(queue[a], 1, i - 1) \o SubSeq(queue[a], i + 1, Len(queue[a]))
          /\ \A o \in Offsets : o # a => queue'[o] = queue[o]
      BY ZenonT(40), <2>1, <1>a
    <2>5. Distinct(queue[a])
      BY ZenonT(40), <1>a DEF IInv, Order
    <2>6. /\ queue'[a] \in Seq(Waiters) /\ Distinct(queue'[a])
          /\ \A y : In(queue'[a], y) => In(queue[a], y) /\ y # w
      BY <2>1, <2>4, <2>5, <1>a, Removed
    <2>7. queue' \in [Offsets -> Seq(Waiters)]
      BY ZenonT(40), <2>1, <2>4, <2>6, <1>a
    <2>8. /\ Goto(w, "returned") /\ out' \in [Waiters -> Outcomes] /\ out'[w] = r
          /\ \A u \in Waiters : u # w => out'[u] = out[u]
      BY ZenonT(40), <1>0, <2>3, FinishEffect DEF Outcomes, Errors
    <2>9. /\ pc'[w] = "returned"
          /\ \A y \in Procs : y # w => pc'[y] = pc[y]
          /\ pc' \in [Procs -> WaiterLabels \cup NotifierLabels]
          /\ \A u \in Waiters : pc'[u] \in WaiterLabels
          /\ \A n \in Notifiers : pc'[n] \in NotifierLabels
      BY ZenonT(40), <1>0, <2>8, GotoEffect DEF WaiterLabels
    <2>10. pending' \in BOOLEAN
      BY ZenonT(40), <2>2 DEF Active
    <2>11. Types'
      BY ZenonT(40), <1>0, <1>1, <2>7, <2>8, <2>9, <2>10 DEF Types, SharedTypes, LocalTypes
    <2>12. \A o \in Offsets : \A u : Sits(o, u)' => Sits(o, u)
      BY ZenonT(40), <2>4, <2>6 DEF Sits
    <2>13. Sits(a, w)
      BY ZenonT(40), <2>1 DEF Sits, In
    <2>14. result[w] = "empty" /\ w \notin credited /\ Active
      BY ZenonT(40), <1>0, <1>a, <2>13, ActiveIsSits DEF Own
    <2>15. ~closed
      BY ZenonT(40), <2>14 DEF IInv, ClosedIsEmpty
    <2>16. \A o \in Offsets : ~Sits(o, w)'
      <3> SUFFICES ASSUME NEW o \in Offsets, Sits(o, w)' PROVE FALSE
        BY ZenonT(40)
      <3>1. Sits(o, w)
        BY ZenonT(40), <2>12
      <3>2. o = a
        BY ZenonT(40), <1>0, <3>1 DEF Own, a
      <3> QED
        BY ZenonT(40), <2>6, <3>2 DEF Sits
    <2>17. Order'
      BY ZenonT(40), <2>4, <2>6 DEF IInv, Order
    <2>18. PendingIsExact' /\ ClosedIsEmpty'
      BY ZenonT(40), <1>0, <1>1, <2>2, <2>15 DEF PendingIsExact, ClosedIsEmpty
    <2>19. Own(w)'
      BY ZenonT(40), <1>0, <1>1, <2>3, <2>8, <2>9, <2>14, <2>16 DEF Own
    <2> QED
      BY ZenonT(40), <1>1, <2>8, <2>9, <2>11, <2>12, <2>16, <2>17, <2>18, <2>19, WaiterFrame
  <1> QED
    BY ZenonT(40), <1>2, <1>3

-----------------------------------------------------------------------------
(* Stores and notifies *)

Coming == {"fence", "test", "slow"}

\* A step of a notifier that does not touch the waiters.
LEMMA NotifierKeeps ==
    ASSUME IInv, NEW n \in Notifiers, Types',
           UNCHANGED <<mu, pending, queue, result, closed, arg, out, credited>>,
           \A x \in Procs : x # n => pc'[x] = pc[x],
           \A m \in Notifiers : m # n => buffer'[m] = buffer[m] /\ narg'[m] = narg[m],
           OwnStore(n)'
    PROVE  IInv'
  <1>1. Waiters \cap Notifiers = {}
    BY ZenonT(40), MemoryAssumption
  <1>2. Order' /\ PendingIsExact' /\ ClosedIsEmpty' /\ \A o : \A u : Sits(o, u)' <=> Sits(o, u)
    BY ZenonT(40), SharedKept
  <1>3. \A u \in Waiters : pc'[u] = pc[u]
    BY ZenonT(40), <1>1 DEF Procs
  <1>4. \A u \in Waiters : Own(u)'
    BY ZenonT(40), <1>2, <1>3, OwnKept DEF IInv
  <1>5. \A m \in Notifiers : OwnStore(m)'
    <2> SUFFICES ASSUME NEW m \in Notifiers, m # n PROVE OwnStore(m)'
      BY ZenonT(40)
    <2>1. pc'[m] = pc[m] /\ buffer'[m] = buffer[m] /\ narg'[m] = narg[m]
      BY ZenonT(40) DEF Procs
    <2> QED
      BY ZenonT(40), <2>1 DEF IInv, OwnStore
  <1> QED
    BY ZenonT(40), <1>2, <1>4, <1>5 DEF IInv

\* Such a step loses no wakeup if it is at the notifier's own offset that a cell
\* changes, and if the notifier gives up only when no one is queued.
LEMMA NotifierCarries ==
    ASSUME IInv, NEW n \in Notifiers, queue' = queue, arg' = arg,
           \A x \in Procs : x # n => pc'[x] = pc[x],
           \A m \in Notifiers : m # n => narg'[m] = narg[m],
           \A o \in Offsets : value'[o] = value[o] \/ (pc'[n] \in Coming /\ narg'[n][1] = o),
           pc[n] \in Coming => (pc'[n] \in Coming /\ narg'[n] = narg[n]) \/ ~Active
    PROVE  Carries
  <1> SUFFICES ASSUME NoLostWakeup, NEW u \in Waiters, Queued(u)', value'[arg'[u].off] # arg'[u].exp
               PROVE  \E m \in Notifiers : pc'[m] \in Coming /\ narg'[m][1] = arg'[u].off
    BY ZenonT(40) DEF Carries, NoLostWakeup, Coming
  <1>1. Queued(u) /\ arg'[u] = arg[u] /\ arg[u].off \in Offsets
    BY ZenonT(40) DEF Queued, IInv, Types, LocalTypes, WaitArgs
  <1>2. Active
    BY ZenonT(40), <1>1, ActiveIsSits DEF IInv
  <1>3. CASE value'[arg[u].off] # value[arg[u].off]
    BY ZenonT(40), <1>1, <1>3
  <1>4. CASE value'[arg[u].off] = value[arg[u].off]
    <2>1. PICK m \in Notifiers : pc[m] \in Coming /\ narg[m][1] = arg[u].off
      BY ZenonT(40), <1>1, <1>4 DEF NoLostWakeup, Coming
    <2>2. CASE m = n
      BY ZenonT(40), <1>1, <1>2, <2>1, <2>2
    <2>3. CASE m # n
      BY ZenonT(40), <1>1, <2>1, <2>3 DEF Procs
    <2> QED
      BY ZenonT(40), <2>2, <2>3
  <1> QED
    BY ZenonT(40), <1>3, <1>4

\* A guest's store goes to the buffer.
LEMMA StoreKeeps ==
    ASSUME IInv, NEW n \in Notifiers, Store(n)
    PROVE  IInv' /\ Carries
  <1>0. Types /\ n \in Procs /\ pc[n] = "idle"
    BY ZenonT(40) DEF IInv, Procs, Store
  <1>1. UNCHANGED <<value, mu, pending, queue, result, closed, arg, out, credited>> /\ Goto(n, "fence")
    BY ZenonT(40) DEF Store, waitState
  <1>2. PICK o \in Offsets, v \in Values, c \in Counts :
          buffer' = [buffer EXCEPT ![n] = <<o, v>>] /\ narg' = [narg EXCEPT ![n] = <<o, c>>]
    BY ZenonT(40) DEF Store
  <1>3. /\ pc'[n] = "fence"
        /\ \A y \in Procs : y # n => pc'[y] = pc[y]
        /\ pc' \in [Procs -> WaiterLabels \cup NotifierLabels]
        /\ \A u \in Waiters : pc'[u] \in WaiterLabels
        /\ \A m \in Notifiers : pc'[m] \in NotifierLabels
    BY ZenonT(40), <1>0, <1>1, GotoEffect DEF NotifierLabels
  <1>4. /\ buffer' \in [Notifiers -> (Offsets \X Values) \cup {Nobody}] /\ buffer'[n] = <<o, v>>
        /\ \A m \in Notifiers : m # n => buffer'[m] = buffer[m]
    BY ZenonT(40), <1>0, <1>2 DEF Types, SharedTypes
  <1>5. /\ narg' \in [Notifiers -> Offsets \X Counts] /\ narg'[n] = <<o, c>>
        /\ \A m \in Notifiers : m # n => narg'[m] = narg[m]
    BY ZenonT(40), <1>0, <1>2 DEF Types, LocalTypes
  <1>6. Types'
    BY ZenonT(40), <1>0, <1>1, <1>3, <1>4, <1>5 DEF Types, SharedTypes, LocalTypes
  <1>7. OwnStore(n)'
    BY <1>3, <1>4, <1>5 DEF OwnStore
  <1>8. IInv'
    BY ZenonT(40), <1>1, <1>3, <1>4, <1>5, <1>6, <1>7, NotifierKeeps
  <1>9. Carries
    BY ZenonT(40), <1>0, <1>1, <1>3, <1>5, NotifierCarries DEF Coming
  <1> QED
    BY ZenonT(40), <1>8, <1>9

\* A buffered store reaches the memory.
LEMMA DrainKeeps ==
    ASSUME IInv, NEW n \in Notifiers, Drain(n)
    PROVE  IInv' /\ Carries
  <1>0. /\ Types /\ n \in Procs /\ buffer[n] # Nobody /\ pc[n] = "fence"
        /\ buffer[n] \in Offsets \X Values /\ buffer[n][1] = narg[n][1]
    BY ZenonT(40) DEF IInv, Procs, Drain, OwnStore
  <1>1. /\ UNCHANGED <<mu, pending, queue, result, closed, arg, out, credited, pc, narg>>
        /\ value' = [value EXCEPT ![buffer[n][1]] = buffer[n][2]]
        /\ buffer' = [buffer EXCEPT ![n] = Nobody]
    BY ZenonT(40) DEF Drain, waitState
  <1>2. /\ buffer' \in [Notifiers -> (Offsets \X Values) \cup {Nobody}] /\ buffer'[n] = Nobody
        /\ \A m \in Notifiers : m # n => buffer'[m] = buffer[m]
    BY ZenonT(40), <1>0, <1>1 DEF Types, SharedTypes
  <1>3. /\ value' \in [Offsets -> Values]
        /\ \A o \in Offsets : o # buffer[n][1] => value'[o] = value[o]
    BY ZenonT(40), <1>0, <1>1 DEF Types, SharedTypes
  <1>4. Types'
    BY ZenonT(40), <1>0, <1>1, <1>2, <1>3 DEF Types, SharedTypes, LocalTypes
  <1>5. OwnStore(n)'
    BY ZenonT(40), <1>2 DEF OwnStore
  <1>6. IInv'
    BY ZenonT(40), <1>1, <1>2, <1>4, <1>5, NotifierKeeps
  <1>7. Carries
    BY ZenonT(40), <1>0, <1>1, <1>3, NotifierCarries DEF Coming
  <1> QED
    BY ZenonT(40), <1>6, <1>7

\* The locked no-op: the buffer is empty.
LEMMA FenceKeeps ==
    ASSUME IInv, NEW n \in Notifiers, Fence(n)
    PROVE  IInv' /\ Carries
  <1>0. Types /\ n \in Procs /\ buffer[n] = Nobody /\ pc[n] = "fence"
    BY ZenonT(40) DEF IInv, Procs, Fence
  <1>1. /\ UNCHANGED <<value, buffer, mu, pending, queue, result, closed, arg, out, credited, narg>>
        /\ Goto(n, "test")
    BY ZenonT(40) DEF Fence, cells, waitState
  <1>2. /\ pc'[n] = "test"
        /\ \A y \in Procs : y # n => pc'[y] = pc[y]
        /\ pc' \in [Procs -> WaiterLabels \cup NotifierLabels]
        /\ \A u \in Waiters : pc'[u] \in WaiterLabels
        /\ \A m \in Notifiers : pc'[m] \in NotifierLabels
    BY ZenonT(40), <1>0, <1>1, GotoEffect DEF NotifierLabels
  <1>3. Types'
    BY ZenonT(40), <1>0, <1>1, <1>2 DEF Types, SharedTypes, LocalTypes
  <1>4. OwnStore(n)'
    BY ZenonT(40), <1>0, <1>1 DEF OwnStore
  <1>5. IInv'
    BY ZenonT(40), <1>1, <1>2, <1>3, <1>4, NotifierKeeps
  <1>6. Carries
    BY ZenonT(40), <1>1, <1>2, NotifierCarries DEF Coming
  <1> QED
    BY ZenonT(40), <1>5, <1>6

LEMMA NoNotifyType == NoNotify \in Offsets \X Counts
  <1>1. PICK o \in Offsets, c \in Counts : TRUE
    BY ZenonT(40), MemoryAssumption
  <1>2. <<o, c>> \in Offsets \X Counts
    BY ZenonT(40)
  <1> QED
    BY ZenonT(40), <1>2 DEF NoNotify

\* What giving up the arguments of a notify does.
LEMMA NoNotifyEffect ==
    ASSUME Types, NEW n \in Notifiers, narg' = [narg EXCEPT ![n] = NoNotify]
    PROVE  /\ narg' \in [Notifiers -> Offsets \X Counts]
           /\ \A m \in Notifiers : m # n => narg'[m] = narg[m]
  <1>1. narg \in [Notifiers -> Offsets \X Counts]
    BY ZenonT(40) DEF Types, LocalTypes
  <1> QED
    BY ZenonT(40), <1>1, NoNotifyType

\* The native shortcut: notify ends here when the pending word is clear.
LEMMA TestKeeps ==
    ASSUME IInv, NEW n \in Notifiers, TestPending(n)
    PROVE  IInv' /\ Carries
  <1>0. Types /\ n \in Procs /\ pc[n] = "test" /\ buffer[n] = Nobody
    BY ZenonT(40) DEF IInv, Procs, TestPending, OwnStore
  <1>1. UNCHANGED <<value, buffer, mu, pending, queue, result, closed, arg, out, credited>>
    BY ZenonT(40) DEF TestPending, cells, waitState
  <1>2. PICK l \in {"slow", "idle"} :
          Goto(n, l) /\ ((l = "slow" /\ narg' = narg)
                          \/ (~pending /\ narg' = [narg EXCEPT ![n] = NoNotify]))
    BY ZenonT(40) DEF TestPending
  <1>3. /\ pc'[n] = l
        /\ \A y \in Procs : y # n => pc'[y] = pc[y]
        /\ pc' \in [Procs -> WaiterLabels \cup NotifierLabels]
        /\ \A u \in Waiters : pc'[u] \in WaiterLabels
        /\ \A m \in Notifiers : pc'[m] \in NotifierLabels
    BY ZenonT(40), <1>0, <1>2, GotoEffect DEF NotifierLabels
  <1>4. /\ narg' \in [Notifiers -> Offsets \X Counts]
        /\ \A m \in Notifiers : m # n => narg'[m] = narg[m]
    BY ZenonT(40), <1>0, <1>2, NoNotifyEffect DEF Types, LocalTypes
  <1>5. Types'
    BY ZenonT(40), <1>0, <1>1, <1>3, <1>4 DEF Types, SharedTypes, LocalTypes
  <1>6. OwnStore(n)'
    BY ZenonT(40), <1>0, <1>1 DEF OwnStore
  <1>7. IInv'
    BY ZenonT(40), <1>1, <1>3, <1>4, <1>5, <1>6, NotifierKeeps
  <1>8. (pc'[n] \in Coming /\ narg'[n] = narg[n]) \/ ~Active
    BY ZenonT(40), <1>2, <1>3 DEF IInv, PendingIsExact, Coming
  <1>9. Carries
    BY ZenonT(40), <1>1, <1>3, <1>4, <1>8, NotifierCarries
  <1> QED
    BY ZenonT(40), <1>7, <1>9

\* The counts of the notifiers reach every waiter there can be.
CountsCover == IsFiniteSet(Waiters) /\ \A c \in Counts : Cardinality(Waiters) <= c

\* Memory.notify, under s.mu.
LEMMA NotifyKeeps ==
    ASSUME IInv, NEW n \in Notifiers, Notify(n)
    PROVE  IInv' /\ (CountsCover => Carries)
  <1>0. Types /\ n \in Procs /\ pc[n] = "slow" /\ buffer[n] = Nobody /\ mu = Nobody
    BY ZenonT(40) DEF IInv, Procs, Notify, OwnStore
  <1> DEFINE a == narg[n][1]
             k == Woken(queue[a], narg[n][2])
             chosen == {queue[a][i] : i \in 1..k}
  <1>types. /\ a \in Offsets /\ narg[n][2] \in Counts /\ narg[n][2] \in Nat
        /\ queue \in [Offsets -> Seq(Waiters)] /\ queue[a] \in Seq(Waiters) /\ Distinct(queue[a])
    BY ZenonT(40), <1>0, MemoryAssumption DEF Types, SharedTypes, LocalTypes, IInv, Order
  <1>1. /\ UNCHANGED <<value, buffer, mu, closed, arg, out>>
        /\ Goto(n, "idle") /\ narg' = [narg EXCEPT ![n] = NoNotify]
    BY ZenonT(40) DEF Notify, cells
  <1>2. IF closed \/ k = 0
          THEN UNCHANGED <<queue, pending, result, credited>>
          ELSE /\ queue' = [queue EXCEPT ![a] = SubSeq(@, k + 1, Len(@))]
               /\ pending' = \E p \in Offsets : queue'[p] # <<>>
               /\ result' = [w \in Waiters |-> IF w \in chosen THEN "woken" ELSE result[w]]
               /\ credited' = credited \cup chosen
    BY ZenonT(40) DEF Notify
  <1>3. k \in 0..Len(queue[a]) /\ (k < Len(queue[a]) => k = narg[n][2])
    BY <1>types DEF Woken
  <1>4. CountsCover => k = Len(queue[a])
    <2> SUFFICES ASSUME CountsCover PROVE k = Len(queue[a])
      BY ZenonT(40)
    <2>1. Len(queue[a]) <= Cardinality(Waiters) /\ Cardinality(Waiters) <= narg[n][2]
      BY ZenonT(40), <1>types, QueueIsBounded DEF CountsCover
    <2>2. Cardinality(Waiters) \in Nat /\ Len(queue[a]) \in Nat
      BY <1>types, FS_CardinalityType DEF CountsCover
    <2> QED
      BY <1>types, <2>1, <2>2 DEF Woken
  <1>5. /\ pc'[n] = "idle"
        /\ \A y \in Procs : y # n => pc'[y] = pc[y]
        /\ pc' \in [Procs -> WaiterLabels \cup NotifierLabels]
        /\ \A u \in Waiters : pc'[u] \in WaiterLabels
        /\ \A m \in Notifiers : pc'[m] \in NotifierLabels
    BY ZenonT(40), <1>0, <1>1, GotoEffect DEF NotifierLabels
  <1>6. /\ narg' \in [Notifiers -> Offsets \X Counts]
        /\ \A m \in Notifiers : m # n => narg'[m] = narg[m]
    BY ZenonT(40), <1>0, <1>1, NoNotifyEffect
  <1> HIDE DEF a, k, chosen
  <1>7. CountsCover /\ (\A u \in Waiters : ~In(queue'[a], u)) /\ (\A o \in Offsets : \A u \in Waiters : Sits(o, u)' => Sits(o, u))
          => Carries
    <2> SUFFICES ASSUME \A u \in Waiters : ~In(queue'[a], u),
                        \A o \in Offsets : \A u \in Waiters : Sits(o, u)' => Sits(o, u),
                        NoLostWakeup, NEW u \in Waiters, Queued(u)', value'[arg'[u].off] # arg'[u].exp
                 PROVE  \E m \in Notifiers : pc'[m] \in Coming /\ narg'[m][1] = arg'[u].off
      BY ZenonT(40) DEF Carries, NoLostWakeup, Coming
    <2>1. PICK o \in Offsets : Sits(o, u)'
      BY ZenonT(40) DEF Queued, Sits, In
    <2>2. o # a /\ Sits(o, u) /\ Own(u)
      BY ZenonT(40), <2>1 DEF IInv, Sits
    <2>3. o = arg[u].off /\ arg'[u] = arg[u] /\ value' = value /\ Queued(u)
      BY ZenonT(40), <1>1, <2>2 DEF Own, Queued, Sits, In
    <2>4. PICK m \in Notifiers : pc[m] \in Coming /\ narg[m][1] = arg[u].off
      BY ZenonT(40), <2>3 DEF NoLostWakeup, Coming
    <2>5. m # n
      BY ZenonT(40), <2>2, <2>3, <2>4 DEF a
    <2> QED
      BY ZenonT(40), <1>5, <1>6, <2>3, <2>4, <2>5 DEF Procs
  <1>8. CASE closed \/ k = 0
    <2>1. UNCHANGED <<queue, pending, result, credited>>
      BY ZenonT(40), <1>2, <1>8
    <2>2. Types'
      BY ZenonT(40), <1>0, <1>1, <1>5, <1>6, <2>1 DEF Types, SharedTypes, LocalTypes
    <2>3. OwnStore(n)'
      BY ZenonT(40), <1>0, <1>1 DEF OwnStore
    <2>4. IInv'
      BY ZenonT(40), <1>1, <1>5, <1>6, <2>1, <2>2, <2>3, NotifierKeeps
    <2>5. CountsCover => \A u \in Waiters : ~Sits(a, u)
      <3>1. CASE closed
        BY ZenonT(40), <1>types, <3>1, ActiveIsSits DEF IInv, ClosedIsEmpty
      <3>2. CASE k = 0
        <4>1. CountsCover => Len(queue[a]) = 0
          BY ZenonT(40), <1>4, <3>2
        <4>2. CountsCover => queue[a] = <<>>
          BY <1>types, <4>1
        <4> QED
          BY ZenonT(40), <1>types, <4>2, Emptiness DEF Sits
      <3> QED
        BY ZenonT(40), <1>8, <3>1, <3>2
    <2>6. \A o : \A u : Sits(o, u)' <=> Sits(o, u)
      BY ZenonT(40), <2>1 DEF Sits
    <2>7. CountsCover => \A u \in Waiters : ~In(queue'[a], u)
      BY ZenonT(40), <2>1, <2>5 DEF Sits
    <2> QED
      BY ZenonT(40), <1>7, <2>4, <2>6, <2>7
  <1>9. CASE ~(closed \/ k = 0)
    <2>1. /\ queue' = [queue EXCEPT ![a] = SubSeq(@, k + 1, Len(@))]
          /\ pending' = \E p \in Offsets : queue'[p] # <<>>
          /\ result' = [w \in Waiters |-> IF w \in chosen THEN "woken" ELSE result[w]]
          /\ credited' = credited \cup chosen
      BY ZenonT(40), <1>2, <1>9
    <2>2. /\ queue'[a] = SubSeq(queue[a], k + 1, Len(queue[a]))
          /\ \A o \in Offsets : o # a => queue'[o] = queue[o]
      BY ZenonT(40), <1>types, <2>1
    <2>3. /\ queue'[a] \in Seq(Waiters) /\ Distinct(queue'[a])
          /\ \A y : In(queue'[a], y) => In(queue[a], y) /\ y \notin chosen
          /\ k = Len(queue[a]) => \A y : ~In(queue'[a], y)
          /\ chosen \subseteq Waiters
          /\ \A y \in chosen : In(queue[a], y)
      <3>1. LET r == SubSeq(queue[a], k + 1, Len(queue[a])) IN
              /\ r \in Seq(Waiters) /\ Distinct(r)
              /\ \A y : In(r, y) => In(queue[a], y) /\ y \notin chosen
              /\ k = Len(queue[a]) => \A y : ~In(r, y)
              /\ chosen \subseteq Waiters
              /\ \A y \in chosen : In(queue[a], y)
        BY ZenonT(40), <1>types, <1>3, Dropped DEF chosen
      <3> QED
        BY ZenonT(40), <2>2, <3>1
    <2>4. queue' \in [Offsets -> Seq(Waiters)]
      BY ZenonT(40), <1>types, <2>1, <2>2, <2>3
    <2>5. pending' <=> Active'
      BY ZenonT(40), <2>1 DEF Active
    <2>6. pending' \in BOOLEAN
      BY ZenonT(40), <2>1
    <2>7. /\ result' \in [Waiters -> {"empty", "woken", "closed"}]
          /\ \A w \in Waiters : result'[w] = IF w \in chosen THEN "woken" ELSE result[w]
      BY ZenonT(40), <1>0, <2>1 DEF Types, SharedTypes
    <2>8. credited' \in SUBSET Waiters
      BY ZenonT(40), <1>0, <2>1, <2>3 DEF Types, LocalTypes
    <2>9. Types'
      BY ZenonT(40), <1>0, <1>1, <1>5, <1>6, <2>4, <2>6, <2>7, <2>8 DEF Types, SharedTypes,
         LocalTypes
    <2>10. Order'
      BY ZenonT(40), <2>2, <2>3 DEF IInv, Order
    <2>11. PendingIsExact' /\ ClosedIsEmpty'
      BY ZenonT(40), <1>0, <1>1, <1>9, <2>5 DEF PendingIsExact, ClosedIsEmpty
    <2>12. \A o \in Offsets : \A u : Sits(o, u)' => Sits(o, u)
      BY ZenonT(40), <2>2, <2>3 DEF Sits
    <2>13. Waiters \cap Notifiers = {}
      BY ZenonT(40), MemoryAssumption
    <2>14. ASSUME NEW u \in Waiters PROVE Own(u)'
      <3>1. Own(u) /\ pc'[u] = pc[u] /\ arg'[u] = arg[u] /\ out'[u] = out[u] /\ mu' = mu
        BY ZenonT(40), <1>1, <1>5, <2>13 DEF IInv, Procs
      <3>2. CASE u \notin chosen
        <4>1. result'[u] = result[u] /\ (u \in credited' <=> u \in credited)
          BY ZenonT(40), <2>1, <2>7, <3>2
        <4> QED
          BY ZenonT(40), <2>12, <3>1, <4>1, OwnKept
      <3>3. CASE u \in chosen
        <4>1. Sits(a, u)
          BY ZenonT(40), <2>3, <3>3 DEF Sits
        <4>2. a = arg[u].off /\ pc[u] \in Waiting /\ (pc[u] = "compare" <=> mu = u)
          BY ZenonT(40), <1>types, <3>1, <4>1 DEF Own
        <4>3. \A o \in Offsets : ~Sits(o, u)'
          <5> SUFFICES ASSUME NEW o \in Offsets, Sits(o, u)' PROVE FALSE
            BY ZenonT(40)
          <5>1. o = arg[u].off
            BY ZenonT(40), <2>12, <3>1 DEF Own
          <5> QED
            BY ZenonT(40), <2>3, <3>3, <4>2, <5>1 DEF Sits
        <4>4. result'[u] = "woken" /\ u \in credited'
          BY ZenonT(40), <2>1, <2>7, <3>3
        <4> QED
          BY ZenonT(40), <3>1, <4>2, <4>3, <4>4 DEF Own, Waiting
      <3> QED
        BY ZenonT(40), <3>2, <3>3
    <2>15. \A m \in Notifiers : OwnStore(m)'
      <3> SUFFICES ASSUME NEW m \in Notifiers PROVE OwnStore(m)'
        BY ZenonT(40)
      <3>1. CASE m = n
        BY ZenonT(40), <1>0, <1>1, <3>1 DEF OwnStore
      <3>2. CASE m # n
        <4>1. pc'[m] = pc[m] /\ buffer'[m] = buffer[m] /\ narg'[m] = narg[m]
          BY ZenonT(40), <1>1, <1>5, <1>6, <3>2 DEF Procs
        <4> QED
          BY ZenonT(40), <4>1 DEF IInv, OwnStore
      <3> QED
        BY ZenonT(40), <3>1, <3>2
    <2>16. IInv'
      BY ZenonT(40), <2>9, <2>10, <2>11, <2>14, <2>15 DEF IInv
    <2>17. CountsCover => \A u \in Waiters : ~In(queue'[a], u)
      BY ZenonT(40), <1>4, <2>3
    <2> QED
      BY ZenonT(40), <1>7, <2>12, <2>16, <2>17
  <1> QED
    BY ZenonT(40), <1>8, <1>9

\* Memory.Close fails every queued wait.
LEMMA CloseKeeps ==
    ASSUME IInv, Close
    PROVE  IInv' /\ Carries
  <1>0. Types /\ mu = Nobody
    BY ZenonT(40) DEF IInv, Close
  <1>1. /\ UNCHANGED <<value, buffer, mu, pc, arg, out, narg, credited>> /\ closed' = TRUE
        /\ pending' = (pending \/ Active)
        /\ result' = [w \in Waiters |-> IF Queued(w) THEN "closed" ELSE result[w]]
        /\ queue' = [o \in Offsets |-> <<>>]
    BY ZenonT(40) DEF Close, CloseWaiters, cells
  <1>2. \A o \in Offsets : queue'[o] = <<>>
    BY ZenonT(40), <1>1
  <1>3. \A o \in Offsets : \A u : ~Sits(o, u)'
    BY <1>2 DEF Sits, In
  <1>4. pending' \in BOOLEAN
    BY ZenonT(40), <1>1
  <1>5. queue' \in [Offsets -> Seq(Waiters)] /\ \A o \in Offsets : Distinct(queue'[o])
    BY <1>1, <1>2 DEF Distinct
  <1>6. /\ result' \in [Waiters -> {"empty", "woken", "closed"}]
        /\ \A w \in Waiters : result'[w] = IF Queued(w) THEN "closed" ELSE result[w]
    BY ZenonT(40), <1>0, <1>1 DEF Types, SharedTypes
  <1>7. Types'
    BY ZenonT(40), <1>0, <1>1, <1>4, <1>5, <1>6 DEF Types, SharedTypes, LocalTypes
  <1>8. ~Active'
    BY ZenonT(40), <1>2 DEF Active
  <1>9. Order' /\ PendingIsExact' /\ ClosedIsEmpty'
    BY ZenonT(40), <1>0, <1>1, <1>5, <1>8 DEF Order, PendingIsExact, ClosedIsEmpty
  <1>10. ASSUME NEW u \in Waiters PROVE Own(u)'
    <2>1. Own(u)
      BY ZenonT(40) DEF IInv
    <2>2. CASE ~Queued(u)
      BY ZenonT(40), <1>1, <1>3, <1>6, <2>1, <2>2, OwnKept
    <2>3. CASE Queued(u)
      <3>1. PICK o \in Offsets : Sits(o, u)
        BY ZenonT(40), <1>0, <2>3, ActiveIsSits
      <3>2. pc[u] \in Waiting /\ u \notin credited /\ (pc[u] = "compare" <=> mu = u)
        BY ZenonT(40), <2>1, <3>1 DEF Own
      <3>3. result'[u] = "closed" /\ pc'[u] = pc[u] /\ mu' = mu /\ credited' = credited
        BY ZenonT(40), <1>1, <1>6, <2>3
      <3> QED
        BY ZenonT(40), <1>3, <3>2, <3>3 DEF Own, Waiting
    <2> QED
      BY ZenonT(40), <2>2, <2>3
  <1>11. \A m \in Notifiers : OwnStore(m)'
    BY ZenonT(40), <1>1 DEF IInv, OwnStore
  <1>12. Carries
    BY ZenonT(40), <1>3 DEF Carries, NoLostWakeup, Queued, Sits, In
  <1> QED
    BY ZenonT(40), <1>7, <1>9, <1>10, <1>11, <1>12 DEF IInv

-----------------------------------------------------------------------------
(* The remaining steps of a waiter change only its own control state. *)

LEMMA QuietSteps ==
    ASSUME IInv, NEW w \in Waiters,
           \/ Invoke(w) \/ PublishAtomicWaitContext(w) \/ RecheckClosed(w) \/ EndInvocation(w)
           \/ GuestWait(w) \/ NativeCompare(w) \/ HostWait(w) \/ Timer(w) \/ Cancelled(w)
    PROVE  IInv' /\ Carries
  <1>0. Types /\ arg \in [Waiters -> WaitArgs] /\ out \in [Waiters -> Outcomes]
    BY ZenonT(40) DEF IInv, Types, LocalTypes
  <1> DEFINE Still == UNCHANGED <<value, buffer, mu, pending, queue, result, closed, narg, credited>>
  <1>1. CASE Invoke(w)
    <2>1. Still /\ Goto(w, "publish") /\ pc[w] = "idle"
      BY ZenonT(40), <1>1 DEF Invoke, cells, waitState, instances
    <2>2. "publish" \in WaiterLabels
      BY ZenonT(40) DEF WaiterLabels, Outside, Waiting
    <2>3. arg' = arg /\ out' = out
      BY ZenonT(40), <1>1 DEF Invoke
    <2>4. arg' \in [Waiters -> WaitArgs] /\ out' \in [Waiters -> Outcomes]
      BY ZenonT(40), <1>0, <2>3
    <2> QED
      BY ZenonT(40), <2>1, <2>2, <2>3, <2>4, QuietKeeps DEF Outside, Waiting
  <1>2. CASE PublishAtomicWaitContext(w)
    <2>1. Still /\ Goto(w, "check") /\ pc[w] = "publish"
      BY ZenonT(40), <1>2 DEF PublishAtomicWaitContext, cells, waitState, instances
    <2>2. "check" \in WaiterLabels
      BY ZenonT(40) DEF WaiterLabels, Outside, Waiting
    <2>3. arg' = arg /\ out' = out
      BY ZenonT(40), <1>2 DEF PublishAtomicWaitContext
    <2>4. arg' \in [Waiters -> WaitArgs] /\ out' \in [Waiters -> Outcomes]
      BY ZenonT(40), <1>0, <2>3
    <2> QED
      BY ZenonT(40), <2>1, <2>2, <2>3, <2>4, QuietKeeps DEF Outside, Waiting
  <1>3. CASE RecheckClosed(w)
    <2>1. Still /\ Goto(w, "guest") /\ pc[w] = "check"
      BY ZenonT(40), <1>3 DEF RecheckClosed, cells, waitState, instances
    <2>2. "guest" \in WaiterLabels
      BY ZenonT(40) DEF WaiterLabels, Outside, Waiting
    <2>3. arg' = arg /\ out' = out
      BY ZenonT(40), <1>3 DEF RecheckClosed
    <2>4. arg' \in [Waiters -> WaitArgs] /\ out' \in [Waiters -> Outcomes]
      BY ZenonT(40), <1>0, <2>3
    <2> QED
      BY ZenonT(40), <2>1, <2>2, <2>3, <2>4, QuietKeeps DEF Outside, Waiting
  <1>4. CASE EndInvocation(w)
    <2>1. Still /\ Goto(w, "idle") /\ pc[w] = "guest"
      BY ZenonT(40), <1>4 DEF EndInvocation, cells, waitState, instances
    <2>2. "idle" \in WaiterLabels
      BY ZenonT(40) DEF WaiterLabels, Outside, Waiting
    <2>3. arg' = arg /\ out' = [out EXCEPT ![w] = "none"]
      BY ZenonT(40), <1>4 DEF EndInvocation
    <2>4. /\ arg' \in [Waiters -> WaitArgs] /\ out' \in [Waiters -> Outcomes]
          /\ \A u \in Waiters : u # w => out'[u] = out[u]
      BY ZenonT(40), <1>0, <2>3 DEF Outcomes
    <2> QED
      BY ZenonT(40), <2>1, <2>2, <2>3, <2>4, QuietKeeps DEF Outside, Waiting
  <1>5. CASE GuestWait(w)
    <2>1. Still /\ Goto(w, "native") /\ pc[w] = "guest"
      BY ZenonT(40), <1>5 DEF GuestWait, cells, waitState, instances
    <2>2. "native" \in WaiterLabels
      BY ZenonT(40) DEF WaiterLabels, Outside, Waiting
    <2>3. out' = out /\ \E a \in WaitArgs : arg' = [arg EXCEPT ![w] = a]
      BY ZenonT(40), <1>5 DEF GuestWait
    <2>4. /\ arg' \in [Waiters -> WaitArgs] /\ out' \in [Waiters -> Outcomes]
          /\ \A u \in Waiters : u # w => arg'[u] = arg[u]
      BY ZenonT(40), <1>0, <2>3
    <2> QED
      BY ZenonT(40), <2>1, <2>2, <2>3, <2>4, QuietKeeps DEF Outside, Waiting
  <1>6. CASE HostWait(w)
    <2>1. Still /\ Goto(w, "call") /\ pc[w] = "idle"
      BY ZenonT(40), <1>6 DEF HostWait, cells, waitState, instances
    <2>2. "call" \in WaiterLabels
      BY ZenonT(40) DEF WaiterLabels, Outside, Waiting
    <2>3. out' = out /\ \E a \in WaitArgs : arg' = [arg EXCEPT ![w] = a]
      BY ZenonT(40), <1>6 DEF HostWait
    <2>4. /\ arg' \in [Waiters -> WaitArgs] /\ out' \in [Waiters -> Outcomes]
          /\ \A u \in Waiters : u # w => arg'[u] = arg[u]
      BY ZenonT(40), <1>0, <2>3
    <2> QED
      BY ZenonT(40), <2>1, <2>2, <2>3, <2>4, QuietKeeps DEF Outside, Waiting
  <1>7. CASE Timer(w)
    <2>1. Still /\ Goto(w, "cancelTimer") /\ pc[w] = "parked"
      BY ZenonT(40), <1>7 DEF Timer, cells, waitState, instances
    <2>2. "cancelTimer" \in WaiterLabels
      BY ZenonT(40) DEF WaiterLabels, Outside, Waiting
    <2>3. arg' = arg /\ out' = out
      BY ZenonT(40), <1>7 DEF Timer
    <2>4. arg' \in [Waiters -> WaitArgs] /\ out' \in [Waiters -> Outcomes]
      BY ZenonT(40), <1>0, <2>3
    <2> QED
      BY ZenonT(40), <2>1, <2>2, <2>3, <2>4, QuietKeeps DEF Outside, Waiting
  <1>8. CASE Cancelled(w)
    <2>1. Still /\ Goto(w, "cancelCtx") /\ pc[w] = "parked"
      BY ZenonT(40), <1>8 DEF Cancelled, cells, waitState, instances
    <2>2. "cancelCtx" \in WaiterLabels
      BY ZenonT(40) DEF WaiterLabels, Outside, Waiting
    <2>3. arg' = arg /\ out' = out
      BY ZenonT(40), <1>8 DEF Cancelled
    <2>4. arg' \in [Waiters -> WaitArgs] /\ out' \in [Waiters -> Outcomes]
      BY ZenonT(40), <1>0, <2>3
    <2> QED
      BY ZenonT(40), <2>1, <2>2, <2>3, <2>4, QuietKeeps DEF Outside, Waiting
  <1>9. CASE NativeCompare(w)
    <2>1. Still /\ pc[w] = "native" /\ arg' = arg
      BY ZenonT(40), <1>9 DEF NativeCompare, cells, waitState
    <2>2. arg' \in [Waiters -> WaitArgs] /\ "returned" \in WaiterLabels /\ "call" \in WaiterLabels
      BY ZenonT(40), <1>0, <2>1 DEF WaiterLabels, Outside
    <2>3. CASE Finish(w, "notEqual")
      <3>1. /\ Goto(w, "returned") /\ out' \in [Waiters -> Outcomes] /\ out'[w] = "notEqual"
            /\ \A u \in Waiters : u # w => out'[u] = out[u]
        BY ZenonT(40), <1>0, <2>3, FinishEffect DEF Outcomes
      <3> QED
        BY ZenonT(40), <2>1, <2>2, <3>1, QuietKeeps DEF Outside
    <2>4. CASE Goto(w, "call") /\ out' = out
      <3>1. out' \in [Waiters -> Outcomes]
        BY ZenonT(40), <1>0, <2>4
      <3> QED
        BY ZenonT(40), <2>1, <2>2, <2>4, <3>1, QuietKeeps DEF Outside
    <2> QED
      BY ZenonT(40), <1>9, <2>3, <2>4 DEF NativeCompare
  <1> QED
    BY ZenonT(40), <1>1, <1>2, <1>3, <1>4, <1>5, <1>6, <1>7, <1>8, <1>9

LEMMA SameSteps ==
    ASSUME IInv, NEW x,
           \/ ContextDone(x) \/ CloseInvocationEntry(x) \/ CancelAtomicWaitContext(x)
           \/ DetachImporter(x) \/ AttachImporter(x) \/ UNCHANGED vars
    PROVE  IInv' /\ Carries
  <1>1. UNCHANGED <<value, buffer, mu, pending, queue, result, closed, pc, arg, out, narg, credited>>
    BY ZenonT(40) DEF ContextDone, CloseInvocationEntry, CancelAtomicWaitContext,
       DetachImporter, AttachImporter, vars, cells, waitState
  <1> QED
    BY ZenonT(40), <1>1, SameKeeps

-----------------------------------------------------------------------------
(* The invariant *)

LEMMA InitKeeps ==
    ASSUME Init
    PROVE  IInv /\ NoLostWakeup
  <1>1. queue \in [Offsets -> Seq(Waiters)] /\ \A o \in Offsets : queue[o] = <<>>
    BY DEF Init
  <1>2. \A o \in Offsets : (\A u : ~Sits(o, u)) /\ Distinct(queue[o])
    BY <1>1 DEF Sits, In, Distinct
  <1>3. ~Active
    BY ZenonT(40), <1>1 DEF Active
  <1>4. NoArg \in WaitArgs
    <2>1. PICK o \in Offsets, v \in Values : TRUE
      BY ZenonT(40), MemoryAssumption
    <2>2. [off |-> o, exp |-> v, timeout |-> "zero"] \in WaitArgs
      BY ZenonT(40) DEF WaitArgs, Timeouts
    <2> QED
      BY ZenonT(40), <2>2 DEF NoArg
  <1>5. SharedTypes
    BY ZenonT(40), <1>1 DEF Init, SharedTypes
  <1>6. /\ pc \in [Procs -> WaiterLabels \cup NotifierLabels]
        /\ \A x \in Procs : pc[x] = "idle"
    BY ZenonT(40) DEF Init, Procs, WaiterLabels, Outside
  <1>7. arg \in [Waiters -> WaitArgs] /\ out \in [Waiters -> Outcomes] /\ narg \in [Notifiers -> Offsets \X Counts]
    BY ZenonT(40), <1>4, NoNotifyType DEF Init, Outcomes
  <1>8. LocalTypes
    BY ZenonT(40), <1>6, <1>7 DEF Init, LocalTypes, Procs, WaiterLabels, NotifierLabels, Outside
  <1>9. \A w \in Waiters : Own(w)
    <2> SUFFICES ASSUME NEW w \in Waiters PROVE Own(w)
      BY ZenonT(40)
    <2>1. pc[w] = "idle" /\ mu # w /\ result[w] = "empty" /\ w \notin credited
      BY ZenonT(40), <1>6, MemoryAssumption DEF Init, Procs
    <2> QED
      BY ZenonT(40), <1>2, <2>1 DEF Own
  <1>10. \A n \in Notifiers : OwnStore(n)
    BY ZenonT(40) DEF Init, OwnStore
  <1>11. Order /\ PendingIsExact /\ ClosedIsEmpty
    BY ZenonT(40), <1>2, <1>3 DEF Init, Order, PendingIsExact, ClosedIsEmpty
  <1>12. NoLostWakeup
    BY ZenonT(40), <1>2 DEF NoLostWakeup, Queued, Sits, In
  <1> QED
    BY ZenonT(40), <1>5, <1>8, <1>9, <1>10, <1>11, <1>12 DEF IInv, Types

\* Who can take a step that is not guarded by the kind of process.
LEMMA Roles ==
    ASSUME IInv, NEW x \in Procs
    PROVE  /\ WaitAnnounce(x) \/ CancelWait(x) \/ GuestWait(x) \/ EndInvocation(x) => x \in Waiters
           /\ Invoke(x) \/ HostWait(x) => x \in Waiters
           /\ Notify(x) \/ Store(x) => x \in Notifiers
  <1>1. \A n \in Notifiers : pc[n] \in NotifierLabels
    BY ZenonT(40) DEF IInv, Types, LocalTypes
  <1>2. \A w \in Waiters : pc[w] \in WaiterLabels
    BY ZenonT(40) DEF IInv, Types, LocalTypes
  <1>3. WaitAnnounce(x) \/ CancelWait(x) \/ GuestWait(x) \/ EndInvocation(x) => pc[x] \notin NotifierLabels
    BY ZenonT(40) DEF WaitAnnounce, CancelWait, GuestWait, EndInvocation, NotifierLabels
  <1>4. Notify(x) => pc[x] \notin WaiterLabels
    BY ZenonT(40) DEF Notify, WaiterLabels, Outside, Waiting
  <1>5. (Invoke(x) \/ HostWait(x) => x \in Waiters) /\ (Store(x) => x \in Notifiers)
    BY ZenonT(40), MemoryAssumption DEF Invoke, HostWait, Store
  <1> QED
    BY ZenonT(40), <1>1, <1>2, <1>3, <1>4, <1>5 DEF Procs

LEMMA NextKeeps ==
    ASSUME IInv, [Next]_vars
    PROVE  IInv' /\ (CountsCover => Carries)
  <1>1. ASSUME NEW w \in Waiters, WaitStep(w) \/ Timer(w) PROVE IInv' /\ Carries
    BY ZenonT(40), <1>1, QuietSteps, DeclineKeeps, ParkKeeps, ReceiveKeeps, ResumeKeeps
       DEF WaitStep
  <1>2. ASSUME NEW n \in Notifiers, NotifyStep(n) PROVE IInv' /\ Carries
    BY ZenonT(40), <1>2, DrainKeeps, FenceKeeps, TestKeeps DEF NotifyStep
  <1>3. ASSUME NEW x \in Procs, MuStep(x) PROVE IInv' /\ (CountsCover => Carries)
    BY ZenonT(40), <1>3, Roles, AnnounceKeeps, CancelKeeps, NotifyKeeps DEF MuStep
  <1>4. ASSUME NEW x \in Procs, CallerStep(x) PROVE IInv' /\ Carries
    <2>1. CASE Invoke(x) \/ GuestWait(x) \/ HostWait(x) \/ EndInvocation(x)
      BY ZenonT(40), <1>4, <2>1, Roles, QuietSteps
    <2>2. CASE Store(x)
      BY ZenonT(40), <1>4, <2>2, Roles, StoreKeeps
    <2>3. CASE ContextDone(x) \/ CloseInvocationEntry(x) \/ DetachImporter(x) \/ AttachImporter(x)
      BY ZenonT(40), <2>3, SameSteps
    <2> QED
      BY ZenonT(40), <1>4, <2>1, <2>2, <2>3 DEF CallerStep
  <1>5. ASSUME NEW i \in Hosted, CancelAtomicWaitContext(i) PROVE IInv' /\ Carries
    BY ZenonT(40), <1>5, SameSteps
  <1>6. Close => IInv' /\ Carries
    BY ZenonT(40), CloseKeeps
  <1>7. ASSUME UNCHANGED vars PROVE IInv' /\ Carries
    BY ZenonT(40), <1>7, SameSteps
  <1>8. CASE Next
    BY ZenonT(40), <1>1, <1>2, <1>3, <1>4, <1>5, <1>6, <1>8 DEF Next, Procs
  <1> QED
    BY ZenonT(40), <1>7, <1>8

LEMMA Invariance == Spec => []IInv
  <1>1. Init => IInv
    BY ZenonT(40), InitKeeps
  <1>2. IInv /\ [Next]_vars => IInv'
    BY ZenonT(40), NextKeeps
  <1> QED
    BY <1>1, <1>2, PTL DEF Spec

-----------------------------------------------------------------------------
(* The theorems *)

\* The SharedNotifyPending word that the native notify shortcut reads is set
\* whenever anyone is queued or is comparing under s.mu, and on an open memory
\* outside s.mu it is set only then.
THEOREM PendingStaysExact == Spec => []PendingIsExact
  <1>1. IInv => PendingIsExact
    BY ZenonT(40) DEF IInv
  <1> QED
    BY <1>1, Invariance, PTL

\* A waiter that a notify counted returns memoryWaitNotified whatever its timer
\* and its context did meanwhile, and no other waiter does (cancelWait).
THEOREM WakesAreReported == Spec => []WakeIsReported
  <1>1. IInv => WakeIsReported
    <2> SUFFICES ASSUME IInv, NEW w \in Waiters, pc[w] = "returned"
                 PROVE  w \in credited <=> out[w] = "notified"
      BY ZenonT(40) DEF WakeIsReported
    <2>1. Own(w)
      BY ZenonT(40) DEF IInv
    <2>2. result[w] = "empty"
      BY ZenonT(40), <2>1 DEF Own, Waiting
    <2> QED
      BY ZenonT(40), <2>1, <2>2 DEF Own
  <1> QED
    BY <1>1, Invariance, PTL

\* With counts that reach every waiter, no waiter sleeps on a cell that no longer
\* has the value it compared unless the storing guest's notify is on the way: the
\* fence orders the store before the test of the pending word, and the word is set
\* before the comparison.
THEOREM NoWakeupIsLost ==
    ASSUME CountsCover
    PROVE  Spec => []NoLostWakeup
  <1>1. Init => IInv /\ NoLostWakeup
    BY ZenonT(40), InitKeeps
  <1>2. IInv /\ NoLostWakeup /\ [Next]_vars => IInv' /\ NoLostWakeup'
    BY ZenonT(40), NextKeeps DEF Carries
  <1>3. Spec => [](IInv /\ NoLostWakeup)
    BY <1>1, <1>2, PTL DEF Spec
  <1> QED
    BY <1>3, PTL

=============================================================================
