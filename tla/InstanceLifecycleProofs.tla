---------------------- MODULE InstanceLifecycleProofs ----------------------
(***************************************************************************)
(* The four safety properties of InstanceLifecycle, for any number of      *)
(* invokers, closers, waiters and holders and every kind of instance.      *)
(*                                                                         *)
(* The argument: the terminal phase starts only on an instance that no     *)
(* lease, no construction and no adoption can reach any more, and all of   *)
(* that is stable (Quiesced).  One goroutine owns the terminal phase from  *)
(* its start to its signal, also while it finalizes on the way there       *)
(* (TermOwner); finalizers come after its hooks, one at a time holds the   *)
(* scan, and the one that closes the resources is the only one that        *)
(* releases them (Own, Unique).  The lease count and the root count are    *)
(* the numbers of invokers and holders that are inside (Counts).           *)
(***************************************************************************)
EXTENDS InstanceLifecycle, FiniteSetTheorems, TLAPS

Rets == {"idle", "adopt", "built", "spent", "handoff", "returned"}
Frets == Rets \cup {"collected", "signalOnly"}
Hooking == {"afterClose", "ready", "readyManaged"}
Ending == {"ready", "readyManaged", "signal", "signalOnly"}
Scanning == {"scan", "scanned"}
Finalizers == {"finalize", "scan", "scanned", "release"}

Types ==
    /\ DOMAIN pc = Threads
    /\ ret \in [Threads -> Rets]
    /\ fret \in [Threads -> Frets]

(* Nothing can enter the instance any more. *)
Quiesced == entryClosed /\ count = 0 /\ ~constructionActive /\ "prepared" \in closeState

(* The owner of the terminal phase, until it has signalled its end. *)
TermOwner(t) ==
    \/ pc[t] \in Hooking \cup Ending
    \/ pc[t] \in Finalizers /\ fret[t] = "signalOnly"

Invoking == {t \in Invokers : pc[t] = "invoking"}
Holding == {t \in Holders : pc[t] = "holding"}

Counts == count = Cardinality(Invoking) /\ resourceRefs = Cardinality(Holding)

(* How the flags follow one another. *)
Flow ==
    /\ closed <=> "hooked" \in closeState
    /\ closed => entryClosed
    /\ "prepared" \in closeState => closed
    /\ "terminalStarted" \in closeState => Quiesced
    /\ "terminalStarted" \notin closeState => signals = 0
    /\ "terminalComplete" \in closeState => "terminalStarted" \in closeState /\ ~managed
    /\ resourcesClosed => "terminalComplete" \in closeState /\ resourceRefs = 0
    /\ ~resourcesClosed => releases = 0

Once ==
    /\ releases \in {0, 1}
    /\ signals \in {0, 1}
    /\ collections = IF claimed THEN 1 ELSE 0

(* What a goroutine's place says about the instance. *)
Own(t) ==
    /\ pc[t] = "invoking" => t \in Invokers
    /\ pc[t] = "holding" => t \in Holders
    /\ pc[t] = "building" => t = Builder /\ constructionActive
    /\ t = Builder /\ pc[t] = "adopting" => ~closed
    /\ pc[t] = "beforeClose" => entryClosed
    /\ pc[t] = "closed" => closed
    /\ pc[t] = "terminal" => Quiesced
    /\ TermOwner(t) => "terminalStarted" \in closeState /\ signals = 0
    /\ pc[t] \in Hooking => "terminalComplete" \notin closeState
    /\ pc[t] \in Ending => ~managed
    /\ pc[t] \in Finalizers => "terminalComplete" \in closeState
    /\ pc[t] \in Scanning => finalizing /\ ~resourcesClosed /\ closed
    /\ pc[t] = "release" => resourcesClosed /\ releases = 0

Unique ==
    \A s, t \in Threads :
        /\ TermOwner(s) /\ TermOwner(t) => s = t
        /\ pc[s] \in Scanning /\ pc[t] \in Scanning => s = t
        /\ pc[s] = "release" /\ pc[t] = "release" => s = t

IInv ==
    /\ Types
    /\ Counts
    /\ Flow
    /\ Once
    /\ \A t \in Threads : Own(t)
    /\ Unique

-----------------------------------------------------------------------------
(* Counting *)

LEMMA Finite ==
    /\ IsFiniteSet(Invoking) /\ IsFiniteSet(Holding)
    /\ Cardinality(Invoking) \in Nat /\ Cardinality(Holding) \in Nat
  <1>1. IsFiniteSet(Invokers) /\ IsFiniteSet(Holders)
    BY ZenonT(40), ThreadsAssumption
  <1>2. Invoking \in SUBSET Invokers /\ Holding \in SUBSET Holders
    BY ZenonT(40) DEF Invoking, Holding
  <1>3. IsFiniteSet(Invoking)
    BY ZenonT(40), <1>1, <1>2, FS_Subset
  <1>4. IsFiniteSet(Holding)
    BY ZenonT(40), <1>1, <1>2, FS_Subset
  <1> QED
    BY ZenonT(40), <1>3, <1>4, FS_CardinalityType

LEMMA Zero ==
    ASSUME Counts
    PROVE  /\ count = 0 <=> Invoking = {}
           /\ resourceRefs = 0 <=> Holding = {}
  BY ZenonT(40), Finite, FS_EmptySet DEF Counts

\* Nobody enters or leaves.
LEMMA CountsKept ==
    ASSUME Counts, count' = count, resourceRefs' = resourceRefs,
           \A u \in Threads : pc'[u] = "invoking" <=> pc[u] = "invoking",
           \A u \in Threads : pc'[u] = "holding" <=> pc[u] = "holding"
    PROVE  Counts'
  <1>1. \A u : u \in Invoking' <=> u \in Invoking
    BY ZenonT(40) DEF Invoking, Threads
  <1>2. \A u : u \in Holding' <=> u \in Holding
    BY ZenonT(40) DEF Holding, Threads
  <1>3. Invoking' = Invoking /\ Holding' = Holding
    BY ZenonT(40), <1>1, <1>2
  <1> QED
    BY ZenonT(40), <1>3 DEF Counts

-----------------------------------------------------------------------------
(* Frames *)

\* The effect of setting one goroutine's control state.
LEMMA GotoEffect ==
    ASSUME Types, NEW t \in Threads, NEW l, Goto(t, l)
    PROVE  /\ DOMAIN pc' = Threads
           /\ pc'[t] = l
           /\ \A u \in Threads : u # t => pc'[u] = pc[u]
  <1>1. DOMAIN pc = Threads
    BY ZenonT(40) DEF Types
  <1>2. pc' = [pc EXCEPT ![t] = l]
    BY ZenonT(40) DEF Goto
  <1> QED
    BY ZenonT(40), <1>1, <1>2

LEMMA TryEffect ==
    ASSUME Types, NEW t \in Threads, NEW l \in Rets, CallTryFinalize(t, l)
    PROVE  /\ Goto(t, "tryFinalize")
           /\ ret' \in [Threads -> Rets]
  <1>1. ret \in [Threads -> Rets] /\ ret' = [ret EXCEPT ![t] = l] /\ Goto(t, "tryFinalize")
    BY ZenonT(40) DEF Types, CallTryFinalize
  <1> QED
    BY ZenonT(40), <1>1

LEMMA FinalizeEffect ==
    ASSUME Types, NEW t \in Threads, NEW l \in Frets, CallFinalize(t, l)
    PROVE  /\ Goto(t, "finalize")
           /\ fret' \in [Threads -> Frets]
           /\ fret'[t] = l
           /\ \A u \in Threads : u # t => fret'[u] = fret[u]
  <1>1. fret \in [Threads -> Frets] /\ fret' = [fret EXCEPT ![t] = l] /\ Goto(t, "finalize")
    BY ZenonT(40) DEF Types, CallFinalize
  <1> QED
    BY ZenonT(40), <1>1

\* A goroutine that stays where it is.
LEMMA OwnKept ==
    ASSUME NEW u, Own(u), pc'[u] = pc[u], fret'[u] = fret[u],
           pc[u] = "building" => constructionActive',
           u = Builder /\ pc[u] = "adopting" => ~closed',
           entryClosed => entryClosed', closed => closed', Quiesced => Quiesced',
           \A f \in closeState : f \in closeState',
           TermOwner(u) => signals' = signals,
           pc[u] \in Hooking => "terminalComplete" \notin closeState',
           pc[u] \in Ending => ~managed',
           pc[u] \in Scanning => finalizing' /\ ~resourcesClosed',
           pc[u] = "release" => resourcesClosed' /\ releases' = releases
    PROVE  Own(u)'
  <1>1. TermOwner(u)' <=> TermOwner(u)
    BY ZenonT(40) DEF TermOwner
  <1>2. "terminalStarted" \in closeState => "terminalStarted" \in closeState'
    BY ZenonT(40)
  <1>3. "terminalComplete" \in closeState => "terminalComplete" \in closeState'
    BY ZenonT(40)
  <1> QED
    BY <1>1, <1>2, <1>3 DEF Own

\* Exclusive places stay exclusive when at most one goroutine moves, and it
\* takes a place only from no one.
LEMMA UniqueKept ==
    ASSUME Unique, NEW t \in Threads,
           \A u \in Threads : u # t => pc'[u] = pc[u] /\ fret'[u] = fret[u],
           TermOwner(t)' => TermOwner(t) \/ \A u \in Threads : ~TermOwner(u),
           pc'[t] \in Scanning => pc[t] \in Scanning \/ \A u \in Threads : pc[u] \notin Scanning,
           pc'[t] = "release" => \A u \in Threads : pc[u] # "release"
    PROVE  Unique'
  <1>1. \A u \in Threads : u # t => (TermOwner(u)' <=> TermOwner(u))
    BY ZenonT(40) DEF TermOwner
  <1> SUFFICES ASSUME NEW s \in Threads, NEW r \in Threads
               PROVE  /\ TermOwner(s)' /\ TermOwner(r)' => s = r
                      /\ pc'[s] \in Scanning /\ pc'[r] \in Scanning => s = r
                      /\ pc'[s] = "release" /\ pc'[r] = "release" => s = r
    BY ZenonT(40) DEF Unique
  <1>2. TermOwner(s)' /\ TermOwner(r)' => s = r
    BY ZenonT(40), <1>1 DEF Unique
  <1>3. pc'[s] \in Scanning /\ pc'[r] \in Scanning => s = r
    BY ZenonT(40) DEF Unique
  <1>4. pc'[s] = "release" /\ pc'[r] = "release" => s = r
    BY ZenonT(40) DEF Unique
  <1> QED
    BY ZenonT(40), <1>2, <1>3, <1>4

Flagged == {"started", "completed", "prepared"}

\* A step on a goroutine's own control state and on the flags of the logical
\* close, by a goroutine without a lease, a root or the terminal phase.
LEMMA QuietKeeps ==
    ASSUME IInv, NEW t \in Threads, NEW l, Goto(t, l),
           UNCHANGED <<lease, life, releases, signals>>,
           ret' \in [Threads -> Rets], fret' \in [Threads -> Frets],
           \A u \in Threads : u # t => fret'[u] = fret[u],
           NEW F \in SUBSET Flagged, closeState' = closeState \cup F,
           "prepared" \in F => closed,
           collections' = IF claimed' THEN 1 ELSE 0,
           pc[t] \notin {"invoking", "holding"} \cup Hooking \cup Ending \cup Finalizers,
           l \notin {"invoking", "holding", "building", "beforeClose", "closed", "scan", "scanned", "release"},
           l \notin Hooking \cup Ending,
           l = "adopting" => ~closed,
           l = "terminal" => Quiesced,
           l = "finalize" => "terminalComplete" \in closeState /\ fret'[t] # "signalOnly"
    PROVE  IInv'
  <1>0. Types /\ Counts /\ Flow /\ Once /\ Unique /\ \A u \in Threads : Own(u)
    BY ZenonT(40) DEF IInv
  <1>1. DOMAIN pc' = Threads /\ pc'[t] = l /\ \A u \in Threads : u # t => pc'[u] = pc[u]
    BY ZenonT(40), <1>0, GotoEffect
  <1>2. /\ count' = count /\ entryClosed' = entryClosed /\ constructionActive' = constructionActive
        /\ closed' = closed /\ finalizing' = finalizing /\ resourceRefs' = resourceRefs
        /\ resourcesClosed' = resourcesClosed /\ managed' = managed
        /\ releases' = releases /\ signals' = signals
    BY ZenonT(40) DEF lease, life
  <1>3. /\ \A f \in closeState : f \in closeState'
        /\ "hooked" \in closeState' <=> "hooked" \in closeState
        /\ "terminalStarted" \in closeState' <=> "terminalStarted" \in closeState
        /\ "terminalComplete" \in closeState' <=> "terminalComplete" \in closeState
        /\ "prepared" \in closeState' => "prepared" \in closeState \/ closed
    BY ZenonT(40) DEF Flagged
  <1>4. Quiesced => Quiesced'
    BY ZenonT(40), <1>2, <1>3 DEF Quiesced
  <1>5. Types'
    BY ZenonT(40), <1>1 DEF Types
  <1>6. Counts'
    <2>1. \A u \in Threads : pc'[u] = "invoking" <=> pc[u] = "invoking"
      BY ZenonT(40), <1>1
    <2>2. \A u \in Threads : pc'[u] = "holding" <=> pc[u] = "holding"
      BY ZenonT(40), <1>1
    <2> QED
      BY ZenonT(40), <1>0, <1>2, <2>1, <2>2, CountsKept
  <1>7. Flow'
    BY ZenonT(40), <1>0, <1>2, <1>3, <1>4 DEF Flow
  <1>8. Once'
    BY ZenonT(40), <1>0, <1>2 DEF Once
  <1>9. ASSUME NEW u \in Threads, u # t PROVE Own(u)'
    <2>1. Own(u) /\ pc'[u] = pc[u] /\ fret'[u] = fret[u]
      BY ZenonT(40), <1>0, <1>1, <1>9
    <2>2. pc[u] \in Hooking => "terminalComplete" \notin closeState'
      BY ZenonT(40), <1>3, <2>1 DEF Own
    <2>3. pc[u] = "building" => constructionActive'
      BY ZenonT(40), <1>2, <2>1 DEF Own
    <2>4. u = Builder /\ pc[u] = "adopting" => ~closed'
      BY ZenonT(40), <1>2, <2>1 DEF Own
    <2>5. pc[u] \in Ending => ~managed'
      BY ZenonT(40), <1>2, <2>1 DEF Own
    <2>6. pc[u] \in Scanning => finalizing' /\ ~resourcesClosed'
      BY ZenonT(40), <1>2, <2>1 DEF Own
    <2>7. pc[u] = "release" => resourcesClosed' /\ releases' = releases
      BY ZenonT(40), <1>2, <2>1 DEF Own
    <2> QED
      BY ZenonT(40), <1>2, <1>3, <1>4, <2>1, <2>2, <2>3, <2>4, <2>5, <2>6, <2>7, OwnKept
  <1>10. ~TermOwner(t)'
    BY ZenonT(40), <1>1 DEF TermOwner, Finalizers
  <1>11. Own(t)'
    BY ZenonT(40), <1>1, <1>2, <1>3, <1>4, <1>10 DEF Own, Finalizers, Scanning, Hooking, Ending
  <1>12. Unique'
    BY ZenonT(40), <1>0, <1>1, <1>10, UniqueKept DEF Scanning
  <1> QED
    BY ZenonT(40), <1>5, <1>6, <1>7, <1>8, <1>9, <1>11, <1>12 DEF IInv

\* The same step when the close state stays as it is.
LEMMA CalmKeeps ==
    ASSUME IInv, NEW t \in Threads, NEW l, Goto(t, l),
           UNCHANGED <<lease, life, releases, signals>>,
           closeState' = closeState, claimed' = claimed, collections' = collections,
           ret' \in [Threads -> Rets], fret' \in [Threads -> Frets],
           \A u \in Threads : u # t => fret'[u] = fret[u],
           pc[t] \notin {"invoking", "holding"} \cup Hooking \cup Ending \cup Finalizers,
           l \notin {"invoking", "holding", "building", "beforeClose", "closed", "scan", "scanned", "release"},
           l \notin Hooking \cup Ending,
           l = "adopting" => ~closed,
           l = "terminal" => Quiesced,
           l = "finalize" => "terminalComplete" \in closeState /\ fret'[t] # "signalOnly"
    PROVE  IInv'
  <1>1. {} \in SUBSET Flagged /\ closeState' = closeState \cup {}
    BY ZenonT(40)
  <1>2. collections' = IF claimed' THEN 1 ELSE 0
    BY ZenonT(40) DEF IInv, Once
  <1>3. "prepared" \in {} => closed
    BY ZenonT(40)
  <1> QED
    BY ZenonT(40), <1>1, <1>2, <1>3, QuietKeeps

\* What only moves forward.
Forward ==
    /\ entryClosed => entryClosed'
    /\ closed => closed'
    /\ Quiesced => Quiesced'
    /\ \A f \in closeState : f \in closeState'

\* What a step of t must leave to the others.
OthersStay(t) ==
    \A u \in Threads : u # t =>
        /\ pc[u] = "building" => constructionActive'
        /\ u = Builder /\ pc[u] = "adopting" => ~closed'
        /\ TermOwner(u) => signals' = signals
        /\ pc[u] \in Hooking => "terminalComplete" \notin closeState'
        /\ pc[u] \in Ending => ~managed'
        /\ pc[u] \in Scanning => finalizing' /\ ~resourcesClosed'
        /\ pc[u] = "release" => resourcesClosed' /\ releases' = releases

\* A step of one goroutine that changes more: what remains to be shown of it.
LEMMA StepKeeps ==
    ASSUME IInv, NEW t \in Threads, NEW l, Goto(t, l),
           ret' \in [Threads -> Rets], fret' \in [Threads -> Frets],
           \A u \in Threads : u # t => fret'[u] = fret[u],
           Forward, OthersStay(t),
           TermOwner(t)' => TermOwner(t) \/ \A u \in Threads : ~TermOwner(u),
           l \in Scanning => pc[t] \in Scanning \/ \A u \in Threads : pc[u] \notin Scanning,
           l = "release" => \A u \in Threads : pc[u] # "release",
           Counts', Flow', Once', Own(t)'
    PROVE  IInv'
  <1>0. Types /\ Unique /\ \A u \in Threads : Own(u)
    BY ZenonT(40) DEF IInv
  <1>1. DOMAIN pc' = Threads /\ pc'[t] = l /\ \A u \in Threads : u # t => pc'[u] = pc[u]
    BY ZenonT(40), <1>0, GotoEffect
  <1>2. Types'
    BY ZenonT(40), <1>1 DEF Types
  <1>3. ASSUME NEW u \in Threads, u # t PROVE Own(u)'
    <2>1. Own(u) /\ pc'[u] = pc[u] /\ fret'[u] = fret[u]
      BY ZenonT(40), <1>0, <1>1, <1>3
    <2>2. /\ pc[u] = "building" => constructionActive'
          /\ u = Builder /\ pc[u] = "adopting" => ~closed'
          /\ TermOwner(u) => signals' = signals
          /\ pc[u] \in Hooking => "terminalComplete" \notin closeState'
          /\ pc[u] \in Ending => ~managed'
          /\ pc[u] \in Scanning => finalizing' /\ ~resourcesClosed'
          /\ pc[u] = "release" => resourcesClosed' /\ releases' = releases
      BY ZenonT(40), <1>3 DEF OthersStay
    <2> QED
      BY ZenonT(40), <2>1, <2>2, OwnKept DEF Forward
  <1>4. Unique'
    BY ZenonT(40), <1>0, <1>1, UniqueKept
  <1> QED
    BY ZenonT(40), <1>2, <1>3, <1>4 DEF IInv

-----------------------------------------------------------------------------
(* Steps on the goroutine's own control state *)

\* completeLogicalCloseCollection.
LEMMA CompleteKeeps ==
    ASSUME IInv, NEW t \in Threads, CompleteLogicalClose(t)
    PROVE  IInv'
  <1>0. Types /\ Own(t) /\ collections = (IF claimed THEN 1 ELSE 0)
    BY ZenonT(40) DEF IInv, Once
  <1>1. UNCHANGED <<lease, life, releases, signals>>
    BY ZenonT(40) DEF CompleteLogicalClose, history, lease, life
  <1>2. /\ pc[t] \in {"collected"} /\ Goto(t, "managed") /\ ret' = ret /\ fret' = fret
        /\ closeState' = closeState \cup {"completed"} /\ claimed' = claimed /\ collections' = collections
    BY ZenonT(40) DEF CompleteLogicalClose, collection, history
  <1>3. ret' \in [Threads -> Rets] /\ fret' \in [Threads -> Frets]
    BY ZenonT(40), <1>0, <1>2 DEF Types
  <1>4. {"completed"} \in SUBSET Flagged
    BY ZenonT(40) DEF Flagged
  <1>5. pc[t] \notin {"invoking", "holding"} \cup Hooking \cup Ending \cup Finalizers
    BY ZenonT(40), <1>2 DEF Hooking, Ending, Finalizers
  <1>6. "managed" \notin Hooking \cup Ending
    BY ZenonT(40) DEF Hooking, Ending
  <1> QED
    BY ZenonT(40), <1>0, <1>1, <1>2, <1>3, <1>4, <1>5, <1>6, QuietKeeps

\* waitTerminalClose returns.
LEMMA WaitKeeps ==
    ASSUME IInv, NEW t \in Threads, WaitTerminalClose(t)
    PROVE  IInv'
  <1>0. Types /\ Own(t) /\ collections = (IF claimed THEN 1 ELSE 0)
    BY ZenonT(40) DEF IInv, Once
  <1>1. UNCHANGED <<lease, life, releases, signals>>
    BY ZenonT(40) DEF WaitTerminalClose, history, lease, life
  <1>2. /\ pc[t] \in {"idle", "returned"} /\ Goto(t, "waited") /\ ret' = ret /\ fret' = fret
        /\ closeState' = closeState /\ claimed' = claimed /\ collections' = collections
    BY ZenonT(40) DEF WaitTerminalClose, collection, history
  <1>3. ret' \in [Threads -> Rets] /\ fret' \in [Threads -> Frets]
    BY ZenonT(40), <1>0, <1>2 DEF Types
  <1>5. pc[t] \notin {"invoking", "holding"} \cup Hooking \cup Ending \cup Finalizers
    BY ZenonT(40), <1>2 DEF Hooking, Ending, Finalizers
  <1>6. "waited" \notin Hooking \cup Ending
    BY ZenonT(40) DEF Hooking, Ending
  <1> QED
    BY ZenonT(40), <1>0, <1>1, <1>2, <1>3, <1>5, <1>6, CalmKeeps

\* adopt looks at the close bit.
LEMMA AdoptKeeps ==
    ASSUME IInv, Adopt
    PROVE  IInv'
  <1>0. /\ Types /\ collections = (IF claimed THEN 1 ELSE 0) /\ Builder \in Threads
        /\ ~entryClosed => ~closed
    BY ZenonT(40) DEF IInv, Once, Flow, Threads
  <1>1. UNCHANGED <<lease, life, releases, signals>>
    BY ZenonT(40) DEF Adopt, history, lease, life
  <1>2. /\ pc[Builder] = "adopt" /\ ret' = ret /\ fret' = fret
        /\ closeState' = closeState /\ claimed' = claimed /\ collections' = collections
    BY ZenonT(40) DEF Adopt, collection, history
  <1>3. ret' \in [Threads -> Rets] /\ fret' \in [Threads -> Frets]
    BY ZenonT(40), <1>0, <1>2 DEF Types
  <1>4. PICK l \in {"adopting", "rejected"} : Goto(Builder, l) /\ (l = "adopting" => ~closed)
    BY ZenonT(40), <1>0 DEF Adopt
  <1>5. pc[Builder] \notin {"invoking", "holding"} \cup Hooking \cup Ending \cup Finalizers
    BY ZenonT(40), <1>2 DEF Hooking, Ending, Finalizers
  <1>6. l \notin Hooking \cup Ending
    BY ZenonT(40), <1>4 DEF Hooking, Ending
  <1>7. l \notin {"invoking", "holding", "building", "beforeClose", "closed", "scan", "scanned", "release"}
    BY ZenonT(40), <1>4
  <1>8. l # "terminal" /\ l # "finalize"
    BY ZenonT(40), <1>4
  <1> QED
    BY ZenonT(40), <1>0, <1>1, <1>2, <1>3, <1>4, <1>5, <1>6, <1>7, <1>8, CalmKeeps

\* beginClose.
LEMMA BeginCloseKeeps ==
    ASSUME IInv, NEW t \in Threads, BeginClose(t)
    PROVE  IInv'
  <1>0. Types /\ Own(t) /\ collections = (IF claimed THEN 1 ELSE 0)
    BY ZenonT(40) DEF IInv, Once
  <1>1. UNCHANGED <<lease, life, releases, signals>>
    BY ZenonT(40) DEF BeginClose, history, lease, life
  <1>2. /\ pc[t] \in {"idle", "rejected"} /\ ret' = ret /\ fret' = fret
        /\ closeState' = closeState \cup {"started"} /\ claimed' = claimed /\ collections' = collections
    BY ZenonT(40) DEF BeginClose, collection, history
  <1>3. ret' \in [Threads -> Rets] /\ fret' \in [Threads -> Frets]
    BY ZenonT(40), <1>0, <1>2 DEF Types
  <1>4. PICK l \in {"returned", "closing"} : Goto(t, l)
    BY ZenonT(40) DEF BeginClose
  <1>5. pc[t] \notin {"invoking", "holding"} \cup Hooking \cup Ending \cup Finalizers
    BY ZenonT(40), <1>2 DEF Hooking, Ending, Finalizers
  <1>6. l \notin Hooking \cup Ending
    BY ZenonT(40), <1>4 DEF Hooking, Ending
  <1>7. l \notin {"invoking", "holding", "building", "beforeClose", "closed", "scan", "scanned", "release"}
    BY ZenonT(40), <1>4
  <1>8. l # "terminal" /\ l # "finalize" /\ l # "adopting"
    BY ZenonT(40), <1>4
  <1>9. {"started"} \in SUBSET Flagged
    BY ZenonT(40) DEF Flagged
  <1> QED
    BY ZenonT(40), <1>0, <1>1, <1>2, <1>3, <1>4, <1>5, <1>6, <1>7, <1>8, <1>9, QuietKeeps

\* The BeforeClose side is prepared, and the close owner tries to finalize.
LEMMA PrepareKeeps ==
    ASSUME IInv, NEW t \in Threads, Prepare(t)
    PROVE  IInv'
  <1>0. Types /\ closed /\ pc[t] = "closed" /\ collections = (IF claimed THEN 1 ELSE 0)
    BY ZenonT(40) DEF IInv, Once, Own, Prepare
  <1>1. UNCHANGED <<lease, life, releases, signals>>
    BY ZenonT(40) DEF Prepare, history, lease, life
  <1>2. /\ fret' = fret /\ CallTryFinalize(t, "handoff")
        /\ closeState' = closeState \cup {"prepared"} /\ claimed' = claimed /\ collections' = collections
    BY ZenonT(40) DEF Prepare, collection, history
  <1>3. Goto(t, "tryFinalize") /\ ret' \in [Threads -> Rets] /\ fret' \in [Threads -> Frets]
    BY ZenonT(40), <1>0, <1>2, TryEffect DEF Types, Rets
  <1>4. {"prepared"} \in SUBSET Flagged
    BY ZenonT(40) DEF Flagged
  <1>5. pc[t] \notin {"invoking", "holding"} \cup Hooking \cup Ending \cup Finalizers
    BY ZenonT(40), <1>0 DEF Hooking, Ending, Finalizers
  <1>6. "tryFinalize" \notin Hooking \cup Ending
    BY ZenonT(40) DEF Hooking, Ending
  <1> QED
    BY ZenonT(40), <1>0, <1>1, <1>2, <1>3, <1>4, <1>5, <1>6, QuietKeeps

\* finishLogicalCloseCollectionHandoff: the collection is claimed, or the result
\* published.
LEMMA FinishKeeps ==
    ASSUME IInv, NEW t \in Threads, FinishLogicalClose(t)
    PROVE  IInv'
  <1>0. Types /\ pc[t] = "handoff" /\ collections = (IF claimed THEN 1 ELSE 0)
    BY ZenonT(40) DEF IInv, Once, FinishLogicalClose
  <1>1. UNCHANGED <<lease, life, releases, signals>> /\ ret' = ret
    BY ZenonT(40) DEF FinishLogicalClose, lease, life
  <1>2. ret' \in [Threads -> Rets]
    BY ZenonT(40), <1>0, <1>1 DEF Types
  <1>3. pc[t] \notin {"invoking", "holding"} \cup Hooking \cup Ending \cup Finalizers
    BY ZenonT(40), <1>0 DEF Hooking, Ending, Finalizers
  <1>4. CASE (config.collects \/ deferred) /\ "terminalComplete" \in closeState /\ ~claimed
    <2>1. /\ claimed' = TRUE /\ collections' = collections + 1 /\ closeState' = closeState
          /\ CallFinalize(t, "collected")
      BY ZenonT(40), <1>4 DEF FinishLogicalClose
    <2>2. /\ Goto(t, "finalize") /\ fret' \in [Threads -> Frets] /\ fret'[t] = "collected"
          /\ \A u \in Threads : u # t => fret'[u] = fret[u]
      BY ZenonT(40), <1>0, <2>1, FinalizeEffect DEF Frets
    <2>3. collections' = IF claimed' THEN 1 ELSE 0
      BY <1>0, <1>4, <2>1
    <2>4. "finalize" \notin Hooking \cup Ending
      BY ZenonT(40) DEF Hooking, Ending
    <2>5. closeState' = closeState /\ {} \in SUBSET Flagged
      BY ZenonT(40), <2>1
    <2> QED
      BY ZenonT(40), <1>1, <1>2, <1>3, <1>4, <2>2, <2>3, <2>4, <2>5, QuietKeeps
  <1>5. CASE ~((config.collects \/ deferred) /\ "terminalComplete" \in closeState /\ ~claimed)
    <2>1. /\ closeState' = closeState \cup {"completed"} /\ Goto(t, "managed")
          /\ claimed' = claimed /\ fret' = fret /\ collections' = collections
      BY ZenonT(40), <1>5 DEF FinishLogicalClose, collection
    <2>2. fret' \in [Threads -> Frets] /\ {"completed"} \in SUBSET Flagged
      BY ZenonT(40), <1>0, <2>1 DEF Types, Flagged
    <2>3. "managed" \notin Hooking \cup Ending
      BY ZenonT(40) DEF Hooking, Ending
    <2> QED
      BY ZenonT(40), <1>0, <1>1, <1>2, <1>3, <2>1, <2>2, <2>3, QuietKeeps
  <1> QED
    BY ZenonT(40), <1>4, <1>5

\* The second attempt for a managed instance.
LEMMA RetryKeeps ==
    ASSUME IInv, NEW t \in Threads, RetryManaged(t)
    PROVE  IInv'
  <1>0. Types /\ pc[t] = "managed" /\ collections = (IF claimed THEN 1 ELSE 0)
    BY ZenonT(40) DEF IInv, Once, RetryManaged
  <1>1. UNCHANGED <<lease, life, releases, signals>>
    BY ZenonT(40) DEF RetryManaged, history, lease, life
  <1>2. /\ fret' = fret /\ closeState' = closeState /\ claimed' = claimed /\ collections' = collections
    BY ZenonT(40) DEF RetryManaged, collection, history
  <1>3. CallTryFinalize(t, "returned") \/ (Goto(t, "returned") /\ ret' = ret)
    BY ZenonT(40) DEF RetryManaged
  <1>4. PICK l \in {"tryFinalize", "returned"} : Goto(t, l) /\ ret' \in [Threads -> Rets]
    BY ZenonT(40), <1>0, <1>3, TryEffect DEF Types, Rets
  <1>5. pc[t] \notin {"invoking", "holding"} \cup Hooking \cup Ending \cup Finalizers
    BY ZenonT(40), <1>0 DEF Hooking, Ending, Finalizers
  <1>6. l \notin Hooking \cup Ending /\ fret' \in [Threads -> Frets]
    BY ZenonT(40), <1>0, <1>2, <1>4 DEF Hooking, Ending, Types
  <1>7. l \notin {"invoking", "holding", "building", "beforeClose", "closed", "scan", "scanned", "release"}
    BY ZenonT(40), <1>4
  <1>8. l # "terminal" /\ l # "finalize" /\ l # "adopting"
    BY ZenonT(40), <1>4
  <1> QED
    BY ZenonT(40), <1>0, <1>1, <1>2, <1>4, <1>5, <1>6, <1>7, <1>8, CalmKeeps

\* A place to return to is an ordinary one.
LEMMA RetPlace ==
    ASSUME NEW l \in Rets
    PROVE  /\ l \notin Hooking \cup Ending \cup Finalizers
           /\ l \notin {"invoking", "holding", "building", "beforeClose", "closed", "scan", "scanned", "release"}
           /\ l # "terminal" /\ l # "finalize" /\ l # "adopting" /\ l # "signalOnly"
           /\ l \in Frets
  BY ZenonT(40) DEF Rets, Frets, Hooking, Ending, Finalizers

\* The guards of tryFinalize.
LEMMA TryFinalizeKeeps ==
    ASSUME IInv, NEW t \in Threads, TryFinalize(t)
    PROVE  IInv'
  <1>0. /\ Types /\ pc[t] = "tryFinalize" /\ collections = (IF claimed THEN 1 ELSE 0) /\ ret[t] \in Rets
    BY ZenonT(40) DEF IInv, Once, TryFinalize, Types
  <1>1. UNCHANGED <<lease, life, releases, signals>>
    BY ZenonT(40) DEF TryFinalize, history, lease, life
  <1>2. /\ ret' = ret /\ fret' = fret /\ closeState' = closeState
        /\ claimed' = claimed /\ collections' = collections
    BY ZenonT(40) DEF TryFinalize, collection, history
  <1>3. ret' \in [Threads -> Rets] /\ fret' \in [Threads -> Frets]
    BY ZenonT(40), <1>0, <1>2 DEF Types
  <1>4. pc[t] \notin {"invoking", "holding"} \cup Hooking \cup Ending \cup Finalizers
    BY ZenonT(40), <1>0 DEF Hooking, Ending, Finalizers
  <1>5. CASE Finalizable
    <2>1. Goto(t, "terminal") /\ Quiesced
      BY ZenonT(40), <1>5 DEF TryFinalize, Finalizable, Quiesced
    <2>2. "terminal" \notin Hooking \cup Ending
      BY ZenonT(40) DEF Hooking, Ending
    <2> QED
      BY ZenonT(40), <1>0, <1>1, <1>2, <1>3, <1>4, <2>1, <2>2, CalmKeeps
  <1>6. CASE ~Finalizable
    <2>1. Goto(t, ret[t])
      BY ZenonT(40), <1>6 DEF TryFinalize
    <2> QED
      BY ZenonT(40), <1>0, <1>1, <1>2, <1>3, <1>4, <2>1, RetPlace, CalmKeeps
  <1> QED
    BY ZenonT(40), <1>5, <1>6

\* A second caller at the terminal phase leaves, or finalizes when it is over.
LEMMA LateTerminalKeeps ==
    ASSUME IInv, NEW t \in Threads, StartTerminal(t), "terminalStarted" \in closeState
    PROVE  IInv'
  <1>0. Types /\ pc[t] = "terminal" /\ collections = (IF claimed THEN 1 ELSE 0) /\ ret[t] \in Rets
    BY ZenonT(40) DEF IInv, Once, StartTerminal, Types
  <1>1. UNCHANGED <<lease, life, releases, signals>>
    BY ZenonT(40) DEF StartTerminal, history, lease, life
  <1>2. ret' = ret /\ closeState' = closeState /\ claimed' = claimed /\ collections' = collections
    BY ZenonT(40) DEF StartTerminal, collection, history
  <1>3. ret' \in [Threads -> Rets]
    BY ZenonT(40), <1>0, <1>2 DEF Types
  <1>4. pc[t] \notin {"invoking", "holding"} \cup Hooking \cup Ending \cup Finalizers
    BY ZenonT(40), <1>0 DEF Hooking, Ending, Finalizers
  <1>5. CASE "terminalComplete" \notin closeState
    <2>1. Goto(t, ret[t]) /\ fret' = fret
      BY ZenonT(40), <1>5 DEF StartTerminal
    <2>2. fret' \in [Threads -> Frets]
      BY ZenonT(40), <1>0, <2>1 DEF Types
    <2> QED
      BY ZenonT(40), <1>0, <1>1, <1>2, <1>3, <1>4, <2>1, <2>2, RetPlace, CalmKeeps
  <1>6. CASE "terminalComplete" \in closeState
    <2>1. CallFinalize(t, ret[t])
      BY ZenonT(40), <1>6 DEF StartTerminal
    <2>2. /\ Goto(t, "finalize") /\ fret' \in [Threads -> Frets] /\ fret'[t] = ret[t]
          /\ \A u \in Threads : u # t => fret'[u] = fret[u]
      BY ZenonT(40), <1>0, <2>1, RetPlace, FinalizeEffect
    <2>3. "finalize" \notin Hooking \cup Ending /\ fret'[t] # "signalOnly"
      BY ZenonT(40), <1>0, <2>2, RetPlace DEF Hooking, Ending
    <2> QED
      BY ZenonT(40), <1>0, <1>1, <1>2, <1>3, <1>4, <1>6, <2>2, <2>3, CalmKeeps
  <1> QED
    BY ZenonT(40), <1>5, <1>6

-----------------------------------------------------------------------------
(* Leases, construction and roots *)

\* An invocation is admitted.
LEMMA BeginInvocationKeeps ==
    ASSUME IInv, NEW t \in Threads, BeginInstanceInvocation(t)
    PROVE  IInv'
  <1>0. /\ Types /\ Counts /\ Flow /\ Once /\ Unique
        /\ \A u \in Threads : Own(u)
        /\ t \in Threads
        /\ t \in Invokers /\ pc[t] = "idle" /\ ~entryClosed
    BY ZenonT(40) DEF IInv, BeginInstanceInvocation, Threads, LifeMuFree
  <1>1. /\ entryClosed' = entryClosed /\ constructionActive' = constructionActive
        /\ closed' = closed /\ finalizing' = finalizing /\ resourceRefs' = resourceRefs
        /\ resourcesClosed' = resourcesClosed /\ managed' = managed
        /\ closeState' = closeState /\ releases' = releases /\ signals' = signals
    BY ZenonT(40) DEF BeginInstanceInvocation, lease, life, collection, history
  <1>2. Goto(t, "invoking") /\ ret' = ret /\ fret' = fret
    BY ZenonT(40) DEF BeginInstanceInvocation
  <1>3. ret' \in [Threads -> Rets] /\ fret' \in [Threads -> Frets]
    BY ZenonT(40), <1>0, <1>2 DEF Types
  <1>4. DOMAIN pc' = Threads /\ pc'[t] = "invoking" /\ \A u \in Threads : u # t => pc'[u] = pc[u]
    BY ZenonT(40), <1>0, <1>2, GotoEffect
  <1>owner. ~TermOwner(t)'
    BY ZenonT(40), <1>4 DEF TermOwner, Hooking, Ending, Finalizers
  <1>counts. Counts'
    <2>1. Invoking' = Invoking \cup {t}
      <3>1. \A u : u \in Invoking' <=> u \in Invoking \cup {t}
        BY ZenonT(40), <1>0, <1>4 DEF Invoking, Threads
      <3> QED
        BY ZenonT(40), <3>1
    <2>2. t \notin Invoking
      BY ZenonT(40), <1>0 DEF Invoking
    <2>3. Cardinality(Invoking') = Cardinality(Invoking) + 1
      BY ZenonT(40), <2>1, <2>2, Finite, FS_AddElement
    <2>4. Holding' = Holding
      <3>1. \A u : u \in Holding' <=> u \in Holding
        BY ZenonT(40), <1>0, <1>4 DEF Holding, Threads
      <3> QED
        BY ZenonT(40), <3>1
    <2>5. count' = count + 1
      BY ZenonT(40) DEF BeginInstanceInvocation
    <2> QED
      BY ZenonT(40), <1>0, <1>1, <2>3, <2>4, <2>5 DEF Counts
  <1>forward. Forward
    BY ZenonT(40), <1>0, <1>1 DEF Forward, Quiesced
  <1>flow. Flow'
    BY ZenonT(40), <1>0, <1>1 DEF Flow, Quiesced
  <1>once. Once'
    <2>1. claimed' = claimed /\ collections' = collections
      BY ZenonT(40) DEF BeginInstanceInvocation, collection, history
    <2> QED
      BY ZenonT(40), <1>0, <1>1, <2>1 DEF Once
  <1>others. OthersStay(t)
    BY ZenonT(40), <1>0, <1>1 DEF OthersStay, Own
  <1>own. Own(t)'
    BY ZenonT(40), <1>0, <1>4, <1>owner DEF Own, Hooking, Ending, Finalizers, Scanning
  <1>term. TermOwner(t)' => TermOwner(t) \/ \A u \in Threads : ~TermOwner(u)
    BY ZenonT(40), <1>owner
  <1>scan. pc'[t] \in Scanning => pc[t] \in Scanning \/ \A u \in Threads : pc[u] \notin Scanning
    BY ZenonT(40), <1>4 DEF Scanning
  <1>release. pc'[t] = "release" => \A u \in Threads : pc[u] # "release"
    BY ZenonT(40), <1>4 DEF Scanning
  <1> QED
    BY ZenonT(40), <1>0, <1>2, <1>3, <1>4, <1>counts, <1>forward, <1>flow, <1>once, <1>others,
       <1>own, <1>term, <1>scan, <1>release, StepKeeps

\* An invocation ends; the last one of a closed instance tries to finalize.
LEMMA EndInvocationKeeps ==
    ASSUME IInv, NEW t \in Threads, EndInvocation(t)
    PROVE  IInv'
  <1>0. /\ Types /\ Counts /\ Flow /\ Once /\ Unique
        /\ \A u \in Threads : Own(u)
        /\ t \in Threads
        /\ pc[t] = "invoking"
    BY ZenonT(40) DEF IInv, EndInvocation, Threads, LifeMuFree
  <1>1. /\ entryClosed' = entryClosed /\ constructionActive' = constructionActive
        /\ closed' = closed /\ finalizing' = finalizing /\ resourceRefs' = resourceRefs
        /\ resourcesClosed' = resourcesClosed /\ managed' = managed
        /\ closeState' = closeState /\ releases' = releases /\ signals' = signals
    BY ZenonT(40) DEF EndInvocation, lease, life, collection, history
  <1>inside. t \in Invoking /\ count # 0
    <2>1. t \in Invoking
      BY ZenonT(40), <1>0 DEF Own, Invoking
    <2> QED
      BY ZenonT(40), <1>0, <2>1, Zero
  <1>2. fret' = fret /\ (CallTryFinalize(t, "idle") \/ (Goto(t, "idle") /\ ret' = ret))
    BY ZenonT(40) DEF EndInvocation
  <1>place. PICK l \in {"tryFinalize", "idle"} : Goto(t, l) /\ ret' \in [Threads -> Rets]
    BY ZenonT(40), <1>0, <1>2, TryEffect DEF Types, Rets
  <1>3. fret' \in [Threads -> Frets]
    BY ZenonT(40), <1>0, <1>2 DEF Types
  <1>4. DOMAIN pc' = Threads /\ pc'[t] = l /\ \A u \in Threads : u # t => pc'[u] = pc[u]
    BY ZenonT(40), <1>0, <1>place, GotoEffect
  <1>owner. ~TermOwner(t)'
    BY ZenonT(40), <1>4, <1>place DEF TermOwner, Hooking, Ending, Finalizers
  <1>counts. Counts'
    <2>1. Invoking' = Invoking \ {t}
      <3>1. \A u : u \in Invoking' <=> u \in Invoking \ {t}
        BY ZenonT(40), <1>0, <1>4, <1>place DEF Invoking, Threads
      <3> QED
        BY ZenonT(40), <3>1
    <2>2. Cardinality(Invoking') = Cardinality(Invoking) - 1
      BY ZenonT(40), <1>inside, <2>1, Finite, FS_RemoveElement
    <2>3. Holding' = Holding
      <3>1. \A u : u \in Holding' <=> u \in Holding
        BY ZenonT(40), <1>0, <1>4, <1>place DEF Holding, Threads
      <3> QED
        BY ZenonT(40), <3>1
    <2>4. count' = count - 1
      BY ZenonT(40) DEF EndInvocation
    <2> QED
      BY ZenonT(40), <1>0, <1>1, <2>2, <2>3, <2>4 DEF Counts
  <1>forward. Forward
    BY ZenonT(40), <1>0, <1>1, <1>inside DEF Forward, Quiesced
  <1>flow. Flow'
    BY ZenonT(40), <1>0, <1>1, <1>inside DEF Flow, Quiesced
  <1>once. Once'
    <2>1. claimed' = claimed /\ collections' = collections
      BY ZenonT(40) DEF EndInvocation, collection, history
    <2> QED
      BY ZenonT(40), <1>0, <1>1, <2>1 DEF Once
  <1>others. OthersStay(t)
    BY ZenonT(40), <1>0, <1>1 DEF OthersStay, Own
  <1>own. Own(t)'
    BY ZenonT(40), <1>4, <1>place, <1>owner DEF Own, Hooking, Ending, Finalizers, Scanning
  <1>term. TermOwner(t)' => TermOwner(t) \/ \A u \in Threads : ~TermOwner(u)
    BY ZenonT(40), <1>owner
  <1>scan. pc'[t] \in Scanning => pc[t] \in Scanning \/ \A u \in Threads : pc[u] \notin Scanning
    BY ZenonT(40), <1>4, <1>place DEF Scanning
  <1>release. pc'[t] = "release" => \A u \in Threads : pc[u] # "release"
    BY ZenonT(40), <1>4, <1>place
  <1> QED
    BY ZenonT(40), <1>0, <1>2, <1>place, <1>3, <1>4, <1>counts, <1>forward, <1>flow, <1>once,
       <1>others, <1>own, <1>term, <1>scan, <1>release, StepKeeps

\* Construction ends.
LEMMA EndConstructionKeeps ==
    ASSUME IInv, EndConstruction
    PROVE  IInv'
  <1>0. /\ Types /\ Counts /\ Flow /\ Once /\ Unique
        /\ \A u \in Threads : Own(u)
        /\ Builder \in Threads
        /\ pc[Builder] = "building"
    BY ZenonT(40) DEF IInv, EndConstruction, Threads, LifeMuFree
  <1>1. /\ count' = count /\ entryClosed' = entryClosed /\ closed' = closed
        /\ finalizing' = finalizing /\ resourceRefs' = resourceRefs
        /\ resourcesClosed' = resourcesClosed /\ managed' = managed
        /\ closeState' = closeState /\ releases' = releases /\ signals' = signals
    BY ZenonT(40) DEF EndConstruction, lease, life, collection, history
  <1>2. /\ fret' = fret /\ ~constructionActive'
        /\ \E l \in {"adopt", "built"} : CallTryFinalize(Builder, l)
    BY ZenonT(40) DEF EndConstruction
  <1>3. Goto(Builder, "tryFinalize") /\ ret' \in [Threads -> Rets] /\ fret' \in [Threads -> Frets]
    BY ZenonT(40), <1>0, <1>2, TryEffect DEF Types, Rets
  <1>4. DOMAIN pc' = Threads /\ pc'[Builder] = "tryFinalize" /\ \A u \in Threads : u # Builder => pc'[u] = pc[u]
    BY ZenonT(40), <1>0, <1>3, GotoEffect
  <1>owner. ~TermOwner(Builder)'
    BY ZenonT(40), <1>4 DEF TermOwner, Hooking, Ending, Finalizers
  <1>counts. Counts'
    <2>1. \A u \in Threads : pc'[u] = "invoking" <=> pc[u] = "invoking"
      BY ZenonT(40), <1>0, <1>4
    <2>2. \A u \in Threads : pc'[u] = "holding" <=> pc[u] = "holding"
      BY ZenonT(40), <1>0, <1>4
    <2> QED
      BY ZenonT(40), <1>0, <1>1, <2>1, <2>2, CountsKept
  <1>forward. Forward
    BY ZenonT(40), <1>0, <1>1, <1>2 DEF Forward, Quiesced
  <1>flow. Flow'
    BY ZenonT(40), <1>0, <1>1, <1>2 DEF Flow, Quiesced
  <1>once. Once'
    <2>1. claimed' = claimed /\ collections' = collections
      BY ZenonT(40) DEF EndConstruction, collection, history
    <2> QED
      BY ZenonT(40), <1>0, <1>1, <2>1 DEF Once
  <1>others. OthersStay(Builder)
    BY ZenonT(40), <1>0, <1>1 DEF OthersStay, Own
  <1>own. Own(Builder)'
    BY ZenonT(40), <1>4, <1>owner DEF Own, Hooking, Ending, Finalizers, Scanning
  <1>term. TermOwner(Builder)' => TermOwner(Builder) \/ \A u \in Threads : ~TermOwner(u)
    BY ZenonT(40), <1>owner
  <1>scan. pc'[Builder] \in Scanning => pc[Builder] \in Scanning \/ \A u \in Threads : pc[u] \notin Scanning
    BY ZenonT(40), <1>4 DEF Scanning
  <1>release. pc'[Builder] = "release" => \A u \in Threads : pc[u] # "release"
    BY ZenonT(40), <1>4 DEF Scanning
  <1> QED
    BY ZenonT(40), <1>0, <1>2, <1>3, <1>4, <1>counts, <1>forward, <1>flow, <1>once, <1>others,
       <1>own, <1>term, <1>scan, <1>release, StepKeeps

\* The manager records the instance, under lifeMu.
LEMMA AdoptCommitKeeps ==
    ASSUME IInv, AdoptCommit
    PROVE  IInv'
  <1>0. /\ Types /\ Counts /\ Flow /\ Once /\ Unique
        /\ \A u \in Threads : Own(u)
        /\ Builder \in Threads
        /\ pc[Builder] = "adopting"
    BY ZenonT(40) DEF IInv, AdoptCommit, Threads, LifeMuFree
  <1>1. /\ count' = count /\ entryClosed' = entryClosed
        /\ constructionActive' = constructionActive /\ closed' = closed
        /\ finalizing' = finalizing /\ resourceRefs' = resourceRefs
        /\ resourcesClosed' = resourcesClosed /\ closeState' = closeState
        /\ releases' = releases /\ signals' = signals
    BY ZenonT(40) DEF AdoptCommit, lease, life, collection, history
  <1>early. ~closed /\ "terminalStarted" \notin closeState
    BY ZenonT(40), <1>0 DEF Own, Flow, Quiesced
  <1>2. Goto(Builder, "built") /\ ret' = ret /\ fret' = fret
    BY ZenonT(40) DEF AdoptCommit
  <1>3. ret' \in [Threads -> Rets] /\ fret' \in [Threads -> Frets]
    BY ZenonT(40), <1>0, <1>2 DEF Types
  <1>4. DOMAIN pc' = Threads /\ pc'[Builder] = "built" /\ \A u \in Threads : u # Builder => pc'[u] = pc[u]
    BY ZenonT(40), <1>0, <1>2, GotoEffect
  <1>owner. ~TermOwner(Builder)'
    BY ZenonT(40), <1>4 DEF TermOwner, Hooking, Ending, Finalizers
  <1>counts. Counts'
    <2>1. \A u \in Threads : pc'[u] = "invoking" <=> pc[u] = "invoking"
      BY ZenonT(40), <1>0, <1>4
    <2>2. \A u \in Threads : pc'[u] = "holding" <=> pc[u] = "holding"
      BY ZenonT(40), <1>0, <1>4
    <2> QED
      BY ZenonT(40), <1>0, <1>1, <2>1, <2>2, CountsKept
  <1>forward. Forward
    BY ZenonT(40), <1>0, <1>1 DEF Forward, Quiesced
  <1>flow. Flow'
    BY ZenonT(40), <1>0, <1>1, <1>early DEF Flow, Quiesced
  <1>once. Once'
    <2>1. claimed' = claimed /\ collections' = collections
      BY ZenonT(40) DEF AdoptCommit, collection, history
    <2> QED
      BY ZenonT(40), <1>0, <1>1, <2>1 DEF Once
  <1>nobody. \A u \in Threads : pc[u] \notin Ending
    BY ZenonT(40), <1>0, <1>early DEF Own, TermOwner
  <1>others. OthersStay(Builder)
    BY ZenonT(40), <1>0, <1>1, <1>nobody DEF OthersStay, Own
  <1>own. Own(Builder)'
    BY ZenonT(40), <1>4, <1>owner DEF Own, Hooking, Ending, Finalizers, Scanning
  <1>term. TermOwner(Builder)' => TermOwner(Builder) \/ \A u \in Threads : ~TermOwner(u)
    BY ZenonT(40), <1>owner
  <1>scan. pc'[Builder] \in Scanning => pc[Builder] \in Scanning \/ \A u \in Threads : pc[u] \notin Scanning
    BY ZenonT(40), <1>4 DEF Scanning
  <1>release. pc'[Builder] = "release" => \A u \in Threads : pc[u] # "release"
    BY ZenonT(40), <1>4 DEF Scanning
  <1> QED
    BY ZenonT(40), <1>0, <1>2, <1>3, <1>4, <1>counts, <1>forward, <1>flow, <1>once, <1>others,
       <1>own, <1>term, <1>scan, <1>release, StepKeeps

\* A root is taken.
LEMMA RetainKeeps ==
    ASSUME IInv, NEW t \in Threads, NEW m, RetainResourceRootMode(t, m)
    PROVE  IInv'
  <1>0. /\ Types /\ Counts /\ Flow /\ Once /\ Unique
        /\ \A u \in Threads : Own(u)
        /\ t \in Threads
        /\ t \in Holders /\ pc[t] = "idle" /\ ~resourcesClosed
    BY ZenonT(40) DEF IInv, RetainResourceRootMode, Threads, LifeMuFree
  <1>1. /\ count' = count /\ entryClosed' = entryClosed
        /\ constructionActive' = constructionActive /\ closed' = closed
        /\ finalizing' = finalizing /\ resourcesClosed' = resourcesClosed
        /\ managed' = managed /\ closeState' = closeState /\ releases' = releases
        /\ signals' = signals
    BY ZenonT(40) DEF RetainResourceRootMode, lease, life, collection, history
  <1>2. Goto(t, "holding") /\ ret' = ret /\ fret' = fret
    BY ZenonT(40) DEF RetainResourceRootMode
  <1>3. ret' \in [Threads -> Rets] /\ fret' \in [Threads -> Frets]
    BY ZenonT(40), <1>0, <1>2 DEF Types
  <1>4. DOMAIN pc' = Threads /\ pc'[t] = "holding" /\ \A u \in Threads : u # t => pc'[u] = pc[u]
    BY ZenonT(40), <1>0, <1>2, GotoEffect
  <1>owner. ~TermOwner(t)'
    BY ZenonT(40), <1>4 DEF TermOwner, Hooking, Ending, Finalizers
  <1>counts. Counts'
    <2>1. Holding' = Holding \cup {t}
      <3>1. \A u : u \in Holding' <=> u \in Holding \cup {t}
        BY ZenonT(40), <1>0, <1>4 DEF Holding, Threads
      <3> QED
        BY ZenonT(40), <3>1
    <2>2. t \notin Holding
      BY ZenonT(40), <1>0 DEF Holding
    <2>3. Cardinality(Holding') = Cardinality(Holding) + 1
      BY ZenonT(40), <2>1, <2>2, Finite, FS_AddElement
    <2>4. Invoking' = Invoking
      <3>1. \A u : u \in Invoking' <=> u \in Invoking
        BY ZenonT(40), <1>0, <1>4 DEF Invoking, Threads
      <3> QED
        BY ZenonT(40), <3>1
    <2>5. resourceRefs' = resourceRefs + 1
      BY ZenonT(40) DEF RetainResourceRootMode
    <2> QED
      BY ZenonT(40), <1>0, <1>1, <2>3, <2>4, <2>5 DEF Counts
  <1>forward. Forward
    BY ZenonT(40), <1>0, <1>1 DEF Forward, Quiesced
  <1>flow. Flow'
    BY ZenonT(40), <1>0, <1>1 DEF Flow, Quiesced
  <1>once. Once'
    <2>1. claimed' = claimed /\ collections' = collections
      BY ZenonT(40) DEF RetainResourceRootMode, collection, history
    <2> QED
      BY ZenonT(40), <1>0, <1>1, <2>1 DEF Once
  <1>others. OthersStay(t)
    BY ZenonT(40), <1>0, <1>1 DEF OthersStay, Own
  <1>own. Own(t)'
    BY ZenonT(40), <1>0, <1>4, <1>owner DEF Own, Hooking, Ending, Finalizers, Scanning
  <1>term. TermOwner(t)' => TermOwner(t) \/ \A u \in Threads : ~TermOwner(u)
    BY ZenonT(40), <1>owner
  <1>scan. pc'[t] \in Scanning => pc[t] \in Scanning \/ \A u \in Threads : pc[u] \notin Scanning
    BY ZenonT(40), <1>4 DEF Scanning
  <1>release. pc'[t] = "release" => \A u \in Threads : pc[u] # "release"
    BY ZenonT(40), <1>4 DEF Scanning
  <1> QED
    BY ZenonT(40), <1>0, <1>2, <1>3, <1>4, <1>counts, <1>forward, <1>flow, <1>once, <1>others,
       <1>own, <1>term, <1>scan, <1>release, StepKeeps

\* A root is given back.
LEMMA ReleaseRootKeeps ==
    ASSUME IInv, NEW t \in Threads, ReleaseResourceRoot(t)
    PROVE  IInv'
  <1>0. /\ Types /\ Counts /\ Flow /\ Once /\ Unique
        /\ \A u \in Threads : Own(u)
        /\ t \in Threads
        /\ pc[t] = "holding"
    BY ZenonT(40) DEF IInv, ReleaseResourceRoot, Threads, LifeMuFree
  <1>1. /\ count' = count /\ entryClosed' = entryClosed
        /\ constructionActive' = constructionActive /\ closed' = closed
        /\ finalizing' = finalizing /\ resourcesClosed' = resourcesClosed
        /\ managed' = managed /\ closeState' = closeState /\ releases' = releases
        /\ signals' = signals
    BY ZenonT(40) DEF ReleaseResourceRoot, lease, life, collection, history
  <1>inside. t \in Holding /\ resourceRefs # 0
    <2>1. t \in Holding
      BY ZenonT(40), <1>0 DEF Own, Holding
    <2> QED
      BY ZenonT(40), <1>0, <2>1, Zero
  <1>2. fret' = fret /\ (CallTryFinalize(t, "spent") \/ (Goto(t, "idle") /\ ret' = ret))
    BY ZenonT(40) DEF ReleaseResourceRoot
  <1>place. PICK l \in {"tryFinalize", "idle"} : Goto(t, l) /\ ret' \in [Threads -> Rets]
    BY ZenonT(40), <1>0, <1>2, TryEffect DEF Types, Rets
  <1>3. fret' \in [Threads -> Frets]
    BY ZenonT(40), <1>0, <1>2 DEF Types
  <1>4. DOMAIN pc' = Threads /\ pc'[t] = l /\ \A u \in Threads : u # t => pc'[u] = pc[u]
    BY ZenonT(40), <1>0, <1>place, GotoEffect
  <1>owner. ~TermOwner(t)'
    BY ZenonT(40), <1>4, <1>place DEF TermOwner, Hooking, Ending, Finalizers
  <1>counts. Counts'
    <2>1. Holding' = Holding \ {t}
      <3>1. \A u : u \in Holding' <=> u \in Holding \ {t}
        BY ZenonT(40), <1>0, <1>4, <1>place DEF Holding, Threads
      <3> QED
        BY ZenonT(40), <3>1
    <2>2. Cardinality(Holding') = Cardinality(Holding) - 1
      BY ZenonT(40), <1>inside, <2>1, Finite, FS_RemoveElement
    <2>3. Invoking' = Invoking
      <3>1. \A u : u \in Invoking' <=> u \in Invoking
        BY ZenonT(40), <1>0, <1>4, <1>place DEF Invoking, Threads
      <3> QED
        BY ZenonT(40), <3>1
    <2>4. resourceRefs' = resourceRefs - 1
      BY ZenonT(40) DEF ReleaseResourceRoot
    <2> QED
      BY ZenonT(40), <1>0, <1>1, <2>2, <2>3, <2>4 DEF Counts
  <1>forward. Forward
    BY ZenonT(40), <1>0, <1>1 DEF Forward, Quiesced
  <1>flow. Flow'
    BY ZenonT(40), <1>0, <1>1, <1>inside DEF Flow, Quiesced
  <1>once. Once'
    <2>1. claimed' = claimed /\ collections' = collections
      BY ZenonT(40) DEF ReleaseResourceRoot, collection, history
    <2> QED
      BY ZenonT(40), <1>0, <1>1, <2>1 DEF Once
  <1>others. OthersStay(t)
    BY ZenonT(40), <1>0, <1>1 DEF OthersStay, Own
  <1>own. Own(t)'
    BY ZenonT(40), <1>4, <1>place, <1>owner DEF Own, Hooking, Ending, Finalizers, Scanning
  <1>term. TermOwner(t)' => TermOwner(t) \/ \A u \in Threads : ~TermOwner(u)
    BY ZenonT(40), <1>owner
  <1>scan. pc'[t] \in Scanning => pc[t] \in Scanning \/ \A u \in Threads : pc[u] \notin Scanning
    BY ZenonT(40), <1>4, <1>place DEF Scanning
  <1>release. pc'[t] = "release" => \A u \in Threads : pc[u] # "release"
    BY ZenonT(40), <1>4, <1>place
  <1> QED
    BY ZenonT(40), <1>0, <1>2, <1>place, <1>3, <1>4, <1>counts, <1>forward, <1>flow, <1>once,
       <1>others, <1>own, <1>term, <1>scan, <1>release, StepKeeps

-----------------------------------------------------------------------------
(* The logical close *)

\* The close bit is set.
LEMMA CloseEntryKeeps ==
    ASSUME IInv, NEW t \in Threads, CloseInvocationEntry(t)
    PROVE  IInv'
  <1>0. /\ Types /\ Counts /\ Flow /\ Once /\ Unique
        /\ \A u \in Threads : Own(u)
        /\ t \in Threads
        /\ pc[t] = "closing"
    BY ZenonT(40) DEF IInv, CloseInvocationEntry, Threads, LifeMuFree
  <1>1. /\ count' = count /\ constructionActive' = constructionActive
        /\ closed' = closed /\ finalizing' = finalizing /\ resourceRefs' = resourceRefs
        /\ resourcesClosed' = resourcesClosed /\ managed' = managed
        /\ closeState' = closeState /\ releases' = releases /\ signals' = signals
    BY ZenonT(40) DEF CloseInvocationEntry, lease, life, collection, history
  <1>2. Goto(t, "beforeClose") /\ ret' = ret /\ fret' = fret
    BY ZenonT(40) DEF CloseInvocationEntry
  <1>3. ret' \in [Threads -> Rets] /\ fret' \in [Threads -> Frets]
    BY ZenonT(40), <1>0, <1>2 DEF Types
  <1>4. DOMAIN pc' = Threads /\ pc'[t] = "beforeClose" /\ \A u \in Threads : u # t => pc'[u] = pc[u]
    BY ZenonT(40), <1>0, <1>2, GotoEffect
  <1>owner. ~TermOwner(t)'
    BY ZenonT(40), <1>4 DEF TermOwner, Hooking, Ending, Finalizers
  <1>effect. entryClosed' = TRUE
    BY ZenonT(40) DEF CloseInvocationEntry
  <1>counts. Counts'
    <2>1. \A u \in Threads : pc'[u] = "invoking" <=> pc[u] = "invoking"
      BY ZenonT(40), <1>0, <1>4
    <2>2. \A u \in Threads : pc'[u] = "holding" <=> pc[u] = "holding"
      BY ZenonT(40), <1>0, <1>4
    <2> QED
      BY ZenonT(40), <1>0, <1>1, <2>1, <2>2, CountsKept
  <1>forward. Forward
    BY ZenonT(40), <1>0, <1>1, <1>effect DEF Forward, Quiesced
  <1>flow. Flow'
    BY ZenonT(40), <1>0, <1>1, <1>effect DEF Flow, Quiesced
  <1>once. Once'
    <2>1. claimed' = claimed /\ collections' = collections
      BY ZenonT(40) DEF CloseInvocationEntry, collection, history
    <2> QED
      BY ZenonT(40), <1>0, <1>1, <2>1 DEF Once
  <1>others. OthersStay(t)
    BY ZenonT(40), <1>0, <1>1 DEF OthersStay, Own
  <1>own. Own(t)'
    BY ZenonT(40), <1>4, <1>effect, <1>owner DEF Own, Hooking, Ending, Finalizers, Scanning
  <1>term. TermOwner(t)' => TermOwner(t) \/ \A u \in Threads : ~TermOwner(u)
    BY ZenonT(40), <1>owner
  <1>scan. pc'[t] \in Scanning => pc[t] \in Scanning \/ \A u \in Threads : pc[u] \notin Scanning
    BY ZenonT(40), <1>4 DEF Scanning
  <1>release. pc'[t] = "release" => \A u \in Threads : pc[u] # "release"
    BY ZenonT(40), <1>4 DEF Scanning
  <1> QED
    BY ZenonT(40), <1>0, <1>2, <1>3, <1>4, <1>counts, <1>forward, <1>flow, <1>once, <1>others,
       <1>own, <1>term, <1>scan, <1>release, StepKeeps

\* The BeforeClose hooks have returned.
LEMMA BeforeCloseKeeps ==
    ASSUME IInv, NEW t \in Threads, BeforeClose(t)
    PROVE  IInv'
  <1>0. /\ Types /\ Counts /\ Flow /\ Once /\ Unique
        /\ \A u \in Threads : Own(u)
        /\ t \in Threads
        /\ pc[t] = "beforeClose" /\ pc[Builder] # "adopting"
    BY ZenonT(40) DEF IInv, BeforeClose, Threads, LifeMuFree
  <1>1. /\ count' = count /\ entryClosed' = entryClosed
        /\ constructionActive' = constructionActive /\ finalizing' = finalizing
        /\ resourceRefs' = resourceRefs /\ resourcesClosed' = resourcesClosed
        /\ managed' = managed /\ releases' = releases /\ signals' = signals
    BY ZenonT(40) DEF BeforeClose, lease, life, collection, history
  <1>2. Goto(t, "closed") /\ ret' = ret /\ fret' = fret
    BY ZenonT(40) DEF BeforeClose
  <1>3. ret' \in [Threads -> Rets] /\ fret' \in [Threads -> Frets]
    BY ZenonT(40), <1>0, <1>2 DEF Types
  <1>4. DOMAIN pc' = Threads /\ pc'[t] = "closed" /\ \A u \in Threads : u # t => pc'[u] = pc[u]
    BY ZenonT(40), <1>0, <1>2, GotoEffect
  <1>owner. ~TermOwner(t)'
    BY ZenonT(40), <1>4 DEF TermOwner, Hooking, Ending, Finalizers
  <1>effect. entryClosed /\ closed' = TRUE /\ closeState' = closeState \cup {"hooked"}
    BY ZenonT(40), <1>0 DEF BeforeClose, Own
  <1>flags. /\ \A f \in closeState : f \in closeState'
            /\ "prepared" \in closeState' <=> "prepared" \in closeState
            /\ "terminalStarted" \in closeState' <=> "terminalStarted" \in closeState
            /\ "terminalComplete" \in closeState' <=> "terminalComplete" \in closeState
            /\ "hooked" \in closeState'
    BY ZenonT(40), <1>effect
  <1>counts. Counts'
    <2>1. \A u \in Threads : pc'[u] = "invoking" <=> pc[u] = "invoking"
      BY ZenonT(40), <1>0, <1>4
    <2>2. \A u \in Threads : pc'[u] = "holding" <=> pc[u] = "holding"
      BY ZenonT(40), <1>0, <1>4
    <2> QED
      BY ZenonT(40), <1>0, <1>1, <2>1, <2>2, CountsKept
  <1>forward. Forward
    BY ZenonT(40), <1>0, <1>1, <1>effect, <1>flags DEF Forward, Quiesced
  <1>flow. Flow'
    BY ZenonT(40), <1>0, <1>1, <1>effect, <1>flags DEF Flow, Quiesced
  <1>once. Once'
    <2>1. claimed' = claimed /\ collections' = collections
      BY ZenonT(40) DEF BeforeClose, collection, history
    <2> QED
      BY ZenonT(40), <1>0, <1>1, <2>1 DEF Once
  <1>others. OthersStay(t)
    BY ZenonT(40), <1>0, <1>1, <1>flags DEF OthersStay, Own
  <1>own. Own(t)'
    BY ZenonT(40), <1>4, <1>effect, <1>owner DEF Own, Hooking, Ending, Finalizers, Scanning
  <1>term. TermOwner(t)' => TermOwner(t) \/ \A u \in Threads : ~TermOwner(u)
    BY ZenonT(40), <1>owner
  <1>scan. pc'[t] \in Scanning => pc[t] \in Scanning \/ \A u \in Threads : pc[u] \notin Scanning
    BY ZenonT(40), <1>4 DEF Scanning
  <1>release. pc'[t] = "release" => \A u \in Threads : pc[u] # "release"
    BY ZenonT(40), <1>4 DEF Scanning
  <1> QED
    BY ZenonT(40), <1>0, <1>2, <1>3, <1>4, <1>counts, <1>forward, <1>flow, <1>once, <1>others,
       <1>own, <1>term, <1>scan, <1>release, StepKeeps

-----------------------------------------------------------------------------
(* The terminal phase *)

\* The places that a finalization returns to.
LEMMA FretPlace ==
    ASSUME NEW l \in Frets
    PROVE  /\ l \notin Hooking \cup Finalizers \cup Scanning
           /\ l \notin {"invoking", "holding", "building", "adopting", "beforeClose", "closed", "terminal"}
           /\ l # "release"
           /\ l \in Ending <=> l = "signalOnly"
  BY ZenonT(40) DEF Rets, Frets, Hooking, Ending, Finalizers, Scanning

\* While the terminal phase has not started it has no owner.
LEMMA NoOwnerYet ==
    ASSUME IInv, "terminalStarted" \notin closeState
    PROVE  /\ \A u \in Threads : ~TermOwner(u)
           /\ "terminalComplete" \notin closeState
           /\ signals = 0
  <1>1. \A u \in Threads : Own(u)
    BY ZenonT(40) DEF IInv
  <1>2. \A u \in Threads : ~TermOwner(u)
    BY ZenonT(40), <1>1 DEF Own
  <1> QED
    BY ZenonT(40), <1>2 DEF IInv, Flow

\* Exclusive places stay exclusive when no one takes or leaves one.
LEMMA UniqueSame ==
    ASSUME Unique,
           \A u \in Threads : TermOwner(u)' => TermOwner(u),
           \A u \in Threads : pc'[u] \in Scanning => pc[u] \in Scanning,
           \A u \in Threads : pc'[u] = "release" => pc[u] = "release"
    PROVE  Unique'
  BY ZenonT(40) DEF Unique

\* The terminal phase of a managed instance starts on a worker.
LEMMA StartOnWorkerKeeps ==
    ASSUME IInv, NEW t \in Threads, StartTerminal(t), "terminalStarted" \notin closeState,
           AsyncManagedTerminal
    PROVE  IInv'
  <1>0. /\ Types /\ Counts /\ Flow /\ Once /\ Unique
        /\ \A u \in Threads : Own(u)
        /\ pc[t] = "terminal" /\ ret[t] \in Rets /\ Worker \in Threads
    BY ZenonT(40) DEF IInv, StartTerminal, Threads, Types
  <1>1. /\ count' = count /\ entryClosed' = entryClosed /\ constructionActive' = constructionActive
        /\ closed' = closed /\ finalizing' = finalizing /\ resourceRefs' = resourceRefs
        /\ resourcesClosed' = resourcesClosed /\ managed' = managed /\ releases' = releases
        /\ signals' = signals /\ claimed' = claimed /\ collections' = collections
    BY ZenonT(40) DEF StartTerminal, lease, life, collection, history
  <1>2. /\ closeState' = closeState \cup {"terminalStarted"} /\ ret' = ret /\ fret' = fret
        /\ pc' = [pc EXCEPT ![Worker] = "afterClose", ![t] = ret[t]]
    BY ZenonT(40) DEF StartTerminal
  <1>3. /\ (\A u \in Threads : ~TermOwner(u)) /\ "terminalComplete" \notin closeState /\ signals = 0
        /\ Quiesced
    BY ZenonT(40), <1>0, NoOwnerYet DEF Own
  <1>4. /\ DOMAIN pc' = Threads /\ pc'[t] = ret[t]
        /\ Worker # t => pc'[Worker] = "afterClose"
        /\ \A u \in Threads : u # t /\ u # Worker => pc'[u] = pc[u]
    BY ZenonT(40), <1>0, <1>2, RetPlace DEF Types
  <1>flags. /\ \A f \in closeState : f \in closeState'
            /\ "terminalStarted" \in closeState'
            /\ "hooked" \in closeState' <=> "hooked" \in closeState
            /\ "prepared" \in closeState' <=> "prepared" \in closeState
            /\ "terminalComplete" \notin closeState'
    BY ZenonT(40), <1>2, <1>3
  <1>quiet. Quiesced'
    BY ZenonT(40), <1>1, <1>3, <1>flags DEF Quiesced
  <1>place. /\ pc'[t] \notin Hooking \cup Ending \cup Finalizers \cup Scanning
            /\ pc'[t] \notin {"invoking", "holding", "building", "adopting", "beforeClose", "closed", "terminal"}
            /\ pc'[t] # "release"
    BY ZenonT(40), <1>0, <1>4, RetPlace DEF Scanning
  <1>worker. pc[Worker] # "invoking" /\ pc[Worker] # "holding"
    BY ZenonT(40), <1>0, ThreadsAssumption DEF Own
  <1>counts. Counts'
    <2>1. \A u \in Threads : pc'[u] = "invoking" <=> pc[u] = "invoking"
      BY ZenonT(40), <1>0, <1>4, <1>place, <1>worker
    <2>2. \A u \in Threads : pc'[u] = "holding" <=> pc[u] = "holding"
      BY ZenonT(40), <1>0, <1>4, <1>place, <1>worker
    <2> QED
      BY ZenonT(40), <1>0, <1>1, <2>1, <2>2, CountsKept
  <1>flow. Flow'
    BY ZenonT(40), <1>0, <1>1, <1>flags, <1>quiet DEF Flow
  <1>once. Once'
    BY ZenonT(40), <1>0, <1>1 DEF Once
  <1>owner. \A u \in Threads : TermOwner(u)' => u = Worker
    <2> SUFFICES ASSUME NEW u \in Threads, u # Worker PROVE ~TermOwner(u)'
      BY ZenonT(40)
    <2>1. CASE u = t
      BY ZenonT(40), <1>place, <2>1 DEF TermOwner
    <2>2. CASE u # t
      BY ZenonT(40), <1>2, <1>3, <1>4, <2>2 DEF TermOwner
    <2> QED
      BY ZenonT(40), <2>1, <2>2
  <1>own. ASSUME NEW u \in Threads PROVE Own(u)'
    <2>1. CASE u = t
      <3>1. ~TermOwner(t)'
        BY ZenonT(40), <1>place DEF TermOwner
      <3> QED
        BY ZenonT(40), <1>place, <2>1, <3>1 DEF Own
    <2>2. CASE u # t /\ u = Worker
      <3>1. pc'[u] = "afterClose"
        BY ZenonT(40), <1>4, <2>2
      <3> QED
        BY ZenonT(40), <1>1, <1>3, <1>flags, <3>1 DEF Own, Hooking, Ending, Finalizers, Scanning
    <2>3. CASE u # t /\ u # Worker
      <3>1. Own(u) /\ pc'[u] = pc[u] /\ fret'[u] = fret[u]
        BY ZenonT(40), <1>0, <1>2, <1>4, <2>3
      <3>2. pc[u] \in Scanning => finalizing' /\ ~resourcesClosed'
        BY ZenonT(40), <1>1, <3>1 DEF Own
      <3>3. pc[u] = "release" => resourcesClosed' /\ releases' = releases
        BY ZenonT(40), <1>1, <3>1 DEF Own
      <3>4. (pc[u] = "building" => constructionActive') /\ (u = Builder /\ pc[u] = "adopting" => ~closed')
        BY ZenonT(40), <1>1, <3>1 DEF Own
      <3>5. pc[u] \in Ending => ~managed'
        BY ZenonT(40), <1>1, <3>1 DEF Own
      <3> QED
        BY ZenonT(40), <1>1, <1>flags, <1>quiet, <3>1, <3>2, <3>3, <3>4, <3>5, OwnKept
    <2> QED
      BY ZenonT(40), <2>1, <2>2, <2>3
  <1>unique. Unique'
    <2>1. \A u \in Threads : pc'[u] \in Scanning => pc[u] \in Scanning
      BY ZenonT(40), <1>4, <1>place DEF Scanning
    <2>2. \A u \in Threads : pc'[u] = "release" => pc[u] = "release"
      BY ZenonT(40), <1>4, <1>place
    <2> QED
      BY ZenonT(40), <1>0, <1>owner, <2>1, <2>2 DEF Unique
  <1>types. Types'
    BY ZenonT(40), <1>0, <1>2, <1>4 DEF Types
  <1> QED
    BY ZenonT(40), <1>counts, <1>flow, <1>once, <1>own, <1>unique, <1>types DEF IInv

\* The terminal phase starts on the goroutine that found the instance quiet.
LEMMA StartHereKeeps ==
    ASSUME IInv, NEW t \in Threads, StartTerminal(t), "terminalStarted" \notin closeState, ~AsyncManagedTerminal
    PROVE  IInv'
  <1>0. /\ Types /\ Counts /\ Flow /\ Once /\ Unique
        /\ \A u \in Threads : Own(u)
        /\ t \in Threads
        /\ pc[t] = "terminal"
    BY ZenonT(40) DEF IInv, StartTerminal, Threads, LifeMuFree
  <1>1. /\ count' = count /\ entryClosed' = entryClosed
        /\ constructionActive' = constructionActive /\ closed' = closed
        /\ finalizing' = finalizing /\ resourceRefs' = resourceRefs
        /\ resourcesClosed' = resourcesClosed /\ managed' = managed
        /\ releases' = releases /\ signals' = signals
    BY ZenonT(40) DEF StartTerminal, lease, life, collection, history
  <1>mine. /\ (\A u \in Threads : ~TermOwner(u)) /\ "terminalComplete" \notin closeState /\ signals = 0
           /\ Quiesced
    BY ZenonT(40), <1>0, NoOwnerYet DEF Own
  <1>effect. closeState' = closeState \cup {"terminalStarted"}
    BY ZenonT(40) DEF StartTerminal
  <1>2. Goto(t, "afterClose") /\ ret' = ret /\ fret' = fret
    BY ZenonT(40) DEF StartTerminal, Goto
  <1>3. ret' \in [Threads -> Rets] /\ fret' \in [Threads -> Frets]
    BY ZenonT(40), <1>0, <1>2 DEF Types
  <1>4. DOMAIN pc' = Threads /\ pc'[t] = "afterClose" /\ \A u \in Threads : u # t => pc'[u] = pc[u]
    BY ZenonT(40), <1>0, <1>2, GotoEffect
  <1>flags. /\ \A f \in closeState : f \in closeState'
            /\ "hooked" \in closeState' <=> "hooked" \in closeState
            /\ "prepared" \in closeState' <=> "prepared" \in closeState
            /\ "terminalStarted" \in closeState'
            /\ "terminalComplete" \notin closeState'
    BY ZenonT(40), <1>effect, <1>mine
  <1>counts. Counts'
    <2>1. \A u \in Threads : pc'[u] = "invoking" <=> pc[u] = "invoking"
      BY ZenonT(40), <1>0, <1>4
    <2>2. \A u \in Threads : pc'[u] = "holding" <=> pc[u] = "holding"
      BY ZenonT(40), <1>0, <1>4
    <2> QED
      BY ZenonT(40), <1>0, <1>1, <2>1, <2>2, CountsKept
  <1>forward. Forward
    BY ZenonT(40), <1>0, <1>1, <1>flags, <1>mine DEF Forward, Quiesced
  <1>flow. Flow'
    BY ZenonT(40), <1>0, <1>1, <1>flags, <1>mine DEF Flow, Quiesced
  <1>once. Once'
    <2>1. claimed' = claimed /\ collections' = collections
      BY ZenonT(40) DEF StartTerminal, collection, history
    <2> QED
      BY ZenonT(40), <1>0, <1>1, <2>1 DEF Once
  <1>others. OthersStay(t)
    BY ZenonT(40), <1>0, <1>1, <1>flags, <1>mine DEF OthersStay, Own
  <1>own. Own(t)'
    BY ZenonT(40), <1>1, <1>4, <1>flags, <1>mine DEF Own, Hooking, Ending, Finalizers, Scanning
  <1>term. TermOwner(t)' => TermOwner(t) \/ \A u \in Threads : ~TermOwner(u)
    BY ZenonT(40), <1>mine
  <1>scan. pc'[t] \in Scanning => pc[t] \in Scanning \/ \A u \in Threads : pc[u] \notin Scanning
    BY ZenonT(40), <1>4 DEF Scanning
  <1>release. pc'[t] = "release" => \A u \in Threads : pc[u] # "release"
    BY ZenonT(40), <1>4 DEF Scanning
  <1> QED
    BY ZenonT(40), <1>0, <1>2, <1>3, <1>4, <1>counts, <1>forward, <1>flow, <1>once, <1>others,
       <1>own, <1>term, <1>scan, <1>release, StepKeeps

\* The AfterClose hooks have returned; a managed instance leaves its owner.
LEMMA AfterCloseKeeps ==
    ASSUME IInv, NEW t \in Threads, AfterClose(t)
    PROVE  IInv'
  <1>0. /\ Types /\ Counts /\ Flow /\ Once /\ Unique
        /\ \A u \in Threads : Own(u)
        /\ t \in Threads
        /\ pc[t] = "afterClose"
    BY ZenonT(40) DEF IInv, AfterClose, Threads, LifeMuFree
  <1>1. /\ count' = count /\ entryClosed' = entryClosed
        /\ constructionActive' = constructionActive /\ closed' = closed
        /\ finalizing' = finalizing /\ resourceRefs' = resourceRefs
        /\ resourcesClosed' = resourcesClosed /\ closeState' = closeState
        /\ releases' = releases /\ signals' = signals
    BY ZenonT(40) DEF AfterClose, lease, life, collection, history
  <1>mine. /\ TermOwner(t) /\ "terminalStarted" \in closeState /\ signals = 0
           /\ "terminalComplete" \notin closeState
    BY ZenonT(40), <1>0 DEF Own, TermOwner, Hooking
  <1>effect. managed' = FALSE /\ ret' = ret /\ fret' = fret
    BY ZenonT(40) DEF AfterClose
  <1>place. PICK l \in {"signal", "readyManaged", "ready"} : Goto(t, l)
    BY ZenonT(40) DEF AfterClose
  <1>3. ret' \in [Threads -> Rets] /\ fret' \in [Threads -> Frets]
    BY ZenonT(40), <1>0, <1>effect DEF Types
  <1>4. DOMAIN pc' = Threads /\ pc'[t] = l /\ \A u \in Threads : u # t => pc'[u] = pc[u]
    BY ZenonT(40), <1>0, <1>place, GotoEffect
  <1>nobody. \A u \in Threads : u # t => ~TermOwner(u) /\ pc[u] \notin Hooking \cup Ending
    BY ZenonT(40), <1>0, <1>mine DEF Unique, TermOwner
  <1>counts. Counts'
    <2>1. \A u \in Threads : pc'[u] = "invoking" <=> pc[u] = "invoking"
      BY ZenonT(40), <1>0, <1>4, <1>place
    <2>2. \A u \in Threads : pc'[u] = "holding" <=> pc[u] = "holding"
      BY ZenonT(40), <1>0, <1>4, <1>place
    <2> QED
      BY ZenonT(40), <1>0, <1>1, <2>1, <2>2, CountsKept
  <1>forward. Forward
    BY ZenonT(40), <1>0, <1>1 DEF Forward, Quiesced
  <1>flow. Flow'
    BY ZenonT(40), <1>0, <1>1, <1>effect DEF Flow, Quiesced
  <1>once. Once'
    <2>1. claimed' = claimed /\ collections' = collections
      BY ZenonT(40) DEF AfterClose, collection, history
    <2> QED
      BY ZenonT(40), <1>0, <1>1, <2>1 DEF Once
  <1>others. OthersStay(t)
    BY ZenonT(40), <1>0, <1>1, <1>effect DEF OthersStay, Own
  <1>own. Own(t)'
    BY ZenonT(40), <1>1, <1>4, <1>place, <1>effect, <1>mine DEF Own, Hooking, Ending,
       Finalizers, Scanning
  <1>term. TermOwner(t)' => TermOwner(t) \/ \A u \in Threads : ~TermOwner(u)
    BY ZenonT(40), <1>mine
  <1>scan. pc'[t] \in Scanning => pc[t] \in Scanning \/ \A u \in Threads : pc[u] \notin Scanning
    BY ZenonT(40), <1>4, <1>place DEF Scanning
  <1>release. pc'[t] = "release" => \A u \in Threads : pc[u] # "release"
    BY ZenonT(40), <1>4, <1>place
  <1> QED
    BY ZenonT(40), <1>0, <1>effect, <1>place, <1>3, <1>4, <1>counts, <1>forward, <1>flow,
       <1>once, <1>others, <1>own, <1>term, <1>scan, <1>release, StepKeeps

\* The terminal side is ready for the collection.
LEMMA PublishKeeps ==
    ASSUME IInv, NEW t \in Threads, PublishTerminalCollectionReady(t)
    PROVE  IInv'
  <1>0. /\ Types /\ Counts /\ Flow /\ Once /\ Unique
        /\ \A u \in Threads : Own(u)
        /\ t \in Threads
        /\ pc[t] \in {"ready", "readyManaged"}
    BY ZenonT(40) DEF IInv, PublishTerminalCollectionReady, PublishReady, Threads, LifeMuFree
  <1>1. /\ count' = count /\ entryClosed' = entryClosed
        /\ constructionActive' = constructionActive /\ closed' = closed
        /\ finalizing' = finalizing /\ resourceRefs' = resourceRefs
        /\ resourcesClosed' = resourcesClosed /\ managed' = managed
        /\ releases' = releases /\ signals' = signals
    BY ZenonT(40) DEF PublishTerminalCollectionReady, PublishReady, lease, life, collection,
       history
  <1>mine. /\ TermOwner(t) /\ "terminalStarted" \in closeState /\ signals = 0 /\ ~managed
    BY ZenonT(40), <1>0 DEF Own, TermOwner, Hooking, Ending
  <1>effect. closeState' = closeState \cup {"terminalComplete"} /\ ret' = ret
    BY ZenonT(40) DEF PublishTerminalCollectionReady, PublishReady
  <1>place. PICK l \in {"finalize", "signalOnly", "signal"} :
          /\ Goto(t, l) /\ fret' \in [Threads -> Frets]
          /\ \A u \in Threads : u # t => fret'[u] = fret[u]
          /\ l = "finalize" => ~claimed /\ claimed' = TRUE /\ collections' = collections + 1
          /\ l # "finalize" => claimed' = claimed /\ collections' = collections
    <2>1. CASE "completed" \in closeState /\ ~claimed
      <3>1. claimed' = TRUE /\ collections' = collections + 1 /\ CallFinalize(t, "signalOnly")
        BY ZenonT(40), <2>1 DEF PublishTerminalCollectionReady, PublishReady
      <3>2. "signalOnly" \in Frets
        BY ZenonT(40) DEF Frets
      <3>3. /\ Goto(t, "finalize") /\ fret' \in [Threads -> Frets]
            /\ \A u \in Threads : u # t => fret'[u] = fret[u]
        BY ZenonT(40), <1>0, <3>1, <3>2, FinalizeEffect
      <3> QED
        BY ZenonT(40), <2>1, <3>1, <3>3
    <2>2. CASE ~("completed" \in closeState /\ ~claimed)
      <3>1. PICK k \in {"signalOnly", "signal"} : Goto(t, k)
        BY ZenonT(40), <2>2 DEF PublishTerminalCollectionReady, PublishReady
      <3>2. claimed' = claimed /\ collections' = collections /\ fret' = fret
        BY ZenonT(40), <2>2 DEF PublishTerminalCollectionReady, PublishReady
      <3>3. fret' \in [Threads -> Frets]
        BY ZenonT(40), <1>0, <3>2 DEF Types
      <3> QED
        BY ZenonT(40), <3>1, <3>2, <3>3
    <2> QED
      BY ZenonT(40), <2>1, <2>2
  <1>3. ret' \in [Threads -> Rets]
    BY ZenonT(40), <1>0, <1>effect DEF Types
  <1>4. DOMAIN pc' = Threads /\ pc'[t] = l /\ \A u \in Threads : u # t => pc'[u] = pc[u]
    BY ZenonT(40), <1>0, <1>place, GotoEffect
  <1>nobody. \A u \in Threads : u # t => ~TermOwner(u) /\ pc[u] \notin Hooking \cup Ending
    BY ZenonT(40), <1>0, <1>mine DEF Unique, TermOwner
  <1>flags. /\ \A f \in closeState : f \in closeState'
            /\ "hooked" \in closeState' <=> "hooked" \in closeState
            /\ "prepared" \in closeState' <=> "prepared" \in closeState
            /\ "terminalStarted" \in closeState'
            /\ "terminalComplete" \in closeState'
    BY ZenonT(40), <1>effect, <1>mine
  <1>counts. Counts'
    <2>1. \A u \in Threads : pc'[u] = "invoking" <=> pc[u] = "invoking"
      BY ZenonT(40), <1>0, <1>4, <1>place
    <2>2. \A u \in Threads : pc'[u] = "holding" <=> pc[u] = "holding"
      BY ZenonT(40), <1>0, <1>4, <1>place
    <2> QED
      BY ZenonT(40), <1>0, <1>1, <2>1, <2>2, CountsKept
  <1>forward. Forward
    BY ZenonT(40), <1>0, <1>1, <1>flags DEF Forward, Quiesced
  <1>flow. Flow'
    BY ZenonT(40), <1>0, <1>1, <1>flags, <1>mine DEF Flow, Quiesced
  <1>once. Once'
    BY <1>0, <1>1, <1>place DEF Once
  <1>others. OthersStay(t)
    BY ZenonT(40), <1>0, <1>1, <1>nobody DEF OthersStay, Own
  <1>own. Own(t)'
    BY ZenonT(40), <1>1, <1>4, <1>place, <1>flags, <1>mine DEF Own, Hooking, Ending, Finalizers,
       Scanning
  <1>term. TermOwner(t)' => TermOwner(t) \/ \A u \in Threads : ~TermOwner(u)
    BY ZenonT(40), <1>mine
  <1>scan. pc'[t] \in Scanning => pc[t] \in Scanning \/ \A u \in Threads : pc[u] \notin Scanning
    BY ZenonT(40), <1>4, <1>place DEF Scanning
  <1>release. pc'[t] = "release" => \A u \in Threads : pc[u] # "release"
    BY ZenonT(40), <1>4, <1>place
  <1> QED
    BY ZenonT(40), <1>0, <1>effect, <1>place, <1>3, <1>4, <1>counts, <1>forward, <1>flow,
       <1>once, <1>others, <1>own, <1>term, <1>scan, <1>release, StepKeeps

\* terminalDone is closed.
LEMMA SignalKeeps ==
    ASSUME IInv, NEW t \in Threads, SignalTerminalDone(t)
    PROVE  IInv'
  <1>0. /\ Types /\ Counts /\ Flow /\ Once /\ Unique
        /\ \A u \in Threads : Own(u)
        /\ t \in Threads
        /\ pc[t] \in {"signal", "signalOnly"} /\ ret[t] \in Rets
    BY ZenonT(40) DEF IInv, SignalTerminalDone, Threads, LifeMuFree, Types
  <1>1. /\ count' = count /\ entryClosed' = entryClosed
        /\ constructionActive' = constructionActive /\ closed' = closed
        /\ finalizing' = finalizing /\ resourceRefs' = resourceRefs
        /\ resourcesClosed' = resourcesClosed /\ managed' = managed
        /\ releases' = releases
    BY ZenonT(40) DEF SignalTerminalDone, lease, life, collection, history
  <1>mine. /\ TermOwner(t) /\ "terminalStarted" \in closeState /\ signals = 0 /\ ~managed
    BY ZenonT(40), <1>0 DEF Own, TermOwner, Hooking, Ending
  <1>effect. /\ closeState' = closeState \cup {"terminalComplete", "terminalDone"} /\ ret' = ret
             /\ signals' = 1 /\ claimed' = claimed /\ collections' = collections
    BY <1>mine DEF SignalTerminalDone, collection
  <1>place. PICK l \in {"finalize"} \cup Rets :
          /\ Goto(t, l) /\ fret' \in [Threads -> Frets]
          /\ \A u \in Threads : u # t => fret'[u] = fret[u]
          /\ l = "finalize" => fret'[t] # "signalOnly"
    <2>1. CASE pc[t] = "signal"
      <3>1. CallFinalize(t, ret[t])
        BY ZenonT(40), <2>1 DEF SignalTerminalDone
      <3>2. /\ Goto(t, "finalize") /\ fret' \in [Threads -> Frets] /\ fret'[t] = ret[t]
            /\ \A u \in Threads : u # t => fret'[u] = fret[u]
        BY ZenonT(40), <1>0, <3>1, RetPlace, FinalizeEffect
      <3>3. fret'[t] # "signalOnly"
        BY ZenonT(40), <1>0, <3>2, RetPlace
      <3> QED
        BY ZenonT(40), <3>2, <3>3
    <2>2. CASE pc[t] # "signal"
      <3>1. Goto(t, ret[t]) /\ fret' = fret
        BY ZenonT(40), <2>2 DEF SignalTerminalDone
      <3>2. fret' \in [Threads -> Frets] /\ ret[t] # "finalize"
        BY ZenonT(40), <1>0, <3>1, RetPlace DEF Types
      <3> QED
        BY ZenonT(40), <1>0, <3>1, <3>2
    <2> QED
      BY ZenonT(40), <2>1, <2>2
  <1>label. /\ l \notin Hooking \cup Ending \cup Scanning
            /\ l \notin {"invoking", "holding", "building", "adopting", "beforeClose", "closed", "terminal"}
            /\ l # "release"
            /\ l \in Finalizers => l = "finalize"
    BY ZenonT(40), <1>place, RetPlace DEF Hooking, Ending, Scanning, Finalizers
  <1>3. ret' \in [Threads -> Rets]
    BY ZenonT(40), <1>0, <1>effect DEF Types
  <1>4. DOMAIN pc' = Threads /\ pc'[t] = l /\ \A u \in Threads : u # t => pc'[u] = pc[u]
    BY ZenonT(40), <1>0, <1>place, <1>label, GotoEffect
  <1>owner. ~TermOwner(t)'
    BY ZenonT(40), <1>4, <1>place, <1>label DEF TermOwner
  <1>nobody. \A u \in Threads : u # t => ~TermOwner(u) /\ pc[u] \notin Hooking \cup Ending
    BY ZenonT(40), <1>0, <1>mine DEF Unique, TermOwner
  <1>flags. /\ \A f \in closeState : f \in closeState'
            /\ "hooked" \in closeState' <=> "hooked" \in closeState
            /\ "prepared" \in closeState' <=> "prepared" \in closeState
            /\ "terminalStarted" \in closeState'
            /\ "terminalComplete" \in closeState'
    BY ZenonT(40), <1>effect, <1>mine
  <1>counts. Counts'
    <2>1. \A u \in Threads : pc'[u] = "invoking" <=> pc[u] = "invoking"
      BY ZenonT(40), <1>0, <1>4, <1>label
    <2>2. \A u \in Threads : pc'[u] = "holding" <=> pc[u] = "holding"
      BY ZenonT(40), <1>0, <1>4, <1>label
    <2> QED
      BY ZenonT(40), <1>0, <1>1, <2>1, <2>2, CountsKept
  <1>forward. Forward
    BY ZenonT(40), <1>0, <1>1, <1>flags DEF Forward, Quiesced
  <1>flow. Flow'
    BY ZenonT(40), <1>0, <1>1, <1>flags, <1>mine DEF Flow, Quiesced
  <1>once. Once'
    BY ZenonT(40), <1>0, <1>1, <1>effect DEF Once
  <1>others. OthersStay(t)
    BY ZenonT(40), <1>0, <1>1, <1>nobody DEF OthersStay, Own
  <1>own. Own(t)'
    BY ZenonT(40), <1>4, <1>label, <1>flags, <1>owner DEF Own
  <1>term. TermOwner(t)' => TermOwner(t) \/ \A u \in Threads : ~TermOwner(u)
    BY ZenonT(40), <1>owner
  <1>scan. pc'[t] \in Scanning => pc[t] \in Scanning \/ \A u \in Threads : pc[u] \notin Scanning
    BY ZenonT(40), <1>4, <1>label
  <1>release. pc'[t] = "release" => \A u \in Threads : pc[u] # "release"
    BY ZenonT(40), <1>4, <1>label
  <1> QED
    BY ZenonT(40), <1>0, <1>effect, <1>place, <1>label, <1>3, <1>4, <1>counts, <1>forward,
       <1>flow, <1>once, <1>others, <1>own, <1>term, <1>scan, <1>release, StepKeeps

-----------------------------------------------------------------------------
(* finalize *)

\* The first critical section of finalize.
LEMMA ClaimKeeps ==
    ASSUME IInv, NEW t \in Threads, ClaimFinalization(t)
    PROVE  IInv'
  <1>0. /\ Types /\ Counts /\ Flow /\ Once /\ Unique
        /\ \A u \in Threads : Own(u)
        /\ t \in Threads
        /\ pc[t] = "finalize" /\ fret[t] \in Frets
    BY ZenonT(40) DEF IInv, ClaimFinalization, Threads, LifeMuFree, Types
  <1>1. /\ count' = count /\ entryClosed' = entryClosed
        /\ constructionActive' = constructionActive /\ closed' = closed
        /\ resourceRefs' = resourceRefs /\ resourcesClosed' = resourcesClosed
        /\ managed' = managed /\ closeState' = closeState /\ releases' = releases
        /\ signals' = signals
    BY ZenonT(40) DEF ClaimFinalization, lease, life, collection, history
  <1>mine. "terminalComplete" \in closeState /\ ~managed /\ (TermOwner(t) <=> fret[t] = "signalOnly")
    BY ZenonT(40), <1>0 DEF Own, Flow, TermOwner, Finalizers, Hooking, Ending
  <1>2. ret' = ret /\ fret' = fret
    BY ZenonT(40) DEF ClaimFinalization
  <1>place. PICK l \in Frets \cup {"scan"} :
          /\ Goto(t, l)
          /\ \/ l = fret[t] /\ finalizing' = finalizing
             \/ l = "scan" /\ finalizing' = TRUE /\ closed /\ ~finalizing /\ ~resourcesClosed
    BY ZenonT(40), <1>0 DEF ClaimFinalization
  <1>3. ret' \in [Threads -> Rets] /\ fret' \in [Threads -> Frets]
    BY ZenonT(40), <1>0, <1>2 DEF Types
  <1>label. /\ l \notin Hooking
            /\ l \notin {"invoking", "holding", "building", "adopting", "beforeClose", "closed", "terminal"}
            /\ l \in Ending => l = "signalOnly" /\ fret[t] = "signalOnly"
            /\ l \in Finalizers \cup Scanning => l = "scan" /\ finalizing' = TRUE /\ closed /\ ~finalizing /\ ~resourcesClosed
    BY ZenonT(40), <1>0, <1>place, FretPlace DEF Hooking, Ending, Scanning, Finalizers
  <1>4. DOMAIN pc' = Threads /\ pc'[t] = l /\ \A u \in Threads : u # t => pc'[u] = pc[u]
    BY ZenonT(40), <1>0, <1>place, <1>label, GotoEffect
  <1>owner. TermOwner(t)' => TermOwner(t)
    BY ZenonT(40), <1>2, <1>4, <1>mine, <1>place, <1>label DEF TermOwner
  <1>counts. Counts'
    <2>1. \A u \in Threads : pc'[u] = "invoking" <=> pc[u] = "invoking"
      BY ZenonT(40), <1>0, <1>4, <1>label
    <2>2. \A u \in Threads : pc'[u] = "holding" <=> pc[u] = "holding"
      BY ZenonT(40), <1>0, <1>4, <1>label
    <2> QED
      BY ZenonT(40), <1>0, <1>1, <2>1, <2>2, CountsKept
  <1>forward. Forward
    BY ZenonT(40), <1>0, <1>1 DEF Forward, Quiesced
  <1>flow. Flow'
    BY ZenonT(40), <1>0, <1>1 DEF Flow, Quiesced
  <1>once. Once'
    <2>1. claimed' = claimed /\ collections' = collections
      BY ZenonT(40) DEF ClaimFinalization, collection, history
    <2> QED
      BY ZenonT(40), <1>0, <1>1, <2>1 DEF Once
  <1>others. OthersStay(t)
    BY <1>0, <1>1, <1>place DEF OthersStay, Own
  <1>own. Own(t)'
    BY ZenonT(40), <1>0, <1>1, <1>4, <1>mine, <1>label, <1>owner DEF Own, Finalizers, Scanning,
       Flow
  <1>term. TermOwner(t)' => TermOwner(t) \/ \A u \in Threads : ~TermOwner(u)
    BY ZenonT(40), <1>owner
  <1>scan. pc'[t] \in Scanning => pc[t] \in Scanning \/ \A u \in Threads : pc[u] \notin Scanning
    BY ZenonT(40), <1>0, <1>4, <1>label DEF Own
  <1>release. pc'[t] = "release" => \A u \in Threads : pc[u] # "release"
    BY ZenonT(40), <1>4, <1>label DEF Finalizers
  <1> QED
    BY ZenonT(40), <1>0, <1>2, <1>place, <1>label, <1>3, <1>4, <1>counts, <1>forward, <1>flow,
       <1>once, <1>others, <1>own, <1>term, <1>scan, <1>release, StepKeeps

\* The second critical section of finalize.
LEMMA CommitKeeps ==
    ASSUME IInv, NEW t \in Threads, CommitFinalization(t)
    PROVE  IInv'
  <1>0. /\ Types /\ Counts /\ Flow /\ Once /\ Unique
        /\ \A u \in Threads : Own(u)
        /\ t \in Threads
        /\ pc[t] = "scanned" /\ fret[t] \in Frets
    BY ZenonT(40) DEF IInv, CommitFinalization, Threads, LifeMuFree, Types
  <1>1. /\ count' = count /\ entryClosed' = entryClosed
        /\ constructionActive' = constructionActive /\ closed' = closed
        /\ resourceRefs' = resourceRefs /\ closeState' = closeState
        /\ releases' = releases /\ signals' = signals
    BY ZenonT(40) DEF CommitFinalization, lease, life, collection, history
  <1>mine. "terminalComplete" \in closeState /\ ~managed /\ (TermOwner(t) <=> fret[t] = "signalOnly")
    BY ZenonT(40), <1>0 DEF Own, Flow, TermOwner, Finalizers, Hooking, Ending
  <1>2. ret' = ret /\ fret' = fret
    BY ZenonT(40) DEF CommitFinalization
  <1>alone. closed /\ ~resourcesClosed /\ (\A u \in Threads : pc[u] # "release" /\ (u # t => pc[u] \notin Scanning))
    BY ZenonT(40), <1>0 DEF Own, Scanning, Unique
  <1>over. "terminalComplete" \in closeState /\ ~managed
    BY ZenonT(40), <1>0 DEF Own, Flow, Finalizers
  <1>place. PICK l \in Frets \cup {"release"} :
          /\ Goto(t, l) /\ ~managed'
          /\ \/ l = fret[t] /\ resourcesClosed' = resourcesClosed
             \/ l = "release" /\ resourcesClosed' = TRUE /\ resourceRefs = 0
    BY <1>0, <1>over DEF CommitFinalization
  <1>3. ret' \in [Threads -> Rets] /\ fret' \in [Threads -> Frets]
    BY ZenonT(40), <1>0, <1>2 DEF Types
  <1>label. /\ l \notin Hooking
            /\ l \notin {"invoking", "holding", "building", "adopting", "beforeClose", "closed", "terminal"}
            /\ l \in Ending => l = "signalOnly" /\ fret[t] = "signalOnly"
            /\ l \in Finalizers \cup Scanning => l = "release" /\ resourcesClosed' = TRUE
    BY ZenonT(40), <1>0, <1>place, FretPlace DEF Hooking, Ending, Scanning, Finalizers
  <1>4. DOMAIN pc' = Threads /\ pc'[t] = l /\ \A u \in Threads : u # t => pc'[u] = pc[u]
    BY ZenonT(40), <1>0, <1>place, <1>label, GotoEffect
  <1>owner. TermOwner(t)' => TermOwner(t)
    BY ZenonT(40), <1>2, <1>4, <1>mine, <1>place, <1>label DEF TermOwner
  <1>counts. Counts'
    <2>1. \A u \in Threads : pc'[u] = "invoking" <=> pc[u] = "invoking"
      BY ZenonT(40), <1>0, <1>4, <1>label
    <2>2. \A u \in Threads : pc'[u] = "holding" <=> pc[u] = "holding"
      BY ZenonT(40), <1>0, <1>4, <1>label
    <2> QED
      BY ZenonT(40), <1>0, <1>1, <2>1, <2>2, CountsKept
  <1>forward. Forward
    BY ZenonT(40), <1>0, <1>1 DEF Forward, Quiesced
  <1>flow. Flow'
    BY <1>0, <1>1, <1>mine, <1>place DEF Flow, Quiesced
  <1>once. Once'
    <2>1. claimed' = claimed /\ collections' = collections
      BY ZenonT(40) DEF CommitFinalization, collection, history
    <2> QED
      BY ZenonT(40), <1>0, <1>1, <2>1 DEF Once
  <1>others. OthersStay(t)
    BY ZenonT(40), <1>0, <1>1, <1>alone, <1>place DEF OthersStay, Own
  <1>own. Own(t)'
    BY ZenonT(40), <1>0, <1>1, <1>4, <1>mine, <1>alone, <1>place, <1>label, <1>owner DEF Own,
       Finalizers, Scanning, Flow
  <1>term. TermOwner(t)' => TermOwner(t) \/ \A u \in Threads : ~TermOwner(u)
    BY ZenonT(40), <1>owner
  <1>scan. pc'[t] \in Scanning => pc[t] \in Scanning \/ \A u \in Threads : pc[u] \notin Scanning
    BY ZenonT(40), <1>4, <1>label DEF Scanning
  <1>release. pc'[t] = "release" => \A u \in Threads : pc[u] # "release"
    BY ZenonT(40), <1>alone
  <1> QED
    BY ZenonT(40), <1>0, <1>2, <1>place, <1>label, <1>3, <1>4, <1>counts, <1>forward, <1>flow,
       <1>once, <1>others, <1>own, <1>term, <1>scan, <1>release, StepKeeps

\* releaseResources.
LEMMA ReleaseKeeps ==
    ASSUME IInv, NEW t \in Threads, ReleaseResources(t)
    PROVE  IInv'
  <1>0. /\ Types /\ Counts /\ Flow /\ Once /\ Unique
        /\ \A u \in Threads : Own(u)
        /\ t \in Threads
        /\ pc[t] = "release" /\ fret[t] \in Frets
    BY ZenonT(40) DEF IInv, ReleaseResources, Threads, LifeMuFree, Types
  <1>1. /\ count' = count /\ entryClosed' = entryClosed
        /\ constructionActive' = constructionActive /\ closed' = closed
        /\ finalizing' = finalizing /\ resourceRefs' = resourceRefs
        /\ resourcesClosed' = resourcesClosed /\ managed' = managed
        /\ closeState' = closeState /\ signals' = signals
    BY ZenonT(40) DEF ReleaseResources, lease, life, collection, history
  <1>mine. "terminalComplete" \in closeState /\ ~managed /\ (TermOwner(t) <=> fret[t] = "signalOnly")
    BY ZenonT(40), <1>0 DEF Own, Flow, TermOwner, Finalizers, Hooking, Ending
  <1>2. ret' = ret /\ fret' = fret
    BY ZenonT(40) DEF ReleaseResources
  <1>alone. resourcesClosed /\ releases = 0 /\ \A u \in Threads : u # t => pc[u] # "release"
    BY ZenonT(40), <1>0 DEF Own, Unique
  <1>place. PICK l \in Frets : Goto(t, l) /\ l = fret[t] /\ releases' = 1
    BY <1>0, <1>alone DEF ReleaseResources
  <1>3. ret' \in [Threads -> Rets] /\ fret' \in [Threads -> Frets]
    BY ZenonT(40), <1>0, <1>2 DEF Types
  <1>label. /\ l \notin Hooking
            /\ l \notin {"invoking", "holding", "building", "adopting", "beforeClose", "closed", "terminal"}
            /\ l \in Ending => l = "signalOnly" /\ fret[t] = "signalOnly"
            /\ l \notin Finalizers \cup Scanning
    BY ZenonT(40), <1>0, <1>place, FretPlace DEF Hooking, Ending, Scanning, Finalizers
  <1>4. DOMAIN pc' = Threads /\ pc'[t] = l /\ \A u \in Threads : u # t => pc'[u] = pc[u]
    BY ZenonT(40), <1>0, <1>place, <1>label, GotoEffect
  <1>owner. TermOwner(t)' => TermOwner(t)
    BY ZenonT(40), <1>2, <1>4, <1>mine, <1>place, <1>label DEF TermOwner
  <1>counts. Counts'
    <2>1. \A u \in Threads : pc'[u] = "invoking" <=> pc[u] = "invoking"
      BY ZenonT(40), <1>0, <1>4, <1>label
    <2>2. \A u \in Threads : pc'[u] = "holding" <=> pc[u] = "holding"
      BY ZenonT(40), <1>0, <1>4, <1>label
    <2> QED
      BY ZenonT(40), <1>0, <1>1, <2>1, <2>2, CountsKept
  <1>forward. Forward
    BY ZenonT(40), <1>0, <1>1 DEF Forward, Quiesced
  <1>flow. Flow'
    BY ZenonT(40), <1>0, <1>1, <1>alone DEF Flow, Quiesced
  <1>once. Once'
    <2>1. claimed' = claimed /\ collections' = collections
      BY ZenonT(40) DEF ReleaseResources, collection
    <2> QED
      BY ZenonT(40), <1>0, <1>1, <1>place, <2>1 DEF Once
  <1>others. OthersStay(t)
    BY ZenonT(40), <1>0, <1>1, <1>alone DEF OthersStay, Own
  <1>own. Own(t)'
    BY ZenonT(40), <1>0, <1>1, <1>4, <1>mine, <1>label, <1>owner DEF Own, Finalizers
  <1>term. TermOwner(t)' => TermOwner(t) \/ \A u \in Threads : ~TermOwner(u)
    BY ZenonT(40), <1>owner
  <1>scan. pc'[t] \in Scanning => pc[t] \in Scanning \/ \A u \in Threads : pc[u] \notin Scanning
    BY ZenonT(40), <1>4, <1>label
  <1>release. pc'[t] = "release" => \A u \in Threads : pc[u] # "release"
    BY ZenonT(40), <1>4, <1>label DEF Finalizers
  <1> QED
    BY ZenonT(40), <1>0, <1>2, <1>place, <1>label, <1>3, <1>4, <1>counts, <1>forward, <1>flow,
       <1>once, <1>others, <1>own, <1>term, <1>scan, <1>release, StepKeeps

\* The scan between the two critical sections gives containers roots.
LEMMA ScanKeeps ==
    ASSUME IInv, NEW t \in Threads, ScanContainers(t)
    PROVE  IInv'
  <1>0. /\ Types /\ Counts /\ Flow /\ Once /\ Unique
        /\ \A u \in Threads : Own(u)
        /\ pc[t] = "scan"
    BY ZenonT(40) DEF IInv, ScanContainers
  <1>1. /\ count' = count /\ entryClosed' = entryClosed /\ constructionActive' = constructionActive
        /\ closed' = closed /\ finalizing' = finalizing /\ resourcesClosed' = resourcesClosed
        /\ managed' = managed /\ closeState' = closeState /\ releases' = releases
        /\ signals' = signals /\ claimed' = claimed /\ collections' = collections
        /\ ret' = ret /\ fret' = fret
    BY ZenonT(40) DEF ScanContainers, lease, life, collection, history
  <1>2. PICK hs \in SUBSET {h \in Holders : pc[h] = "idle"} :
          /\ resourceRefs' = resourceRefs + Cardinality(hs)
          /\ pc' = [x \in Threads |-> IF x = t THEN "scanned"
                                     ELSE IF x \in hs THEN "holding" ELSE pc[x]]
    BY ZenonT(40) DEF ScanContainers
  <1>3. hs \subseteq Holders /\ t \notin hs /\ (\A u \in hs : pc[u] = "idle") /\ hs \subseteq Threads
    BY ZenonT(40), <1>0, <1>2 DEF Threads
  <1>4. /\ DOMAIN pc' = Threads /\ pc'[t] = "scanned"
        /\ \A u \in hs : pc'[u] = "holding"
        /\ \A u \in Threads : u # t /\ u \notin hs => pc'[u] = pc[u]
    BY ZenonT(40), <1>0, <1>2, <1>3 DEF Types
  <1>5. ~resourcesClosed /\ finalizing /\ closed
    BY ZenonT(40), <1>0 DEF Own, Scanning
  <1>types. Types'
    BY ZenonT(40), <1>0, <1>1, <1>4 DEF Types
  <1>counts. Counts'
    <2>1. Holding' = Holding \cup hs
      <3>1. \A u : u \in Holding' <=> u \in Holding \cup hs
        BY ZenonT(40), <1>0, <1>3, <1>4 DEF Holding, Threads
      <3> QED
        BY ZenonT(40), <3>1
    <2>2. Holding \cap hs = {}
      BY ZenonT(40), <1>3 DEF Holding
    <2>3. IsFiniteSet(hs)
      BY ZenonT(40), <1>3, ThreadsAssumption, FS_Subset
    <2>4. Cardinality(hs) \in Nat
      BY ZenonT(40), <2>3, FS_CardinalityType
    <2>5. Cardinality(Holding \cup hs) = Cardinality(Holding) + Cardinality(hs) - Cardinality(Holding \cap hs)
      BY ZenonT(40), <2>3, Finite, FS_Union
    <2>6. Cardinality(Holding \cap hs) = 0
      BY ZenonT(40), <2>2, FS_EmptySet
    <2>7. Invoking' = Invoking
      <3>1. \A u : u \in Invoking' <=> u \in Invoking
        BY ZenonT(40), <1>0, <1>3, <1>4 DEF Invoking, Threads
      <3> QED
        BY ZenonT(40), <3>1
    <2>8. Cardinality(Holding') = Cardinality(Holding) + Cardinality(hs)
      BY <2>1, <2>4, <2>5, <2>6, Finite
    <2> QED
      BY ZenonT(40), <1>0, <1>1, <1>2, <2>7, <2>8 DEF Counts
  <1>quiet. Quiesced' <=> Quiesced
    BY ZenonT(40), <1>1 DEF Quiesced
  <1>flow. Flow'
    BY ZenonT(40), <1>0, <1>1, <1>5, <1>quiet DEF Flow
  <1>once. Once'
    BY ZenonT(40), <1>0, <1>1 DEF Once
  <1>owner. \A u \in Threads : TermOwner(u)' => TermOwner(u)
    <2> SUFFICES ASSUME NEW u \in Threads, TermOwner(u)' PROVE TermOwner(u)
      BY ZenonT(40)
    <2>1. CASE u = t
      BY ZenonT(40), <1>0, <1>1, <1>4, <2>1 DEF TermOwner, Hooking, Ending, Finalizers
    <2>2. CASE u \in hs
      BY ZenonT(40), <1>4, <2>2 DEF TermOwner, Hooking, Ending, Finalizers
    <2>3. CASE u # t /\ u \notin hs
      BY ZenonT(40), <1>1, <1>4, <2>3 DEF TermOwner
    <2> QED
      BY ZenonT(40), <2>1, <2>2, <2>3
  <1>own. ASSUME NEW u \in Threads PROVE Own(u)'
    <2>1. CASE u = t
      <3>1. pc'[u] = "scanned" /\ Own(u) /\ pc[u] = "scan" /\ (TermOwner(u)' => TermOwner(u))
        BY ZenonT(40), <1>0, <1>4, <1>owner, <2>1
      <3>2. "terminalComplete" \in closeState
        BY ZenonT(40), <3>1 DEF Own, Finalizers
      <3>3. TermOwner(u)' => "terminalStarted" \in closeState /\ signals = 0
        BY ZenonT(40), <3>1 DEF Own
      <3> QED
        BY ZenonT(40), <1>1, <1>5, <3>1, <3>2, <3>3 DEF Own, Hooking, Ending
    <2>2. CASE u \in hs
      <3>1. pc'[u] = "holding" /\ u \in Holders
        BY ZenonT(40), <1>3, <1>4, <2>2
      <3>2. ~TermOwner(u)'
        BY ZenonT(40), <3>1 DEF TermOwner, Hooking, Ending, Finalizers
      <3> QED
        BY ZenonT(40), <3>1, <3>2 DEF Own, Hooking, Ending, Finalizers, Scanning
    <2>3. CASE u # t /\ u \notin hs
      <3>1. Own(u) /\ pc'[u] = pc[u] /\ fret'[u] = fret[u]
        BY ZenonT(40), <1>0, <1>1, <1>4, <2>3
      <3>2. pc[u] \in Scanning => finalizing' /\ ~resourcesClosed'
        BY ZenonT(40), <1>1, <3>1 DEF Own
      <3>3. pc[u] = "release" => resourcesClosed' /\ releases' = releases
        BY ZenonT(40), <1>1, <3>1 DEF Own
      <3>4. (pc[u] = "building" => constructionActive') /\ (u = Builder /\ pc[u] = "adopting" => ~closed')
        BY ZenonT(40), <1>1, <3>1 DEF Own
      <3>5. pc[u] \in Ending => ~managed'
        BY ZenonT(40), <1>1, <3>1 DEF Own
      <3>6. pc[u] \in Hooking => "terminalComplete" \notin closeState'
        BY ZenonT(40), <1>1, <3>1 DEF Own
      <3> QED
        BY ZenonT(40), <1>1, <1>quiet, <3>1, <3>2, <3>3, <3>4, <3>5, <3>6, OwnKept
    <2> QED
      BY ZenonT(40), <2>1, <2>2, <2>3
  <1>unique. Unique'
    <2>1. \A u \in Threads : pc'[u] \in Scanning => pc[u] \in Scanning
      BY ZenonT(40), <1>0, <1>4 DEF Scanning
    <2>2. \A u \in Threads : pc'[u] = "release" => pc[u] = "release"
      BY ZenonT(40), <1>4
    <2> QED
      BY ZenonT(40), <1>0, <1>owner, <2>1, <2>2, UniqueSame
  <1> QED
    BY ZenonT(40), <1>counts, <1>flow, <1>once, <1>own, <1>unique, <1>types DEF IInv

-----------------------------------------------------------------------------
(* The invariant *)

LEMMA InitKeeps ==
    ASSUME Init
    PROVE  IInv
  <1>1. /\ DOMAIN pc = Threads /\ ret \in [Threads -> Rets] /\ fret \in [Threads -> Frets]
        /\ \A u \in Threads : pc[u] = IF u = Builder THEN "building" ELSE "idle"
    BY ZenonT(40) DEF Init, Rets, Frets
  <1>2. Invoking = {} /\ Holding = {}
    BY ZenonT(40), <1>1 DEF Invoking, Holding, Threads
  <1>3. Counts
    BY ZenonT(40), <1>2, FS_EmptySet DEF Counts, Init
  <1>4. Flow /\ Once
    BY ZenonT(40) DEF Flow, Once, Init
  <1>5. \A u \in Threads : ~TermOwner(u)
    BY ZenonT(40), <1>1 DEF TermOwner, Hooking, Ending, Finalizers
  <1>6. \A u \in Threads : Own(u)
    BY ZenonT(40), <1>1, <1>5 DEF Own, Hooking, Ending, Finalizers, Scanning, Init
  <1>7. Unique
    BY ZenonT(40), <1>1, <1>5 DEF Unique, Scanning
  <1> QED
    BY ZenonT(40), <1>1, <1>3, <1>4, <1>6, <1>7 DEF IInv, Types

LEMMA StutterKeeps ==
    ASSUME IInv, UNCHANGED vars
    PROVE  IInv'
  <1>1. Types' /\ Counts' /\ Flow' /\ Once'
    BY ZenonT(40) DEF IInv, vars, Types, Counts, Invoking, Holding, Flow, Once, Quiesced
  <1>2. \A u \in Threads : Own(u)'
    BY ZenonT(40) DEF IInv, vars, Own, TermOwner, Quiesced
  <1>3. Unique'
    BY ZenonT(40) DEF IInv, vars, Unique, TermOwner
  <1> QED
    BY ZenonT(40), <1>1, <1>2, <1>3 DEF IInv

LEMMA NextKeeps ==
    ASSUME IInv, [Next]_vars
    PROVE  IInv'
  <1>1. ASSUME NEW t \in Threads, CloseStep(t) PROVE IInv'
    BY ZenonT(40), <1>1, CloseEntryKeeps, BeforeCloseKeeps, PrepareKeeps, FinishKeeps,
       CompleteKeeps, RetryKeeps DEF CloseStep
  <1>2. ASSUME NEW t \in Threads, StartTerminal(t) PROVE IInv'
    BY ZenonT(40), <1>2, LateTerminalKeeps, StartOnWorkerKeeps, StartHereKeeps
  <1>3. ASSUME NEW t \in Threads, FinalizeStep(t) PROVE IInv'
    BY ZenonT(40), <1>2, <1>3, TryFinalizeKeeps, AfterCloseKeeps, PublishKeeps, SignalKeeps,
       ClaimKeeps, ScanKeeps,
       CommitKeeps, ReleaseKeeps DEF FinalizeStep
  <1>4. ASSUME NEW t \in Threads, CallerStep(t) PROVE IInv'
    BY ZenonT(40), <1>4, BeginInvocationKeeps, BeginCloseKeeps, RetainKeeps DEF CallerStep
  <1>5. ASSUME NEW t \in Threads, EndInvocation(t) \/ ReleaseResourceRoot(t) \/ WaitTerminalClose(t)
        PROVE  IInv'
    BY ZenonT(40), <1>5, EndInvocationKeeps, ReleaseRootKeeps, WaitKeeps
  <1>6. EndConstruction \/ Adopt \/ AdoptCommit => IInv'
    BY ZenonT(40), EndConstructionKeeps, AdoptKeeps, AdoptCommitKeeps
  <1>7. ASSUME Next PROVE IInv'
    BY ZenonT(40), <1>1, <1>3, <1>4, <1>5, <1>6, <1>7 DEF Next
  <1> QED
    BY ZenonT(40), <1>7, StutterKeeps

LEMMA Invariance == Spec => []IInv
  <1>1. Init => IInv
    BY ZenonT(40), InitKeeps
  <1>2. IInv /\ [Next]_vars => IInv'
    BY ZenonT(40), NextKeeps
  <1> QED
    BY <1>1, <1>2, PTL DEF Spec

-----------------------------------------------------------------------------
(* The theorems *)

\* When the resources of an instance are released, no invocation, no root and no
\* construction is left and its BeforeClose and AfterClose hooks have returned
\* (the two critical sections of finalize).
THEOREM ReleaseStaysQuiet == Spec => []ReleaseIsQuiet
  <1>1. IInv => ReleaseIsQuiet
    <2> SUFFICES ASSUME IInv, resourcesClosed
                 PROVE  /\ count = 0 /\ resourceRefs = 0 /\ ~constructionActive
                        /\ {"hooked", "terminalComplete"} \subseteq closeState
                        /\ \A t \in Threads : pc[t] \notin {"invoking", "holding", "building", "afterClose"}
      BY ZenonT(40) DEF ReleaseIsQuiet
    <2>0. Counts /\ Flow /\ \A t \in Threads : Own(t)
      BY ZenonT(40) DEF IInv
    <2>1. /\ "terminalComplete" \in closeState /\ resourceRefs = 0 /\ Quiesced
          /\ "hooked" \in closeState
      BY ZenonT(40), <2>0 DEF Flow, Quiesced
    <2>2. count = 0 /\ ~constructionActive
      BY ZenonT(40), <2>1 DEF Quiesced
    <2>3. Invoking = {} /\ Holding = {}
      BY ZenonT(40), <2>0, <2>1, <2>2, Zero
    <2>4. ASSUME NEW t \in Threads PROVE pc[t] \notin {"invoking", "holding", "building", "afterClose"}
      <3>1. Own(t)
        BY ZenonT(40), <2>0
      <3>2. pc[t] # "invoking" /\ pc[t] # "holding"
        BY ZenonT(40), <2>3, <3>1 DEF Own, Invoking, Holding
      <3>3. pc[t] # "building" /\ pc[t] # "afterClose"
        BY ZenonT(40), <2>1, <2>2, <3>1 DEF Own, Hooking
      <3> QED
        BY ZenonT(40), <3>2, <3>3
    <2> QED
      BY ZenonT(40), <2>1, <2>2, <2>4
  <1> QED
    BY <1>1, Invariance, PTL

\* releaseResources runs at most once, terminalDone is closed at most once, one
\* side owns the collection, and one goroutine at a time scans.
THEOREM EverythingIsOnce == Spec => []OnceOnly
  <1>1. IInv => OnceOnly
    <2> SUFFICES ASSUME IInv PROVE OnceOnly
      BY ZenonT(40)
    <2>1. releases <= 1 /\ signals <= 1 /\ collections <= 1
      BY DEF IInv, Once
    <2>2. \A s, t \in Threads : pc[s] \in {"scan", "scanned"} /\ pc[t] \in {"scan", "scanned"} => s = t
      BY ZenonT(40) DEF IInv, Unique, Scanning
    <2> QED
      BY ZenonT(40), <2>1, <2>2 DEF OnceOnly
  <1> QED
    BY <1>1, Invariance, PTL

\* AfterClose hooks run on an instance whose BeforeClose hooks have returned and
\* that no invocation and no construction is inside of.
THEOREM HooksStayInOrder == Spec => []HooksInOrder
  <1>1. IInv => HooksInOrder
    <2> SUFFICES ASSUME IInv, NEW t \in Threads, pc[t] = "afterClose"
                 PROVE  /\ "hooked" \in closeState /\ entryClosed
                        /\ count = 0 /\ ~constructionActive
      BY ZenonT(40) DEF HooksInOrder
    <2>1. Own(t) /\ Flow
      BY ZenonT(40) DEF IInv
    <2>2. "terminalStarted" \in closeState
      BY ZenonT(40), <2>1 DEF Own, TermOwner, Hooking
    <2> QED
      BY ZenonT(40), <2>1, <2>2 DEF Flow, Quiesced
  <1> QED
    BY <1>1, Invariance, PTL

\* A manager never keeps, and is never about to make, an owner record for an
\* instance whose terminal phase is over.
THEOREM OwnerIsDetached == Spec => []NoOwnerLeftBehind
  <1>1. IInv => NoOwnerLeftBehind
    <2> SUFFICES ASSUME IInv, "terminalComplete" \in closeState
                 PROVE  ~managed /\ pc[Builder] # "adopting"
      BY ZenonT(40) DEF NoOwnerLeftBehind
    <2>1. Own(Builder) /\ Flow
      BY ZenonT(40) DEF IInv, Threads
    <2>2. ~managed /\ closed
      BY ZenonT(40), <2>1 DEF Flow, Quiesced
    <2> QED
      BY ZenonT(40), <2>1, <2>2 DEF Own
  <1> QED
    BY <1>1, Invariance, PTL
=============================================================================
