--------------------------- MODULE TinyCollector ---------------------------
(***************************************************************************)
(* The Tiny profile of the WasmGC collector: incremental tri-colour mark,  *)
(* root remark and sweep, one bounded Step at a time, with the program     *)
(* (the "mutator") running between the steps                               *)
(* (src/core/runtime/gc/native/tiny_collect.go, tiny_alloc.go, barrier.go).*)
(*                                                                         *)
(* An object is its handle and its reference fields; sizes, payload bytes  *)
(* and type descriptors are abstracted to Width[h], the number of          *)
(* reference fields of the objects allocated at handle h (0: pointer-free),*)
(* and Chunks[h], the number of pieces in which a freed object is poisoned *)
(* (0: at once).  The object-scan and sweep budgets of a Step are one      *)
(* reference and one handle: a Step of the code is a run of such units, so *)
(* every interleaving it allows is one of these.  The root budget stays a  *)
(* parameter, because the code does nothing else between the slots of one  *)
(* budget.  gray is the gray stack as a set: which entry is popped is left *)
(* open.                                                                   *)
(***************************************************************************)
EXTENDS Integers

CONSTANTS MaxHandle,    \* bound on the handle table
          MaxWidth,     \* the largest number of reference fields
          Width,        \* Width[h]: reference fields of an object at h
          Chunks,       \* Chunks[h]: bounded poison pieces of an object at h
          NumSlots,     \* persistent root slots: the globals, then the tables
          RootBudget,   \* tinyStepPersistentRoots
          EpochMask     \* tinyMarkEpochMask

Handles == 1..MaxHandle
Fields  == 1..MaxWidth
Slots   == 1..NumSlots

ASSUME ShapeAssumption ==
  /\ MaxHandle \in Nat /\ MaxWidth \in Nat /\ NumSlots \in Nat
  /\ Width \in [Handles -> 0..MaxWidth]
  /\ Chunks \in [Handles -> Nat]

(* An epoch must differ from the next one, and a budget admit some work. *)
ASSUME BudgetAssumption == EpochMask \in Nat \ {0} /\ RootBudget \in Nat \ {0}

VARIABLES
  used,        \* handles whose entry is in spaceTiny
  field,       \* field[h][f], 0 for null
  frame,       \* the transient roots: references held by frames
  slot,        \* globalSlots followed by tableSlots
  top,         \* len(handles) - 1
  state,       \* tinyGC.state
  rootPhase,   \* tinyGC.rootPhase; "slots" is tinyRootsGlobals and then tinyRootsTables
  markEpoch,   \* tinyGC.markEpoch
  sweep,       \* tinyGC.sweep: root cursor while marking, handle cursor in sweep
  sweepLimit,  \* tinyGC.sweepLimit
  scan,        \* tinyGC.scan: the object being scanned, or poisoned in sweep
  color,       \* tinyGC.color: an epoch, plus the gray bit
  gray,        \* tinyGC.grayStack
  full         \* tinyCollectFull is running its loop

heap == <<used, field, frame, slot>>
vars == <<heap, top, state, rootPhase, markEpoch, sweep, sweepLimit, scan, color, gray, full>>

Heap == INSTANCE ManagedHeap WITH used <- used, field <- field, frame <- frame, slot <- slot,
                                  Handles <- Handles, Fields <- Fields, Slots <- Slots

NoScan == [handle |-> 0, index |-> 0]

(* A colour is an epoch with the gray bit above it. *)
GrayBit == EpochMask + 1
Colors  == 0..(2 * EpochMask + 1)

(* Fault: the epoch is not advanced. *)
NextEpochStays == markEpoch

NextEpoch == IF markEpoch = EpochMask THEN 0 ELSE markEpoch + 1
PrevEpoch == IF markEpoch = 0 THEN EpochMask ELSE markEpoch - 1

Black == markEpoch
Gray  == markEpoch + GrayBit
White == PrevEpoch

(* Any state that is not of the current epoch reads as white. *)
IsWhite(h) == color[h] \notin {Black, Gray}
IsGray(h)  == color[h] = Gray
IsBlack(h) == color[h] = Black

SweepActive == state = "sweep" \/ rootPhase = "sweepBarrier"
Pending == scan.handle # 0 \/ gray # {}

Init ==
  /\ used = {} /\ frame = {} /\ top = 0
  /\ field = [h \in Handles |-> Heap!Blank]
  /\ slot = [i \in Slots |-> 0]
  /\ state = "idle" /\ rootPhase = "none" /\ markEpoch = 0
  /\ sweep = 0 /\ sweepLimit = 0
  /\ scan = NoScan
  /\ color = [h \in Handles |-> 0]
  /\ gray = {} /\ full = FALSE

-----------------------------------------------------------------------------
(* Marking. *)

(* The handles of S that tinyMarkRef would queue: allocated and white. *)
ToShade(S) == {h \in S \cap used : IsWhite(h)}

(* The colours after the handles of W were queued gray. *)
Shaded(W) == [h \in Handles |-> IF h \in W THEN Gray ELSE color[h]]

(* The references of the persistent slots one root budget reaches. *)
RootChunk(cursor) ==
  {slot[i] : i \in {j \in Slots : cursor < j /\ j <= cursor + RootBudget}}

RootsDone(cursor) == NumSlots - cursor < RootBudget

RootCursor(cursor) == IF RootsDone(cursor) THEN 1 ELSE cursor + RootBudget
RootPhase(cursor)  == IF RootsDone(cursor) THEN "none" ELSE "slots"

(***************************************************************************)
(* One unit of tinyDrainGrayBudget, with the allocated handles u, the      *)
(* colours c, the gray set g and the fields fl as the caller left them:    *)
(* resume the active object or pop one, visit its next reference, blacken  *)
(* it after the last.                                                      *)
(***************************************************************************)
Drain(u, c, g, fl) ==
  \/ /\ scan.handle = 0 /\ g = {}
     /\ color' = c /\ gray' = g /\ scan' = scan
  \/ \E h \in IF scan.handle # 0 THEN {scan.handle} ELSE g :
       LET i    == IF scan.handle # 0 THEN scan.index ELSE 0
           done == i + 1 >= Width[h]
           W    == {x \in u : i < Width[h] /\ x = fl[h][i + 1] /\ c[x] \notin {Black, Gray}}
       IN /\ color' = [x \in Handles |-> IF x \in W THEN Gray
                                         ELSE IF x = h /\ done THEN Black ELSE c[x]]
          /\ gray' = (g \ {h}) \cup W
          /\ scan' = IF done THEN NoScan ELSE [handle |-> h, index |-> i + 1]

(***************************************************************************)
(* tinyStartMark: a new epoch turns every survivor white at once; a cycle  *)
(* that is cut short clears the colours instead.  The staged transient     *)
(* roots are marked, then the first budget of persistent slots.            *)
(***************************************************************************)
StartMark ==
  LET e     == IF state = "idle" THEN NextEpoch ELSE 1
      old   == IF state = "idle" THEN color
               ELSE [h \in Handles |-> 0]
      W     == {h \in (frame \cup RootChunk(0)) \cap used : old[h] \notin {e, e + GrayBit}}
  IN /\ ~(state = "sweep" /\ scan.handle # 0)
     /\ markEpoch' = e
     /\ color' = [h \in Handles |-> IF h \in W THEN e + GrayBit ELSE old[h]]
     /\ gray' = W
     /\ scan' = NoScan
     /\ state' = "mark"
     /\ rootPhase' = RootPhase(0)
     /\ sweep' = RootCursor(0)
     /\ sweepLimit' = 0
     /\ UNCHANGED <<heap, top>>

StepIdle == state = "idle" /\ StartMark /\ full' = full

(* Mark work that interrupted the sweep; when it is done the sweep resumes. *)
StepSweepBarrier ==
  /\ state = "mark" /\ rootPhase = "sweepBarrier"
  /\ Drain(used, color, gray, field)
  /\ IF scan'.handle = 0 /\ gray' = {}
     THEN state' = "sweep" /\ rootPhase' = "none"
     ELSE UNCHANGED <<state, rootPhase>>
  /\ UNCHANGED <<heap, top, markEpoch, sweep, sweepLimit, full>>

(* Mark: the persistent slots left over from the start of the cycle, one   *)
(* budget per Step; then the gray objects; then remark.                    *)
StepMark ==
  /\ state = "mark" /\ rootPhase # "sweepBarrier"
  /\ CASE rootPhase = "slots" ->
            LET W == ToShade(RootChunk(sweep))
            IN /\ color' = Shaded(W) /\ gray' = gray \cup W
               /\ rootPhase' = RootPhase(sweep) /\ sweep' = RootCursor(sweep)
               /\ UNCHANGED <<state, scan>>
       [] rootPhase # "slots" /\ Pending ->
            Drain(used, color, gray, field) /\ UNCHANGED <<state, rootPhase, sweep>>
       [] OTHER ->
            /\ state' = "remark" /\ rootPhase' = "transient" /\ sweep' = 0
            /\ UNCHANGED <<scan, color, gray>>
  /\ UNCHANGED <<heap, top, markEpoch, sweepLimit, full>>

(* Fault: the references the frames hold are not looked at again. *)
StepRemarkSkipsFrames ==
  /\ state = "remark"
  /\ LET cursor == IF rootPhase = "transient" THEN 0 ELSE sweep
         W      == ToShade(RootChunk(cursor))
     IN /\ color' = Shaded(W) /\ gray' = gray \cup W
        /\ rootPhase' = RootPhase(cursor)
        /\ sweep' = RootCursor(cursor)
        /\ CASE ~RootsDone(cursor) -> UNCHANGED <<state, sweepLimit>>
             [] RootsDone(cursor) /\ (Pending \/ W # {}) ->
                  state' = "mark" /\ sweepLimit' = sweepLimit
             [] OTHER -> state' = "sweep" /\ sweepLimit' = top + 1
  /\ UNCHANGED <<heap, top, markEpoch, scan, full>>

(* Fault: the sweep stops before the last handle. *)
StepRemarkShort ==
  /\ state = "remark"
  /\ LET cursor == IF rootPhase = "transient" THEN 0 ELSE sweep
         W      == ToShade(RootChunk(cursor) \cup (IF rootPhase = "transient" THEN frame ELSE {}))
     IN /\ color' = Shaded(W) /\ gray' = gray \cup W
        /\ rootPhase' = RootPhase(cursor)
        /\ sweep' = RootCursor(cursor)
        /\ CASE ~RootsDone(cursor) -> UNCHANGED <<state, sweepLimit>>
             [] RootsDone(cursor) /\ (Pending \/ W # {}) ->
                  state' = "mark" /\ sweepLimit' = sweepLimit
             [] OTHER -> state' = "sweep" /\ sweepLimit' = top
  /\ UNCHANGED <<heap, top, markEpoch, scan, full>>

(***************************************************************************)
(* Remark: the transient roots in one go, then the persistent slots, one   *)
(* budget per Step.  When the slots are done, anything left to mark goes   *)
(* back to mark; otherwise the sweep starts.                               *)
(***************************************************************************)
StepRemark ==
  /\ state = "remark"
  /\ LET cursor == IF rootPhase = "transient" THEN 0 ELSE sweep
         W      == ToShade(RootChunk(cursor) \cup (IF rootPhase = "transient" THEN frame ELSE {}))
     IN /\ color' = Shaded(W) /\ gray' = gray \cup W
        /\ rootPhase' = RootPhase(cursor)
        /\ sweep' = RootCursor(cursor)
        /\ CASE ~RootsDone(cursor) -> UNCHANGED <<state, sweepLimit>>
             [] RootsDone(cursor) /\ (Pending \/ W # {}) ->
                  state' = "mark" /\ sweepLimit' = sweepLimit
             [] OTHER -> state' = "sweep" /\ sweepLimit' = top + 1
  /\ UNCHANGED <<heap, top, markEpoch, scan, full>>

-----------------------------------------------------------------------------
(* Sweep. *)

(* Release of a white handle: free, or freeTinyPrepoisoned.  Unless it is  *)
(* poisoned the payload stays where it is; here the fields become blank,   *)
(* as nothing reads them before the constructor of the next object at h    *)
(* has written every one.                                                  *)
Release(h) ==
  /\ used' = used \ {h}
  /\ field' = [field EXCEPT ![h] = Heap!Blank]
  /\ color' = [color EXCEPT ![h] = White]
  /\ UNCHANGED <<frame, slot>>

(* tinyFinishCycle; it also ends the loop of tinyCollectFull. *)
FinishCycle ==
  /\ gray' = {} /\ scan' = NoScan
  /\ state' = "idle" /\ rootPhase' = "none"
  /\ sweep' = 1 /\ sweepLimit' = 0 /\ full' = FALSE
  /\ UNCHANGED <<heap, color>>

(* A store made gray objects behind the cursor: they are marked first. *)
SweepYields ==
  /\ scan.handle = 0 /\ gray # {}
  /\ state' = "mark" /\ rootPhase' = "sweepBarrier"
  /\ UNCHANGED <<heap, sweep, sweepLimit, scan, color, gray, full>>

(* One more piece of the object being poisoned; the last one frees it. *)
SweepPoisons ==
  LET h == scan.handle
  IN /\ h = sweep /\ h \in used /\ IsWhite(h) /\ scan.index < Chunks[h]
     /\ IF scan.index + 1 < Chunks[h]
        THEN /\ scan' = [scan EXCEPT !.index = @ + 1]
             /\ UNCHANGED <<heap, sweep, color, state, rootPhase>>
        ELSE /\ scan' = NoScan
             /\ sweep' = sweep + 1
             /\ Release(h)
             /\ IF gray # {} THEN state' = "mark" /\ rootPhase' = "sweepBarrier"
                ELSE UNCHANGED <<state, rootPhase>>
     /\ UNCHANGED <<sweepLimit, gray, full>>

(* The handle under the cursor: free, kept, freed or about to be poisoned. *)
SweepOne ==
  LET h == sweep
  IN /\ scan.handle = 0 /\ gray = {} /\ h < sweepLimit
     /\ h \in used => ~IsGray(h)
     /\ IF h \in used /\ IsWhite(h)
        THEN IF Chunks[h] > 0
             THEN /\ scan' = [handle |-> h, index |-> 0]
                  /\ UNCHANGED <<heap, sweep, color>>
             ELSE /\ sweep' = sweep + 1
                  /\ Release(h)
                  /\ scan' = scan
        ELSE /\ sweep' = sweep + 1
             /\ UNCHANGED <<heap, color, scan>>
     /\ UNCHANGED <<state, rootPhase, sweepLimit, gray, full>>

(* tinySweepBudget, one handle's worth. *)
StepSweep ==
  /\ state = "sweep"
  /\ sweepLimit # 0 /\ sweepLimit <= top + 1
  /\ \/ SweepYields
     \/ SweepPoisons
     \/ SweepOne
     \/ scan.handle = 0 /\ gray = {} /\ sweep >= sweepLimit /\ FinishCycle
  /\ UNCHANGED <<top, markEpoch>>

Step == StepIdle \/ StepSweepBarrier \/ StepMark \/ StepRemark \/ StepSweep

(* tinyCollectFull: restart marking, then Step until idle, the mutator waiting. *)
CollectFull == ~full /\ StartMark /\ full' = TRUE

-----------------------------------------------------------------------------
(* The mutator.  It only ever names references its frames hold. *)

(* validateStoredRef: what a checked store accepts. *)
Storable(v) ==
  v # 0 =>
    /\ v \in used
    /\ SweepActive => /\ ~(state = "sweep" /\ scan.handle = v)
                      /\ IsWhite(v) => Width[v] = 0

Operands == {v \in frame \cup {0} : Storable(v)}

(* tinyMarkSweepRef and tinyPostAlloc: gray work stops a sweep that is not poisoning. *)
Interrupts(W) == state = "sweep" /\ scan.handle = 0 /\ W # {}

Interrupt(cond) ==
  IF cond THEN state' = "mark" /\ rootPhase' = "sweepBarrier"
  ELSE UNCHANGED <<state, rootPhase>>

(* Fault: the barrier looks at gray parents only. *)
BarrierShadesGray(p, v) ==
  IF state = "idle" \/ ToShade({v}) = {} \/ p \notin used \/ ~IsGray(p) THEN {} ELSE {v}

(* What tinyWriteBarrierObject queues after v was stored in p. *)
BarrierShades(p, v) ==
  IF state = "idle" \/ ToShade({v}) = {} \/ p \notin used \/ IsWhite(p) THEN {}
  ELSE IF IsGray(p) \/ state = "sweep" THEN {v}
  ELSE {v, p}

(* What WriteBarrierSlot and WriteBarrierRoot queue. *)
RootShades(v) == IF state = "idle" THEN {} ELSE ToShade({v})

(* StructSet, ArraySet and one element of ArrayCopy. *)
StructSet(p, f, v) ==
  /\ p \in used /\ f <= Width[p] /\ v \in Operands
  /\ field' = [field EXCEPT ![p][f] = v]
  /\ LET W == BarrierShades(p, v)
     IN /\ color' = Shaded(W) /\ gray' = gray \cup W
        /\ Interrupt(Interrupts(W) /\ IsBlack(p))
  /\ UNCHANGED <<used, frame, slot, top, markEpoch, sweep, sweepLimit, scan, full>>

(* PostBulkWriteBarrier after W was queued: in mark and remark it also drains. *)
BulkDrain(u, c, g, fl, interrupted) ==
  IF interrupted \/ state \in {"mark", "remark"} THEN Drain(u, c, g, fl)
  ELSE color' = c /\ gray' = g /\ scan' = scan

(* arrayFill of the range F, then the bulk barrier, which reads it back. *)
ArrayFill(p, F, v) ==
  /\ p \in used /\ (\A f \in F : f <= Width[p]) /\ v \in Operands
  /\ LET W  == BarrierShades(p, v)
         fl == [field EXCEPT ![p] = [f \in Fields |-> IF f \in F THEN v ELSE @[f]]]
         stop == Interrupts(W) /\ IsBlack(p)
     IN /\ field' = fl
        /\ Interrupt(stop)
        /\ BulkDrain(used, Shaded(W), gray \cup W, fl, stop)
  /\ UNCHANGED <<used, frame, slot, top, markEpoch, sweep, sweepLimit, full>>

(* Fault: what is still white counts as released before the sweep gets to it. *)
FreeHandlesUnswept == IF \E h \in 1..top : IsWhite(h) THEN {h \in 1..top : IsWhite(h)}
                      ELSE {h \in Handles : h = top + 1}

(* newHandle: a released handle before a fresh one. *)
FreeHandles == IF used # 1..top THEN (1..top) \ used
               ELSE {h \in Handles : h = top + 1}

(* What tinyPostAlloc queues: a pointerful object allocated inside a cycle. *)
Newborn(h) == IF state # "idle" /\ Width[h] > 0 THEN {h} ELSE {}

Publish(h) ==
  /\ used' = used \cup {h}
  /\ frame' = frame \cup {h}
  /\ top' = IF h > top THEN h ELSE top
  /\ UNCHANGED <<slot, markEpoch, sweep, sweepLimit, full>>

(* Fault: a new object gets the colour of the last epoch. *)
ColoredWhite(h, W) == [x \in Handles |-> IF x \in W THEN Gray ELSE IF x = h THEN White ELSE color[x]]

(* tinyPostAlloc: black outside a cycle and for what has no references. *)
Colored(h, W) == [x \in Handles |-> IF x \in W THEN Gray ELSE IF x = h THEN Black ELSE color[x]]

(* NewStruct: publish, colour, then store the operands. *)
NewStruct(h) ==
  /\ \E init \in [1..Width[h] -> Operands] :
       field' = [field EXCEPT ![h] = [f \in Fields |-> IF f <= Width[h] THEN init[f] ELSE 0]]
  /\ color' = Colored(h, Newborn(h))
  /\ gray' = gray \cup Newborn(h)
  /\ Interrupt(Interrupts(Newborn(h)))
  /\ Publish(h)
  /\ UNCHANGED scan

(* NewArray: as NewStruct with one value, then the bulk barrier. *)
NewArray(h, v) ==
  /\ Width[h] > 0 /\ v \in Operands
  /\ LET W    == IF state = "idle" THEN {} ELSE {h} \cup ToShade({v})
         stop == Interrupts(Newborn(h))
         fl   == [field EXCEPT ![h] = [f \in Fields |-> IF f <= Width[h] THEN v ELSE 0]]
     IN /\ field' = fl
        /\ Interrupt(stop)
        /\ BulkDrain(used \cup {h}, Colored(h, W), gray \cup W, fl, stop)
  /\ Publish(h)

(* SetGlobalSlot and SetTableSlot; an unchanged value is not published again. *)
SetSlot(i, v) ==
  /\ slot[i] # v /\ v \in Operands
  /\ slot' = [slot EXCEPT ![i] = v]
  /\ color' = Shaded(RootShades(v)) /\ gray' = gray \cup RootShades(v)
  /\ Interrupt(Interrupts(RootShades(v)))
  /\ UNCHANGED <<used, field, frame, top, markEpoch, sweep, sweepLimit, scan, full>>

(* WriteBarrierRoot: a store to a root the collector does not own. *)
PublishRoot(v) ==
  /\ v \in used
  /\ color' = Shaded(RootShades(v)) /\ gray' = gray \cup RootShades(v)
  /\ Interrupt(Interrupts(RootShades(v)))
  /\ UNCHANGED <<heap, top, markEpoch, sweep, sweepLimit, scan, full>>

(* Loads, and frames that drop a reference: no barrier. *)
Load(r) ==
  /\ r # 0 /\ r \notin frame
  /\ frame' = frame \cup {r}
  /\ UNCHANGED <<used, field, slot, top, state, rootPhase, markEpoch, sweep, sweepLimit,
                 scan, color, gray, full>>

Forget(h) ==
  /\ frame' = frame \ {h}
  /\ UNCHANGED <<used, field, slot, top, state, rootPhase, markEpoch, sweep, sweepLimit,
                 scan, color, gray, full>>

Ranges == {a..b : a, b \in Fields} \ {{}}

Mutate ==
  /\ ~full
  /\ \/ \E p \in frame, f \in Fields, v \in frame \cup {0} : StructSet(p, f, v)
     \/ \E p \in frame, F \in Ranges, v \in frame \cup {0} : ArrayFill(p, F, v)
     \/ \E h \in FreeHandles : NewStruct(h)
     \/ \E h \in FreeHandles, v \in frame \cup {0} : NewArray(h, v)
     \/ \E i \in Slots, v \in frame \cup {0} : SetSlot(i, v)
     \/ \E v \in frame : PublishRoot(v)
     \/ \E p \in frame, f \in Fields : Load(field[p][f])
     \/ \E i \in Slots : Load(slot[i])
     \/ \E h \in frame : Forget(h)

Next == Step \/ CollectFull \/ Mutate

Spec == Init /\ [][Next]_vars

(* Allocation pays its debt in Steps, and tinyCollectFull loops until idle. *)
FairSpec == Spec /\ WF_vars(Step)

-----------------------------------------------------------------------------
(* The variables hold what the code's fields can hold. *)
TypeOK ==
  /\ used \in SUBSET Handles /\ frame \in SUBSET Handles /\ gray \in SUBSET Handles
  /\ field \in [Handles -> [Fields -> Heap!Refs]]
  /\ slot \in [Slots -> Heap!Refs]
  /\ top \in 0..MaxHandle
  /\ state \in {"idle", "mark", "remark", "sweep"}
  /\ rootPhase \in {"none", "transient", "slots", "sweepBarrier"}
  /\ markEpoch \in 0..EpochMask
  /\ sweep \in Nat /\ sweepLimit \in 0..MaxHandle + 1
  /\ scan \in [handle : 0..MaxHandle, index : Nat]
  /\ color \in [Handles -> Colors]
  /\ full \in BOOLEAN

(* Nothing the program can still reach from a frame, a global or a table   *)
(* has been freed: tinySweepBudget only frees what is white, and white     *)
(* must mean unreachable whatever the mutator did between the Steps.       *)
LiveIsKept == Heap!Live \subseteq used

(* Every step of the collector and of the program is a step the managed    *)
(* heap promises: the collector never alters a field, a frame or a slot,   *)
(* and what it frees was unreachable.                                      *)
ImplementsHeap == Heap!Spec

(* Inside a cycle no black object refers to a white one, and neither does  *)
(* the part of a half-scanned object that the cursor has passed: the       *)
(* post-write barriers of barrier.go repair every store that would.        *)
NoBlackToWhite ==
  state # "idle" =>
    \A h \in used : \A f \in Fields :
      field[h][f] # 0 /\ (\/ IsBlack(h)
                          \/ state # "sweep" /\ scan.handle = h /\ f <= scan.index)
        => field[h][f] \in used /\ ~IsWhite(field[h][f])

(* verifyTiny: gray objects are exactly the queued ones and the one being  *)
(* scanned, each once, and between cycles every object is black, so that   *)
(* one epoch step whitens them all.                                        *)
ColorsAreExact ==
  LET active == IF state # "sweep" /\ scan.handle # 0 THEN {scan.handle} ELSE {}
  IN /\ {h \in used : IsGray(h)} = gray \cup active
     /\ gray \cap active = {}
     /\ state = "idle" => \A h \in used : IsBlack(h)

(* No Step ends in one of tinySweepBudget's internal errors: an invalid    *)
(* limit, a poison cursor on the wrong object, a gray object under the     *)
(* sweep cursor.                                                           *)
SweepNeverFails ==
  state = "sweep" =>
    /\ sweepLimit # 0 /\ sweepLimit <= top + 1
    /\ scan.handle # 0 => /\ scan.handle = sweep /\ scan.handle \in used
                          /\ IsWhite(scan.handle) /\ scan.index < Chunks[scan.handle]
    /\ (scan.handle = 0 /\ gray = {} /\ sweep < sweepLimit /\ sweep \in used)
         => ~IsGray(sweep)

(* Garbage does not stay: an object the program lost is freed, however the *)
(* program keeps running between the Steps.                                *)
GarbageIsReclaimed ==
  \A h \in Handles : (h \in used \ Heap!Live) ~> (h \notin used)

=============================================================================
