----------------------- MODULE GenerationalCollector -----------------------
(***************************************************************************)
(* The Throughput profile of the WasmGC collector: a moving nursery with   *)
(* two survivor spaces, an old space, large objects that age in place, a   *)
(* remembered set with dirty cards, minor and full collections             *)
(* (src/core/runtime/gc/native/alloc.go, barrier.go, collect.go, mark.go,  *)
(* cards.go, survivor.go, object_access.go).                               *)
(*                                                                         *)
(* A collection is synchronous, so it is one action.  An allocation may    *)
(* run several collections before it succeeds or gives up, and is one      *)
(* action for each of its stages, with the mutator waiting in between.     *)
(* Sizes, addresses and ages are abstracted: whether an object fits        *)
(* somewhere is left open, and so is which survivors of a minor collection *)
(* stay young, since both the survivor room and the tenuring threshold     *)
(* vary with the bytes adaptTenuring counts.  nurseryHandles is the set    *)
(* Young: every change of one is a change of the other.                    *)
(***************************************************************************)
EXTENDS Integers

CONSTANTS Handles,    \* object identities; 0 is the null reference
          MaxWidth,   \* the largest number of reference fields
          Width,      \* Width[h]: reference fields of the objects at handle h
          NumSlots,   \* persistent root slots: globals and tables
          NumCards,   \* cards of an object's payload
          CardOf      \* CardOf[f]: the card that holds field f

Fields == 1..MaxWidth
Slots  == 1..NumSlots
Cards  == 1..NumCards

ASSUME HeapAssumption ==
  /\ 0 \notin Handles
  /\ MaxWidth \in Nat /\ NumSlots \in Nat /\ NumCards \in Nat
  /\ Width \in [Handles -> 0..MaxWidth]
  /\ CardOf \in [Fields -> Cards]

VARIABLES
  space,         \* handles[h].space: "nursery" is Eden or a survivor space,
                 \* "large" a young large object, "old" also a tenured large one
  field,         \* field[h][f], 0 for null
  frame,         \* the references held by frames
  slot,          \* globalSlots followed by tableSlots
  mark,          \* the handles with a mark bit
  remembered,    \* the remembered parents
  cards,         \* cards[h]: the dirty cards linked from handles[h].cardSlot
  cardFallback,  \* cardFallback
  slotCards,     \* slotCards
  fullSince,     \* stats.FullCollections # lastFullCollections
  moving,        \* ~cfg.DisableMovingNursery
  job            \* the allocation in progress

heap   == <<space, field, frame, slot>>
dirty  == <<remembered, cards, cardFallback, slotCards>>
vars   == <<heap, mark, dirty, fullSince, moving, job>>

NoJob == [step |-> "none", large |-> FALSE, args |-> {}]

Used  == {h \in Handles : space[h] # "free"}
Old   == {h \in Handles : space[h] = "old"}
Young == Used \ Old

(* The exact roots a collection is given: the frames, and what only the    *)
(* arguments of the constructor that is allocating still hold.             *)
Held == frame \cup job.args

Heap == INSTANCE ManagedHeap WITH used <- Used, field <- field, frame <- Held, slot <- slot,
                                  Handles <- Handles, Fields <- Fields, Slots <- Slots

Init ==
  /\ space = [h \in Handles |-> "free"]
  /\ field = [h \in Handles |-> Heap!Blank]
  /\ frame = {} /\ slot = [i \in Slots |-> 0]
  /\ mark = {}
  /\ remembered = {} /\ cards = [h \in Handles |-> {}]
  /\ cardFallback = FALSE /\ slotCards = {}
  /\ moving \in BOOLEAN
  /\ fullSince = FALSE
  /\ job = NoJob

-----------------------------------------------------------------------------
(* Remembered set and cards. *)

(* handleContainsNurseryRef, with the fields fl and the young handles y. *)
PointsInto(h, fl, y) == \E f \in Fields : fl[h][f] \in y

(* payloadRangeContainsYoung over the dirty cards cs. *)
CardsPointInto(h, cs, fl, y) == \E f \in Fields : CardOf[f] \in cs /\ fl[h][f] \in y

(* The cards from the first to the last field of F. *)
CardRange(F) == {c \in Cards : \E f, g \in F : CardOf[f] <= c /\ c <= CardOf[g]}

(* addObjectCardRange extends a range that overlaps or touches the new one. *)
Touches(C, D) == \E c \in C, d \in D : c \in (d - 1)..(d + 1)

(* Fault: a first card that finds no room is just dropped. *)
AddCardsDropped(h, C) ==
  /\ cards' \in {cards, [cards EXCEPT ![h] = @ \cup C]}
  /\ cardFallback' = cardFallback

(***************************************************************************)
(* addObjectCardRange for an old object h, just remembered.  A new range   *)
(* may find no room: an existing range is then widened to the whole object *)
(* and, when there is none, every scan falls back to whole objects.        *)
(***************************************************************************)
AddCards(h, C) ==
  \/ /\ cards' = [cards EXCEPT ![h] = @ \cup C]
     /\ cardFallback' = cardFallback
  \/ /\ ~Touches(cards[h], C)
     /\ IF cards[h] # {}
        THEN cards' = [cards EXCEPT ![h] = Cards] /\ cardFallback' = cardFallback
        ELSE cards' = cards /\ cardFallback' = TRUE

(* remember, and then the cards of the stored range. *)
Remember(h, C) ==
  /\ remembered' = remembered \cup {h}
  /\ AddCards(h, C)
  /\ slotCards' = slotCards

-----------------------------------------------------------------------------
(* Collections. *)

(* What a minor collection scans of a remembered parent: its dirty cards,  *)
(* or everything when there are none or they are not to be trusted.        *)
ScannedFields(h) ==
  {f \in Fields : cardFallback \/ cards[h] = {} \/ CardOf[f] \in cards[h]}

(* The references markNurseryRoots and the remembered parents give. *)
MinorRoots ==
  Held \cup {slot[i] : i \in {j \in Slots : cardFallback \/ j \in slotCards}}
       \cup {r \in Handles : \E h \in remembered \cap Old : \E f \in ScannedFields(h) :
                               r = field[h][f]}

(* Fault: the marks a full collection left on young objects are not cleared. *)
MinorMarksStale == mark

(* Mark bits as a minor collection finds them. *)
MinorMarks == IF fullSince THEN mark \ Young ELSE mark

(* The young handles markNurseryRef may still push. *)
Unmarked == Young \ MinorMarks

(* The handles a minor collection pushes: the least set with the unmarked  *)
(* roots and, with an object, the unmarked young objects it refers to.     *)
Traced ==
  {h \in Unmarked : \A S \in SUBSET Handles :
     (/\ MinorRoots \cap Unmarked \subseteq S
      /\ \A x \in S : \A f \in Fields : field[x][f] \in Unmarked => field[x][f] \in S)
     => h \in S}

Survivors == Young \cap (MinorMarks \cup Traced)

(* The survivors that may stay young: with a moving nursery any, because   *)
(* of their age and of the room in the survivor space.                     *)
Fits(kept) == IF moving THEN SUBSET kept ELSE {{}}

(* clearRememberedMetadata and clearCardMetadata. *)
ClearDirty ==
  /\ remembered' = {} /\ cards' = [h \in Handles |-> {}]
  /\ cardFallback' = FALSE /\ slotCards' = {}

(* The remembering of commitPromotionPlans and finishMinorCardMetadata:    *)
(* parents and slots without a young reference left are dropped.           *)
FinishMinorCards(tenured, parents, bad, fit) ==
  LET fall   == cardFallback \/ bad # {}
      carded == [h \in Handles |-> IF h \in parents \ bad THEN Cards ELSE cards[h]]
      stay   == {h \in (remembered \cup parents) \cap (Old \cup tenured) :
                   IF fall THEN PointsInto(h, field, fit)
                   ELSE carded[h] # {} => CardsPointInto(h, carded[h], field, fit)}
  IN /\ remembered' = stay
     /\ cards' = [h \in Handles |->
                    IF h \in (remembered \cup parents) \ stay THEN {} ELSE carded[h]]
     /\ cardFallback' = fall
     /\ slotCards' = IF fall THEN slotCards ELSE {i \in slotCards : slot[i] \in fit}

(* Fault: the payload of a promoted object is not copied. *)
MinorSucceedsBare(kept, fit) ==
  /\ space' = [h \in Handles |-> IF h \in Young \ kept THEN "free"
                                 ELSE IF h \in kept \ fit THEN "old" ELSE space[h]]
  /\ field' = [h \in Handles |-> IF h \in Young \ fit THEN Heap!Blank ELSE field[h]]
  /\ mark' = MinorMarks \ Young
  /\ UNCHANGED <<dirty, fullSince, frame, slot, moving>>

(***************************************************************************)
(* A minor collection that succeeds, fit being the survivors that stay     *)
(* young.  A tenured parent of one of them is remembered with all its      *)
(* cards, unless (bad) they cannot be recorded:                            *)
(* promoteNursery, commitPromotionPlans, finishMinorEvacuation,            *)
(* finishMinorCardMetadata, and the full-collection count of adaptTenuring.*)
(***************************************************************************)
MinorSucceeds(kept, fit) ==
  LET dead    == Young \ kept
      tenured == kept \ fit
      parents == IF fit = {} THEN {} ELSE {h \in tenured : PointsInto(h, field, Young \ tenured)}
  IN /\ space' = [h \in Handles |-> IF h \in dead THEN "free"
                                    ELSE IF h \in tenured THEN "old" ELSE space[h]]
     /\ field' = [h \in Handles |-> IF h \in dead THEN Heap!Blank ELSE field[h]]
     /\ mark' = MinorMarks \ Young
     /\ IF fit = {} THEN ClearDirty
        ELSE \E bad \in SUBSET parents : FinishMinorCards(tenured, parents, bad, fit)
     /\ fullSince' = (fullSince /\ ~moving)
     /\ UNCHANGED <<frame, slot, moving>>

(* A minor collection that finds no room in the old space for a survivor   *)
(* of the nursery: nothing has moved.                                      *)
MinorFails ==
  /\ \E h \in Survivors : space[h] = "nursery"
  /\ mark' = MinorMarks \ Young
  /\ UNCHANGED <<heap, dirty, fullSince, moving>>

(* markRoots and drainMarkStack: everything reachable. *)
FullMarks ==
  {h \in Used : \A S \in SUBSET Handles :
     (/\ (Held \cup {slot[i] : i \in Slots}) \cap Used \subseteq S
      /\ \A x \in S : \A f \in Fields : field[x][f] \in Used => field[x][f] \in S)
     => h \in S}

(* A full collection that finds the handles of live marked: sweepAll,      *)
(* pruneRemembered, finishFullCardMetadata.                                *)
Full(live) ==
  LET dead  == Used \ live
      young == Young \ dead
      stay  == {h \in (remembered \cap Old) \ dead : PointsInto(h, field, young)}
  IN /\ space' = [h \in Handles |-> IF h \in dead THEN "free" ELSE space[h]]
     /\ field' = [h \in Handles |-> IF h \in dead THEN Heap!Blank ELSE field[h]]
     /\ mark' = live
     /\ IF young = {} THEN ClearDirty
        ELSE /\ remembered' = stay
             /\ cards' = [h \in Handles |->
                            IF h \in dead \cup (remembered \ stay) THEN {} ELSE cards[h]]
             /\ UNCHANGED <<cardFallback, slotCards>>
     /\ fullSince' = TRUE
     /\ UNCHANGED <<frame, slot, moving>>

Minor == \E kept \in {Survivors} : \E fit \in Fits(kept) : MinorSucceeds(kept, fit)

(* CollectMinor and CollectFull as the embedder calls them. *)
CollectMinor == job = NoJob /\ (Minor \/ MinorFails) /\ job' = job
CollectFull  == job = NoJob /\ Full(FullMarks) /\ job' = job

-----------------------------------------------------------------------------
(* Allocation. *)

(***************************************************************************)
(* The object is placed in Eden or in the large space and its operands are *)
(* stored; some of them the caller has popped.  When it is born old, the   *)
(* constructor reconciles the remembered set: an array always, a struct    *)
(* when it refers to something young.                                      *)
(***************************************************************************)
Place(h, init, large, array, popped) ==
  LET born == IF ~large THEN "nursery" ELSE IF moving THEN "large" ELSE "old"
  IN /\ space[h] = "free"
     /\ \A f \in Fields : f > Width[h] => init[f] = 0
     /\ space' = [space EXCEPT ![h] = born]
     /\ field' = [field EXCEPT ![h] = init]
     /\ frame' = (frame \ popped) \cup {h}
     /\ IF born = "old" /\ (array \/ \E f \in Fields : init[f] \in Young)
        THEN Remember(h, Cards)
        ELSE UNCHANGED dirty
     /\ job' = NoJob
     /\ UNCHANGED <<slot, mark, fullSince, moving>>

(* newStructWithRoots and the array constructors, when there is room. *)
Construct ==
  /\ job = NoJob
  /\ \E h \in Handles, init \in [Fields -> Held \cup {0}], popped \in SUBSET frame,
        large, array \in BOOLEAN : Place(h, init, large, array, popped)

(* When there is none, a small object asks for a minor collection and a    *)
(* large one for a full one, with the operands rooted by the call.         *)
Exhausted ==
  /\ job = NoJob
  /\ \E large \in BOOLEAN, popped \in SUBSET frame :
       /\ job' = [step |-> IF large THEN "full" ELSE "minor", large |-> large, args |-> popped]
       /\ frame' = frame \ popped
  /\ UNCHANGED <<space, field, slot, mark, dirty, fullSince, moving>>

(* The second attempt, after the collections. *)
Again ==
  /\ job.step = "again"
  /\ \E h \in Handles, init \in [Fields -> Held \cup {0}], array \in BOOLEAN :
       Place(h, init, job.large, array, {})

(* Still no room: the allocation fails. *)
GiveUp ==
  /\ job.step = "again"
  /\ job' = NoJob
  /\ UNCHANGED <<heap, mark, dirty, fullSince, moving>>

(* The minor collection of an allocation, and the second one of            *)
(* retryAllocationMinorAfterPromotionFailure.                              *)
AllocMinor ==
  /\ job.step \in {"minor", "retry"}
  /\ \/ Minor /\ job' = [job EXCEPT !.step = "again"]
     \/ /\ MinorFails
        /\ job' = IF job.step = "minor" THEN [job EXCEPT !.step = "full"] ELSE NoJob

(* The full collection of an allocation. *)
AllocFull ==
  /\ job.step = "full"
  /\ Full(FullMarks)
  /\ job' = [job EXCEPT !.step = IF job.large THEN "again" ELSE "retry"]

-----------------------------------------------------------------------------
(* The mutator. *)

(* StructSet and ArraySet: writeBarrierObjectRange after the store. *)
StructSet(p, f, v) ==
  /\ f <= Width[p]
  /\ field' = [field EXCEPT ![p][f] = v]
  /\ IF p \in Old /\ v \in Young THEN Remember(p, {CardOf[f]}) ELSE UNCHANGED dirty
  /\ UNCHANGED <<space, frame, slot, mark, fullSince, moving, job>>

(* arrayFill and ArrayCopy: PostBulkWriteBarrier after the whole range F. *)
BulkStore(p, F, new) ==
  /\ \A f \in F : f <= Width[p]
  /\ field' = [field EXCEPT ![p] = [f \in Fields |-> IF f \in F THEN new[f] ELSE @[f]]]
  /\ IF p \in Old THEN Remember(p, CardRange(F)) ELSE UNCHANGED dirty
  /\ UNCHANGED <<space, frame, slot, mark, fullSince, moving, job>>

(* SetGlobalSlot and SetTableSlot, with WriteBarrierSlot and addSlotCard. *)
SetSlot(i, v) ==
  /\ slot[i] # v
  /\ slot' = [slot EXCEPT ![i] = v]
  /\ \/ /\ slotCards' = slotCards \cup (IF v \in Young THEN {i} ELSE {})
        /\ cardFallback' = cardFallback
     \/ /\ v \in Young /\ i \notin slotCards
        /\ slotCards' = slotCards /\ cardFallback' = TRUE
  /\ UNCHANGED <<space, field, frame, mark, remembered, cards, fullSince, moving, job>>

(* ForcePromote: tenure one object now, whatever its age. *)
ForcePromote(h) ==
  /\ space' = [space EXCEPT ![h] = "old"]
  /\ IF PointsInto(h, field, Young \ {h}) THEN Remember(h, Cards) ELSE UNCHANGED dirty
  /\ UNCHANGED <<field, frame, slot, mark, fullSince, moving, job>>

Load(r) ==
  /\ r # 0 /\ r \notin frame
  /\ frame' = frame \cup {r}
  /\ UNCHANGED <<space, field, slot, mark, dirty, fullSince, moving, job>>

Forget(h) ==
  /\ frame' = frame \ {h}
  /\ UNCHANGED <<space, field, slot, mark, dirty, fullSince, moving, job>>

Values == frame \cup {0}
Ranges == {a..b : a, b \in Fields} \ {{}}
Shifts == (1 - MaxWidth)..(MaxWidth - 1)

Mutate ==
  /\ job = NoJob
  /\ \/ \E p \in frame, f \in Fields, v \in Values : StructSet(p, f, v)
     \/ \E p \in frame, F \in Ranges, v \in Values :
          BulkStore(p, F, [f \in F |-> v])
     \/ \E p, q \in frame, F \in Ranges, d \in Shifts :
          /\ \A f \in F : f + d \in 1..Width[q]
          /\ BulkStore(p, F, [f \in F |-> field[q][f + d]])
     \/ \E i \in Slots, v \in Values : SetSlot(i, v)
     \/ \E h \in frame : ForcePromote(h)
     \/ \E p \in frame, f \in Fields : Load(field[p][f])
     \/ \E i \in Slots : Load(slot[i])
     \/ \E h \in frame : Forget(h)

Allocate == Construct \/ Exhausted \/ AllocMinor \/ AllocFull \/ Again \/ GiveUp

Next == CollectMinor \/ CollectFull \/ Allocate \/ Mutate

Spec == Init /\ [][Next]_vars

-----------------------------------------------------------------------------
(* The variables hold what the code's fields can hold. *)
TypeOK ==
  /\ space \in [Handles -> {"free", "nursery", "large", "old"}]
  /\ field \in [Handles -> [Fields -> Heap!Refs]]
  /\ frame \in SUBSET Handles /\ slot \in [Slots -> Heap!Refs]
  /\ mark \in SUBSET Handles
  /\ remembered \in SUBSET Handles /\ cards \in [Handles -> SUBSET Cards]
  /\ cardFallback \in BOOLEAN /\ slotCards \in SUBSET Slots
  /\ fullSince \in BOOLEAN /\ moving \in BOOLEAN
  /\ job \in [step : {"none", "minor", "full", "retry", "again"},
              large : BOOLEAN, args : SUBSET Handles]

(* No reference the program or any allocated object holds, not even an     *)
(* unreachable one, names a freed handle: a recycled handle can therefore  *)
(* never be mistaken for the object that used to live there.               *)
NothingDangles ==
  /\ Held \subseteq Used
  /\ \A i \in Slots : slot[i] \in Used \cup {0}
  /\ \A h \in Used : \A f \in Fields : field[h][f] \in Used \cup {0}

(* verifyRememberedShadow: a minor collection would find every reference   *)
(* from an old object or a persistent slot to a young object, whatever     *)
(* promotions, failed card growth and pruning happened since it was        *)
(* stored.                                                                 *)
RememberedIsComplete ==
  /\ \A h \in Old : \A f \in Fields :
       field[h][f] \in Young => h \in remembered /\ f \in ScannedFields(h)
  /\ \A i \in Slots : slot[i] \in Young => cardFallback \/ i \in slotCards

(* Every step is one the managed heap promises: moving, promoting and      *)
(* ageing are invisible to the program, an allocation that fails changes   *)
(* nothing, and what a minor or a full collection frees was unreachable.   *)
ImplementsHeap == Heap!Spec

=============================================================================
