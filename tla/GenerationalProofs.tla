------------------------- MODULE GenerationalProofs -------------------------
(***************************************************************************)
(* Proofs about the generational collector for every number of handles,    *)
(* fields, slots and cards.  The heart is that a set of dead objects no    *)
(* root and no surviving object refers to may be freed (Separated); a full *)
(* collection finds such a set by itself, a minor collection because the   *)
(* remembered set is complete and no young object starts out marked.       *)
(***************************************************************************)
EXTENDS GenerationalCollector, TLAPS

(* A handle with a mark is allocated; a young one only since the last full *)
(* collection.                                                             *)
MarksOK == mark \subseteq Used /\ (~fullSince => mark \cap Young = {})

(* Outside an allocation no argument is held. *)
JobOK == job.step = "none" => job.args = {}

(* A remembered object without cards is scanned whole only until a card is *)
(* added, so the fallback must be on.                                      *)
CardsOK == \A h \in remembered : Fields # {} /\ cards[h] = {} => cardFallback

(* The inductive invariant. *)
IInv == TypeOK /\ NothingDangles /\ RememberedIsComplete /\ MarksOK /\ CardsOK /\ JobOK

(* A minor collection scans field f of h; it reads slot i. *)
Covered(h, f) == h \in remembered /\ f \in ScannedFields(h)
SlotCovered(i) == cardFallback \/ i \in slotCards

(* The remembered set and the cards still cover what they covered. *)
DirtyKept ==
  /\ remembered' \in SUBSET Handles /\ cards' \in [Handles -> SUBSET Cards]
  /\ cardFallback' \in BOOLEAN /\ slotCards' \in SUBSET Slots
  /\ CardsOK'
  /\ \A h \in Handles, f \in Fields : Covered(h, f) => Covered(h, f)'
  /\ \A i \in Slots : SlotCovered(i) => SlotCovered(i)'

(* No root and no object outside D refers to an object of D. *)
Separated(D) ==
  /\ Held \cap D = {}
  /\ \A i \in Slots : slot[i] \notin D
  /\ \A h \in Used \ D : \A f \in Fields : field[h][f] \notin D

(* The objects of D are freed and nothing else that the program sees changes. *)
Freed(D) ==
  /\ Used' = Used \ D
  /\ field' = [h \in Handles |-> IF h \in D THEN Heap!Blank ELSE field[h]]
  /\ slot' = slot

(* Types of the derived sets. *)
LEMMA Sets ==
  ASSUME TypeOK
  PROVE  /\ Used \in SUBSET Handles /\ Old \in SUBSET Used /\ Young \in SUBSET Used
         /\ Young \cap Old = {} /\ Used = Young \cup Old
         /\ Held \in SUBSET Handles /\ 0 \notin Handles
  BY HeapAssumption DEF TypeOK, Used, Old, Young, Held

(* Freeing a separated set leaves no dangling reference. *)
LEMMA FreeingIsSafe ==
  ASSUME TypeOK, NothingDangles, NEW D \in SUBSET Used, Separated(D), Freed(D),
         Held' \subseteq Held
  PROVE  NothingDangles'
<1>1. Held' \subseteq Used'
  BY DEF NothingDangles, Separated, Freed
<1>2. \A i \in Slots : slot'[i] \in Used' \cup {0}
  BY DEF NothingDangles, Separated, Freed
<1>3. ASSUME NEW h \in Used', NEW f \in Fields PROVE field'[h][f] \in Used' \cup {0}
  <2>1. h \in Handles /\ h \in Used \ D /\ field'[h] = field[h]
    BY Sets DEF Freed
  <2> QED BY <2>1 DEF NothingDangles, Separated, Freed
<1> QED BY <1>1, <1>2, <1>3 DEF NothingDangles

(* Freeing a separated set is a step of the managed heap. *)
LEMMA FreeingIsReclaim ==
  ASSUME TypeOK, NothingDangles, NEW D \in SUBSET Used, Separated(D), Freed(D), Held' = Held
  PROVE  Heap!Reclaim
<1>1. Used \ D \in SUBSET Handles
  BY Sets
<1>2. Heap!Named \subseteq Used \ D
  BY DEF Heap!Named, NothingDangles, Separated
<1>3. Heap!Closed(Used \ D)
  BY DEF Heap!Closed, NothingDangles, Separated
<1>4. Heap!Live \subseteq Used \ D
  BY <1>1, <1>2, <1>3 DEF Heap!Live
<1>5. D \in SUBSET (Used \ Heap!Live)
  BY <1>4
<1> QED BY <1>5 DEF Heap!Reclaim, Freed

-----------------------------------------------------------------------------
(* What the collections find. *)

(* The dead objects of a full collection are separated. *)
LEMMA FullSeparates ==
  ASSUME TypeOK, NothingDangles
  PROVE  FullMarks \in SUBSET Used /\ Separated(Used \ FullMarks)
<1>1. FullMarks \in SUBSET Used
  BY DEF FullMarks
<1>2. ASSUME NEW r \in Used, r \in Held \cup {slot[i] : i \in Slots} PROVE r \in FullMarks
  BY <1>2 DEF FullMarks
<1>3. ASSUME NEW h \in FullMarks, NEW f \in Fields, field[h][f] \in Used
      PROVE  field[h][f] \in FullMarks
  BY <1>3 DEF FullMarks
<1>4. Held \cap (Used \ FullMarks) = {} /\ \A i \in Slots : slot[i] \notin Used \ FullMarks
  BY <1>2
<1>5. \A h \in Used \ (Used \ FullMarks) : \A f \in Fields : field[h][f] \notin Used \ FullMarks
  BY <1>1, <1>3
<1> QED BY <1>1, <1>4, <1>5 DEF Separated

(* No young handle is marked when a minor collection starts. *)
LEMMA MarksAreClear ==
  ASSUME MarksOK
  PROVE  MinorMarks \cap Young = {} /\ Unmarked = Young /\ Survivors = Traced
<1>1. MinorMarks \cap Young = {}
  BY DEF MarksOK, MinorMarks
<1>2. Unmarked = Young
  BY <1>1 DEF Unmarked
<1>3. Traced \subseteq Young
  BY <1>2 DEF Traced
<1> QED BY <1>1, <1>2, <1>3 DEF Survivors

(* The dead objects of a minor collection are separated. *)
LEMMA MinorSeparates ==
  ASSUME IInv
  PROVE  Survivors \in SUBSET Young /\ Separated(Young \ Survivors)
<1>1. Unmarked = Young /\ Survivors = Traced
  BY MarksAreClear DEF IInv
<1>2. Traced \in SUBSET Young
  BY <1>1 DEF Traced
<1>3. ASSUME NEW r \in MinorRoots, r \in Young PROVE r \in Traced
  BY <1>1, <1>3 DEF Traced
<1>4. ASSUME NEW h \in Traced, NEW f \in Fields, field[h][f] \in Young
      PROVE  field[h][f] \in Traced
  BY <1>1, <1>4 DEF Traced
<1>5. Held \cap (Young \ Traced) = {}
  BY <1>3 DEF MinorRoots
<1>6. ASSUME NEW i \in Slots, slot[i] \in Young PROVE slot[i] \in Traced
  <2>1. cardFallback \/ i \in slotCards
    BY <1>6 DEF IInv, RememberedIsComplete
  <2>2. slot[i] \in MinorRoots
    BY <2>1 DEF MinorRoots
  <2> QED BY <1>3, <1>6, <2>2
<1>7. ASSUME NEW h \in Old, NEW f \in Fields, field[h][f] \in Young
      PROVE  field[h][f] \in Traced
  <2>1. h \in remembered \cap Old /\ f \in ScannedFields(h)
    BY <1>7 DEF IInv, RememberedIsComplete
  <2>2. field[h][f] \in Handles
    BY <1>7, Sets DEF IInv
  <2>3. field[h][f] \in MinorRoots
    BY <2>1, <2>2 DEF MinorRoots
  <2> QED BY <1>3, <1>7, <2>3
<1>8. ASSUME NEW h \in Used \ (Young \ Traced), NEW f \in Fields
      PROVE  field[h][f] \notin Young \ Traced
  <2>1. h \in Traced \/ h \in Old
    BY Sets DEF IInv
  <2> QED BY <1>4, <1>7, <2>1
<1> QED BY <1>1, <1>2, <1>5, <1>6, <1>8 DEF Separated

-----------------------------------------------------------------------------
(* The remembered set. *)

(* Some field is on some card. *)
LEMMA CardsExist ==
  ASSUME Fields # {}
  PROVE  Cards # {} /\ \A f \in Fields : CardOf[f] \in Cards
  BY HeapAssumption

(* Nothing changes: nothing is lost. *)
LEMMA UnchangedKeeps ==
  ASSUME TypeOK, CardsOK, UNCHANGED dirty
  PROVE  DirtyKept
  BY DEF TypeOK, CardsOK, DirtyKept, dirty, Covered, ScannedFields, SlotCovered

(* Remembering an object covers the stored range and loses nothing, even   *)
(* when the cards cannot grow.                                             *)
LEMMA RememberKeeps ==
  ASSUME TypeOK, CardsOK, NEW h \in Handles, NEW C \in SUBSET Cards,
         Fields # {} => C # {}, Remember(h, C)
  PROVE  /\ DirtyKept
         /\ \A f \in Fields : CardOf[f] \in C => Covered(h, f)'
<1>1. /\ remembered' = remembered \cup {h} /\ slotCards' = slotCards
      /\ AddCards(h, C)
  BY DEF Remember
<1>2. CASE cards' = [cards EXCEPT ![h] = @ \cup C] /\ cardFallback' = cardFallback
  <2>1. /\ cards' \in [Handles -> SUBSET Cards] /\ cards'[h] = cards[h] \cup C
        /\ \A x \in Handles : x # h => cards'[x] = cards[x]
    BY <1>2 DEF TypeOK
  <2>2. CardsOK'
    BY <1>1, <1>2, <2>1 DEF CardsOK, TypeOK
  <2>3. ASSUME NEW x \in Handles, NEW f \in Fields, Covered(x, f) PROVE Covered(x, f)'
    BY <1>1, <1>2, <2>1, <2>3 DEF Covered, ScannedFields, CardsOK
  <2>4. ASSUME NEW f \in Fields, CardOf[f] \in C PROVE Covered(h, f)'
    BY <1>1, <2>1, <2>4 DEF Covered, ScannedFields
  <2> QED BY <1>1, <1>2, <2>1, <2>2, <2>3, <2>4 DEF DirtyKept, TypeOK, SlotCovered
<1>3. CASE cards' = [cards EXCEPT ![h] = Cards] /\ cardFallback' = cardFallback
  <2>1. /\ cards' \in [Handles -> SUBSET Cards] /\ cards'[h] = Cards
        /\ \A x \in Handles : x # h => cards'[x] = cards[x]
    BY <1>3 DEF TypeOK
  <2>2. CardsOK'
    BY <1>1, <1>3, <2>1, CardsExist DEF CardsOK, TypeOK
  <2>3. ASSUME NEW x \in Handles, NEW f \in Fields, Covered(x, f) PROVE Covered(x, f)'
    BY <1>1, <1>3, <2>1, <2>3, CardsExist DEF Covered, ScannedFields
  <2>4. ASSUME NEW f \in Fields, CardOf[f] \in C PROVE Covered(h, f)'
    BY <1>1, <2>1, <2>4 DEF Covered, ScannedFields
  <2> QED BY <1>1, <1>3, <2>1, <2>2, <2>3, <2>4 DEF DirtyKept, TypeOK, SlotCovered
<1>4. CASE cards' = cards /\ cardFallback' = TRUE
  BY <1>1, <1>4 DEF DirtyKept, TypeOK, SlotCovered, Covered, ScannedFields, CardsOK
<1> QED BY <1>1, <1>2, <1>3, <1>4, Zenon DEF AddCards

(* Completeness in terms of Covered. *)
LEMMA CompleteMeansCovered ==
  RememberedIsComplete <=>
    /\ \A h \in Old : \A f \in Fields : field[h][f] \in Young => Covered(h, f)
    /\ \A i \in Slots : slot[i] \in Young => SlotCovered(i)
  BY DEF RememberedIsComplete, Covered, SlotCovered

-----------------------------------------------------------------------------
(* The collections preserve the invariant. *)

(* The card metadata after every young object is gone. *)
LEMMA ClearKeeps ==
  ASSUME TypeOK, ClearDirty, Young' = {}
  PROVE  /\ remembered' \in SUBSET Handles /\ cards' \in [Handles -> SUBSET Cards]
         /\ cardFallback' \in BOOLEAN /\ slotCards' \in SUBSET Slots
         /\ CardsOK' /\ RememberedIsComplete'
  BY Zenon DEF ClearDirty, CardsOK, RememberedIsComplete

(* A full collection. *)
LEMMA FullKeeps ==
  ASSUME IInv, Full(FullMarks), job' \in [step : {"none", "minor", "full", "retry", "again"},
                                         large : BOOLEAN, args : SUBSET Handles],
         Held' = Held, JobOK'
  PROVE  IInv' /\ Heap!Reclaim
<1> DEFINE dead == Used \ FullMarks
           young == Young \ dead
           stay == {h \in (remembered \cap Old) \ dead : PointsInto(h, field, young)}
<1>1. dead \in SUBSET Used /\ Separated(dead) /\ FullMarks \in SUBSET Used
  BY FullSeparates DEF IInv
<1>2. /\ space' = [h \in Handles |-> IF h \in dead THEN "free" ELSE space[h]]
      /\ field' = [h \in Handles |-> IF h \in dead THEN Heap!Blank ELSE field[h]]
      /\ mark' = FullMarks /\ fullSince' = TRUE /\ UNCHANGED <<frame, slot, moving>>
  BY DEF Full
<1>3. Used' = Used \ dead /\ Old' = Old \ dead /\ Young' = young
  BY <1>2 DEF IInv, TypeOK, Used, Old, Young
<1>4. Freed(dead)
  BY <1>2, <1>3 DEF Freed
<1>5. NothingDangles'
  BY <1>1, <1>4, FreeingIsSafe DEF IInv
<1>6. Heap!Reclaim
  BY <1>1, <1>4, FreeingIsReclaim DEF IInv
<1>7. /\ remembered' \in SUBSET Handles /\ cards' \in [Handles -> SUBSET Cards]
      /\ cardFallback' \in BOOLEAN /\ slotCards' \in SUBSET Slots
      /\ CardsOK' /\ RememberedIsComplete'
  <2>1. CASE young = {}
    <3>1. ClearDirty
      BY <2>1 DEF Full
    <3> QED BY <1>3, <2>1, <3>1, ClearKeeps DEF IInv
  <2>2. CASE young # {}
    <3>1. /\ remembered' = stay
          /\ cards' = [h \in Handles |->
                         IF h \in dead \cup (remembered \ stay) THEN {} ELSE cards[h]]
          /\ cardFallback' = cardFallback /\ slotCards' = slotCards
      BY <2>2, Zenon DEF Full
    <3>2. stay \in SUBSET remembered /\ stay \cap dead = {} /\ remembered \in SUBSET Handles
      BY DEF IInv, TypeOK
    <3>3. \A h \in stay : cards'[h] = cards[h]
      BY <3>1, <3>2, Zenon
    <3>4. cards' \in [Handles -> SUBSET Cards]
      BY <3>1 DEF IInv, TypeOK
    <3>5. CardsOK'
      BY <3>1, <3>2, <3>3, SMTT(60) DEF IInv, CardsOK
    <3>6. ASSUME NEW h \in Old', NEW f \in Fields, field'[h][f] \in Young'
          PROVE  h \in remembered' /\ f \in ScannedFields(h)'
      <4>1. h \in Old /\ h \notin dead /\ h \in Handles
        BY <1>3, Sets DEF IInv
      <4>2. field'[h] = field[h] /\ field[h][f] \in young /\ field[h][f] \in Young
        BY <1>2, <1>3, <3>6, <4>1
      <4>3. h \in remembered /\ f \in ScannedFields(h)
        BY <4>1, <4>2 DEF IInv, RememberedIsComplete
      <4>4. h \in stay
        BY <4>1, <4>2, <4>3 DEF PointsInto
      <4> QED BY <3>1, <3>3, <4>3, <4>4, Zenon DEF ScannedFields
    <3>7. ASSUME NEW i \in Slots, slot'[i] \in Young' PROVE cardFallback' \/ i \in slotCards'
      BY <1>2, <1>3, <3>1, <3>7 DEF IInv, RememberedIsComplete
    <3> QED BY <3>1, <3>2, <3>4, <3>5, <3>6, <3>7, Zenon DEF IInv, TypeOK, RememberedIsComplete
  <2> QED BY <2>1, <2>2
<1>8. MarksOK'
  BY <1>1, <1>2, <1>3 DEF MarksOK
<1>9. TypeOK'
  <2>1. field' \in [Handles -> [Fields -> Heap!Refs]]
    BY <1>2 DEF IInv, TypeOK, Heap!Blank, Heap!Refs
  <2>2. mark' \in SUBSET Handles
    BY <1>1, <1>2, Sets DEF IInv
  <2> QED BY <1>2, <1>7, <2>1, <2>2 DEF IInv, TypeOK
<1> QED BY <1>5, <1>6, <1>7, <1>8, <1>9 DEF IInv

(* The cards after a minor collection that left some object young. *)
LEMMA MinorCardsKeep ==
  ASSUME IInv, NEW kept \in SUBSET Young, NEW fit \in SUBSET kept, Separated(Young \ kept),
         NEW parents, parents = {h \in kept \ fit : PointsInto(h, field, Young \ (kept \ fit))},
         NEW bad \in SUBSET parents, FinishMinorCards(kept \ fit, parents, bad, fit),
         Old' = Old \cup (kept \ fit), Young' = fit, slot' = slot,
         \A h \in Old' : field'[h] = field[h]
  PROVE  /\ remembered' \in SUBSET Handles /\ cards' \in [Handles -> SUBSET Cards]
         /\ cardFallback' \in BOOLEAN /\ slotCards' \in SUBSET Slots
         /\ CardsOK' /\ RememberedIsComplete'
<1> DEFINE tenured == kept \ fit
           fall   == cardFallback \/ bad # {}
           carded == [h \in Handles |-> IF h \in parents \ bad THEN Cards ELSE cards[h]]
           stay   == {h \in (remembered \cup parents) \cap (Old \cup tenured) :
                        IF fall THEN PointsInto(h, field, fit)
                        ELSE carded[h] # {} => CardsPointInto(h, carded[h], field, fit)}
<1>1. /\ remembered' = stay
      /\ cards' = [h \in Handles |->
                     IF h \in (remembered \cup parents) \ stay THEN {} ELSE carded[h]]
      /\ cardFallback' = fall
      /\ slotCards' = IF fall THEN slotCards ELSE {i \in slotCards : slot[i] \in fit}
  BY DEF FinishMinorCards
<1>2. /\ parents \in SUBSET Handles /\ remembered \in SUBSET Handles /\ stay \in SUBSET Handles
      /\ carded \in [Handles -> SUBSET Cards]
  BY Sets DEF IInv, TypeOK
<1>3. /\ cards' \in [Handles -> SUBSET Cards] /\ cardFallback' \in BOOLEAN
      /\ slotCards' \in SUBSET Slots
  BY <1>1, <1>2 DEF IInv, TypeOK
<1>4. \A h \in stay : cards'[h] = carded[h]
  BY <1>1, <1>2, Zenon
<1>5. ASSUME ~fall, NEW h \in remembered \cup parents, Fields # {} PROVE carded[h] # {}
  BY <1>2, <1>5, CardsExist, Zenon DEF IInv, CardsOK
<1>6. CardsOK'
  BY <1>1, <1>2, <1>4, <1>5, Zenon DEF CardsOK
<1>7. ASSUME NEW h \in Old', NEW f \in Fields, field'[h][f] \in Young'
      PROVE  h \in remembered' /\ f \in ScannedFields(h)'
  <2>1. h \in Old \cup tenured /\ h \in Handles /\ field[h][f] \in fit
    BY <1>7, Sets DEF IInv
  <2>2. h \in remembered \cup parents /\ (~fall => CardOf[f] \in carded[h])
    <3>1. CASE h \in tenured
      <4>1. h \in parents
        BY <2>1, <3>1 DEF PointsInto
      <4> QED BY <2>1, <4>1, CardsExist, Zenon
    <3>2. CASE h \in Old
      <4>1. h \in remembered /\ f \in ScannedFields(h)
        BY <2>1, <3>2 DEF IInv, RememberedIsComplete
      <4>2. ~fall => CardOf[f] \in cards[h]
        BY <4>1 DEF ScannedFields, IInv, CardsOK
      <4> QED BY <2>1, <4>1, <4>2, CardsExist
    <3> QED BY <2>1, <3>1, <3>2, Zenon
  <2>3. h \in stay
    BY <2>1, <2>2 DEF PointsInto, CardsPointInto
  <2> QED BY <1>1, <1>4, <2>2, <2>3, Zenon DEF ScannedFields
<1>8. ASSUME NEW i \in Slots, slot'[i] \in Young' PROVE cardFallback' \/ i \in slotCards'
  BY <1>1, <1>8, Zenon DEF IInv, RememberedIsComplete
<1> QED BY <1>1, <1>2, <1>3, <1>6, <1>7, <1>8, ZenonT(40) DEF RememberedIsComplete

(* A minor collection that succeeds. *)
LEMMA MinorKeeps ==
  ASSUME IInv, Minor, job' \in [step : {"none", "minor", "full", "retry", "again"},
                               large : BOOLEAN, args : SUBSET Handles],
         Held' = Held, JobOK'
  PROVE  IInv' /\ Heap!Reclaim
<1>1. PICK kept, fit : /\ kept = Survivors /\ fit \in Fits(kept) /\ MinorSucceeds(kept, fit)
  BY DEF Minor
<1> DEFINE dead == Young \ kept
           tenured == kept \ fit
<1>2. kept \in SUBSET Young /\ fit \in SUBSET kept /\ Separated(dead) /\ dead \in SUBSET Used
  BY <1>1, MinorSeparates, Sets DEF Fits, IInv
<1>3. /\ space' = [h \in Handles |-> IF h \in dead THEN "free"
                                     ELSE IF h \in tenured THEN "old" ELSE space[h]]
      /\ field' = [h \in Handles |-> IF h \in dead THEN Heap!Blank ELSE field[h]]
      /\ mark' = MinorMarks \ Young
      /\ fullSince' = (fullSince /\ ~moving)
      /\ UNCHANGED <<frame, slot, moving>>
  BY <1>1 DEF MinorSucceeds
<1>4. Used' = Used \ dead /\ Old' = Old \cup tenured /\ Young' = fit
  BY <1>2, <1>3 DEF IInv, TypeOK, Used, Old, Young
<1>5. Freed(dead)
  BY <1>3, <1>4 DEF Freed
<1>6. NothingDangles'
  BY <1>2, <1>5, FreeingIsSafe DEF IInv
<1>7. Heap!Reclaim
  BY <1>2, <1>5, FreeingIsReclaim DEF IInv
<1>8. /\ remembered' \in SUBSET Handles /\ cards' \in [Handles -> SUBSET Cards]
      /\ cardFallback' \in BOOLEAN /\ slotCards' \in SUBSET Slots
      /\ CardsOK' /\ RememberedIsComplete'
  <2>1. CASE fit = {}
    <3>1. ClearDirty
      BY <1>1, <2>1, SMTT(60) DEF MinorSucceeds
    <3> QED BY <1>4, <2>1, <3>1, ClearKeeps DEF IInv
  <2>2. CASE fit # {}
    <3>1. PICK parents : parents = {h \in tenured : PointsInto(h, field, Young \ tenured)}
      BY Zenon
    <3>2. PICK bad \in SUBSET parents : FinishMinorCards(tenured, parents, bad, fit)
      BY <1>1, <2>2, <3>1, Zenon DEF MinorSucceeds
    <3>3. \A h \in Old' : field'[h] = field[h]
      BY <1>2, <1>3, <1>4, Sets DEF IInv
    <3> QED BY <1>2, <1>3, <1>4, <3>1, <3>2, <3>3, MinorCardsKeep, ZenonT(40)
  <2> QED BY <2>1, <2>2
<1>9. MarksOK'
  <2>1. MinorMarks \subseteq Used
    BY DEF MinorMarks, IInv, MarksOK
  <2> QED BY <1>2, <1>3, <1>4, <2>1, Sets DEF MarksOK, IInv
<1>10. TypeOK'
  <2>1. field' \in [Handles -> [Fields -> Heap!Refs]]
    BY <1>3 DEF IInv, TypeOK, Heap!Blank, Heap!Refs
  <2>2. mark' \in SUBSET Handles
    BY <1>3 DEF IInv, TypeOK, MinorMarks
  <2>3. space' \in [Handles -> {"free", "nursery", "large", "old"}] /\ fullSince' \in BOOLEAN
    BY <1>3 DEF IInv, TypeOK
  <2> QED BY <1>3, <1>8, <2>1, <2>2, <2>3 DEF IInv, TypeOK
<1> QED BY <1>6, <1>7, <1>8, <1>9, <1>10 DEF IInv

(* Steps that leave the heap and the cards alone. *)
LEMMA QuietKeeps ==
  ASSUME IInv, UNCHANGED <<space, field, slot, dirty, moving>>, MarksOK', JobOK',
         mark' \in SUBSET Handles, fullSince' \in BOOLEAN, frame' \in SUBSET Handles,
         job' \in [step : {"none", "minor", "full", "retry", "again"},
                   large : BOOLEAN, args : SUBSET Handles],
         Held' \subseteq Used
  PROVE  IInv'
<1>1. Used' = Used /\ Old' = Old /\ Young' = Young
  BY DEF Used, Old, Young
<1>2. TypeOK'
  BY DEF IInv, TypeOK, dirty
<1>3. NothingDangles'
  BY <1>1 DEF IInv, NothingDangles
<1>4. RememberedIsComplete' /\ CardsOK'
  BY <1>1 DEF IInv, RememberedIsComplete, CardsOK, ScannedFields, dirty
<1> QED BY <1>2, <1>3, <1>4 DEF IInv

(* A minor collection that fails. *)
LEMMA MinorFailsKeeps ==
  ASSUME IInv, MinorFails, job' \in [step : {"none", "minor", "full", "retry", "again"},
                                    large : BOOLEAN, args : SUBSET Handles],
         Held' \subseteq Held, JobOK'
  PROVE  IInv'
<1>1. UNCHANGED <<space, field, frame, slot, dirty, moving, fullSince>> /\ mark' = MinorMarks \ Young
  BY DEF MinorFails, heap
<1>2. Used' = Used /\ Young' = Young
  BY <1>1 DEF Used, Old, Young
<1>3. MinorMarks \subseteq mark
  BY DEF MinorMarks
<1>4. MarksOK' /\ mark' \in SUBSET Handles
  BY <1>1, <1>2, <1>3 DEF MarksOK, IInv, TypeOK
<1>5. Held' \subseteq Used /\ frame' \in SUBSET Handles /\ fullSince' \in BOOLEAN
  BY <1>1 DEF IInv, NothingDangles, TypeOK
<1> QED BY <1>1, <1>4, <1>5, QuietKeeps

-----------------------------------------------------------------------------
(* The mutator and the constructors preserve the invariant. *)

(* A step that frees nothing, makes nothing younger and covers every new   *)
(* reference.                                                              *)
LEMMA MutationKeeps ==
  ASSUME IInv, DirtyKept, UNCHANGED <<mark, fullSince, moving>>,
         space' \in [Handles -> {"free", "nursery", "large", "old"}],
         field' \in [Handles -> [Fields -> Heap!Refs]], slot' \in [Slots -> Heap!Refs],
         frame' \in SUBSET Handles,
         job' \in [step : {"none", "minor", "full", "retry", "again"},
                   large : BOOLEAN, args : SUBSET Handles],
         NothingDangles', JobOK', Used \subseteq Used', Young' \cap Used \subseteq Young,
         \A h \in Old', f \in Fields : field'[h][f] \in Young' => Covered(h, f)',
         \A i \in Slots : slot'[i] \in Young' => SlotCovered(i)'
  PROVE  IInv'
<1>1. TypeOK'
  BY DEF IInv, TypeOK, DirtyKept
<1>2. RememberedIsComplete'
  BY DEF RememberedIsComplete, Covered, SlotCovered
<1>3. MarksOK'
  BY DEF IInv, MarksOK
<1>4. CardsOK'
  BY DEF DirtyKept
<1> QED BY <1>1, <1>2, <1>3, <1>4 DEF IInv

(* A store of references the program can reach into one object it holds. *)
LEMMA StoreKeeps ==
  ASSUME IInv, NEW p \in frame, NEW new \in [Fields -> Used \cup {0}],
         field' = [field EXCEPT ![p] = new], DirtyKept,
         UNCHANGED <<space, frame, slot, mark, fullSince, moving, job>>,
         p \in Old => \A f \in Fields :
                        \/ new[f] = field[p][f]
                        \/ new[f] \in Young => Covered(p, f)'
  PROVE  IInv'
<1>1. Used' = Used /\ Old' = Old /\ Young' = Young /\ Held' = Held /\ JobOK'
  BY DEF Used, Old, Young, Held, IInv, JobOK
<1>2. p \in Handles /\ p \in Used
  BY DEF IInv, TypeOK, NothingDangles, Held
<1>3. /\ field'[p] = new
      /\ \A h \in Handles : h # p => field'[h] = field[h]
  BY <1>2 DEF IInv, TypeOK
<1>4. field' \in [Handles -> [Fields -> Heap!Refs]]
  <2>1. new \in [Fields -> Heap!Refs]
    BY Sets DEF IInv, Heap!Refs
  <2> QED BY <2>1 DEF IInv, TypeOK
<1>5. NothingDangles'
  BY <1>1, <1>2, <1>3, Sets DEF IInv, NothingDangles
<1>6. ASSUME NEW h \in Old', NEW f \in Fields, field'[h][f] \in Young' PROVE Covered(h, f)'
  <2>1. h \in Old /\ h \in Handles
    BY <1>1, Sets, SMTT(60) DEF IInv
  <2>2. field[h][f] \in Young => Covered(h, f)'
    BY <2>1, SMTT(60) DEF IInv, RememberedIsComplete, Covered, DirtyKept
  <2> QED BY <1>1, <1>3, <1>6, <2>1, <2>2
<1>7. ASSUME NEW i \in Slots, slot'[i] \in Young' PROVE SlotCovered(i)'
  BY <1>1, <1>7 DEF IInv, RememberedIsComplete, SlotCovered, DirtyKept
<1>8. /\ space' \in [Handles -> {"free", "nursery", "large", "old"}]
      /\ slot' \in [Slots -> Heap!Refs] /\ frame' \in SUBSET Handles
      /\ job' \in [step : {"none", "minor", "full", "retry", "again"},
                   large : BOOLEAN, args : SUBSET Handles]
  BY DEF IInv, TypeOK
<1> QED BY <1>1, <1>4, <1>5, <1>6, <1>7, <1>8, MutationKeeps

(* The program holds the references of new, or an object it holds does. *)
Reads(p, new) ==
  \A f \in Fields : \/ new[f] \in Held \cup {0, field[p][f]}
                   \/ \E q \in Held, g \in Fields : new[f] = field[q][g]

(* Such a store is a step of the managed heap. *)
LEMMA StoreIsStore ==
  ASSUME NEW p \in Held, NEW new \in [Fields -> Heap!Refs], field' = [field EXCEPT ![p] = new],
         Used' = Used, Held' = Held, slot' = slot, Reads(p, new)
  PROVE  Heap!Store
  BY ZenonT(40) DEF Heap!Store, Reads

(* StructSet and ArraySet. *)
LEMMA StructSetKeeps ==
  ASSUME IInv, NEW p \in frame, NEW f \in Fields, NEW v \in Values, StructSet(p, f, v)
  PROVE  IInv' /\ Heap!Store
<1>1. /\ field' = [field EXCEPT ![p][f] = v]
      /\ IF p \in Old /\ v \in Young THEN Remember(p, {CardOf[f]}) ELSE UNCHANGED dirty
      /\ UNCHANGED <<space, frame, slot, mark, fullSince, moving, job>>
  BY DEF StructSet
<1>2. p \in Handles /\ p \in Used /\ p \in Held /\ v \in Used \cup {0} /\ v \in Held \cup {0}
  BY DEF IInv, TypeOK, NothingDangles, Held, Values
<1>0. PICK new : new = [field[p] EXCEPT ![f] = v]
  BY ZenonT(40)
<1>3. field' = [field EXCEPT ![p] = new]
  BY <1>0, <1>1
<1>4. /\ field[p] \in [Fields -> Heap!Refs] /\ new \in [Fields -> Used \cup {0}]
      /\ new \in [Fields -> Heap!Refs] /\ new[f] = v
      /\ \A g \in Fields : g # f => new[g] = field[p][g]
  BY <1>0, <1>2, Sets DEF IInv, TypeOK, NothingDangles, Heap!Refs
<1>5. DirtyKept /\ (p \in Old /\ v \in Young => Covered(p, f)')
  <2>1. CASE p \in Old /\ v \in Young
    <3>1. {CardOf[f]} \in SUBSET Cards
      BY CardsExist
    <3> QED BY <1>1, <1>2, <2>1, <3>1, RememberKeeps DEF IInv
  <2>2. CASE ~(p \in Old /\ v \in Young)
    BY <1>1, <2>2, UnchangedKeeps DEF IInv
  <2> QED BY <2>1, <2>2
<1>6. IInv'
  <2>1. p \in Old => \A g \in Fields : \/ new[g] = field[p][g]
                                       \/ new[g] \in Young => Covered(p, g)'
    BY <1>4, <1>5, Zenon
  <2>2. UNCHANGED <<space, frame, slot, mark, fullSince, moving, job>>
    BY <1>1
  <2>3. new \in [Fields -> Used \cup {0}] /\ DirtyKept
    BY <1>4, <1>5
  <2> QED BY <1>3, <2>1, <2>2, <2>3, StoreKeeps, Zenon
<1>7. Used' = Used /\ Held' = Held
  BY <1>1 DEF Used, Held
<1>8. Heap!Store
  <2>1. Reads(p, new)
    BY <1>2, <1>4 DEF Reads
  <2>2. slot' = slot
    BY <1>1
  <2> QED BY <1>2, <1>3, <1>4, <1>7, <2>1, <2>2, StoreIsStore, Zenon
<1> QED BY <1>6, <1>8

(* The cards of a range hold the cards of its fields. *)
LEMMA RangeHasCards ==
  ASSUME NEW F \in SUBSET Fields, F # {}
  PROVE  /\ CardRange(F) \in SUBSET Cards /\ CardRange(F) # {}
         /\ \A f \in F : CardOf[f] \in CardRange(F)
<1>1. ASSUME NEW f \in F PROVE CardOf[f] \in CardRange(F)
  <2>1. CardOf[f] \in Cards /\ CardOf[f] \in Int /\ CardOf[f] <= CardOf[f]
    BY HeapAssumption DEF Cards
  <2> QED BY <2>1 DEF CardRange
<1>2. CardRange(F) \in SUBSET Cards
  BY DEF CardRange
<1> QED BY <1>1, <1>2

(* arrayFill and ArrayCopy: the stored values are held or copied. *)
LEMMA BulkStoreKeeps ==
  ASSUME IInv, NEW p \in frame, NEW F \in SUBSET Fields, F # {},
         NEW src \in [F -> Used \cup {0}], BulkStore(p, F, src),
         \A f \in F : \/ src[f] \in frame \cup {0}
                      \/ \E q \in frame, g \in Fields : src[f] = field[q][g]
  PROVE  IInv' /\ Heap!Store
<1>0. PICK new : new = [f \in Fields |-> IF f \in F THEN src[f] ELSE field[p][f]]
  BY Zenon
<1>1. /\ field' = [field EXCEPT ![p] = new]
      /\ IF p \in Old THEN Remember(p, CardRange(F)) ELSE UNCHANGED dirty
      /\ UNCHANGED <<space, frame, slot, mark, fullSince, moving, job>>
  BY <1>0 DEF BulkStore
<1>2. p \in Handles /\ p \in Used /\ p \in Held /\ frame \subseteq Held
  BY DEF IInv, TypeOK, NothingDangles, Held
<1>3. \A f \in Fields : field[p][f] \in Used \cup {0}
  BY <1>2 DEF IInv, NothingDangles
<1>4. new \in [Fields -> Used \cup {0}] /\ new \in [Fields -> Heap!Refs]
  BY <1>0, <1>3, Sets DEF IInv, Heap!Refs
<1>5. DirtyKept /\ (p \in Old => \A f \in F : Covered(p, f)')
  <2>1. CASE p \in Old
    BY <1>1, <1>2, <2>1, RangeHasCards, RememberKeeps DEF IInv
  <2>2. CASE p \notin Old
    BY <1>1, <2>2, UnchangedKeeps DEF IInv
  <2> QED BY <2>1, <2>2
<1>6. \A f \in Fields : f \notin F => new[f] = field[p][f]
  BY <1>0
<1>7. p \in Old => \A f \in Fields : new[f] = field[p][f] \/ (new[f] \in Young => Covered(p, f)')
  BY <1>5, <1>6
<1>8. IInv'
  BY <1>1, <1>4, <1>5, <1>7, StoreKeeps, Zenon
<1>9. Used' = Used /\ Held' = Held
  BY <1>1 DEF Used, Held
<1>10. Reads(p, new)
  BY <1>0, <1>2 DEF Reads
<1>11. Heap!Store
  BY <1>1, <1>2, <1>4, <1>9, <1>10, StoreIsStore, Zenon
<1> QED BY <1>8, <1>11

(* SetGlobalSlot and SetTableSlot. *)
LEMMA SetSlotKeeps ==
  ASSUME IInv, NEW i \in Slots, NEW v \in Values, SetSlot(i, v)
  PROVE  IInv' /\ Heap!Publish
<1>1. /\ slot' = [slot EXCEPT ![i] = v]
      /\ UNCHANGED <<space, field, frame, mark, remembered, cards, fullSince, moving, job>>
      /\ slotCards' \in SUBSET Slots /\ cardFallback' \in BOOLEAN
      /\ cardFallback => cardFallback'
      /\ slotCards \subseteq slotCards'
      /\ v \in Young => cardFallback' \/ i \in slotCards'
  <2>1. slotCards \in SUBSET Slots /\ cardFallback \in BOOLEAN
    BY DEF IInv, TypeOK
  <2>2. CASE slotCards' = slotCards \cup (IF v \in Young THEN {i} ELSE {})
             /\ cardFallback' = cardFallback
    BY <2>1, <2>2 DEF SetSlot
  <2>3. CASE slotCards' = slotCards /\ cardFallback' = TRUE
    BY <2>1, <2>3 DEF SetSlot
  <2> QED BY <2>2, <2>3, Zenon DEF SetSlot
<1>2. Used' = Used /\ Old' = Old /\ Young' = Young /\ Held' = Held /\ JobOK'
  BY <1>1 DEF Used, Old, Young, Held, IInv, JobOK
<1>3. v \in Used \cup {0} /\ v \in Held \cup {0} /\ v \in Heap!Refs
  BY DEF IInv, TypeOK, NothingDangles, Held, Values, Heap!Refs
<1>4. /\ slot' \in [Slots -> Heap!Refs] /\ slot'[i] = v
      /\ \A j \in Slots : j # i => slot'[j] = slot[j]
  BY <1>1, <1>3, SMTT(60) DEF IInv, TypeOK
<1>5. NothingDangles'
  BY <1>1, <1>2, <1>3, <1>4 DEF IInv, NothingDangles
<1>6. DirtyKept
  BY <1>1 DEF IInv, TypeOK, DirtyKept, CardsOK, Covered, ScannedFields, SlotCovered
<1>7. ASSUME NEW h \in Old', NEW f \in Fields, field'[h][f] \in Young' PROVE Covered(h, f)'
  <2>1. h \in Handles /\ Covered(h, f)
    BY <1>1, <1>2, <1>7, Sets DEF IInv, RememberedIsComplete, Covered
  <2> QED BY <1>6, <2>1, SMTT(60) DEF DirtyKept
<1>8. ASSUME NEW j \in Slots, slot'[j] \in Young' PROVE SlotCovered(j)'
  BY <1>1, <1>2, <1>4, <1>8 DEF IInv, RememberedIsComplete, SlotCovered
<1>9. /\ space' \in [Handles -> {"free", "nursery", "large", "old"}]
      /\ field' \in [Handles -> [Fields -> Heap!Refs]] /\ frame' \in SUBSET Handles
      /\ job' \in [step : {"none", "minor", "full", "retry", "again"},
                   large : BOOLEAN, args : SUBSET Handles]
  BY <1>1 DEF IInv, TypeOK
<1>10. IInv'
  BY <1>1, <1>2, <1>4, <1>5, <1>6, <1>7, <1>8, <1>9, MutationKeeps
<1>11. Heap!Publish
  BY <1>1, <1>2, <1>3, Zenon DEF Heap!Publish
<1> QED BY <1>10, <1>11

(* ForcePromote. *)
LEMMA ForcePromoteKeeps ==
  ASSUME IInv, NEW p \in frame, ForcePromote(p)
  PROVE  IInv' /\ UNCHANGED Heap!vars
<1>1. /\ space' = [space EXCEPT ![p] = "old"]
      /\ IF PointsInto(p, field, Young \ {p}) THEN Remember(p, Cards) ELSE UNCHANGED dirty
      /\ UNCHANGED <<field, frame, slot, mark, fullSince, moving, job>>
  BY DEF ForcePromote
<1>2. p \in Handles /\ p \in Used
  BY DEF IInv, TypeOK, NothingDangles, Held
<1>3. /\ Used' = Used /\ Old' = Old \cup {p} /\ Young' = Young \ {p} /\ Held' = Held /\ JobOK'
      /\ space' \in [Handles -> {"free", "nursery", "large", "old"}]
  BY <1>1, <1>2 DEF Used, Old, Young, Held, IInv, JobOK, TypeOK
<1>4. DirtyKept /\ (PointsInto(p, field, Young \ {p}) => \A f \in Fields : Covered(p, f)')
  <2>1. CASE PointsInto(p, field, Young \ {p})
    <3>1. Remember(p, Cards)
      BY <1>1, <2>1
    <3> QED BY <1>2, <3>1, CardsExist, RememberKeeps DEF IInv
  <2>2. CASE ~PointsInto(p, field, Young \ {p})
    BY <1>1, <2>2, UnchangedKeeps DEF IInv
  <2> QED BY <2>1, <2>2
<1>5. NothingDangles'
  BY <1>1, <1>3 DEF IInv, NothingDangles
<1>6. ASSUME NEW h \in Old', NEW f \in Fields, field'[h][f] \in Young' PROVE Covered(h, f)'
  <2>1. CASE h = p
    BY <1>1, <1>3, <1>4, <1>6, <2>1 DEF PointsInto
  <2>2. CASE h # p
    <3>1. h \in Handles /\ Covered(h, f)
      BY <1>1, <1>3, <1>6, <2>2, Sets DEF IInv, RememberedIsComplete, Covered
    <3> QED BY <1>4, <3>1, SMTT(60) DEF DirtyKept
  <2> QED BY <2>1, <2>2, SMTT(60)
<1>7. ASSUME NEW j \in Slots, slot'[j] \in Young' PROVE SlotCovered(j)'
  <2>1. SlotCovered(j)
    BY <1>1, <1>3, <1>7, Zenon DEF IInv, RememberedIsComplete, SlotCovered
  <2> QED BY <1>4, <2>1, SMTT(60) DEF DirtyKept
<1>8. /\ field' \in [Handles -> [Fields -> Heap!Refs]] /\ slot' \in [Slots -> Heap!Refs]
      /\ frame' \in SUBSET Handles
      /\ job' \in [step : {"none", "minor", "full", "retry", "again"},
                   large : BOOLEAN, args : SUBSET Handles]
  BY <1>1 DEF IInv, TypeOK
<1>9. IInv'
  BY <1>1, <1>3, <1>4, <1>5, <1>6, <1>7, <1>8, MutationKeeps
<1> QED BY <1>1, <1>3, <1>9 DEF Heap!vars

(* A load, and a reference forgotten. *)
LEMMA LoadKeeps ==
  ASSUME IInv, NEW r \in Used \cup {0},
         \/ \E p \in frame, f \in Fields : r = field[p][f]
         \/ \E i \in Slots : r = slot[i],
         Load(r)
  PROVE  IInv' /\ Heap!Load
<1>1. r # 0 /\ frame' = frame \cup {r} /\ UNCHANGED <<space, field, slot, mark, dirty, fullSince, moving, job>>
  BY SMTT(60) DEF Load
<1>2. r \in Handles /\ Held' = Held \cup {r} /\ Used' = Used /\ Old' = Old /\ Young' = Young
  BY <1>1, Sets, SMTT(60) DEF Held, Used, Old, Young, IInv
<1>3. MarksOK' /\ JobOK'
  BY <1>1, <1>2 DEF IInv, MarksOK, JobOK
<1>4. Held' \subseteq Used
  BY <1>1, <1>2 DEF IInv, NothingDangles
<1>5. /\ mark' \in SUBSET Handles /\ fullSince' \in BOOLEAN /\ frame' \in SUBSET Handles
      /\ job' \in [step : {"none", "minor", "full", "retry", "again"},
                   large : BOOLEAN, args : SUBSET Handles]
  BY <1>1, <1>2 DEF IInv, TypeOK
<1>6. IInv'
  BY <1>1, <1>3, <1>4, <1>5, QuietKeeps
<1>7. r \in {field[h][f] : h \in Held, f \in Fields} \cup {slot[i] : i \in Slots}
  BY DEF Held
<1>8. Held' = (Held \cup {r}) \ {0}
  BY <1>1, <1>2, Sets DEF IInv
<1>9. Heap!Load
  BY <1>1, <1>2, <1>7, <1>8 DEF Heap!Load
<1> QED BY <1>6, <1>9, SMTT(60)

LEMMA ForgetKeeps ==
  ASSUME IInv, NEW h \in frame, Forget(h)
  PROVE  IInv' /\ Heap!Forget
<1>1. frame' = frame \ {h} /\ UNCHANGED <<space, field, slot, mark, dirty, fullSince, moving, job>>
  BY DEF Forget
<1>2. Held' \subseteq Held /\ Used' = Used /\ Old' = Old /\ Young' = Young
  BY <1>1 DEF Held, Used, Old, Young
<1>3. MarksOK' /\ JobOK'
  BY <1>1, <1>2 DEF IInv, MarksOK, JobOK
<1>4. Held' \subseteq Used
  BY <1>2 DEF IInv, NothingDangles
<1>5. /\ mark' \in SUBSET Handles /\ fullSince' \in BOOLEAN /\ frame' \in SUBSET Handles
      /\ job' \in [step : {"none", "minor", "full", "retry", "again"},
                   large : BOOLEAN, args : SUBSET Handles]
  BY <1>1 DEF IInv, TypeOK
<1>6. IInv'
  BY <1>1, <1>3, <1>4, <1>5, QuietKeeps
<1> QED BY <1>1, <1>2, <1>6 DEF Heap!Forget

(* The publication of a new object. *)
LEMMA PlaceKeeps ==
  ASSUME IInv, NEW h \in Handles, NEW init \in [Fields -> Held \cup {0}],
         NEW large \in BOOLEAN, NEW array \in BOOLEAN, NEW popped \in SUBSET frame,
         Place(h, init, large, array, popped)
  PROVE  IInv' /\ Heap!Construct
<1>0. PICK born \in {"nursery", "large", "old"} :
        born = IF ~large THEN "nursery" ELSE IF moving THEN "large" ELSE "old"
  OBVIOUS
<1>1. /\ space[h] = "free" /\ space' = [space EXCEPT ![h] = born]
      /\ field' = [field EXCEPT ![h] = init]
      /\ frame' = (frame \ popped) \cup {h} /\ job' = NoJob
      /\ UNCHANGED <<slot, mark, fullSince, moving>>
      /\ IF born = "old" /\ (array \/ \E f \in Fields : init[f] \in Young)
         THEN Remember(h, Cards) ELSE UNCHANGED dirty
  BY <1>0, SMTT(60) DEF Place
<1>2. /\ h \notin Used /\ Used' = Used \cup {h}
      /\ born = "old" => Old' = Old \cup {h} /\ Young' = Young
      /\ born # "old" => Old' = Old /\ Young' = Young \cup {h}
      /\ space' \in [Handles -> {"free", "nursery", "large", "old"}]
  BY <1>1 DEF Used, Old, Young, IInv, TypeOK
<1>3. Held' = (frame \ popped) \cup {h} /\ frame' \in SUBSET Handles /\ JobOK'
      /\ job' \in [step : {"none", "minor", "full", "retry", "again"},
                   large : BOOLEAN, args : SUBSET Handles]
  BY <1>1, SMTT(60) DEF Held, NoJob, JobOK, IInv, TypeOK
<1>4. \A f \in Fields : init[f] \in Used \cup {0}
  BY DEF IInv, NothingDangles
<1>5. /\ field'[h] = init /\ \A x \in Handles : x # h => field'[x] = field[x]
      /\ field' \in [Handles -> [Fields -> Heap!Refs]]
  <2>1. init \in [Fields -> Heap!Refs]
    BY Sets, SMTT(60) DEF IInv, Heap!Refs
  <2> QED BY <1>1, <2>1 DEF IInv, TypeOK
<1>6. NothingDangles'
  <2>1. Held' \subseteq Used'
    BY <1>2, <1>3 DEF IInv, NothingDangles, Held
  <2>2. \A i \in Slots : slot'[i] \in Used' \cup {0}
    BY <1>1, <1>2 DEF IInv, NothingDangles
  <2>3. ASSUME NEW x \in Used', NEW f \in Fields PROVE field'[x][f] \in Used' \cup {0}
    BY <1>2, <1>4, <1>5, Sets DEF IInv, NothingDangles
  <2> QED BY <2>1, <2>2, <2>3 DEF NothingDangles
<1>7. /\ DirtyKept
      /\ born = "old" /\ (\E f \in Fields : init[f] \in Young)
           => \A f \in Fields : Covered(h, f)'
  <2>1. CASE Remember(h, Cards)
    BY <2>1, CardsExist, RememberKeeps DEF IInv
  <2>2. CASE UNCHANGED dirty /\ ~(born = "old" /\ \E f \in Fields : init[f] \in Young)
    BY <2>2, UnchangedKeeps DEF IInv
  <2> QED BY <1>1, <2>1, <2>2
<1>8. ASSUME NEW x \in Old', NEW f \in Fields, field'[x][f] \in Young' PROVE Covered(x, f)'
  <2>1. CASE x = h
    <3>1. born = "old" /\ init[f] \in Young
      BY <1>2, <1>5, <1>8, <2>1, Sets DEF IInv
    <3> QED BY <1>7, <2>1, <3>1, SMTT(60)
  <2>2. CASE x # h
    <3>1. x \in Old /\ x \in Used /\ x \in Handles
      BY <1>2, <1>8, <2>2, Sets, SMTT(60) DEF IInv
    <3>2. field[x][f] \in Used \cup {0} /\ field'[x][f] = field[x][f]
      BY <1>5, <2>2, <3>1, SMTT(60) DEF IInv, NothingDangles
    <3>3. field[x][f] \in Young
      BY <1>2, <1>8, <3>2, Sets, SMTT(60) DEF IInv
    <3>4. Covered(x, f)
      BY <3>1, <3>3, SMTT(60) DEF IInv, RememberedIsComplete, Covered
    <3> QED BY <1>7, <3>1, <3>4, SMTT(60) DEF DirtyKept
  <2> QED BY <2>1, <2>2
<1>9. ASSUME NEW i \in Slots, slot'[i] \in Young' PROVE SlotCovered(i)'
  <2>1. slot[i] \in Young
    BY <1>1, <1>2, <1>9, Sets, SMTT(60) DEF IInv, NothingDangles
  <2> QED BY <1>7, <2>1, SMTT(60) DEF IInv, RememberedIsComplete, SlotCovered, DirtyKept
<1>10. slot' \in [Slots -> Heap!Refs] /\ Used \subseteq Used' /\ Young' \cap Used \subseteq Young
  BY <1>1, <1>2, SMTT(60) DEF IInv, TypeOK
<1>11. IInv'
  BY <1>1, <1>2, <1>3, <1>5, <1>6, <1>7, <1>8, <1>9, <1>10, MutationKeeps, SMTT(60)
<1>12. Heap!Construct
  <2>1. PICK lost \in SUBSET Held : lost = Held \ (frame \ popped)
    BY Zenon
  <2>2. Held' = (Held \ lost) \cup {h}
    BY <1>3, <2>1, Zenon DEF Held
  <2>3. h \in Handles \ Used
    BY <1>2
  <2> QED BY <1>1, <1>2, <2>2, <2>3, Zenon DEF Heap!Construct
<1> QED BY <1>11, <1>12

(* The stages of an allocation that place nothing. *)
LEMMA StagesKeep ==
  ASSUME IInv, Exhausted \/ GiveUp \/ AllocMinor \/ AllocFull
  PROVE  IInv' /\ [Heap!Next]_(Heap!vars)
<1> DEFINE Jobs == [step : {"none", "minor", "full", "retry", "again"},
                    large : BOOLEAN, args : SUBSET Handles]
<1>0. job \in Jobs /\ job.args \in SUBSET Handles /\ NoJob \in Jobs /\ NoJob.args = {}
  BY DEF IInv, TypeOK, NoJob
<1>1. ASSUME UNCHANGED <<space, field, slot, mark, dirty, fullSince, moving>>,
             frame' \in SUBSET frame, Held' \subseteq Held, job' \in Jobs, JobOK'
      PROVE  IInv' /\ Heap!Forget
  <2>1. Used' = Used /\ Young' = Young
    BY <1>1 DEF Used, Old, Young
  <2>2. MarksOK' /\ Held' \subseteq Used /\ mark' \in SUBSET Handles /\ fullSince' \in BOOLEAN
        /\ frame' \in SUBSET Handles
    BY <1>1, <2>1 DEF IInv, MarksOK, NothingDangles, TypeOK
  <2>3. IInv'
    BY <1>1, <2>2, QuietKeeps
  <2> QED BY <1>1, <2>1, <2>3 DEF Heap!Forget
<1>2. CASE Exhausted
  <2>1. PICK large \in BOOLEAN, popped \in SUBSET frame :
          /\ job' = [step |-> IF large THEN "full" ELSE "minor", large |-> large, args |-> popped]
          /\ frame' = frame \ popped
    BY <1>2 DEF Exhausted
  <2>2. /\ job = NoJob
        /\ UNCHANGED <<space, field, slot, mark, dirty, fullSince, moving>>
    BY <1>2 DEF Exhausted
  <2>3. job' \in Jobs /\ JobOK' /\ job'.args = popped
    BY <2>1 DEF JobOK, IInv, TypeOK
  <2>4. Held' \subseteq Held /\ frame' \in SUBSET frame
    BY <2>1, <2>3 DEF Held
  <2> QED BY <1>1, <2>2, <2>3, <2>4 DEF Heap!Next
<1>3. CASE GiveUp
  <2>1. job' = NoJob /\ UNCHANGED <<space, field, frame, slot, mark, dirty, fullSince, moving>>
    BY <1>3 DEF GiveUp, heap
  <2>2. job' \in Jobs /\ JobOK' /\ Held' \subseteq Held /\ frame' \in SUBSET frame
    BY <1>0, <2>1 DEF JobOK, Held, NoJob
  <2> QED BY <1>1, <2>1, <2>2 DEF Heap!Next
<1>4. CASE AllocMinor
  <2>1. CASE Minor /\ job' = [job EXCEPT !.step = "again"]
    <3>1. job' \in Jobs /\ job'.args = job.args /\ JobOK' /\ frame' = frame
      BY <1>0, <2>1 DEF JobOK, Minor, MinorSucceeds
    <3>2. Held' = Held
      BY <3>1 DEF Held
    <3> QED BY <2>1, <3>1, <3>2, MinorKeeps DEF Heap!Next
  <2>2. CASE MinorFails /\ job' = IF job.step = "minor" THEN [job EXCEPT !.step = "full"] ELSE NoJob
    <3>1. job' \in Jobs /\ job'.args \subseteq job.args /\ JobOK'
      <4>1. CASE job.step = "minor"
        BY <1>0, <2>2, <4>1 DEF JobOK
      <4>2. CASE job.step # "minor"
        BY <1>0, <2>2, <4>2 DEF JobOK
      <4> QED BY <4>1, <4>2
    <3>2. UNCHANGED <<space, field, frame, slot>>
      BY <2>2 DEF MinorFails, heap
    <3>3. Held' \subseteq Held
      BY <3>1, <3>2 DEF Held
    <3>4. IInv'
      BY <2>2, <3>1, <3>3, MinorFailsKeeps
    <3>5. Used' = Used
      BY <3>2 DEF Used
    <3> QED BY <3>2, <3>3, <3>4, <3>5 DEF Heap!Next, Heap!Forget
  <2> QED BY <1>4, <2>1, <2>2 DEF AllocMinor
<1>5. CASE AllocFull
  <2>1. Full(FullMarks) /\ job' = [job EXCEPT !.step = IF job.large THEN "again" ELSE "retry"]
    BY <1>5 DEF AllocFull
  <2>2. job' \in Jobs /\ job'.args = job.args /\ JobOK'
    BY <1>0, <2>1 DEF JobOK
  <2>3. frame' = frame
    BY <2>1 DEF Full
  <2>4. Held' = Held
    BY <2>2, <2>3, SMTT(60) DEF Held
  <2> QED BY <2>1, <2>2, <2>4, FullKeeps DEF Heap!Next
<1> QED BY <1>2, <1>3, <1>4, <1>5

(* The mutator. *)
LEMMA MutateKeeps ==
  ASSUME IInv, Mutate
  PROVE  IInv' /\ [Heap!Next]_(Heap!vars)
<1>0. frame \subseteq Used /\ frame \in SUBSET Handles
  BY DEF IInv, NothingDangles, Held, TypeOK
<1>1. ASSUME NEW p \in frame, NEW f \in Fields, NEW v \in Values, StructSet(p, f, v)
      PROVE  IInv' /\ [Heap!Next]_(Heap!vars)
  BY <1>1, StructSetKeeps DEF Heap!Next
<1>2. ASSUME NEW p \in frame, NEW F \in Ranges, NEW v \in Values, BulkStore(p, F, [f \in F |-> v])
      PROVE  IInv' /\ [Heap!Next]_(Heap!vars)
  <2>1. PICK src : src = [f \in F |-> v]
    BY Zenon
  <2>2. F \in SUBSET Fields /\ F # {}
    BY HeapAssumption DEF Ranges, Fields
  <2>3. src \in [F -> Used \cup {0}] /\ \A f \in F : src[f] \in frame \cup {0}
    BY <1>0, <2>1 DEF Values
  <2>4. BulkStore(p, F, src)
    BY <1>2, <2>1
  <2> QED BY <2>2, <2>3, <2>4, BulkStoreKeeps DEF Heap!Next
<1>3. ASSUME NEW p \in frame, NEW q \in frame, NEW F \in Ranges, NEW d \in Shifts,
             \A f \in F : f + d \in 1..Width[q],
             BulkStore(p, F, [f \in F |-> field[q][f + d]])
      PROVE  IInv' /\ [Heap!Next]_(Heap!vars)
  <2>1. PICK src : src = [f \in F |-> field[q][f + d]]
    BY Zenon
  <2>2. F \in SUBSET Fields /\ F # {}
    BY HeapAssumption DEF Ranges, Fields
  <2>3. ASSUME NEW f \in F PROVE f + d \in Fields
    <3>1. Width[q] \in 0..MaxWidth /\ q \in Handles
      BY <1>0, HeapAssumption
    <3> QED BY <1>3, <3>1, HeapAssumption DEF Fields
  <2>4. \A f \in F : src[f] \in Used \cup {0}
    BY <1>0, <2>1, <2>3 DEF IInv, NothingDangles
  <2>5. src \in [F -> Used \cup {0}]
    BY <2>1, <2>4
  <2>6. \A f \in F : \E r \in frame, g \in Fields : src[f] = field[r][g]
    BY <2>1, <2>3
  <2>7. BulkStore(p, F, src)
    BY <1>3, <2>1
  <2> QED BY <2>2, <2>5, <2>6, <2>7, BulkStoreKeeps, SMTT(60) DEF Heap!Next
<1>4. ASSUME NEW i \in Slots, NEW v \in Values, SetSlot(i, v)
      PROVE  IInv' /\ [Heap!Next]_(Heap!vars)
  BY <1>4, SetSlotKeeps DEF Heap!Next
<1>5. ASSUME NEW h \in frame, ForcePromote(h) PROVE IInv' /\ [Heap!Next]_(Heap!vars)
  BY <1>5, ForcePromoteKeeps
<1>6. ASSUME NEW p \in frame, NEW f \in Fields, Load(field[p][f])
      PROVE  IInv' /\ [Heap!Next]_(Heap!vars)
  <2>1. PICK r : r = field[p][f]
    OBVIOUS
  <2>2. r \in Used \cup {0} /\ Load(r)
    BY <1>0, <1>6, <2>1 DEF IInv, NothingDangles
  <2> QED BY <2>1, <2>2, LoadKeeps DEF Heap!Next
<1>7. ASSUME NEW i \in Slots, Load(slot[i]) PROVE IInv' /\ [Heap!Next]_(Heap!vars)
  <2>1. PICK r : r = slot[i]
    OBVIOUS
  <2>2. r \in Used \cup {0} /\ Load(r)
    BY <1>7, <2>1 DEF IInv, NothingDangles
  <2> QED BY <2>1, <2>2, LoadKeeps DEF Heap!Next
<1>8. ASSUME NEW h \in frame, Forget(h) PROVE IInv' /\ [Heap!Next]_(Heap!vars)
  BY <1>8, ForgetKeeps DEF Heap!Next
<1> QED BY <1>1, <1>2, <1>3, <1>4, <1>5, <1>6, <1>7, <1>8, Zenon DEF Mutate

(* Every step. *)
LEMMA NextKeeps ==
  ASSUME IInv, [Next]_vars
  PROVE  IInv' /\ [Heap!Next]_(Heap!vars)
<1> DEFINE Jobs == [step : {"none", "minor", "full", "retry", "again"},
                    large : BOOLEAN, args : SUBSET Handles]
<1>0. ASSUME job' = job PROVE job' \in Jobs /\ JobOK'
  BY <1>0 DEF IInv, TypeOK, JobOK
<1>1. CASE CollectMinor
  <2>1. (Minor \/ MinorFails) /\ job' = job
    BY <1>1 DEF CollectMinor
  <2>2. CASE Minor
    <3>1. frame' = frame
      BY <2>2, SMTT(60) DEF Minor, MinorSucceeds
    <3>2. Held' = Held
      BY <2>1, <3>1 DEF Held
    <3> QED BY <1>0, <2>1, <2>2, <3>2, MinorKeeps, SMTT(60) DEF Heap!Next
  <2>3. CASE MinorFails
    <3>1. UNCHANGED <<space, field, frame, slot>>
      BY <2>3 DEF MinorFails, heap
    <3>2. Held' = Held /\ Used' = Used
      BY <2>1, <3>1 DEF Held, Used
    <3> QED BY <1>0, <2>1, <2>3, <3>1, <3>2, MinorFailsKeeps DEF Heap!vars
  <2> QED BY <2>1, <2>2, <2>3
<1>2. CASE CollectFull
  <2>1. Full(FullMarks) /\ job' = job
    BY <1>2, SMTT(60) DEF CollectFull
  <2>2. frame' = frame
    BY <2>1, ZenonT(40) DEF Full
  <2>3. Held' = Held
    BY <2>1, <2>2, Zenon DEF Held
  <2> QED BY <1>0, <2>1, <2>3, FullKeeps DEF Heap!Next
<1>3. CASE Construct
  BY <1>3, PlaceKeeps DEF Construct, Heap!Next
<1>4. CASE Again
  <2>1. PICK h \in Handles, init \in [Fields -> Held \cup {0}], array \in BOOLEAN :
          Place(h, init, job.large, array, {})
    BY <1>4 DEF Again
  <2>2. job.large \in BOOLEAN /\ {} \in SUBSET frame
    BY DEF IInv, TypeOK
  <2> QED BY <2>1, <2>2, PlaceKeeps DEF Heap!Next
<1>5. CASE Exhausted \/ GiveUp \/ AllocMinor \/ AllocFull
  BY <1>5, StagesKeep
<1>6. CASE Mutate
  BY <1>6, MutateKeeps
<1>7. CASE UNCHANGED vars
  <2>1. /\ UNCHANGED <<space, field, frame, slot, mark, dirty, fullSince, moving, job>>
    BY <1>7 DEF vars, heap
  <2>2. Held' = Held /\ Used' = Used /\ Young' = Young
    BY <2>1, SMTT(60) DEF Held, Used, Old, Young
  <2>3. MarksOK' /\ mark' \in SUBSET Handles /\ fullSince' \in BOOLEAN
        /\ frame' \in SUBSET Handles /\ Held' \subseteq Used
    BY <2>1, <2>2 DEF IInv, MarksOK, TypeOK, NothingDangles
  <2>4. IInv'
    BY <1>0, <2>1, <2>3, QuietKeeps
  <2> QED BY <2>1, <2>2, <2>4 DEF Heap!vars
<1> QED BY <1>1, <1>2, <1>3, <1>4, <1>5, <1>6, <1>7 DEF Next, Allocate

(* The empty heap. *)
LEMMA InitKeeps ==
  ASSUME Init
  PROVE  IInv /\ Heap!Init
<1>1. Used = {} /\ Old = {} /\ Young = {} /\ Held = {}
  BY SMTT(60) DEF Init, Used, Old, Young, Held, NoJob
<1>2. TypeOK
  BY Zenon DEF Init, TypeOK, NoJob, Heap!Refs, Heap!Blank
<1>3. NothingDangles /\ RememberedIsComplete /\ MarksOK /\ CardsOK /\ JobOK
  BY <1>1 DEF Init, NothingDangles, RememberedIsComplete, MarksOK, CardsOK, JobOK, NoJob
<1>4. Heap!Init
  BY <1>1 DEF Init, Heap!Init
<1> QED BY <1>2, <1>3, <1>4 DEF IInv

-----------------------------------------------------------------------------
(* Types, no dangling reference, a complete remembered set and clean young *)
(* marks hold together in every reachable state, whatever the collections  *)
(* promote, keep young or fail to place.                                   *)
THEOREM Invariance == Spec => []IInv
<1>1. Init => IInv
  BY InitKeeps
<1>2. IInv /\ [Next]_vars => IInv'
  BY NextKeeps
<1> QED BY <1>1, <1>2, PTL DEF Spec

(* No reference, in a frame, a slot or any allocated object, ever names a  *)
(* freed handle (releaseHandle and newHandle recycle them).                *)
THEOREM NoDanglingReference == Spec => []NothingDangles
<1>1. IInv => NothingDangles
  BY DEF IInv
<1> QED BY <1>1, Invariance, PTL

(* The remembered set, its cards and the slot cards cover every reference  *)
(* from old to young: a minor collection need not look anywhere else.      *)
THEOREM RememberedSetIsComplete == Spec => []RememberedIsComplete
<1>1. IInv => RememberedIsComplete
  BY DEF IInv
<1> QED BY <1>1, Invariance, PTL

(* The generational collector implements the managed heap.                 *)
THEOREM Implements == Spec => ImplementsHeap
<1>1. Init => Heap!Init
  BY InitKeeps
<1>2. IInv /\ [Next]_vars => [Heap!Next]_(Heap!vars)
  BY NextKeeps
<1> QED BY <1>1, <1>2, Invariance, PTL DEF Spec, ImplementsHeap, Heap!Spec
=============================================================================
