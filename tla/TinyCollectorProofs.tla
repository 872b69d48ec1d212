------------------------ MODULE TinyCollectorProofs ------------------------
(***************************************************************************)
(* Proofs about TinyCollector for any heap, any shape of its objects and   *)
(* any epoch width, when the persistent slots fit in one root budget.      *)
(*                                                                         *)
(* Why the sweep frees nothing reachable.  There is a set of allocated     *)
(* objects that holds the roots and all that was ever marked in this cycle,*)
(* and that no field leaves.  Remark shades every root at once; if nothing *)
(* gray is left then, every marked object is black, black objects refer to *)
(* marked ones only, so the marked objects alone are such a set.  It stays *)
(* one throughout the sweep, because the mutator only handles references   *)
(* it can reach.                                                           *)
(***************************************************************************)
EXTENDS TinyCollector, TLAPS

(* The slots of one remark fit in one budget. *)
RemarkIsAtomic == NumSlots < RootBudget

(* The marked objects among u, under the colours c of epoch e. *)
Marked(u, c, e) == {h \in u : c[h] \in {e, e + GrayBit}}

(* The cursor of an object that is being scanned, not poisoned. *)
Cursor == IF state = "sweep" THEN NoScan ELSE scan

Active(s) == IF s.handle # 0 THEN {s.handle} ELSE {}

(* The gray objects are the queued ones and the active one. *)
GrayInv(u, c, e, g, s) ==
  /\ \A h \in u : c[h] = e + GrayBit <=> h \in g \cup Active(s)
  /\ g \subseteq u /\ Active(s) \subseteq u
  /\ g \cap Active(s) = {}

(* What was scanned of an object refers to marked objects only. *)
EdgeInv(u, c, e, s, fl) ==
  \A h \in u : \A f \in Fields :
    fl[h][f] # 0 /\ (c[h] = e \/ (s.handle = h /\ f <= s.index))
      => fl[h][f] \in Marked(u, c, e)

Shape == \A h \in Handles : \A f \in Fields : f > Width[h] => field[h][f] = 0

Phases ==
  /\ state = "idle" => rootPhase = "none" /\ gray = {} /\ scan = NoScan
                       /\ \A h \in used : IsBlack(h)
  /\ state = "mark" => rootPhase \in {"none", "sweepBarrier"}
  /\ state = "remark" => rootPhase = "transient"
  /\ state = "sweep" => rootPhase = "none"

(* R is allocated, holds the roots and the marked objects, and is closed. *)
Holds(R) ==
  /\ R \subseteq used
  /\ Heap!Named \subseteq R
  /\ Marked(used, color, markEpoch) \subseteq R
  /\ Heap!Closed(R)

Reach ==
  /\ \E R \in SUBSET Handles : Holds(R)
  /\ SweepActive => Holds(Marked(used, color, markEpoch))

Sweeping ==
  /\ used \subseteq 1..top
  /\ SweepActive => /\ 1 <= sweepLimit /\ sweepLimit <= top + 1
                    /\ \A h \in used : IsWhite(h) => sweep <= h /\ h < sweepLimit
  /\ state = "sweep" /\ scan.handle # 0 =>
       /\ scan.handle = sweep /\ scan.handle \in used
       /\ IsWhite(scan.handle) /\ scan.index < Chunks[scan.handle]

IInv ==
  /\ TypeOK /\ Shape /\ Phases /\ Reach /\ Sweeping
  /\ GrayInv(used, color, markEpoch, gray, Cursor)
  /\ EdgeInv(used, color, markEpoch, Cursor, field)

-----------------------------------------------------------------------------
(* Marking, on plain values. *)

(* Queueing objects that are not gray keeps the gray objects queued. *)
LEMMA ShadeGray ==
  ASSUME NEW u \in SUBSET Handles, NEW c, NEW e \in 0..EpochMask, NEW g, NEW s,
         NEW W \in SUBSET u, W \cap (g \cup Active(s)) = {},
         GrayInv(u, c, e, g, s),
         NEW d, \A h \in u : d[h] = IF h \in W THEN e + GrayBit ELSE c[h]
  PROVE  GrayInv(u, d, e, g \cup W, s)
  BY ZenonT(40) DEF GrayInv

(* It also keeps what was scanned, and marks W and nothing else. *)
LEMMA ShadeEdge ==
  ASSUME NEW u \in SUBSET Handles, NEW c, NEW e \in 0..EpochMask, NEW s, NEW fl,
         NEW W \in SUBSET u, EdgeInv(u, c, e, s, fl),
         NEW d, \A h \in u : d[h] = IF h \in W THEN e + GrayBit ELSE c[h]
  PROVE  /\ EdgeInv(u, d, e, s, fl)
         /\ Marked(u, d, e) = Marked(u, c, e) \cup W
  BY BudgetAssumption DEF EdgeInv, Marked, GrayBit

(***************************************************************************)
(* One unit of drain keeps both, marks only what a marked object refers    *)
(* to, and unmarks nothing.                                                *)
(***************************************************************************)
LEMMA DrainKeeps ==
  ASSUME NEW u \in SUBSET Handles, NEW c \in [Handles -> Colors], NEW g \in SUBSET Handles,
         NEW fl \in [Handles -> [Fields -> Heap!Refs]], NEW R \in SUBSET u,
         TypeOK,
         \A h \in Handles : \A f \in Fields : f > Width[h] => fl[h][f] = 0,
         GrayInv(u, c, markEpoch, g, scan),
         EdgeInv(u, c, markEpoch, scan, fl),
         Marked(u, c, markEpoch) \subseteq R,
         \A h \in R : \A f \in Fields : fl[h][f] \in R \cup {0},
         Drain(u, c, g, fl)
  PROVE  /\ color' \in [Handles -> Colors] /\ gray' \in SUBSET Handles
         /\ scan' \in [handle : 0..MaxHandle, index : Nat]
         /\ GrayInv(u, color', markEpoch, gray', scan')
         /\ EdgeInv(u, color', markEpoch, scan', fl)
         /\ Marked(u, color', markEpoch) \subseteq R
         /\ Marked(u, c, markEpoch) \subseteq Marked(u, color', markEpoch)
<1> USE ShapeAssumption, BudgetAssumption
<1>1. CASE scan.handle = 0 /\ g = {} /\ color' = c /\ gray' = g /\ scan' = scan
  BY ZenonT(40), <1>1 DEF TypeOK
<1>2. CASE ~(scan.handle = 0 /\ g = {} /\ color' = c /\ gray' = g /\ scan' = scan)
  <2>p. PICK h \in IF scan.handle # 0 THEN {scan.handle} ELSE g :
          LET i    == IF scan.handle # 0 THEN scan.index ELSE 0
              done == i + 1 >= Width[h]
              W    == {x \in u : i < Width[h] /\ x = fl[h][i + 1] /\ c[x] \notin {Black, Gray}}
          IN /\ color' = [x \in Handles |-> IF x \in W THEN Gray
                                            ELSE IF x = h /\ done THEN Black ELSE c[x]]
             /\ gray' = (g \ {h}) \cup W
             /\ scan' = IF done THEN NoScan ELSE [handle |-> h, index |-> i + 1]
    BY <1>2, Zenon DEF Drain
  <2> DEFINE i == IF scan.handle # 0 THEN scan.index ELSE 0
             W == {x \in u : i < Width[h] /\ x = fl[h][i + 1] /\ c[x] \notin {Black, Gray}}
  <2>0. /\ i = (IF scan.handle # 0 THEN scan.index ELSE 0)
        /\ W = {x \in u : i < Width[h] /\ x = fl[h][i + 1] /\ c[x] \notin {Black, Gray}}
        /\ color' = [x \in Handles |-> IF x \in W THEN Gray
                                       ELSE IF x = h /\ i + 1 >= Width[h] THEN Black ELSE c[x]]
        /\ gray' = (g \ {h}) \cup W
        /\ scan' = IF i + 1 >= Width[h] THEN NoScan ELSE [handle |-> h, index |-> i + 1]
    BY ZenonT(40), <2>p
  <2> HIDE DEF i, W
  <2>e. /\ markEpoch \in Nat /\ markEpoch <= EpochMask
        /\ GrayBit \in Nat /\ GrayBit = EpochMask + 1
    BY DEF TypeOK, GrayBit
  <2>h. h \in u /\ c[h] = Gray
    BY ZenonT(40) DEF GrayInv, Active, Gray
  <2>1. /\ h \in u /\ h \in Handles /\ h # 0 /\ c[h] = Gray /\ i \in Nat
        /\ Width[h] \in Nat /\ Width[h] <= MaxWidth
        /\ markEpoch \in Nat /\ markEpoch <= EpochMask /\ GrayBit \in Nat /\ GrayBit = EpochMask + 1
        /\ h \in R /\ h \notin W
    <3>1. h \in Handles /\ h # 0
      BY <2>h DEF Handles
    <3>2. i \in Nat
      BY ZenonT(40), <2>0 DEF TypeOK
    <3>3. Width[h] \in Nat /\ Width[h] <= MaxWidth
      BY <3>1
    <3>4. h \in R
      BY ZenonT(40), <2>h DEF Marked, Gray
    <3>5. h \notin W
      BY ZenonT(40), <2>0, <2>h
    <3> QED BY ZenonT(40), <2>e, <2>h, <3>1, <3>2, <3>3, <3>4, <3>5
  <2>2. color' \in [Handles -> Colors] /\ gray' \in SUBSET Handles
    BY <2>0, <2>1 DEF Colors, Gray, Black
  <2>3. scan' \in [handle : 0..MaxHandle, index : Nat]
    BY <2>0, <2>1, SMTT(60) DEF NoScan, Handles
  <2>4. W \subseteq R
    <3> SUFFICES ASSUME NEW x \in W PROVE x \in R
      BY ZenonT(40)
    <3>1. i < Width[h] /\ x = fl[h][i + 1] /\ x \in u
      BY ZenonT(40), <2>0
    <3>2. i + 1 \in Fields
      BY <3>1, <2>1 DEF Fields
    <3>3. x # 0
      BY <3>1 DEF Handles
    <3> QED BY ZenonT(40), <3>1, <3>2, <3>3, <2>1
  <2>5. /\ \A x \in u : x \in W => color'[x] = Gray
        /\ \A x \in u : x \notin W /\ x # h => color'[x] = c[x]
        /\ color'[h] = IF i + 1 >= Width[h] THEN Black ELSE Gray
    BY ZenonT(40), <2>0, <2>1
  <2>6. Marked(u, color', markEpoch) = Marked(u, c, markEpoch) \cup W
    <3>1. Marked(u, c, markEpoch) \subseteq Marked(u, color', markEpoch)
      BY ZenonT(40), <2>1, <2>5 DEF Marked, Gray, Black
    <3>2. W \subseteq Marked(u, color', markEpoch)
      BY <2>0, <2>1, <2>5, ZenonT(40) DEF Marked, Gray, Black
    <3>3. Marked(u, color', markEpoch) \subseteq Marked(u, c, markEpoch) \cup W
      BY ZenonT(40), <2>0, <2>1, <2>5 DEF Marked, Gray, Black
    <3> QED BY ZenonT(40), <3>1, <3>2, <3>3
  <2>7. GrayInv(u, color', markEpoch, gray', scan')
    <3>1. g \cup Active(scan) = (g \ {h}) \cup {h}
      BY ZenonT(40), <2>0, <2>1 DEF Active
    <3>2. Active(scan') = IF i + 1 >= Width[h] THEN {} ELSE {h}
      BY <2>0, <2>1, Zenon DEF Active, NoScan
    <3>3. \A x \in u : color'[x] = markEpoch + GrayBit <=> x \in gray' \cup Active(scan')
      <4> SUFFICES ASSUME NEW x \in u
                   PROVE  color'[x] = markEpoch + GrayBit <=> x \in gray' \cup Active(scan')
        BY ZenonT(40)
      <4>1. CASE x \in W
        BY ZenonT(40), <4>1, <2>5, <2>0 DEF Gray
      <4>2. CASE x = h
        BY <4>2, <2>1, <2>5, <2>0, <3>2 DEF Gray, Black
      <4>3. CASE x \notin W /\ x # h
        BY ZenonT(40), <4>3, <2>5, <2>0, <3>1, <3>2 DEF GrayInv
      <4> QED BY ZenonT(40), <4>1, <4>2, <4>3
    <3>4. gray' \subseteq u /\ Active(scan') \subseteq u /\ gray' \cap Active(scan') = {}
      BY ZenonT(40), <2>0, <2>1, <3>2 DEF GrayInv
    <3> QED BY ZenonT(40), <3>3, <3>4 DEF GrayInv
  <2>8. EdgeInv(u, color', markEpoch, scan', fl)
    <3> SUFFICES ASSUME NEW x \in u, NEW f \in Fields, fl[x][f] # 0,
                        color'[x] = markEpoch \/ (scan'.handle = x /\ f <= scan'.index)
                 PROVE  fl[x][f] \in Marked(u, c, markEpoch) \cup W
      BY ZenonT(40), <2>6 DEF EdgeInv
    <3>1. CASE x # h
      <4>1. c[x] = markEpoch
        BY <3>1, <2>1, <2>5, <2>0, SMTT(60) DEF Gray, NoScan, Handles
      <4> QED BY <4>1, ZenonT(40) DEF EdgeInv
    <3>2. CASE x = h
      <4>1. f <= i + 1
        BY <3>2, <2>1, <2>5, <2>0, SMTT(60) DEF Gray, Black, NoScan, Fields
      <4>2. CASE f = i + 1
        <5>1. i < Width[h]
          BY <4>2, <3>2, <2>1 DEF Fields
        <5>2. fl[h][f] \in R /\ fl[h][f] \in u
          BY ZenonT(40), <3>2, <2>1
        <5> QED BY ZenonT(40), <5>1, <5>2, <4>2, <3>2, <2>0 DEF Marked, Gray, Black
      <4>3. CASE f # i + 1
        <5>1. f <= i
          BY <4>1, <4>3, <2>1 DEF Fields
        <5>2. scan.handle = h /\ f <= scan.index
          BY <5>1, <2>0, <2>1 DEF Fields
        <5> QED BY ZenonT(40), <5>2, <3>2 DEF EdgeInv
      <4> QED BY ZenonT(40), <4>2, <4>3
    <3> QED BY ZenonT(40), <3>1, <3>2
  <2> QED BY ZenonT(40), <2>2, <2>3, <2>4, <2>6, <2>7, <2>8
<1> QED BY ZenonT(40), <1>1, <1>2

-----------------------------------------------------------------------------
(* One step at a time: every action keeps IInv. *)

(* With the slots inside one budget, a root scan is a single step. *)
LEMMA RootFacts ==
  ASSUME RemarkIsAtomic
  PROVE  /\ RootsDone(0) /\ RootPhase(0) = "none" /\ RootCursor(0) = 1
         /\ RootChunk(0) = {slot[i] : i \in Slots}
<1> USE ShapeAssumption, BudgetAssumption DEF RemarkIsAtomic
<1>1. RootsDone(0)
  BY DEF RootsDone
<1>2. {j \in Slots : 0 < j /\ j <= 0 + RootBudget} = Slots
  BY DEF Slots
<1> QED BY ZenonT(40), <1>1, <1>2 DEF RootPhase, RootCursor, RootChunk

(* Epochs and the gray bit never meet. *)
LEMMA EpochFacts ==
  ASSUME TypeOK
  PROVE  /\ markEpoch \in Nat /\ markEpoch <= EpochMask
         /\ GrayBit \in Nat /\ GrayBit = EpochMask + 1
         /\ EpochMask \in Nat /\ EpochMask >= 1
  BY BudgetAssumption DEF TypeOK, GrayBit

(* What the program can name is allocated. *)
LEMMA NamedIsUsed ==
  ASSUME IInv
  PROVE  /\ frame \subseteq used
         /\ \A i \in Slots : slot[i] # 0 => slot[i] \in used
<1>1. PICK R \in SUBSET Handles : Holds(R)
  BY ZenonT(40) DEF IInv, Reach
<1>2. frame \subseteq Handles /\ 0 \notin Handles
  BY DEF IInv, TypeOK, Handles
<1> QED BY ZenonT(40), <1>1, <1>2 DEF Holds, Heap!Named

(* Marking inside a closed set keeps it closed. *)
LEMMA ReachMono ==
  ASSUME IInv, UNCHANGED <<heap, markEpoch>>, SweepActive' => SweepActive,
         NEW R \in SUBSET Handles, Holds(R),
         SweepActive => R = Marked(used, color, markEpoch),
         Marked(used, color, markEpoch) \subseteq Marked(used, color', markEpoch),
         Marked(used, color', markEpoch) \subseteq R
  PROVE  Reach'
<1>1. Holds(R)'
  BY ZenonT(40) DEF Holds, heap, Heap!Named, Heap!Closed
<1>2. SweepActive' => R = Marked(used, color, markEpoch)'
  BY ZenonT(40) DEF heap
<1> QED BY ZenonT(40), <1>1, <1>2 DEF Reach

(* A new cycle. *)
LEMMA StartMarkKeeps ==
  ASSUME RemarkIsAtomic, IInv, StartMark, full' \in BOOLEAN
  PROVE  IInv'
<1> USE ShapeAssumption, BudgetAssumption
<1> DEFINE e == IF state = "idle" THEN NextEpoch ELSE 1
           old == IF state = "idle" THEN color ELSE [h \in Handles |-> 0]
           W == {h \in (frame \cup RootChunk(0)) \cap used : old[h] \notin {e, e + GrayBit}}
<1>1. /\ markEpoch' = e
      /\ color' = [h \in Handles |-> IF h \in W THEN e + GrayBit ELSE old[h]]
      /\ gray' = W /\ scan' = NoScan
      /\ state' = "mark" /\ rootPhase' = "none" /\ sweep' = 1 /\ sweepLimit' = 0
      /\ UNCHANGED <<used, field, frame, slot, top>>
  BY ZenonT(40), RootFacts DEF StartMark, heap
<1>2. TypeOK
  BY ZenonT(40) DEF IInv
<1>3. e \in 0..EpochMask /\ e \in Nat /\ e <= EpochMask
  BY <1>2, EpochFacts DEF NextEpoch
<1>4. old \in [Handles -> Colors]
  BY <1>2, EpochFacts DEF TypeOK, Colors
<1>5. \A h \in used : old[h] \notin {e, e + GrayBit}
  <2>1. CASE state = "idle"
    <3>1. \A h \in used : old[h] = markEpoch
      BY ZenonT(40), <2>1 DEF IInv, Phases, IsBlack, Black
    <3> QED BY <3>1, <2>1, <1>2, EpochFacts DEF NextEpoch
  <2>2. CASE state # "idle"
    BY <2>2, <1>2, EpochFacts DEF TypeOK
  <2> QED BY ZenonT(40), <2>1, <2>2
<1>6. W \subseteq used /\ W \subseteq Handles
  BY ZenonT(40), <1>2 DEF TypeOK
<1> HIDE DEF W, e, old
<1>7. TypeOK'
  <2>1. color' \in [Handles -> Colors]
    BY <1>1, <1>2, <1>3, <1>4, EpochFacts DEF Colors
  <2> QED BY <1>1, <1>2, <1>3, <1>6, <2>1 DEF TypeOK, NoScan
<1>8. Marked(used', color', markEpoch') = W
  BY ZenonT(40), <1>1, <1>2, <1>3, <1>5, <1>6 DEF Marked, TypeOK
<1>9. PICK R \in SUBSET Handles : Holds(R)
  BY ZenonT(40) DEF IInv, Reach
<1>10. W \subseteq R
  <2>1. 0 \notin Handles
    BY DEF Handles
  <2>2. W \subseteq (frame \cup {slot[i] : i \in Slots}) \ {0}
    BY ZenonT(40), <1>6, <2>1, RootFacts DEF W
  <2> QED BY ZenonT(40), <2>2, <1>9 DEF Holds, Heap!Named
<1>11. Reach'
  <2>1. Holds(R)'
    BY ZenonT(40), <1>1, <1>8, <1>9, <1>10 DEF Holds, Heap!Named, Heap!Closed
  <2> QED BY ZenonT(40), <2>1, <1>1 DEF Reach, SweepActive
<1>12. GrayInv(used, color, markEpoch, gray, Cursor)'
  <2>1. Cursor' = NoScan /\ Active(NoScan) = {}
    BY ZenonT(40), <1>1 DEF Cursor, Active, NoScan
  <2>2. \A h \in used' : color'[h] = markEpoch' + GrayBit <=> h \in W
    BY ZenonT(40), <1>1, <1>2, <1>5 DEF TypeOK
  <2> QED BY ZenonT(40), <1>1, <1>6, <2>1, <2>2 DEF GrayInv
<1>13. EdgeInv(used, color, markEpoch, Cursor, field)'
  <2>1. Cursor'.handle = 0 /\ 0 \notin Handles
    BY <1>1 DEF Cursor, NoScan, Handles
  <2>2. \A h \in used' : color'[h] # markEpoch'
    BY <1>1, <1>2, <1>3, <1>5, EpochFacts DEF TypeOK
  <2> QED BY <1>1, <1>2, <2>1, <2>2, Zenon DEF EdgeInv, TypeOK
<1>14. Shape' /\ Phases' /\ Sweeping'
  BY ZenonT(40), <1>1 DEF IInv, Shape, Phases, Sweeping, SweepActive
<1> QED BY ZenonT(40), <1>7, <1>11, <1>12, <1>13, <1>14 DEF IInv

(* A step that only marks, inside a cycle, keeps the rest of IInv. *)
LEMMA MarkingKeeps ==
  ASSUME IInv, UNCHANGED <<heap, top, markEpoch, sweep, sweepLimit>>, full' \in BOOLEAN,
         state # "idle", Phases', SweepActive' => SweepActive,
         state' = "sweep" => scan' = scan \/ scan'.handle = 0,
         state' = "sweep" /\ scan'.handle # 0 => state = "sweep",
         state' \in {"mark", "remark", "sweep"},
         rootPhase' \in {"none", "transient", "slots", "sweepBarrier"},
         color' \in [Handles -> Colors], gray' \in SUBSET Handles,
         scan' \in [handle : 0..MaxHandle, index : Nat],
         NEW R \in SUBSET Handles, Holds(R),
         SweepActive => R = Marked(used, color, markEpoch),
         Marked(used, color, markEpoch) \subseteq Marked(used, color', markEpoch),
         Marked(used, color', markEpoch) \subseteq R,
         GrayInv(used, color', markEpoch, gray', Cursor'),
         EdgeInv(used, color', markEpoch, Cursor', field)
  PROVE  IInv'
<1>1. TypeOK'
  BY ZenonT(40) DEF IInv, TypeOK, heap
<1>2. Reach'
  BY ZenonT(40), ReachMono
<1>3. Shape'
  BY ZenonT(40) DEF IInv, Shape, heap
<1>4. \A h \in used : IsWhite(h)' => IsWhite(h)
  BY ZenonT(40) DEF Marked, IsWhite, Black, Gray
<1>5. state' = "sweep" /\ scan'.handle # 0 => ~IsWhite(scan.handle) \/ IsWhite(scan.handle)'
  BY ZenonT(40) DEF IInv, Sweeping, SweepActive, Marked, IsWhite, Black, Gray
<1>6. Sweeping'
  <2>1. used' = used /\ top' = top /\ sweep' = sweep /\ sweepLimit' = sweepLimit
    BY ZenonT(40) DEF heap
  <2> QED BY ZenonT(40), <1>4, <1>5, <2>1 DEF IInv, Sweeping
<1>7. GrayInv(used, color, markEpoch, gray, Cursor)' /\ EdgeInv(used, color, markEpoch, Cursor, field)'
  BY ZenonT(40) DEF heap
<1> QED BY ZenonT(40), <1>1, <1>2, <1>3, <1>6, <1>7 DEF IInv

(* A bounded scan, in mark or in a mark that interrupted the sweep. *)
LEMMA DrainStep ==
  ASSUME IInv, UNCHANGED <<heap, top, markEpoch, sweep, sweepLimit>>, full' \in BOOLEAN,
         state = "mark", Drain(used, color, gray, field), Phases', SweepActive' => SweepActive,
         state' = "mark" \/ (state' = "sweep" /\ scan'.handle = 0),
         rootPhase' \in {"none", "sweepBarrier"}
  PROVE  IInv'
<1>1. PICK R \in SUBSET Handles : Holds(R) /\ (SweepActive => R = Marked(used, color, markEpoch))
  BY ZenonT(40) DEF IInv, Reach, Marked, TypeOK
<1>2. /\ color' \in [Handles -> Colors] /\ gray' \in SUBSET Handles
      /\ scan' \in [handle : 0..MaxHandle, index : Nat]
      /\ GrayInv(used, color', markEpoch, gray', scan')
      /\ EdgeInv(used, color', markEpoch, scan', field)
      /\ Marked(used, color', markEpoch) \subseteq R
      /\ Marked(used, color, markEpoch) \subseteq Marked(used, color', markEpoch)
  <2>1. TypeOK /\ used \in SUBSET Handles /\ R \in SUBSET used
    BY ZenonT(40), <1>1 DEF IInv, TypeOK, Holds
  <2>2. GrayInv(used, color, markEpoch, gray, scan) /\ EdgeInv(used, color, markEpoch, scan, field)
    BY ZenonT(40) DEF IInv, Cursor
  <2>3. \A h \in Handles : \A f \in Fields : f > Width[h] => field[h][f] = 0
    BY ZenonT(40) DEF IInv, Shape
  <2>4. /\ color \in [Handles -> Colors] /\ gray \in SUBSET Handles
        /\ field \in [Handles -> [Fields -> Heap!Refs]]
    BY ZenonT(40) DEF IInv, TypeOK
  <2>5. /\ Marked(used, color, markEpoch) \subseteq R
        /\ \A h \in R : \A f \in Fields : field[h][f] \in R \cup {0}
    BY ZenonT(40), <1>1 DEF Holds, Heap!Closed
  <2> QED BY <2>1, <2>2, <2>3, <2>4, <2>5, DrainKeeps, ZenonT(40)
<1>3. CASE state' = "mark"
  <2>1. Cursor' = scan'
    BY ZenonT(40), <1>3 DEF Cursor
  <2> QED BY ZenonT(40), <1>1, <1>2, <1>3, <2>1, MarkingKeeps
<1>4. CASE state' = "sweep" /\ scan'.handle = 0
  <2>1. Cursor'.handle = 0 /\ 0 \notin Handles /\ used \subseteq Handles
    BY <1>4, SMTT(60) DEF Cursor, NoScan, Handles, IInv, TypeOK
  <2>2. GrayInv(used, color', markEpoch, gray', Cursor')
    BY ZenonT(40), <1>2, <1>4, <2>1 DEF GrayInv, Active
  <2>3. EdgeInv(used, color', markEpoch, Cursor', field)
    BY ZenonT(40), <1>2, <1>4, <2>1 DEF EdgeInv
  <2> QED BY ZenonT(40), <1>1, <1>2, <1>4, <2>2, <2>3, MarkingKeeps
<1> QED BY ZenonT(40), <1>3, <1>4

(* Step while marking. *)
LEMMA StepMarkKeeps ==
  ASSUME IInv, StepMark \/ StepSweepBarrier
  PROVE  IInv'
<1>0. full' \in BOOLEAN
  BY ZenonT(40) DEF StepMark, StepSweepBarrier, IInv, TypeOK
<1>1. CASE StepSweepBarrier
  <2>1. Phases'
    BY ZenonT(40), <1>1 DEF StepSweepBarrier, Phases
  <2>2. SweepActive
    BY ZenonT(40), <1>1 DEF StepSweepBarrier, SweepActive
  <2> QED BY ZenonT(40), <1>0, <1>1, <2>1, <2>2, DrainStep DEF StepSweepBarrier
<1>p. StepMark => state = "mark" /\ rootPhase = "none" /\ UNCHANGED <<heap, top, markEpoch, sweepLimit>>
  BY ZenonT(40) DEF StepMark, IInv, Phases
<1>q. StepMark /\ Pending => Drain(used, color, gray, field) /\ UNCHANGED <<state, rootPhase, sweep>>
  <2>1. (rootPhase # "slots" /\ rootPhase # "sweepBarrier") \/ ~StepMark
    BY ZenonT(40), <1>p
  <2> QED BY ZenonT(40), <2>1 DEF StepMark
<1>r. StepMark /\ ~Pending => /\ state' = "remark" /\ rootPhase' = "transient" /\ sweep' = 0
                             /\ UNCHANGED <<scan, color, gray>>
  <2>1. (rootPhase # "slots" /\ rootPhase # "sweepBarrier") \/ ~StepMark
    BY ZenonT(40), <1>p
  <2> QED BY ZenonT(40), <2>1 DEF StepMark
<1>2. CASE StepMark /\ Pending
  <2>1. Phases' /\ ~SweepActive'
    BY ZenonT(40), <1>2, <1>p, <1>q DEF SweepActive, Phases
  <2>2. /\ UNCHANGED <<heap, top, markEpoch, sweep, sweepLimit>> /\ state = "mark" /\ state' = "mark"
        /\ Drain(used, color, gray, field) /\ rootPhase' \in {"none", "sweepBarrier"}
    BY ZenonT(40), <1>2, <1>p, <1>q
  <2> QED BY ZenonT(40), <1>0, <2>1, <2>2, DrainStep
<1>3. CASE StepMark /\ ~Pending
  <2>1. /\ state = "mark" /\ state' = "remark" /\ rootPhase' = "transient" /\ sweep' = 0
        /\ rootPhase = "none"
        /\ UNCHANGED <<heap, top, markEpoch, sweepLimit, scan, color, gray>>
    BY ZenonT(40), <1>3, <1>p, <1>r
  <2>2. TypeOK' /\ Shape' /\ Phases' /\ Sweeping'
    BY ZenonT(40), <1>0, <2>1 DEF IInv, TypeOK, heap, Shape, Phases, Sweeping, SweepActive
  <2>3. PICK R \in SUBSET Handles : Holds(R)
    BY ZenonT(40) DEF IInv, Reach
  <2>4. ~SweepActive' /\ ~SweepActive
    BY ZenonT(40), <2>1 DEF SweepActive
  <2>5. Reach'
    BY ZenonT(40), <2>1, <2>3, <2>4, ReachMono DEF Holds
  <2>6. Cursor' = Cursor
    BY ZenonT(40), <2>1 DEF Cursor
  <2> QED BY ZenonT(40), <2>1, <2>2, <2>5, <2>6 DEF IInv, heap
<1> QED BY ZenonT(40), <1>1, <1>2, <1>3

(* Remark: with every root shaded and nothing left to scan, what is marked *)
(* is closed, and the sweep may start.                                     *)
LEMMA StepRemarkKeeps ==
  ASSUME RemarkIsAtomic, IInv, StepRemark
  PROVE  IInv'
<1> USE ShapeAssumption, BudgetAssumption
<1> DEFINE W == ToShade({slot[i] : i \in Slots} \cup frame)
           stop == Pending \/ W # {}
<1>1. /\ state = "remark" /\ rootPhase = "transient"
      /\ color' = Shaded(W) /\ gray' = gray \cup W
      /\ rootPhase' = "none" /\ sweep' = 1
      /\ state' = IF stop THEN "mark" ELSE "sweep"
      /\ sweepLimit' = IF stop THEN sweepLimit ELSE top + 1
      /\ UNCHANGED <<used, field, frame, slot, top, markEpoch, scan, full>>
  BY RootFacts, Zenon DEF StepRemark, IInv, Phases, heap
<1>2. TypeOK /\ 0 \notin Handles
  BY DEF IInv, Handles
<1>3. W \in SUBSET used /\ W \in SUBSET Handles
  BY ZenonT(40), <1>2 DEF ToShade, TypeOK
<1>4. W \cap (gray \cup Active(scan)) = {}
  BY ZenonT(40), <1>1 DEF IInv, GrayInv, Cursor, ToShade, IsWhite, Gray
<1>5. W \subseteq Heap!Named
  BY ZenonT(40), <1>2, <1>3 DEF ToShade, Heap!Named
<1>6. Heap!Named \subseteq Marked(used, color, markEpoch) \cup W
  BY NamedIsUsed, ZenonT(40) DEF Heap!Named, ToShade, Marked, IsWhite, Black, Gray
<1> HIDE DEF W
<1>c. /\ \A h \in used : color'[h] = IF h \in W THEN markEpoch + GrayBit ELSE color[h]
      /\ GrayInv(used, color, markEpoch, gray, scan)
      /\ EdgeInv(used, color, markEpoch, scan, field)
      /\ used \in SUBSET Handles /\ markEpoch \in 0..EpochMask
  BY ZenonT(40), <1>1, <1>2 DEF IInv, Cursor, Shaded, Gray, TypeOK
<1>7. GrayInv(used, color', markEpoch, gray', scan)
  BY <1>1, <1>c, <1>3, <1>4, ShadeGray, Zenon
<1>8. /\ EdgeInv(used, color', markEpoch, scan, field)
      /\ Marked(used, color', markEpoch) = Marked(used, color, markEpoch) \cup W
  BY <1>c, <1>3, ShadeEdge
<1>9. TypeOK'
  <2>1. color' \in [Handles -> Colors]
    BY <1>1, <1>2, EpochFacts DEF TypeOK, Shaded, Gray, Colors
  <2>2. sweepLimit' \in 0..MaxHandle + 1
    BY <1>1, <1>2, SMTT(60) DEF TypeOK
  <2> QED BY ZenonT(40), <1>1, <1>2, <1>3, <2>1, <2>2 DEF TypeOK
<1>10. Shape'
  BY ZenonT(40), <1>1 DEF IInv, Shape
<1>11. Phases'
  BY ZenonT(40), <1>1 DEF Phases
<1>12. CASE stop
  <2>1. PICK R \in SUBSET Handles : Holds(R)
    BY ZenonT(40) DEF IInv, Reach
  <2>2. ~SweepActive' /\ ~SweepActive
    BY ZenonT(40), <1>1, <1>12 DEF SweepActive
  <2>3. Reach'
    BY ZenonT(40), <1>1, <1>5, <1>8, <2>1, <2>2, ReachMono DEF Holds, heap
  <2>4. Sweeping'
    BY ZenonT(40), <1>1, <1>12, <2>2 DEF IInv, Sweeping
  <2>5. Cursor' = scan
    BY ZenonT(40), <1>1, <1>12 DEF Cursor
  <2> QED BY ZenonT(40), <1>1, <1>7, <1>8, <1>9, <1>10, <1>11, <2>3, <2>4, <2>5 DEF IInv
<1>13. CASE ~stop
  <2> DEFINE M == Marked(used, color, markEpoch)
  <2>1. scan.handle = 0 /\ gray = {} /\ W = {} /\ Active(scan) = {}
    BY <1>13, ZenonT(40) DEF Pending, Active
  <2>2. \A h \in M : color[h] = markEpoch
    BY <1>1, <2>1, ZenonT(40) DEF Marked, IInv, GrayInv, Cursor
  <2>3. \A h \in M : \A f \in Fields : field[h][f] \in M \cup {0}
    BY <1>1, <2>2, ZenonT(40) DEF IInv, EdgeInv, Marked
  <2>4. Holds(M)'
    BY <1>1, <1>6, <1>8, <2>1, <2>3 DEF Holds, Heap!Named, Heap!Closed, Marked
  <2>5. M \in SUBSET Handles
    BY ZenonT(40), <1>2 DEF Marked, TypeOK
  <2>6. M = Marked(used, color, markEpoch)'
    BY ZenonT(40), <1>1, <1>8, <2>1
  <2>7. Reach'
    BY <2>4, <2>5, <2>6, ZenonT(40) DEF Reach
  <2>8. Sweeping'
    <3>1. \A h \in used : 1 <= h /\ h < top + 1
      BY <1>2 DEF IInv, Sweeping, TypeOK
    <3> QED BY <1>1, <1>2, <1>13, <2>1, <3>1 DEF IInv, Sweeping, SweepActive, TypeOK
  <2>9. Cursor' = NoScan /\ NoScan.handle = 0 /\ Active(NoScan) = {}
    BY ZenonT(40), <1>1, <1>13 DEF Cursor, NoScan, Active
  <2>10. GrayInv(used, color', markEpoch, gray', NoScan)
    BY ZenonT(40), <1>7, <2>1, <2>9 DEF GrayInv
  <2>11. EdgeInv(used, color', markEpoch, NoScan, field)
    BY ZenonT(40), <1>2, <1>8, <2>1, <2>9 DEF EdgeInv, TypeOK
  <2> QED BY ZenonT(40), <1>1, <1>9, <1>10, <1>11, <2>7, <2>8, <2>9, <2>10, <2>11 DEF IInv
<1> QED BY ZenonT(40), <1>12, <1>13

(* What holds the marked objects depends on the heap and the colours only. *)
LEMMA SameHolds ==
  ASSUME UNCHANGED <<used, field, frame, slot, color, markEpoch>>
  PROVE  Holds(Marked(used, color, markEpoch))' <=> Holds(Marked(used, color, markEpoch))
<1>1. Heap!Named' = Heap!Named
  BY ZenonT(40) DEF Heap!Named
<1>2. PICK M : M = Marked(used, color, markEpoch)
  BY Zenon
<1>3. Marked(used, color, markEpoch)' = M
  BY ZenonT(40), <1>2 DEF Marked
<1>4. Heap!Closed(M)' <=> Heap!Closed(M)
  BY ZenonT(40) DEF Heap!Closed
<1>5. Heap!Closed(Marked(used, color, markEpoch))' <=> Heap!Closed(M)
  BY <1>3, <1>4 DEF Heap!Closed
<1> QED BY <1>1, <1>2, <1>3, <1>5, Zenon DEF Holds

(* Freeing the white object under the cursor. *)
LEMMA ReleaseKeeps ==
  ASSUME IInv, state = "sweep", sweep \in used, IsWhite(sweep), Release(sweep),
         scan'.handle = 0, scan' \in [handle : 0..MaxHandle, index : Nat], sweep' = sweep + 1,
         \/ state' = "sweep" /\ rootPhase' = "none"
         \/ state' = "mark" /\ rootPhase' = "sweepBarrier",
         UNCHANGED <<top, markEpoch, sweepLimit, gray, full>>
  PROVE  IInv'
<1> DEFINE M == Marked(used, color, markEpoch)
<1> USE ShapeAssumption, BudgetAssumption
<1>1. TypeOK /\ SweepActive /\ SweepActive' /\ 0 \notin Handles
  BY DEF IInv, SweepActive, Handles
<1>2. /\ used' = used \ {sweep} /\ frame' = frame /\ slot' = slot
      /\ field' = [field EXCEPT ![sweep] = Heap!Blank]
      /\ color' = [color EXCEPT ![sweep] = White]
      /\ sweep \in Handles
  BY ZenonT(40), <1>1 DEF Release, TypeOK
<1>3. \A h \in used' : h \in used /\ h # sweep /\ color'[h] = color[h] /\ field'[h] = field[h]
  BY ZenonT(40), <1>1, <1>2 DEF TypeOK
<1>4. sweep \notin M
  BY ZenonT(40) DEF Marked, IsWhite, Black, Gray
<1>5. Marked(used', color', markEpoch') = M
  BY ZenonT(40), <1>2, <1>3, <1>4 DEF Marked
<1>6. TypeOK'
  <2>1. color' \in [Handles -> Colors]
    BY <1>1, <1>2, EpochFacts DEF TypeOK, White, PrevEpoch, Colors
  <2>2. field' \in [Handles -> [Fields -> Heap!Refs]]
    BY <1>1, <1>2, ZenonT(40) DEF TypeOK, Heap!Blank, Heap!Refs
  <2> QED BY <1>1, <1>2, <2>1, <2>2 DEF TypeOK
<1>7. Shape'
  BY ZenonT(40), <1>1, <1>2 DEF IInv, Shape, TypeOK, Heap!Blank
<1>8. Reach'
  <2>1. Holds(M)
    BY ZenonT(40), <1>1 DEF IInv, Reach
  <2>2. \A h \in M : field'[h] = field[h]
    BY <1>1, <1>2, <1>4, ZenonT(40) DEF TypeOK, Marked
  <2>3. M \subseteq used' /\ Heap!Named' \subseteq M /\ Heap!Closed(M)
    BY <1>2, <1>4, <2>1, ZenonT(40) DEF Holds, Heap!Named
  <2>4. \A h \in M : \A f \in Fields : field'[h][f] \in M \cup {0}
    BY <2>2, <2>3, ZenonT(40) DEF Heap!Closed
  <2>5. Holds(Marked(used, color, markEpoch))'
    BY ZenonT(40), <1>5, <2>3, <2>4 DEF Holds, Heap!Closed
  <2>6. Marked(used, color, markEpoch)' \in SUBSET Handles
    BY <1>1, <1>5, Zenon DEF Marked, TypeOK
  <2> QED BY <2>5, <2>6, ZenonT(40) DEF Reach
<1>9. Sweeping'
  <2>1. \A h \in used' : IsWhite(h)' => IsWhite(h)
    BY <1>3, Zenon DEF IsWhite, Black, Gray
  <2>2. \A h \in used' : h \in Nat
    <3>1. used \subseteq Handles
      BY ZenonT(40), <1>1 DEF TypeOK
    <3>2. \A h \in Handles : h \in Nat
      BY DEF Handles
    <3> QED BY <1>3, <3>1, <3>2, Zenon
  <2> QED BY <1>1, <1>2, <1>3, <2>1, <2>2 DEF IInv, Sweeping, TypeOK
<1>10. Cursor.handle = 0 /\ Cursor'.handle = 0
  BY ZenonT(40) DEF Cursor, NoScan
<1>11. GrayInv(used, color, markEpoch, gray, Cursor)'
  BY ZenonT(40), <1>2, <1>3, <1>10 DEF IInv, GrayInv, Active, IsWhite, Gray
<1>12. EdgeInv(used, color, markEpoch, Cursor, field)'
  BY <1>1, <1>2, <1>3, <1>5, <1>10 DEF IInv, EdgeInv, TypeOK
<1> QED BY ZenonT(40), <1>6, <1>7, <1>8, <1>9, <1>11, <1>12 DEF IInv, Phases

(* The sweep, one handle at a time. *)
LEMMA StepSweepKeeps ==
  ASSUME IInv, StepSweep
  PROVE  IInv'
<1> USE ShapeAssumption, BudgetAssumption
<1>1. /\ TypeOK /\ SweepActive /\ state = "sweep" /\ rootPhase = "none"
      /\ 0 \notin Handles /\ Cursor = NoScan /\ NoScan.handle = 0
      /\ UNCHANGED <<top, markEpoch>>
  BY DEF IInv, StepSweep, SweepActive, Handles, Cursor, NoScan, Phases
<1>2. CASE SweepYields
  <2>1. /\ scan.handle = 0 /\ state' = "mark" /\ rootPhase' = "sweepBarrier"
        /\ UNCHANGED <<used, field, frame, slot, sweep, sweepLimit, scan, color, gray, full>>
    BY ZenonT(40), <1>2 DEF SweepYields, heap
  <2>2. Cursor'.handle = 0 /\ Phases' /\ SweepActive'
    BY ZenonT(40), <2>1 DEF Cursor, Phases, SweepActive
  <2>3. GrayInv(used, color, markEpoch, gray, Cursor)'
    BY ZenonT(40), <1>1, <2>1, <2>2 DEF IInv, GrayInv, Active
  <2>4. EdgeInv(used, color, markEpoch, Cursor, field)'
    BY ZenonT(40), <1>1, <2>1, <2>2 DEF IInv, EdgeInv, TypeOK
  <2>5. TypeOK' /\ Shape' /\ Sweeping'
    BY <1>1, <2>1, <2>2, ZenonT(40) DEF IInv, TypeOK, Shape, Sweeping, IsWhite, Black, Gray
  <2>6. Holds(Marked(used, color, markEpoch))'
    BY ZenonT(40), <1>1, <2>1, SameHolds DEF IInv, Reach
  <2>7. Marked(used, color, markEpoch)' \in SUBSET Handles
    BY ZenonT(40), <2>5 DEF Marked, TypeOK
  <2> QED BY ZenonT(40), <2>2, <2>3, <2>4, <2>5, <2>6, <2>7 DEF IInv, Reach
<1>3. ASSUME UNCHANGED <<used, field, frame, slot, color, state, rootPhase, sweepLimit, gray, full>>,
             scan' \in [handle : 0..MaxHandle, index : Nat], sweep' \in Nat,
             sweep' = sweep \/ (sweep' = sweep + 1 /\ ~(sweep \in used /\ IsWhite(sweep))
                                /\ scan'.handle = 0),
             scan'.handle # 0 =>
               /\ scan'.handle = sweep' /\ scan'.handle \in used
               /\ IsWhite(scan'.handle) /\ scan'.index < Chunks[scan'.handle]
      PROVE  IInv'
  <2>1. Cursor' = Cursor /\ SweepActive'
    BY ZenonT(40), <1>1, <1>3 DEF Cursor, SweepActive
  <2>2. TypeOK' /\ Shape' /\ Phases'
    BY <1>1, <1>3, ZenonT(40) DEF IInv, TypeOK, Shape, Phases, IsBlack, Black
  <2>3. Holds(Marked(used, color, markEpoch))'
    BY ZenonT(40), <1>1, <1>3, SameHolds DEF IInv, Reach
  <2>4. Marked(used, color, markEpoch)' \in SUBSET Handles
    BY ZenonT(40), <2>2 DEF Marked, TypeOK
  <2>5. \A h \in used : IsWhite(h)' <=> IsWhite(h)
    BY ZenonT(40), <1>1, <1>3 DEF IsWhite, Black, Gray
  <2>6. used \subseteq Nat /\ sweep \in Nat
    BY <1>1 DEF TypeOK, Handles
  <2>7. Sweeping'
    <3>1. \A h \in used' : IsWhite(h)' => sweep' <= h /\ h < sweepLimit'
      BY <1>1, <1>3, <2>5, <2>6 DEF IInv, Sweeping
    <3>2. scan'.handle # 0 => IsWhite(scan.handle)'
      BY ZenonT(40), <1>1, <1>3 DEF IsWhite, Black, Gray
    <3>3. /\ used' \subseteq 1..top' /\ 1 <= sweepLimit' /\ sweepLimit' <= top' + 1
      BY ZenonT(40), <1>1, <1>3 DEF IInv, Sweeping
    <3> QED BY ZenonT(40), <1>1, <1>3, <3>1, <3>2, <3>3 DEF Sweeping
  <2> QED BY ZenonT(40), <1>1, <1>3, <2>1, <2>2, <2>3, <2>4, <2>7 DEF IInv, Reach
<1>4. CASE SweepPoisons
  <2>1. scan.handle = sweep /\ sweep \in used /\ IsWhite(sweep) /\ scan.index \in Nat
        /\ Chunks[sweep] \in Nat /\ scan \in [handle : 0..MaxHandle, index : Nat]
    BY ZenonT(40), <1>1, <1>4 DEF SweepPoisons, TypeOK
  <2>2. CASE scan.index + 1 < Chunks[sweep]
    <3>1. /\ scan' = [scan EXCEPT !.index = @ + 1]
          /\ UNCHANGED <<used, field, frame, slot, color, state, rootPhase, sweep, sweepLimit, gray, full>>
      BY ZenonT(40), <1>4, <2>1, <2>2 DEF SweepPoisons, heap
    <3>2. scan'.handle = sweep /\ scan'.index = scan.index + 1
          /\ scan' \in [handle : 0..MaxHandle, index : Nat]
      BY <2>1, <3>1
    <3>3. sweep' \in Nat
      BY ZenonT(40), <1>1, <3>1 DEF TypeOK
    <3> QED BY ZenonT(40), <1>3, <2>1, <2>2, <3>1, <3>2, <3>3
  <2>3. CASE ~(scan.index + 1 < Chunks[sweep])
    <3>1. /\ scan' = NoScan /\ sweep' = sweep + 1 /\ Release(sweep)
          /\ \/ state' = "mark" /\ rootPhase' = "sweepBarrier"
             \/ state' = "sweep" /\ rootPhase' = "none"
          /\ UNCHANGED <<sweepLimit, gray, full>>
      BY ZenonT(40), <1>1, <1>4, <2>1, <2>3 DEF SweepPoisons
    <3>2. scan'.handle = 0 /\ scan' \in [handle : 0..MaxHandle, index : Nat]
      BY <3>1 DEF NoScan
    <3> QED BY ZenonT(40), <1>1, <2>1, <3>1, <3>2, ReleaseKeeps
  <2> QED BY ZenonT(40), <2>2, <2>3
<1>5. CASE SweepOne
  <2>1. scan.handle = 0 /\ UNCHANGED <<state, rootPhase, sweepLimit, gray, full>> /\ sweep \in Nat
        /\ scan \in [handle : 0..MaxHandle, index : Nat] /\ used \subseteq Handles
    BY ZenonT(40), <1>1, <1>5 DEF SweepOne, TypeOK
  <2>2. CASE sweep \in used /\ IsWhite(sweep) /\ Chunks[sweep] > 0
    <3>1. scan' = [handle |-> sweep, index |-> 0] /\ UNCHANGED <<used, field, frame, slot, sweep, color>>
      BY ZenonT(40), <1>5, <2>2 DEF SweepOne, heap
    <3>2. scan' \in [handle : 0..MaxHandle, index : Nat] /\ scan'.handle = sweep /\ scan'.index = 0
      BY <2>1, <2>2, <3>1 DEF Handles
    <3> QED BY ZenonT(40), <1>3, <2>1, <2>2, <3>1, <3>2
  <2>3. CASE sweep \in used /\ IsWhite(sweep) /\ ~(Chunks[sweep] > 0)
    <3>1. scan' = scan /\ sweep' = sweep + 1 /\ Release(sweep)
      BY ZenonT(40), <1>5, <2>3 DEF SweepOne
    <3> QED BY ZenonT(40), <1>1, <2>1, <2>3, <3>1, ReleaseKeeps
  <2>4. CASE ~(sweep \in used /\ IsWhite(sweep))
    <3>1. scan' = scan /\ sweep' = sweep + 1 /\ UNCHANGED <<used, field, frame, slot, color>>
      BY ZenonT(40), <1>5, <2>4 DEF SweepOne, heap
    <3> QED BY <1>3, <2>1, <2>4, <3>1
  <2> QED BY ZenonT(40), <2>2, <2>3, <2>4
<1>6. CASE scan.handle = 0 /\ gray = {} /\ sweep >= sweepLimit /\ FinishCycle
  <2>1. /\ gray' = {} /\ scan' = NoScan /\ state' = "idle" /\ rootPhase' = "none"
        /\ sweep' = 1 /\ sweepLimit' = 0 /\ full' = FALSE
        /\ UNCHANGED <<used, field, frame, slot, color>>
    BY <1>6, ZenonT(40) DEF FinishCycle, heap
  <2>2. \A h \in used : ~IsWhite(h)
    BY <1>1, <1>6 DEF IInv, Sweeping, TypeOK, Handles
  <2>3. \A h \in used : IsBlack(h)
    BY ZenonT(40), <1>1, <1>6, <2>2 DEF IInv, GrayInv, Active, IsWhite, IsBlack, Black, Gray
  <2>4. Cursor' = NoScan
    BY ZenonT(40), <2>1 DEF Cursor
  <2>5. TypeOK'
    <3>1. scan' \in [handle : 0..MaxHandle, index : Nat] /\ sweepLimit' \in 0..MaxHandle + 1
      BY <2>1 DEF NoScan
    <3>2. full' \in BOOLEAN
      BY <2>1, Zenon
    <3> QED BY ZenonT(40), <1>1, <2>1, <3>1, <3>2 DEF TypeOK
  <2>6. Phases'
    BY ZenonT(40), <1>1, <2>1, <2>3 DEF Phases, IsBlack, Black
  <2>7. Holds(Marked(used, color, markEpoch))' /\ ~SweepActive'
    BY ZenonT(40), <1>1, <2>1, SameHolds DEF IInv, Reach, SweepActive
  <2>8. Marked(used, color, markEpoch)' \in SUBSET Handles
    BY ZenonT(40), <2>5 DEF Marked, TypeOK
  <2>9. Shape' /\ Sweeping'
    BY <1>1, <2>1, <2>7, Zenon DEF IInv, Shape, Sweeping
  <2>10. GrayInv(used, color, markEpoch, gray, Cursor)' /\ EdgeInv(used, color, markEpoch, Cursor, field)'
    BY ZenonT(40), <1>1, <1>6, <2>1, <2>4 DEF IInv
  <2> QED BY ZenonT(40), <2>5, <2>6, <2>7, <2>8, <2>9, <2>10 DEF IInv, Reach
<1> QED BY ZenonT(40), <1>2, <1>4, <1>5, <1>6 DEF StepSweep

(* In a sweep, everything the program holds is marked already. *)
LEMMA FrameIsMarked ==
  ASSUME IInv, SweepActive, NEW v \in frame
  PROVE  v \in Marked(used, color, markEpoch) /\ ToShade({v}) = {}
<1>1. v \in Handles /\ 0 \notin Handles
  BY DEF IInv, TypeOK, Handles
<1>2. v \in Marked(used, color, markEpoch)
  BY <1>1, ZenonT(40) DEF IInv, Reach, Holds, Heap!Named
<1> QED BY ZenonT(40), <1>2 DEF Marked, ToShade, IsWhite, Black, Gray

(* A step of the program that allocates nothing and does not stop a sweep. *)
LEMMA ProgramKeeps ==
  ASSUME IInv, UNCHANGED <<used, top, markEpoch, sweep, sweepLimit, state, rootPhase, full>>,
         frame' \in SUBSET Handles, slot' \in [Slots -> Heap!Refs],
         field' \in [Handles -> [Fields -> Heap!Refs]], Shape',
         color' \in [Handles -> Colors], gray' \in SUBSET Handles,
         scan' \in [handle : 0..MaxHandle, index : Nat],
         state = "idle" => UNCHANGED <<color, gray, scan>>,
         state = "sweep" => UNCHANGED scan,
         NEW R \in SUBSET used, SweepActive => R = Marked(used, color, markEpoch),
         Heap!Named' \subseteq R,
         \A h \in R : \A f \in Fields : field'[h][f] \in R \cup {0},
         Marked(used, color, markEpoch) \subseteq Marked(used, color', markEpoch),
         Marked(used, color', markEpoch) \subseteq R,
         GrayInv(used, color', markEpoch, gray', Cursor'),
         EdgeInv(used, color', markEpoch, Cursor', field')
  PROVE  IInv'
<1>1. TypeOK'
  BY ZenonT(40) DEF IInv, TypeOK
<1>2. Phases'
  BY ZenonT(40) DEF IInv, Phases, IsBlack, Black
<1>3. R \in SUBSET Handles /\ (SweepActive' <=> SweepActive)
  BY ZenonT(40) DEF IInv, TypeOK, SweepActive
<1>4. Reach'
  <2>1. Holds(R)'
    BY ZenonT(40) DEF Holds, Heap!Closed
  <2>2. SweepActive' => R = Marked(used, color, markEpoch)'
    BY <1>3, ZenonT(40)
  <2> QED BY <1>3, <2>1, <2>2, ZenonT(40) DEF Reach
<1>5. \A h \in used : IsWhite(h)' => IsWhite(h)
  BY ZenonT(40) DEF Marked, IsWhite, Black, Gray
<1>6. state = "sweep" /\ scan.handle # 0 => IsWhite(scan.handle)'
  BY ZenonT(40) DEF IInv, Sweeping, SweepActive, Marked, IsWhite, Black, Gray
<1>7. Sweeping'
  BY ZenonT(40), <1>3, <1>5, <1>6 DEF IInv, Sweeping
<1> QED BY <1>1, <1>2, <1>4, <1>7, ZenonT(40) DEF IInv

(* Frames and slots: roots change, and what a slot names is shaded. *)
LEMMA RootsKeep ==
  ASSUME IInv, UNCHANGED <<used, field, top, markEpoch, sweep, sweepLimit, scan, full>>,
         NEW v \in frame \cup {0},
         color' = Shaded(RootShades(v)), gray' = gray \cup RootShades(v),
         Interrupt(Interrupts(RootShades(v))),
         \A R \in SUBSET Handles : Holds(R) => Heap!Named' \subseteq R,
         frame' \in SUBSET Handles, slot' \in [Slots -> Heap!Refs]
  PROVE  IInv'
<1> DEFINE W == RootShades(v)
<1>1. TypeOK /\ 0 \notin Handles /\ used \in SUBSET Handles /\ markEpoch \in 0..EpochMask
  BY DEF IInv, TypeOK, Handles
<1>2. W \in SUBSET used /\ W \in SUBSET frame /\ W \in SUBSET Handles
  BY ZenonT(40), <1>1, NamedIsUsed DEF RootShades, ToShade
<1>3. SweepActive => W = {}
  BY ZenonT(40), <1>1, <1>2, FrameIsMarked DEF RootShades, ToShade
<1>4. UNCHANGED <<state, rootPhase>>
  BY ZenonT(40), <1>3 DEF Interrupts, Interrupt, SweepActive
<1>5. Cursor' = Cursor
  BY <1>4, ZenonT(40) DEF Cursor
<1>6. W \cap (gray \cup Active(Cursor)) = {}
  BY ZenonT(40), <1>2 DEF IInv, GrayInv, RootShades, ToShade, IsWhite, Gray
<1>7. state = "idle" => W = {}
  BY ZenonT(40) DEF RootShades
<1>8. color' = [h \in Handles |-> IF h \in W THEN markEpoch + GrayBit ELSE color[h]] /\ gray' = gray \cup W
  BY ZenonT(40) DEF Shaded, Gray
<1> HIDE DEF W
<1>c. /\ GrayInv(used, color, markEpoch, gray, Cursor)
      /\ EdgeInv(used, color, markEpoch, Cursor, field)
      /\ \A h \in used : color'[h] = IF h \in W THEN markEpoch + GrayBit ELSE color[h]
  BY ZenonT(40), <1>1, <1>8 DEF IInv
<1>9. GrayInv(used, color', markEpoch, gray', Cursor)
  BY <1>1, <1>2, <1>6, <1>8, <1>c, ZenonT(40) DEF GrayInv
<1>10. /\ EdgeInv(used, color', markEpoch, Cursor, field)
       /\ Marked(used, color', markEpoch) = Marked(used, color, markEpoch) \cup W
  BY <1>1, <1>2, <1>c, ShadeEdge
<1>11. PICK R \in SUBSET Handles : Holds(R) /\ (SweepActive => R = Marked(used, color, markEpoch))
  BY <1>1, ZenonT(40) DEF IInv, Reach, Marked
<1>12. /\ color' \in [Handles -> Colors] /\ gray' \in SUBSET Handles
       /\ scan' \in [handle : 0..MaxHandle, index : Nat]
       /\ field' \in [Handles -> [Fields -> Heap!Refs]] /\ Shape'
  <2>1. color' \in [Handles -> Colors]
    BY <1>1, <1>8, EpochFacts, SMTT(60) DEF TypeOK, Colors
  <2> QED BY <2>1, <1>1, <1>2, <1>8, ZenonT(40) DEF TypeOK, IInv, Shape
<1>13. W \subseteq R /\ R \in SUBSET used
  BY <1>1, <1>2, <1>11, ZenonT(40) DEF Holds, Heap!Named
<1>14. \A h \in R : \A f \in Fields : field'[h][f] \in R \cup {0}
  BY ZenonT(40), <1>11 DEF Holds, Heap!Closed
<1>15. state = "idle" => UNCHANGED <<color, gray, scan>>
  BY ZenonT(40), <1>1, <1>7, <1>8 DEF TypeOK
<1>16. Marked(used, color', markEpoch) \subseteq R
  BY ZenonT(40), <1>10, <1>11, <1>13 DEF Holds
<1> QED BY <1>4, <1>5, <1>9, <1>10, <1>11, <1>12, <1>13, <1>14, <1>15, <1>16, ProgramKeeps, Zenon

(* The fields fl are those of the heap after stores of v into p. *)
Stored(fl, p, v) ==
  /\ fl \in [Handles -> [Fields -> Heap!Refs]]
  /\ \A h \in Handles : h # p => fl[h] = field[h]
  /\ \A f \in Fields : fl[p][f] \in {v, field[p][f]}

(* The heap fl and the colours c, with W queued, are as IInv wants them. *)
AfterStore(fl, W, c) ==
  /\ W \in SUBSET used
  /\ SweepActive \/ state = "idle" => W = {}
  /\ c \in [Handles -> Colors]
  /\ GrayInv(used, c, markEpoch, gray \cup W, Cursor)
  /\ EdgeInv(used, c, markEpoch, Cursor, fl)
  /\ Marked(used, c, markEpoch) = Marked(used, color, markEpoch) \cup W
  /\ \A R \in SUBSET Handles : Holds(R) =>
       W \subseteq R /\ \A h \in R : \A f \in Fields : fl[h][f] \in R \cup {0}

(* A store into p and its barrier, before any draining. *)
LEMMA StoreFacts ==
  ASSUME IInv, NEW p \in frame, NEW v \in frame \cup {0}, NEW fl, Stored(fl, p, v)
  PROVE  AfterStore(fl, BarrierShades(p, v), Shaded(BarrierShades(p, v)))
<1>a. PICK W : W = BarrierShades(p, v)
  BY ZenonT(40)
<1>b. PICK d : d = Shaded(W)
  BY ZenonT(40)
<1>1. TypeOK /\ 0 \notin Handles /\ used \in SUBSET Handles /\ markEpoch \in 0..EpochMask
      /\ p \in used /\ (v # 0 => v \in used)
  BY NamedIsUsed, SMTT(60) DEF IInv, TypeOK, Handles
<1>2. W \in SUBSET {v, p} /\ (W # {} => v \in W /\ v \in used /\ IsWhite(v) /\ ~IsWhite(p))
  BY ZenonT(40), <1>a, <1>1 DEF BarrierShades, ToShade
<1>3. p \in W => v = p \/ IsBlack(p)
  BY ZenonT(40), <1>a, <1>1 DEF BarrierShades, ToShade, IsWhite, IsGray, IsBlack
<1>4. W \in SUBSET used
  BY ZenonT(40), <1>1, <1>2
<1>5. ASSUME NEW R \in SUBSET Handles, Holds(R) PROVE W \subseteq R
  BY ZenonT(40), <1>5, <1>1, <1>2, <1>4 DEF Holds, Heap!Named
<1>6. SweepActive \/ state = "idle" => W = {}
  <2>1. CASE SweepActive
    BY ZenonT(40), <1>a, <1>2, <2>1, FrameIsMarked, <1>1 DEF BarrierShades, ToShade
  <2>2. CASE state = "idle"
    BY ZenonT(40), <1>a, <2>2 DEF BarrierShades
  <2> QED BY ZenonT(40), <2>1, <2>2
<1>7. d = [h \in Handles |-> IF h \in W THEN markEpoch + GrayBit ELSE color[h]]
  BY ZenonT(40), <1>b DEF Shaded, Gray
<1>c. \A h \in used : d[h] = IF h \in W THEN markEpoch + GrayBit ELSE color[h]
  BY <1>1, <1>7, ZenonT(40)
<1>8. d \in [Handles -> Colors]
  BY <1>1, <1>7, EpochFacts DEF TypeOK, Colors
<1>9. W \cap (gray \cup Active(Cursor)) = {}
  <2>1. \A h \in gray \cup Active(Cursor) : h \in used /\ color[h] = markEpoch + GrayBit
    BY ZenonT(40) DEF IInv, GrayInv
  <2>2. \A h \in W : IsWhite(h) \/ IsBlack(h)
    BY ZenonT(40), <1>2, <1>3
  <2> QED BY <2>1, <2>2, <1>1, EpochFacts, SMTT(60) DEF IsWhite, IsBlack, Black, Gray
<1>10. GrayInv(used, d, markEpoch, gray \cup W, Cursor)
  <2>1. GrayInv(used, color, markEpoch, gray, Cursor)
    BY ZenonT(40) DEF IInv
  <2> QED BY ZenonT(40), <1>1, <1>4, <1>c, <1>9, <2>1 DEF GrayInv
<1>11. /\ EdgeInv(used, d, markEpoch, Cursor, field)
       /\ Marked(used, d, markEpoch) = Marked(used, color, markEpoch) \cup W
  <2>1. EdgeInv(used, color, markEpoch, Cursor, field)
    BY ZenonT(40) DEF IInv
  <2> QED BY <1>1, <1>4, <1>c, <2>1, EpochFacts DEF EdgeInv, Marked
<1>12. EdgeInv(used, d, markEpoch, Cursor, fl)
  <2> SUFFICES ASSUME NEW h \in used, NEW f \in Fields, fl[h][f] # 0,
                      d[h] = markEpoch \/ (Cursor.handle = h /\ f <= Cursor.index)
               PROVE  fl[h][f] \in Marked(used, d, markEpoch)
    BY ZenonT(40) DEF EdgeInv
  <2>1. CASE fl[h][f] = field[h][f]
    BY <1>11, <2>1, ZenonT(40) DEF EdgeInv
  <2>2. CASE fl[h][f] # field[h][f]
    <3>1. h = p /\ fl[h][f] = v /\ v # 0 /\ v \in used
      BY <1>1, <2>2, ZenonT(40) DEF Stored
    <3>2. ~IsWhite(p)
      <4>1. CASE d[h] = markEpoch
        <5>1. h \notin W
          BY <4>1, <1>1, <1>7, EpochFacts, SMTT(60)
        <5> QED BY ZenonT(40), <4>1, <5>1, <3>1, <1>1, <1>7 DEF IsWhite, Black
      <4>2. CASE Cursor.handle = h
        <5>1. h \in Active(Cursor)
          BY <4>2, <1>1, ZenonT(40) DEF Active
        <5> QED BY ZenonT(40), <5>1, <3>1 DEF IInv, GrayInv, IsWhite, Gray
      <4> QED BY <4>1, <4>2, ZenonT(40)
    <3>3. CASE ~IsWhite(v)
      BY <3>1, <3>3, <1>11, ZenonT(40) DEF Marked, IsWhite, Black, Gray
    <3>4. CASE IsWhite(v)
      <4>1. state # "idle"
        BY <3>1, <3>4, ZenonT(40) DEF IInv, Phases, IsWhite, IsBlack
      <4>2. v \in W
        BY ZenonT(40), <1>a, <4>1, <3>1, <3>2, <3>4, <1>1 DEF BarrierShades, ToShade
      <4> QED BY <4>2, <3>1, <1>11, ZenonT(40)
    <3> QED BY <3>3, <3>4, ZenonT(40)
  <2> QED BY <2>1, <2>2, ZenonT(40)
<1>13. ASSUME NEW R \in SUBSET Handles, Holds(R)
       PROVE  \A h \in R : \A f \in Fields : fl[h][f] \in R \cup {0}
  <2>1. v # 0 => v \in R
    BY <1>13, <1>1, ZenonT(40) DEF Holds, Heap!Named
  <2> QED BY ZenonT(40), <1>13, <2>1, <1>1 DEF Holds, Heap!Closed, Stored
<1>14. AfterStore(fl, W, d)
  BY <1>4, <1>5, <1>6, <1>8, <1>10, <1>11, <1>12, <1>13, ZenonT(40) DEF AfterStore
<1> QED BY ZenonT(40), <1>14, <1>a, <1>b

(* StructSet. *)
LEMMA StructSetKeeps ==
  ASSUME IInv, NEW p \in frame, NEW f \in Fields, NEW v \in frame \cup {0}, StructSet(p, f, v)
  PROVE  IInv'
<1> USE ShapeAssumption
<1> DEFINE W == BarrierShades(p, v)
<1>1. PICK R \in SUBSET Handles : Holds(R) /\ (SweepActive => R = Marked(used, color, markEpoch))
  BY ZenonT(40) DEF IInv, Reach, Marked, TypeOK
<1>2. TypeOK /\ p \in Handles /\ v \in Heap!Refs
  BY ZenonT(40) DEF IInv, TypeOK, Heap!Refs
<1>3. /\ field' \in [Handles -> [Fields -> Heap!Refs]]
      /\ \A h \in Handles : h # p => field'[h] = field[h]
      /\ \A g \in Fields : field'[p][g] = IF g = f THEN v ELSE field[p][g]
  BY ZenonT(40), <1>2 DEF StructSet, TypeOK
<1>w. W = BarrierShades(p, v)
  BY ZenonT(40)
<1>v. color' = Shaded(W) /\ gray' = gray \cup W
  BY ZenonT(40) DEF StructSet
<1> HIDE DEF W
<1>4. /\ W \in SUBSET used /\ W \subseteq R
      /\ SweepActive \/ state = "idle" => W = {}
      /\ color' \in [Handles -> Colors]
      /\ GrayInv(used, color', markEpoch, gray \cup W, Cursor)
      /\ EdgeInv(used, color', markEpoch, Cursor, field')
      /\ Marked(used, color', markEpoch) = Marked(used, color, markEpoch) \cup W
      /\ \A h \in R : \A g \in Fields : field'[h][g] \in R \cup {0}
  <2>1. Stored(field', p, v)
    BY ZenonT(40), <1>3 DEF Stored
  <2>2. AfterStore(field', BarrierShades(p, v), Shaded(BarrierShades(p, v)))
    BY ZenonT(40), <2>1, StoreFacts
  <2>3. AfterStore(field', W, color')
    BY <2>2, <1>w, <1>v, ZenonT(40)
  <2> QED BY <1>1, <2>3, ZenonT(40) DEF AfterStore
<1>5. /\ gray' = gray \cup W
      /\ UNCHANGED <<state, rootPhase>>
      /\ UNCHANGED <<used, frame, slot, top, markEpoch, sweep, sweepLimit, scan, full>>
  BY ZenonT(40), <1>4, <1>w DEF StructSet, Interrupt, Interrupts, SweepActive
<1>6. W = {} => color' = color
  BY <1>2, <1>v, ZenonT(40) DEF Shaded, TypeOK
<1>7. Shape'
  BY <1>2, <1>3, <1>5 DEF IInv, Shape, StructSet, Fields
<1>8. Cursor' = Cursor
  BY <1>5, ZenonT(40) DEF Cursor
<1>9. Heap!Named' \subseteq R /\ R \in SUBSET used /\ Marked(used, color, markEpoch) \subseteq R
  BY <1>1, <1>5, ZenonT(40) DEF Holds, Heap!Named
<1>10. state = "idle" => UNCHANGED <<color, gray, scan>>
  BY <1>4, <1>5, <1>6, ZenonT(40)
<1>11. /\ frame' \in SUBSET Handles /\ slot' \in [Slots -> Heap!Refs] /\ gray' \in SUBSET Handles
       /\ scan' \in [handle : 0..MaxHandle, index : Nat]
  BY <1>2, <1>4, <1>5, Zenon DEF TypeOK
<1> QED BY <1>1, <1>3, <1>4, <1>5, <1>7, <1>8, <1>9, <1>10, <1>11, ProgramKeeps, ZenonT(40)

(* ArrayFill: the store, the barrier, and a drain in mark and remark. *)
LEMMA ArrayFillKeeps ==
  ASSUME IInv, NEW p \in frame, NEW F \in Ranges, NEW v \in frame \cup {0}, ArrayFill(p, F, v)
  PROVE  IInv'
<1> USE ShapeAssumption
<1> DEFINE W == BarrierShades(p, v)
           c == Shaded(W)
<1>1. PICK R \in SUBSET Handles : Holds(R) /\ (SweepActive => R = Marked(used, color, markEpoch))
  BY ZenonT(40) DEF IInv, Reach, Marked, TypeOK
<1>2. TypeOK /\ p \in Handles /\ v \in Heap!Refs
  BY ZenonT(40) DEF IInv, TypeOK, Heap!Refs
<1>3. /\ field' = [field EXCEPT ![p] = [f \in Fields |-> IF f \in F THEN v ELSE field[p][f]]]
      /\ \A f \in F : f <= Width[p]
  BY ZenonT(40), <1>2 DEF ArrayFill, TypeOK
<1>4. Stored(field', p, v) /\ Shape'
  <2>1. field' \in [Handles -> [Fields -> Heap!Refs]]
    BY ZenonT(40), <1>2, <1>3 DEF TypeOK, Heap!Refs
  <2>2. \A h \in Handles : h # p => field'[h] = field[h]
    BY <1>2, <1>3, ZenonT(40) DEF TypeOK
  <2>3. \A f \in Fields : field'[p][f] = IF f \in F THEN v ELSE field[p][f]
    BY <1>2, <1>3, ZenonT(40) DEF TypeOK
  <2>4. \A f \in Fields : f <= Width[p] \/ field[p][f] = 0
    <3>1. Width[p] \in Int /\ \A f \in Fields : f \in Int
      BY <1>2 DEF Fields
    <3>2. \A f \in Fields : f > Width[p] => field[p][f] = 0
      BY ZenonT(40), <1>2 DEF IInv, Shape
    <3> QED BY <3>1, <3>2
  <2>5. Stored(field', p, v)
    BY ZenonT(40), <1>3, <2>1, <2>2, <2>3, <2>4 DEF Stored
  <2>6. Shape'
    BY <1>2, <1>3, <2>2, <2>3, <2>4 DEF IInv, Shape, Fields
  <2> QED BY ZenonT(40), <2>5, <2>6
<1>5. AfterStore(field', W, c)
  BY ZenonT(40), <1>4, StoreFacts
<1>6. ~(Interrupts(W) /\ IsBlack(p))
  BY <1>5, ZenonT(40) DEF AfterStore, Interrupts, SweepActive
<1>7. /\ UNCHANGED <<used, frame, slot, top, markEpoch, sweep, sweepLimit, full, state, rootPhase>>
      /\ IF state \in {"mark", "remark"} THEN Drain(used, c, gray \cup W, field')
         ELSE color' = c /\ gray' = gray \cup W /\ scan' = scan
  BY <1>6, ZenonT(40) DEF ArrayFill, Interrupt, BulkDrain
<1>8. state = "idle" => c = color /\ W = {}
  BY <1>2, <1>5, ZenonT(40) DEF AfterStore, Shaded, TypeOK
<1> HIDE DEF W, c
<1>9. /\ frame' \in SUBSET Handles /\ slot' \in [Slots -> Heap!Refs]
      /\ Heap!Named' \subseteq R /\ R \in SUBSET used
      /\ \A h \in R : \A f \in Fields : field'[h][f] \in R \cup {0}
      /\ field' \in [Handles -> [Fields -> Heap!Refs]]
      /\ Marked(used, color, markEpoch) \subseteq Marked(used, c, markEpoch)
      /\ Marked(used, c, markEpoch) \subseteq R
      /\ gray \cup W \in SUBSET Handles /\ used \in SUBSET Handles /\ c \in [Handles -> Colors]
      /\ scan \in [handle : 0..MaxHandle, index : Nat]
  <2>1. /\ frame' = frame /\ slot' = slot /\ frame \in SUBSET Handles
        /\ slot \in [Slots -> Heap!Refs] /\ used \in SUBSET Handles /\ gray \in SUBSET Handles
        /\ scan \in [handle : 0..MaxHandle, index : Nat]
    BY ZenonT(40), <1>2, <1>7 DEF TypeOK
  <2>2. Heap!Named' \subseteq R /\ R \in SUBSET used /\ Marked(used, color, markEpoch) \subseteq R
    BY <1>1, <2>1, ZenonT(40) DEF Holds, Heap!Named
  <2>3. /\ W \in SUBSET used /\ W \subseteq R /\ c \in [Handles -> Colors]
        /\ Marked(used, c, markEpoch) = Marked(used, color, markEpoch) \cup W
        /\ \A h \in R : \A f \in Fields : field'[h][f] \in R \cup {0}
    BY <1>1, <1>5, ZenonT(40) DEF AfterStore
  <2>4. field' \in [Handles -> [Fields -> Heap!Refs]]
    BY <1>4, ZenonT(40) DEF Stored
  <2> QED BY <2>1, <2>2, <2>3, <2>4, ZenonT(40)
<1>10. CASE state \notin {"mark", "remark"}
  <2>1. Cursor' = Cursor
    BY <1>7, <1>10, ZenonT(40) DEF Cursor
  <2>2. /\ GrayInv(used, color', markEpoch, gray', Cursor')
        /\ EdgeInv(used, color', markEpoch, Cursor', field')
    BY <1>5, <1>7, <1>10, <2>1, ZenonT(40) DEF AfterStore
  <2>3. color' = c /\ gray' = gray \cup W /\ scan' = scan
    BY <1>7, <1>10, ZenonT(40)
  <2> QED BY <1>1, <1>4, <1>7, <1>8, <1>9, <2>2, <2>3, ProgramKeeps, ZenonT(40)
<1>11. CASE state \in {"mark", "remark"}
  <2>1. Cursor' = scan' /\ Cursor = scan
    BY <1>7, <1>11, ZenonT(40) DEF Cursor
  <2>2. GrayInv(used, c, markEpoch, gray \cup W, scan) /\ EdgeInv(used, c, markEpoch, scan, field')
    BY <1>5, <2>1, ZenonT(40) DEF AfterStore
  <2>3. \A h \in Handles : \A f \in Fields : f > Width[h] => field'[h][f] = 0
    BY ZenonT(40), <1>4 DEF Shape
  <2>4. Drain(used, c, gray \cup W, field')
    BY <1>7, <1>11, ZenonT(40)
  <2>5. /\ color' \in [Handles -> Colors] /\ gray' \in SUBSET Handles
        /\ scan' \in [handle : 0..MaxHandle, index : Nat]
        /\ GrayInv(used, color', markEpoch, gray', scan')
        /\ EdgeInv(used, color', markEpoch, scan', field')
        /\ Marked(used, color', markEpoch) \subseteq R
        /\ Marked(used, c, markEpoch) \subseteq Marked(used, color', markEpoch)
    BY <1>2, <1>9, <2>2, <2>3, <2>4, DrainKeeps, Zenon
  <2> QED BY <1>1, <1>4, <1>7, <1>9, <1>11, <2>1, <2>5, ProgramKeeps, ZenonT(40)
<1> QED BY <1>10, <1>11, ZenonT(40)

(* The fields fl are those of the heap after an object was built at h. *)
Built(fl, h) ==
  /\ fl \in [Handles -> [Fields -> Heap!Refs]]
  /\ \A x \in Handles : x # h => fl[x] = field[x]
  /\ \A f \in Fields : fl[h][f] \in frame \cup {0} /\ (f > Width[h] => fl[h][f] = 0)

(* The heap fl with a new object h and the colours c are as IInv wants them. *)
AfterNew(h, fl, W, c) ==
  /\ W \in SUBSET (used \cup {h})
  /\ c \in [Handles -> Colors]
  /\ GrayInv(used \cup {h}, c, markEpoch, gray \cup W, Cursor)
  /\ EdgeInv(used \cup {h}, c, markEpoch, Cursor, fl)
  /\ Marked(used \cup {h}, c, markEpoch) = Marked(used, color, markEpoch) \cup W \cup {h}
  /\ \A R \in SUBSET Handles : Holds(R) =>
       /\ W \subseteq R \cup {h}
       /\ \A x \in R \cup {h} : \A f \in Fields : fl[x][f] \in R \cup {h, 0}

(* tinyPostAlloc and the constructor's stores, before any draining. *)
LEMMA NewFacts ==
  ASSUME IInv, NEW h \in Handles, h \notin used, NEW fl, Built(fl, h),
         NEW W, W \in SUBSET ({h} \cup ToShade(frame)),
         state = "idle" => W = {}, state # "idle" /\ Width[h] > 0 => h \in W
  PROVE  AfterNew(h, fl, W, Colored(h, W))
<1>1. TypeOK /\ 0 \notin Handles /\ used \in SUBSET Handles /\ frame \subseteq used
      /\ h \in Handles /\ Width[h] \in Nat
  <2>1. TypeOK /\ 0 \notin Handles /\ used \in SUBSET Handles
    BY DEF IInv, TypeOK, Handles
  <2>2. Width[h] \in 0..MaxWidth /\ MaxWidth \in Nat
    BY ZenonT(40), ShapeAssumption
  <2> QED BY <2>1, <2>2, NamedIsUsed, SMTT(60)
<1>2. W \in SUBSET (used \cup {h}) /\ \A x \in W : x = h \/ (x \in frame /\ x \in used /\ IsWhite(x))
  BY ZenonT(40), <1>1 DEF ToShade
<1>b. PICK c : c = Colored(h, W)
  BY ZenonT(40)
<1>3. /\ \A x \in used \cup {h} : c[x] = IF x \in W THEN markEpoch + GrayBit
                                       ELSE IF x = h THEN markEpoch ELSE color[x]
      /\ c \in [Handles -> Colors]
  <2>1. c = [x \in Handles |-> IF x \in W THEN markEpoch + GrayBit
                              ELSE IF x = h THEN markEpoch ELSE color[x]]
    BY <1>b, ZenonT(40) DEF Colored, Gray, Black
  <2> QED BY <1>1, <2>1, EpochFacts DEF TypeOK, Colors
<1>4. GrayInv(used \cup {h}, c, markEpoch, gray \cup W, Cursor)
  <2>1. GrayInv(used, color, markEpoch, gray, Cursor)
    BY ZenonT(40) DEF IInv
  <2>2. \A x \in used : x \in W => color[x] # markEpoch + GrayBit
    BY <1>2, ZenonT(40) DEF IsWhite, Gray
  <2> QED BY <1>1, <1>2, <1>3, <2>1, <2>2, EpochFacts DEF GrayInv
<1>5. Marked(used \cup {h}, c, markEpoch) = Marked(used, color, markEpoch) \cup W \cup {h}
  BY <1>1, <1>2, <1>3, EpochFacts, ZenonT(40) DEF Marked
<1>6. EdgeInv(used \cup {h}, c, markEpoch, Cursor, fl)
  <2> SUFFICES ASSUME NEW x \in used \cup {h}, NEW f \in Fields, fl[x][f] # 0,
                      c[x] = markEpoch \/ (Cursor.handle = x /\ f <= Cursor.index)
               PROVE  fl[x][f] \in Marked(used, color, markEpoch) \cup W \cup {h}
    BY <1>5, ZenonT(40) DEF EdgeInv
  <2>1. CASE x # h
    <3>1. fl[x] = field[x] /\ x \in used
      BY <1>1, <2>1, ZenonT(40) DEF Built
    <3>2. color[x] = markEpoch \/ (Cursor.handle = x /\ f <= Cursor.index)
      BY <1>1, <1>3, <2>1, EpochFacts, SMTT(60)
    <3> QED BY <3>1, <3>2, ZenonT(40) DEF IInv, EdgeInv
  <2>2. CASE x = h
    <3>1. Cursor.handle # h
      BY <1>1, ZenonT(40) DEF IInv, GrayInv, Active
    <3>2. c[h] = markEpoch /\ h \notin W
      BY <1>1, <1>3, <2>2, <3>1, EpochFacts, SMTT(60)
    <3>3. f > Width[h] => fl[x][f] = 0
      BY <2>2, ZenonT(40) DEF Built
    <3>4. state = "idle"
      BY <1>1, <2>2, <3>2, <3>3, SMTT(60) DEF Fields
    <3>5. fl[x][f] \in used
      BY <1>1, <2>2, ZenonT(40) DEF Built
    <3> QED BY <3>4, <3>5, ZenonT(40) DEF IInv, Phases, IsBlack, Black, Marked
  <2> QED BY <2>1, <2>2, ZenonT(40)
<1>7. ASSUME NEW R \in SUBSET Handles, Holds(R)
      PROVE  /\ W \subseteq R \cup {h}
             /\ \A x \in R \cup {h} : \A f \in Fields : fl[x][f] \in R \cup {h, 0}
  <2>1. frame \subseteq R
    BY <1>1, <1>7, ZenonT(40) DEF Holds, Heap!Named
  <2>2. \A x \in R : x # h /\ fl[x] = field[x]
    BY <1>1, <1>7, ZenonT(40) DEF Holds, Built
  <2> QED BY <1>2, <1>7, <2>1, <2>2, ZenonT(40) DEF Holds, Heap!Closed, Built
<1>8. AfterNew(h, fl, W, c)
  BY <1>2, <1>3, <1>4, <1>5, <1>6, <1>7, Zenon DEF AfterNew
<1> QED BY ZenonT(40), <1>8, <1>b

(* A limit that was valid stays valid when the handle table grows. *)
LEMMA LimitGrows ==
  \A a, b, d \in Nat : a <= b + 1 /\ b <= d => a <= d + 1
  BY SMTT(60)

(***************************************************************************)
(* The step that allocates h: the colours end between c and a closed set,  *)
(* and a sweep goes on or stops for the new object.                        *)
(***************************************************************************)
LEMMA AllocKeeps ==
  ASSUME IInv, NEW h \in FreeHandles, Publish(h), NEW W, NEW c,
         Built(field', h), AfterNew(h, field', W, c),
         SweepActive => W \subseteq {h},
         \/ UNCHANGED <<state, rootPhase>> /\ (state = "sweep" => scan' = scan)
         \/ state = "sweep" /\ scan.handle = 0 /\ state' = "mark" /\ rootPhase' = "sweepBarrier",
         state = "idle" => W = {} /\ color' = c /\ UNCHANGED <<gray, scan>>,
         color' \in [Handles -> Colors], gray' \in SUBSET Handles,
         scan' \in [handle : 0..MaxHandle, index : Nat],
         Marked(used', c, markEpoch) \subseteq Marked(used', color', markEpoch),
         \A R \in SUBSET Handles : Holds(R) => Marked(used', color', markEpoch) \subseteq R \cup {h},
         GrayInv(used', color', markEpoch, gray', Cursor'),
         EdgeInv(used', color', markEpoch, Cursor', field')
  PROVE  IInv'
<1> USE ShapeAssumption
<1>1. TypeOK /\ used \in SUBSET Handles /\ top \in 0..MaxHandle /\ used \subseteq 1..top /\ MaxHandle \in Nat
  BY ZenonT(40) DEF IInv, TypeOK, Sweeping
<1>2. h \in Handles /\ h \notin used /\ h \in Nat /\ h >= 1 /\ h <= top + 1
  BY <1>1, SMTT(60) DEF FreeHandles, Handles
<1>3. /\ used' = used \cup {h} /\ frame' = frame \cup {h} /\ slot' = slot /\ markEpoch' = markEpoch
      /\ sweep' = sweep /\ sweepLimit' = sweepLimit /\ full' = full
      /\ top' \in 0..MaxHandle /\ top <= top' /\ h <= top'
  BY <1>1, <1>2, SMTT(60) DEF Publish, Handles
<1>4. TypeOK'
  BY <1>1, <1>2, <1>3, ZenonT(40) DEF TypeOK, Built
<1>5. Shape'
  BY <1>2, ZenonT(40) DEF IInv, Shape, Built
<1>6. SweepActive' => SweepActive
  BY ZenonT(40) DEF SweepActive
<1>7. Phases'
  <2>1. CASE state = "idle"
    <3>1. \A x \in used' : color'[x] = markEpoch
      <4>1. Marked(used', c, markEpoch) = used'
        BY <1>3, <2>1, ZenonT(40) DEF AfterNew, IInv, Phases, Marked, IsBlack, Black
      <4>2. gray' \cup Active(Cursor') = {}
        BY <2>1, SMTT(60) DEF IInv, Phases, Cursor, Active, NoScan
      <4>3. \A x \in used' : color'[x] # markEpoch + GrayBit
        BY <4>2, ZenonT(40) DEF GrayInv
      <4> QED BY <2>1, <4>1, <4>3, ZenonT(40) DEF Marked
    <3>2. \A x \in used' : IsBlack(x)'
      BY <1>3, <3>1, ZenonT(40) DEF IsBlack, Black
    <3>3. rootPhase = "none" /\ gray = {} /\ scan = NoScan
      BY <2>1, ZenonT(40) DEF IInv, Phases
    <3>4. state' = "idle" /\ rootPhase' = "none" /\ gray' = {} /\ scan' = NoScan
      BY <2>1, <3>3, ZenonT(40)
    <3> QED BY <3>2, <3>4, ZenonT(40) DEF Phases, NoScan
  <2>2. CASE state # "idle"
    BY <2>2, ZenonT(40) DEF IInv, Phases
  <2> QED BY <2>1, <2>2, ZenonT(40)
<1>8. PICK R \in SUBSET Handles : Holds(R) /\ (SweepActive => R = Marked(used, color, markEpoch))
  BY <1>1, ZenonT(40) DEF IInv, Reach, Marked
<1>9. R \cup {h} \in SUBSET Handles
  BY <1>2, ZenonT(40)
<1>10. Holds(R \cup {h})'
  <2>1. R \cup {h} \subseteq used'
    BY <1>3, <1>8, ZenonT(40) DEF Holds
  <2>2. Heap!Named' \subseteq R \cup {h}
    BY <1>3, <1>8, ZenonT(40) DEF Holds, Heap!Named
  <2>3. Marked(used', color', markEpoch') \subseteq R \cup {h}
    BY <1>3, <1>8, ZenonT(40)
  <2>4. \A x \in R \cup {h} : \A f \in Fields : field'[x][f] \in R \cup {h, 0}
    BY <1>8, Zenon DEF AfterNew
  <2> QED BY <2>1, <2>2, <2>3, <2>4, ZenonT(40) DEF Holds, Heap!Closed
<1>11. SweepActive' => R \cup {h} = Marked(used', color', markEpoch')
  <2> SUFFICES ASSUME SweepActive PROVE R \cup {h} = Marked(used', color', markEpoch')
    BY ZenonT(40), <1>6
  <2>1. Marked(used', c, markEpoch) = R \cup {h}
    BY <1>3, <1>8, Zenon DEF AfterNew
  <2> QED BY <1>3, <1>8, <2>1, ZenonT(40)
<1>12. Reach'
  BY <1>9, <1>10, <1>11, ZenonT(40) DEF Reach
<1>13. h \in Marked(used', color', markEpoch) /\ \A x \in used : IsWhite(x)' => IsWhite(x)
  <2>1. Marked(used', c, markEpoch) = Marked(used, color, markEpoch) \cup W \cup {h}
    BY <1>3, ZenonT(40) DEF AfterNew
  <2> QED BY <1>3, <2>1, ZenonT(40) DEF Marked, IsWhite, Black, Gray
<1>14. \A x \in used' : IsWhite(x)' => x \in used /\ IsWhite(x)
  <2>1. ~IsWhite(h)'
    BY <1>3, <1>13, ZenonT(40) DEF Marked, IsWhite, Black, Gray
  <2> QED BY <1>3, <1>13, <2>1, ZenonT(40)
<1>15. Sweeping'
  <2>1. used' \subseteq 1..top'
    BY <1>1, <1>2, <1>3, SMTT(60)
  <2>2. SweepActive' => /\ 1 <= sweepLimit' /\ sweepLimit' <= top' + 1
                        /\ \A x \in used' : IsWhite(x)' => sweep' <= x /\ x < sweepLimit'
    <3>1. SweepActive => /\ 1 <= sweepLimit /\ sweepLimit <= top + 1
                         /\ \A x \in used : IsWhite(x) => sweep <= x /\ x < sweepLimit
      BY ZenonT(40) DEF IInv, Sweeping
    <3>2. sweepLimit \in Nat /\ top' \in Nat /\ top \in Nat
      BY <1>1, <1>3, SMTT(60) DEF TypeOK
    <3>3. ASSUME SweepActive', NEW x \in used', IsWhite(x)' PROVE sweep' <= x /\ x < sweepLimit'
      BY <1>3, <1>6, <1>14, <3>1, <3>3, ZenonT(40)
    <3>4. SweepActive' => 1 <= sweepLimit' /\ sweepLimit' <= top' + 1
      <4>1. SweepActive => 1 <= sweepLimit /\ sweepLimit <= top + 1
        BY <3>1, ZenonT(40)
      <4>2. top <= top' /\ sweepLimit' = sweepLimit
        BY <1>3, ZenonT(40)
      <4>3. sweepLimit <= top + 1 => sweepLimit <= top' + 1
        BY <3>2, <4>2, LimitGrows, ZenonT(40)
      <4> QED BY <1>6, <4>1, <4>2, <4>3, ZenonT(40)
    <3> QED BY <3>3, <3>4, ZenonT(40)
  <2>3. state' = "sweep" /\ scan'.handle # 0 =>
          /\ scan'.handle = sweep' /\ scan'.handle \in used'
          /\ IsWhite(scan.handle)' /\ scan'.index < Chunks[scan'.handle]
    <3> SUFFICES ASSUME state' = "sweep", scan'.handle # 0
                 PROVE  /\ scan'.handle = sweep' /\ scan'.handle \in used'
                        /\ IsWhite(scan.handle)' /\ scan'.index < Chunks[scan'.handle]
      BY ZenonT(40)
    <3>1. state = "sweep" /\ scan' = scan
      BY ZenonT(40)
    <3>2. /\ scan.handle = sweep /\ scan.handle \in used
          /\ IsWhite(scan.handle) /\ scan.index < Chunks[scan.handle]
      BY <3>1, ZenonT(40) DEF IInv, Sweeping
    <3>3. SweepActive
      BY <3>1, ZenonT(40) DEF SweepActive
    <3>4. Marked(used', color', markEpoch) \subseteq Marked(used, color, markEpoch) \cup {h}
      BY <3>3, <1>8, ZenonT(40)
    <3>5. scan.handle \notin Marked(used', color', markEpoch)
      BY <1>2, <3>2, <3>4, ZenonT(40) DEF Marked, IsWhite, Black, Gray
    <3>6. IsWhite(scan.handle)'
      BY <1>3, <3>1, <3>2, <3>5, ZenonT(40) DEF Marked, IsWhite, Black, Gray
    <3> QED BY ZenonT(40), <1>3, <3>1, <3>2, <3>6
  <2> QED BY <2>1, <2>2, <2>3, ZenonT(40) DEF Sweeping
<1> QED BY <1>3, <1>4, <1>5, <1>7, <1>12, <1>15, ZenonT(40) DEF IInv

(* Without an active object, the cursor's index means nothing. *)
LEMMA CursorIdle ==
  ASSUME NEW u \in SUBSET Handles, NEW c, NEW e, NEW g, NEW fl, NEW s, NEW t,
         s.handle = 0, t.handle = 0,
         GrayInv(u, c, e, g, s), EdgeInv(u, c, e, s, fl)
  PROVE  GrayInv(u, c, e, g, t) /\ EdgeInv(u, c, e, t, fl)
<1>1. 0 \notin u
  BY DEF Handles
<1> QED BY <1>1, Zenon DEF GrayInv, EdgeInv, Active

(* A free handle is not allocated. *)
LEMMA FreeIsFree ==
  ASSUME IInv, NEW h \in FreeHandles
  PROVE  h \in Handles /\ h \notin used
<1>1. used \subseteq 1..top /\ top \in 0..MaxHandle /\ MaxHandle \in Nat
  BY ShapeAssumption, ZenonT(40) DEF IInv, Sweeping, TypeOK
<1> QED BY <1>1 DEF FreeHandles, Handles

(* NewStruct. *)
LEMMA NewStructKeeps ==
  ASSUME IInv, NEW h \in FreeHandles, NewStruct(h)
  PROVE  IInv'
<1>1. h \in Handles /\ h \notin used /\ TypeOK /\ Width[h] \in Nat
  BY FreeIsFree, ShapeAssumption DEF IInv
<1>2. Built(field', h)
  <2>1. PICK init \in [1..Width[h] -> Operands] :
          field' = [field EXCEPT ![h] = [f \in Fields |-> IF f <= Width[h] THEN init[f] ELSE 0]]
    BY ZenonT(40) DEF NewStruct
  <2>2. \A f \in Fields : f <= Width[h] => init[f] \in frame \cup {0}
    BY <1>1, <2>1 DEF Operands, Fields
  <2>3. frame \subseteq Handles
    BY ZenonT(40), <1>1 DEF TypeOK
  <2>4. \A x \in Handles : field'[x] = IF x = h THEN [f \in Fields |-> IF f <= Width[h] THEN init[f] ELSE 0]
                                      ELSE field[x]
    BY ZenonT(40), <1>1, <2>1 DEF TypeOK
  <2>5. \A f \in Fields : field'[h][f] \in frame \cup {0} /\ (f > Width[h] => field'[h][f] = 0)
    <3>1. \A f \in Fields : field'[h][f] = IF f <= Width[h] THEN init[f] ELSE 0
      BY <1>1, <2>4, ZenonT(40)
    <3>2. \A f \in Fields : f \in Int /\ (f > Width[h] => ~(f <= Width[h]))
      BY <1>1 DEF Fields
    <3> QED BY <2>2, <3>1, <3>2, Zenon
  <2>6. field' \in [Handles -> [Fields -> Heap!Refs]]
    BY ZenonT(40), <1>1, <2>1, <2>2, <2>3 DEF TypeOK, Heap!Refs
  <2> QED BY ZenonT(40), <1>1, <2>4, <2>5, <2>6 DEF Built
<1>3. PICK W : W = Newborn(h)
  BY ZenonT(40)
<1>4. PICK c : c = Colored(h, W)
  BY ZenonT(40)
<1>5. /\ W \in SUBSET {h} /\ (state = "idle" => W = {}) /\ (state # "idle" /\ Width[h] > 0 => h \in W)
  BY ZenonT(40), <1>3 DEF Newborn
<1>6. AfterNew(h, field', W, c)
  BY ZenonT(40), <1>1, <1>2, <1>4, <1>5, NewFacts
<1>7. /\ Publish(h) /\ color' = c /\ gray' = gray \cup W /\ scan' = scan
      /\ IF state = "sweep" /\ scan.handle = 0 /\ W # {}
         THEN state' = "mark" /\ rootPhase' = "sweepBarrier"
         ELSE UNCHANGED <<state, rootPhase>>
  BY ZenonT(40), <1>3, <1>4 DEF NewStruct, Interrupt, Interrupts
<1>8. used' = used \cup {h} /\ used' \in SUBSET Handles
  BY <1>1, <1>7, ZenonT(40) DEF Publish, TypeOK
<1>9. /\ GrayInv(used', color', markEpoch, gray', Cursor)
      /\ EdgeInv(used', color', markEpoch, Cursor, field')
      /\ Marked(used', color', markEpoch) = Marked(used, color, markEpoch) \cup W \cup {h}
  BY <1>6, <1>7, <1>8, Zenon DEF AfterNew
<1>10. /\ GrayInv(used', color', markEpoch, gray', Cursor')
       /\ EdgeInv(used', color', markEpoch, Cursor', field')
  <2>1. CASE UNCHANGED <<state, rootPhase>>
    BY ZenonT(40), <1>7, <1>9, <2>1 DEF Cursor
  <2>2. CASE state = "sweep" /\ scan.handle = 0 /\ state' = "mark"
    <3>1. Cursor.handle = 0 /\ Cursor'.handle = 0
      BY ZenonT(40), <1>7, <2>2 DEF Cursor, NoScan
    <3> QED BY ZenonT(40), <1>8, <1>9, <3>1, CursorIdle
  <2> QED BY ZenonT(40), <1>7, <2>1, <2>2
<1>11. \A R \in SUBSET Handles : Holds(R) => Marked(used', color', markEpoch) \subseteq R \cup {h}
  BY <1>5, <1>9, ZenonT(40) DEF Holds
<1>12. /\ color' \in [Handles -> Colors] /\ gray' \in SUBSET Handles
       /\ scan' \in [handle : 0..MaxHandle, index : Nat]
  BY <1>1, <1>5, <1>6, <1>7, Zenon DEF AfterNew, TypeOK
<1>13. \/ UNCHANGED <<state, rootPhase>> /\ (state = "sweep" => scan' = scan)
       \/ state = "sweep" /\ scan.handle = 0 /\ state' = "mark" /\ rootPhase' = "sweepBarrier"
  BY ZenonT(40), <1>7
<1>14. state = "idle" => W = {} /\ color' = c /\ UNCHANGED <<gray, scan>>
  BY ZenonT(40), <1>5, <1>7
<1>15. Marked(used', c, markEpoch) \subseteq Marked(used', color', markEpoch)
  BY ZenonT(40), <1>7
<1> QED BY <1>2, <1>5, <1>6, <1>7, <1>10, <1>11, <1>12, <1>13, <1>14, <1>15, AllocKeeps, Zenon

(* NewArray: the same, and a drain inside a cycle. *)
LEMMA NewArrayKeeps ==
  ASSUME IInv, NEW h \in FreeHandles, NEW v \in frame \cup {0}, NewArray(h, v)
  PROVE  IInv'
<1>1. h \in Handles /\ h \notin used /\ TypeOK /\ Width[h] \in Nat /\ frame \subseteq Handles
      /\ used \in SUBSET Handles
  BY FreeIsFree, ShapeAssumption, SMTT(60) DEF IInv, TypeOK
<1>2. Built(field', h)
  <2>1. field' = [field EXCEPT ![h] = [f \in Fields |-> IF f <= Width[h] THEN v ELSE 0]]
    BY ZenonT(40) DEF NewArray
  <2>2. v \in Heap!Refs
    BY <1>1, ZenonT(40) DEF Heap!Refs
  <2>3. \A x \in Handles : field'[x] = IF x = h THEN [f \in Fields |-> IF f <= Width[h] THEN v ELSE 0]
                                      ELSE field[x]
    BY <1>1, <2>1, ZenonT(40) DEF TypeOK
  <2>4. \A f \in Fields : field'[h][f] \in frame \cup {0} /\ (f > Width[h] => field'[h][f] = 0)
    <3>1. \A f \in Fields : field'[h][f] = IF f <= Width[h] THEN v ELSE 0
      BY <1>1, <2>3, Zenon
    <3>2. \A f \in Fields : f \in Int /\ (f > Width[h] => ~(f <= Width[h]))
      BY <1>1 DEF Fields
    <3> QED BY <3>1, <3>2, Zenon
  <2>5. field' \in [Handles -> [Fields -> Heap!Refs]]
    BY ZenonT(40), <1>1, <2>1, <2>2 DEF TypeOK, Heap!Refs
  <2> QED BY <1>1, <2>3, <2>4, <2>5, Zenon DEF Built
<1>3. PICK W : W = IF state = "idle" THEN {} ELSE {h} \cup ToShade({v})
  BY Zenon
<1>4. PICK c : c = Colored(h, W)
  BY ZenonT(40)
<1>s. PICK stop \in BOOLEAN : stop <=> state = "sweep" /\ scan.handle = 0
  BY ZenonT(40)
<1>5. /\ W \in SUBSET ({h} \cup ToShade(frame))
      /\ (state = "idle" => W = {}) /\ (state # "idle" /\ Width[h] > 0 => h \in W)
  <2>1. ToShade({v}) \subseteq ToShade(frame)
    BY <1>1 DEF ToShade, Handles
  <2> QED BY ZenonT(40), <1>3, <2>1
<1>6. AfterNew(h, field', W, c)
  BY ZenonT(40), <1>1, <1>2, <1>4, <1>5, NewFacts
<1>7. /\ Publish(h) /\ UNCHANGED markEpoch
      /\ IF stop THEN state' = "mark" /\ rootPhase' = "sweepBarrier" ELSE UNCHANGED <<state, rootPhase>>
      /\ IF stop \/ state \in {"mark", "remark"} THEN Drain(used \cup {h}, c, gray \cup W, field')
         ELSE color' = c /\ gray' = gray \cup W /\ scan' = scan
  <2>1. Interrupts(Newborn(h)) <=> stop
    BY ZenonT(40), <1>s DEF NewArray, Interrupts, Newborn
  <2> QED BY <1>3, <1>4, <2>1, Zenon DEF NewArray, Interrupt, BulkDrain, Publish
<1>8. used' = used \cup {h} /\ used' \in SUBSET Handles
  BY ZenonT(40), <1>1, <1>7 DEF Publish
<1>9. /\ GrayInv(used', c, markEpoch, gray \cup W, Cursor)
      /\ EdgeInv(used', c, markEpoch, Cursor, field')
      /\ Marked(used', c, markEpoch) = Marked(used, color, markEpoch) \cup W \cup {h}
      /\ c \in [Handles -> Colors] /\ gray \cup W \in SUBSET Handles
  BY <1>1, <1>6, <1>8, Zenon DEF AfterNew, TypeOK
<1>10. SweepActive => W \subseteq {h}
  <2>1. SweepActive => ToShade({v}) = {}
    BY <1>1, FrameIsMarked, SMTT(60) DEF ToShade, Handles
  <2> QED BY ZenonT(40), <1>3, <2>1
<1>11. ASSUME NEW R \in SUBSET Handles, Holds(R)
       PROVE  /\ Marked(used', c, markEpoch) \subseteq R \cup {h}
              /\ R \cup {h} \in SUBSET used'
              /\ \A x \in R \cup {h} : \A f \in Fields : field'[x][f] \in (R \cup {h}) \cup {0}
  <2>1. /\ W \subseteq R \cup {h}
        /\ \A x \in R \cup {h} : \A f \in Fields : field'[x][f] \in R \cup {h, 0}
    BY <1>6, <1>11, Zenon DEF AfterNew
  <2>2. R \subseteq used /\ Marked(used, color, markEpoch) \subseteq R
    BY ZenonT(40), <1>11 DEF Holds
  <2> QED BY <1>8, <1>9, <2>1, <2>2, ZenonT(40)
<1>12. Publish(h) /\ (\/ UNCHANGED <<state, rootPhase>> /\ (state = "sweep" => scan' = scan)
                      \/ state = "sweep" /\ scan.handle = 0 /\ state' = "mark" /\ rootPhase' = "sweepBarrier")
  BY <1>7, <1>s, ZenonT(40)
<1>13. CASE stop \/ state \in {"mark", "remark"}
  <2>1. GrayInv(used', c, markEpoch, gray \cup W, scan) /\ EdgeInv(used', c, markEpoch, scan, field')
    <3>1. CASE state \in {"mark", "remark"}
      BY <1>9, <3>1, ZenonT(40) DEF Cursor
    <3>2. CASE stop
      <4>1. Cursor.handle = 0 /\ scan.handle = 0
        BY ZenonT(40), <3>2, <1>s DEF Cursor, NoScan
      <4> QED BY ZenonT(40), <1>8, <1>9, <4>1, CursorIdle
    <3> QED BY ZenonT(40), <1>13, <3>1, <3>2
  <2>2. Cursor' = scan'
    BY <1>7, <1>13, <1>s, ZenonT(40) DEF Cursor
  <2>3. \A x \in Handles : \A f \in Fields : f > Width[x] => field'[x][f] = 0
    BY ZenonT(40), <1>2 DEF IInv, Shape, Built
  <2>4. Drain(used', c, gray \cup W, field')
    BY <1>7, <1>8, <1>13, ZenonT(40)
  <2>5. field' \in [Handles -> [Fields -> Heap!Refs]]
    BY <1>2, ZenonT(40) DEF Built
  <2>6. ASSUME NEW R \in SUBSET Handles, Holds(R)
        PROVE  /\ color' \in [Handles -> Colors] /\ gray' \in SUBSET Handles
               /\ scan' \in [handle : 0..MaxHandle, index : Nat]
               /\ GrayInv(used', color', markEpoch, gray', scan')
               /\ EdgeInv(used', color', markEpoch, scan', field')
               /\ Marked(used', color', markEpoch) \subseteq R \cup {h}
               /\ Marked(used', c, markEpoch) \subseteq Marked(used', color', markEpoch)
    <3>1. PICK S \in SUBSET used' : S = R \cup {h}
      BY <1>11, <2>6, ZenonT(40)
    <3>2. /\ Marked(used', c, markEpoch) \subseteq S
          /\ \A x \in S : \A f \in Fields : field'[x][f] \in S \cup {0}
      BY ZenonT(40), <1>11, <2>6, <3>1
    <3>3. PICK u \in SUBSET Handles : u = used'
      BY ZenonT(40), <1>8
    <3>g. PICK g \in SUBSET Handles : g = gray \cup W
      BY ZenonT(40), <1>9
    <3>f. PICK fl \in [Handles -> [Fields -> Heap!Refs]] : fl = field'
      BY <2>5, ZenonT(40)
    <3>d. /\ GrayInv(u, c, markEpoch, g, scan) /\ EdgeInv(u, c, markEpoch, scan, fl)
          /\ Marked(u, c, markEpoch) \subseteq S /\ S \in SUBSET u /\ c \in [Handles -> Colors]
          /\ \A x \in Handles : \A f \in Fields : f > Width[x] => fl[x][f] = 0
          /\ \A x \in S : \A f \in Fields : fl[x][f] \in S \cup {0}
          /\ Drain(u, c, g, fl)
      BY <1>9, <2>1, <2>3, <2>4, <3>1, <3>2, <3>3, <3>g, <3>f, ZenonT(40)
    <3>4. /\ color' \in [Handles -> Colors] /\ gray' \in SUBSET Handles
          /\ scan' \in [handle : 0..MaxHandle, index : Nat]
          /\ GrayInv(u, color', markEpoch, gray', scan')
          /\ EdgeInv(u, color', markEpoch, scan', fl)
          /\ Marked(u, color', markEpoch) \subseteq S
          /\ Marked(u, c, markEpoch) \subseteq Marked(u, color', markEpoch)
      BY <1>1, <3>d, DrainKeeps, Zenon
    <3> QED BY <3>1, <3>3, <3>4, <3>f, ZenonT(40)
  <2>7. \E R \in SUBSET Handles : Holds(R)
    BY ZenonT(40) DEF IInv, Reach
  <2>8. state # "idle"
    BY ZenonT(40), <1>13, <1>s
  <2> QED BY <1>2, <1>6, <1>10, <1>12, <2>2, <2>6, <2>7, <2>8, AllocKeeps, ZenonT(40)
<1>14. CASE ~stop /\ state \notin {"mark", "remark"}
  <2>1. color' = c /\ gray' = gray \cup W /\ scan' = scan /\ state' = state /\ Cursor' = Cursor
    BY <1>7, <1>14, ZenonT(40) DEF Cursor
  <2>2. /\ GrayInv(used', color', markEpoch, gray', Cursor')
        /\ EdgeInv(used', color', markEpoch, Cursor', field')
        /\ Marked(used', c, markEpoch) \subseteq Marked(used', color', markEpoch)
        /\ \A R \in SUBSET Handles : Holds(R) => Marked(used', color', markEpoch) \subseteq R \cup {h}
    BY <1>9, <1>11, <2>1, ZenonT(40)
  <2>3. /\ color' \in [Handles -> Colors] /\ gray' \in SUBSET Handles
        /\ scan' \in [handle : 0..MaxHandle, index : Nat]
    BY <1>1, <1>9, <2>1, Zenon DEF TypeOK
  <2>4. state = "idle" => W = {} /\ color' = c /\ UNCHANGED <<gray, scan>>
    BY ZenonT(40), <1>5, <2>1
  <2> QED BY ZenonT(40), <1>2, <1>6, <1>10, <1>12, <2>2, <2>3, <2>4, AllocKeeps
<1> QED BY <1>13, <1>14, ZenonT(40)

(* The frames and slots of the program. *)
LEMMA RootStepKeeps ==
  ASSUME IInv,
         \/ \E i \in Slots, v \in frame \cup {0} : SetSlot(i, v)
         \/ \E v \in frame : PublishRoot(v)
         \/ \E p \in frame, f \in Fields : Load(field[p][f])
         \/ \E i \in Slots : Load(slot[i])
         \/ \E h \in frame : Forget(h)
  PROVE  IInv'
<1>1. TypeOK /\ 0 \notin Handles /\ 0 \notin used /\ frame \subseteq Handles
  BY SMTT(60) DEF IInv, TypeOK, Handles
<1>2. ASSUME NEW i \in Slots, NEW v \in frame \cup {0}, SetSlot(i, v) PROVE IInv'
  <2>1. slot' = [slot EXCEPT ![i] = v] /\ frame' = frame /\ v \in Heap!Refs
    BY <1>1, <1>2, ZenonT(40) DEF SetSlot, Heap!Refs
  <2>2. slot' \in [Slots -> Heap!Refs] /\ frame' \in SUBSET Handles
    BY <1>1, <2>1, ZenonT(40) DEF TypeOK
  <2>3. \A R \in SUBSET Handles : Holds(R) => Heap!Named' \subseteq R
    BY <1>1, <2>1, ZenonT(40) DEF Holds, Heap!Named, TypeOK
  <2> QED BY <1>2, <2>2, <2>3, RootsKeep, ZenonT(40) DEF SetSlot
<1>3. ASSUME NEW v \in frame, PublishRoot(v) PROVE IInv'
  <2>1. /\ UNCHANGED <<used, field, top, markEpoch, sweep, sweepLimit, scan, full>>
        /\ color' = Shaded(RootShades(v)) /\ gray' = gray \cup RootShades(v)
        /\ Interrupt(Interrupts(RootShades(v))) /\ slot' = slot /\ frame' = frame
    BY <1>3, ZenonT(40) DEF PublishRoot, heap
  <2>2. \A R \in SUBSET Handles : Holds(R) => Heap!Named' \subseteq R
    BY <2>1, ZenonT(40) DEF Holds, Heap!Named
  <2>3. slot' \in [Slots -> Heap!Refs] /\ frame' \in SUBSET Handles
    BY <1>1, <2>1, ZenonT(40) DEF TypeOK
  <2> QED BY <2>1, <2>2, <2>3, RootsKeep, ZenonT(40)
<1>4. RootShades(0) = {}
  BY ZenonT(40), <1>1 DEF RootShades, ToShade
<1>5. Shaded(RootShades(0)) = color /\ gray \cup RootShades(0) = gray
  BY <1>1, <1>4, ZenonT(40) DEF Shaded, TypeOK
<1>6. ASSUME UNCHANGED <<used, field, slot, top, state, rootPhase, markEpoch, sweep, sweepLimit,
                         scan, color, gray, full>>,
             frame' \in SUBSET Handles,
             \A R \in SUBSET Handles : Holds(R) => frame' \subseteq R
      PROVE  IInv'
  <2>1. color' = Shaded(RootShades(0)) /\ gray' = gray \cup RootShades(0)
    BY <1>5, <1>6, ZenonT(40)
  <2>2. Interrupt(Interrupts(RootShades(0)))
    BY <1>4, <1>6, ZenonT(40) DEF Interrupt, Interrupts
  <2>3. \A R \in SUBSET Handles : Holds(R) => Heap!Named' \subseteq R
    BY <1>6, ZenonT(40) DEF Holds, Heap!Named
  <2>4. slot' \in [Slots -> Heap!Refs]
    BY <1>1, <1>6, ZenonT(40) DEF TypeOK
  <2> QED BY <1>6, <2>1, <2>2, <2>3, <2>4, RootsKeep, ZenonT(40)
<1>7. ASSUME NEW p \in frame, NEW f \in Fields, Load(field[p][f]) PROVE IInv'
  <2>1. field[p][f] # 0 /\ frame' = frame \cup {field[p][f]} /\ field[p][f] \in Handles
    BY <1>1, <1>7, SMTT(60) DEF Load, TypeOK, Heap!Refs
  <2>2. \A R \in SUBSET Handles : Holds(R) => frame' \subseteq R
    BY <1>1, <2>1, ZenonT(40) DEF Holds, Heap!Named, Heap!Closed
  <2> QED BY <1>1, <1>6, <1>7, <2>1, <2>2, ZenonT(40) DEF Load
<1>8. ASSUME NEW i \in Slots, Load(slot[i]) PROVE IInv'
  <2>1. slot[i] # 0 /\ frame' = frame \cup {slot[i]} /\ slot[i] \in Handles
    BY <1>1, <1>8, ZenonT(40) DEF Load, TypeOK, Heap!Refs
  <2>2. \A R \in SUBSET Handles : Holds(R) => frame' \subseteq R
    BY <1>1, <2>1, ZenonT(40) DEF Holds, Heap!Named
  <2> QED BY <1>1, <1>6, <1>8, <2>1, <2>2, ZenonT(40) DEF Load
<1>9. ASSUME NEW h \in frame, Forget(h) PROVE IInv'
  <2>1. frame' \subseteq frame
    BY <1>9, ZenonT(40) DEF Forget
  <2>2. \A R \in SUBSET Handles : Holds(R) => frame' \subseteq R
    BY <1>1, <2>1, ZenonT(40) DEF Holds, Heap!Named
  <2> QED BY <1>1, <1>6, <1>9, <2>1, <2>2, ZenonT(40) DEF Forget
<1> QED BY <1>2, <1>3, <1>7, <1>8, <1>9, ZenonT(40)

(* The empty heap. *)
LEMMA InitKeeps == Init => IInv
<1> SUFFICES ASSUME Init PROVE IInv
  BY ZenonT(40)
<1> USE ShapeAssumption, BudgetAssumption DEF Init
<1>1. TypeOK
  <2>1. field \in [Handles -> [Fields -> Heap!Refs]] /\ slot \in [Slots -> Heap!Refs]
    BY ZenonT(40) DEF Heap!Blank, Heap!Refs
  <2>2. color \in [Handles -> Colors]
    BY DEF Colors
  <2>3. scan \in [handle : 0..MaxHandle, index : Nat] /\ top \in 0..MaxHandle
        /\ sweepLimit \in 0..MaxHandle + 1 /\ markEpoch \in 0..EpochMask
    BY DEF NoScan
  <2> QED BY <2>1, <2>2, <2>3, ZenonT(40) DEF TypeOK
<1>2. Shape /\ Phases
  BY ZenonT(40) DEF Shape, Phases, Heap!Blank
<1>3. Holds({}) /\ Marked(used, color, markEpoch) = {}
  BY ZenonT(40) DEF Holds, Heap!Named, Heap!Closed, Marked
<1>4. Reach /\ Sweeping
  BY <1>3, ZenonT(40) DEF Reach, Sweeping, SweepActive
<1>5. GrayInv(used, color, markEpoch, gray, Cursor) /\ EdgeInv(used, color, markEpoch, Cursor, field)
  BY ZenonT(40) DEF GrayInv, EdgeInv, Cursor, Active, NoScan
<1> QED BY ZenonT(40), <1>1, <1>2, <1>4, <1>5 DEF IInv

(* Every step of the collector and of the program. *)
LEMMA NextKeeps ==
  ASSUME RemarkIsAtomic, IInv, [Next]_vars
  PROVE  IInv'
<1>1. CASE Step
  <2>1. ASSUME StepIdle PROVE IInv'
    BY ZenonT(40), <2>1, StartMarkKeeps DEF StepIdle, IInv, TypeOK
  <2> QED BY <1>1, <2>1, StepMarkKeeps, StepRemarkKeeps, StepSweepKeeps, ZenonT(40) DEF Step
<1>2. CASE CollectFull
  BY <1>2, StartMarkKeeps, ZenonT(40) DEF CollectFull
<1>3. CASE Mutate
  BY <1>3, StructSetKeeps, ArrayFillKeeps, NewStructKeeps, NewArrayKeeps, RootStepKeeps, ZenonT(40) DEF Mutate
<1>4. CASE UNCHANGED vars
  <2> USE <1>4 DEF vars, heap
  <2>1. TypeOK' /\ Shape'
    BY ZenonT(40) DEF IInv, TypeOK, Shape
  <2>2. Phases'
    BY ZenonT(40) DEF IInv, Phases, IsBlack, Black
  <2>3. Marked(used, color, markEpoch)' = Marked(used, color, markEpoch)
        /\ (\A R : Holds(R)' <=> Holds(R)) /\ (SweepActive' <=> SweepActive) /\ Cursor' = Cursor
    BY ZenonT(40) DEF Marked, Holds, SweepActive, Cursor, Heap!Named, Heap!Closed
  <2>4. Reach'
    <3>1. PICK R \in SUBSET Handles : Holds(R)
      BY ZenonT(40) DEF IInv, Reach
    <3>2. Holds(R)'
      BY <2>3, <3>1, ZenonT(40)
    <3>3. SweepActive' => Holds(Marked(used, color, markEpoch))'
      BY ZenonT(40), <2>3, SameHolds DEF IInv, Reach
    <3> QED BY <3>2, <3>3, ZenonT(40) DEF Reach
  <2>5. Sweeping'
    BY <2>3, Zenon DEF IInv, Sweeping, IsWhite, Black, Gray
  <2>6. GrayInv(used, color, markEpoch, gray, Cursor)' /\ EdgeInv(used, color, markEpoch, Cursor, field)'
    BY ZenonT(40), <2>3 DEF IInv
  <2> QED BY <2>1, <2>2, <2>4, <2>5, <2>6, ZenonT(40) DEF IInv
<1> QED BY ZenonT(40), <1>1, <1>2, <1>3, <1>4 DEF Next

-----------------------------------------------------------------------------
(* What follows for every heap. *)

(* The inductive invariant holds in every behaviour of the collector. *)
THEOREM Invariance ==
  ASSUME RemarkIsAtomic
  PROVE  Spec => []IInv
<1>1. Init => IInv
  BY ZenonT(40), InitKeeps
<1>2. IInv /\ [Next]_vars => IInv'
  BY ZenonT(40), NextKeeps
<1> QED BY <1>1, <1>2, PTL DEF Spec

(* A closed set of allocated objects that holds the roots bounds what is live. *)
LEMMA LiveInside ==
  ASSUME NEW R \in SUBSET Handles, Holds(R)
  PROVE  Heap!Live \subseteq R
  BY ZenonT(40) DEF Holds, Heap!Live

(* No reachable object is ever freed: tinySweepBudget frees white objects  *)
(* only, and whatever the program did between the Steps white means        *)
(* unreachable, provided the persistent slots fit in one root budget.      *)
THEOREM ReachableIsKept ==
  ASSUME RemarkIsAtomic
  PROVE  Spec => []LiveIsKept
<1>1. ASSUME IInv PROVE LiveIsKept
  <2>1. PICK R \in SUBSET Handles : Holds(R)
    BY ZenonT(40), <1>1 DEF IInv, Reach
  <2> QED BY ZenonT(40), <2>1, LiveInside DEF LiveIsKept, Holds
<1> QED BY <1>1, Invariance, PTL

(* The post-write barriers keep black objects from referring to white ones *)
(* (tinyWriteBarrierObject, tinyMarkSweepRef, PostBulkWriteBarrier).       *)
THEOREM TriColour ==
  ASSUME RemarkIsAtomic
  PROVE  Spec => []NoBlackToWhite
<1>1. ASSUME IInv PROVE NoBlackToWhite
  <2> SUFFICES ASSUME NEW h \in used, NEW f \in Fields, field[h][f] # 0,
                      \/ IsBlack(h)
                      \/ state # "sweep" /\ scan.handle = h /\ f <= scan.index
               PROVE  field[h][f] \in used /\ ~IsWhite(field[h][f])
    BY ZenonT(40) DEF NoBlackToWhite
  <2>1. EdgeInv(used, color, markEpoch, Cursor, field)
    BY <1>1, ZenonT(40) DEF IInv
  <2>2. color[h] = markEpoch \/ (Cursor.handle = h /\ f <= Cursor.index)
    BY ZenonT(40) DEF IsBlack, Black, Cursor
  <2>3. field[h][f] \in Marked(used, color, markEpoch)
    BY <2>1, <2>2, Zenon DEF EdgeInv
  <2> QED BY <2>3, ZenonT(40) DEF Marked, IsWhite, Black, Gray
<1> QED BY <1>1, Invariance, PTL

(* Colours, queue and cursor agree (gc/tiny): the gray objects are exactly *)
(* the queued and the active ones, and an idle collector has only black    *)
(* ones.                                                                   *)
THEOREM ColorsStayExact ==
  ASSUME RemarkIsAtomic
  PROVE  Spec => []ColorsAreExact
<1>1. ASSUME IInv PROVE ColorsAreExact
  <2>1. (IF state # "sweep" /\ scan.handle # 0 THEN {scan.handle} ELSE {}) = Active(Cursor)
    BY ZenonT(40) DEF Active, Cursor, NoScan
  <2>2. GrayInv(used, color, markEpoch, gray, Cursor) /\ (state = "idle" => \A h \in used : IsBlack(h))
    BY ZenonT(40), <1>1 DEF IInv, Phases
  <2> QED BY ZenonT(40), <2>1, <2>2 DEF ColorsAreExact, GrayInv, IsGray, Gray
<1> QED BY <1>1, Invariance, PTL

(* No Step of the sweep ends in one of tinySweepBudget's internal errors.  *)
THEOREM SweepIsSound ==
  ASSUME RemarkIsAtomic
  PROVE  Spec => []SweepNeverFails
<1>1. ASSUME IInv PROVE SweepNeverFails
  <2> SUFFICES ASSUME state = "sweep" PROVE SweepNeverFails
    BY ZenonT(40) DEF SweepNeverFails
  <2>1. 1 <= sweepLimit /\ sweepLimit <= top + 1
    BY ZenonT(40), <1>1 DEF IInv, Sweeping, SweepActive
  <2>2. sweepLimit # 0
    BY <2>1, SMTT(60)
  <2>3. gray = {} => \A h \in used : ~IsGray(h)
    BY ZenonT(40), <1>1 DEF IInv, GrayInv, IsGray, Gray, Cursor, Active, NoScan
  <2>4. scan.handle # 0 => /\ scan.handle = sweep /\ scan.handle \in used
                           /\ IsWhite(scan.handle) /\ scan.index < Chunks[scan.handle]
    BY ZenonT(40), <1>1 DEF IInv, Sweeping
  <2> QED BY ZenonT(40), <2>1, <2>2, <2>3, <2>4 DEF SweepNeverFails
<1> QED BY <1>1, Invariance, PTL

(* Freeing one object that is not reachable is a step of the managed heap. *)
LEMMA ReleaseIsReclaim ==
  ASSUME IInv, state = "sweep", NEW h \in used, IsWhite(h), Release(h)
  PROVE  Heap!Next
<1>1. Holds(Marked(used, color, markEpoch)) /\ Marked(used, color, markEpoch) \in SUBSET Handles
  BY ZenonT(40) DEF IInv, Reach, SweepActive, Marked, TypeOK
<1>2. h \notin Marked(used, color, markEpoch)
  BY ZenonT(40) DEF Marked, IsWhite, Black, Gray
<1>3. {h} \in SUBSET (used \ Heap!Live)
  BY ZenonT(40), <1>1, <1>2, LiveInside
<1>4. /\ used' = used \ {h}
      /\ field' = [x \in Handles |-> IF x \in {h} THEN Heap!Blank ELSE field[x]]
      /\ UNCHANGED <<frame, slot>>
  BY Zenon DEF Release, IInv, TypeOK
<1> QED BY <1>3, <1>4, ZenonT(40) DEF Heap!Next, Heap!Reclaim

(* Every step of the collector, seen by the program. *)
LEMMA StepImplements ==
  ASSUME IInv, Step \/ CollectFull
  PROVE  [Heap!Next]_(Heap!vars)
<1>1. CASE UNCHANGED heap
  BY ZenonT(40), <1>1 DEF heap, Heap!vars
<1>2. CASE StepSweep
  <2>1. CASE SweepPoisons
    <3>1. UNCHANGED heap \/ (Release(scan.handle) /\ scan.handle \in used /\ IsWhite(scan.handle))
      BY ZenonT(40), <2>1 DEF SweepPoisons
    <3> QED BY ZenonT(40), <1>1, <1>2, <3>1, ReleaseIsReclaim DEF StepSweep
  <2>2. CASE SweepOne
    <3>1. UNCHANGED heap \/ (Release(sweep) /\ sweep \in used /\ IsWhite(sweep))
      BY ZenonT(40), <2>2 DEF SweepOne
    <3> QED BY <1>1, <1>2, <3>1, ReleaseIsReclaim, ZenonT(40) DEF StepSweep
  <2> QED BY ZenonT(40), <1>1, <1>2, <2>1, <2>2 DEF StepSweep, SweepYields, FinishCycle
<1>3. StepSweep \/ UNCHANGED heap
  BY ZenonT(40) DEF Step, StepIdle, StepSweepBarrier, StepMark, StepRemark, CollectFull, StartMark
<1> QED BY ZenonT(40), <1>1, <1>2, <1>3

(* Every step of the program does to the heap what it says. *)
LEMMA MutateImplements ==
  ASSUME IInv, Mutate
  PROVE  [Heap!Next]_(Heap!vars)
<1> USE ShapeAssumption
<1>1. TypeOK /\ 0 \notin Handles /\ frame \subseteq Handles /\ Shape
  BY SMTT(60) DEF IInv, TypeOK, Handles
<1>2. ASSUME NEW p \in frame, NEW f \in Fields, NEW v \in frame \cup {0}, StructSet(p, f, v)
      PROVE  Heap!Store
  <2>1. field' = [field EXCEPT ![p] = [field[p] EXCEPT ![f] = v]] /\ UNCHANGED <<used, frame, slot>>
    BY ZenonT(40), <1>2 DEF StructSet
  <2>2. [field[p] EXCEPT ![f] = v] \in [Fields -> Heap!Refs]
    BY <1>1, ZenonT(40) DEF TypeOK, Heap!Refs
  <2>3. \A g \in Fields : [field[p] EXCEPT ![f] = v][g] \in frame \cup {0, field[p][g]}
    BY <1>1, ZenonT(40) DEF TypeOK
  <2> QED BY <2>1, <2>2, <2>3, ZenonT(40) DEF Heap!Store
<1>3. ASSUME NEW p \in frame, NEW F \in Ranges, NEW v \in frame \cup {0}, ArrayFill(p, F, v)
      PROVE  Heap!Store
  <2>1. PICK new : new = [f \in Fields |-> IF f \in F THEN v ELSE field[p][f]]
    BY ZenonT(40)
  <2>2. field' = [field EXCEPT ![p] = new] /\ UNCHANGED <<used, frame, slot>>
    BY ZenonT(40), <1>1, <1>3, <2>1 DEF ArrayFill, TypeOK
  <2>3. new \in [Fields -> Heap!Refs] /\ \A f \in Fields : new[f] \in frame \cup {0, field[p][f]}
    BY <1>1, <2>1, SMTT(60) DEF TypeOK, Heap!Refs
  <2> QED BY <2>2, <2>3, Zenon DEF Heap!Store
<1>4. ASSUME NEW h \in FreeHandles, NEW new, new \in [Fields -> frame \cup {0}],
             field' = [field EXCEPT ![h] = new], Publish(h)
      PROVE  Heap!Construct
  <2>1. {} \in SUBSET frame /\ frame' = (frame \ {}) \cup {h}
    BY ZenonT(40), <1>4 DEF Publish
  <2>2. h \in Handles \ used /\ used' = used \cup {h} /\ slot' = slot
    BY ZenonT(40), <1>4, FreeIsFree DEF Publish
  <2>3. \E init \in [Fields -> frame \cup {0}] : field' = [field EXCEPT ![h] = init]
    BY <1>4, ZenonT(40)
  <2> QED BY <2>1, <2>2, <2>3, ZenonT(40) DEF Heap!Construct
<1>5. ASSUME NEW h \in FreeHandles, NewStruct(h) PROVE Heap!Construct
  <2>1. PICK init \in [1..Width[h] -> Operands] :
          field' = [field EXCEPT ![h] = [f \in Fields |-> IF f <= Width[h] THEN init[f] ELSE 0]]
    BY <1>5, Zenon DEF NewStruct
  <2>2. PICK new : new = [f \in Fields |-> IF f <= Width[h] THEN init[f] ELSE 0]
    BY Zenon
  <2>3. \A f \in Fields : f <= Width[h] => init[f] \in frame \cup {0}
    <3>1. Width[h] \in Nat
      BY FreeIsFree
    <3> QED BY <2>1, <3>1 DEF Operands, Fields
  <2>4. new \in [Fields -> frame \cup {0}]
    BY ZenonT(40), <2>2, <2>3
  <2> QED BY <1>4, <1>5, <2>1, <2>2, <2>4, Zenon DEF NewStruct
<1>6. ASSUME NEW h \in FreeHandles, NEW v \in frame \cup {0}, NewArray(h, v) PROVE Heap!Construct
  <2>1. PICK new : new = [f \in Fields |-> IF f <= Width[h] THEN v ELSE 0]
    BY ZenonT(40)
  <2>2. new \in [Fields -> frame \cup {0}]
    BY ZenonT(40), <2>1
  <2>3. field' = [field EXCEPT ![h] = new] /\ Publish(h)
    BY <1>6, <2>1, ZenonT(40) DEF NewArray
  <2> QED BY <1>4, <2>2, <2>3, Zenon
<1>7. ASSUME NEW i \in Slots, NEW v \in frame \cup {0}, SetSlot(i, v) PROVE Heap!Publish
  BY <1>7, ZenonT(40) DEF SetSlot, Heap!Publish
<1>8. ASSUME NEW v \in frame, PublishRoot(v) PROVE UNCHANGED Heap!vars
  BY ZenonT(40), <1>8 DEF PublishRoot, heap, Heap!vars
<1>9. ASSUME NEW p \in frame, NEW f \in Fields, Load(field[p][f]) PROVE Heap!Load
  <2>1. frame' = (frame \cup {field[p][f]}) \ {0} /\ UNCHANGED <<used, field, slot>>
    BY ZenonT(40), <1>1, <1>9 DEF Load
  <2> QED BY <2>1 DEF Heap!Load
<1>10. ASSUME NEW i \in Slots, Load(slot[i]) PROVE Heap!Load
  <2>1. frame' = (frame \cup {slot[i]}) \ {0} /\ UNCHANGED <<used, field, slot>>
    BY ZenonT(40), <1>1, <1>10 DEF Load
  <2> QED BY <2>1, SMTT(60) DEF Heap!Load
<1>11. ASSUME NEW h \in frame, Forget(h) PROVE Heap!Forget
  BY ZenonT(40), <1>11 DEF Forget, Heap!Forget
<1> QED BY <1>2, <1>3, <1>5, <1>6, <1>7, <1>8, <1>9, <1>10, <1>11, ZenonT(40) DEF Mutate, Heap!Next

(* The Tiny collector implements the managed heap: the program's operations*)
(* do what they say and the collector's Steps only make unreachable objects*)
(* disappear (collection of src/core/runtime/gc/native/tiny_collect.go).   *)
THEOREM Implements ==
  ASSUME RemarkIsAtomic
  PROVE  Spec => ImplementsHeap
<1>1. Init => Heap!Init
  BY ZenonT(40) DEF Init, Heap!Init
<1>2. IInv /\ [Next]_vars => [Heap!Next]_(Heap!vars)
  <2> SUFFICES ASSUME IInv, [Next]_vars PROVE [Heap!Next]_(Heap!vars)
    BY ZenonT(40)
  <2>1. CASE UNCHANGED vars
    BY ZenonT(40), <2>1 DEF vars, heap, Heap!vars
  <2> QED BY ZenonT(40), <2>1, StepImplements, MutateImplements DEF Next
<1> QED BY <1>1, <1>2, Invariance, PTL DEF Spec, ImplementsHeap, Heap!Spec
=============================================================================
