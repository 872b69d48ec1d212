---------------------------- MODULE ManagedHeap ----------------------------
(***************************************************************************)
(* What a WasmGC collector promises the program that runs on top of it,    *)
(* whatever its profile.  The program sees objects, their reference        *)
(* fields, the references its frames hold and the persistent root slots    *)
(* (globals and tables).  Every operation does exactly what it says to     *)
(* these, and the only other thing that ever happens is that objects the   *)
(* program can no longer reach disappear.                                  *)
(***************************************************************************)
EXTENDS Naturals

CONSTANTS Handles,   \* object identities; 0 is the null reference
          Fields,    \* positions of the reference fields of an object
          Slots      \* persistent root slots

VARIABLES used,      \* the allocated handles
          field,     \* field[h][f]: the reference in field f of h
          frame,     \* the references held by frames (the transient roots)
          slot       \* slot[i]: the reference in persistent slot i

vars == <<used, field, frame, slot>>

Refs == Handles \cup {0}

(* The references of an object whose every field is null. *)
Blank == [f \in Fields |-> 0]

(***************************************************************************)
(* The objects the program can reach: the least set that holds the roots   *)
(* and, with an object, everything its fields name.                        *)
(***************************************************************************)
Named == (frame \cup {slot[i] : i \in Slots}) \ {0}

Closed(S) == \A h \in S : \A f \in Fields : field[h][f] \in S \cup {0}

Live == {h \in Handles :
           \A S \in SUBSET Handles : (Named \subseteq S /\ Closed(S)) => h \in S}

Init ==
  /\ used = {}
  /\ field = [h \in Handles |-> Blank]
  /\ frame = {}
  /\ slot = [i \in Slots |-> 0]

(* A constructor: the new object's fields come from the caller's operands, *)
(* which it may pop.                                                       *)
Construct ==
  \E h \in Handles \ used :
    /\ used' = used \cup {h}
    /\ \E init \in [Fields -> frame \cup {0}] : field' = [field EXCEPT ![h] = init]
    /\ \E popped \in SUBSET frame : frame' = (frame \ popped) \cup {h}
    /\ slot' = slot

(* A store into one object the program holds, of references it holds or    *)
(* that another such object holds (a copy).                                *)
Store ==
  \E h \in frame :
    /\ UNCHANGED <<used, frame, slot>>
    /\ \E new \in [Fields -> Refs] :
         /\ field' = [field EXCEPT ![h] = new]
         /\ \A f \in Fields :
              \/ new[f] \in frame \cup {0, field[h][f]}
              \/ \E p \in frame, g \in Fields : new[f] = field[p][g]

(* A load: from a field of an object the program holds, or from a slot. *)
Load ==
  /\ \E r \in {field[h][f] : h \in frame, f \in Fields} \cup {slot[i] : i \in Slots} :
       frame' = (frame \cup {r}) \ {0}
  /\ UNCHANGED <<used, field, slot>>

(* Frames pop and locals are overwritten. *)
Forget ==
  /\ frame' \in SUBSET frame
  /\ UNCHANGED <<used, field, slot>>

(* A store into a persistent slot. *)
Publish ==
  /\ \E i \in Slots, r \in frame \cup {0} : slot' = [slot EXCEPT ![i] = r]
  /\ UNCHANGED <<used, field, frame>>

(* Only what cannot be reached is reclaimed. *)
Reclaim ==
  \E dead \in SUBSET (used \ Live) :
    /\ used' = used \ dead
    /\ field' = [h \in Handles |-> IF h \in dead THEN Blank ELSE field[h]]
    /\ UNCHANGED <<frame, slot>>

Next == Construct \/ Store \/ Load \/ Forget \/ Publish \/ Reclaim

Spec == Init /\ [][Next]_vars

=============================================================================
