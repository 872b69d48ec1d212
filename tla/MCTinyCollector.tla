-------------------------- MODULE MCTinyCollector --------------------------
(* Instances of TinyCollector for TLC. *)
EXTENDS TinyCollector

\* An object with two references, and one with one that is freed in two pieces.
Pair == <<2, 1>>
PairPieces == <<0, 2>>

\* A chain needs two objects with a reference, and a last one without.
Trio == <<1, 1, 0>>
TrioPieces == <<2, 0, 0>>
=============================================================================
