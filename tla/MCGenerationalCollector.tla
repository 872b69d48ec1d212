---------------------- MODULE MCGenerationalCollector ----------------------
(* A parent with two fields on cards that do not touch, and a leaf. *)
EXTENDS GenerationalCollector

Pair  == {1, 2}
Shape == <<2, 0>>
Apart == <<1, 3>>

=============================================================================
