---------------------------- MODULE MCMemoryWait ----------------------------
(* Instances of MemoryWait for TLC. *)
EXTENDS MemoryWait

CONSTANTS w1, w2, n1, n2, o1, o2, v1, v2

=============================================================================
