------------------------- MODULE MCRuntimeShutdown -------------------------
(* Instance of RuntimeShutdown for TLC. *)
EXTENDS RuntimeShutdown

CONSTANTS p1, p2, t1, d1, m1

\* p2 may call p1's contract, and its manager owns the managed instance.
Two == <<p1, p2>>
OwnedByLast == [i \in {m1} |-> Order[N]]
=============================================================================
