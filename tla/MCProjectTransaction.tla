------------------------ MODULE MCProjectTransaction ------------------------
EXTENDS ProjectTransaction, TLC

\* The processes are alike.
Interchangeable == Permutations(Procs)
=============================================================================
