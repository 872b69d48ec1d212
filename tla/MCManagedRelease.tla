-------------------------- MODULE MCManagedRelease --------------------------
(* Instance of ManagedRelease for TLC. *)
EXTENDS ManagedRelease, TLC

CONSTANTS u1, u2, l1

MCUpdaters  == {u1, u2}
MCLaunchers == {l1}

(* Updaters are interchangeable in every action and in the safety properties. *)
Symmetry == Permutations(MCUpdaters)

(* Bound: with all releases installed an uninstall is followed up to its first
   removal, with fewer to its end. *)
RemovalBound == wiped # {} => dir[MaxReleases] = "none"
=============================================================================
