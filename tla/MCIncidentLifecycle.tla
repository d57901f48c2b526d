------------------------- MODULE MCIncidentLifecycle -------------------------
(***************************************************************************)
(* TLC instance of IncidentLifecycle.  Keys and targets are only compared  *)
(* with each other, so their permutations are a symmetry.                  *)
(***************************************************************************)
EXTENDS IncidentLifecycle, TLC

CONSTANTS f1, f2, a1, a2, k1, k2, k3, k4, t1, t2

Symmetry ==
    Permutations(Keys) \cup Permutations(Targets)
        \cup Permutations(Fingerprints) \cup Permutations(AlertIds)
=============================================================================
