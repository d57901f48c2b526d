--------------------------- MODULE MCAlertBridge ---------------------------
(***************************************************************************)
(* TLC instances of AlertBridge: one fingerprint, and the alerts that      *)
(* Alertmanager sends for it.                                              *)
(***************************************************************************)
EXTENDS AlertBridge

CONSTANTS f1, a1, k1, t1

Firing(start) == <<"firing", start, None>>
Resolved(start, end) == <<"resolved", start, end>>

FiringTwice == {Firing(0), Firing(1)}
TwoOccurrences == {Firing(0), Firing(1), Resolved(0, 1)}
LateFirst == {Firing(0), Firing(1), Resolved(0, 2)}
ThreeOccurrences == {Firing(0), Firing(1), Firing(2)}
=============================================================================
