---------------------------- MODULE MCResponseGate ----------------------------
(***************************************************************************)
(* TLC instances of ResponseGate: two runs compete for the one entry of    *)
(* the fallback map; the second may have no run id.                        *)
(***************************************************************************)
EXTENDS ResponseGate, TLC

CONSTANTS r1, r2, query, inspect, propose, other

\* One run can gather its evidence and propose; the other is only in its way.
MCMaxCalls == r1 :> 3 @@ r2 :> 0
=============================================================================
