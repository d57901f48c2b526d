------------------------- MODULE MCRemediationSession -------------------------
(***************************************************************************)
(* TLC instances of RemediationSession: a Deployment on a bad template     *)
(* with a good one before it, a target beside the allowlist, and paused    *)
(* runs of Lobster that each miss what makes one resumable.                *)
(***************************************************************************)
EXTENDS RemediationSession

CONSTANTS f1, a1, k1, good, bad, u1, here, elsewhere, shop, other,
          incidentWorkflow, otherWorkflow, guardianRoot, otherRoot,
          occurrence, otherAlert, s0, s1, s2, s3, s4

BackToGood == [cluster |-> here, name |-> shop, uid |-> u1,
               fromTemplate |-> bad, toTemplate |-> good]
BesideTheAllowlist == [BackToGood EXCEPT !.name = other]
TwoTargets == {BackToGood, BesideTheAllowlist}
OneKey == [target \in TwoTargets |-> k1]

Policy == [comparator |-> "gte", threshold |-> 9, maxSampleAge |-> 1]
Entry == [name |-> shop, recovery |-> {Policy}, malformed |-> FALSE]
Usable == [clusterId |-> {here}, kubeconfig |-> "absolute", context |-> here,
           allowlist |-> <<Entry>>]
Configurations ==
    {Usable,
     [Usable EXCEPT !.allowlist = <<[Entry EXCEPT !.recovery = {}], Entry>>]}

Run == PausedRun(RunRequest, s0)
PausedElsewhere ==
    {[Run EXCEPT !.key = s1, !.file = otherWorkflow],
     [Run EXCEPT !.key = s2, !.root = otherRoot],
     [Run EXCEPT !.key = s3, !.prepared = otherAlert],
     [Run EXCEPT !.key = s4, !.identity = "declared"]}
=============================================================================
