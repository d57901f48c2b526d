------------------------ MODULE MCDeploymentRollback ------------------------
(***************************************************************************)
(* TLC instances of DeploymentRollback: a Deployment at its second         *)
(* revision, two templates, and targets that lead from one to the other.   *)
(***************************************************************************)
EXTENDS DeploymentRollback, TLC

CONSTANTS f1, f2, a1, k1, k2, old, new, c1, c2

\* Incidents, keys and calls are interchangeable where EitherKey is used.
Symmetry == Permutations(CallIds) \cup Permutations(Fingerprints)
               \cup Permutations(Keys)

Target(uid, from, to, fromTemplate, toTemplate) ==
    [uid |-> uid, fromRevision |-> from, toRevision |-> to,
     fromTemplate |-> fromTemplate, toTemplate |-> toTemplate]

\* Back to the first revision; and, after a rollback and another rollout,
\* back again, under the numbers the history has then.
FirstAndLater == {Target(1, 2, 1, new, old), Target(1, 4, 3, new, old)}

\* Two incidents may be given the same key, or one each.
EitherKey == [f \in Fingerprints |-> Keys]
OneAttempt == f1 :> {k1}
=============================================================================
