-------------------------- MODULE RecoveryInspection --------------------------
(***************************************************************************)
(* What a recovery check looks at: the administrator's configuration       *)
(* (src/src/kubernetes/config.ts), one reading of the Deployment and one   *)
(* Prometheus sample (src/src/recovery/deployment-prometheus-recovery.ts). *)
(*                                                                         *)
(* Names, paths and queries stand for themselves; a value that the parser  *)
(* turns down (not a string, empty, too long, not a number) is malformed,  *)
(* whatever is wrong with it.                                              *)
(***************************************************************************)
EXTENDS Integers, Sequences

CONSTANTS
    Clusters,           \* cluster ids
    DeploymentNames,    \* namespace and name of a Deployment
    MaxSampleSkew       \* 30 seconds

ASSUME RecoveryInspectionAssumption == MaxSampleSkew \in Nat

-----------------------------------------------------------------------------
(* The configuration *)

Policies == [comparator : {"gte", "lte"}, threshold : Int,
             maxSampleAge : Nat \ {0}]

\* recovery: the entry's policy, as a set with at most one element.
AllowlistEntries == [name : DeploymentNames, recovery : SUBSET Policies,
                     malformed : BOOLEAN]

\* clusterId: a set with at most one element.  context: the kubeconfig's
\* current context, which its file can change behind the plugin's back.
Configs == [clusterId : SUBSET Clusters, kubeconfig : {"none", "relative", "absolute"},
            context : Clusters, allowlist : Seq(AllowlistEntries)]

\* resolveKubernetesToolConfig does not throw.
ConfigResolves(config) ==
    /\ config.clusterId # {}
    /\ config.kubeconfig = "absolute"
    /\ config.allowlist # <<>>
    /\ \A i \in DOMAIN config.allowlist : ~config.allowlist[i].malformed

\* createKubernetesDeploymentClient does not throw.
ClientConnects(config) == config.context \in config.clusterId

IsAllowlisted(config, name) ==
    \E i \in DOMAIN config.allowlist : config.allowlist[i].name = name

\* requireRecoveryPolicy looks at the first entry with the name; {} when it
\* throws.
RecoveryPolicies(config, name) ==
    LET entries == SelectSeq(config.allowlist, LAMBDA entry : entry.name = name)
    IN  IF entries = <<>> THEN {} ELSE Head(entries).recovery

-----------------------------------------------------------------------------
(* The two observations *)

\* Mutant: the age of the status is not looked at.
DeploymentIssuesIgnoringAge(live, key, target) ==
    LET failed ==
          [deployment_uid_mismatch       |-> live.uid # target.uid,
           deployment_template_mismatch  |-> live.template # target.toTemplate,
           rollback_audit_mismatch       |-> live.audit # {[key    |-> key,
                                                           target |-> target]},
           desired_replicas_not_positive |-> live.desired < 1,
           deployment_replicas_not_ready |->
               \/ live.status.updated # live.desired
               \/ live.status.available # live.desired
               \/ live.status.unavailable # 0]
    IN  {issue \in DOMAIN failed : failed[issue]}

\* inspectDeploymentRecovery.  audit stands for the four annotations, which
\* are written together.
DeploymentIssues(live, key, target) ==
    LET failed ==
          [deployment_uid_mismatch       |-> live.uid # target.uid,
           deployment_template_mismatch  |-> live.template # target.toTemplate,
           rollback_audit_mismatch       |-> live.audit # {[key    |-> key,
                                                           target |-> target]},
           desired_replicas_not_positive |-> live.desired < 1,
           deployment_generation_not_observed |->
               live.status.observed < live.generation,
           deployment_replicas_not_ready |->
               \/ live.status.updated # live.desired
               \/ live.status.available # live.desired
               \/ live.status.unavailable # 0]
    IN  {issue \in DOMAIN failed : failed[issue]}

MeetsThreshold(value, policy) ==
    IF policy.comparator = "gte" THEN value >= policy.threshold
                                 ELSE value <= policy.threshold

\* Mutant: a recent sample is a good one, whatever was done since.
SampleIssuesIgnoringAttempt(sample, policy, notBefore, checkedAt) ==
    LET failed ==
          [prometheus_sample_stale       |->
               checkedAt - sample.at > policy.maxSampleAge,
           prometheus_sample_from_future |-> sample.at - checkedAt > MaxSampleSkew,
           prometheus_threshold_not_met  |-> ~MeetsThreshold(sample.value, policy)]
    IN  {issue \in DOMAIN failed : failed[issue]}

\* inspectPrometheusRecovery, with timestamps that parse
SampleIssues(sample, policy, notBefore, checkedAt) ==
    LET failed ==
          [prometheus_sample_precedes_remediation |-> sample.at < notBefore,
           prometheus_sample_stale       |->
               checkedAt - sample.at > policy.maxSampleAge,
           prometheus_sample_from_future |-> sample.at - checkedAt > MaxSampleSkew,
           prometheus_threshold_not_met  |-> ~MeetsThreshold(sample.value, policy)]
    IN  {issue \in DOMAIN failed : failed[issue]}

\* verifyDeploymentAndPrometheusRecovery, once it has read both
Recovered(live, sample, policy, key, target, notBefore, checkedAt) ==
    /\ DeploymentIssues(live, key, target) = {}
    /\ SampleIssues(sample, policy, notBefore, checkedAt) = {}
=============================================================================
