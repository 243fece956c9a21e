--------------------------- MODULE ClusterKubeconfig ---------------------------
(* The ClusterKubeconfig controller: a kubeconfig for the users of a cluster, *)
(* put together from the Secret of the cluster and the OIDC configuration of  *)
(* the organization, which an annotation of the Cluster may override.         *)
EXTENDS ClusterCredentials

VARIABLES
    watched,      \* the controller runs
    kubeconfig,   \* the ClusterKubeconfig
    kcQueued,     \* its controller has a request
    oidc          \* the organization's configuration, and the override

kcVars == <<watched, kubeconfig, kcQueued, oidc>>

NoKubeconfig == [exists |-> FALSE, ca |-> -1, client |-> "none", failed |-> "nil", ready |-> "nil"]

KcTypeOK ==
    /\ kubeconfig \in [exists : BOOLEAN, ca : -1..1, client : {"none", "org", "own"},
                       failed : Conditions, ready : Conditions]
    /\ watched \in BOOLEAN /\ kcQueued \in BOOLEAN
    /\ oidc \in [org : BOOLEAN, override : {"none", "own", "broken"}]

KcInit(runs) == watched = runs /\ kubeconfig = NoKubeconfig /\ kcQueued = FALSE /\ oidc = [org |-> TRUE, override |-> "none"]

\* getOIDCInfo: the client, or "error" if a configuration or a Secret it refers to is
\* missing.
getOIDCInfo ==
    IF ~oidc.org \/ oidc.override = "broken" THEN "error"
    ELSE IF oidc.override = "own" THEN "own" ELSE "org"

\* calculateKubeconfigStatus, and the patch: only what it changes is sent, and what
\* the pass set before does not count as a change.
calculateKubeconfigStatus(k) ==
    [k EXCEPT !.ready = Cond(k.ca # -1 /\ k.client # "none" /\ k.failed # "True")]
PatchStatus(k) == LET new == calculateKubeconfigStatus(k)
                  IN  IF new = k /\ k.failed = "True" THEN kubeconfig ELSE new

\* The errors that end a pass for good: nothing is retried.
Missing(s) == getOIDCInfo = "error" \/ ~s.exists \/ s.gh = NoConfig

\* createKubeconfig: spec of the pass.
FilledWhenNew(k, s) == IF k.ca = -1 THEN [k EXCEPT !.ca = s.gh.ca, !.client = getOIDCInfo] ELSE k
Filled(k, s) == [k EXCEPT !.ca = s.gh.ca, !.client = getOIDCInfo]

\* Reconcile.  The object is created first; that the cache does not show it yet fails
\* the patch that follows.  An error of a status patch is only logged.
ReconcileKubeconfig ==
    /\ running /\ kcQueued
    /\ IF ~cluster.exists THEN kcQueued' = FALSE /\ UNCHANGED <<kubeconfig, mishaps>>
       ELSE \E early, fails, lost \in BOOLEAN :
          LET k == [kubeconfig EXCEPT !.exists = TRUE]
              stops == Missing(seen)
              failed == ~stops /\ (early \/ fails)
              spec == IF stops \/ failed THEN k ELSE Filled(k, seen)
              status == PatchStatus([spec EXCEPT !.failed = Cond(stops \/ failed)])
          IN  /\ early => ~kubeconfig.exists
              /\ fails /\ lost => FALSE
              /\ Mishap(fails \/ lost)
              /\ kubeconfig' = IF lost THEN spec
                               ELSE [spec EXCEPT !.failed = status.failed, !.ready = status.ready]
              /\ kcQueued' = (failed \/ (spec # kubeconfig /\ kubeconfig.exists))
    /\ UNCHANGED <<watched, oidc>>

\* organizationToClusters, sameNameResource: both watches lead to the cluster.
EditOIDC(new) ==
    /\ oidc' = new /\ oidc' # oidc
    /\ kcQueued' = TRUE
    /\ UNCHANGED <<watched, kubeconfig>>

\* Clusters, and all Secrets of the namespace, are watched.
clusterSecretToCluster ==
    /\ kcQueued' = (kcQueued \/ (watched /\ <<seen, unseen, cluster, running>>' # <<seen, unseen, cluster, running>>))
    /\ UNCHANGED <<watched, kubeconfig, oidc>>
==============================================================================
