----------------------------- MODULE Offboarding -----------------------------
(***************************************************************************)
(* The controllers of clusters, Plugins and PluginPresets together, with   *)
(* Flux, the garbage collector and users: from the Secret that onboards a  *)
(* cluster to the deletion of the Cluster, which has to undo everything    *)
(* the others have built on it.  They share nothing but the API server and *)
(* read it through a cache that may be behind.                             *)
(***************************************************************************)
EXTENDS ClusterController, PluginController, PluginPresetController

Next == HubNext \/ ClusterNext \/ PluginNext \/ PresetStep

\* Watches deliver, passes are repeated by requeue and resync, an outage ends, and
\* Flux and the garbage collector do their work.
Fairness ==
    /\ \A k \in Kinds : WF_vars(Deliver(k))
    /\ \A c \in Clusters :
        /\ WF_vars(reconcileCluster(c) \/ ensureOwnerReferences(c))
        /\ WF_vars(ClusterFinalizer(c))
        /\ WF_vars(ClusterEnsureCreated(c))
        /\ WF_vars(deletePlugins(c) \/ deleteClusterRoleBindingInRemoteCluster(c))
        /\ WF_vars(CollectSecret(c)) /\ WF_vars(Recover(c))
    /\ \A p \in Plugins :
        /\ WF_vars(PluginFinalizer(p) \/ ensureHelmRelease(p) \/ EnsureFluxSuspended(p) \/ EnsureFluxDeleted(p))
        /\ WF_vars(Install(p)) /\ WF_vars(Uninstall(p))
        /\ WF_vars(CollectPlugin(p))
    /\ WF_vars(PresetStep)

Spec == Init /\ [][Next]_vars
FairSpec == Spec /\ Fairness

-----------------------------------------------------------------------------
(* Properties. *)

Releases == {"absent", "active", "suspended", "deleting", "deletingSuspended"}

\* The objects of the API server and of the cache.
ClusterObject == [stage : Stages, uid : 0 .. MaxUid, match : BOOLEAN, valid : {"Unknown", "True", "False"}]
SecretObject  == [exists : BOOLEAN, owner : 0 .. MaxUid]
PluginObject  == [stage : Stages, managed : BOOLEAN, owned : BOOLEAN]
PresetObject  == [stage : Stages, policy : Policies \cup {"none"}]

Objects ==
    [cluster : [Clusters -> ClusterObject], secret : [Clusters -> SecretObject],
     plugin  : [Plugins -> PluginObject],   preset : PresetObject,
     release : [Plugins -> Releases]]

TypeOK ==
    /\ server \in Objects /\ cache \in Objects
    /\ remote \in [Clusters -> SUBSET Bootstrap]
    /\ installed \subseteq Plugins /\ late \subseteq Plugins /\ cutShort \subseteq Clusters
    /\ reachable \subseteq Clusters /\ boot \subseteq Clusters /\ closing \subseteq Clusters
    /\ suspending \subseteq Plugins
    /\ presetPass \in [pc : {"idle", "check"} \cup Clusters, todo : SUBSET Clusters]
    /\ edits \in 0 .. MaxEdits /\ outages \in 0 .. MaxOutages /\ restarts \in 0 .. MaxRestarts

\* A HelmRelease is there only while its Plugin has the finalizer, so that no Plugin can
\* leave one behind; it is deleted only while the Plugin is and, if the policy is
\* Retain, only suspended: whatever comes between the call that suspends it and the call
\* that deletes it (plugin_controller_flux.go:43-50), be it a restart, nothing resumes it.
ReleaseFollowsPlugin ==
    \A p \in Plugins :
        /\ server.release[p] # "absent" => server.plugin[p].stage \in {"live", "deleting"}
        /\ server.release[p] \in {"deleting", "deletingSuspended"} => server.plugin[p].stage = "deleting"
        /\ p \in RetainPlugins => server.release[p] # "deleting"
        /\ p \notin RetainPlugins => server.release[p] \in {"absent", "active", "deleting"}
        /\ p \in suspending =>
              /\ p \in RetainPlugins /\ server.plugin[p].stage = "deleting"
              /\ server.release[p] # "active"

HubSafe == TypeOK /\ ReleaseFollowsPlugin

\* Once a Cluster is gone, the Helm releases of the Plugins it had are uninstalled,
\* unless the policy was to retain them: the access was kept as long as Flux needed
\* it.  A Plugin that was created while the Cluster was being deleted is too late, and a
\* Cluster that a pass of its deletion finds with KubeConfigValid False waits for nothing
\* (cluster_controller.go:282); no other outage and no failing call makes a difference.
OffboardingUninstalls ==
    \A c \in Clusters \ cutShort : server.cluster[c].stage = "absent" =>
        {p \in installed : clusterOf(p) = c} \subseteq RetainPlugins \cup late

\* A Plugin keeps its finalizer until Flux has uninstalled its Helm release, unless
\* the Cluster has gone before it: then Flux has no way to.
PluginWaitsForUninstall ==
    \A p \in installed : server.plugin[p].stage = "absent" =>
        p \in RetainPlugins \cup late \/ clusterOf(p) \in cutShort

\* The Helm release of a Plugin with deletion policy Retain is never uninstalled.
RetainedReleaseStays == [][installed \cap RetainPlugins \subseteq installed']_vars

\* A Cluster that is offboarded goes away, through outages and stale reads, while
\* the PluginPreset goes on to create Plugins for the clusters it matches.
OffboardingCompletes ==
    \A c \in Clusters : (server.cluster[c].stage = "deleting") ~> (server.cluster[c].stage # "deleting")

\* With deletion policy Retain the PluginPreset takes no Plugin away from a cluster
\* that, as far as it can see, stays and matches: neither itself nor by the garbage
\* collector once it is gone.
RetainKeepsPlugins ==
    [][ \A p \in Plugins :
            /\ server.plugin[p].managed /\ server.plugin[p].stage = "live"
            /\ server'.plugin[p].stage # "live"
            => LET c == Seen("cluster")[clusterOf(p)]
               IN  c.stage # "live" \/ ~c.match \/ server.preset.policy # "Retain" ]_vars

\* What the PluginPreset asks for.
Wanted == {generatePluginName(c) : c \in {d \in Clusters :
              server.cluster[d].stage = "live" /\ server.cluster[d].match}}

\* If the clusters stay, once nothing changes any more a live PluginPreset has
\* exactly the Plugins it asks for and they are installed, although passes read
\* outdated lists, lose races with edits and deletions and a cluster may not answer
\* for a while; a deleted one with policy Delete has none and is gone.
PresetConverges ==
    <>[] LET managed == {p \in Plugins : server.plugin[p].managed}
         IN  (\A c \in Clusters : server.cluster[c].stage = "live" \/ server.cluster[c].uid = 0) =>
             /\ server.preset.stage = "live" => managed = Wanted /\ Wanted \subseteq installed
             /\ server.preset.stage = "absent" /\ server.preset.policy = "Delete" => managed = {}
             /\ server.preset.stage \notin {"new", "deleting", "deleted"}
=============================================================================
