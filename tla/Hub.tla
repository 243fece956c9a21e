-------------------------------- MODULE Hub --------------------------------
(***************************************************************************)
(* The central cluster as the controllers of clusters and plugins see it:  *)
(* the objects in its API server, the informer cache they read from, users *)
(* and the garbage collector.  ClusterController, PluginController and     *)
(* PluginPresetController work on this state, Offboarding composes them.   *)
(*                                                                         *)
(* Stages of an object that pkg/lifecycle reconciles: "absent", "new"      *)
(* without the cleanup finalizer, "live" with it, "deleting" with the      *)
(* deletion timestamp, "deleted" with the Deleted condition as well.       *)
(***************************************************************************)
EXTENDS Naturals, FiniteSets

CONSTANTS
    Clusters,       \* names of clusters
    Leaving,        \* the clusters that users offboard
    UserPlugins,    \* the Plugins that users create themselves
    RetainPlugins,  \* the Plugins with deletion policy Retain
    Policies,       \* the deletion policies users choose for the PluginPreset
    Lagging,        \* the kinds of which the cache may be behind
    MaxUid,         \* how often a Cluster of one name can be created
    MaxEdits,       \* creations, deletions and changes by users
    MaxOutages,     \* times a cluster cannot be reached or a call fails
    MaxRestarts     \* restarts of the operator

Kinds == {"cluster", "secret", "plugin", "preset", "release"}

\* One Plugin of the PluginPreset and one of a user for each cluster.
Plugins == {"preset", "user"} \X Clusters
clusterOf(p) == p[2]
generatePluginName(c) == <<"preset", c>>

\* A pass of the PluginPreset controller is at "idle", at "check" or at a cluster.
ASSUME HubAssumption ==
    /\ {"idle", "check"} \cap Clusters = {}
    /\ Leaving \subseteq Clusters
    /\ UserPlugins \subseteq Plugins /\ RetainPlugins \subseteq Plugins
    /\ Policies # {} /\ Policies \subseteq {"Delete", "Retain"}
    /\ Lagging \subseteq Kinds
    /\ {MaxUid, MaxEdits, MaxOutages, MaxRestarts} \subseteq Nat

VARIABLES
    server,     \* the objects in the API server, by kind
    cache,      \* the objects in the informer cache, by kind
    remote,     \* remote[c]: what Greenhouse has set up in cluster c
    installed,  \* the Plugins whose Helm release is installed in their cluster
    reachable,  \* the clusters that answer
    boot,       \* the bootstrap passes between their two halves
    closing,    \* the clusters whose pass has found no Plugin to delete
    suspending, \* the Plugins whose pass has suspended the HelmRelease and is to delete it
    presetPass, \* the pass of the PluginPreset controller
    late,       \* history: the Plugins created for a cluster that was being deleted
    cutShort,   \* history: the clusters whose deletion has waited for nothing
    edits, outages, restarts

passes == <<boot, closing, suspending, presetPass>>
history == <<late, cutShort>>
counts == <<edits, outages, restarts>>
vars   == <<server, cache, remote, installed, reachable, passes, history, counts>>

Stages == {"absent", "new", "live", "deleting", "deleted"}

NoPlugin  == [stage |-> "absent", managed |-> FALSE, owned |-> FALSE]
NoSecret  == [exists |-> FALSE, owner |-> 0]
IdlePass  == [pc |-> "idle", todo |-> {}]
Bootstrap == {"clusterRoleBinding", "namespace", "serviceAccount"}

Empty ==
    [cluster |-> [c \in Clusters |-> [stage |-> "absent", uid |-> 0, match |-> TRUE, valid |-> "Unknown"]],
     secret  |-> [c \in Clusters |-> NoSecret],
     plugin  |-> [p \in Plugins |-> NoPlugin],
     preset  |-> [stage |-> "absent", policy |-> "none"],
     release |-> [p \in Plugins |-> "absent"]]

Init ==
    /\ server = Empty /\ cache = Empty
    /\ remote = [c \in Clusters |-> {}] /\ installed = {} /\ reachable = Clusters
    /\ boot = {} /\ closing = {} /\ suspending = {} /\ presetPass = IdlePass
    /\ late = {} /\ cutShort = {}
    /\ edits = 0 /\ outages = 0 /\ restarts = 0

\* What a controller reads.
Seen(kind) == IF kind \in Lagging THEN cache[kind] ELSE server[kind]

-----------------------------------------------------------------------------
(* The API server. *)

Deleting(stage) == CASE stage = "new" -> "absent" [] stage = "live" -> "deleting" [] OTHER -> stage

PutCluster(c, v) == server' = [server EXCEPT !.cluster[c] = v]
PutSecret(c, v)  == server' = [server EXCEPT !.secret[c] = v]
PutPreset(v)     == server' = [server EXCEPT !.preset = v]

AfterDelete(p) ==
    LET stage == Deleting(server.plugin[p].stage)
    IN  IF stage = "absent" THEN NoPlugin ELSE [server.plugin[p] EXCEPT !.stage = stage]

\* The plugins after a Delete call for each of some of them.
DeletedPlugins(ps) == [p \in Plugins |-> IF p \in ps THEN AfterDelete(p) ELSE server.plugin[p]]

\* Flux has a finalizer on its HelmReleases.
DeletedRelease(r) ==
    CASE r = "active" -> "deleting" [] r = "suspended" -> "deletingSuspended" [] OTHER -> r

\* validatePluginForCluster: the Cluster must exist, be it about to be deleted.
CreatePlugin(p, managed) ==
    /\ server.plugin[p].stage = "absent"
    /\ Seen("cluster")[clusterOf(p)].stage # "absent"
    /\ server' = [server EXCEPT !.plugin[p] = [stage |-> "new", managed |-> managed, owned |-> managed]]
    /\ late' = IF server.cluster[clusterOf(p)].stage \in {"new", "live"} THEN late \ {p} ELSE late \cup {p}
    /\ UNCHANGED cutShort

\* The garbage collector: the Secret goes with the Cluster that owns it, a Plugin
\* with its PluginPreset.  A HelmRelease is owned by its Plugin, too, but is always
\* deleted before it (EnsureFluxDeleted).
CollectSecret(c) ==
    /\ server.secret[c].owner # 0
    /\ \/ server.cluster[c].stage = "absent"
       \/ server.cluster[c].uid # server.secret[c].owner
    /\ PutSecret(c, NoSecret)
    /\ UNCHANGED <<cache, remote, installed, reachable, passes, history, counts>>

CollectPlugin(p) ==
    /\ server.plugin[p].owned /\ server.plugin[p].stage \in {"new", "live"}
    /\ server.preset.stage = "absent"
    /\ server' = [server EXCEPT !.plugin = DeletedPlugins({p})]
    /\ UNCHANGED <<cache, remote, installed, reachable, passes, history, counts>>

-----------------------------------------------------------------------------
(* The cache and the operator's process. *)

Deliver(kind) ==
    /\ kind \in Lagging
    /\ cache[kind] # server[kind]
    /\ cache' = [cache EXCEPT ![kind] = server[kind]]
    /\ UNCHANGED <<server, remote, installed, reachable, passes, history, counts>>

Restart ==
    /\ restarts < MaxRestarts
    /\ restarts' = restarts + 1
    /\ cache' = [k \in Kinds |-> IF k \in Lagging THEN server[k] ELSE cache[k]]
    /\ boot' = {} /\ closing' = {} /\ suspending' = {} /\ presetPass' = IdlePass
    /\ UNCHANGED <<server, remote, installed, reachable, history, edits, outages>>

-----------------------------------------------------------------------------
(* Users and the clusters. *)

Edit ==
    /\ edits < MaxEdits
    /\ edits' = edits + 1
    /\ UNCHANGED <<cache, remote, installed, reachable, passes, outages, restarts>>

\* A cluster is onboarded by the Secret with its kubeconfig.
Onboard(c) ==
    /\ Edit /\ UNCHANGED history
    /\ server.cluster[c] = Empty.cluster[c] /\ ~server.secret[c].exists
    /\ PutSecret(c, [exists |-> TRUE, owner |-> 0])

Offboard(c) ==
    /\ Edit /\ UNCHANGED history
    /\ c \in Leaving /\ server.cluster[c].stage \in {"new", "live"}
    /\ PutCluster(c, [server.cluster[c] EXCEPT !.stage = Deleting(@)])

Relabel(c) ==
    /\ Edit /\ UNCHANGED history
    /\ server.cluster[c].stage = "live"
    /\ PutCluster(c, [server.cluster[c] EXCEPT !.match = ~@])

UserCreatesPlugin(p) == p \in UserPlugins /\ Edit /\ CreatePlugin(p, FALSE)

CreatePreset ==
    /\ Edit /\ UNCHANGED history
    /\ server.preset.policy = "none"
    /\ \E policy \in Policies : PutPreset([stage |-> "new", policy |-> policy])

DeletePreset ==
    /\ Edit /\ UNCHANGED history
    /\ server.preset.stage \in {"new", "live"}
    /\ PutPreset([server.preset EXCEPT !.stage = Deleting(@)])

Outage(c) ==
    /\ c \in reachable /\ outages < MaxOutages
    /\ outages' = outages + 1
    /\ reachable' = reachable \ {c}
    /\ UNCHANGED <<server, cache, remote, installed, passes, history, edits, restarts>>

Recover(c) ==
    /\ c \notin reachable
    /\ reachable' = reachable \cup {c}
    /\ UNCHANGED <<server, cache, remote, installed, passes, history, counts>>

HubNext ==
    \/ \E c \in Clusters : \/ CollectSecret(c) \/ Onboard(c) \/ Offboard(c) \/ Relabel(c)
                           \/ Outage(c) \/ Recover(c)
    \/ \E p \in Plugins : CollectPlugin(p) \/ UserCreatesPlugin(p)
    \/ \E k \in Kinds : Deliver(k)
    \/ CreatePreset \/ DeletePreset \/ Restart
=============================================================================
