-------------------------- MODULE OffboardingProofs --------------------------
(***************************************************************************)
(* What Offboarding promises for every number of clusters, Plugins, edits, *)
(* outages, failing calls and restarts.  Each write to the API server is   *)
(* first reduced to what it changes (the lemmas named ...Written and       *)
(* ...Effect); three inductive invariants are then shown action by action: *)
(*   ReleaseFollowsPlugin           a HelmRelease has a Plugin behind it;  *)
(*   PresetInv                      what a PluginPreset that is gone owns; *)
(*   ClusterInv and PluginsInTime   a Cluster keeps its access until the   *)
(*                                  Plugins it had are gone.               *)
(***************************************************************************)
EXTENDS Offboarding, TLAPS

\* The history variables are changed one at a time.
USE DEF history

\* What is read of these kinds is never outdated.
Fresh(kinds) == kinds \cap Lagging = {}

\* There is one Cluster of each name, and the cache is behind the API server.
UsedOnce ==
    \A c \in Clusters :
        /\ server.cluster[c].stage # "absent" => server.cluster[c].uid = 1
        /\ cache.cluster[c].stage # "absent" => cache.cluster[c].uid = 1 /\ server.cluster[c].uid = 1
        /\ cache.cluster[c].stage = "live" => server.cluster[c].stage # "new"
        /\ cache.cluster[c].stage \in {"deleting", "deleted"} =>
               server.cluster[c].stage \in {"deleting", "deleted", "absent"}

\* The Secret stays as long as the Cluster, and the cache shows one that is gone only
\* after the Cluster was there.
AccessKept ==
    \A c \in Clusters :
        /\ server.cluster[c].stage # "absent" => server.secret[c].exists
        /\ server.secret[c].owner # 0 => server.secret[c].owner = 1 /\ server.cluster[c].uid = 1
        /\ cache.secret[c].exists => server.secret[c].exists \/ server.cluster[c].uid = 1

\* The Cluster is being deleted or gone.
Left(c) == server.cluster[c].stage \in {"deleting", "deleted", "absent"} /\ server.cluster[c].uid = 1

\* The Cluster went before it got the finalizer: nothing was set up in it.
NeverLive(c) ==
    server.cluster[c].stage = "absent" /\ cache.cluster[c].stage \in {"absent", "new"} /\ remote[c] = {}

\* A Plugin that is not late has a Cluster that cannot go before it, and so has the
\* Helm release of one that is not retained, as long as the deletion of the Cluster is
\* not cut short.
PluginsInTime ==
    /\ \A c \in Clusters : server.cluster[c].stage = "new" \/ server.cluster[c].uid = 0 => remote[c] = {}
    /\ \A p \in Plugins :
        /\ clusterOf(p) \in closing => Left(clusterOf(p)) /\ (server.plugin[p].stage # "absent" => p \in late)
        /\ p \in late => Left(clusterOf(p))
        /\ p \notin late /\ clusterOf(p) \notin cutShort /\ server.plugin[p].stage # "absent" =>
              server.cluster[clusterOf(p)].stage \in {"new", "live", "deleting"} \/ NeverLive(clusterOf(p))
        /\ p \in installed \ (RetainPlugins \cup late) /\ clusterOf(p) \notin cutShort =>
              server.release[p] # "absent" /\ server.cluster[clusterOf(p)].stage \in {"live", "deleting"}

\* The deletion policy of the PluginPreset does not change.
PolicyFixed ==
    /\ server.preset.stage # "absent" => server.preset.policy # "none"
    /\ cache.preset.stage # "absent" => cache.preset.policy = server.preset.policy /\ cache.preset.policy # "none"

\* A PluginPreset that is not yet or no longer at work and retains its Plugins owns
\* none, and no pass is under way or will begin that could adopt one.
NothingOwned ==
    /\ \A p \in Plugins : server.plugin[p].owned =>
          server.plugin[p].managed /\ server.plugin[p].stage # "absent"
    /\ server.preset.stage \in {"absent", "new", "deleted"} /\ server.preset.policy # "Delete" =>
          /\ \A p \in Plugins : ~server.plugin[p].owned
          /\ presetPass.pc = "idle"
          /\ Seen("preset").stage # "live"

-----------------------------------------------------------------------------
(* What a write to the API server changes. *)

\* Everything but the objects of the given kinds is as before.
Keeps(kinds) == \A k \in Kinds \ kinds : server'[k] = server[k]

\* A write to one Cluster leaves the others, and the other kinds, alone.
LEMMA ClusterWritten ==
    ASSUME server \in Objects, NEW c \in Clusters, NEW v \in ClusterObject, PutCluster(c, v)
    PROVE  server' \in Objects /\ server'.cluster = [server.cluster EXCEPT ![c] = v] /\ Keeps({"cluster"})
  BY DEF PutCluster, Objects, Keeps, Kinds

\* The same for a Secret,
LEMMA SecretWritten ==
    ASSUME server \in Objects, NEW c \in Clusters, NEW v \in SecretObject, PutSecret(c, v)
    PROVE  server' \in Objects /\ server'.secret = [server.secret EXCEPT ![c] = v] /\ Keeps({"secret"})
  BY DEF PutSecret, Objects, Keeps, Kinds

\* for the PluginPreset,
LEMMA PresetWritten ==
    ASSUME server \in Objects, NEW v \in PresetObject, PutPreset(v)
    PROVE  server' \in Objects /\ server'.preset = v /\ Keeps({"preset"})
  BY DEF PutPreset, Objects, Keeps, Kinds

\* for all Plugins at once,
LEMMA PluginsWritten ==
    ASSUME server \in Objects, NEW f \in [Plugins -> PluginObject], server' = [server EXCEPT !.plugin = f]
    PROVE  server' \in Objects /\ server'.plugin = f /\ Keeps({"plugin"})
  BY DEF Objects, Keeps, Kinds

\* for one Plugin,
LEMMA PluginWritten ==
    ASSUME server \in Objects, NEW p \in Plugins, NEW v \in PluginObject,
           server' = [server EXCEPT !.plugin[p] = v]
    PROVE  server' \in Objects /\ server'.plugin = [server.plugin EXCEPT ![p] = v] /\ Keeps({"plugin"})
  BY DEF Objects, Keeps, Kinds

\* and for a HelmRelease.
LEMMA ReleaseWritten ==
    ASSUME server \in Objects, NEW p \in Plugins, NEW r \in Releases,
           server' = [server EXCEPT !.release[p] = r]
    PROVE  server' \in Objects /\ server'.release = [server.release EXCEPT ![p] = r] /\ Keeps({"release"})
  BY DEF Objects, Keeps, Kinds

\* What is read has its type, be it from the cache or the API server.
LEMMA SeenObjects ==
    ASSUME server \in Objects, cache \in Objects
    PROVE  /\ Seen("cluster") \in [Clusters -> ClusterObject] /\ Seen("secret") \in [Clusters -> SecretObject]
           /\ Seen("plugin") \in [Plugins -> PluginObject] /\ Seen("preset") \in PresetObject
           /\ Seen("release") \in [Plugins -> Releases]
  BY DEF Seen, Objects

\* What a Delete call does to a Plugin, by the stage it is in.
LEMMA Deletion ==
    ASSUME server \in Objects, NEW p \in Plugins
    PROVE  /\ AfterDelete(p) \in PluginObject
           /\ server.plugin[p].stage \in {"absent", "new"} => AfterDelete(p) = NoPlugin
           /\ server.plugin[p].stage = "live" => AfterDelete(p) = [server.plugin[p] EXCEPT !.stage = "deleting"]
           /\ server.plugin[p].stage \in {"deleting", "deleted"} => AfterDelete(p) = server.plugin[p]
<1>1. server.plugin[p] \in PluginObject
  BY DEF Objects
<1> QED
  BY <1>1 DEF AfterDelete, Deleting, NoPlugin, PluginObject, Stages

\* Plugins after Delete calls are Plugins.
LEMMA DeletionTyped ==
    ASSUME server \in Objects, NEW ps
    PROVE  DeletedPlugins(ps) \in [Plugins -> PluginObject]
<1>1. \A p \in Plugins : AfterDelete(p) \in PluginObject
  BY Deletion
<1> QED
  BY <1>1 DEF DeletedPlugins, Objects

-----------------------------------------------------------------------------
(* What each action does to the objects. *)

\* The garbage collector takes a Secret.
LEMMA CollectSecretEffect ==
    ASSUME server \in Objects, NEW c \in Clusters, CollectSecret(c)
    PROVE  server' \in Objects /\ Keeps({"secret"}) /\ server'.secret = [server.secret EXCEPT ![c] = NoSecret]
<1>1. NoSecret \in SecretObject
  BY HubAssumption DEF NoSecret, SecretObject
<1> QED
  BY <1>1, SecretWritten DEF CollectSecret

\* A user provides a Secret that has no owner.
LEMMA OnboardEffect ==
    ASSUME server \in Objects, NEW c \in Clusters, Onboard(c)
    PROVE  /\ server' \in Objects /\ Keeps({"secret"})
           /\ server'.secret = [server.secret EXCEPT ![c] = [exists |-> TRUE, owner |-> 0]]
<1>1. [exists |-> TRUE, owner |-> 0] \in SecretObject
  BY HubAssumption DEF SecretObject
<1> QED
  BY <1>1, SecretWritten DEF Onboard

\* A user deletes a Cluster.
LEMMA OffboardEffect ==
    ASSUME server \in Objects, NEW c \in Clusters, Offboard(c)
    PROVE  /\ server' \in Objects /\ Keeps({"cluster"})
           /\ server'.cluster = [server.cluster EXCEPT ![c] =
                    [server.cluster[c] EXCEPT !.stage = Deleting(server.cluster[c].stage)]]
<1> DEFINE v == [server.cluster[c] EXCEPT !.stage = Deleting(server.cluster[c].stage)]
<1>1. server.cluster[c] \in ClusterObject /\ PutCluster(c, v)
  BY DEF Objects, Offboard
<1>2. v \in ClusterObject
  BY <1>1 DEF ClusterObject, Stages, Deleting
<1> QED
  BY <1>1, <1>2, ClusterWritten

\* A user changes whether a Cluster is selected.
LEMMA RelabelEffect ==
    ASSUME server \in Objects, NEW c \in Clusters, Relabel(c)
    PROVE  /\ server' \in Objects /\ Keeps({"cluster"})
           /\ server'.cluster = [server.cluster EXCEPT ![c] =
                    [server.cluster[c] EXCEPT !.match = ~server.cluster[c].match]]
<1> DEFINE v == [server.cluster[c] EXCEPT !.match = ~server.cluster[c].match]
<1>1. server.cluster[c] \in ClusterObject /\ PutCluster(c, v)
  BY DEF Objects, Relabel
<1>2. v \in ClusterObject
  BY <1>1 DEF ClusterObject
<1> QED
  BY <1>1, <1>2, ClusterWritten

\* The garbage collector deletes a Plugin.
LEMMA CollectPluginEffect ==
    ASSUME server \in Objects, NEW p \in Plugins, CollectPlugin(p)
    PROVE  server' \in Objects /\ Keeps({"plugin"}) /\ server'.plugin = DeletedPlugins({p})
  BY DeletionTyped, PluginsWritten DEF CollectPlugin

\* A Plugin is created, by a user or for the PluginPreset.
LEMMA CreatePluginEffect ==
    ASSUME server \in Objects, NEW p \in Plugins, NEW managed \in BOOLEAN, CreatePlugin(p, managed)
    PROVE  /\ server' \in Objects /\ Keeps({"plugin"})
           /\ server'.plugin = [server.plugin EXCEPT ![p] = [stage |-> "new", managed |-> managed, owned |-> managed]]
<1> DEFINE v == [stage |-> "new", managed |-> managed, owned |-> managed]
<1>1. v \in PluginObject /\ server' = [server EXCEPT !.plugin[p] = v]
  BY DEF PluginObject, Stages, CreatePlugin
<1> QED
  BY <1>1, PluginWritten

\* A user creates the PluginPreset.
LEMMA CreatePresetEffect ==
    ASSUME server \in Objects, CreatePreset
    PROVE  /\ server' \in Objects /\ Keeps({"preset"})
           /\ \E policy \in Policies : server'.preset = [stage |-> "new", policy |-> policy]
<1>1. PICK policy \in Policies : PutPreset([stage |-> "new", policy |-> policy])
  BY DEF CreatePreset
<1>2. [stage |-> "new", policy |-> policy] \in PresetObject
  BY DEF PresetObject, Stages
<1> QED
  BY <1>1, <1>2, PresetWritten

\* A user deletes it.
LEMMA DeletePresetEffect ==
    ASSUME server \in Objects, DeletePreset
    PROVE  /\ server' \in Objects /\ Keeps({"preset"})
           /\ server'.preset = [server.preset EXCEPT !.stage = Deleting(server.preset.stage)]
<1> DEFINE v == [server.preset EXCEPT !.stage = Deleting(server.preset.stage)]
<1>1. server.preset \in PresetObject /\ PutPreset(v)
  BY DEF Objects, DeletePreset
<1>2. v \in PresetObject
  BY <1>1 DEF PresetObject, Stages, Deleting
<1> QED
  BY <1>1, <1>2, PresetWritten

\* A Cluster that does not exist.
LEMMA NewCluster ==
    ASSUME NEW c \in Clusters
    PROVE  Empty.cluster[c] \in ClusterObject /\ Empty.cluster[c].stage = "absent" /\ Empty.cluster[c].valid = "Unknown"
<1> DEFINE e == [stage |-> "absent", uid |-> 0, match |-> TRUE, valid |-> "Unknown"]
<1>1. e \in ClusterObject /\ e.stage = "absent" /\ e.valid = "Unknown"
  BY HubAssumption DEF ClusterObject, Stages
<1>2. Empty.cluster[c] = e
  BY DEF Empty
<1> QED
  BY <1>1, <1>2

\* The bootstrap controller creates a Cluster.
LEMMA CreateClusterEffect ==
    ASSUME server \in Objects, NEW c \in Clusters, server.cluster[c].uid + 1 <= MaxUid,
           PutCluster(c, [Empty.cluster[c] EXCEPT !.stage = "new", !.uid = server.cluster[c].uid + 1])
    PROVE  /\ server' \in Objects /\ Keeps({"cluster"})
           /\ \E v \in ClusterObject :
                /\ v.stage = "new" /\ v.uid = server.cluster[c].uid + 1 /\ v.valid = "Unknown"
                /\ server'.cluster = [server.cluster EXCEPT ![c] = v]
<1> DEFINE v == [Empty.cluster[c] EXCEPT !.stage = "new", !.uid = server.cluster[c].uid + 1]
<1>1. server.cluster[c].uid \in 0 .. MaxUid
  BY DEF Objects, ClusterObject
<1>2. server.cluster[c].uid + 1 \in 0 .. MaxUid
  BY <1>1, HubAssumption
<1>3. Empty.cluster[c] \in ClusterObject /\ Empty.cluster[c].valid = "Unknown"
  BY NewCluster
<1>4. v \in ClusterObject /\ v.stage = "new" /\ v.uid = server.cluster[c].uid + 1 /\ v.valid = "Unknown"
  BY <1>2, <1>3 DEF ClusterObject, Stages
<1> HIDE DEF v
<1>5. server' \in Objects /\ server'.cluster = [server.cluster EXCEPT ![c] = v] /\ Keeps({"cluster"})
  BY <1>4, ClusterWritten DEF v
<1> QED
  BY <1>4, <1>5

\* It makes the Cluster the owner of the Secret.
LEMMA ensureOwnerReferencesEffect ==
    ASSUME server \in Objects, cache \in Objects, NEW c \in Clusters, ensureOwnerReferences(c)
    PROVE  /\ server' \in Objects /\ Keeps({"secret"})
           /\ \/ server' = server
              \/ /\ Seen("cluster")[c].stage \in {"new", "live"} /\ server.secret[c].exists
                 /\ server'.secret = [server.secret EXCEPT ![c] = [exists |-> TRUE, owner |-> Seen("cluster")[c].uid]]
<1> DEFINE v == [exists |-> TRUE, owner |-> Seen("cluster")[c].uid]
<1>1. Seen("cluster")[c] \in ClusterObject
  BY SeenObjects
<1>2. v \in SecretObject
  BY <1>1 DEF SecretObject, ClusterObject
<1>3. CASE server' = server
  BY <1>3 DEF Keeps
<1>4. CASE /\ Seen("cluster")[c].stage \in {"new", "live"} /\ server.secret[c].exists
           /\ PutSecret(c, v)
  BY <1>4, <1>2, SecretWritten
<1> QED
  BY <1>3, <1>4 DEF ensureOwnerReferences

\* The finalizer of a Cluster is put on or taken off.
LEMMA ClusterFinalizerEffect ==
    ASSUME server \in Objects, NEW c \in Clusters, ClusterFinalizer(c)
    PROVE  /\ server' \in Objects /\ Keeps({"cluster"})
           /\ \E v \in ClusterObject :
                /\ server'.cluster = [server.cluster EXCEPT ![c] = v]
                /\ v.uid = server.cluster[c].uid
                /\ \/ server.cluster[c].stage = "new" /\ v.stage = "live" /\ v.valid = server.cluster[c].valid
                   \/ server.cluster[c].stage = "deleted" /\ v.stage = "absent" /\ v.valid = "Unknown"
<1> DEFINE s == server.cluster[c]
           v == [s EXCEPT !.stage = "live"]
           w == [Empty.cluster[c] EXCEPT !.uid = s.uid]
<1>1. s \in ClusterObject
  BY DEF Objects
<1>2. v \in ClusterObject /\ v.stage = "live" /\ v.uid = s.uid /\ v.valid = s.valid
  BY <1>1 DEF ClusterObject, Stages
<1>3. w \in ClusterObject /\ w.stage = "absent" /\ w.uid = s.uid /\ w.valid = "Unknown"
  <2>1. Empty.cluster[c] \in ClusterObject /\ Empty.cluster[c].stage = "absent" /\ Empty.cluster[c].valid = "Unknown"
    BY NewCluster
  <2> QED
    BY <1>1, <2>1 DEF ClusterObject
<1> HIDE DEF v, w
<1>4. CASE s.stage = "new" /\ PutCluster(c, v)
  BY <1>4, <1>2, ClusterWritten
<1>5. CASE s.stage = "deleted" /\ PutCluster(c, w)
  BY <1>5, <1>3, ClusterWritten
<1> QED
  BY <1>4, <1>5 DEF ClusterFinalizer, v, w

\* The condition of a Cluster says False only if the access does not work.
LEMMA setConditionsEffect ==
    ASSUME server \in Objects, NEW c \in Clusters, setConditions(c)
    PROVE  /\ server' \in Objects /\ Keeps({"cluster"})
           /\ \/ server' = server
              \/ \E valid \in {"True", "False"} :
                    /\ valid = "False" => ~(Seen("secret")[c].exists /\ c \in reachable)
                    /\ server.cluster[c].stage # "absent"
                    /\ server'.cluster = [server.cluster EXCEPT ![c] = [server.cluster[c] EXCEPT !.valid = valid]]
<1>1. server.cluster[c] \in ClusterObject
  BY DEF Objects
<1>2. \A x \in {"True", "False"} : [server.cluster[c] EXCEPT !.valid = x] \in ClusterObject
  BY <1>1 DEF ClusterObject
<1>3. CASE server' = server
  BY <1>3 DEF Keeps
<1>4. CASE /\ SameCluster(c) /\ Seen("secret")[c].exists /\ c \in reachable
           /\ PutCluster(c, [server.cluster[c] EXCEPT !.valid = "True"])
  BY <1>4, <1>2, ClusterWritten DEF SameCluster
<1>5. CASE /\ SameCluster(c) /\ ~(Seen("secret")[c].exists /\ c \in reachable)
           /\ PutCluster(c, [server.cluster[c] EXCEPT !.valid = "False"])
  BY <1>5, <1>2, ClusterWritten DEF SameCluster
<1> QED
  BY <1>3, <1>4, <1>5 DEF setConditions

\* The cleanup of a Cluster is recorded.
LEMMA ClusterDeletedEffect ==
    ASSUME server \in Objects, NEW c \in Clusters, ClusterDeleted(c)
    PROVE  /\ server' \in Objects /\ Keeps({"cluster"})
           /\ \/ server' = server
              \/ /\ server.cluster[c].stage = "deleting"
                 /\ server'.cluster = [server.cluster EXCEPT ![c] = [server.cluster[c] EXCEPT !.stage = "deleted"]]
<1> DEFINE v == [server.cluster[c] EXCEPT !.stage = "deleted"]
<1>1. server.cluster[c] \in ClusterObject
  BY DEF Objects
<1>2. v \in ClusterObject
  BY <1>1 DEF ClusterObject, Stages
<1>3. CASE server' = server
  BY <1>3 DEF Keeps
<1>4. CASE server.cluster[c].stage = "deleting" /\ PutCluster(c, v)
  BY <1>4, <1>2, ClusterWritten
<1> QED
  BY <1>3, <1>4 DEF ClusterDeleted

\* The finalizer of a Plugin is put on or taken off.
LEMMA PluginFinalizerEffect ==
    ASSUME server \in Objects, NEW p \in Plugins, PluginFinalizer(p)
    PROVE  /\ server' \in Objects /\ Keeps({"plugin"})
           /\ \/ /\ server.plugin[p].stage = "new"
                 /\ server'.plugin = [server.plugin EXCEPT ![p] = [server.plugin[p] EXCEPT !.stage = "live"]]
              \/ /\ server.plugin[p].stage = "deleted"
                 /\ server'.plugin = [server.plugin EXCEPT ![p] = NoPlugin]
<1> DEFINE v == [server.plugin[p] EXCEPT !.stage = "live"]
<1>1. v \in PluginObject /\ NoPlugin \in PluginObject
  BY DEF Objects, PluginObject, Stages, NoPlugin
<1>2. CASE server.plugin[p].stage = "new" /\ server' = [server EXCEPT !.plugin[p].stage = "live"]
  <2>1. server' = [server EXCEPT !.plugin[p] = v]
    BY <1>2 DEF Objects
  <2> QED
    BY <2>1, <1>1, <1>2, PluginWritten
<1>3. CASE server.plugin[p].stage = "deleted" /\ server' = [server EXCEPT !.plugin[p] = NoPlugin]
  BY <1>3, <1>1, PluginWritten
<1> QED
  BY <1>2, <1>3 DEF PluginFinalizer

\* A HelmRelease is created or resumed.
LEMMA ensureHelmReleaseEffect ==
    ASSUME server \in Objects, NEW p \in Plugins, ensureHelmRelease(p)
    PROVE  /\ server' \in Objects /\ Keeps({"release"})
           /\ \E r \in Releases :
                /\ server'.release = [server.release EXCEPT ![p] = r]
                /\ \/ r = "active" /\ server.release[p] \in {"absent", "suspended"}
                   \/ r = "deleting" /\ server.release[p] = "deletingSuspended"
                   \/ r = server.release[p]
<1> DEFINE r0 == server.release[p]
           r1 == CASE r0 = "suspended" -> "active" [] r0 = "deletingSuspended" -> "deleting" [] OTHER -> r0
<1>1. r0 \in Releases
  BY DEF Objects
<1>2. r1 \in Releases /\ "active" \in Releases
  BY <1>1 DEF Releases
<1>3. CASE r0 = "absent" /\ server' = [server EXCEPT !.release[p] = "active"]
  BY <1>3, <1>2, ReleaseWritten
<1>4. CASE server' = [server EXCEPT !.release[p] = r1]
  <2>1. server' \in Objects /\ Keeps({"release"}) /\ server'.release = [server.release EXCEPT ![p] = r1]
    BY <1>4, <1>2, ReleaseWritten
  <2>2. \/ r1 = "active" /\ r0 = "suspended"
        \/ r1 = "deleting" /\ r0 = "deletingSuspended"
        \/ r1 = r0
    OBVIOUS
  <2> HIDE DEF r1
  <2> QED
    BY <2>1, <2>2, <1>2
<1> QED
  BY <1>3, <1>4 DEF ensureHelmRelease

\* A HelmRelease is suspended, if it is not, and is still there.
LEMMA EnsureFluxSuspendedEffect ==
    ASSUME server \in Objects, NEW p \in Plugins, EnsureFluxSuspended(p)
    PROVE  /\ server' \in Objects /\ Keeps({"release"})
           /\ \E r \in Releases :
                /\ server'.release = [server.release EXCEPT ![p] = r]
                /\ \/ r = server.release[p] /\ Seen("release")[p] \notin {"active", "deleting"}
                   \/ r = "suspended" /\ server.release[p] = "active"
                   \/ r = "deletingSuspended" /\ server.release[p] = "deleting"
<1>1. server.release \in [Plugins -> Releases]
  BY DEF Objects
<1>2. CASE UNCHANGED server /\ Seen("release")[p] \notin {"active", "deleting"}
  BY <1>1, <1>2 DEF Keeps
<1>3. ASSUME NEW r \in {"suspended", "deletingSuspended"}, server' = [server EXCEPT !.release[p] = r]
      PROVE  /\ server' \in Objects /\ Keeps({"release"})
             /\ r \in Releases /\ server'.release = [server.release EXCEPT ![p] = r]
  <2>1. r \in Releases
    BY DEF Releases
  <2> QED
    BY <1>3, <2>1, ReleaseWritten
<1> QED
  BY <1>2, <1>3 DEF EnsureFluxSuspended

\* A HelmRelease is deleted; the Plugin is done if none was read.
LEMMA EnsureFluxDeletedEffect ==
    ASSUME server \in Objects, NEW p \in Plugins, EnsureFluxDeleted(p)
    PROVE  /\ server' \in Objects /\ Keeps({"plugin", "release"})
           /\ \E r \in Releases : 
                /\ r = DeletedRelease(server.release[p])
                /\ server'.release = [server.release EXCEPT ![p] = r]
                /\ server.release[p] # "absent" => r # "absent"
           /\ \/ server'.plugin = server.plugin
              \/ /\ Seen("release")[p] = "absent" /\ server.plugin[p].stage = "deleting"
                 /\ server'.plugin = [server.plugin EXCEPT ![p] = [server.plugin[p] EXCEPT !.stage = "deleted"]]
<1> DEFINE seen == Seen("release")[p]
           r0 == server.release[p]
           st == IF seen = "absent" /\ server.plugin[p].stage = "deleting" THEN "deleted" ELSE server.plugin[p].stage
           r == DeletedRelease(r0)
           v == [server.plugin[p] EXCEPT !.stage = st]
<1>1. server' = [server EXCEPT !.release[p] = r, !.plugin[p].stage = st]
  BY DEF EnsureFluxDeleted
<1>2. server.plugin[p] \in PluginObject /\ r0 \in Releases
  BY DEF Objects
<1>3. v \in PluginObject
  BY <1>2 DEF PluginObject, Stages
<1>4. r \in Releases
  BY <1>2 DEF Releases, DeletedRelease
<1>5. r0 # "absent" => r # "absent"
  BY <1>2 DEF Releases, DeletedRelease
<1>6. \/ v = server.plugin[p]
      \/ seen = "absent" /\ server.plugin[p].stage = "deleting" /\ v = [server.plugin[p] EXCEPT !.stage = "deleted"]
  BY <1>2 DEF PluginObject
<1> HIDE DEF st, r
<1>7. /\ server'.release = [server.release EXCEPT ![p] = r] /\ server'.plugin = [server.plugin EXCEPT ![p] = v]
      /\ Keeps({"plugin", "release"})
  BY <1>1 DEF Objects, Keeps, Kinds
<1> HIDE DEF v
<1>8. server' \in Objects
  <2>1. server'.release \in [Plugins -> Releases] /\ server'.plugin \in [Plugins -> PluginObject]
    BY <1>7, <1>3, <1>4 DEF Objects
  <2> QED
    BY <1>1, <2>1 DEF Objects
<1>9. \/ server'.plugin = server.plugin
      \/ /\ Seen("release")[p] = "absent" /\ server.plugin[p].stage = "deleting"
         /\ server'.plugin = [server.plugin EXCEPT ![p] = [server.plugin[p] EXCEPT !.stage = "deleted"]]
  BY <1>6, <1>7 DEF Objects
<1>10. r = DeletedRelease(r0)
  BY DEF r
<1> QED
  BY <1>4, <1>5, <1>7, <1>8, <1>9, <1>10

\* Flux lets a HelmRelease go.
LEMMA UninstallEffect ==
    ASSUME server \in Objects, NEW p \in Plugins, Uninstall(p)
    PROVE  server' \in Objects /\ Keeps({"release"}) /\ server'.release = [server.release EXCEPT ![p] = "absent"]
<1>1. "absent" \in Releases
  BY DEF Releases
<1> QED
  BY <1>1, ReleaseWritten DEF Uninstall

\* The finalizer of the PluginPreset is put on or taken off.
LEMMA PresetFinalizerEffect ==
    ASSUME server \in Objects, PresetFinalizer
    PROVE  /\ server' \in Objects /\ Keeps({"preset"})
           /\ \/ /\ server.preset.stage = "new"
                 /\ server'.preset = [server.preset EXCEPT !.stage = "live"]
              \/ /\ server.preset.stage = "deleted"
                 /\ server'.preset = [server.preset EXCEPT !.stage = "absent"]
<1> DEFINE v(x) == [server.preset EXCEPT !.stage = x]
<1>1. server.preset \in PresetObject
  BY DEF Objects
<1>2. v("live") \in PresetObject /\ v("absent") \in PresetObject
  BY <1>1 DEF PresetObject, Stages
<1>3. CASE server.preset.stage = "new" /\ PutPreset(v("live"))
  BY <1>3, <1>2, PresetWritten
<1>4. CASE server.preset.stage = "deleted" /\ PutPreset(v("absent"))
  BY <1>4, <1>2, PresetWritten
<1> QED
  BY <1>3, <1>4 DEF PresetFinalizer

\* The PluginPreset has Plugins deleted,
LEMMA PresetEnsureCreatedEffect ==
    ASSUME server \in Objects, PresetEnsureCreated
    PROVE  /\ server' \in Objects /\ Keeps({"plugin"})
           /\ server'.plugin = DeletedPlugins(cleanupPlugins(listClusters))
  BY DeletionTyped, PluginsWritten DEF PresetEnsureCreated

\* adopts one,
LEMMA AdoptEffect ==
    ASSUME server \in Objects, NEW p \in Plugins,
           server' = [server EXCEPT !.plugin[p].managed = TRUE, !.plugin[p].owned = TRUE]
    PROVE  /\ server' \in Objects /\ Keeps({"plugin"})
           /\ \E v \in PluginObject :
                v.stage = server.plugin[p].stage /\ v.managed /\ server'.plugin = [server.plugin EXCEPT ![p] = v]
<1> DEFINE v == [[server.plugin[p] EXCEPT !.managed = TRUE] EXCEPT !.owned = TRUE]
<1>1. server.plugin[p] \in PluginObject
  BY DEF Objects
<1>2. v \in PluginObject /\ v.stage = server.plugin[p].stage /\ v.managed
  BY <1>1 DEF PluginObject
<1>3. server' = [server EXCEPT !.plugin[p] = v]
  BY DEF Objects
<1> HIDE DEF v
<1> QED
  BY <1>2, <1>3, PluginWritten

\* and, when it is deleted, gives up all or has all deleted.
LEMMA PresetEnsureDeletedEffect ==
    ASSUME server \in Objects, PresetEnsureDeleted
    PROVE  /\ server' \in Objects /\ Keeps({"plugin", "preset"})
           /\ \/ server'.preset = server.preset
              \/ /\ server.preset.stage = "deleting" 
                 /\ server'.preset = [server.preset EXCEPT !.stage = "deleted"]
           /\ Seen("preset").policy = "Retain" =>
                server'.plugin = [p \in Plugins |-> IF p \in listPlugins
                                                         THEN [server.plugin[p] EXCEPT !.owned = FALSE]
                                                         ELSE server.plugin[p]]
           /\ Seen("preset").policy # "Retain" => server'.plugin = DeletedPlugins(listPlugins)
<1> DEFINE f == [p \in Plugins |-> IF p \in listPlugins THEN [server.plugin[p] EXCEPT !.owned = FALSE]
                                                         ELSE server.plugin[p]]
           g == DeletedPlugins(listPlugins)
           a == \A p \in listPlugins : Seen("plugin")[p].owned => server.plugin[p].stage # "absent"
           b == listPlugins = {}
<1>1. \A p \in Plugins : server.plugin[p] \in PluginObject /\ [server.plugin[p] EXCEPT !.owned = FALSE] \in PluginObject
  BY DEF Objects, PluginObject
<1>2. f \in [Plugins -> PluginObject] /\ g \in [Plugins -> PluginObject]
  BY <1>1, DeletionTyped
<1>3. \A done : /\ PresetDone(done) \in PresetObject
                /\ \/ PresetDone(done) = server.preset
                   \/ server.preset.stage = "deleting" /\ PresetDone(done) = [server.preset EXCEPT !.stage = "deleted"]
  <2>1. server.preset \in PresetObject
    BY DEF Objects
  <2>2. [server.preset EXCEPT !.stage = "deleted"] \in PresetObject
    BY <2>1 DEF PresetObject, Stages
  <2> QED
    BY <2>1, <2>2 DEF PresetDone
<1>4. \/ Seen("preset").policy = "Retain" /\ server' = [server EXCEPT !.preset = PresetDone(a), !.plugin = f]
      \/ Seen("preset").policy # "Retain" /\ server' = [server EXCEPT !.preset = PresetDone(b), !.plugin = g]
  BY DEF PresetEnsureDeleted
<1> HIDE DEF f, g, a, b
<1>5. \A x \in PresetObject, y \in [Plugins -> PluginObject] :
        server' = [server EXCEPT !.preset = x, !.plugin = y] =>
            server' \in Objects /\ Keeps({"plugin", "preset"}) /\ server'.preset = x /\ server'.plugin = y
  BY DEF Objects, Keeps, Kinds
<1>6. CASE Seen("preset").policy = "Retain" /\ server' = [server EXCEPT !.preset = PresetDone(a), !.plugin = f]
  <2>1. server' \in Objects /\ Keeps({"plugin", "preset"}) /\ server'.preset = PresetDone(a) /\ server'.plugin = f
    BY <1>2, <1>3, <1>5, <1>6
  <2> QED
    BY <2>1, <1>3, <1>6 DEF f
<1>7. CASE Seen("preset").policy # "Retain" /\ server' = [server EXCEPT !.preset = PresetDone(b), !.plugin = g]
  <2>1. server' \in Objects /\ Keeps({"plugin", "preset"}) /\ server'.preset = PresetDone(b) /\ server'.plugin = g
    BY <1>2, <1>3, <1>5, <1>7
  <2> QED
    BY <2>1, <1>3, <1>7 DEF g
<1> QED
  BY <1>4, <1>6, <1>7

-----------------------------------------------------------------------------
(* Types. *)

\* The type invariant through a change by a user,
LEMMA TypesOfEdits ==
    ASSUME TypeOK, Edit, server' \in Objects, late' \subseteq Plugins, cutShort' = cutShort
    PROVE  TypeOK'
<1>1. edits' \in 0 .. MaxEdits
  BY HubAssumption DEF TypeOK, Edit
<1> QED
  BY <1>1 DEF TypeOK, Edit, passes

\* through the steps of users, the garbage collector and the cache,
LEMMA TypesOfHub ==
    ASSUME TypeOK, HubNext
    PROVE  TypeOK'
<1>0. server \in Objects /\ cache \in Objects
  BY DEF TypeOK
<1> USE HubAssumption
<1>1. ASSUME NEW c \in Clusters, CollectSecret(c) PROVE TypeOK'
  BY <1>0, <1>1, CollectSecretEffect DEF TypeOK, CollectSecret, passes, counts
<1>2. ASSUME NEW c \in Clusters, Onboard(c) PROVE TypeOK'
  BY <1>0, <1>2, OnboardEffect, TypesOfEdits DEF TypeOK, Onboard
<1>3. ASSUME NEW c \in Clusters, Offboard(c) PROVE TypeOK'
  BY <1>0, <1>3, OffboardEffect, TypesOfEdits DEF TypeOK, Offboard
<1>4. ASSUME NEW c \in Clusters, Relabel(c) PROVE TypeOK'
  BY <1>0, <1>4, RelabelEffect, TypesOfEdits DEF TypeOK, Relabel
<1>5. ASSUME NEW c \in Clusters, Outage(c) \/ Recover(c) PROVE TypeOK'
  BY <1>5 DEF TypeOK, Outage, Recover, passes, counts
<1>6. ASSUME NEW p \in Plugins, CollectPlugin(p) PROVE TypeOK'
  BY <1>0, <1>6, CollectPluginEffect DEF TypeOK, CollectPlugin, passes, counts
<1>7. ASSUME NEW p \in Plugins, UserCreatesPlugin(p) PROVE TypeOK'
  <2>1. server' \in Objects
    BY <1>0, <1>7, CreatePluginEffect DEF UserCreatesPlugin
  <2>2. late' \subseteq Plugins /\ cutShort' = cutShort
    BY <1>7 DEF UserCreatesPlugin, CreatePlugin, TypeOK
  <2> QED
    BY <1>7, <2>1, <2>2, TypesOfEdits DEF UserCreatesPlugin
<1>8. ASSUME NEW k \in Kinds, Deliver(k) PROVE TypeOK'
  <2>1. cache' \in Objects
    BY <1>0, <1>8 DEF Deliver, Objects, Kinds
  <2> QED
    BY <1>8, <2>1 DEF TypeOK, Deliver, passes, counts
<1>9. ASSUME CreatePreset PROVE TypeOK'
  BY <1>0, <1>9, CreatePresetEffect, TypesOfEdits DEF TypeOK, CreatePreset
<1>10. ASSUME DeletePreset PROVE TypeOK'
  BY <1>0, <1>10, DeletePresetEffect, TypesOfEdits DEF TypeOK, DeletePreset
<1>11. ASSUME Restart PROVE TypeOK'
  <2>1. cache' \in Objects
    BY <1>0, <1>11 DEF Restart, Objects, Kinds
  <2> QED
    BY <1>11, <2>1 DEF TypeOK, Restart, IdlePass
<1> QED
  BY <1>1, <1>2, <1>3, <1>4, <1>5, <1>6, <1>7, <1>8, <1>9, <1>10, <1>11 DEF HubNext

\* of the controllers of clusters,
LEMMA TypesOfClusters ==
    ASSUME TypeOK, ClusterNext
    PROVE  TypeOK'
<1>0. server \in Objects /\ cache \in Objects
  BY DEF TypeOK
<1> USE HubAssumption
<1>1. PICK c \in Clusters : ClusterStep(c) \/ ClusterEnsureCreatedFails(c)
  BY DEF ClusterNext
<1>2. CASE reconcileCluster(c)
  <2>1. server' \in Objects
    BY <1>0, <1>2, CreateClusterEffect DEF reconcileCluster
  <2> QED
    BY <1>2, <2>1 DEF TypeOK, reconcileCluster, counts
<1>3. CASE ensureOwnerReferences(c)
  BY <1>0, <1>3, ensureOwnerReferencesEffect DEF TypeOK, ensureOwnerReferences, counts
<1>4. CASE ClusterFinalizer(c)
  BY <1>0, <1>4, ClusterFinalizerEffect DEF TypeOK, ClusterFinalizer, passes, counts
<1>5. CASE ClusterEnsureCreated(c)
  BY <1>0, <1>5, setConditionsEffect DEF TypeOK, ClusterEnsureCreated, passes, counts
<1>6. CASE deletePlugins(c)
  <2>1. server' \in Objects
    BY <1>0, <1>6, ClusterDeletedEffect, DeletionTyped, PluginsWritten DEF deletePlugins
  <2> QED
    BY <1>6, <2>1 DEF TypeOK, deletePlugins, counts
<1>7. CASE deleteClusterRoleBindingInRemoteCluster(c)
  <2>1. server' \in Objects
    BY <1>0, <1>7, ClusterDeletedEffect DEF deleteClusterRoleBindingInRemoteCluster
  <2> QED
    BY <1>7, <2>1 DEF TypeOK, deleteClusterRoleBindingInRemoteCluster, counts
<1>8. CASE ClusterEnsureCreatedFails(c)
  <2>1. server' \in Objects
    BY <1>0, <1>8, setConditionsEffect DEF ClusterEnsureCreatedFails
  <2>2. remote' \in [Clusters -> SUBSET Bootstrap]
    BY <1>8 DEF TypeOK, ClusterEnsureCreatedFails, Bootstrap
  <2>3. outages' \in 0 .. MaxOutages
    BY <1>8 DEF TypeOK, ClusterEnsureCreatedFails
  <2> QED
    BY <1>8, <2>1, <2>2, <2>3 DEF TypeOK, ClusterEnsureCreatedFails, passes
<1> QED
  BY <1>1, <1>2, <1>3, <1>4, <1>5, <1>6, <1>7, <1>8 DEF ClusterStep

\* of the Plugin controller and Flux,
LEMMA TypesOfPlugins ==
    ASSUME TypeOK, PluginNext
    PROVE  TypeOK'
<1>0. server \in Objects /\ cache \in Objects
  BY DEF TypeOK
<1>1. PICK p \in Plugins : PluginStep(p)
  BY DEF PluginNext
<1>2. CASE PluginFinalizer(p)
  BY <1>0, <1>2, PluginFinalizerEffect DEF TypeOK, PluginFinalizer, passes, counts
<1>3. CASE ensureHelmRelease(p)
  BY <1>0, <1>3, ensureHelmReleaseEffect DEF TypeOK, ensureHelmRelease, passes, counts
<1>4. CASE EnsureFluxDeleted(p)
  BY <1>0, <1>4, EnsureFluxDeletedEffect DEF TypeOK, EnsureFluxDeleted, counts
<1>5. CASE Install(p)
  BY <1>5 DEF TypeOK, Install, passes, counts
<1>6. CASE Uninstall(p)
  BY <1>0, <1>6, UninstallEffect DEF TypeOK, Uninstall, passes, counts
<1>7. CASE EnsureFluxSuspended(p)
  BY <1>0, <1>7, EnsureFluxSuspendedEffect DEF TypeOK, EnsureFluxSuspended, counts
<1> QED
  BY <1>1, <1>2, <1>3, <1>4, <1>5, <1>6, <1>7 DEF PluginStep

\* and of the PluginPreset controller.
LEMMA TypesOfPresets ==
    ASSUME TypeOK, PresetStep
    PROVE  TypeOK'
<1>0. server \in Objects /\ cache \in Objects
  BY DEF TypeOK
<1>1. CASE PresetFinalizer
  BY <1>0, <1>1, PresetFinalizerEffect DEF TypeOK, PresetFinalizer, passes, counts
<1>2. CASE PresetEnsureCreated
  BY <1>0, <1>2, PresetEnsureCreatedEffect
     DEF TypeOK, PresetEnsureCreated, counts, FilterClustersBeingDeleted, listClusters
<1>3. CASE PresetEnsureDeleted
  BY <1>0, <1>3, PresetEnsureDeletedEffect DEF TypeOK, PresetEnsureDeleted, passes, counts
<1>4. CASE PassEnds
  BY <1>4 DEF TypeOK, PassEnds, IdlePass, counts
<1>5. ASSUME NEW c \in Clusters, isPluginManagedByPreset(c) PROVE TypeOK'
  BY <1>5 DEF TypeOK, isPluginManagedByPreset, counts
<1>6. ASSUME NEW c \in Clusters, reconcilePluginPreset(c) PROVE TypeOK'
  <2>1. generatePluginName(c) \in Plugins
    BY DEF generatePluginName, Plugins
  <2>2. server' \in Objects /\ late' \subseteq Plugins /\ cutShort' = cutShort
    <3>1. CASE CreatePlugin(generatePluginName(c), TRUE)
      BY <1>0, <2>1, <3>1, CreatePluginEffect DEF TypeOK, CreatePlugin
    <3>2. CASE server' = server /\ UNCHANGED history
      BY <3>2 DEF TypeOK
    <3>3. CASE UNCHANGED history /\ server' = [server EXCEPT !.plugin[generatePluginName(c)].managed = TRUE,
                                                              !.plugin[generatePluginName(c)].owned = TRUE]
      BY <1>0, <2>1, <3>3, AdoptEffect DEF TypeOK
    <3> QED
      BY <1>6, <3>1, <3>2, <3>3 DEF reconcilePluginPreset
  <2> QED
    BY <1>6, <2>2 DEF TypeOK, reconcilePluginPreset, counts
<1> QED
  BY <1>1, <1>2, <1>3, <1>4, <1>5, <1>6 DEF PresetStep

\* It holds at the beginning
LEMMA TypesInit == Init => TypeOK
<1> SUFFICES ASSUME Init PROVE TypeOK
  OBVIOUS
<1>1. \A c \in Clusters : Empty.cluster[c] \in ClusterObject
  BY NewCluster
<1>2. NoSecret \in SecretObject /\ NoPlugin \in PluginObject
  BY HubAssumption DEF NoSecret, SecretObject, NoPlugin, PluginObject, Stages
<1>3. [stage |-> "absent", policy |-> "none"] \in PresetObject
  BY DEF PresetObject, Stages
<1>4. "absent" \in Releases
  BY DEF Releases
<1>5. Empty \in Objects
  <2>1. Empty.cluster \in [Clusters -> ClusterObject]
    BY <1>1 DEF Empty
  <2> QED
    BY <1>2, <1>3, <1>4, <2>1 DEF Empty, Objects
<1> QED
  BY <1>5, HubAssumption DEF Init, TypeOK, IdlePass

\* and is preserved.
LEMMA TypesStep ==
    ASSUME TypeOK, [Next]_vars
    PROVE  TypeOK'
<1>1. CASE UNCHANGED vars
  BY <1>1 DEF vars, passes, counts, TypeOK
<1> QED
  BY <1>1, TypesOfHub, TypesOfClusters, TypesOfPlugins, TypesOfPresets DEF Next

\* The objects, the cache and the passes of the controllers always have their types.
THEOREM OffboardingTypeCorrect == Spec => []TypeOK
  BY TypesInit, TypesStep, PTL DEF Spec

-----------------------------------------------------------------------------
(* The HelmRelease and its Plugin. *)

\* What is read of a kind that never lags is what the API server has.
LEMMA FreshReads ==
    ASSUME NEW kinds, Fresh(kinds)
    PROVE  \A k \in kinds : Seen(k) = server[k]
  BY DEF Fresh, Seen

\* Steps that touch neither Plugins nor HelmReleases.
LEMMA ReleaseKept ==
    ASSUME ReleaseFollowsPlugin, server'.plugin = server.plugin, server'.release = server.release,
           suspending' \subseteq suspending
    PROVE  ReleaseFollowsPlugin'
  BY DEF ReleaseFollowsPlugin

\* A Plugin that is deleted before it has the finalizer has no HelmRelease yet.
LEMMA ReleaseSurvivesDeletion ==
    ASSUME TypeOK, ReleaseFollowsPlugin, NEW ps,
           server'.plugin = DeletedPlugins(ps), server'.release = server.release,
           suspending' \subseteq suspending
    PROVE  ReleaseFollowsPlugin'
<1> SUFFICES ASSUME NEW p \in Plugins
    PROVE  /\ server.release[p] # "absent" => server'.plugin[p].stage \in {"live", "deleting"}
           /\ server.release[p] \in {"deleting", "deletingSuspended"} => server'.plugin[p].stage = "deleting"
           /\ p \in RetainPlugins => server.release[p] # "deleting"
           /\ p \notin RetainPlugins => server.release[p] \in {"absent", "active", "deleting"}
           /\ p \in suspending => /\ p \in RetainPlugins /\ server'.plugin[p].stage = "deleting"
                                 /\ server.release[p] # "active"
  BY DEF ReleaseFollowsPlugin
<1>1. server.plugin[p] \in PluginObject
  BY DEF TypeOK, Objects
<1>2. server'.plugin[p] \in {server.plugin[p], AfterDelete(p)}
  BY DEF DeletedPlugins
<1>3. \/ server.plugin[p].stage \in {"absent", "new"}
      \/ server.plugin[p].stage = "live" /\ AfterDelete(p).stage = "deleting"
      \/ AfterDelete(p) = server.plugin[p]
  BY <1>1, Deletion DEF TypeOK, PluginObject, Stages
<1> QED
  BY <1>2, <1>3 DEF ReleaseFollowsPlugin

\* ReleaseFollowsPlugin is preserved
LEMMA ReleaseStep ==
    ASSUME TypeOK, ReleaseFollowsPlugin, Fresh({"plugin", "release"}), [Next]_vars
    PROVE  ReleaseFollowsPlugin'
<1>0. /\ server \in Objects /\ cache \in Objects
      /\ Seen("plugin") = server.plugin /\ Seen("release") = server.release
  BY FreshReads DEF TypeOK
<1>1. CASE HubNext
  <2>0. suspending' \subseteq suspending
    BY <1>1 DEF HubNext, CollectSecret, Onboard, Offboard, Relabel, Outage, Recover, CollectPlugin,
              UserCreatesPlugin, Deliver, CreatePreset, DeletePreset, Restart, Edit, passes
  <2>1. ASSUME NEW c \in Clusters, CollectSecret(c) PROVE ReleaseFollowsPlugin'
    BY <2>0, <1>0, <2>1, CollectSecretEffect, ReleaseKept DEF Keeps, Kinds
  <2>2. ASSUME NEW c \in Clusters, Onboard(c) PROVE ReleaseFollowsPlugin'
    BY <2>0, <1>0, <2>2, OnboardEffect, ReleaseKept DEF Keeps, Kinds
  <2>3. ASSUME NEW c \in Clusters, Offboard(c) PROVE ReleaseFollowsPlugin'
    BY <2>0, <1>0, <2>3, OffboardEffect, ReleaseKept DEF Keeps, Kinds
  <2>4. ASSUME NEW c \in Clusters, Relabel(c) PROVE ReleaseFollowsPlugin'
    BY <2>0, <1>0, <2>4, RelabelEffect, ReleaseKept DEF Keeps, Kinds
  <2>5. ASSUME NEW c \in Clusters, Outage(c) \/ Recover(c) PROVE ReleaseFollowsPlugin'
    BY <2>0, <2>5, ReleaseKept DEF Outage, Recover
  <2>6. ASSUME NEW p \in Plugins, CollectPlugin(p) PROVE ReleaseFollowsPlugin'
    BY <2>0, <1>0, <2>6, CollectPluginEffect, ReleaseSurvivesDeletion DEF Keeps, Kinds
  <2>7. ASSUME NEW p \in Plugins, UserCreatesPlugin(p) PROVE ReleaseFollowsPlugin'
    BY <2>0, <1>0, <2>7, CreatePluginEffect DEF UserCreatesPlugin, CreatePlugin, Keeps, Kinds, ReleaseFollowsPlugin, Objects
  <2>8. ASSUME NEW k \in Kinds, Deliver(k) PROVE ReleaseFollowsPlugin'
    BY <2>0, <2>8, ReleaseKept DEF Deliver
  <2>9. CASE CreatePreset
    BY <2>0, <1>0, <2>9, CreatePresetEffect, ReleaseKept DEF Keeps, Kinds
  <2>10. CASE DeletePreset
    BY <2>0, <1>0, <2>10, DeletePresetEffect, ReleaseKept DEF Keeps, Kinds
  <2>11. CASE Restart
    BY <2>0, <2>11, ReleaseKept DEF Restart
  <2> QED
    BY <1>1, <2>1, <2>2, <2>3, <2>4, <2>5, <2>6, <2>7, <2>8, <2>9, <2>10, <2>11 DEF HubNext
<1>2. CASE ClusterNext
  <2>0. suspending' \subseteq suspending
    BY <1>2 DEF ClusterNext, ClusterStep, reconcileCluster, ensureOwnerReferences, ClusterFinalizer, passes,
              ClusterEnsureCreated, ClusterEnsureCreatedFails, deletePlugins, deleteClusterRoleBindingInRemoteCluster
  <2>1. PICK c \in Clusters : ClusterStep(c) \/ ClusterEnsureCreatedFails(c)
    BY <1>2 DEF ClusterNext
  <2>2. CASE server' = server
    BY <2>0, <2>2, ReleaseKept
  <2>3. CASE reconcileCluster(c)
    BY <2>0, <1>0, <2>2, <2>3, CreateClusterEffect, ReleaseKept DEF reconcileCluster, Keeps, Kinds
  <2>4. CASE ensureOwnerReferences(c)
    BY <2>0, <1>0, <2>4, ensureOwnerReferencesEffect, ReleaseKept DEF Keeps, Kinds
  <2>5. CASE ClusterFinalizer(c)
    BY <2>0, <1>0, <2>5, ClusterFinalizerEffect, ReleaseKept DEF Keeps, Kinds
  <2>6. CASE setConditions(c)
    BY <2>0, <1>0, <2>6, setConditionsEffect, ReleaseKept DEF Keeps, Kinds
  <2>7. CASE ClusterDeleted(c)
    BY <2>0, <1>0, <2>7, ClusterDeletedEffect, ReleaseKept DEF Keeps, Kinds
  <2>8. CASE deletePlugins(c)
    BY <2>0, <1>0, <2>2, <2>7, <2>8, DeletionTyped, PluginsWritten, ReleaseSurvivesDeletion DEF deletePlugins, Keeps, Kinds
  <2>9. CASE deleteClusterRoleBindingInRemoteCluster(c)
    BY <2>2, <2>7, <2>9 DEF deleteClusterRoleBindingInRemoteCluster
  <2> QED
    BY <2>1, <2>3, <2>4, <2>5, <2>6, <2>8, <2>9 DEF ClusterStep, ClusterEnsureCreated, ClusterEnsureCreatedFails
<1>3. CASE PluginNext
  <2>1. PICK p \in Plugins : PluginStep(p)
    BY <1>3 DEF PluginNext
  <2>2. CASE PluginFinalizer(p)
    <3>1. /\ suspending' = suspending /\ server.plugin[p].stage # "deleting"
          /\ server.release[p] # "absent" => server.plugin[p].stage # "new" /\ server.plugin[p].stage # "deleted"
      BY <1>0, <2>2 DEF PluginFinalizer, ReleaseFollowsPlugin, passes
    <3> QED
      BY <1>0, <2>2, <3>1, PluginFinalizerEffect DEF Keeps, Kinds, ReleaseFollowsPlugin, Objects, PluginObject
  <2>3. CASE ensureHelmRelease(p)
    <3>1. server.plugin[p].stage = "live" /\ suspending' = suspending
      BY <1>0, <2>3 DEF ensureHelmRelease, passes
    <3>2. server.release[p] # "deletingSuspended" /\ server.release \in [Plugins -> Releases]
      BY <1>0, <3>1 DEF ReleaseFollowsPlugin, Objects
    <3>3. /\ server'.plugin = server.plugin
          /\ \E r \in Releases : /\ server'.release = [server.release EXCEPT ![p] = r]
                                 /\ r = "active" \/ r = server.release[p]
      BY <1>0, <2>3, <3>2, ensureHelmReleaseEffect DEF Keeps, Kinds
    <3> QED
      BY <3>1, <3>2, <3>3 DEF ReleaseFollowsPlugin, Objects
  <2>4. CASE EnsureFluxDeleted(p)
    <3>1. /\ server.plugin[p].stage = "deleting" /\ server.release[p] \in Releases /\ suspending' = suspending \ {p}
          /\ p \in RetainPlugins => server.release[p] \notin {"active", "deleting"}
      BY <1>0, <2>4 DEF EnsureFluxDeleted, Objects, ReleaseFollowsPlugin
    <3>2. PICK r \in Releases : /\ server'.release = [server.release EXCEPT ![p] = r]
                                /\ r = DeletedRelease(server.release[p])
      BY <1>0, <2>4, EnsureFluxDeletedEffect
    <3>3. \/ server'.plugin = server.plugin
          \/ /\ server.release[p] = "absent"
             /\ server'.plugin = [server.plugin EXCEPT ![p] = [server.plugin[p] EXCEPT !.stage = "deleted"]]
      BY <1>0, <2>4, EnsureFluxDeletedEffect
    <3>4. /\ server.release[p] = "absent" => r = "absent"
          /\ p \in RetainPlugins => r # "deleting"
          /\ p \notin RetainPlugins => r \in {"absent", "deleting"}
      BY <3>1, <3>2 DEF DeletedRelease, ReleaseFollowsPlugin
    <3> QED
      BY <1>0, <3>1, <3>2, <3>3, <3>4 DEF ReleaseFollowsPlugin, Objects, PluginObject
  <2>5. CASE Install(p)
    BY <2>5, ReleaseKept DEF Install, passes
  <2>6. CASE Uninstall(p)
    BY <1>0, <2>6, UninstallEffect DEF Uninstall, passes, Keeps, Kinds, ReleaseFollowsPlugin, Objects
  <2>7. CASE EnsureFluxSuspended(p)
    <3>1. /\ p \in RetainPlugins /\ server.plugin[p].stage = "deleting" /\ suspending' = suspending \cup {p}
          /\ server.release \in [Plugins -> Releases] /\ server'.plugin = server.plugin
      BY <1>0, <2>7, EnsureFluxSuspendedEffect DEF EnsureFluxSuspended, Objects, Keeps, Kinds
    <3>2. PICK r \in Releases : 
            /\ server'.release = [server.release EXCEPT ![p] = r] /\ r \notin {"active", "deleting"}
            /\ server.release[p] = "absent" => r = "absent"
      BY <1>0, <2>7, EnsureFluxSuspendedEffect
    <3> QED
      BY <3>1, <3>2 DEF ReleaseFollowsPlugin
  <2> QED
    BY <2>1, <2>2, <2>3, <2>4, <2>5, <2>6, <2>7 DEF PluginStep
<1>4. CASE PresetStep
  <2>0. suspending' \subseteq suspending
    BY <1>4 DEF PresetStep, PresetFinalizer, PresetEnsureCreated, PresetEnsureDeleted, PassEnds,
              isPluginManagedByPreset, reconcilePluginPreset, passes
  <2>1. CASE PresetFinalizer
    BY <2>0, <1>0, <2>1, PresetFinalizerEffect, ReleaseKept DEF Keeps, Kinds
  <2>2. CASE PresetEnsureCreated
    BY <2>0, <1>0, <2>2, PresetEnsureCreatedEffect, ReleaseSurvivesDeletion DEF Keeps, Kinds
  <2>3. CASE PresetEnsureDeleted
    <3>1. server'.release = server.release
      BY <1>0, <2>3, PresetEnsureDeletedEffect DEF Keeps, Kinds
    <3>2. CASE Seen("preset").policy = "Retain"
      <4>1. \A p \in Plugins : server'.plugin[p].stage = server.plugin[p].stage
        <5>1. \A p \in Plugins : server'.plugin[p] \in {server.plugin[p], [server.plugin[p] EXCEPT !.owned = FALSE]}
          BY <1>0, <2>3, <3>2, PresetEnsureDeletedEffect
        <5>2. \A p \in Plugins : server.plugin[p] \in PluginObject
          BY <1>0 DEF Objects
        <5> QED
          BY <5>1, <5>2 DEF PluginObject
      <4> QED
        BY <2>0, <3>1, <4>1 DEF ReleaseFollowsPlugin
    <3>3. CASE Seen("preset").policy # "Retain"
      BY <2>0, <1>0, <2>3, <3>1, <3>3, PresetEnsureDeletedEffect, ReleaseSurvivesDeletion
    <3> QED
      BY <3>2, <3>3
  <2>4. CASE PassEnds
    BY <2>0, <2>4, ReleaseKept DEF PassEnds
  <2>5. ASSUME NEW c \in Clusters, isPluginManagedByPreset(c) PROVE ReleaseFollowsPlugin'
    BY <2>0, <2>5, ReleaseKept DEF isPluginManagedByPreset
  <2>6. ASSUME NEW c \in Clusters, reconcilePluginPreset(c) PROVE ReleaseFollowsPlugin'
    <3>1. PICK p \in Plugins : p = generatePluginName(c)
      BY DEF generatePluginName, Plugins
    <3>2. CASE CreatePlugin(p, TRUE)
      BY <2>0, <1>0, <3>2, CreatePluginEffect DEF CreatePlugin, Keeps, Kinds, ReleaseFollowsPlugin, Objects
    <3>3. CASE server' = server
      BY <2>0, <3>3, ReleaseKept
    <3>4. CASE server' = [server EXCEPT !.plugin[p].managed = TRUE, !.plugin[p].owned = TRUE]
      <4>1. server'.release = server.release /\ \A q \in Plugins : server'.plugin[q].stage = server.plugin[q].stage
        <5>1. PICK v \in PluginObject : v.stage = server.plugin[p].stage /\ server'.plugin = [server.plugin EXCEPT ![p] = v]
          BY <1>0, <3>4, AdoptEffect
        <5>2. server.plugin \in [Plugins -> PluginObject] /\ server'.release = server.release
          BY <1>0, <3>4, AdoptEffect DEF Keeps, Kinds, Objects
        <5> QED
          BY <5>1, <5>2
      <4> QED
        BY <2>0, <4>1 DEF ReleaseFollowsPlugin
    <3> QED
      BY <2>6, <3>1, <3>2, <3>3, <3>4 DEF reconcilePluginPreset
  <2> QED
    BY <1>4, <2>1, <2>2, <2>3, <2>4, <2>5, <2>6 DEF PresetStep
<1>5. CASE UNCHANGED vars
  BY <1>5, ReleaseKept DEF vars, passes
<1> QED
  BY <1>1, <1>2, <1>3, <1>4, <1>5 DEF Next

\* and holds at the beginning.
LEMMA ReleaseInit == Init => ReleaseFollowsPlugin
  BY DEF Init, Empty, ReleaseFollowsPlugin

\* A HelmRelease exists only while its Plugin has the finalizer, is deleted only while
\* the Plugin is, and suspended before if the policy is Retain (EnsureFluxCreated,
\* EnsureFluxSuspended and EnsureFluxDeleted), whatever comes between two calls of a pass,
\* provided the Plugin and HelmRelease that a pass reads are the newest.
THEOREM HubIsSafe ==
    ASSUME Fresh({"plugin", "release"})
    PROVE  Spec => []HubSafe
<1>1. Init => HubSafe
  BY TypesInit, ReleaseInit DEF HubSafe
<1>2. HubSafe /\ [Next]_vars => HubSafe'
  BY TypesStep, ReleaseStep DEF HubSafe
<1> QED
  BY <1>1, <1>2, PTL DEF Spec

\* The Helm release of a Plugin with deletion policy Retain is never uninstalled,
\* provided the Plugin and HelmRelease that a pass reads are the newest.
THEOREM RetainedReleasesStay ==
    ASSUME Fresh({"plugin", "release"})
    PROVE  Spec => RetainedReleaseStays
<1>1. ASSUME TypeOK, ReleaseFollowsPlugin, [Next]_vars
      PROVE  [installed \cap RetainPlugins \subseteq installed']_vars
  <2>1. ASSUME NEW p \in Plugins, Uninstall(p) PROVE installed \cap RetainPlugins \subseteq installed'
    BY <1>1, <2>1 DEF Uninstall, ReleaseFollowsPlugin
  <2>2. ASSUME NEW p \in Plugins, PluginStep(p) PROVE installed \cap RetainPlugins \subseteq installed'
    BY <2>1, <2>2 DEF PluginStep, PluginFinalizer, ensureHelmRelease, EnsureFluxSuspended, EnsureFluxDeleted, Install
  <2>3. CASE HubNext
    BY <2>3 DEF HubNext, CollectSecret, Onboard, Offboard, Relabel, Outage, Recover, CollectPlugin,
                UserCreatesPlugin, Deliver, CreatePreset, DeletePreset, Restart, Edit
  <2>4. CASE ClusterNext
    BY <2>4 DEF ClusterNext, ClusterStep, reconcileCluster, ensureOwnerReferences, ClusterFinalizer,
                ClusterEnsureCreated, ClusterEnsureCreatedFails, deletePlugins, deleteClusterRoleBindingInRemoteCluster
  <2>5. CASE PresetStep
    BY <2>5 DEF PresetStep, PresetFinalizer, PresetEnsureCreated, PresetEnsureDeleted, PassEnds,
                isPluginManagedByPreset, reconcilePluginPreset
  <2> QED
    BY <1>1, <2>2, <2>3, <2>4, <2>5 DEF Next, PluginNext
<1>2. Init => TypeOK /\ ReleaseFollowsPlugin
  BY TypesInit, ReleaseInit
<1>3. TypeOK /\ ReleaseFollowsPlugin /\ [Next]_vars => TypeOK' /\ ReleaseFollowsPlugin'
  BY TypesStep, ReleaseStep
<1> QED
  BY <1>1, <1>2, <1>3, PTL DEF Spec, RetainedReleaseStays

-----------------------------------------------------------------------------
(* The PluginPreset and the Plugins it owns. *)

PresetInv == PolicyFixed /\ NothingOwned

\* Whoever writes to a Plugin, its owner is gone only if it was.
OwnersKept ==
    \A p \in Plugins : server'.plugin[p].owned =>
        server.plugin[p].owned /\ server'.plugin[p].managed /\ server'.plugin[p].stage # "absent"

\* Steps that touch neither the PluginPreset nor its pass and make no Plugin owned.
LEMMA PresetKept ==
    ASSUME PresetInv, OwnersKept, server'.preset = server.preset, cache'.preset = cache.preset,
           presetPass' = presetPass
    PROVE  PresetInv'
  BY DEF PresetInv, PolicyFixed, NothingOwned, OwnersKept, Seen

\* Steps that touch no Plugin.
LEMMA SamePlugins ==
    ASSUME PresetInv, server'.plugin = server.plugin
    PROVE  OwnersKept
  BY DEF PresetInv, NothingOwned, OwnersKept

\* A write to one Plugin that does not make it owned.
LEMMA OneOwner ==
    ASSUME TypeOK, PresetInv, NEW p \in Plugins, NEW v \in PluginObject,
           server'.plugin = [server.plugin EXCEPT ![p] = v],
           v.owned => server.plugin[p].owned /\ v.managed /\ v.stage # "absent"
    PROVE  OwnersKept
<1>1. server.plugin \in [Plugins -> PluginObject]
  BY DEF TypeOK, Objects
<1> QED
  BY <1>1 DEF OwnersKept, PresetInv, NothingOwned

\* Delete calls make no Plugin owned.
LEMMA DeletionOwners ==
    ASSUME TypeOK, PresetInv, NEW ps, server'.plugin = DeletedPlugins(ps)
    PROVE  OwnersKept
<1> SUFFICES ASSUME NEW p \in Plugins, server'.plugin[p].owned
             PROVE  server.plugin[p].owned /\ server'.plugin[p].managed /\ server'.plugin[p].stage # "absent"
  BY DEF OwnersKept
<1>1. server.plugin[p] \in PluginObject
  BY DEF TypeOK, Objects
<1>2. server'.plugin[p] \in {server.plugin[p], AfterDelete(p)}
  BY DEF DeletedPlugins
<1>3. CASE AfterDelete(p) = server.plugin[p]
  BY <1>2, <1>3 DEF PresetInv, NothingOwned
<1>4. CASE server.plugin[p].stage = "live" /\ AfterDelete(p) = [server.plugin[p] EXCEPT !.stage = "deleting"]
  BY <1>1, <1>2, <1>4 DEF PresetInv, NothingOwned, PluginObject
<1>5. CASE AfterDelete(p) = NoPlugin
  BY <1>2, <1>5 DEF PresetInv, NothingOwned, NoPlugin
<1> QED
  BY <1>1, <1>3, <1>4, <1>5, Deletion DEF TypeOK, PluginObject, Stages

\* PresetInv through the steps of users, the garbage collector and the cache,
LEMMA PresetStepOfHub ==
    ASSUME TypeOK, PresetInv, HubNext
    PROVE  PresetInv'
<1>0. server \in Objects /\ cache \in Objects
  BY DEF TypeOK
<1>1. ASSUME NEW c \in Clusters, CollectSecret(c) PROVE PresetInv'
  BY <1>0, <1>1, CollectSecretEffect, SamePlugins, PresetKept DEF CollectSecret, passes, Keeps, Kinds
<1>2. ASSUME NEW c \in Clusters, Onboard(c) PROVE PresetInv'
  BY <1>0, <1>2, OnboardEffect, SamePlugins, PresetKept DEF Onboard, Edit, passes, Keeps, Kinds
<1>3. ASSUME NEW c \in Clusters, Offboard(c) PROVE PresetInv'
  BY <1>0, <1>3, OffboardEffect, SamePlugins, PresetKept DEF Offboard, Edit, passes, Keeps, Kinds
<1>4. ASSUME NEW c \in Clusters, Relabel(c) PROVE PresetInv'
  BY <1>0, <1>4, RelabelEffect, SamePlugins, PresetKept DEF Relabel, Edit, passes, Keeps, Kinds
<1>5. ASSUME NEW c \in Clusters, Outage(c) \/ Recover(c) PROVE PresetInv'
  BY <1>5, SamePlugins, PresetKept DEF Outage, Recover, passes
<1>6. ASSUME NEW p \in Plugins, CollectPlugin(p) PROVE PresetInv'
  BY <1>0, <1>6, CollectPluginEffect, DeletionOwners, PresetKept DEF CollectPlugin, passes, Keeps, Kinds
<1>7. ASSUME NEW p \in Plugins, UserCreatesPlugin(p) PROVE PresetInv'
  <2>1. OwnersKept
    <3>1. [stage |-> "new", managed |-> FALSE, owned |-> FALSE] \in PluginObject
      BY DEF PluginObject, Stages
    <3> QED
      BY <1>0, <1>7, <3>1, CreatePluginEffect, OneOwner DEF UserCreatesPlugin
  <2> QED
    BY <1>0, <1>7, <2>1, CreatePluginEffect, PresetKept DEF UserCreatesPlugin, Edit, passes, Keeps, Kinds
<1>8. ASSUME NEW k \in Kinds, Deliver(k) PROVE PresetInv'
  <2>1. cache'.preset \in {cache.preset, server.preset} /\ (k = "preset" => "preset" \in Lagging)
    BY <1>0, <1>8 DEF Deliver, Objects, Kinds
  <2> QED
    BY <1>8, <2>1 DEF Deliver, passes, PresetInv, PolicyFixed, NothingOwned, Seen
<1>9. CASE CreatePreset
  <2>1. PICK policy \in Policies : server'.preset = [stage |-> "new", policy |-> policy]
    BY <1>0, <1>9, CreatePresetEffect
  <2>2. /\ server'.plugin = server.plugin /\ cache' = cache /\ presetPass' = presetPass
        /\ server.preset.policy = "none"
    BY <1>0, <1>9, CreatePresetEffect DEF CreatePreset, Edit, passes, Keeps, Kinds
  <2>3. policy # "none"
    BY HubAssumption
  <2>4. server.preset.stage = "absent" /\ cache.preset.stage = "absent"
    BY <2>2 DEF PresetInv, PolicyFixed
  <2> QED
    BY <2>1, <2>2, <2>3, <2>4 DEF PresetInv, PolicyFixed, NothingOwned, Seen
<1>10. CASE DeletePreset
  <2>1. /\ server'.plugin = server.plugin /\ cache' = cache /\ presetPass' = presetPass
        /\ server.preset.stage \in {"new", "live"} /\ server.preset \in PresetObject
        /\ server'.preset = [server.preset EXCEPT !.stage = Deleting(server.preset.stage)]
    BY <1>0, <1>10, DeletePresetEffect DEF DeletePreset, Edit, passes, Keeps, Kinds, Objects
  <2>2. server'.preset.policy = server.preset.policy /\ (server'.preset.stage # "deleting" => server.preset.stage = "new")
    BY <2>1 DEF PresetObject, Deleting
  <2> QED
    BY <2>1, <2>2 DEF PresetInv, PolicyFixed, NothingOwned, Seen
<1>11. CASE Restart
  <2>1. IF "preset" \in Lagging THEN cache'.preset = server.preset ELSE cache'.preset = cache.preset
    BY <1>11 DEF Restart, Kinds
  <2> QED
    BY <1>11, <2>1 DEF Restart, IdlePass, PresetInv, PolicyFixed, NothingOwned, Seen
<1> QED
  BY <1>1, <1>2, <1>3, <1>4, <1>5, <1>6, <1>7, <1>8, <1>9, <1>10, <1>11 DEF HubNext

\* of the controllers of clusters,
LEMMA PresetStepOfClusters ==
    ASSUME TypeOK, PresetInv, ClusterNext
    PROVE  PresetInv'
<1>0. server \in Objects /\ cache \in Objects
  BY DEF TypeOK
<1>1. PICK c \in Clusters : ClusterStep(c) \/ ClusterEnsureCreatedFails(c)
  BY DEF ClusterNext
<1>2. cache' = cache /\ presetPass' = presetPass
  BY <1>1 DEF ClusterStep, reconcileCluster, ensureOwnerReferences, ClusterFinalizer, ClusterEnsureCreated,
              ClusterEnsureCreatedFails, deletePlugins, deleteClusterRoleBindingInRemoteCluster, passes
<1>3. CASE server' = server
  BY <1>2, <1>3, SamePlugins, PresetKept
<1>4. CASE reconcileCluster(c)
  BY <1>0, <1>2, <1>3, <1>4, CreateClusterEffect, SamePlugins, PresetKept DEF reconcileCluster, Keeps, Kinds
<1>5. CASE ensureOwnerReferences(c)
  BY <1>0, <1>2, <1>5, ensureOwnerReferencesEffect, SamePlugins, PresetKept DEF Keeps, Kinds
<1>6. CASE ClusterFinalizer(c)
  BY <1>0, <1>2, <1>6, ClusterFinalizerEffect, SamePlugins, PresetKept DEF Keeps, Kinds
<1>7. CASE setConditions(c)
  BY <1>0, <1>2, <1>7, setConditionsEffect, SamePlugins, PresetKept DEF Keeps, Kinds
<1>8. CASE ClusterDeleted(c)
  BY <1>0, <1>2, <1>8, ClusterDeletedEffect, SamePlugins, PresetKept DEF Keeps, Kinds
<1>9. CASE deletePlugins(c)
  <2>1. ASSUME NEW ps, server' = [server EXCEPT !.plugin = DeletedPlugins(ps)] PROVE PresetInv'
    BY <1>0, <1>2, <2>1, DeletionTyped, PluginsWritten, DeletionOwners, PresetKept DEF Keeps, Kinds
  <2> QED
    BY <1>3, <1>8, <1>9, <2>1 DEF deletePlugins
<1>10. CASE deleteClusterRoleBindingInRemoteCluster(c)
  BY <1>3, <1>8, <1>10 DEF deleteClusterRoleBindingInRemoteCluster
<1> QED
  BY <1>1, <1>4, <1>5, <1>6, <1>7, <1>9, <1>10 DEF ClusterStep, ClusterEnsureCreated, ClusterEnsureCreatedFails

\* of the Plugin controller and Flux,
LEMMA PresetStepOfPlugins ==
    ASSUME TypeOK, PresetInv, PluginNext
    PROVE  PresetInv'
<1>0. server \in Objects /\ cache \in Objects /\ server.plugin \in [Plugins -> PluginObject]
  BY DEF TypeOK, Objects
<1>1. PICK p \in Plugins : PluginStep(p)
  BY DEF PluginNext
<1>2. cache' = cache /\ presetPass' = presetPass
  BY <1>1 DEF PluginStep, PluginFinalizer, ensureHelmRelease, EnsureFluxSuspended, EnsureFluxDeleted,
              Install, Uninstall, passes
<1>3. CASE PluginFinalizer(p)
  <2>1. OwnersKept
    <3>1. NoPlugin \in PluginObject /\ ~NoPlugin.owned
      BY DEF NoPlugin, PluginObject, Stages
    <3>2. LET v == [server.plugin[p] EXCEPT !.stage = "live"]
          IN  v \in PluginObject /\ v.owned = server.plugin[p].owned /\ v.managed = server.plugin[p].managed
                /\ v.stage = "live"
      BY <1>0 DEF PluginObject, Stages
    <3>3. server.plugin[p].owned => server.plugin[p].managed
      BY DEF PresetInv, NothingOwned
    <3> QED
      BY <1>0, <1>3, <3>1, <3>2, <3>3, PluginFinalizerEffect, OneOwner
  <2> QED
    BY <1>0, <1>2, <1>3, <2>1, PluginFinalizerEffect, PresetKept DEF Keeps, Kinds
<1>4. CASE ensureHelmRelease(p)
  BY <1>0, <1>2, <1>4, ensureHelmReleaseEffect, SamePlugins, PresetKept DEF Keeps, Kinds
<1>5. CASE EnsureFluxDeleted(p)
  <2>2. OwnersKept
    <3>1. LET v == [server.plugin[p] EXCEPT !.stage = "deleted"]
          IN  v \in PluginObject /\ v.owned = server.plugin[p].owned /\ v.managed = server.plugin[p].managed
                /\ v.stage = "deleted"
      BY <1>0 DEF PluginObject, Stages
    <3>2. server.plugin[p].owned => server.plugin[p].managed
      BY DEF PresetInv, NothingOwned
    <3>3. \/ server'.plugin = server.plugin
          \/ server'.plugin = [server.plugin EXCEPT ![p] = [server.plugin[p] EXCEPT !.stage = "deleted"]]
      BY <1>0, <1>5, EnsureFluxDeletedEffect
    <3> QED
      BY <3>1, <3>2, <3>3, OneOwner, SamePlugins
  <2> QED
    BY <1>0, <1>2, <1>5, <2>2, EnsureFluxDeletedEffect, PresetKept DEF Keeps, Kinds
<1>6. CASE Install(p)
  BY <1>2, <1>6, SamePlugins, PresetKept DEF Install
<1>7. CASE Uninstall(p)
  BY <1>0, <1>2, <1>7, UninstallEffect, SamePlugins, PresetKept DEF Keeps, Kinds
<1>8. CASE EnsureFluxSuspended(p)
  BY <1>0, <1>2, <1>8, EnsureFluxSuspendedEffect, SamePlugins, PresetKept DEF Keeps, Kinds
<1> QED
  BY <1>1, <1>3, <1>4, <1>5, <1>6, <1>7, <1>8 DEF PluginStep

\* and of the PluginPreset controller, which sees the Plugins it has adopted.
LEMMA PresetStepOfPresets ==
    ASSUME TypeOK, PresetInv, Fresh({"plugin"}), PresetStep
    PROVE  PresetInv'
<1>0. /\ server \in Objects /\ cache \in Objects /\ server.plugin \in [Plugins -> PluginObject]
      /\ server.preset \in PresetObject /\ cache.preset \in PresetObject
      /\ Seen("plugin") = server.plugin
  BY FreshReads DEF TypeOK, Objects
<1>1. CASE PresetFinalizer
  <2>1. /\ server'.plugin = server.plugin /\ cache' = cache /\ presetPass' = presetPass
        /\ Seen("preset") = server.preset
    BY <1>0, <1>1, PresetFinalizerEffect DEF Keeps, Kinds, PresetFinalizer, passes
  <2>2. /\ server'.preset.policy = server.preset.policy
        /\ \/ server.preset.stage = "new" /\ server'.preset.stage = "live"
           \/ server.preset.stage = "deleted" /\ server'.preset.stage = "absent"
    BY <1>0, <1>1, PresetFinalizerEffect DEF PresetObject
  <2> QED
    BY <2>1, <2>2 DEF PresetInv, PolicyFixed, NothingOwned, Seen
<1>2. CASE PresetEnsureCreated
  <2>1. OwnersKept /\ server'.preset = server.preset /\ cache' = cache /\ Seen("preset").stage = "live"
    BY <1>0, <1>2, PresetEnsureCreatedEffect, DeletionOwners DEF Keeps, Kinds, PresetEnsureCreated
  <2> QED
    BY <2>1 DEF PresetInv, PolicyFixed, NothingOwned, OwnersKept, Seen
<1>3. CASE PresetEnsureDeleted
  <2>1. /\ cache' = cache /\ presetPass' = presetPass /\ presetPass.pc = "idle"
        /\ Seen("preset").stage = "deleting" /\ Seen("preset").policy = server.preset.policy
    BY <1>3 DEF PresetEnsureDeleted, passes, PresetInv, PolicyFixed, Seen
  <2>2. /\ server'.preset.policy = server.preset.policy
        /\ server'.preset.stage = server.preset.stage \/ server.preset.stage = "deleting"
    BY <1>0, <1>3, PresetEnsureDeletedEffect DEF PresetObject
  <2>3. PolicyFixed'
    BY <2>1, <2>2, <1>0 DEF PresetInv, PolicyFixed
  <2>4. CASE server.preset.policy = "Retain"
    <3>1. \A p \in Plugins : ~server'.plugin[p].owned
      <4> SUFFICES ASSUME NEW p \in Plugins PROVE ~server'.plugin[p].owned
        OBVIOUS
      <4>1. server'.plugin = [q \in Plugins |-> IF q \in listPlugins
                                                         THEN [server.plugin[q] EXCEPT !.owned = FALSE]
                                                         ELSE server.plugin[q]]
        BY <1>0, <1>3, <2>1, <2>4, PresetEnsureDeletedEffect
      <4>2. CASE p \in listPlugins
        BY <1>0, <4>1, <4>2 DEF PluginObject
      <4>3. CASE p \notin listPlugins
        BY <1>0, <4>1, <4>3 DEF listPlugins, PresetInv, NothingOwned
      <4> QED
        BY <4>2, <4>3
    <3> QED
      BY <2>1, <2>3, <3>1 DEF PresetInv, NothingOwned, Seen
  <2>5. CASE server.preset.policy # "Retain"
    <3>1. OwnersKept
      BY <1>0, <1>3, <2>1, <2>5, PresetEnsureDeletedEffect, DeletionOwners
    <3>2. server.preset.stage = "deleting" => server.preset.policy = "Delete"
      BY <1>0, <2>5, HubAssumption DEF PresetInv, PolicyFixed, PresetObject
    <3> QED
      BY <2>1, <2>2, <2>3, <3>1, <3>2 DEF PresetInv, NothingOwned, OwnersKept, Seen
  <2> QED
    BY <2>4, <2>5
<1>4. CASE PassEnds
  BY <1>4 DEF PassEnds, IdlePass, PresetInv, PolicyFixed, NothingOwned, Seen
<1>5. ASSUME NEW c \in Clusters, isPluginManagedByPreset(c) PROVE PresetInv'
  BY <1>5 DEF isPluginManagedByPreset, PresetInv, PolicyFixed, NothingOwned, Seen
<1>6. ASSUME NEW c \in Clusters, reconcilePluginPreset(c) PROVE PresetInv'
  <2>1. PICK p \in Plugins : p = generatePluginName(c)
    BY DEF generatePluginName, Plugins
  <2>2. presetPass.pc # "idle" /\ cache' = cache
    BY <1>6, HubAssumption DEF reconcilePluginPreset
  <2>3. /\ server'.preset = server.preset
        /\ \A q \in Plugins : server'.plugin[q].owned =>
               server'.plugin[q].managed /\ server'.plugin[q].stage # "absent"
    <3>1. CASE CreatePlugin(p, TRUE)
      BY <1>0, <3>1, CreatePluginEffect DEF CreatePlugin, Keeps, Kinds, PresetInv, NothingOwned
    <3>2. CASE server' = server
      BY <3>2 DEF PresetInv, NothingOwned
    <3>3. CASE server.plugin[p].stage # "absent" /\ server' = [server EXCEPT !.plugin[p].managed = TRUE, !.plugin[p].owned = TRUE]
      <4>1. PICK v \in PluginObject : /\ v.stage = server.plugin[p].stage /\ v.managed
                                      /\ server'.plugin = [server.plugin EXCEPT ![p] = v]
        BY <1>0, <3>3, AdoptEffect
      <4>2. server'.preset = server.preset
        BY <1>0, <3>3, AdoptEffect DEF Keeps, Kinds
      <4> QED
        BY <1>0, <3>3, <4>1, <4>2 DEF PresetInv, NothingOwned
    <3> QED
      BY <1>0, <1>6, <2>1, <3>1, <3>2, <3>3 DEF reconcilePluginPreset
  <2> QED
    BY <2>2, <2>3 DEF PresetInv, PolicyFixed, NothingOwned
<1> QED
  BY <1>1, <1>2, <1>3, <1>4, <1>5, <1>6 DEF PresetStep

\* PresetInv holds at the beginning
LEMMA PresetInit == Init => PresetInv
  BY HubAssumption DEF Init, Empty, IdlePass, NoPlugin, PresetInv, PolicyFixed, NothingOwned, Seen

\* and is preserved.
LEMMA PresetInvStep ==
    ASSUME TypeOK, PresetInv, Fresh({"plugin"}), [Next]_vars
    PROVE  PresetInv'
<1>1. CASE UNCHANGED vars
  BY <1>1, SamePlugins, PresetKept DEF vars, passes
<1> QED
  BY <1>1, PresetStepOfHub, PresetStepOfClusters, PresetStepOfPlugins, PresetStepOfPresets DEF Next

\* The Plugins that a Delete call for some of them takes away.
LEMMA TakenAway ==
    ASSUME TypeOK, NEW ps, server'.plugin = DeletedPlugins(ps), NEW p \in Plugins,
           server'.plugin[p].stage # server.plugin[p].stage
    PROVE  p \in ps
  BY DEF DeletedPlugins

\* With deletion policy Retain a PluginPreset takes no Plugin away from a cluster
\* that, as far as it can see, stays and matches, provided the Plugins that a pass
\* reads are the newest.
THEOREM RetainKeeps ==
    ASSUME Fresh({"plugin"})
    PROVE  Spec => RetainKeepsPlugins
<1> DEFINE Taken(p) == /\ server.plugin[p].managed /\ server.plugin[p].stage = "live"
                       /\ server'.plugin[p].stage # "live"
           Allowed(p) == LET c == Seen("cluster")[clusterOf(p)]
                         IN  c.stage # "live" \/ ~c.match \/ server.preset.policy # "Retain"
<1>1. ASSUME TypeOK, PresetInv, Next, NEW p \in Plugins, Taken(p)
      PROVE  Allowed(p)
  <2>0. /\ server \in Objects /\ cache \in Objects /\ server.plugin \in [Plugins -> PluginObject]
        /\ Seen("plugin") = server.plugin /\ server.preset \in PresetObject
    BY <1>1, FreshReads DEF TypeOK, Objects
  <2>1. ASSUME server'.plugin = server.plugin PROVE FALSE
    BY <1>1, <2>1
  <2>2. ASSUME NEW q \in Plugins, NEW v, server'.plugin = [server.plugin EXCEPT ![q] = v],
               server.plugin[q].stage # "live" \/ v.stage = "live"
        PROVE  FALSE
    BY <1>1, <2>0, <2>2
  <2>3. CASE HubNext
    <3>1. ASSUME NEW c \in Clusters, CollectSecret(c) PROVE FALSE
      BY <2>0, <2>1, <3>1, CollectSecretEffect DEF Keeps, Kinds
    <3>2. ASSUME NEW c \in Clusters, Onboard(c) PROVE FALSE
      BY <2>0, <2>1, <3>2, OnboardEffect DEF Keeps, Kinds
    <3>3. ASSUME NEW c \in Clusters, Offboard(c) PROVE FALSE
      BY <2>0, <2>1, <3>3, OffboardEffect DEF Keeps, Kinds
    <3>4. ASSUME NEW c \in Clusters, Relabel(c) PROVE FALSE
      BY <2>0, <2>1, <3>4, RelabelEffect DEF Keeps, Kinds
    <3>5. ASSUME NEW c \in Clusters, Outage(c) \/ Recover(c) PROVE FALSE
      BY <2>1, <3>5 DEF Outage, Recover
    <3>6. ASSUME NEW q \in Plugins, CollectPlugin(q) PROVE Allowed(p)
      <4>1. q = p
        BY <1>1, <2>0, <3>6, CollectPluginEffect DEF DeletedPlugins
      <4> QED
        BY <1>1, <3>6, <4>1 DEF CollectPlugin, PresetInv, NothingOwned
    <3>7. ASSUME NEW q \in Plugins, UserCreatesPlugin(q) PROVE FALSE
      BY <2>0, <2>2, <3>7, CreatePluginEffect DEF UserCreatesPlugin, CreatePlugin
    <3>8. ASSUME NEW k \in Kinds, Deliver(k) PROVE FALSE
      BY <2>1, <3>8 DEF Deliver
    <3>9. ASSUME CreatePreset PROVE FALSE
      BY <2>0, <2>1, <3>9, CreatePresetEffect DEF Keeps, Kinds
    <3>10. ASSUME DeletePreset PROVE FALSE
      BY <2>0, <2>1, <3>10, DeletePresetEffect DEF Keeps, Kinds
    <3>11. ASSUME Restart PROVE FALSE
      BY <2>1, <3>11 DEF Restart
    <3> QED
      BY <2>3, <3>1, <3>2, <3>3, <3>4, <3>5, <3>6, <3>7, <3>8, <3>9, <3>10, <3>11 DEF HubNext
  <2>4. CASE ClusterNext
    <3>1. PICK c \in Clusters : ClusterStep(c) \/ ClusterEnsureCreatedFails(c)
      BY <2>4 DEF ClusterNext
    <3>2. ASSUME reconcileCluster(c) PROVE FALSE
      BY <2>0, <2>1, <3>2, CreateClusterEffect DEF reconcileCluster, Keeps, Kinds
    <3>3. ASSUME ensureOwnerReferences(c) PROVE FALSE
      BY <2>0, <2>1, <3>3, ensureOwnerReferencesEffect DEF Keeps, Kinds
    <3>4. ASSUME ClusterFinalizer(c) PROVE FALSE
      BY <2>0, <2>1, <3>4, ClusterFinalizerEffect DEF Keeps, Kinds
    <3>5. ASSUME setConditions(c) PROVE FALSE
      BY <2>0, <2>1, <3>5, setConditionsEffect DEF Keeps, Kinds
    <3>6. ASSUME ClusterDeleted(c) PROVE FALSE
      BY <2>0, <2>1, <3>6, ClusterDeletedEffect DEF Keeps, Kinds
    <3>7. CASE deletePlugins(c)
      <4> DEFINE found == {q \in Plugins : clusterOf(q) = c /\ Seen("plugin")[q].stage # "absent"}
      <4>1. Seen("cluster")[c].stage = "deleting"
        BY <3>7 DEF deletePlugins
      <4>2. server' = [server EXCEPT !.plugin = DeletedPlugins(found)]
        BY <2>1, <3>6, <3>7 DEF deletePlugins
      <4>3. p \in found
        <5>1. server'.plugin = DeletedPlugins(found)
          BY <2>0, <4>2, DeletionTyped, PluginsWritten
        <5> HIDE DEF found
        <5> QED
          BY <1>1, <2>0, <5>1, TakenAway
      <4> QED
        BY <4>1, <4>3
    <3>8. ASSUME deleteClusterRoleBindingInRemoteCluster(c) PROVE FALSE
      BY <2>1, <3>6, <3>8 DEF deleteClusterRoleBindingInRemoteCluster
    <3> QED
      BY <3>1, <3>2, <3>3, <3>4, <3>5, <3>7, <3>8 DEF ClusterStep, ClusterEnsureCreated, ClusterEnsureCreatedFails
  <2>5. CASE PluginNext
    <3>1. PICK q \in Plugins : PluginStep(q)
      BY <2>5 DEF PluginNext
    <3>2. ASSUME PluginFinalizer(q) PROVE FALSE
      BY <2>0, <2>2, <3>2, PluginFinalizerEffect
    <3>3. ASSUME ensureHelmRelease(q) PROVE FALSE
      BY <2>0, <2>1, <3>3, ensureHelmReleaseEffect DEF Keeps, Kinds
    <3>4. ASSUME EnsureFluxDeleted(q) PROVE FALSE
      BY <2>0, <2>1, <2>2, <3>4, EnsureFluxDeletedEffect
    <3>5. ASSUME Install(q) PROVE FALSE
      BY <2>1, <3>5 DEF Install
    <3>6. ASSUME Uninstall(q) PROVE FALSE
      BY <2>0, <2>1, <3>6, UninstallEffect DEF Keeps, Kinds
    <3>7. ASSUME EnsureFluxSuspended(q) PROVE FALSE
      BY <2>0, <2>1, <3>7, EnsureFluxSuspendedEffect DEF Keeps, Kinds
    <3> QED
      BY <3>1, <3>2, <3>3, <3>4, <3>5, <3>6, <3>7 DEF PluginStep
  <2>6. CASE PresetStep
    <3>1. ASSUME PresetFinalizer PROVE FALSE
      BY <2>0, <2>1, <3>1, PresetFinalizerEffect DEF Keeps, Kinds
    <3>2. CASE PresetEnsureCreated
      <4>1. p \in cleanupPlugins(listClusters)
        BY <1>1, <2>0, <3>2, PresetEnsureCreatedEffect, TakenAway
      <4>2. clusterOf(p) \in Clusters
        BY DEF clusterOf, Plugins
      <4> QED
        BY <4>1, <4>2 DEF cleanupPlugins, listClusters
    <3>3. CASE PresetEnsureDeleted
      <4>1. Seen("preset").policy = server.preset.policy
        BY <1>1, <3>3 DEF PresetEnsureDeleted, PresetInv, PolicyFixed, Seen
      <4>2. Seen("preset").policy # "Retain"
        <5> SUFFICES ASSUME Seen("preset").policy = "Retain" PROVE FALSE
          OBVIOUS
        <5>1. server'.plugin[p] \in {server.plugin[p], [server.plugin[p] EXCEPT !.owned = FALSE]}
          BY <2>0, <3>3, PresetEnsureDeletedEffect
        <5> QED
          BY <1>1, <2>0, <5>1 DEF PluginObject
      <4> QED
        BY <4>1, <4>2
    <3>4. ASSUME PassEnds PROVE FALSE
      BY <2>1, <3>4 DEF PassEnds
    <3>5. ASSUME NEW c \in Clusters, isPluginManagedByPreset(c) PROVE FALSE
      BY <2>1, <3>5 DEF isPluginManagedByPreset
    <3>6. ASSUME NEW c \in Clusters, reconcilePluginPreset(c) PROVE FALSE
      <4>1. PICK q \in Plugins : q = generatePluginName(c)
        BY DEF generatePluginName, Plugins
      <4>2. ASSUME CreatePlugin(q, TRUE) PROVE FALSE
        BY <2>0, <2>2, <4>2, CreatePluginEffect DEF CreatePlugin
      <4>3. ASSUME server' = [server EXCEPT !.plugin[q].managed = TRUE, !.plugin[q].owned = TRUE] PROVE FALSE
        BY <2>0, <2>2, <4>3, AdoptEffect
      <4> QED
        BY <2>1, <3>6, <4>1, <4>2, <4>3 DEF reconcilePluginPreset
    <3> QED
      BY <2>6, <3>1, <3>2, <3>3, <3>4, <3>5, <3>6 DEF PresetStep
  <2> QED
    BY <1>1, <2>3, <2>4, <2>5, <2>6 DEF Next
<1>2. ASSUME TypeOK, PresetInv, [Next]_vars PROVE [\A p \in Plugins : Taken(p) => Allowed(p)]_vars
  BY <1>1, <1>2
<1>3. Init => TypeOK /\ PresetInv
  BY TypesInit, PresetInit
<1>4. TypeOK /\ PresetInv /\ [Next]_vars => TypeOK' /\ PresetInv'
  BY TypesStep, PresetInvStep
<1> QED
  BY <1>2, <1>3, <1>4, PTL DEF Spec, RetainKeepsPlugins

-----------------------------------------------------------------------------
(* The Cluster, its Secret and its conditions. *)

\* Every Cluster gets a name of its own, and the Plugins and HelmReleases that are read
\* are up to date; Clusters, Secrets and the PluginPreset may be outdated.  Nothing is
\* said of outages, failing calls and restarts.
Orderly == MaxUid <= 1 /\ Fresh({"plugin", "release"})

ClusterInv == UsedOnce /\ AccessKept

\* Steps that touch neither a Cluster nor a Secret.
LEMMA ClusterKept ==
    ASSUME ClusterInv, server'.cluster = server.cluster, server'.secret = server.secret,
           cache'.cluster = cache.cluster, cache'.secret = cache.secret
    PROVE  ClusterInv'
  BY DEF ClusterInv, UsedOnce, AccessKept

\* What may be written to a Cluster.
Admissible(c, v) ==
    /\ v.stage # "absent" => v.uid = 1 /\ server.secret[c].exists
    /\ cache.cluster[c].stage # "absent" \/ server.secret[c].owner # 0 => v.uid = 1
    /\ v.uid = 1 \/ v.uid = server.cluster[c].uid
    /\ cache.cluster[c].stage = "live" => v.stage # "new"
    /\ cache.cluster[c].stage \in {"deleting", "deleted"} => v.stage \in {"deleting", "deleted", "absent"}

\* A write of that kind keeps the invariant.
LEMMA ClusterWrite ==
    ASSUME TypeOK, ClusterInv, NEW c \in Clusters, NEW v \in ClusterObject, Admissible(c, v),
           server'.cluster = [server.cluster EXCEPT ![c] = v], server'.secret = server.secret,
           cache'.cluster = cache.cluster, cache'.secret = cache.secret
    PROVE  ClusterInv'
<1>1. server.cluster \in [Clusters -> ClusterObject]
  BY DEF TypeOK, Objects
<1>2. server'.cluster[c] = v /\ \A d \in Clusters \ {c} : server'.cluster[d] = server.cluster[d]
  BY <1>1
<1>3. UsedOnce'
  BY <1>2 DEF Admissible, ClusterInv, UsedOnce
<1>4. AccessKept'
  BY <1>2 DEF Admissible, ClusterInv, AccessKept
<1> QED
  BY <1>3, <1>4 DEF ClusterInv

\* So does a write to a Secret that its Cluster does not miss,
LEMMA SecretWrite ==
    ASSUME TypeOK, ClusterInv, NEW c \in Clusters, NEW v \in SecretObject,
           server.cluster[c].stage # "absent" => v.exists,
           v.owner # 0 => v.owner = 1 /\ server.cluster[c].uid = 1,
           v.exists \/ server.cluster[c].uid = 1,
           server'.secret = [server.secret EXCEPT ![c] = v], server'.cluster = server.cluster,
           cache'.cluster = cache.cluster, cache'.secret = cache.secret
    PROVE  ClusterInv'
<1>1. server.secret \in [Clusters -> SecretObject]
  BY DEF TypeOK, Objects
<1>2. server'.secret[c] = v /\ \A d \in Clusters \ {c} : server'.secret[d] = server.secret[d]
  BY <1>1
<1> QED
  BY <1>2 DEF ClusterInv, UsedOnce, AccessKept

\* and the delivery of Clusters to the cache.
LEMMA CacheRefreshed ==
    ASSUME ClusterInv, server' = server,
           cache'.cluster \in {cache.cluster, server.cluster},
           cache'.secret \in {cache.secret, server.secret}
    PROVE  ClusterInv'
  BY DEF ClusterInv, UsedOnce, AccessKept

\* What a pass reads of a Cluster.
LEMMA SeenCluster ==
    ASSUME ClusterInv, NEW c \in Clusters
    PROVE  LET seen == Seen("cluster")[c]
           IN  /\ seen.stage # "absent" => seen.uid = 1 /\ server.cluster[c].uid = 1
               /\ seen.stage = "live" => server.cluster[c].stage # "new"
               /\ seen.stage = "deleting" => server.cluster[c].stage \in {"deleting", "deleted", "absent"}
               /\ seen.stage = "live" => cache.cluster[c].stage = "live" \/ server.cluster[c].stage = "live"
  BY DEF ClusterInv, UsedOnce, AccessKept, Seen

\* ClusterInv through the steps of users, the garbage collector and the cache,
LEMMA ClusterInvOfHub ==
    ASSUME TypeOK, ClusterInv, Orderly, HubNext
    PROVE  ClusterInv'
<1>0. /\ server \in Objects /\ cache \in Objects
      /\ server.cluster \in [Clusters -> ClusterObject] /\ server.secret \in [Clusters -> SecretObject]
  BY DEF TypeOK, Objects
<1>1. ASSUME NEW c \in Clusters, CollectSecret(c) PROVE ClusterInv'
  <2>1. NoSecret \in SecretObject /\ ~NoSecret.exists /\ NoSecret.owner = 0
    BY HubAssumption DEF NoSecret, SecretObject
  <2>2. server.cluster[c].stage = "absent" /\ server.cluster[c].uid = 1
    BY <1>1 DEF CollectSecret, ClusterInv, AccessKept
  <2>3. server'.secret = [server.secret EXCEPT ![c] = NoSecret] /\ server'.cluster = server.cluster
    BY <1>0, <1>1, CollectSecretEffect DEF Keeps, Kinds
  <2> QED
    BY <1>1, <2>1, <2>2, <2>3, SecretWrite DEF CollectSecret
<1>2. ASSUME NEW c \in Clusters, Onboard(c) PROVE ClusterInv'
  <2> DEFINE v == [exists |-> TRUE, owner |-> 0]
  <2>1. v \in SecretObject /\ v.exists /\ v.owner = 0
    BY HubAssumption DEF SecretObject
  <2>2. server'.secret = [server.secret EXCEPT ![c] = v] /\ server'.cluster = server.cluster
    BY <1>0, <1>2, OnboardEffect DEF Keeps, Kinds
  <2> HIDE DEF v
  <2> QED
    BY <1>2, <2>1, <2>2, SecretWrite DEF Onboard, Edit
<1>3. ASSUME NEW c \in Clusters, Offboard(c) PROVE ClusterInv'
  <2> DEFINE v == [server.cluster[c] EXCEPT !.stage = Deleting(server.cluster[c].stage)]
  <2>1. v \in ClusterObject /\ v.uid = server.cluster[c].uid /\ v.valid = server.cluster[c].valid
    BY <1>0 DEF ClusterObject, Stages, Deleting
  <2>2. \/ server.cluster[c].stage = "new" /\ v.stage = "absent"
        \/ server.cluster[c].stage = "live" /\ v.stage = "deleting"
    BY <1>0, <1>3 DEF Offboard, ClusterObject, Deleting
  <2>3. server'.cluster = [server.cluster EXCEPT ![c] = v] /\ server'.secret = server.secret
    BY <1>0, <1>3, OffboardEffect DEF Keeps, Kinds
  <2> HIDE DEF v
  <2>4. Admissible(c, v)
    BY <2>1, <2>2 DEF Admissible, ClusterInv, UsedOnce, AccessKept
  <2> QED
    BY <1>3, <2>1, <2>3, <2>4, ClusterWrite DEF Offboard, Edit
<1>4. ASSUME NEW c \in Clusters, Relabel(c) PROVE ClusterInv'
  <2> DEFINE v == [server.cluster[c] EXCEPT !.match = ~server.cluster[c].match]
  <2>1. /\ v \in ClusterObject /\ v.uid = server.cluster[c].uid /\ v.valid = server.cluster[c].valid
        /\ v.stage = server.cluster[c].stage
    BY <1>0 DEF ClusterObject
  <2>2. server'.cluster = [server.cluster EXCEPT ![c] = v] /\ server'.secret = server.secret
    BY <1>0, <1>4, RelabelEffect DEF Keeps, Kinds
  <2> HIDE DEF v
  <2>3. Admissible(c, v)
    BY <2>1 DEF Admissible, ClusterInv, UsedOnce, AccessKept
  <2> QED
    BY <1>4, <2>1, <2>2, <2>3, ClusterWrite DEF Relabel, Edit
<1>5. ASSUME NEW c \in Clusters, Outage(c) \/ Recover(c) PROVE ClusterInv'
  BY <1>5, ClusterKept DEF Outage, Recover
<1>6. ASSUME NEW p \in Plugins, CollectPlugin(p) PROVE ClusterInv'
  BY <1>0, <1>6, CollectPluginEffect, ClusterKept DEF CollectPlugin, Keeps, Kinds
<1>7. ASSUME NEW p \in Plugins, UserCreatesPlugin(p) PROVE ClusterInv'
  BY <1>0, <1>7, CreatePluginEffect, ClusterKept DEF UserCreatesPlugin, Edit, Keeps, Kinds
<1>8. ASSUME NEW k \in Kinds, Deliver(k) PROVE ClusterInv'
  <2>1. cache'.cluster \in {cache.cluster, server.cluster} /\ cache'.secret \in {cache.secret, server.secret}
    BY <1>0, <1>8 DEF Deliver, Objects, Kinds
  <2> QED
    BY <1>8, <2>1, CacheRefreshed DEF Deliver
<1>9. CASE CreatePreset
  BY <1>0, <1>9, CreatePresetEffect, ClusterKept DEF CreatePreset, Edit, Keeps, Kinds
<1>10. CASE DeletePreset
  BY <1>0, <1>10, DeletePresetEffect, ClusterKept DEF DeletePreset, Edit, Keeps, Kinds
<1>11. CASE Restart
  <2>1. cache'.cluster \in {cache.cluster, server.cluster} /\ cache'.secret \in {cache.secret, server.secret}
    BY <1>11 DEF Restart, Kinds
  <2> QED
    BY <1>11, <2>1, CacheRefreshed DEF Restart
<1> QED
  BY <1>1, <1>2, <1>3, <1>4, <1>5, <1>6, <1>7, <1>8, <1>9, <1>10, <1>11 DEF HubNext

\* of the controllers of clusters,
LEMMA ClusterInvOfClusters ==
    ASSUME TypeOK, ClusterInv, Orderly, ClusterNext
    PROVE  ClusterInv'
<1>0. /\ server \in Objects /\ cache \in Objects
      /\ server.cluster \in [Clusters -> ClusterObject] /\ server.secret \in [Clusters -> SecretObject]
      /\ Seen("cluster") \in [Clusters -> ClusterObject]
  BY SeenObjects DEF TypeOK, Objects
<1>1. PICK c \in Clusters : ClusterStep(c) \/ ClusterEnsureCreatedFails(c)
  BY DEF ClusterNext
<1>2. cache' = cache
  BY <1>1 DEF ClusterStep, reconcileCluster, ensureOwnerReferences, ClusterFinalizer, ClusterEnsureCreated,
              ClusterEnsureCreatedFails, deletePlugins, deleteClusterRoleBindingInRemoteCluster
<1>3. CASE server' = server
  BY <1>2, <1>3, ClusterKept
<1>4. CASE reconcileCluster(c) /\ server' # server
  <2>1. /\ Seen("secret")[c].exists /\ server.cluster[c].stage = "absent" /\ server.cluster[c].uid + 1 <= MaxUid
        /\ PutCluster(c, [Empty.cluster[c] EXCEPT !.stage = "new", !.uid = server.cluster[c].uid + 1])
    BY <1>4 DEF reconcileCluster
  <2>2. PICK v \in ClusterObject :
            /\ v.stage = "new" /\ v.uid = server.cluster[c].uid + 1 /\ v.valid = "Unknown"
            /\ server'.cluster = [server.cluster EXCEPT ![c] = v]
    BY <1>0, <2>1, CreateClusterEffect
  <2>3. server.cluster[c].uid \in Nat /\ server.cluster[c].uid = 0
    <3>1. server.cluster[c].uid \in 0 .. MaxUid
      BY <1>0 DEF ClusterObject
    <3> QED
      BY <2>1, <3>1, HubAssumption DEF Orderly
  <2>4. Admissible(c, v)
    BY <1>0, <2>1, <2>2, <2>3 DEF Admissible, ClusterInv, UsedOnce, AccessKept, Seen
  <2>5. server'.secret = server.secret
    BY <1>0, <2>1, CreateClusterEffect DEF Keeps, Kinds
  <2> QED
    BY <1>2, <2>2, <2>4, <2>5, ClusterWrite
<1>5. CASE ensureOwnerReferences(c) /\ server' # server
  <2> DEFINE v == [exists |-> TRUE, owner |-> Seen("cluster")[c].uid]
  <2>1. v \in SecretObject /\ v.exists /\ v.owner = Seen("cluster")[c].uid
    BY <1>0 DEF SecretObject, ClusterObject
  <2>2. /\ Seen("cluster")[c].stage \in {"new", "live"} /\ server'.cluster = server.cluster
        /\ server'.secret = [server.secret EXCEPT ![c] = v]
    BY <1>0, <1>5, ensureOwnerReferencesEffect DEF Keeps, Kinds
  <2> HIDE DEF v
  <2>3. v.owner = 1 /\ server.cluster[c].uid = 1
    BY <2>1, <2>2, SeenCluster
  <2> QED
    BY <1>2, <2>1, <2>2, <2>3, SecretWrite
<1>6. CASE ClusterFinalizer(c)
  <2>1. PICK v \in ClusterObject :
                /\ server'.cluster = [server.cluster EXCEPT ![c] = v]
                /\ v.uid = server.cluster[c].uid
                /\ \/ server.cluster[c].stage = "new" /\ v.stage = "live" /\ v.valid = server.cluster[c].valid
                   \/ server.cluster[c].stage = "deleted" /\ v.stage = "absent" /\ v.valid = "Unknown"
    BY <1>0, <1>6, ClusterFinalizerEffect
  <2>2. Admissible(c, v)
    BY <2>1 DEF Admissible, ClusterInv, UsedOnce, AccessKept
  <2>3. server'.secret = server.secret
    BY <1>0, <1>6, ClusterFinalizerEffect DEF Keeps, Kinds
  <2> QED
    BY <1>2, <2>1, <2>2, <2>3, ClusterWrite
<1>7. CASE setConditions(c) /\ server' # server
  <2>1. PICK valid \in {"True", "False"} :
            /\ server.cluster[c].stage # "absent"
            /\ server'.cluster = [server.cluster EXCEPT ![c] = [server.cluster[c] EXCEPT !.valid = valid]]
    BY <1>0, <1>7, setConditionsEffect
  <2> DEFINE v == [server.cluster[c] EXCEPT !.valid = valid]
  <2>2. v \in ClusterObject /\ v.stage = server.cluster[c].stage /\ v.uid = server.cluster[c].uid /\ v.valid = valid
    BY <1>0 DEF ClusterObject
  <2>3. server'.cluster = [server.cluster EXCEPT ![c] = v] /\ server'.secret = server.secret
    BY <1>0, <1>7, <2>1, setConditionsEffect DEF Keeps, Kinds
  <2> HIDE DEF v
  <2>4. Admissible(c, v)
    BY <2>2 DEF Admissible, ClusterInv, UsedOnce, AccessKept
  <2> QED
    BY <1>2, <2>2, <2>3, <2>4, ClusterWrite
<1>8. CASE ClusterDeleted(c) /\ server' # server
  <2> DEFINE v == [server.cluster[c] EXCEPT !.stage = "deleted"]
  <2>1. /\ v \in ClusterObject /\ v.stage = "deleted" /\ v.uid = server.cluster[c].uid
        /\ v.valid = server.cluster[c].valid
    BY <1>0 DEF ClusterObject, Stages
  <2>2. /\ server.cluster[c].stage = "deleting" /\ server'.secret = server.secret
        /\ server'.cluster = [server.cluster EXCEPT ![c] = v]
    BY <1>0, <1>8, ClusterDeletedEffect DEF Keeps, Kinds
  <2> HIDE DEF v
  <2>3. Admissible(c, v)
    BY <2>1, <2>2 DEF Admissible, ClusterInv, UsedOnce, AccessKept
  <2> QED
    BY <1>2, <2>1, <2>2, <2>3, ClusterWrite
<1>9. CASE deletePlugins(c)
  <2>1. ASSUME NEW ps, server' = [server EXCEPT !.plugin = DeletedPlugins(ps)] PROVE ClusterInv'
    BY <1>0, <1>2, <2>1, DeletionTyped, PluginsWritten, ClusterKept DEF Keeps, Kinds
  <2> QED
    BY <1>3, <1>8, <1>9, <2>1 DEF deletePlugins
<1>10. CASE deleteClusterRoleBindingInRemoteCluster(c)
  BY <1>3, <1>8, <1>10 DEF deleteClusterRoleBindingInRemoteCluster
<1> QED
  BY <1>1, <1>3, <1>4, <1>5, <1>6, <1>7, <1>9, <1>10 DEF ClusterStep, ClusterEnsureCreated, ClusterEnsureCreatedFails

\* and of the others.
LEMMA ClusterInvOfOthers ==
    ASSUME TypeOK, ClusterInv, PluginNext \/ PresetStep
    PROVE  ClusterInv'
<1>0. server \in Objects /\ cache \in Objects
  BY DEF TypeOK
<1>1. cache' = cache
  BY DEF PluginNext, PluginStep, PluginFinalizer, ensureHelmRelease, EnsureFluxSuspended, EnsureFluxDeleted,
         Install, Uninstall,
         PresetStep, PresetFinalizer, PresetEnsureCreated, PresetEnsureDeleted, PassEnds,
         isPluginManagedByPreset, reconcilePluginPreset
<1>2. server'.cluster = server.cluster /\ server'.secret = server.secret
  <2>1. ASSUME NEW p \in Plugins, PluginStep(p) PROVE server'.cluster = server.cluster /\ server'.secret = server.secret
    <3>1. CASE PluginFinalizer(p)
      BY <1>0, <3>1, PluginFinalizerEffect DEF Keeps, Kinds
    <3>2. CASE ensureHelmRelease(p)
      BY <1>0, <3>2, ensureHelmReleaseEffect DEF Keeps, Kinds
    <3>3. CASE EnsureFluxDeleted(p)
      BY <1>0, <3>3, EnsureFluxDeletedEffect DEF Keeps, Kinds
    <3>4. CASE Install(p)
      BY <3>4 DEF Install
    <3>5. CASE Uninstall(p)
      BY <1>0, <3>5, UninstallEffect DEF Keeps, Kinds
    <3>6. CASE EnsureFluxSuspended(p)
      BY <1>0, <3>6, EnsureFluxSuspendedEffect DEF Keeps, Kinds
    <3> QED
      BY <2>1, <3>1, <3>2, <3>3, <3>4, <3>5, <3>6 DEF PluginStep
  <2>2. CASE PresetFinalizer
    BY <1>0, <2>2, PresetFinalizerEffect DEF Keeps, Kinds
  <2>3. CASE PresetEnsureCreated
    BY <1>0, <2>3, PresetEnsureCreatedEffect DEF Keeps, Kinds
  <2>4. CASE PresetEnsureDeleted
    BY <1>0, <2>4, PresetEnsureDeletedEffect DEF Keeps, Kinds
  <2>5. CASE server' = server
    BY <2>5
  <2>6. ASSUME NEW c \in Clusters, reconcilePluginPreset(c)
        PROVE  server'.cluster = server.cluster /\ server'.secret = server.secret
    <3>1. PICK p \in Plugins : p = generatePluginName(c)
      BY DEF generatePluginName, Plugins
    <3>2. CASE CreatePlugin(p, TRUE)
      BY <1>0, <3>2, CreatePluginEffect DEF Keeps, Kinds
    <3>3. CASE server' = [server EXCEPT !.plugin[p].managed = TRUE, !.plugin[p].owned = TRUE]
      BY <1>0, <3>3, AdoptEffect DEF Keeps, Kinds
    <3> QED
      BY <2>6, <3>1, <3>2, <3>3 DEF reconcilePluginPreset
  <2> QED
    BY <2>1, <2>2, <2>3, <2>4, <2>5, <2>6 DEF PluginNext, PresetStep, PassEnds, isPluginManagedByPreset
<1> QED
  BY <1>1, <1>2, ClusterKept

\* ClusterInv is preserved
LEMMA ClusterInvStep ==
    ASSUME TypeOK, ClusterInv, Orderly, [Next]_vars
    PROVE  ClusterInv'
<1>1. CASE UNCHANGED vars
  BY <1>1, ClusterKept DEF vars
<1> QED
  BY <1>1, ClusterInvOfHub, ClusterInvOfClusters, ClusterInvOfOthers DEF Next

\* and holds at the beginning.
LEMMA ClusterInvInit == Init => ClusterInv
  BY DEF Init, Empty, NoSecret, ClusterInv, UsedOnce, AccessKept

-----------------------------------------------------------------------------
(* The Plugins of a Cluster that leaves. *)

\* Steps that touch no Cluster, create no Plugin and take no HelmRelease away that
\* is still needed.
LEMMA TimelyKept ==
    ASSUME PluginsInTime,
           \A p \in Plugins : server'.plugin[p].stage # "absent" => server.plugin[p].stage # "absent",
           \A p \in Plugins : p \in installed' \ (RetainPlugins \cup late) /\ clusterOf(p) \notin cutShort =>
               p \in installed /\ (server.release[p] # "absent" => server'.release[p] # "absent"),
           server'.cluster = server.cluster, cache'.cluster = cache.cluster,
           UNCHANGED <<remote, late, cutShort>>, closing' \subseteq closing
    PROVE  PluginsInTime'
  BY DEF PluginsInTime, Left, NeverLive

\* Delete calls create no Plugin.
LEMMA DeletionMakesNone ==
    ASSUME TypeOK, NEW ps, server'.plugin = DeletedPlugins(ps)
    PROVE  \A p \in Plugins : server'.plugin[p].stage # "absent" => server.plugin[p].stage # "absent"
<1> SUFFICES ASSUME NEW p \in Plugins, server.plugin[p].stage = "absent" PROVE server'.plugin[p].stage = "absent"
  OBVIOUS
<1>1. AfterDelete(p) = NoPlugin /\ NoPlugin.stage = "absent"
  BY Deletion DEF TypeOK, NoPlugin
<1> QED
  BY <1>1 DEF DeletedPlugins

\* A Plugin that is created is late unless its Cluster stays.
LEMMA TimelyCreation ==
    ASSUME TypeOK, PluginsInTime, ReleaseFollowsPlugin, ClusterInv,
           NEW p \in Plugins, NEW managed \in BOOLEAN, CreatePlugin(p, managed),
           cache' = cache, UNCHANGED <<remote, installed, closing>>
    PROVE  PluginsInTime'
<1> DEFINE v == [stage |-> "new", managed |-> managed, owned |-> managed]
           c == clusterOf(p)
<1>0. server \in Objects /\ server.plugin \in [Plugins -> PluginObject]
  BY DEF TypeOK, Objects
<1>1. server'.plugin = [server.plugin EXCEPT ![p] = v] /\ server'.cluster = server.cluster /\ server'.release = server.release
  BY <1>0, CreatePluginEffect DEF Keeps, Kinds
<1>2. c \in Clusters
  BY DEF clusterOf, Plugins
<1>3. server.plugin[p].stage = "absent" /\ server.release[p] = "absent" /\ server.cluster[c].stage \in Stages
  BY <1>2 DEF CreatePlugin, ReleaseFollowsPlugin, TypeOK, Objects, ClusterObject
<1>4. server.cluster[c].uid = 1
  BY <1>2, SeenCluster DEF CreatePlugin
<1> HIDE DEF v
<1>5. CASE server.cluster[c].stage \in {"new", "live"}
  <2>1. p \notin late /\ late' = late \ {p} /\ cutShort' = cutShort
    BY <1>5 DEF CreatePlugin, PluginsInTime, Left
  <2> QED
    BY <1>0, <1>1, <1>2, <1>3, <1>5, <2>1 DEF PluginsInTime, Left, NeverLive
<1>6. CASE server.cluster[c].stage \notin {"new", "live"}
  <2>1. late' = late \cup {p} /\ cutShort' = cutShort /\ Left(c)
    BY <1>3, <1>4, <1>6 DEF CreatePlugin, Left, Stages
  <2> QED
    BY <1>0, <1>1, <1>2, <1>3, <2>1 DEF PluginsInTime, Left, NeverLive
<1> QED
  BY <1>5, <1>6

\* A write to a Cluster, or to what is in the cluster.
LEMMA TimelyWrite ==
    ASSUME TypeOK, PluginsInTime, NEW c \in Clusters, NEW v \in ClusterObject,
           server'.cluster = [server.cluster EXCEPT ![c] = v],
           server'.plugin = server.plugin, server'.release = server.release,
           cache' = cache, UNCHANGED <<installed, late>>, closing' \subseteq closing, cutShort \subseteq cutShort',
           \A d \in Clusters \ {c} : remote'[d] = remote[d],
           v.stage = "new" \/ v.uid = 0 => remote'[c] = {},
           Left(c) => v.stage \in {"deleting", "deleted", "absent"} /\ v.uid = 1,
           c \notin cutShort' =>
             \A p \in Plugins : clusterOf(p) = c /\ p \notin late /\ server.plugin[p].stage # "absent" =>
               \/ v.stage \in {"new", "live", "deleting"}
               \/ v.stage = "absent" /\ cache.cluster[c].stage \in {"absent", "new"} /\ remote'[c] = {},
           c \notin cutShort' =>
             \A p \in Plugins : clusterOf(p) = c /\ p \in installed \ (RetainPlugins \cup late) =>
               v.stage \in {"live", "deleting"}
    PROVE  PluginsInTime'
<1>1. server.cluster \in [Clusters -> ClusterObject]
  BY DEF TypeOK, Objects
<1>2. server'.cluster[c] = v /\ \A d \in Clusters \ {c} : server'.cluster[d] = server.cluster[d]
  BY <1>1
<1>3. \A d \in Clusters : server'.cluster[d].stage = "new" \/ server'.cluster[d].uid = 0 => remote'[d] = {}
  BY <1>2 DEF PluginsInTime
<1> SUFFICES ASSUME NEW p \in Plugins
    PROVE  LET d == clusterOf(p)
               left == server'.cluster[d].stage \in {"deleting", "deleted", "absent"} /\ server'.cluster[d].uid = 1
           IN  /\ d \in closing' => left /\ (server.plugin[p].stage # "absent" => p \in late)
               /\ p \in late => left
               /\ p \notin late /\ d \notin cutShort' /\ server.plugin[p].stage # "absent" =>
                     \/ server'.cluster[d].stage \in {"new", "live", "deleting"}
                     \/ server'.cluster[d].stage = "absent" /\ cache.cluster[d].stage \in {"absent", "new"} /\ remote'[d] = {}
               /\ p \in installed \ (RetainPlugins \cup late) /\ d \notin cutShort' =>
                     server.release[p] # "absent" /\ server'.cluster[d].stage \in {"live", "deleting"}
  BY <1>3 DEF PluginsInTime, Left, NeverLive
<1>4. PICK d \in Clusters : d = clusterOf(p)
  BY DEF clusterOf, Plugins
<1>5. CASE d = c
  BY <1>2, <1>4, <1>5 DEF PluginsInTime, Left
<1>6. CASE d # c
  BY <1>2, <1>4, <1>6 DEF PluginsInTime, Left, NeverLive
<1> QED
  BY <1>5, <1>6

\* PluginsInTime through the steps of users, the garbage collector and the cache,
LEMMA TimelyOfHub ==
    ASSUME TypeOK, ClusterInv, PluginsInTime, ReleaseFollowsPlugin, Orderly, HubNext
    PROVE  PluginsInTime'
<1>0. /\ server \in Objects /\ cache \in Objects
      /\ server.cluster \in [Clusters -> ClusterObject] /\ cache.cluster \in [Clusters -> ClusterObject]
  BY DEF TypeOK, Objects
<1>1. ASSUME NEW c \in Clusters, CollectSecret(c) PROVE PluginsInTime'
  BY <1>0, <1>1, CollectSecretEffect, TimelyKept DEF CollectSecret, passes, Keeps, Kinds
<1>2. ASSUME NEW c \in Clusters, Onboard(c) PROVE PluginsInTime'
  BY <1>0, <1>2, OnboardEffect, TimelyKept DEF Onboard, Edit, passes, Keeps, Kinds
<1>3. ASSUME NEW c \in Clusters, Offboard(c) PROVE PluginsInTime'
  <2> DEFINE v == [server.cluster[c] EXCEPT !.stage = Deleting(server.cluster[c].stage)]
  <2>1. v \in ClusterObject /\ v.uid = server.cluster[c].uid
    BY <1>0 DEF ClusterObject, Stages, Deleting
  <2>2. \/ server.cluster[c].stage = "new" /\ v.stage = "absent"
        \/ server.cluster[c].stage = "live" /\ v.stage = "deleting"
    BY <1>0, <1>3 DEF Offboard, ClusterObject, Deleting
  <2>3. /\ server'.cluster = [server.cluster EXCEPT ![c] = v]
        /\ server'.plugin = server.plugin /\ server'.release = server.release
    BY <1>0, <1>3, OffboardEffect DEF Keeps, Kinds
  <2> HIDE DEF v
  <2>4. v.uid = 1
    BY <2>1, <2>2 DEF ClusterInv, UsedOnce
  <2>5. server.cluster[c].stage = "new" => cache.cluster[c].stage \in {"absent", "new"} /\ remote[c] = {}
    BY <1>0 DEF ClusterInv, UsedOnce, PluginsInTime, ClusterObject, Stages
  <2>6. ~Left(c)
    BY <2>2 DEF Left
  <2>7. c \notin cutShort =>
          \A p \in Plugins : clusterOf(p) = c /\ p \in installed \ (RetainPlugins \cup late) => v.stage \in {"live", "deleting"}
    BY <2>2 DEF PluginsInTime
  <2>8. cache' = cache /\ UNCHANGED <<installed, history, remote>> /\ closing' = closing
    BY <1>3 DEF Offboard, Edit, passes
  <2> QED
    BY <2>1, <2>2, <2>3, <2>4, <2>5, <2>6, <2>7, <2>8, TimelyWrite
<1>4. ASSUME NEW c \in Clusters, Relabel(c) PROVE PluginsInTime'
  <2> DEFINE v == [server.cluster[c] EXCEPT !.match = ~server.cluster[c].match]
  <2>1. v \in ClusterObject /\ v.uid = server.cluster[c].uid /\ v.stage = server.cluster[c].stage /\ v.stage = "live"
    BY <1>0, <1>4 DEF ClusterObject, Relabel
  <2>2. /\ server'.cluster = [server.cluster EXCEPT ![c] = v]
        /\ server'.plugin = server.plugin /\ server'.release = server.release
    BY <1>0, <1>4, RelabelEffect DEF Keeps, Kinds
  <2> HIDE DEF v
  <2>3. v.uid = 1 /\ ~Left(c)
    BY <2>1 DEF ClusterInv, UsedOnce, Left
  <2>4. cache' = cache /\ UNCHANGED <<installed, history, remote>> /\ closing' = closing
    BY <1>4 DEF Relabel, Edit, passes
  <2> QED
    BY <2>1, <2>2, <2>3, <2>4, TimelyWrite
<1>5. ASSUME NEW c \in Clusters, Outage(c) \/ Recover(c) PROVE PluginsInTime'
  BY <1>5, TimelyKept DEF Outage, Recover, passes
<1>6. ASSUME NEW p \in Plugins, CollectPlugin(p) PROVE PluginsInTime'
  <2>1. \A q \in Plugins : server'.plugin[q].stage # "absent" => server.plugin[q].stage # "absent"
    BY <1>0, <1>6, CollectPluginEffect, DeletionMakesNone
  <2> QED
    BY <1>0, <1>6, <2>1, CollectPluginEffect, TimelyKept DEF CollectPlugin, passes, Keeps, Kinds
<1>7. ASSUME NEW p \in Plugins, UserCreatesPlugin(p) PROVE PluginsInTime'
  BY <1>7, TimelyCreation DEF UserCreatesPlugin, Edit, passes
<1>8. ASSUME NEW k \in Kinds, Deliver(k) PROVE PluginsInTime'
  <2>1. cache'.cluster \in {cache.cluster, server.cluster}
    BY <1>0, <1>8 DEF Deliver, Objects, Kinds
  <2> QED
    BY <1>8, <2>1 DEF Deliver, passes, PluginsInTime, Left, NeverLive
<1>9. CASE CreatePreset
  BY <1>0, <1>9, CreatePresetEffect, TimelyKept DEF CreatePreset, Edit, passes, Keeps, Kinds
<1>10. CASE DeletePreset
  BY <1>0, <1>10, DeletePresetEffect, TimelyKept DEF DeletePreset, Edit, passes, Keeps, Kinds
<1>11. CASE Restart
  <2>1. cache'.cluster \in {cache.cluster, server.cluster}
    BY <1>11 DEF Restart, Kinds
  <2> QED
    BY <1>11, <2>1 DEF Restart, PluginsInTime, Left, NeverLive
<1> QED
  BY <1>1, <1>2, <1>3, <1>4, <1>5, <1>6, <1>7, <1>8, <1>9, <1>10, <1>11 DEF HubNext

\* of the controllers of clusters, which give the access up only when no Plugin is left,
LEMMA TimelyOfClusters ==
    ASSUME TypeOK, ClusterInv, PluginsInTime, ReleaseFollowsPlugin, Orderly, ClusterNext
    PROVE  PluginsInTime'
<1>0. /\ server \in Objects /\ cache \in Objects
      /\ server.cluster \in [Clusters -> ClusterObject] /\ remote \in [Clusters -> SUBSET Bootstrap]
      /\ Seen("plugin") = server.plugin
  BY FreshReads DEF TypeOK, Objects, Orderly
<1>1. PICK c \in Clusters : ClusterStep(c) \/ ClusterEnsureCreatedFails(c)
  BY DEF ClusterNext
<1>2. cache' = cache /\ UNCHANGED <<installed, late>>
  BY <1>1 DEF ClusterStep, reconcileCluster, ensureOwnerReferences, ClusterFinalizer, ClusterEnsureCreated,
              ClusterEnsureCreatedFails, deletePlugins, deleteClusterRoleBindingInRemoteCluster
<1>3. CASE reconcileCluster(c) /\ server' # server
  <2>1. /\ server.cluster[c].stage = "absent" /\ server.cluster[c].uid + 1 <= MaxUid
        /\ PutCluster(c, [Empty.cluster[c] EXCEPT !.stage = "new", !.uid = server.cluster[c].uid + 1])
        /\ UNCHANGED <<remote, closing, cutShort>>
    BY <1>3 DEF reconcileCluster
  <2>2. PICK v \in ClusterObject : v.stage = "new" /\ server'.cluster = [server.cluster EXCEPT ![c] = v]
    BY <1>0, <2>1, CreateClusterEffect
  <2>3. server.cluster[c].uid = 0
    <3>1. server.cluster[c].uid \in 0 .. MaxUid
      BY <1>0 DEF ClusterObject
    <3> QED
      BY <2>1, <3>1, HubAssumption DEF Orderly
  <2>4. remote[c] = {} /\ ~Left(c)
    BY <2>3 DEF PluginsInTime, Left
  <2>5. c \notin cutShort => \A p \in Plugins : clusterOf(p) = c => p \notin installed \ (RetainPlugins \cup late)
    BY <2>1 DEF PluginsInTime
  <2>6. server'.plugin = server.plugin /\ server'.release = server.release
    BY <1>0, <2>1, CreateClusterEffect DEF Keeps, Kinds
  <2> QED
    BY <1>2, <2>1, <2>2, <2>4, <2>5, <2>6, TimelyWrite
<1>4. CASE reconcileCluster(c) /\ server' = server
  BY <1>2, <1>4, TimelyKept DEF reconcileCluster
<1>5. CASE ensureOwnerReferences(c)
  BY <1>0, <1>2, <1>5, ensureOwnerReferencesEffect, TimelyKept DEF ensureOwnerReferences, Keeps, Kinds
<1>6. CASE ClusterFinalizer(c)
  <2>1. PICK v \in ClusterObject :
                /\ server'.cluster = [server.cluster EXCEPT ![c] = v]
                /\ v.uid = server.cluster[c].uid
                /\ \/ server.cluster[c].stage = "new" /\ v.stage = "live"
                   \/ server.cluster[c].stage = "deleted" /\ v.stage = "absent"
    BY <1>0, <1>6, ClusterFinalizerEffect
  <2>2. /\ server'.plugin = server.plugin /\ server'.release = server.release
        /\ UNCHANGED <<remote, closing, cutShort>>
    BY <1>0, <1>6, ClusterFinalizerEffect DEF ClusterFinalizer, passes, Keeps, Kinds
  <2>3. v.uid = 1
    BY <2>1 DEF ClusterInv, UsedOnce
  <2>4. server.cluster[c].stage = "deleted" /\ c \notin cutShort =>
            \A p \in Plugins : clusterOf(p) = c =>
                /\ p \in late \/ server.plugin[p].stage = "absent"
                /\ p \notin installed \ (RetainPlugins \cup late)
    BY DEF PluginsInTime, NeverLive
  <2>5. Left(c) => server.cluster[c].stage = "deleted"
    BY <2>1 DEF Left
  <2> QED
    BY <1>2, <2>1, <2>2, <2>3, <2>4, <2>5, TimelyWrite
<1>7. CASE ClusterEnsureCreated(c) \/ ClusterEnsureCreatedFails(c)
  <2>1. PICK v \in ClusterObject : /\ server'.cluster = [server.cluster EXCEPT ![c] = v]
                                   /\ v.uid = server.cluster[c].uid /\ v.stage = server.cluster[c].stage
    <3>1. \A x \in {"True", "False"} :
            LET v == [server.cluster[c] EXCEPT !.valid = x]
            IN  v \in ClusterObject /\ v.uid = server.cluster[c].uid /\ v.stage = server.cluster[c].stage
      BY <1>0 DEF ClusterObject
    <3>2. server.cluster = [server.cluster EXCEPT ![c] = server.cluster[c]]
      BY <1>0
    <3>3. setConditions(c)
      BY <1>7 DEF ClusterEnsureCreated, ClusterEnsureCreatedFails
    <3>4. CASE server' = server
      BY <1>0, <3>2, <3>4
    <3>5. CASE \E x \in {"True", "False"} :
                 server'.cluster = [server.cluster EXCEPT ![c] = [server.cluster[c] EXCEPT !.valid = x]]
      BY <3>1, <3>5
    <3> QED
      BY <1>0, <3>3, <3>4, <3>5, setConditionsEffect
  <2>2. /\ server'.plugin = server.plugin /\ server'.release = server.release
        /\ UNCHANGED <<closing, cutShort>> /\ \A d \in Clusters \ {c} : remote'[d] = remote[d]
    <3>1. setConditions(c) /\ UNCHANGED <<closing, cutShort>>
      BY <1>7 DEF ClusterEnsureCreated, ClusterEnsureCreatedFails, passes
    <3>2. server'.plugin = server.plugin /\ server'.release = server.release
      BY <1>0, <3>1, setConditionsEffect DEF Keeps, Kinds
    <3>3. PICK x : remote' = [remote EXCEPT ![c] = x]
      BY <1>7 DEF ClusterEnsureCreated, ClusterEnsureCreatedFails
    <3> QED
      BY <1>0, <3>1, <3>2, <3>3
  <2>3. v.uid = 1 /\ v.stage # "new" /\ ~NeverLive(c)
    BY <1>7, <2>1, SeenCluster DEF ClusterEnsureCreated, ClusterEnsureCreatedFails, NeverLive
  <2> QED
    BY <1>2, <2>1, <2>2, <2>3, TimelyWrite DEF PluginsInTime, Left
<1>8. CASE deletePlugins(c)
  <2> DEFINE found == {p \in Plugins : clusterOf(p) = c /\ Seen("plugin")[p].stage # "absent"}
  <2>1. Seen("cluster")[c].stage = "deleting" /\ remote' = remote
    BY <1>8 DEF deletePlugins
  <2>2. CASE server' = [server EXCEPT !.plugin = DeletedPlugins(found)] /\ UNCHANGED <<closing, cutShort>>
    <3> HIDE DEF found
    <3>1. server'.plugin = DeletedPlugins(found) /\ Keeps({"plugin"})
      BY <1>0, <2>2, DeletionTyped, PluginsWritten
    <3>2. \A q \in Plugins : server'.plugin[q].stage # "absent" => server.plugin[q].stage # "absent"
      BY <3>1, DeletionMakesNone
    <3> QED
      BY <1>2, <2>1, <2>2, <3>1, <3>2, TimelyKept DEF Keeps, Kinds
  <2>3. CASE found = {} /\ closing' = closing \cup {c} /\ UNCHANGED <<server, cutShort>>
    <3>1. \A p \in Plugins : clusterOf(p) = c => server.plugin[p].stage = "absent"
      BY <1>0, <2>3
    <3>2. Left(c)
      BY <2>1, SeenCluster DEF Left
    <3> QED
      BY <1>2, <2>1, <2>3, <3>1, <3>2 DEF PluginsInTime, Left, NeverLive
  <2>4. CASE ClusterDeleted(c) /\ closing' = closing /\ cutShort' = cutShort \cup {c}
    <3>1. PICK v \in ClusterObject :
                /\ server'.cluster = [server.cluster EXCEPT ![c] = v] /\ v.uid = server.cluster[c].uid
                /\ v.stage = server.cluster[c].stage \/ (server.cluster[c].stage = "deleting" /\ v.stage = "deleted")
      <4>1. CASE server' = server
        BY <1>0, <4>1
      <4>2. CASE server' # server
        <5> DEFINE v == [server.cluster[c] EXCEPT !.stage = "deleted"]
        <5>1. server.cluster[c].stage = "deleting" /\ server'.cluster = [server.cluster EXCEPT ![c] = v]
          BY <1>0, <2>4, <4>2, ClusterDeletedEffect
        <5>2. v \in ClusterObject /\ v.stage = "deleted" /\ v.uid = server.cluster[c].uid
          BY <1>0 DEF ClusterObject, Stages
        <5> QED
          BY <5>1, <5>2
      <4> QED
        BY <4>1, <4>2
    <3>2. server'.plugin = server.plugin /\ server'.release = server.release
      BY <1>0, <2>4, ClusterDeletedEffect DEF Keeps, Kinds
    <3>3. v.stage = "new" \/ v.uid = 0 => remote'[c] = {}
      BY <2>1, <3>1 DEF PluginsInTime
    <3> QED
      BY <1>2, <2>1, <2>4, <3>1, <3>2, <3>3, TimelyWrite DEF Left
  <2> QED
    BY <1>8, <2>1, <2>2, <2>3, <2>4 DEF deletePlugins
<1>9. CASE deleteClusterRoleBindingInRemoteCluster(c)
  <2>1. /\ c \in closing /\ closing' = closing \ {c} /\ cutShort' = cutShort
        /\ \A d \in Clusters \ {c} : remote'[d] = remote[d]
        /\ remote[c] = {} => remote'[c] = {}
    BY <1>0, <1>9 DEF deleteClusterRoleBindingInRemoteCluster
  <2>2. \A p \in Plugins : clusterOf(p) = c =>
            /\ p \in late \/ server.plugin[p].stage = "absent"
            /\ c \notin cutShort => p \notin installed \ (RetainPlugins \cup late)
    BY <2>1 DEF PluginsInTime, ReleaseFollowsPlugin
  <2>3. CASE server' = server
    <3>1. server.cluster[c] \in ClusterObject /\ server'.cluster = [server.cluster EXCEPT ![c] = server.cluster[c]]
      BY <1>0, <2>3
    <3> QED
      BY <1>2, <2>1, <2>2, <2>3, <3>1, TimelyWrite DEF PluginsInTime, Left
  <2>4. CASE ClusterDeleted(c) /\ server' # server
    <3> DEFINE v == [server.cluster[c] EXCEPT !.stage = "deleted"]
    <3>1. /\ server.cluster[c].stage = "deleting" /\ server'.cluster = [server.cluster EXCEPT ![c] = v]
          /\ server'.plugin = server.plugin /\ server'.release = server.release
      BY <1>0, <2>4, ClusterDeletedEffect DEF Keeps, Kinds
    <3>2. v \in ClusterObject /\ v.stage = "deleted" /\ v.uid = server.cluster[c].uid
      BY <1>0 DEF ClusterObject, Stages
    <3> HIDE DEF v
    <3>3. v.uid = 1
      BY <3>1, <3>2 DEF ClusterInv, UsedOnce
    <3> QED
      BY <1>2, <2>1, <2>2, <3>1, <3>2, <3>3, TimelyWrite
  <2> QED
    BY <1>9, <2>3, <2>4 DEF deleteClusterRoleBindingInRemoteCluster
<1> QED
  BY <1>1, <1>3, <1>4, <1>5, <1>6, <1>7, <1>8, <1>9 DEF ClusterStep

\* of the Plugin controller and Flux,
LEMMA TimelyOfPlugins ==
    ASSUME TypeOK, ClusterInv, PluginsInTime, ReleaseFollowsPlugin, Orderly, PluginNext
    PROVE  PluginsInTime'
<1>0. /\ server \in Objects /\ cache \in Objects
      /\ server.plugin \in [Plugins -> PluginObject] /\ server.release \in [Plugins -> Releases]
      /\ Seen("release") = server.release
  BY FreshReads DEF TypeOK, Objects, Orderly
<1>1. PICK p \in Plugins : PluginStep(p)
  BY DEF PluginNext
<1>2. cache' = cache /\ UNCHANGED <<remote, history, closing>>
  BY <1>1 DEF PluginStep, PluginFinalizer, ensureHelmRelease, EnsureFluxSuspended, EnsureFluxDeleted,
              Install, Uninstall, passes
<1>3. CASE PluginFinalizer(p)
  <2>1. \A q \in Plugins : server'.plugin[q].stage # "absent" => server.plugin[q].stage # "absent"
    BY <1>0, <1>3, PluginFinalizerEffect
  <2> QED
    BY <1>0, <1>2, <1>3, <2>1, PluginFinalizerEffect, TimelyKept DEF PluginFinalizer, Keeps, Kinds
<1>4. CASE ensureHelmRelease(p)
  <2>1. \A q \in Plugins : server.release[q] # "absent" => server'.release[q] # "absent"
    BY <1>0, <1>4, ensureHelmReleaseEffect
  <2> QED
    BY <1>0, <1>2, <1>4, <2>1, ensureHelmReleaseEffect, TimelyKept DEF ensureHelmRelease, Keeps, Kinds
<1>5. CASE EnsureFluxDeleted(p)
  <2>1. \A q \in Plugins : server.release[q] # "absent" => server'.release[q] # "absent"
    BY <1>0, <1>5, EnsureFluxDeletedEffect
  <2>2. \A q \in Plugins : server'.plugin[q].stage # "absent" => server.plugin[q].stage # "absent"
    BY <1>0, <1>5, EnsureFluxDeletedEffect
  <2>3. server'.cluster = server.cluster /\ installed' = installed
    BY <1>0, <1>5, EnsureFluxDeletedEffect DEF EnsureFluxDeleted, Keeps, Kinds
  <2> QED
    BY <1>2, <2>1, <2>2, <2>3, TimelyKept
<1>6. CASE Install(p)
  <2>1. PICK c \in Clusters : c = clusterOf(p)
    BY DEF clusterOf, Plugins
  <2>2. server.plugin[p].stage # "absent" /\ remote[c] # {} /\ server.release[p] # "absent"
    BY <1>6, <2>1 DEF Install, Usable, ReleaseFollowsPlugin
  <2>3. p \notin late /\ c \notin cutShort => server.cluster[c].stage \in {"live", "deleting"}
    BY <2>1, <2>2 DEF PluginsInTime, NeverLive
  <2> QED
    BY <1>2, <1>6, <2>1, <2>2, <2>3 DEF Install, PluginsInTime, Left, NeverLive
<1>7. CASE Uninstall(p)
  <2>1. server'.release = [server.release EXCEPT ![p] = "absent"] /\ server'.cluster = server.cluster
        /\ server'.plugin = server.plugin
    BY <1>0, <1>7, UninstallEffect DEF Keeps, Kinds
  <2>2. PICK c \in Clusters : c = clusterOf(p)
    BY DEF clusterOf, Plugins
  <2>3. p \in installed \ (RetainPlugins \cup late) /\ c \notin cutShort => server.secret[c].exists
    BY <2>2 DEF PluginsInTime, ClusterInv, AccessKept
  <2>4. /\ p \in installed' \ (RetainPlugins \cup late) => c \in cutShort
        /\ installed' \subseteq installed
    BY <1>7, <2>2, <2>3 DEF Uninstall, ReleaseFollowsPlugin
  <2> QED
    BY <1>0, <1>2, <2>1, <2>2, <2>4, TimelyKept
<1>8. CASE EnsureFluxSuspended(p)
  <2>1. \A q \in Plugins : server.release[q] # "absent" => server'.release[q] # "absent"
    BY <1>0, <1>8, EnsureFluxSuspendedEffect
  <2> QED
    BY <1>0, <1>2, <1>8, <2>1, EnsureFluxSuspendedEffect, TimelyKept DEF EnsureFluxSuspended, Keeps, Kinds
<1> QED
  BY <1>1, <1>3, <1>4, <1>5, <1>6, <1>7, <1>8 DEF PluginStep

\* and of the PluginPreset controller.
LEMMA TimelyOfPresets ==
    ASSUME TypeOK, ClusterInv, PluginsInTime, ReleaseFollowsPlugin, PresetStep
    PROVE  PluginsInTime'
<1>0. /\ server \in Objects /\ cache \in Objects /\ server.plugin \in [Plugins -> PluginObject]
  BY DEF TypeOK, Objects
<1>1. cache' = cache /\ UNCHANGED <<remote, installed, closing>>
  BY DEF PresetStep, PresetFinalizer, PresetEnsureCreated, PresetEnsureDeleted, PassEnds,
         isPluginManagedByPreset, reconcilePluginPreset, passes
<1>2. CASE server' = server /\ UNCHANGED history
  BY <1>1, <1>2, TimelyKept
<1>3. CASE PresetFinalizer
  BY <1>0, <1>1, <1>3, PresetFinalizerEffect, TimelyKept DEF PresetFinalizer, Keeps, Kinds
<1>4. CASE PresetEnsureCreated
  <2>1. \A q \in Plugins : server'.plugin[q].stage # "absent" => server.plugin[q].stage # "absent"
    BY <1>0, <1>4, PresetEnsureCreatedEffect, DeletionMakesNone
  <2> QED
    BY <1>0, <1>1, <1>4, <2>1, PresetEnsureCreatedEffect, TimelyKept DEF PresetEnsureCreated, Keeps, Kinds
<1>5. CASE PresetEnsureDeleted
  <2>1. \A q \in Plugins : server'.plugin[q].stage # "absent" => server.plugin[q].stage # "absent"
    <3>1. CASE Seen("preset").policy = "Retain"
      <4>1. \A q \in Plugins : server'.plugin[q] \in {server.plugin[q], [server.plugin[q] EXCEPT !.owned = FALSE]}
        BY <1>0, <1>5, <3>1, PresetEnsureDeletedEffect
      <4> QED
        BY <1>0, <4>1 DEF PluginObject
    <3>2. CASE Seen("preset").policy # "Retain"
      BY <1>0, <1>5, <3>2, PresetEnsureDeletedEffect, DeletionMakesNone
    <3> QED
      BY <3>1, <3>2
  <2> QED
    BY <1>0, <1>1, <1>5, <2>1, PresetEnsureDeletedEffect, TimelyKept DEF PresetEnsureDeleted, Keeps, Kinds
<1>6. ASSUME NEW c \in Clusters, reconcilePluginPreset(c) PROVE PluginsInTime'
  <2>1. PICK p \in Plugins : p = generatePluginName(c)
    BY DEF generatePluginName, Plugins
  <2>2. CASE CreatePlugin(p, TRUE)
    BY <1>1, <2>2, TimelyCreation
  <2>3. CASE UNCHANGED history /\ server' = [server EXCEPT !.plugin[p].managed = TRUE, !.plugin[p].owned = TRUE]
    <3>1. PICK v \in PluginObject : v.stage = server.plugin[p].stage /\ server'.plugin = [server.plugin EXCEPT ![p] = v]
      BY <1>0, <2>3, AdoptEffect
    <3>2. \A q \in Plugins : server'.plugin[q].stage # "absent" => server.plugin[q].stage # "absent"
      BY <1>0, <3>1
    <3> QED
      BY <1>0, <1>1, <2>3, <3>2, AdoptEffect, TimelyKept DEF Keeps, Kinds
  <2> QED
    BY <1>2, <1>6, <2>1, <2>2, <2>3 DEF reconcilePluginPreset
<1> QED
  BY <1>2, <1>3, <1>4, <1>5, <1>6 DEF PresetStep, PassEnds, isPluginManagedByPreset

OffboardingInv == TypeOK /\ ReleaseFollowsPlugin /\ ClusterInv /\ PluginsInTime

\* The invariant of the two theorems below holds at the beginning
LEMMA OffboardingInit == Init => OffboardingInv
<1>1. Init => PluginsInTime
  BY DEF Init, Empty, NoPlugin, PluginsInTime, Left, NeverLive
<1> QED
  BY <1>1, TypesInit, ReleaseInit, ClusterInvInit DEF OffboardingInv

\* and is preserved.
LEMMA OffboardingStep ==
    ASSUME Orderly, OffboardingInv, [Next]_vars
    PROVE  OffboardingInv'
<1>1. TypeOK' /\ ReleaseFollowsPlugin' /\ ClusterInv'
  <2>1. Fresh({"plugin", "release"})
    BY DEF Orderly, Fresh
  <2> QED
    BY <2>1, TypesStep, ReleaseStep, ClusterInvStep DEF OffboardingInv
<1>2. PluginsInTime'
  <2>1. CASE UNCHANGED vars
    BY <2>1, TimelyKept DEF vars, passes, OffboardingInv
  <2> QED
    BY <2>1, TimelyOfHub, TimelyOfClusters, TimelyOfPlugins, TimelyOfPresets DEF Next, OffboardingInv
<1> QED
  BY <1>1, <1>2 DEF OffboardingInv

\* A Plugin keeps its finalizer until Flux has uninstalled its Helm release (plugin
\* deletion, plugin_controller.go), whatever is deleted first, however often the cluster
\* is out of reach, calls fail and the operator restarts, and however outdated the
\* Clusters, Secrets and PluginPresets are that are read; the exception is a Cluster
\* whose deletion was cut short.
THEOREM PluginsWait ==
    ASSUME Orderly
    PROVE  Spec => []PluginWaitsForUninstall
<1>1. OffboardingInv => PluginWaitsForUninstall
  BY DEF OffboardingInv, TypeOK, PluginsInTime, ReleaseFollowsPlugin, PluginWaitsForUninstall
<1> QED
  BY <1>1, OffboardingInit, OffboardingStep, PTL DEF Spec

\* Once a Cluster is gone, the Helm releases of the Plugins it had are uninstalled
\* (deletePlugins, cluster_controller.go): no outage, failing call, restart or outdated
\* read of a Cluster, a Secret or a PluginPreset makes it go earlier, unless a pass over
\* it finds KubeConfigValid False.
THEOREM OffboardingIsClean ==
    ASSUME Orderly
    PROVE  Spec => []OffboardingUninstalls
<1>1. OffboardingInv => OffboardingUninstalls
  BY DEF OffboardingInv, TypeOK, PluginsInTime, OffboardingUninstalls
<1> QED
  BY <1>1, OffboardingInit, OffboardingStep, PTL DEF Spec
=============================================================================
