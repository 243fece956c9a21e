-------------------------- MODULE ClusterController --------------------------
(***************************************************************************)
(* The two controllers of clusters.  The bootstrap controller makes a      *)
(* Cluster of each kubeconfig Secret and the Secret the property of the    *)
(* Cluster; the remote cluster controller sets up Greenhouse's access in   *)
(* the cluster and, when the Cluster is deleted, has its Plugins deleted   *)
(* before it gives the access up.  Secrets are of type kubeconfig.         *)
(*                                                                         *)
(* Passes are repeated every ten minutes, so each may begin at any time.   *)
(***************************************************************************)
EXTENDS Hub

\* createOrUpdateCluster: a Cluster that is being deleted is left alone; one that
\* is not in the cache is created, which fails if the API server has it.
reconcileCluster(c) ==
    LET seen == Seen("cluster")[c]
        uid  == server.cluster[c].uid + 1
    IN  /\ c \notin boot
        /\ Seen("secret")[c].exists
        /\ \/ seen.stage # "absent" /\ UNCHANGED server
           \/ /\ seen.stage = "absent" /\ server.cluster[c].stage = "absent"
              /\ uid <= MaxUid
              /\ PutCluster(c, [Empty.cluster[c] EXCEPT !.stage = "new", !.uid = uid])
        /\ boot' = boot \cup {c}
        /\ UNCHANGED <<cache, remote, installed, reachable, closing, suspending, presetPass, history, counts>>

\* The second half of a bootstrap pass reads the Cluster again.
ensureOwnerReferences(c) ==
    LET seen == Seen("cluster")[c]
    IN  /\ c \in boot
        /\ boot' = boot \ {c}
        /\ IF seen.stage \in {"new", "live"} /\ server.secret[c].exists
           THEN PutSecret(c, [exists |-> TRUE, owner |-> seen.uid])
           ELSE UNCHANGED server
        /\ UNCHANGED <<cache, remote, installed, reachable, closing, suspending, presetPass, history, counts>>

-----------------------------------------------------------------------------
\* The finalizer is put on and taken off by an update of the newest version.
ClusterFinalizer(c) ==
    LET seen == Seen("cluster")[c]
    IN  /\ seen = server.cluster[c]
        /\ \/ seen.stage = "new" /\ PutCluster(c, [seen EXCEPT !.stage = "live"])
           \/ /\ seen.stage = "deleted"
              /\ PutCluster(c, [Empty.cluster[c] EXCEPT !.uid = seen.uid])
        /\ UNCHANGED <<cache, remote, installed, reachable, passes, history, counts>>

\* The status patch of a pass that has read an object reaches the server.
SameCluster(c) ==
    server.cluster[c].stage # "absent" /\ server.cluster[c].uid = Seen("cluster")[c].uid

\* setConditions: KubeConfigValid is False without the Secret or an answer.
setConditions(c) ==
    LET valid == IF Seen("secret")[c].exists /\ c \in reachable THEN "True" ELSE "False"
    IN  IF SameCluster(c) THEN PutCluster(c, [server.cluster[c] EXCEPT !.valid = valid])
        ELSE UNCHANGED server

\* ClusterRoleBinding, Namespace, ServiceAccount and token, in this order.
ClusterEnsureCreated(c) ==
    /\ Seen("cluster")[c].stage = "live"
    /\ remote' = [remote EXCEPT ![c] = IF Seen("secret")[c].exists /\ c \in reachable
                                       THEN Bootstrap ELSE @]
    /\ setConditions(c)
    /\ UNCHANGED <<cache, installed, reachable, passes, history, counts>>

\* The same when a call to the cluster fails in between.
ClusterEnsureCreatedFails(c) ==
    /\ Seen("cluster")[c].stage = "live"
    /\ Seen("secret")[c].exists /\ c \in reachable
    /\ outages < MaxOutages /\ outages' = outages + 1
    /\ \E done \in {{"clusterRoleBinding"}, {"clusterRoleBinding", "namespace"}} :
            remote' = [remote EXCEPT ![c] = @ \cup done]
    /\ setConditions(c)
    /\ UNCHANGED <<cache, installed, reachable, passes, history, edits, restarts>>

\* The Deleted condition: recorded if the Cluster is still the one that was read.
ClusterDeleted(c) ==
    IF SameCluster(c) /\ server.cluster[c].stage = "deleting"
    THEN PutCluster(c, [server.cluster[c] EXCEPT !.stage = "deleted"])
    ELSE UNCHANGED server

\* Mutant: the access is given up while Plugins are still being deleted.
deletePluginsNoWait(c) ==
    /\ c \notin closing
    /\ Seen("cluster")[c].stage = "deleting"
    /\ server' = [server EXCEPT !.plugin =
                    DeletedPlugins({p \in Plugins : clusterOf(p) = c /\ Seen("plugin")[p].stage # "absent"})]
    /\ closing' = closing \cup {c}
    /\ UNCHANGED <<cache, remote, installed, reachable, boot, suspending, presetPass, history, counts>>

\* EnsureDeleted up to its wait for the Plugins.  KubeConfigValid is what the last
\* pass before the deletion has found: a pass that deletes does not set it.
deletePlugins(c) ==
    LET found == {p \in Plugins : clusterOf(p) = c /\ Seen("plugin")[p].stage # "absent"}
    IN  /\ c \notin closing
        /\ Seen("cluster")[c].stage = "deleting"
        /\ \/ /\ Seen("cluster")[c].valid = "False"
              /\ ClusterDeleted(c)
              /\ cutShort' = cutShort \cup {c}
              /\ UNCHANGED closing
           \/ /\ Seen("cluster")[c].valid # "False" /\ found # {}
              /\ server' = [server EXCEPT !.plugin = DeletedPlugins(found)]
              /\ UNCHANGED <<closing, cutShort>>
           \/ /\ Seen("cluster")[c].valid # "False" /\ found = {}
              /\ closing' = closing \cup {c}
              /\ UNCHANGED <<server, cutShort>>
        /\ UNCHANGED <<cache, remote, installed, reachable, boot, suspending, presetPass, late, counts>>

\* The rest of EnsureDeleted.  The ServiceAccount is owned by the
\* ClusterRoleBinding, the Namespace is not.  A cluster that refuses the call as
\* unauthorized or forbidden is left as it is and counts as cleaned up.
deleteClusterRoleBindingInRemoteCluster(c) ==
    /\ c \in closing
    /\ closing' = closing \ {c}
    /\ IF Seen("secret")[c].exists /\ c \in reachable
       THEN /\ \/ remote' = [remote EXCEPT ![c] = @ \ {"clusterRoleBinding", "serviceAccount"}]
               \/ UNCHANGED remote
            /\ ClusterDeleted(c)
       ELSE UNCHANGED <<server, remote>>
    /\ UNCHANGED <<cache, installed, reachable, boot, suspending, presetPass, history, counts>>

\* What the controllers do for a cluster by themselves.
ClusterStep(c) ==
    \/ reconcileCluster(c) \/ ensureOwnerReferences(c)
    \/ ClusterFinalizer(c)
    \/ ClusterEnsureCreated(c)
    \/ deletePlugins(c) \/ deleteClusterRoleBindingInRemoteCluster(c)

ClusterNext == \E c \in Clusters : ClusterStep(c) \/ ClusterEnsureCreatedFails(c)
=============================================================================
