----------------------- MODULE PluginPresetController -----------------------
(***************************************************************************)
(* The PluginPreset controller keeps one Plugin for each cluster that      *)
(* matches the selector of the PluginPreset.  It has one worker.  A pass   *)
(* lists clusters and Plugins, deletes the Plugins of clusters that are    *)
(* not in the list, and then creates or updates one Plugin after another;  *)
(* everybody else goes on meanwhile.                                       *)
(***************************************************************************)
EXTENDS Hub

PresetFinalizer ==
    LET seen == Seen("preset")
    IN  /\ presetPass.pc = "idle"
        /\ seen = server.preset
        /\ \/ seen.stage = "new" /\ PutPreset([seen EXCEPT !.stage = "live"])
           \/ seen.stage = "deleted" /\ PutPreset([seen EXCEPT !.stage = "absent"])
        /\ UNCHANGED <<cache, remote, installed, reachable, passes, history, counts>>

\* isPluginManagedByPreset, listPlugins
listPlugins == {p \in Plugins : Seen("plugin")[p].stage # "absent" /\ Seen("plugin")[p].managed}

listClusters == {c \in Clusters : Seen("cluster")[c].stage # "absent" /\ Seen("cluster")[c].match}

\* Mutants: clusters that are being deleted get Plugins; nothing is cleaned up.
FilterClustersBeingDeletedNot(cs) == cs

cleanupPluginsOfNone(cs) == {}

FilterClustersBeingDeleted(cs) == {c \in cs : Seen("cluster")[c].stage \in {"new", "live"}}

\* The Plugins that cleanupPlugins deletes, whatever the deletion policy.
cleanupPlugins(cs) == {p \in listPlugins : clusterOf(p) \notin cs}

PresetEnsureCreated ==
    /\ presetPass.pc = "idle"
    /\ Seen("preset").stage = "live"
    /\ server' = [server EXCEPT !.plugin = DeletedPlugins(cleanupPlugins(listClusters))]
    /\ presetPass' = [pc |-> "check", todo |-> FilterClustersBeingDeleted(listClusters)]
    /\ UNCHANGED <<cache, remote, installed, reachable, boot, closing, suspending, history, counts>>

\* reconcilePluginPreset looks first whether there is a Plugin of this name that
\* is somebody else's.
isPluginManagedByPreset(c) ==
    LET seen == Seen("plugin")[generatePluginName(c)]
    IN  /\ presetPass.pc = "check" /\ c \in presetPass.todo
        /\ presetPass' = IF seen.stage # "absent" /\ ~seen.managed
                         THEN [presetPass EXCEPT !.todo = @ \ {c}]
                         ELSE [pc |-> c, todo |-> presetPass.todo \ {c}]
        /\ UNCHANGED <<server, cache, remote, installed, reachable, boot, closing, suspending, history, counts>>

\* CreateOrUpdate looks again, and creates or updates.  What fails is tried again
\* by the next pass.
reconcilePluginPreset(c) ==
    LET p == generatePluginName(c)
        seen == Seen("plugin")[p]
    IN  /\ presetPass.pc = c
        /\ presetPass' = [presetPass EXCEPT !.pc = "check"]
        /\ \/ seen.stage = "absent" /\ CreatePlugin(p, TRUE)
           \/ /\ seen.stage = "absent" /\ UNCHANGED <<server, history>>
              /\ \/ server.plugin[p].stage # "absent"
                 \/ Seen("cluster")[c].stage = "absent"
           \/ /\ seen.stage # "absent"
              /\ server' = IF seen = server.plugin[p]
                           THEN [server EXCEPT !.plugin[p].managed = TRUE, !.plugin[p].owned = TRUE]
                           ELSE server
              /\ UNCHANGED history
        /\ UNCHANGED <<cache, remote, installed, reachable, boot, closing, suspending, counts>>

PassEnds ==
    /\ presetPass = [pc |-> "check", todo |-> {}]
    /\ presetPass' = IdlePass
    /\ UNCHANGED <<server, cache, remote, installed, reachable, boot, closing, suspending, history, counts>>

\* The result of the cleanup, recorded on the PluginPreset.
PresetDone(done) ==
    IF done /\ server.preset.stage = "deleting" THEN [server.preset EXCEPT !.stage = "deleted"]
    ELSE server.preset

\* Mutant: the owner references stay.
PresetEnsureDeletedKeepsOwner ==
    /\ presetPass.pc = "idle"
    /\ Seen("preset").stage = "deleting"
    /\ server' = [server EXCEPT !.preset = PresetDone(TRUE)]
    /\ UNCHANGED <<cache, remote, installed, reachable, passes, history, counts>>

\* Retain: the Plugins lose their owner.  Delete: they are deleted, and the pass
\* is repeated until there are none.
PresetEnsureDeleted ==
    /\ presetPass.pc = "idle"
    /\ Seen("preset").stage = "deleting"
    /\ server' = IF Seen("preset").policy = "Retain"
                 THEN [server EXCEPT !.preset = PresetDone(\A p \in listPlugins :
                                                   Seen("plugin")[p].owned => server.plugin[p].stage # "absent"),
                           !.plugin = [p \in Plugins |-> IF p \in listPlugins
                                                         THEN [server.plugin[p] EXCEPT !.owned = FALSE]
                                                         ELSE server.plugin[p]]]
                 ELSE [server EXCEPT !.preset = PresetDone(listPlugins = {}),
                                     !.plugin = DeletedPlugins(listPlugins)]
    /\ UNCHANGED <<cache, remote, installed, reachable, passes, history, counts>>

PresetStep ==
    \/ PresetFinalizer \/ PresetEnsureCreated \/ PresetEnsureDeleted \/ PassEnds
    \/ \E c \in Clusters : isPluginManagedByPreset(c) \/ reconcilePluginPreset(c)
=============================================================================
