-------------------------- MODULE PluginPresetStatus --------------------------
(* The PluginPreset controller once more, for what it writes into its Plugin  *)
(* and what it says about it: option values with overrides and expressions,   *)
(* the conditions, and the list of the Plugins it manages.  Who deletes what, *)
(* and when, for several clusters, is in PluginPresetController.              *)
EXTENDS PluginRelease

VARIABLES
    preset,        \* the PluginPreset
    presetStatus,  \* its status
    presetPass,    \* a pass of the controller, which has one worker
    presetQueue,   \* no request, one, or a retry
    cached         \* the cache of the controller has its Plugin

presetVars == <<preset, presetStatus, presetPass, presetQueue, cached>>

Mine == "preset"
Bad == 3           \* an expression that cannot be evaluated
Override == 2      \* the value of the override for the cluster

NewPresetStatus ==
    [empty |-> "Unknown", failed |-> "Unknown", noDefinition |-> "Unknown", allReady |-> "Unknown",
     listed |-> "none", version |-> Null, ready |-> "Unknown"]

PresetTypeOK ==
    /\ preset \in [stage : {"live", "deleting", "gone"}, value : {0, 1, Bad}, override : BOOLEAN]
    /\ presetStatus \in [empty : Statuses, failed : Statuses, noDefinition : Statuses, allReady : Statuses,
                         listed : {"none"} \cup Statuses, version : {Null, 0, 1}, ready : Statuses]
    /\ presetPass \in {NoPass} \cup [at : {"status"}, empty : BOOLEAN, refused : BOOLEAN, failed : BOOLEAN]
    /\ presetQueue \in {"none", "now", "retry"}
    /\ cached \in BOOLEAN

Cond(b) == IF b THEN "True" ELSE "False"

------------------------------------------------------------------------------
(* Who tells the controller.                                                  *)

\* Mutant: the Plugin that is gone is one that is being deleted.
PredicateIgnoreDeleted == FALSE

\* PredicatePluginWithStatusReadyChange: the status of the Ready condition differs;
\* PredicateIgnoreDeletingResources: no updates of what is being deleted.
PredicatePluginWithStatusReadyChange == status'[Mine].ready # status[Mine].ready
PredicateIgnoreDeletingResources == plugin'[Mine].stage = "live"
PluginDeleted == plugin'[Mine].stage = "absent" /\ plugin[Mine].stage # "absent"
OwnedPluginChanged ==
    \/ /\ plugin[Mine].stage # "absent" /\ PredicateIgnoreDeletingResources
       /\ plugin'[Mine].value # plugin[Mine].value \/ PredicatePluginWithStatusReadyChange
    \/ PluginDeleted
    \/ cached' /\ ~cached

\* enqueueAllPluginPresetsInNamespace if a label of the cluster changed,
\* enqueuePluginPresetsForPluginDefinition if the definition has a new generation.
enqueueAllPluginPresetsInNamespace == cluster'.match # cluster.match
enqueuePluginPresetsForPluginDefinition ==
    \/ definition'.version # definition.version
    \/ (definition'.state = "missing") # (definition.state = "missing")

\* The request after a step that leaves the request q.
presetWatch(q) ==
    presetQueue' = IF preset'.stage = "gone" THEN "none"
                   ELSE IF \/ OwnedPluginChanged \/ enqueueAllPluginPresetsInNamespace
                           \/ enqueuePluginPresetsForPluginDefinition \/ preset' # preset
                           \/ presetStatus' # presetStatus
                   THEN "now" ELSE q

------------------------------------------------------------------------------
(* The values of the Plugin.                                                  *)

\* applyOverridesToPreset comes first: what is overridden is not evaluated.
applyOverridesToPreset == IF preset.override THEN Override ELSE preset.value
resolveExpressionsForPreset(v) == IF v = Bad THEN {} ELSE {v}
resolvePluginOptionValuesForPreset == resolveExpressionsForPreset(applyOverridesToPreset)

listClusters == cluster.match
listPlugins == cached /\ plugin[Mine].stage # "absent"

\* cleanupPlugins
cleanupPlugins == IF listPlugins /\ ~listClusters /\ Live(Mine)
                  THEN [plugin EXCEPT ![Mine].stage = "deleting"] ELSE plugin

\* CreateOrUpdate is refused by the webhook of Plugins if there is no definition, and by
\* the API server if the Plugin is there already but not in the cache.
CreateOrUpdateFails(fails) ==
    \/ fails \/ resolvePluginOptionValuesForPreset = {} \/ ~GetPluginDefinitionSpec
    \/ ~cached /\ plugin[Mine].stage # "absent"

\* reconcilePluginPreset: the error text that would mean "no definition" is not one that
\* the webhook gives, so every error is one that is retried.
isPluginDefinitionNotFoundError == FALSE
reconcilePluginPreset ==
    [plugin EXCEPT ![Mine].value = CHOOSE v \in resolvePluginOptionValuesForPreset : TRUE,
                   ![Mine].stage = IF @ = "absent" THEN "live" ELSE @]

\* EnsureCreated, up to the statuses.
PresetEnsureCreated ==
    /\ presetPass = NoPass /\ presetQueue = "now" /\ preset.stage = "live"
    /\ UNCHANGED <<definition, cluster, mirror, replicated, status, release, pass, preset, presetStatus>>
    /\ \E fails \in BOOLEAN :
          LET refused == listClusters /\ CreateOrUpdateFails(fails)
          IN  /\ fails => listClusters /\ ~CreateOrUpdateFails(FALSE)
              /\ Mishap(fails)
              /\ plugin' = IF ~listClusters THEN cleanupPlugins
                           ELSE IF refused THEN plugin ELSE reconcilePluginPreset
              /\ cached' = (cached /\ plugin'[Mine].stage # "absent")
              /\ presetPass' = [at |-> "status", empty |-> ~listClusters, refused |-> refused,
                                failed |-> refused /\ ~isPluginDefinitionNotFoundError]
              /\ queue' = IF plugin' # plugin THEN [queue EXCEPT ![Mine] = "now"] ELSE queue
              /\ presetWatch("none")

------------------------------------------------------------------------------
(* Its status.                                                                *)

\* Mutant: the conditions that say why there is no Plugin are not looked at.
computeReadyOfPlugins(s) == IF s.allReady = "False" THEN "False" ELSE "True"

computeReadyCondition(s) ==
    IF "True" \in {s.failed, s.noDefinition, s.empty} \/ s.allReady = "False" THEN "False" ELSE "True"

\* reconcilePluginStatuses: a Plugin without a Ready condition is not counted.
pluginReadyCondition == IF listPlugins /\ status[Mine].ready # "nil" THEN status[Mine].ready ELSE "none"
reconcilePluginStatuses(s) ==
    [s EXCEPT !.listed = pluginReadyCondition, !.allReady = Cond(pluginReadyCondition = "True")]

\* reconcilePluginDefinitionVersion
reconcilePluginDefinitionVersion(s) ==
    [s EXCEPT !.version = IF GetPluginDefinitionSpec THEN definition.version ELSE Null,
              !.noDefinition = Cond(~GetPluginDefinitionSpec)]

\* setConditions and the patch of the status, which may be lost.  A pass that failed
\* leaves the list of Plugins as it was.
PresetSetConditions ==
    /\ presetPass.at = "status"
    /\ presetPass' = NoPass
    /\ UNCHANGED <<relVars, preset, cached>>
    /\ \E lost \in BOOLEAN :
          LET matched == [presetStatus EXCEPT !.empty = Cond(presetPass.empty), !.failed = Cond(presetPass.refused)]
              listed == IF presetPass.failed THEN matched ELSE reconcilePluginStatuses(matched)
              versioned == reconcilePluginDefinitionVersion(listed)
          IN  /\ Mishap(lost)
              /\ presetStatus' = IF lost \/ preset.stage = "gone" THEN presetStatus
                                 ELSE [versioned EXCEPT !.ready = computeReadyCondition(versioned)]
              /\ presetWatch(IF (presetPass.failed \/ lost) /\ presetQueue = "none" THEN "retry" ELSE presetQueue)

\* EnsureDeleted: it is Pending until there is no Plugin left, and waits for the event.
PresetEnsureDeleted ==
    /\ presetPass = NoPass /\ presetQueue = "now" /\ preset.stage = "deleting"
    /\ preset' = IF listPlugins THEN preset ELSE [preset EXCEPT !.stage = "gone"]
    /\ plugin' = IF listPlugins /\ Live(Mine) THEN [plugin EXCEPT ![Mine].stage = "deleting"] ELSE plugin
    /\ queue' = IF plugin' # plugin THEN [queue EXCEPT ![Mine] = "now"] ELSE queue
    /\ UNCHANGED <<definition, cluster, mirror, replicated, status, release, pass, presetStatus, presetPass,
                   cached, mishaps>>
    /\ presetWatch("none")

\* The garbage collector takes what a PluginPreset leaves that did not see its Plugin.
GarbageCollector ==
    /\ preset.stage = "gone" /\ Live(Mine)
    /\ plugin' = [plugin EXCEPT ![Mine].stage = "deleting"]
    /\ queue' = [queue EXCEPT ![Mine] = "now"]
    /\ UNCHANGED <<definition, cluster, mirror, replicated, status, release, pass, preset, presetStatus,
                   presetPass, cached, mishaps>>
    /\ presetWatch(presetQueue)

\* The Plugin that was created arrives in the cache.
DeliverPlugin ==
    /\ ~cached /\ plugin[Mine].stage # "absent"
    /\ cached' = TRUE
    /\ UNCHANGED <<relVars, preset, presetStatus, presetPass, mishaps>>
    /\ presetWatch(presetQueue)
==============================================================================
